---------------------------- MODULE ProbeProofs ----------------------------
(***************************************************************************)
(* Theorems about Probe, for every set of addresses, sources and workers,  *)
(* every buffer size and every maxReverifies.                              *)
(***************************************************************************)
EXTENDS Probe, StatsProofs, FiniteSetTheorems, SequenceTheorems

\* An update of one Stat keeps the map of them well typed.
LEMMA StatsType ==
  ASSUME stats \in [SourceIds -> Stat], NEW s \in SourceIds, NEW u \in Updates,
         Update(s, u)
  PROVE  stats' \in [SourceIds -> Stat]
  BY UpdateType DEF Update
----------------------------------------------------------------------------
(* Type correctness. *)

\* Receiving keeps every channel a sequence of verifies, and the head is one.
LEMMA ReceiveType ==
  ASSUME NEW V, chan \in [Channels -> Seq(V)], NEW c \in Channels, chan[c] # <<>>
  PROVE  /\ Head(chan[c]) \in V
         /\ Received(c) => chan' \in [Channels -> Seq(V)]
<1>1. chan[c] \in Seq(V)
  OBVIOUS
<1>2. Head(chan[c]) \in V /\ Tail(chan[c]) \in Seq(V)
  BY <1>1
<1>. QED  BY <1>2 DEF Received

\* A goroutine that comes to one send, or to two.
LEMMA PostType ==
  ASSUME NEW M, outbox \in [Goroutines -> Seq(M)], NEW g \in Goroutines,
         NEW sends \in Seq(M), Post(g, sends)
  PROVE  outbox' \in [Goroutines -> Seq(M)]
  BY DEF Post

LEMMA DeliverType ==
  ASSUME NEW V,
         chan \in [Channels -> Seq(V)],
         outbox \in [Goroutines -> Seq([ch : Channels, v : V])],
         NEW g \in Goroutines, Deliver(g)
  PROVE  /\ chan' \in [Channels -> Seq(V)]
         /\ outbox' \in [Goroutines -> Seq([ch : Channels, v : V])]
<1>. DEFINE M == [ch : Channels, v : V]
            m == Head(outbox[g])
<1>1. outbox[g] \in Seq(M) /\ outbox[g] # <<>>
  BY DEF Deliver, Free
<1>2. m \in M /\ Tail(outbox[g]) \in Seq(M)
  <2>. HIDE DEF M
  <2>. QED  BY <1>1
<1>3. chan[m.ch] \in Seq(V) /\ m.v \in V /\ m.ch \in Channels
  BY <1>2
<1>4. Append(chan[m.ch], m.v) \in Seq(V)
  BY <1>3
<1>5. chan' = [chan EXCEPT ![m.ch] = Append(@, m.v)]
  BY DEF Deliver
<1>6. outbox' = [outbox EXCEPT ![g] = Tail(@)]
  BY DEF Deliver
<1>7. chan' \in [Channels -> Seq(V)]
  <2>. HIDE DEF m
  <2>. QED  BY <1>3, <1>4, <1>5
<1>. QED  BY <1>2, <1>6, <1>7

LEMMA Goroutine ==
  /\ "main" \in Goroutines /\ "evictor" \in Goroutines /\ "api" \in Goroutines
  /\ Reverify \in SourceIds
  /\ \A r \in Reverifiers : r \in Goroutines
  /\ \A w \in Workers : w \in Goroutines
  /\ \A s \in Sources : s \in Goroutines /\ s \in SourceIds
  BY DEF Goroutines, SourceIds

LEMMA VerifyFields ==
  ASSUME NEW v \in Verify
  PROVE  v.proxy \in Proxies /\ v.source \in SourceIds /\ v.attempt \in Nat
  BY DEF Verify

LEMMA TypeInit == Init => TypeOK
<1>. SUFFICES ASSUME Init PROVE TypeOK
  OBVIOUS
<1>1. stats \in [SourceIds -> Stat]
  BY NoStatType DEF Init
<1>2. chan \in [Channels -> Seq(Verify)] /\ outbox \in [Goroutines -> Seq(Send)]
  BY DEF Init
<1>. QED  BY <1>1, <1>2 DEF Init, TypeOK

LEMMA TypeMain == TypeOK /\ main => TypeOK'
<1>. SUFFICES ASSUME TypeOK, main PROVE TypeOK'
  OBVIOUS
<1>. USE DEF Channels
<1>a. chan \in [Channels -> Seq(Verify)] /\ outbox \in [Goroutines -> Seq(Send)]
  BY DEF TypeOK
<1>b. LastReverified \in [Proxies -> Nat]
  BY DEF TypeOK
<1>c. Blacklist \subseteq Proxies /\ Seen \subseteq Proxies
  BY DEF TypeOK
<1>d. SeenSources \in [Proxies -> SUBSET SourceIds]
  BY DEF TypeOK
<1>e. stats \in [SourceIds -> Stat]
  BY DEF TypeOK
<1>1. CASE handleScheduled
  <2>. DEFINE v == Head(chan["scheduled"])
  <2>1. v \in Verify /\ chan' \in [Channels -> Seq(Verify)]
    BY <1>a, <1>1, ReceiveType DEF handleScheduled, AtSelect
  <2>. HIDE DEF v
  <2>2. v.proxy \in Proxies /\ v.source \in SourceIds
    BY <2>1, VerifyFields
  <2>3. SeenSources' \in [Proxies -> SUBSET SourceIds]
    BY <1>d, <1>1, <2>2 DEF handleScheduled, v
  <2>4. LastReverified' \in [Proxies -> Nat]
    <3>1. \/ LastReverified' = [LastReverified EXCEPT ![v.proxy] = 0]
          \/ UNCHANGED LastReverified
      BY <1>1 DEF handleScheduled, v
    <3>. QED  BY <1>b, <2>2, <3>1
  <2>5. stats' \in [SourceIds -> Stat]
    <3>1. PICK u \in {"Ignored", "New"} : Update(v.source, u)
      BY <1>1 DEF handleScheduled, v
    <3>. QED  BY <1>e, <2>2, <3>1, StatsType DEF Updates
  <2>6. outbox' \in [Goroutines -> Seq(Send)]
    <3>1. <<Msg("probing", v)>> \in Seq(Send)
      BY <2>1 DEF Msg, Send
    <3>2. CASE Post("main", <<Msg("probing", v)>>)
      BY <1>a, <3>1, <3>2, PostType, Goroutine
    <3>3. CASE UNCHANGED outbox
      BY <1>a, <3>3
    <3>. QED  BY <1>1, <3>2, <3>3 DEF handleScheduled, v
  <2>. QED  BY <1>1, <2>1, <2>3, <2>4, <2>5, <2>6 DEF handleScheduled, world, TypeOK
<1>2. CASE handleForget
  <2>. DEFINE v == Head(chan["forget"])
  <2>1. v \in Verify /\ chan' \in [Channels -> Seq(Verify)]
    BY <1>a, <1>2, ReceiveType DEF handleForget, AtSelect
  <2>. HIDE DEF v
  <2>2. v.proxy \in Proxies /\ v.source \in SourceIds
    BY <2>1, VerifyFields
  <2>3. stats' \in [SourceIds -> Stat]
    BY <1>2, <1>e, <2>2, StatsType DEF handleForget, Updates, v
  <2>4. LastReverified' \in [Proxies -> Nat] /\ Blacklist' \subseteq Proxies
    BY <1>b, <1>c, <1>2, <2>2 DEF handleForget, Blacklisted, v
  <2>. QED  BY <1>2, <2>1, <2>3, <2>4 DEF handleForget, world, TypeOK
<1>3. CASE handleTimeout
  <2>. DEFINE v == Head(chan["timeout"])
  <2>1. v \in Verify /\ chan' \in [Channels -> Seq(Verify)]
    BY <1>a, <1>3, ReceiveType DEF handleTimeout, AtSelect
  <2>. HIDE DEF v
  <2>2. v.proxy \in Proxies /\ v.source \in SourceIds /\ nextAttempt(v) \in Nat
    BY <2>1, VerifyFields DEF nextAttempt
  <2>3. stats' \in [SourceIds -> Stat]
    BY <1>3, <1>e, <2>2, StatsType DEF handleTimeout, Updates, v
  <2>4. LastReverified' \in [Proxies -> Nat]
    BY <1>b, <1>c, <1>3, <2>2 DEF handleTimeout, v
  <2>. QED  BY <1>3, <2>1, <2>3, <2>4 DEF handleTimeout, world, TypeOK
<1>4. CASE handleFound
  <2>. DEFINE v == Head(chan["found"])
  <2>1. v \in Verify /\ chan' \in [Channels -> Seq(Verify)]
    BY <1>a, <1>4, ReceiveType DEF handleFound, AtSelect
  <2>. HIDE DEF v
  <2>2. v.proxy \in Proxies
    BY <2>1, VerifyFields
  <2>3. LastReverified' \in [Proxies -> Nat] /\ Seen' \subseteq Proxies
    BY <1>b, <1>c, <1>4, <2>2 DEF handleFound, v
  <2>. QED  BY <1>4, <2>1, <2>3 DEF handleFound, world, TypeOK
<1>5. CASE handleReverify
  <2>1. \A p \in Proxies : Swap(p) \in Proxies
    BY DEF Swap, Proxies, Protos
  <2>2. /\ reverify' \in [Reverifiers -> {"none", "launch", "send"}]
        /\ batch' \in [Reverifiers -> SUBSET [proxy : Proxies, attempt : Nat]]
    <3>. DEFINE b == {[proxy |-> Swap(p), attempt |-> LastReverified[p]] :
                        p \in Backlog \ Exceeded}
    <3>1. b \subseteq [proxy : Proxies, attempt : Nat]
      BY <1>b, <2>1 DEF Backlog
    <3>2. UNCHANGED <<reverify, batch>> \/ Go(b)
      BY <1>5 DEF handleReverify
    <3>. HIDE DEF b
    <3>. QED  BY <3>1, <3>2 DEF Go, TypeOK
  <2>3. LastReverified' \in [Proxies -> Nat] /\ Blacklist' \subseteq Proxies
    BY <1>b, <1>c, <1>5 DEF handleReverify, AfterReverify, Blacklisted, Exceeded, Backlog
  <2>4. ForgetExceeded(stats[Reverify], Cardinality(Exceeded)) \in Stat
    <3>1. Cardinality(Exceeded) \in Nat
      <4>1. Exceeded \subseteq Proxies
        BY DEF Exceeded, Backlog
      <4>. QED  BY <4>1, ProbeAssumption, FS_Subset, FS_CardinalityType
    <3>2. stats[Reverify] \in Stat
      BY <1>e, Goroutine
    <3>3. Known(stats[Reverify]) \in Stat
      BY <3>2, KnownType
    <3>. DEFINE n == Cardinality(Exceeded)
                st == Known(stats[Reverify])
    <3>4. [st EXCEPT !.Probing = @ - n] \in Stat
      <4>1. n \in Nat /\ st \in Stat
        BY <3>1, <3>3
      <4>. HIDE DEF n, st
      <4>2. st.Probing - n \in Int
        BY <4>1 DEF Stat
      <4>. QED  BY <4>1, <4>2 DEF Stat
    <3>. QED  BY <3>2, <3>4, SettleType DEF ForgetExceeded
  <2>5. stats' \in [SourceIds -> Stat]
    BY <1>e, <1>5, <2>4 DEF handleReverify
  <2>6. inputs' \in [launches : Nat, signals : Nat, deletes : Nat, evictions : Nat,
                     early : Nat]
    <3>1. inputs' = [inputs EXCEPT !.early = @ + 1] \/ inputs' = inputs
      BY <1>5 DEF handleReverify, Ticked
    <3>2. inputs \in [launches : Nat, signals : Nat, deletes : Nat, evictions : Nat,
                       early : Nat]
      BY DEF TypeOK
    <3>. QED  BY <3>1, <3>2
  <2>7. UNCHANGED <<chan, outbox, Seen, SeenSources, checking, pool, feed,
                    pendingEviction, removing>>
    BY <1>5 DEF handleReverify
  <2>. QED  BY <2>2, <2>3, <2>5, <2>6, <2>7 DEF TypeOK
<1>. QED  BY <1>1, <1>2, <1>3, <1>4, <1>5 DEF main

LEMMA TypeReverifying ==
  ASSUME TypeOK, NEW r \in Reverifiers, reverifying(r)
  PROVE  TypeOK'
<1>a. outbox \in [Goroutines -> Seq(Send)] /\ stats \in [SourceIds -> Stat]
  BY DEF TypeOK
<1>1. CASE reverifyLaunch(r)
  <2>1. stats' \in [SourceIds -> Stat]
    BY <1>a, <1>1, StatsType, Goroutine DEF reverifyLaunch, Updates
  <2>. QED  BY <1>1, <2>1 DEF reverifyLaunch, TypeOK, maps, world
<1>2. CASE reverifySchedule(r)
  <2>1. PICK b \in batch[r] :
          /\ Update(Reverify, "Scheduled")
          /\ Post(r, <<Msg("scheduled", [proxy |-> b.proxy, source |-> Reverify,
                                         attempt |-> b.attempt])>>)
          /\ batch' = [batch EXCEPT ![r] = @ \ {b}]
    BY <1>2 DEF reverifySchedule
  <2>2. b.proxy \in Proxies /\ b.attempt \in Nat
    BY DEF TypeOK
  <2>3. <<Msg("scheduled", [proxy |-> b.proxy, source |-> Reverify,
                            attempt |-> b.attempt])>> \in Seq(Send)
    BY <2>2, Goroutine DEF Msg, Send, Verify, Channels
  <2>4. outbox' \in [Goroutines -> Seq(Send)]
    BY <1>a, <2>1, <2>3, PostType, Goroutine
  <2>5. stats' \in [SourceIds -> Stat]
    BY <1>a, <2>1, StatsType, Goroutine DEF Updates
  <2>6. batch' \in [Reverifiers -> SUBSET [proxy : Proxies, attempt : Nat]]
    BY <2>1 DEF TypeOK
  <2>. QED  BY <1>2, <2>4, <2>5, <2>6 DEF reverifySchedule, TypeOK, maps, world
<1>3. CASE reverifyFinish(r)
  <2>1. stats' \in [SourceIds -> Stat]
    BY <1>a, <1>3, StatsType, Goroutine DEF reverifyFinish, Updates
  <2>. QED  BY <1>3, <2>1 DEF reverifyFinish, TypeOK, maps, world
<1>. QED  BY <1>1, <1>2, <1>3 DEF reverifying

LEMMA TypeWorker ==
  ASSUME TypeOK, NEW w \in Workers, worker(w)
  PROVE  TypeOK'
<1>a. chan \in [Channels -> Seq(Verify)] /\ outbox \in [Goroutines -> Seq(Send)]
  BY DEF TypeOK
<1>b. stats \in [SourceIds -> Stat] /\ pool \in [Proxies -> Nat]
  BY DEF TypeOK
<1>c. checking \in [Workers -> Verify \cup {NoVerify}]
  BY DEF TypeOK
<1>. DEFINE v == checking[w]
<1>d. v # NoVerify => v \in Verify
  BY <1>c
<1>. HIDE DEF v
<1>1. CASE workerTake(w)
  <2>. DEFINE u == Head(chan["probing"])
  <2>1. u \in Verify /\ chan' \in [Channels -> Seq(Verify)]
    BY <1>a, <1>1, ReceiveType DEF workerTake, Channels
  <2>2. Update(u.source, "Probing") /\ checking' = [checking EXCEPT ![w] = u]
    BY <1>1 DEF workerTake
  <2>. HIDE DEF u
  <2>3. stats' \in [SourceIds -> Stat]
    BY <1>b, <2>1, <2>2, VerifyFields, StatsType DEF Updates
  <2>4. checking' \in [Workers -> Verify \cup {NoVerify}]
    BY <1>c, <2>1, <2>2
  <2>. QED  BY <1>1, <2>1, <2>3, <2>4 DEF workerTake, TypeOK, maps, world
<1>2. CASE workerError(w)
  <2>. DEFINE rescued == [v EXCEPT !.proxy = AsHttp(v.proxy)]
  <2>1. v \in Verify
    BY <1>d, <1>2 DEF workerError, v
  <2>2. rescued \in Verify
    BY <2>1 DEF AsHttp, Verify, Proxies, Protos
  <2>. HIDE DEF rescued
  <2>3. /\ Msg("timeout", rescued) \in Send
        /\ Msg("timeout", v) \in Send
        /\ Msg("forget", v) \in Send
    BY <2>1, <2>2 DEF Msg, Send, Channels
  <2>4. \/ Post(w, <<Msg("timeout", rescued), Msg("forget", v)>>)
        \/ Post(w, <<Msg("timeout", v)>>)
        \/ Post(w, <<Msg("forget", v)>>)
    BY <1>2 DEF workerError, v, rescued
  <2>5. /\ <<Msg("timeout", rescued), Msg("forget", v)>> \in Seq(Send)
        /\ <<Msg("timeout", v)>> \in Seq(Send)
        /\ <<Msg("forget", v)>> \in Seq(Send)
    BY <2>3
  <2>6. outbox' \in [Goroutines -> Seq(Send)]
    BY <1>a, <2>4, <2>5, PostType, Goroutine
  <2>7. checking' \in [Workers -> Verify \cup {NoVerify}]
    BY <1>c, <1>2 DEF workerError
  <2>. QED  BY <1>2, <2>6, <2>7 DEF workerError, TypeOK, maps, world
<1>3. CASE workerFound(w)
  <2>1. v \in Verify
    BY <1>d, <1>3 DEF workerFound, v
  <2>2. /\ Update(v.source, "Found")
        /\ pool' = [pool EXCEPT ![v.proxy] = @ + 1]
        /\ Post(w, <<Msg("found", v)>>)
    BY <1>3 DEF workerFound, v
  <2>3. v.proxy \in Proxies /\ v.source \in SourceIds
    BY <2>1, VerifyFields
  <2>4. stats' \in [SourceIds -> Stat] /\ pool' \in [Proxies -> Nat]
    BY <1>b, <2>2, <2>3, StatsType DEF Updates
  <2>5. <<Msg("found", v)>> \in Seq(Send)
    BY <2>1 DEF Msg, Send, Channels
  <2>6. outbox' \in [Goroutines -> Seq(Send)]
    BY <1>a, <2>2, <2>5, PostType, Goroutine
  <2>7. checking' \in [Workers -> Verify \cup {NoVerify}]
    BY <1>c, <1>3 DEF workerFound
  <2>. QED  BY <1>3, <2>4, <2>6, <2>7 DEF workerFound, TypeOK, maps, world
<1>. QED  BY <1>1, <1>2, <1>3 DEF worker

LEMMA ForgottenType ==
  ASSUME NEW p \in Proxies
  PROVE  Forgotten(p) \in Send
  BY Goroutine DEF Forgotten, Msg, Send, Verify, Channels

LEMMA TypeRemovals ==
  ASSUME TypeOK,
         \/ \E p \in Proxies : checkEviction(p)
         \/ gatherEvictions
         \/ \E p \in Listed : HttpDeletetByID(p)
         \/ deletePoolRemove
  PROVE  TypeOK'
<1>a. outbox \in [Goroutines -> Seq(Send)] /\ pool \in [Proxies -> Nat]
  BY DEF TypeOK
<1>b. pendingEviction \in Seq(Proxies) /\ removing \subseteq Proxies
  BY DEF TypeOK
<1>c. inputs \in [launches : Nat, signals : Nat, deletes : Nat, evictions : Nat,
                     early : Nat]
  BY DEF TypeOK
<1>1. ASSUME NEW p \in Proxies, checkEviction(p) PROVE TypeOK'
  <2>1. pool' \in [Proxies -> Nat]
    BY <1>a, <1>1 DEF checkEviction
  <2>2. pendingEviction' \in Seq(Proxies)
    BY <1>b, <1>1 DEF checkEviction
  <2>3. inputs' \in [launches : Nat, signals : Nat, deletes : Nat, evictions : Nat,
                     early : Nat]
    BY <1>c, <1>1 DEF checkEviction
  <2>. QED  BY <1>1, <2>1, <2>2, <2>3 DEF checkEviction, TypeOK, maps
<1>2. CASE gatherEvictions
  <2>. DEFINE sends == [i \in DOMAIN pendingEviction |-> Forgotten(pendingEviction[i])]
  <2>1. \A i \in DOMAIN pendingEviction : pendingEviction[i] \in Proxies
    BY <1>b
  <2>2. \A i \in DOMAIN pendingEviction : Forgotten(pendingEviction[i]) \in Send
    BY <2>1, ForgottenType
  <2>3. DOMAIN pendingEviction = 1..Len(pendingEviction) /\ Len(pendingEviction) \in Nat
    BY <1>b
  <2>4. sends \in [1..Len(pendingEviction) -> Send]
    BY <2>2, <2>3
  <2>5. sends \in Seq(Send)
    <3>. HIDE DEF sends
    <3>. QED  BY <2>3, <2>4, IsASeq
  <2>6. Post("evictor", sends)
    BY <1>2 DEF gatherEvictions
  <2>. HIDE DEF sends
  <2>7. outbox' \in [Goroutines -> Seq(Send)]
    BY <1>a, <2>5, <2>6, PostType, Goroutine
  <2>8. pendingEviction' \in Seq(Proxies)
    BY <1>2 DEF gatherEvictions
  <2>. QED  BY <1>2, <2>7, <2>8 DEF gatherEvictions, TypeOK, maps
<1>3. ASSUME NEW p \in Listed, HttpDeletetByID(p) PROVE TypeOK'
  <2>1. p \in Proxies
    BY ProbeAssumption
  <2>2. <<Forgotten(p)>> \in Seq(Send)
    BY <2>1, ForgottenType
  <2>3. outbox' \in [Goroutines -> Seq(Send)]
    BY <1>a, <1>3, <2>2, PostType, Goroutine DEF HttpDeletetByID
  <2>4. removing' \subseteq Proxies
    BY <1>3, <2>1 DEF HttpDeletetByID
  <2>5. inputs' \in [launches : Nat, signals : Nat, deletes : Nat, evictions : Nat,
                     early : Nat]
    BY <1>c, <1>3 DEF HttpDeletetByID
  <2>. QED  BY <1>3, <2>3, <2>4, <2>5 DEF HttpDeletetByID, TypeOK, maps
<1>4. CASE deletePoolRemove
  <2>1. pool' \in [Proxies -> Nat] /\ removing' \subseteq Proxies
    BY <1>a, <1>4 DEF deletePoolRemove
  <2>. QED  BY <1>4, <2>1 DEF deletePoolRemove, TypeOK, maps
<1>. QED  BY <1>1, <1>2, <1>3, <1>4

LEMMA TypeRefresh ==
  ASSUME TypeOK, NEW s \in Sources, refresh(s)
  PROVE  TypeOK'
<1>a. outbox \in [Goroutines -> Seq(Send)] /\ pool \in [Proxies -> Nat]
  BY DEF TypeOK
<1>b. stats \in [SourceIds -> Stat] /\ feed \in [Sources -> BOOLEAN]
  BY DEF TypeOK
<1>c. inputs \in [launches : Nat, signals : Nat, deletes : Nat, evictions : Nat,
                     early : Nat]
  BY DEF TypeOK
<1>1. CASE refreshLaunch(s)
  <2>1. stats' \in [SourceIds -> Stat]
    BY <1>b, <1>1, StatsType, Goroutine DEF refreshLaunch, Updates
  <2>2. feed' \in [Sources -> BOOLEAN]
    BY <1>b, <1>1 DEF refreshLaunch
  <2>3. inputs' \in [launches : Nat, signals : Nat, deletes : Nat, evictions : Nat,
                     early : Nat]
    BY <1>c, <1>1 DEF refreshLaunch
  <2>. QED  BY <1>1, <2>1, <2>2, <2>3 DEF refreshLaunch, TypeOK, maps
<1>2. ASSUME NEW p \in Listed, Schedule(s, p) PROVE TypeOK'
  <2>1. p \in Proxies
    BY ProbeAssumption
  <2>2. <<Msg("scheduled", [proxy |-> p, source |-> s, attempt |-> 0])>> \in Seq(Send)
    BY <2>1, Goroutine DEF Msg, Send, Verify, Channels
  <2>3. outbox' \in [Goroutines -> Seq(Send)]
    BY <1>a, <1>2, <2>2, PostType, Goroutine DEF Schedule
  <2>4. stats' \in [SourceIds -> Stat]
    BY <1>b, <1>2, StatsType, Goroutine DEF Schedule, Updates
  <2>5. inputs' \in [launches : Nat, signals : Nat, deletes : Nat, evictions : Nat,
                     early : Nat]
    BY <1>c, <1>2 DEF Schedule
  <2>. QED  BY <1>2, <2>3, <2>4, <2>5 DEF Schedule, TypeOK, maps
<1>3. ASSUME NEW p \in Listed, Forget(s, p) PROVE TypeOK'
  <2>1. p \in Proxies
    BY ProbeAssumption
  <2>2. <<Forgotten(p)>> \in Seq(Send)
    BY <2>1, ForgottenType
  <2>3. outbox' \in [Goroutines -> Seq(Send)]
    BY <1>a, <1>3, <2>2, PostType, Goroutine DEF Forget
  <2>4. pool' \in [Proxies -> Nat]
    BY <1>a, <1>3 DEF Forget
  <2>5. inputs' \in [launches : Nat, signals : Nat, deletes : Nat, evictions : Nat,
                     early : Nat]
    BY <1>c, <1>3 DEF Forget
  <2>. QED  BY <1>3, <2>3, <2>4, <2>5 DEF Forget, TypeOK, maps
<1>4. CASE refreshFinish(s)
  <2>1. stats' \in [SourceIds -> Stat]
    BY <1>b, <1>4, StatsType, Goroutine DEF refreshFinish, Updates
  <2>2. feed' \in [Sources -> BOOLEAN]
    BY <1>b, <1>4 DEF refreshFinish
  <2>. QED  BY <1>4, <2>1, <2>2 DEF refreshFinish, TypeOK, maps
<1>. QED  BY <1>1, <1>2, <1>3, <1>4 DEF refresh

LEMMA TypeStep == TypeOK /\ [Next]_vars => TypeOK'
<1>. SUFFICES ASSUME TypeOK, [Next]_vars PROVE TypeOK'
  OBVIOUS
<1>1. ASSUME NEW g \in Goroutines, Deliver(g) PROVE TypeOK'
  <2>1. chan \in [Channels -> Seq(Verify)] /\ outbox \in [Goroutines -> Seq(Send)]
    BY DEF TypeOK
  <2>2. chan' \in [Channels -> Seq(Verify)] /\ outbox' \in [Goroutines -> Seq(Send)]
    BY <1>1, <2>1, DeliverType DEF Send
  <2>. QED  BY <1>1, <2>2 DEF Deliver, TypeOK, maps, world
<1>2. CASE UNCHANGED vars
  BY <1>2 DEF vars, TypeOK
<1>. QED  BY <1>1, <1>2, TypeMain, TypeReverifying, TypeWorker, TypeRemovals, TypeRefresh
          DEF Next

\* Every reachable state of the probe is well typed: the messages in the
\* channels and in the hands of the goroutines are verifies, the maps of
\* type internal are keyed by proxies, and the stats are whole records.
THEOREM TypeCorrect == Spec => []TypeOK
  BY TypeInit, TypeStep, PTL DEF Spec
----------------------------------------------------------------------------
(* Attempts stay in range.  AttemptsInRange is inductive relative to        *)
(* TypeOK; Bounded is the same statement with the functions' domains.       *)

SendInRange == [ch : Channels, v : VerifyInRange]

Bounded ==
  /\ chan \in [Channels -> Seq(VerifyInRange)]
  /\ outbox \in [Goroutines -> Seq(SendInRange)]
  /\ checking \in [Workers -> VerifyInRange \cup {NoVerify}]
  /\ \A r \in Reverifiers : \A b \in batch[r] : b.attempt \in 1..maxReverifies
  /\ LastReverified \in [Proxies -> 0..(maxReverifies + 1)]

LEMMA BoundedIsInRange == TypeOK => (AttemptsInRange <=> Bounded)
<1>. SUFFICES ASSUME TypeOK PROVE AttemptsInRange <=> Bounded
  OBVIOUS
<1>1. /\ chan = [c \in Channels |-> chan[c]]
      /\ outbox = [g \in Goroutines |-> outbox[g]]
      /\ checking = [w \in Workers |-> checking[w]]
      /\ LastReverified = [p \in Proxies |-> LastReverified[p]]
  BY DEF TypeOK
<1>. QED  BY <1>1 DEF AttemptsInRange, Bounded, SendInRange

LEMMA InRangeFields ==
  ASSUME NEW v \in VerifyInRange
  PROVE  v.proxy \in Proxies /\ v.source \in SourceIds /\ v.attempt \in 0..maxReverifies
  BY DEF VerifyInRange

LEMMA FirstInRange ==
  ASSUME NEW p \in Proxies, NEW s \in SourceIds, NEW c \in Channels
  PROVE  Msg(c, [proxy |-> p, source |-> s, attempt |-> 0]) \in SendInRange
<1>1. 0 \in 0..maxReverifies
  BY ProbeAssumption
<1>. QED  BY <1>1 DEF Msg, SendInRange, VerifyInRange

LEMMA BoundedMain == TypeOK /\ Bounded /\ main => Bounded'
<1>. SUFFICES ASSUME TypeOK, Bounded, main PROVE Bounded'
  OBVIOUS
<1>. USE DEF Channels
<1>a. chan \in [Channels -> Seq(VerifyInRange)] /\ outbox \in [Goroutines -> Seq(SendInRange)]
  BY DEF Bounded
<1>b. LastReverified \in [Proxies -> 0..(maxReverifies + 1)]
  BY DEF Bounded
<1>c. maxReverifies \in Nat /\ 0 \in 0..(maxReverifies + 1)
  BY ProbeAssumption
<1>1. CASE handleScheduled
  <2>. DEFINE v == Head(chan["scheduled"])
  <2>1. v \in VerifyInRange /\ chan' \in [Channels -> Seq(VerifyInRange)]
    BY <1>a, <1>1, ReceiveType DEF handleScheduled, AtSelect
  <2>. HIDE DEF v
  <2>2. v.proxy \in Proxies
    BY <2>1, InRangeFields
  <2>3. LastReverified' \in [Proxies -> 0..(maxReverifies + 1)]
    <3>1. \/ LastReverified' = [LastReverified EXCEPT ![v.proxy] = 0]
          \/ UNCHANGED LastReverified
      BY <1>1 DEF handleScheduled, v
    <3>. QED  BY <1>b, <1>c, <2>2, <3>1
  <2>4. outbox' \in [Goroutines -> Seq(SendInRange)]
    <3>1. <<Msg("probing", v)>> \in Seq(SendInRange)
      BY <2>1 DEF Msg, SendInRange
    <3>2. CASE Post("main", <<Msg("probing", v)>>)
      BY <1>a, <3>1, <3>2, PostType, Goroutine
    <3>3. CASE UNCHANGED outbox
      BY <1>a, <3>3
    <3>. QED  BY <1>1, <3>2, <3>3 DEF handleScheduled, v
  <2>. QED  BY <1>1, <2>1, <2>3, <2>4 DEF handleScheduled, Bounded
<1>2. CASE handleForget
  <2>. DEFINE v == Head(chan["forget"])
  <2>1. v \in VerifyInRange /\ chan' \in [Channels -> Seq(VerifyInRange)]
    BY <1>a, <1>2, ReceiveType DEF handleForget, AtSelect
  <2>. HIDE DEF v
  <2>2. LastReverified' \in [Proxies -> 0..(maxReverifies + 1)]
    BY <1>b, <1>c, <1>2 DEF handleForget
  <2>. QED  BY <1>2, <2>1, <2>2 DEF handleForget, Bounded
<1>3. CASE handleTimeout
  <2>. DEFINE v == Head(chan["timeout"])
  <2>1. v \in VerifyInRange /\ chan' \in [Channels -> Seq(VerifyInRange)]
    BY <1>a, <1>3, ReceiveType DEF handleTimeout, AtSelect
  <2>. HIDE DEF v
  <2>2. nextAttempt(v) \in 0..(maxReverifies + 1)
    BY <1>c, <2>1, InRangeFields DEF nextAttempt
  <2>3. LastReverified' = [LastReverified EXCEPT ![v.proxy] = nextAttempt(v)]
    BY <1>3 DEF handleTimeout, v
  <2>4. LastReverified' \in [Proxies -> 0..(maxReverifies + 1)]
    BY <1>b, <2>2, <2>3
  <2>. QED  BY <1>3, <2>1, <2>4 DEF handleTimeout, Bounded
<1>4. CASE handleFound
  <2>1. chan' \in [Channels -> Seq(VerifyInRange)]
    BY <1>a, <1>4, ReceiveType DEF handleFound, AtSelect
  <2>2. LastReverified' \in [Proxies -> 0..(maxReverifies + 1)]
    BY <1>b, <1>c, <1>4 DEF handleFound
  <2>. QED  BY <1>4, <2>1, <2>2 DEF handleFound, Bounded
<1>5. CASE handleReverify
  <2>1. \A p \in Backlog \ Exceeded : LastReverified[p] \in 1..maxReverifies
    BY <1>b, <1>c DEF Backlog, Exceeded
  <2>2. \A r \in Reverifiers : \A b \in batch'[r] : b.attempt \in 1..maxReverifies
    <3>. DEFINE again == {[proxy |-> Swap(p), attempt |-> LastReverified[p]] :
                            p \in Backlog \ Exceeded}
    <3>1. \A b \in again : b.attempt \in 1..maxReverifies
      BY <2>1
    <3>2. UNCHANGED batch \/ Go(again)
      BY <1>5 DEF handleReverify
    <3>. HIDE DEF again
    <3>. QED  BY <3>1, <3>2 DEF Go, Bounded, TypeOK
  <2>3. LastReverified' \in [Proxies -> 0..(maxReverifies + 1)]
    BY <1>b, <1>c, <1>5 DEF handleReverify, AfterReverify
  <2>. QED  BY <1>5, <2>2, <2>3 DEF handleReverify, Bounded
<1>. QED  BY <1>1, <1>2, <1>3, <1>4, <1>5 DEF main

LEMMA BoundedWorker ==
  ASSUME Bounded, NEW w \in Workers, worker(w)
  PROVE  Bounded'
<1>a. chan \in [Channels -> Seq(VerifyInRange)] /\ outbox \in [Goroutines -> Seq(SendInRange)]
  BY DEF Bounded
<1>b. checking \in [Workers -> VerifyInRange \cup {NoVerify}]
  BY DEF Bounded
<1>. DEFINE v == checking[w]
<1>c. v # NoVerify => v \in VerifyInRange
  BY <1>b
<1>. HIDE DEF v
<1>1. CASE workerTake(w)
  <2>. DEFINE u == Head(chan["probing"])
  <2>1. u \in VerifyInRange /\ chan' \in [Channels -> Seq(VerifyInRange)]
    BY <1>a, <1>1, ReceiveType DEF workerTake, Channels
  <2>2. checking' = [checking EXCEPT ![w] = u]
    BY <1>1 DEF workerTake
  <2>. HIDE DEF u
  <2>3. checking' \in [Workers -> VerifyInRange \cup {NoVerify}]
    BY <1>b, <2>1, <2>2
  <2>. QED  BY <1>1, <2>1, <2>3 DEF workerTake, Bounded, maps
<1>2. CASE workerError(w)
  <2>. DEFINE rescued == [v EXCEPT !.proxy = AsHttp(v.proxy)]
  <2>1. v \in VerifyInRange
    BY <1>c, <1>2 DEF workerError, v
  <2>2. rescued \in VerifyInRange
    BY <2>1 DEF AsHttp, VerifyInRange, Proxies, Protos
  <2>. HIDE DEF rescued
  <2>3. /\ Msg("timeout", rescued) \in SendInRange
        /\ Msg("timeout", v) \in SendInRange
        /\ Msg("forget", v) \in SendInRange
    BY <2>1, <2>2 DEF Msg, SendInRange, Channels
  <2>4. \/ Post(w, <<Msg("timeout", rescued), Msg("forget", v)>>)
        \/ Post(w, <<Msg("timeout", v)>>)
        \/ Post(w, <<Msg("forget", v)>>)
    BY <1>2 DEF workerError, v, rescued
  <2>5. /\ <<Msg("timeout", rescued), Msg("forget", v)>> \in Seq(SendInRange)
        /\ <<Msg("timeout", v)>> \in Seq(SendInRange)
        /\ <<Msg("forget", v)>> \in Seq(SendInRange)
    BY <2>3
  <2>6. outbox' \in [Goroutines -> Seq(SendInRange)]
    BY <1>a, <2>4, <2>5, PostType, Goroutine
  <2>7. checking' \in [Workers -> VerifyInRange \cup {NoVerify}]
    BY <1>b, <1>2 DEF workerError
  <2>. QED  BY <1>2, <2>6, <2>7 DEF workerError, Bounded, maps
<1>3. CASE workerFound(w)
  <2>1. v \in VerifyInRange /\ Post(w, <<Msg("found", v)>>)
    BY <1>c, <1>3 DEF workerFound, v
  <2>2. <<Msg("found", v)>> \in Seq(SendInRange)
    BY <2>1 DEF Msg, SendInRange, Channels
  <2>3. outbox' \in [Goroutines -> Seq(SendInRange)]
    BY <1>a, <2>1, <2>2, PostType, Goroutine
  <2>4. checking' \in [Workers -> VerifyInRange \cup {NoVerify}]
    BY <1>b, <1>3 DEF workerFound
  <2>. QED  BY <1>3, <2>3, <2>4 DEF workerFound, Bounded, maps
<1>. QED  BY <1>1, <1>2, <1>3 DEF worker

LEMMA BoundedReverifying ==
  ASSUME TypeOK, Bounded, NEW r \in Reverifiers, reverifying(r)
  PROVE  Bounded'
<1>1. CASE reverifyLaunch(r) \/ reverifyFinish(r)
  BY <1>1 DEF reverifyLaunch, reverifyFinish, Bounded, maps
<1>2. CASE reverifySchedule(r)
  <2>1. PICK b \in batch[r] :
          /\ Post(r, <<Msg("scheduled", [proxy |-> b.proxy, source |-> Reverify,
                                         attempt |-> b.attempt])>>)
          /\ batch' = [batch EXCEPT ![r] = @ \ {b}]
    BY <1>2 DEF reverifySchedule
  <2>2. b.proxy \in Proxies
    BY DEF TypeOK
  <2>3. b.attempt \in 0..maxReverifies
    BY ProbeAssumption DEF Bounded
  <2>4. <<Msg("scheduled", [proxy |-> b.proxy, source |-> Reverify,
                            attempt |-> b.attempt])>> \in Seq(SendInRange)
    BY <2>2, <2>3, Goroutine DEF Msg, SendInRange, VerifyInRange, Channels
  <2>5. outbox' \in [Goroutines -> Seq(SendInRange)]
    BY <2>1, <2>4, PostType, Goroutine DEF Bounded
  <2>. QED  BY <1>2, <2>1, <2>5 DEF reverifySchedule, Bounded, maps
<1>. QED  BY <1>1, <1>2 DEF reverifying

LEMMA BoundedRemovals ==
  ASSUME TypeOK, Bounded,
         \/ \E p \in Proxies : checkEviction(p)
         \/ gatherEvictions
         \/ \E p \in Listed : HttpDeletetByID(p)
         \/ deletePoolRemove
  PROVE  Bounded'
<1>a. outbox \in [Goroutines -> Seq(SendInRange)] /\ pendingEviction \in Seq(Proxies)
  BY DEF Bounded, TypeOK
<1>b. \A p \in Proxies : Forgotten(p) \in SendInRange
  BY FirstInRange, Goroutine DEF Forgotten, Channels
<1>1. ASSUME NEW p \in Proxies, checkEviction(p) PROVE Bounded'
  BY <1>1 DEF checkEviction, Bounded, maps
<1>2. CASE gatherEvictions
  <2>. DEFINE sends == [i \in DOMAIN pendingEviction |-> Forgotten(pendingEviction[i])]
  <2>1. \A i \in DOMAIN pendingEviction : pendingEviction[i] \in Proxies
    BY <1>a
  <2>2. \A i \in DOMAIN pendingEviction : Forgotten(pendingEviction[i]) \in SendInRange
    BY <1>b, <2>1
  <2>3. DOMAIN pendingEviction = 1..Len(pendingEviction) /\ Len(pendingEviction) \in Nat
    BY <1>a
  <2>4. sends \in [1..Len(pendingEviction) -> SendInRange]
    BY <2>2, <2>3
  <2>5. sends \in Seq(SendInRange)
    <3>. HIDE DEF sends
    <3>. QED  BY <2>3, <2>4, IsASeq
  <2>6. Post("evictor", sends)
    BY <1>2 DEF gatherEvictions
  <2>. HIDE DEF sends
  <2>7. outbox' \in [Goroutines -> Seq(SendInRange)]
    BY <1>a, <2>5, <2>6, PostType, Goroutine
  <2>. QED  BY <1>2, <2>7 DEF gatherEvictions, Bounded, maps
<1>3. ASSUME NEW p \in Listed, HttpDeletetByID(p) PROVE Bounded'
  <2>1. <<Forgotten(p)>> \in Seq(SendInRange)
    BY <1>b, ProbeAssumption
  <2>2. outbox' \in [Goroutines -> Seq(SendInRange)]
    BY <1>a, <1>3, <2>1, PostType, Goroutine DEF HttpDeletetByID
  <2>. QED  BY <1>3, <2>2 DEF HttpDeletetByID, Bounded, maps
<1>4. CASE deletePoolRemove
  BY <1>4 DEF deletePoolRemove, Bounded, maps
<1>. QED  BY <1>1, <1>2, <1>3, <1>4

LEMMA BoundedRefresh ==
  ASSUME Bounded, NEW s \in Sources, refresh(s)
  PROVE  Bounded'
<1>a. outbox \in [Goroutines -> Seq(SendInRange)]
  BY DEF Bounded
<1>1. CASE refreshLaunch(s) \/ refreshFinish(s)
  BY <1>1 DEF refreshLaunch, refreshFinish, Bounded, maps
<1>2. ASSUME NEW p \in Listed, Schedule(s, p) PROVE Bounded'
  <2>1. <<Msg("scheduled", [proxy |-> p, source |-> s, attempt |-> 0])>> \in Seq(SendInRange)
    BY FirstInRange, ProbeAssumption, Goroutine DEF Channels
  <2>2. outbox' \in [Goroutines -> Seq(SendInRange)]
    BY <1>a, <1>2, <2>1, PostType, Goroutine DEF Schedule
  <2>. QED  BY <1>2, <2>2 DEF Schedule, Bounded, maps
<1>3. ASSUME NEW p \in Listed, Forget(s, p) PROVE Bounded'
  <2>1. <<Forgotten(p)>> \in Seq(SendInRange)
    BY FirstInRange, ProbeAssumption, Goroutine DEF Forgotten, Channels
  <2>2. outbox' \in [Goroutines -> Seq(SendInRange)]
    BY <1>a, <1>3, <2>1, PostType, Goroutine DEF Forget
  <2>. QED  BY <1>3, <2>2 DEF Forget, Bounded, maps
<1>. QED  BY <1>1, <1>2, <1>3 DEF refresh

LEMMA BoundedStep == TypeOK /\ Bounded /\ [Next]_vars => Bounded'
<1>. SUFFICES ASSUME TypeOK, Bounded, [Next]_vars PROVE Bounded'
  OBVIOUS
<1>1. ASSUME NEW g \in Goroutines, Deliver(g) PROVE Bounded'
  <2>1. /\ chan \in [Channels -> Seq(VerifyInRange)]
        /\ outbox \in [Goroutines -> Seq(SendInRange)]
    BY DEF Bounded
  <2>2. /\ chan' \in [Channels -> Seq(VerifyInRange)]
        /\ outbox' \in [Goroutines -> Seq(SendInRange)]
    BY <1>1, <2>1, DeliverType DEF SendInRange
  <2>. QED  BY <1>1, <2>2 DEF Deliver, Bounded, maps
<1>2. CASE UNCHANGED vars
  BY <1>2 DEF vars, Bounded
<1>. QED  BY <1>1, <1>2, BoundedMain, BoundedReverifying, BoundedWorker,
             BoundedRemovals, BoundedRefresh DEF Next

\* No item is probed beyond its maxReverifies-th reverification and the
\* attempts of the backlog stay in the array HttpGet indexes with them,
\* whatever the goroutines, the rescue of HTTP proxies, the swap of
\* protocols and the removals do.
THEOREM AttemptsStayInRange == Spec => []AttemptsInRange
<1>1. Init => Bounded
  <2>. SUFFICES ASSUME Init PROVE Bounded
    OBVIOUS
  <2>1. 0 \in 0..(maxReverifies + 1)
    BY ProbeAssumption
  <2>. QED  BY <2>1 DEF Init, Bounded
<1>2. TypeOK /\ Bounded => AttemptsInRange
  BY BoundedIsInRange
<1>. QED  BY <1>1, <1>2, BoundedStep, TypeCorrect, PTL DEF Spec
----------------------------------------------------------------------------
(* One reverify batch at a time. *)

\* As long as no tick was early, at most one reverify goroutine is at work, and
\* while it sends its Stat runs and has not been told of the end.
Batches ==
  inputs.early = 0 =>
    /\ \A r \in Reverifiers :
         reverify[r] = "send" => IsRunning(stats[Reverify]) /\ ~stats[Reverify].finished
    /\ \A r, q \in Reverifiers : reverify[r] # "none" /\ reverify[q] # "none" => r = q

LEMMA ItemKeepsBatch ==
  ASSUME TypeOK, Batches, NEW s \in SourceIds, NEW u \in Updates,
         s = Reverify => u \notin {"Finished", "FinishedErr"},
         Update(s, u), UNCHANGED reverify, inputs'.early = inputs.early
  PROVE  Batches'
<1>1. stats \in [SourceIds -> Stat] /\ stats[Reverify] \in Stat
  BY Goroutine DEF TypeOK
<1>2. CASE s = Reverify
  <2>1. stats'[Reverify] = handleUpdate(stats[Reverify], u)
    BY <1>1, <1>2 DEF Update
  <2>. QED  BY <1>1, <1>2, <2>1, ItemKeepsRunning DEF Batches
<1>3. CASE s # Reverify
  <2>1. stats'[Reverify] = stats[Reverify]
    BY <1>1, <1>3, Goroutine DEF Update
  <2>. QED  BY <2>1 DEF Batches, IsRunning
<1>. QED  BY <1>2, <1>3

LEMMA BatchStep == TypeOK /\ Batches /\ [Next]_vars => Batches'
<1>. SUFFICES ASSUME TypeOK, Batches, [Next]_vars PROVE Batches'
  OBVIOUS
<1>a. chan \in [Channels -> Seq(Verify)] /\ checking \in [Workers -> Verify \cup {NoVerify}]
  BY DEF TypeOK
<1>b. \A c \in Channels : chan[c] # <<>> => Head(chan[c]).source \in SourceIds
  <2>. SUFFICES ASSUME NEW c \in Channels, chan[c] # <<>>
                PROVE  Head(chan[c]).source \in SourceIds
    OBVIOUS
  <2>1. chan[c] \in Seq(Verify)
    BY <1>a
  <2>2. Head(chan[c]) \in Verify
    BY <2>1
  <2>. QED  BY <2>2, VerifyFields
<1>c. stats[Reverify] \in Stat /\ stats \in [SourceIds -> Stat]
  BY Goroutine DEF TypeOK
<1>1. CASE UNCHANGED <<stats, reverify>> /\ inputs'.early = inputs.early
  BY <1>1 DEF Batches, IsRunning
<1>2. CASE handleScheduled
  <2>1. PICK u \in {"Ignored", "New"} : Update(Head(chan["scheduled"]).source, u)
    BY <1>2 DEF handleScheduled
  <2>. QED  BY <1>b, <1>2, <2>1, ItemKeepsBatch
            DEF handleScheduled, AtSelect, Channels, Updates, world
<1>3. CASE handleForget
  BY <1>b, <1>3, ItemKeepsBatch DEF handleForget, AtSelect, Channels, Updates, world
<1>4. CASE handleTimeout
  BY <1>b, <1>4, ItemKeepsBatch DEF handleTimeout, AtSelect, Channels, Updates, world
<1>5. CASE handleReverify
  <2>. SUFFICES ASSUME inputs'.early = 0
                PROVE  /\ \A r \in Reverifiers : reverify'[r] # "send"
                       /\ \A r, q \in Reverifiers :
                            reverify'[r] # "none" /\ reverify'[q] # "none" => r = q
    BY DEF Batches
  <2>1. inputs.early = 0 /\ ~Early
    BY <1>5 DEF handleReverify, Ticked, TypeOK
  <2>2. \A r \in Reverifiers : reverify[r] = "none"
    BY <1>5, <2>1 DEF handleReverify, Batches, Early, TypeOK
  <2>3. UNCHANGED reverify \/ \E b : Go(b)
    BY <1>5 DEF handleReverify
  <2>4. CASE UNCHANGED reverify
    BY <2>2, <2>4
  <2>5. ASSUME NEW b, Go(b)
        PROVE  \E r \in Reverifiers : reverify' = [reverify EXCEPT ![r] = "launch"]
    BY <2>5 DEF Go
  <2>. QED  BY <2>2, <2>3, <2>4, <2>5 DEF TypeOK
<1>6. ASSUME NEW r \in Reverifiers, reverifyLaunch(r) PROVE Batches'
  <2>1. stats'[Reverify] = Settle(Launched)
    BY <1>c, <1>6, Goroutine DEF reverifyLaunch, Update, handleUpdate, Count
  <2>2. Settle(Launched) = Launched
    BY DEF Settle, Launched
  <2>3. IsRunning(stats'[Reverify]) /\ ~stats'[Reverify].finished
    BY <2>1, <2>2 DEF IsRunning, Launched
  <2>4. inputs' = inputs /\ reverify[r] # "none"
    BY <1>6 DEF reverifyLaunch, world
  <2>5. reverify' = [reverify EXCEPT ![r] = "send"]
    BY <1>6 DEF reverifyLaunch
  <2>. QED  BY <2>3, <2>4, <2>5 DEF Batches, TypeOK
<1>7. ASSUME NEW r \in Reverifiers, reverifySchedule(r) PROVE Batches'
  BY <1>7, ItemKeepsBatch, Goroutine DEF reverifySchedule, Updates, world
<1>8. ASSUME NEW r \in Reverifiers, reverifyFinish(r) PROVE Batches'
  <2>1. inputs' = inputs /\ reverify[r] # "none"
    BY <1>8 DEF reverifyFinish, world
  <2>2. reverify' = [reverify EXCEPT ![r] = "none"]
    BY <1>8 DEF reverifyFinish
  <2>. QED  BY <2>1, <2>2 DEF Batches, TypeOK
<1>9. ASSUME NEW w \in Workers, worker(w) PROVE Batches'
  <2>1. CASE workerTake(w)
    BY <1>b, <2>1, ItemKeepsBatch DEF workerTake, Channels, Updates, world
  <2>2. CASE workerError(w)
    BY <1>1, <2>2 DEF workerError, world
  <2>3. CASE workerFound(w)
    <3>1. checking[w] \in Verify
      BY <1>a, <2>3 DEF workerFound
    <3>2. checking[w].source \in SourceIds
      BY <3>1, VerifyFields
    <3>. QED  BY <2>3, <3>2, ItemKeepsBatch DEF workerFound, Updates, world
  <2>. QED  BY <1>9, <2>1, <2>2, <2>3 DEF worker
<1>10. ASSUME NEW s \in Sources, refresh(s) PROVE Batches'
  <2>1. s # Reverify /\ s \in SourceIds
    BY ProbeAssumption, Goroutine
  <2>2. CASE refreshLaunch(s)
    BY <2>1, <2>2, ItemKeepsBatch DEF refreshLaunch, Updates, TypeOK
  <2>3. CASE \E p \in Listed : Schedule(s, p)
    BY <2>1, <2>3, ItemKeepsBatch DEF Schedule, Updates, TypeOK
  <2>4. CASE \E p \in Listed : Forget(s, p)
    BY <1>1, <2>4 DEF Forget, TypeOK
  <2>5. CASE refreshFinish(s)
    <3>1. PICK u \in {"Finished", "FinishedErr"} : Update(s, u)
      BY <2>5 DEF refreshFinish
    <3>. QED  BY <2>1, <2>5, <3>1, ItemKeepsBatch DEF refreshFinish, Updates
  <2>. QED  BY <1>10, <2>2, <2>3, <2>4, <2>5 DEF refresh
<1>11. CASE handleFound
  BY <1>1, <1>11 DEF handleFound, world
<1>12. ASSUME NEW g \in Goroutines, Deliver(g) PROVE Batches'
  BY <1>1, <1>12 DEF Deliver, world
<1>13. CASE \/ \E p \in Proxies : checkEviction(p)
            \/ gatherEvictions
            \/ \E p \in Listed : HttpDeletetByID(p)
            \/ deletePoolRemove
  BY <1>1, <1>13 DEF checkEviction, gatherEvictions, HttpDeletetByID, deletePoolRemove, TypeOK
<1>14. CASE UNCHANGED vars
  BY <1>1, <1>14 DEF vars
<1>. QED
  BY <1>2, <1>3, <1>4, <1>5, <1>6, <1>7, <1>8, <1>9, <1>10, <1>11, <1>12, <1>13, <1>14
     DEF Next, main, reverifying

\* Two reverify goroutines are at work at once only after a tick that came
\* before the last one had launched its batch: from the launch to the finish the
\* IsRunning check of handleReverify holds off the next, even though removals
\* report items under the same source id that it never scheduled.
THEOREM OneReverifyBatchAtATime == Spec => []OneReverifyBatch
<1>1. Init => Batches
  BY DEF Init, Batches
<1>2. TypeOK /\ Batches => OneReverifyBatch
  BY DEF TypeOK, Batches, OneReverifyBatch
<1>. QED  BY <1>1, <1>2, BatchStep, TypeCorrect, PTL DEF Spec
----------------------------------------------------------------------------
(* What the steps do to the proxies under way to a channel: Queued(c) is    *)
(* what the channel holds and what the goroutines are about to send to it.  *)

InChan(c) == {chan[c][i].proxy : i \in DOMAIN chan[c]}

\* The proxies that the sends of one goroutine take to channel c.
Named(sends, c) == {sends[i].v.proxy : i \in {j \in DOMAIN sends : sends[j].ch = c}}

Posted(c) == UNION {Named(outbox[g], c) : g \in Goroutines}

LEMMA QueuedParts ==
  ASSUME NEW c
  PROVE  Queued(c) = InChan(c) \cup Posted(c)
  BY DEF Queued, InChan, Posted, Named

\* Receiving from c takes one message off c: its proxy is the only one that
\* may leave, and the other channels keep theirs.
LEMMA InChanReceived ==
  ASSUME chan \in [Channels -> Seq(Verify)], NEW c \in Channels, chan[c] # <<>>,
         Received(c)
  PROVE  /\ InChan(c) \subseteq InChan(c)' \cup {Head(chan[c]).proxy}
         /\ InChan(c)' \subseteq InChan(c)
         /\ \A d \in Channels \ {c} : InChan(d)' = InChan(d)
<1>. DEFINE q == chan[c]
<1>1. q \in Seq(Verify) /\ q # <<>>
  OBVIOUS
<1>2. chan'[c] = Tail(q) /\ \A d \in Channels \ {c} : chan'[d] = chan[d]
  BY DEF Received
<1>. HIDE DEF q
<1>3. /\ DOMAIN Tail(q) = 1..(Len(q) - 1)
      /\ \A i \in 1..(Len(q) - 1) : Tail(q)[i] = q[i + 1]
      /\ DOMAIN q = 1..Len(q) /\ Len(q) \in Nat /\ Head(q) = q[1]
  BY <1>1
<1>4. ASSUME NEW p \in InChan(c), p # Head(q).proxy PROVE p \in InChan(c)'
  <2>1. PICK i \in DOMAIN q : q[i].proxy = p
    BY DEF InChan, q
  <2>2. i # 1 /\ i - 1 \in 1..(Len(q) - 1) /\ q[(i - 1) + 1] = q[i]
    BY <1>3, <1>4, <2>1
  <2>3. Tail(q)[i - 1].proxy = p /\ i - 1 \in DOMAIN Tail(q)
    BY <1>3, <2>1, <2>2
  <2>. QED  BY <1>2, <2>3 DEF InChan
<1>5. ASSUME NEW p \in InChan(c)' PROVE p \in InChan(c)
  <2>1. PICK i \in DOMAIN Tail(q) : Tail(q)[i].proxy = p
    BY <1>2 DEF InChan
  <2>2. i + 1 \in DOMAIN q /\ q[i + 1].proxy = p
    BY <1>3, <2>1
  <2>. QED  BY <2>2 DEF InChan, q
<1>6. \A d \in Channels \ {c} : InChan(d)' = InChan(d)
  BY <1>2 DEF InChan
<1>. QED  BY <1>4, <1>5, <1>6 DEF q

\* A goroutine with no sends left comes to the next: nothing is overwritten.
LEMMA PostedPost ==
  ASSUME outbox \in [Goroutines -> Seq(Send)], NEW g \in Goroutines, Free(g),
         NEW sends, Post(g, sends), NEW c
  PROVE  Posted(c)' = Posted(c) \cup Named(sends, c)
<1>1. outbox'[g] = sends /\ \A h \in Goroutines \ {g} : outbox'[h] = outbox[h]
  BY DEF Post
<1>2. Named(outbox[g], c) = {}
  BY DEF Named, Free
<1>3. \A h \in Goroutines \ {g} : Named(outbox'[h], c) = Named(outbox[h], c)
  BY <1>1
<1>4. Posted(c)' = UNION {Named(outbox'[h], c) : h \in Goroutines}
  BY DEF Posted, Named
<1>. HIDE DEF Named
<1>. QED  BY <1>1, <1>2, <1>3, <1>4 DEF Posted

\* A send that goes through moves its proxy from the goroutine to the channel.
LEMMA QueuedDeliver ==
  ASSUME TypeOK, NEW g \in Goroutines, Deliver(g), NEW c \in Channels
  PROVE  Queued(c)' = Queued(c)
<1>. DEFINE o == outbox[g]
            m == Head(o)
<1>1. chan \in [Channels -> Seq(Verify)] /\ outbox \in [Goroutines -> Seq(Send)]
  BY DEF TypeOK
<1>2. o \in Seq(Send) /\ o # <<>>
  BY <1>1 DEF Deliver, Free
<1>3. /\ chan' = [chan EXCEPT ![m.ch] = Append(@, m.v)]
      /\ outbox' = [outbox EXCEPT ![g] = Tail(@)]
  BY DEF Deliver
<1>4. outbox'[g] = Tail(o) /\ \A h \in Goroutines \ {g} : outbox'[h] = outbox[h]
  BY <1>1, <1>3
<1>. HIDE DEF o
<1>5. m \in Send
  BY <1>2
<1>6. m.ch \in Channels /\ m.v \in Verify
  BY <1>5 DEF Send
<1>7. /\ DOMAIN Tail(o) = 1..(Len(o) - 1)
      /\ \A i \in 1..(Len(o) - 1) : Tail(o)[i] = o[i + 1]
      /\ DOMAIN o = 1..Len(o) /\ Len(o) \in Nat /\ m = o[1] /\ 1 \in DOMAIN o
  BY <1>2
<1>. HIDE DEF m
<1>8. Named(o, c) = Named(Tail(o), c) \cup (IF m.ch = c THEN {m.v.proxy} ELSE {})
  <2>1. ASSUME NEW p \in Named(o, c)
        PROVE  p \in Named(Tail(o), c) \/ (m.ch = c /\ p = m.v.proxy)
    <3>1. PICK i \in DOMAIN o : o[i].ch = c /\ o[i].v.proxy = p
      BY DEF Named
    <3>2. CASE i = 1
      BY <1>7, <3>1, <3>2
    <3>3. CASE i # 1
      <4>1. i - 1 \in DOMAIN Tail(o) /\ Tail(o)[i - 1] = o[i]
        <5>1. i - 1 \in 1..(Len(o) - 1) /\ (i - 1) + 1 = i
          BY <1>7, <3>3
        <5>. QED  BY <1>7, <5>1
      <4>. QED  BY <3>1, <4>1 DEF Named
    <3>. QED  BY <3>2, <3>3
  <2>2. ASSUME NEW p \in Named(Tail(o), c) PROVE p \in Named(o, c)
    <3>1. PICK i \in DOMAIN Tail(o) : Tail(o)[i].ch = c /\ Tail(o)[i].v.proxy = p
      BY DEF Named
    <3>2. i + 1 \in DOMAIN o /\ o[i + 1] = Tail(o)[i]
      BY <1>7
    <3>. QED  BY <3>1, <3>2 DEF Named
  <2>3. m.ch = c => m.v.proxy \in Named(o, c)
    BY <1>7 DEF Named
  <2>. QED  BY <2>1, <2>2, <2>3
<1>9. InChan(c)' = InChan(c) \cup (IF m.ch = c THEN {m.v.proxy} ELSE {})
  <2>1. CASE m.ch # c
    <3>1. chan'[c] = chan[c]
      BY <1>1, <1>3, <2>1
    <3>. QED  BY <2>1, <3>1 DEF InChan
  <2>2. CASE m.ch = c
    <3>1. chan'[c] = Append(chan[c], m.v) /\ chan[c] \in Seq(Verify)
      BY <1>1, <1>3, <2>2
    <3>. DEFINE q == chan[c]
                r == Append(q, m.v)
    <3>2. q \in Seq(Verify) /\ chan'[c] = r
      BY <3>1
    <3>. HIDE DEF q
    <3>3. /\ DOMAIN r = 1..(Len(q) + 1) /\ DOMAIN q = 1..Len(q) /\ Len(q) \in Nat
          /\ r[Len(q) + 1] = m.v
          /\ \A i \in 1..Len(q) : r[i] = q[i]
      BY <1>6, <3>2
    <3>. HIDE DEF r
    <3>4. {r[i].proxy : i \in DOMAIN r} = {q[i].proxy : i \in DOMAIN q} \cup {m.v.proxy}
      <4>1. DOMAIN r = DOMAIN q \cup {Len(q) + 1}
        BY <3>3
      <4>. QED  BY <3>3, <4>1
    <3>. QED  BY <2>2, <3>2, <3>4 DEF InChan, q
  <2>. QED  BY <2>1, <2>2
<1>10. Posted(c) = Posted(c)' \cup (IF m.ch = c THEN {m.v.proxy} ELSE {})
  <2>1. Posted(c)' = UNION {Named(outbox'[h], c) : h \in Goroutines}
    BY DEF Posted, Named
  <2>2. \A h \in Goroutines : Named(outbox[h], c) =
          IF h = g THEN Named(outbox'[h], c) \cup (IF m.ch = c THEN {m.v.proxy} ELSE {})
                   ELSE Named(outbox'[h], c)
    BY <1>4, <1>8 DEF o
  <2>. HIDE DEF Named
  <2>. QED  BY <2>1, <2>2 DEF Posted
<1>11. Queued(c)' = InChan(c)' \cup Posted(c)'
  BY DEF Queued, InChan, Posted, Named
<1>. QED  BY <1>9, <1>10, <1>11, QueuedParts

LEMMA QueuedPost ==
  ASSUME TypeOK, NEW g \in Goroutines, Free(g), NEW sends, Post(g, sends),
         UNCHANGED chan, NEW c
  PROVE  Queued(c)' = Queued(c) \cup Named(sends, c)
<1>1. Posted(c)' = Posted(c) \cup Named(sends, c)
  BY PostedPost DEF TypeOK
<1>2. InChan(c)' = InChan(c)
  BY DEF InChan
<1>3. Queued(c)' = InChan(c)' \cup Posted(c)'
  BY DEF Queued, InChan, Posted, Named
<1>. QED  BY <1>1, <1>2, <1>3, QueuedParts

LEMMA QueuedReceived ==
  ASSUME TypeOK, NEW c \in Channels, chan[c] # <<>>, Received(c), UNCHANGED outbox
  PROVE  /\ Queued(c) \subseteq Queued(c)' \cup {Head(chan[c]).proxy}
         /\ Queued(c)' \subseteq Queued(c)
         /\ Head(chan[c]).proxy \in Queued(c)
         /\ \A d \in Channels \ {c} : Queued(d)' = Queued(d)
<1>1. chan \in [Channels -> Seq(Verify)]
  BY DEF TypeOK
<1>2. \A d : Posted(d)' = Posted(d)
  BY DEF Posted, Named
<1>3. \A d : Queued(d)' = InChan(d)' \cup Posted(d)'
  BY DEF Queued, InChan, Posted, Named
<1>4. Head(chan[c]).proxy \in InChan(c)
  <2>1. chan[c] \in Seq(Verify)
    BY <1>1
  <2>2. 1 \in DOMAIN chan[c] /\ Head(chan[c]) = chan[c][1]
    BY <2>1
  <2>. QED  BY <2>2 DEF InChan
<1>. QED  BY <1>1, <1>2, <1>3, <1>4, QueuedParts, InChanReceived

\* A worker inside checker.Check has no send to make.
CheckingIsFree == \A w \in Workers : checking[w] # NoVerify => Free(w)

LEMMA CheckingIsFreeStep == TypeOK /\ CheckingIsFree /\ [Next]_vars => CheckingIsFree'
<1>. SUFFICES ASSUME TypeOK, CheckingIsFree, [Next]_vars, NEW w \in Workers,
                     checking'[w] # NoVerify
              PROVE  outbox'[w] = <<>>
  BY DEF CheckingIsFree, Free
<1>a. w \in Goroutines /\ outbox \in [Goroutines -> Seq(Send)]
  BY Goroutine DEF TypeOK
<1>b. w \notin Sources \cup Reverifiers /\ w \notin {"main", "evictor", "api"}
  BY GoroutinesAssumption
<1>c. checking \in [Workers -> Verify \cup {NoVerify}]
  BY DEF TypeOK
<1>d. CASE checking'[w] = checking[w] /\ outbox'[w] = outbox[w]
  BY <1>d DEF CheckingIsFree, Free
<1>1. ASSUME NEW g \in Goroutines, Deliver(g) PROVE outbox'[w] = <<>>
  <2>1. g # w
    BY <1>1 DEF Deliver, CheckingIsFree
  <2>. QED  BY <1>a, <1>d, <1>1, <2>1 DEF Deliver
<1>2. CASE main
  <2>1. UNCHANGED outbox \/ \E sends : Post("main", sends)
    BY <1>2 DEF main, handleScheduled, handleForget, handleTimeout, handleFound, handleReverify
  <2>2. UNCHANGED checking
    BY <1>2 DEF main, handleScheduled, handleForget, handleTimeout, handleFound, handleReverify
  <2>. QED  BY <1>a, <1>b, <1>d, <2>1, <2>2 DEF Post
<1>3. ASSUME NEW r \in Reverifiers, reverifying(r) PROVE outbox'[w] = <<>>
  <2>1. w # r
    BY <1>b
  <2>. QED  BY <1>a, <1>d, <1>3, <2>1
            DEF reverifying, reverifyLaunch, reverifySchedule, reverifyFinish, Post
<1>4. ASSUME NEW x \in Workers, worker(x) PROVE outbox'[w] = <<>>
  <2>1. CASE workerTake(x)
    <3>1. CASE x = w
      BY <1>a, <2>1, <3>1 DEF workerTake, Free
    <3>2. CASE x # w
      BY <1>c, <1>d, <2>1, <3>2 DEF workerTake
    <3>. QED  BY <3>1, <3>2
  <2>2. CASE workerError(x) \/ workerFound(x)
    <3>1. checking' = [checking EXCEPT ![x] = NoVerify] /\ \E sends : Post(x, sends)
      BY <2>2 DEF workerError, workerFound
    <3>2. x # w
      BY <1>c, <3>1
    <3>. QED  BY <1>a, <1>c, <1>d, <3>1, <3>2 DEF Post
  <2>. QED  BY <1>4, <2>1, <2>2 DEF worker
<1>5. CASE \/ \E p \in Proxies : checkEviction(p)
           \/ gatherEvictions
           \/ \E p \in Listed : HttpDeletetByID(p)
           \/ deletePoolRemove
  BY <1>a, <1>b, <1>d, <1>5
     DEF checkEviction, gatherEvictions, HttpDeletetByID, deletePoolRemove, Post
<1>6. ASSUME NEW s \in Sources, refresh(s) PROVE outbox'[w] = <<>>
  <2>1. w # s
    BY <1>b
  <2>. QED  BY <1>a, <1>d, <1>6, <2>1
            DEF refresh, refreshLaunch, Schedule, Forget, refreshFinish, Post
<1>7. CASE UNCHANGED vars
  BY <1>d, <1>7 DEF vars
<1>. QED  BY <1>1, <1>2, <1>3, <1>4, <1>5, <1>6, <1>7 DEF Next
----------------------------------------------------------------------------
(* No proxy falls between the goroutines.  NoProxyLost is inductive         *)
(* relative to TypeOK and CheckingIsFree: a worker that reports a verdict   *)
(* overwrites no send it has not made.                                      *)

Accounted(p) ==
  \/ p \in Seen \cup Blacklist
  \/ LastReverified[p] > 0
  \/ p \in Queued("probing") \cup Checked
  \/ p \in Queued("forget") \cup Queued("timeout") \cup Queued("found")

LEMMA NoProxyLostIs ==
  NoProxyLost <=> \A p \in Proxies : SeenSources[p] # {} => Accounted(p)
  BY DEF NoProxyLost, Accounted

\* The steps of everyone but internal.main and the workers only add sends.
LEMMA LostQuiet ==
  ASSUME NoProxyLost, UNCHANGED <<maps, checking>>,
         \A c \in Channels : Queued(c) \subseteq Queued(c)'
  PROVE  NoProxyLost'
<1>1. Checked' = Checked
  BY DEF Checked
<1>2. \A p \in Proxies : Accounted(p) => Accounted(p)'
  BY <1>1 DEF Accounted, maps, Channels
<1>. QED  BY <1>2 DEF NoProxyLost, Accounted, maps

LEMMA QueuedSame ==
  ASSUME UNCHANGED <<chan, outbox>>, NEW c
  PROVE  Queued(c)' = Queued(c)
  BY DEF Queued

LEMMA LostMain == TypeOK /\ NoProxyLost /\ main => NoProxyLost'
<1>. SUFFICES ASSUME TypeOK, NoProxyLost, main, NEW p \in Proxies, SeenSources'[p] # {}
              PROVE  Accounted(p)'
  BY DEF NoProxyLost, Accounted
<1>. USE DEF Channels
<1>a. chan \in [Channels -> Seq(Verify)] /\ outbox \in [Goroutines -> Seq(Send)]
  BY DEF TypeOK
<1>b. LastReverified \in [Proxies -> Nat] /\ SeenSources \in [Proxies -> SUBSET SourceIds]
  BY DEF TypeOK
<1>c. SeenSources[p] # {} => Accounted(p)
  BY NoProxyLostIs
<1>d. ASSUME UNCHANGED checking PROVE Checked' = Checked
  BY <1>d DEF Checked
<1>1. CASE handleScheduled
  <2>. DEFINE v == Head(chan["scheduled"])
  <2>1. v \in Verify
    BY <1>a, <1>1, ReceiveType DEF handleScheduled, AtSelect
  <2>2. \A c \in Channels \ {"scheduled"} : Queued(c) \subseteq Queued(c)'
    <3>. TAKE c \in Channels \ {"scheduled"}
    <3>1. chan["scheduled"] # <<>> /\ Received("scheduled") /\ Free("main")
      BY <1>1 DEF handleScheduled, AtSelect
    <3>2. InChan(c)' = InChan(c)
      BY <1>a, <3>1, InChanReceived
    <3>3. Posted(c) \subseteq Posted(c)'
      <4>1. CASE UNCHANGED outbox
        BY <4>1 DEF Posted, Named
      <4>2. CASE Post("main", <<Msg("probing", v)>>)
        BY <1>a, <3>1, <4>2, PostedPost, Goroutine
      <4>. QED  BY <1>1, <4>1, <4>2 DEF handleScheduled
    <3>4. Queued(c)' = InChan(c)' \cup Posted(c)'
      BY DEF Queued, InChan, Posted, Named
    <3>. QED  BY <3>2, <3>3, <3>4, QueuedParts
  <2>3. Post("main", <<Msg("probing", v)>>) => v.proxy \in Queued("probing")'
    <3>. SUFFICES ASSUME Post("main", <<Msg("probing", v)>>)
                  PROVE  v.proxy \in Queued("probing")'
      OBVIOUS
    <3>1. Posted("probing")' = Posted("probing") \cup Named(<<Msg("probing", v)>>, "probing")
      BY <1>a, <1>1, PostedPost, Goroutine DEF handleScheduled, AtSelect
    <3>2. Queued("probing")' = InChan("probing")' \cup Posted("probing")'
      BY DEF Queued, InChan, Posted, Named
    <3>. HIDE DEF v
    <3>3. v.proxy \in Named(<<Msg("probing", v)>>, "probing")
      BY DEF Named, Msg
    <3>. QED  BY <3>1, <3>2, <3>3
  <2>4. /\ Blacklist' = Blacklist /\ Seen' = Seen /\ Checked' = Checked
        /\ SeenSources' = [SeenSources EXCEPT ![v.proxy] = @ \cup {v.source}]
    BY <1>d, <1>1 DEF handleScheduled
  <2>5. CASE p # v.proxy
    <3>1. SeenSources'[p] = SeenSources[p]
      BY <1>b, <2>4, <2>5
    <3>2. LastReverified'[p] = LastReverified[p]
      BY <1>b, <1>1, <2>5 DEF handleScheduled
    <3>. QED  BY <1>c, <2>2, <2>4, <3>1, <3>2 DEF Accounted
  <2>6. CASE p = v.proxy
    <3>1. \/ p \in Blacklist \cup Seen
          \/ LastReverified[p] > 0 /\ UNCHANGED LastReverified
          \/ Post("main", <<Msg("probing", v)>>)
      BY <1>1, <2>6 DEF handleScheduled
    <3>. QED  BY <2>3, <2>4, <2>6, <3>1 DEF Accounted
  <2>. QED  BY <2>5, <2>6
<1>2. CASE handleForget
  <2>. DEFINE v == Head(chan["forget"])
  <2>1. /\ Queued("forget") \subseteq Queued("forget")' \cup {v.proxy}
        /\ \A d \in Channels \ {"forget"} : Queued(d)' = Queued(d)
    BY <1>2, QueuedReceived DEF handleForget, AtSelect
  <2>2. /\ LastReverified' = [LastReverified EXCEPT ![v.proxy] = 0]
        /\ Blacklist' = Blacklist \cup {v.proxy} /\ Seen' = Seen
        /\ SeenSources' = SeenSources /\ Checked' = Checked
    BY <1>d, <1>2 DEF handleForget, Blacklisted
  <2>. HIDE DEF v
  <2>3. p = v.proxy \/ LastReverified'[p] = LastReverified[p]
    BY <1>b, <2>2
  <2>. QED  BY <1>c, <2>1, <2>2, <2>3 DEF Accounted
<1>3. CASE handleTimeout
  <2>. DEFINE v == Head(chan["timeout"])
  <2>1. /\ Queued("timeout") \subseteq Queued("timeout")' \cup {v.proxy}
        /\ \A d \in Channels \ {"timeout"} : Queued(d)' = Queued(d)
    BY <1>3, QueuedReceived DEF handleTimeout, AtSelect
  <2>2. /\ LastReverified' = [LastReverified EXCEPT ![v.proxy] = nextAttempt(v)]
        /\ Blacklist' = Blacklist /\ Seen' = Seen
        /\ SeenSources' = SeenSources /\ Checked' = Checked
    BY <1>d, <1>3 DEF handleTimeout
  <2>3. v \in Verify
    BY <1>a, <1>3, ReceiveType DEF handleTimeout, AtSelect
  <2>. HIDE DEF v
  <2>4. nextAttempt(v) > 0
    BY <2>3, VerifyFields DEF nextAttempt
  <2>5. \/ p = v.proxy /\ LastReverified'[p] > 0
        \/ p # v.proxy /\ LastReverified'[p] = LastReverified[p]
    BY <1>b, <2>2, <2>4
  <2>. QED  BY <1>c, <2>1, <2>2, <2>5 DEF Accounted
<1>4. CASE handleFound
  <2>. DEFINE v == Head(chan["found"])
  <2>1. /\ Queued("found") \subseteq Queued("found")' \cup {v.proxy}
        /\ \A d \in Channels \ {"found"} : Queued(d)' = Queued(d)
    BY <1>4, QueuedReceived DEF handleFound, AtSelect
  <2>2. /\ LastReverified' = [LastReverified EXCEPT ![v.proxy] = 0]
        /\ Blacklist' = Blacklist /\ Seen' = Seen \cup {v.proxy}
        /\ SeenSources' = SeenSources /\ Checked' = Checked
    BY <1>d, <1>4 DEF handleFound
  <2>. HIDE DEF v
  <2>3. p = v.proxy \/ LastReverified'[p] = LastReverified[p]
    BY <1>b, <2>2
  <2>. QED  BY <1>c, <2>1, <2>2, <2>3 DEF Accounted
<1>5. CASE handleReverify
  <2>1. \A c \in Channels : Queued(c)' = Queued(c)
    BY <1>5, QueuedSame DEF handleReverify
  <2>2. /\ LastReverified'[p] = AfterReverify(p)
        /\ Blacklist' = Blacklist \cup Exceeded /\ Seen' = Seen
        /\ SeenSources' = SeenSources /\ Checked' = Checked
    BY <1>d, <1>5 DEF handleReverify, Blacklisted
  <2>3. p \in Exceeded \/ LastReverified'[p] = LastReverified[p]
    BY <2>2 DEF AfterReverify
  <2>. QED  BY <1>c, <2>1, <2>2, <2>3 DEF Accounted
<1>. QED  BY <1>1, <1>2, <1>3, <1>4, <1>5 DEF main

LEMMA LostWorker ==
  ASSUME TypeOK, CheckingIsFree, NoProxyLost, NEW w \in Workers, worker(w)
  PROVE  NoProxyLost'
<1>. USE DEF Channels
<1>. DEFINE v == checking[w]
<1>a. checking \in [Workers -> Verify \cup {NoVerify}] /\ w \in Goroutines
  BY Goroutine DEF TypeOK
<1>b. UNCHANGED maps
  BY DEF worker, workerTake, workerError, workerFound
<1>c. SUFFICES ASSUME NEW p \in Proxies, Accounted(p)
               PROVE  Accounted(p)'
  BY <1>b DEF NoProxyLost, Accounted, maps
<1>1. CASE workerTake(w)
  <2>. DEFINE u == Head(chan["probing"])
  <2>1. /\ Queued("probing") \subseteq Queued("probing")' \cup {u.proxy}
        /\ \A d \in Channels \ {"probing"} : Queued(d)' = Queued(d)
    BY <1>1, QueuedReceived DEF workerTake
  <2>2. u \in Verify
    BY <1>1, ReceiveType DEF workerTake, TypeOK
  <2>3. checking' = [checking EXCEPT ![w] = u] /\ checking[w] = NoVerify
    BY <1>1 DEF workerTake
  <2>. HIDE DEF u
  <2>4. u # NoVerify
    BY <2>2, ProbeAssumption
  <2>5. Checked \subseteq Checked' /\ u.proxy \in Checked'
    <3>1. checking'[w] = u /\ \A x \in Workers \ {w} : checking'[x] = checking[x]
      BY <1>a, <2>3
    <3>. QED  BY <2>3, <2>4, <3>1 DEF Checked
  <2>. QED  BY <1>b, <1>c, <2>1, <2>5 DEF Accounted, maps
<1>2. CASE workerError(w) \/ workerFound(w)
  <2>1. v # NoVerify /\ checking' = [checking EXCEPT ![w] = NoVerify] /\ UNCHANGED chan
    BY <1>2 DEF workerError, workerFound
  <2>2. Free(w)
    BY <2>1 DEF CheckingIsFree
  <2>3. PICK sends :
          /\ Post(w, sends)
          /\ \/ v.proxy \in Named(sends, "forget")
             \/ v.proxy \in Named(sends, "timeout")
             \/ v.proxy \in Named(sends, "found")
    <3>. HIDE DEF v
    <3>1. \A c : v.proxy \in Named(<<Msg(c, v)>>, c)
      BY DEF Named, Msg
    <3>2. \A u : v.proxy \in Named(<<Msg("timeout", u), Msg("forget", v)>>, "forget")
      BY DEF Named, Msg
    <3>. QED  BY <1>2, <3>1, <3>2 DEF workerError, workerFound, v
  <2>. HIDE DEF v
  <2>4. \A c : Queued(c)' = Queued(c) \cup Named(sends, c)
    BY <1>a, <2>1, <2>2, <2>3, QueuedPost
  <2>5. Checked \subseteq Checked' \cup {v.proxy}
    BY <1>a, <2>1 DEF Checked, v
  <2>. QED  BY <1>b, <1>c, <2>3, <2>4, <2>5 DEF Accounted, maps
<1>. QED  BY <1>1, <1>2 DEF worker

LEMMA LostStep == TypeOK /\ CheckingIsFree /\ NoProxyLost /\ [Next]_vars => NoProxyLost'
<1>. SUFFICES ASSUME TypeOK, CheckingIsFree, NoProxyLost, [Next]_vars PROVE NoProxyLost'
  OBVIOUS
<1>a. CASE UNCHANGED <<maps, checking, chan, outbox>>
  BY <1>a, LostQuiet, QueuedSame
<1>b. ASSUME NEW g \in Goroutines, Free(g), \E sends : Post(g, sends),
             UNCHANGED <<maps, checking, chan>>
      PROVE  NoProxyLost'
  BY <1>b, LostQuiet, QueuedPost
<1>1. ASSUME NEW g \in Goroutines, Deliver(g) PROVE NoProxyLost'
  <2>1. \A c \in Channels : Queued(c)' = Queued(c)
    BY <1>1, QueuedDeliver
  <2>2. UNCHANGED <<maps, checking>>
    BY <1>1 DEF Deliver
  <2>. QED  BY <2>1, <2>2, LostQuiet
<1>2. CASE main
  BY <1>2, LostMain
<1>3. CASE \E r \in Reverifiers : reverifyLaunch(r) \/ reverifyFinish(r)
  BY <1>a, <1>3 DEF reverifyLaunch, reverifyFinish
<1>4. CASE \E r \in Reverifiers : reverifySchedule(r)
  BY <1>b, <1>4, Goroutine DEF reverifySchedule
<1>5. ASSUME NEW w \in Workers, worker(w) PROVE NoProxyLost'
  BY <1>5, LostWorker
<1>6. CASE (\E p \in Proxies : checkEviction(p)) \/ deletePoolRemove
  BY <1>a, <1>6 DEF checkEviction, deletePoolRemove
<1>7. CASE gatherEvictions \/ \E p \in Listed : HttpDeletetByID(p)
  BY <1>b, <1>7, Goroutine DEF gatherEvictions, HttpDeletetByID
<1>8. ASSUME NEW s \in Sources, refresh(s) PROVE NoProxyLost'
  <2>1. CASE refreshLaunch(s) \/ refreshFinish(s)
    BY <1>a, <2>1 DEF refreshLaunch, refreshFinish
  <2>2. CASE \E p \in Listed : Schedule(s, p) \/ Forget(s, p)
    BY <1>b, <2>2, Goroutine DEF Schedule, Forget
  <2>. QED  BY <1>8, <2>1, <2>2 DEF refresh
<1>9. CASE UNCHANGED vars
  BY <1>a, <1>9 DEF vars, maps
<1>. QED  BY <1>1, <1>2, <1>3, <1>4, <1>5, <1>6, <1>7, <1>8, <1>9 DEF Next, reverifying

LEMMA CheckingIsFreeInit == Init => CheckingIsFree
  BY Goroutine DEF Init, CheckingIsFree, Free

\* No proxy that internal.main has taken from a source is ever lost: with any
\* number of workers and any buffer size, it is decided, in the reverify
\* backlog, in a worker, or in a message on its way to a handler that will
\* decide it or put it into the backlog.
THEOREM NoProxyIsLost == Spec => []NoProxyLost
<1>1. Init => NoProxyLost
  BY DEF Init, NoProxyLost
<1>. QED  BY <1>1, CheckingIsFreeInit, CheckingIsFreeStep, LostStep, TypeCorrect, PTL DEF Spec
----------------------------------------------------------------------------
(* A proxy of Seen is in the pool or on its way to the blacklist.  A proxy  *)
(* is put into the pool before the message that makes it Seen is sent, so   *)
(* the statement must hold of what is under way to handleFound too, and a   *)
(* removal through the API has sent its forget message before the entries   *)
(* are dropped.                                                             *)

Vouched(p) ==
  \/ pool[p] > 0
  \/ p \in Blacklist \cup Queued("forget")
  \/ \E i \in DOMAIN pendingEviction : pendingEviction[i] = p

FoundInPool ==
  /\ \A p \in Seen \cup Queued("found") : Vouched(p)
  /\ removing \subseteq Blacklist \cup Queued("forget")

LEMMA FoundInPoolImplies == FoundInPool => SeenInPool
  BY DEF FoundInPool, SeenInPool, Vouched

LEMMA QueuedType ==
  ASSUME TypeOK, NEW c \in Channels
  PROVE  Queued(c) \subseteq Proxies
<1>1. \A g \in Goroutines : outbox[g] \in Seq(Send)
  BY DEF TypeOK
<1>2. chan[c] \in Seq(Verify)
  BY DEF TypeOK
<1>3. \A i \in DOMAIN chan[c] : chan[c][i].proxy \in Proxies
  <2>1. \A i \in DOMAIN chan[c] : chan[c][i] \in Verify
    BY <1>2
  <2>. QED  BY <2>1, VerifyFields
<1>4. \A g \in Goroutines : \A i \in DOMAIN outbox[g] : outbox[g][i].v.proxy \in Proxies
  <2>1. \A g \in Goroutines : \A i \in DOMAIN outbox[g] : outbox[g][i] \in Send
    BY <1>1
  <2>2. \A m \in Send : m.v \in Verify
    BY DEF Send
  <2>. QED  BY <2>1, <2>2, VerifyFields
<1>. QED  BY <1>3, <1>4 DEF Queued

\* Steps that leave the pool alone and send no found message.
LEMMA FoundQuiet ==
  ASSUME FoundInPool, UNCHANGED <<Blacklist, Seen, pool, pendingEviction, removing>>,
         Queued("forget") \subseteq Queued("forget")', Queued("found")' \subseteq Queued("found")
  PROVE  FoundInPool'
<1>1. \A p : Vouched(p) => Vouched(p)'
  BY DEF Vouched
<1>. QED  BY <1>1 DEF FoundInPool

LEMMA FoundMain == TypeOK /\ FoundInPool /\ main => FoundInPool'
<1>. SUFFICES ASSUME TypeOK, FoundInPool, main PROVE FoundInPool'
  OBVIOUS
<1>. USE DEF Channels
<1>a. chan \in [Channels -> Seq(Verify)] /\ outbox \in [Goroutines -> Seq(Send)]
  BY DEF TypeOK
<1>b. UNCHANGED <<pool, pendingEviction, removing>>
  BY DEF main, handleScheduled, handleForget, handleTimeout, handleFound, handleReverify, world
<1>1. CASE handleScheduled
  <2>1. chan["scheduled"] # <<>> /\ Received("scheduled") /\ Free("main")
    BY <1>1 DEF handleScheduled, AtSelect
  <2>2. ASSUME NEW c \in {"forget", "found"} PROVE Queued(c)' = Queued(c)
    <3>1. InChan(c)' = InChan(c)
      BY <1>a, <2>1, InChanReceived
    <3>2. Posted(c)' = Posted(c)
      <4>1. CASE UNCHANGED outbox
        BY <4>1 DEF Posted, Named
      <4>2. ASSUME Post("main", <<Msg("probing", Head(chan["scheduled"]))>>)
            PROVE  Posted(c)' = Posted(c)
        <5>1. Named(<<Msg("probing", Head(chan["scheduled"]))>>, c) = {}
          BY DEF Named, Msg
        <5>2. Posted(c)' = Posted(c) \cup Named(<<Msg("probing", Head(chan["scheduled"]))>>, c)
          BY <1>a, <2>1, <4>2, PostedPost, Goroutine
        <5>. QED  BY <5>1, <5>2
      <4>. QED  BY <1>1, <4>1, <4>2 DEF handleScheduled
    <3>3. Queued(c)' = InChan(c)' \cup Posted(c)'
      BY DEF Queued, InChan, Posted, Named
    <3>. QED  BY <3>1, <3>2, <3>3, QueuedParts
  <2>3. UNCHANGED <<Blacklist, Seen>>
    BY <1>1 DEF handleScheduled
  <2>. QED  BY <1>b, <2>2, <2>3, FoundQuiet
<1>2. CASE handleForget
  <2>. DEFINE v == Head(chan["forget"])
  <2>1. /\ Queued("forget") \subseteq Queued("forget")' \cup {v.proxy}
        /\ Queued("found")' = Queued("found")
    BY <1>2, QueuedReceived DEF handleForget, AtSelect
  <2>2. Blacklist' = Blacklist \cup {v.proxy} /\ Seen' = Seen
    BY <1>2 DEF handleForget, Blacklisted
  <2>. HIDE DEF v
  <2>3. \A p : Vouched(p) => Vouched(p)'
    BY <1>b, <2>1, <2>2 DEF Vouched
  <2>. QED  BY <1>b, <2>1, <2>2, <2>3 DEF FoundInPool
<1>3. CASE handleTimeout
  <2>1. Queued("forget")' = Queued("forget") /\ Queued("found")' = Queued("found")
    BY <1>3, QueuedReceived DEF handleTimeout, AtSelect
  <2>. QED  BY <1>b, <1>3, <2>1, FoundQuiet DEF handleTimeout
<1>4. CASE handleFound
  <2>. DEFINE v == Head(chan["found"])
  <2>1. /\ Queued("found")' \subseteq Queued("found") /\ v.proxy \in Queued("found")
        /\ Queued("forget")' = Queued("forget")
    BY <1>4, QueuedReceived DEF handleFound, AtSelect
  <2>2. Seen' = Seen \cup {v.proxy} /\ Blacklist' = Blacklist
    BY <1>4 DEF handleFound
  <2>. HIDE DEF v
  <2>3. \A p : Vouched(p) => Vouched(p)'
    BY <1>b, <2>1, <2>2 DEF Vouched
  <2>. QED  BY <1>b, <2>1, <2>2, <2>3 DEF FoundInPool
<1>5. CASE handleReverify
  <2>1. \A c : Queued(c)' = Queued(c)
    BY <1>5, QueuedSame DEF handleReverify
  <2>2. Blacklist \subseteq Blacklist' /\ Seen' = Seen
    BY <1>5 DEF handleReverify, Blacklisted
  <2>3. \A p : Vouched(p) => Vouched(p)'
    BY <1>b, <2>1, <2>2 DEF Vouched
  <2>. QED  BY <1>b, <2>1, <2>2, <2>3 DEF FoundInPool
<1>. QED  BY <1>1, <1>2, <1>3, <1>4, <1>5 DEF main

LEMMA FoundWorker ==
  ASSUME TypeOK, CheckingIsFree, FoundInPool, NEW w \in Workers, worker(w)
  PROVE  FoundInPool'
<1>. USE DEF Channels
<1>. DEFINE v == checking[w]
<1>a. checking \in [Workers -> Verify \cup {NoVerify}] /\ w \in Goroutines
  BY Goroutine DEF TypeOK
<1>b. UNCHANGED <<Blacklist, Seen, pendingEviction, removing>>
  BY DEF worker, workerTake, workerError, workerFound, maps, world
<1>1. CASE workerTake(w)
  <2>1. Queued("forget")' = Queued("forget") /\ Queued("found")' = Queued("found")
    BY <1>1, QueuedReceived DEF workerTake
  <2>. QED  BY <1>b, <1>1, <2>1, FoundQuiet DEF workerTake
<1>2. CASE workerError(w)
  <2>1. v # NoVerify /\ UNCHANGED <<chan, pool>>
    BY <1>2 DEF workerError
  <2>2. Free(w)
    BY <2>1 DEF CheckingIsFree
  <2>. HIDE DEF v
  <2>3. PICK sends : Post(w, sends) /\ Named(sends, "found") = {}
    <3>1. \A u : /\ Named(<<Msg("timeout", u)>>, "found") = {}
                 /\ Named(<<Msg("forget", u)>>, "found") = {}
      BY DEF Named, Msg
    <3>2. \A u : Named(<<Msg("timeout", u), Msg("forget", v)>>, "found") = {}
      BY DEF Named, Msg
    <3>. QED  BY <1>2, <3>1, <3>2 DEF workerError, v
  <2>4. \A c : Queued(c)' = Queued(c) \cup Named(sends, c)
    BY <1>a, <2>1, <2>2, <2>3, QueuedPost
  <2>. QED  BY <1>b, <2>1, <2>3, <2>4, FoundQuiet
<1>3. CASE workerFound(w)
  <2>1. /\ v # NoVerify /\ UNCHANGED chan /\ Post(w, <<Msg("found", v)>>)
        /\ pool' = [pool EXCEPT ![v.proxy] = @ + 1]
    BY <1>3 DEF workerFound
  <2>2. Free(w) /\ v \in Verify
    BY <1>a, <2>1 DEF CheckingIsFree
  <2>. HIDE DEF v
  <2>3. /\ Named(<<Msg("found", v)>>, "found") = {v.proxy}
        /\ Named(<<Msg("found", v)>>, "forget") = {}
    BY DEF Named, Msg
  <2>4. \A c : Queued(c)' = Queued(c) \cup Named(<<Msg("found", v)>>, c)
    BY <1>a, <2>1, <2>2, QueuedPost
  <2>5. pool \in [Proxies -> Nat] /\ v.proxy \in Proxies
    BY <2>2, VerifyFields DEF TypeOK
  <2>6. \A p \in Proxies : p = v.proxy => Vouched(p)'
    BY <2>1, <2>5 DEF Vouched
  <2>7. \A p \in Proxies : Vouched(p) => Vouched(p)'
    BY <1>b, <2>1, <2>3, <2>4, <2>5 DEF Vouched
  <2>8. Seen \cup Queued("found") \subseteq Proxies
    BY QueuedType DEF TypeOK
  <2>9. /\ Queued("found")' = Queued("found") \cup {v.proxy}
        /\ Queued("forget")' = Queued("forget")
    BY <2>3, <2>4
  <2>. QED  BY <1>b, <2>5, <2>6, <2>7, <2>8, <2>9 DEF FoundInPool
<1>. QED  BY <1>1, <1>2, <1>3 DEF worker

LEMMA FoundRemovals ==
  ASSUME TypeOK, FoundInPool,
         \/ \E p \in Proxies : checkEviction(p)
         \/ gatherEvictions
         \/ \E p \in Listed : HttpDeletetByID(p)
         \/ deletePoolRemove
  PROVE  FoundInPool'
<1>a. UNCHANGED <<Blacklist, Seen, chan>>
  BY DEF checkEviction, gatherEvictions, HttpDeletetByID, deletePoolRemove, maps
<1>b. pool \in [Proxies -> Nat] /\ pendingEviction \in Seq(Proxies)
  BY DEF TypeOK
<1>c. Seen \cup Queued("found") \subseteq Proxies
  BY QueuedType DEF TypeOK, Channels
<1>1. ASSUME NEW q \in Proxies, checkEviction(q) PROVE FoundInPool'
  <2>1. /\ pool' = [pool EXCEPT ![q] = @ - 1]
        /\ pendingEviction' = Append(pendingEviction, q)
        /\ UNCHANGED <<outbox, removing>>
    BY <1>1 DEF checkEviction
  <2>2. \A c : Queued(c)' = Queued(c)
    BY <1>a, <2>1, QueuedSame
  <2>3. /\ \A i \in DOMAIN pendingEviction :
             i \in DOMAIN pendingEviction' /\ pendingEviction'[i] = pendingEviction[i]
        /\ \E i \in DOMAIN pendingEviction' : pendingEviction'[i] = q
    <3>1. /\ Len(pendingEviction) + 1 \in DOMAIN pendingEviction'
          /\ pendingEviction'[Len(pendingEviction) + 1] = q
      BY <1>b, <2>1
    <3>2. \A i \in DOMAIN pendingEviction :
             i \in DOMAIN pendingEviction' /\ pendingEviction'[i] = pendingEviction[i]
      BY <1>b, <2>1
    <3>. QED  BY <3>1, <3>2
  <2>4. ASSUME NEW p \in Proxies, Vouched(p) PROVE Vouched(p)'
    <3>1. CASE p = q
      BY <2>3, <3>1 DEF Vouched
    <3>2. CASE p # q
      <4>1. pool'[p] = pool[p]
        BY <1>b, <2>1, <3>2
      <4>. QED  BY <1>a, <2>2, <2>3, <2>4, <4>1 DEF Vouched
    <3>. QED  BY <3>1, <3>2
  <2>. QED  BY <1>a, <1>c, <2>1, <2>2, <2>4 DEF FoundInPool
<1>2. CASE gatherEvictions
  <2>. DEFINE sends == [i \in DOMAIN pendingEviction |-> Forgotten(pendingEviction[i])]
  <2>1. Free("evictor") /\ Post("evictor", sends) /\ UNCHANGED <<pool, removing>>
    BY <1>2 DEF gatherEvictions
  <2>2. \A c : Queued(c)' = Queued(c) \cup Named(sends, c)
    <3>. HIDE DEF sends
    <3>. QED  BY <1>a, <2>1, QueuedPost, Goroutine
  <2>3. Named(sends, "found") = {}
    BY DEF Named, Forgotten, Msg
  <2>4. \A i \in DOMAIN pendingEviction : pendingEviction[i] \in Named(sends, "forget")
    BY DEF Named, Forgotten, Msg
  <2>. HIDE DEF sends
  <2>5. \A p \in Proxies : Vouched(p) => Vouched(p)'
    BY <1>a, <2>1, <2>2, <2>4 DEF Vouched
  <2>. QED  BY <1>a, <1>c, <2>1, <2>2, <2>3, <2>5 DEF FoundInPool
<1>3. ASSUME NEW q \in Listed, HttpDeletetByID(q) PROVE FoundInPool'
  <2>1. /\ Free("api") /\ Post("api", <<Forgotten(q)>>) /\ removing' = {q}
        /\ UNCHANGED <<pool, pendingEviction>>
    BY <1>3 DEF HttpDeletetByID
  <2>2. \A c : Queued(c)' = Queued(c) \cup Named(<<Forgotten(q)>>, c)
    BY <1>a, <2>1, QueuedPost, Goroutine
  <2>3. Named(<<Forgotten(q)>>, "found") = {} /\ q \in Named(<<Forgotten(q)>>, "forget")
    BY DEF Named, Forgotten, Msg
  <2>4. \A p : Vouched(p) => Vouched(p)'
    BY <1>a, <2>1, <2>2 DEF Vouched
  <2>. QED  BY <1>a, <2>1, <2>2, <2>3, <2>4 DEF FoundInPool
<1>4. CASE deletePoolRemove
  <2>1. /\ pool' = [p \in Proxies |-> IF p \in removing THEN 0 ELSE pool[p]]
        /\ removing' = {} /\ UNCHANGED <<outbox, pendingEviction>>
    BY <1>4 DEF deletePoolRemove
  <2>2. \A c : Queued(c)' = Queued(c)
    BY <1>a, <2>1, QueuedSame
  <2>3. \A p \in Proxies : Vouched(p) => Vouched(p)'
    BY <1>a, <2>1, <2>2 DEF Vouched, FoundInPool
  <2>. QED  BY <1>a, <1>c, <2>1, <2>2, <2>3 DEF FoundInPool
<1>. QED  BY <1>1, <1>2, <1>3, <1>4

LEMMA FoundRefresh ==
  ASSUME TypeOK, FoundInPool, NEW s \in Sources, refresh(s)
  PROVE  FoundInPool'
<1>a. UNCHANGED <<Blacklist, Seen, chan, pendingEviction, removing>>
  BY DEF refresh, refreshLaunch, Schedule, Forget, refreshFinish, maps
<1>1. CASE refreshLaunch(s) \/ refreshFinish(s)
  BY <1>a, <1>1, FoundQuiet, QueuedSame DEF refreshLaunch, refreshFinish
<1>2. ASSUME NEW q \in Listed, Schedule(s, q) PROVE FoundInPool'
  <2>. DEFINE m == Msg("scheduled", [proxy |-> q, source |-> s, attempt |-> 0])
  <2>1. Free(s) /\ Post(s, <<m>>) /\ UNCHANGED pool
    BY <1>2 DEF Schedule
  <2>2. Named(<<m>>, "found") = {}
    BY DEF Named, Msg
  <2>. HIDE DEF m
  <2>3. \A c : Queued(c)' = Queued(c) \cup Named(<<m>>, c)
    BY <1>a, <2>1, QueuedPost, Goroutine
  <2>. QED  BY <1>a, <2>1, <2>2, <2>3, FoundQuiet
<1>3. ASSUME NEW q \in Listed, Forget(s, q) PROVE FoundInPool'
  <2>1. Free(s) /\ Post(s, <<Forgotten(q)>>) /\ pool' = [pool EXCEPT ![q] = 0]
    BY <1>3 DEF Forget
  <2>2. Named(<<Forgotten(q)>>, "found") = {} /\ q \in Named(<<Forgotten(q)>>, "forget")
    BY DEF Named, Forgotten, Msg
  <2>3. \A c : Queued(c)' = Queued(c) \cup Named(<<Forgotten(q)>>, c)
    BY <1>a, <2>1, QueuedPost, Goroutine
  <2>4. \A p \in Proxies : Vouched(p) => Vouched(p)'
    <3>1. \A p \in Proxies : p = q \/ pool'[p] = pool[p]
      BY <2>1 DEF TypeOK
    <3>. QED  BY <1>a, <2>2, <2>3, <3>1 DEF Vouched
  <2>5. Seen \cup Queued("found") \subseteq Proxies
    BY QueuedType DEF TypeOK, Channels
  <2>. QED  BY <1>a, <2>2, <2>3, <2>4, <2>5 DEF FoundInPool
<1>. QED  BY <1>1, <1>2, <1>3 DEF refresh

LEMMA FoundStep == TypeOK /\ CheckingIsFree /\ FoundInPool /\ [Next]_vars => FoundInPool'
<1>. SUFFICES ASSUME TypeOK, CheckingIsFree, FoundInPool, [Next]_vars PROVE FoundInPool'
  OBVIOUS
<1>1. ASSUME NEW g \in Goroutines, Deliver(g) PROVE FoundInPool'
  <2>1. \A c \in Channels : Queued(c)' = Queued(c)
    BY <1>1, QueuedDeliver
  <2>2. UNCHANGED <<Blacklist, Seen, pool, pendingEviction, removing>>
    BY <1>1 DEF Deliver, maps, world
  <2>. QED  BY <2>1, <2>2, FoundQuiet DEF Channels
<1>2. CASE \E r \in Reverifiers : reverifyLaunch(r) \/ reverifyFinish(r)
  BY <1>2, FoundQuiet, QueuedSame DEF reverifyLaunch, reverifyFinish, maps, world
<1>3. ASSUME NEW r \in Reverifiers, reverifySchedule(r) PROVE FoundInPool'
  <2>1. PICK m : /\ m.ch = "scheduled" /\ Post(r, <<m>>)
    BY <1>3 DEF reverifySchedule, Msg
  <2>2. Free(r) /\ UNCHANGED <<chan, pool, maps, world>>
    BY <1>3 DEF reverifySchedule
  <2>3. Named(<<m>>, "found") = {}
    BY <2>1 DEF Named
  <2>4. \A c : Queued(c)' = Queued(c) \cup Named(<<m>>, c)
    BY <2>1, <2>2, QueuedPost, Goroutine
  <2>. QED  BY <2>2, <2>3, <2>4, FoundQuiet DEF maps, world
<1>4. CASE UNCHANGED vars
  BY <1>4, FoundQuiet, QueuedSame DEF vars
<1>. QED  BY <1>1, <1>2, <1>3, <1>4, FoundMain, FoundWorker, FoundRemovals, FoundRefresh
          DEF Next, reverifying

\* A proxy that later schedules ignore because it is Seen is in the pool, or
\* whoever took it out of the pool has blacklisted it or has the message
\* that will on its way; so "in pool" never shadows a proxy that is gone.
THEOREM SeenStaysInPool == Spec => []SeenInPool
<1>1. Init => FoundInPool
  <2>. SUFFICES ASSUME Init PROVE FoundInPool
    OBVIOUS
  <2>1. InChan("found") = {}
    BY DEF Init, InChan, Channels
  <2>2. Posted("found") = {}
    BY DEF Init, Posted, Named
  <2>. QED  BY <2>1, <2>2, QueuedParts DEF Init, FoundInPool
<1>. QED  BY <1>1, FoundStep, CheckingIsFreeInit, CheckingIsFreeStep, FoundInPoolImplies,
             TypeCorrect, PTL DEF Spec
----------------------------------------------------------------------------
(* The counters of a source.  Evictions, deletes and rescues report items   *)
(* that no counter has, and a relaunch, one by a second reverify goroutine  *)
(* after an early tick among them, resets the counters of items under way:  *)
(* the accounts are exact in their absence.                                 *)

Undisturbed ==
  /\ MaxEvictions = 0 /\ MaxDeletes = 0 /\ MaxEarly = 0
  /\ enableHttpRescue = FALSE /\ ManualStart = FALSE

One(b) == IF b THEN 1 ELSE 0

Of(s, q) == {i \in DOMAIN q : q[i].source = s}

LEMMA HoldingIs ==
  ASSUME NEW q \in Seq(Verify), NEW s
  PROVE  /\ IsFiniteSet(Of(s, q)) /\ Holding(s, q) = Cardinality(Of(s, q))
         /\ Holding(s, q) \in Nat
<1>1. DOMAIN q = 1..Len(q) /\ Len(q) \in Nat
  OBVIOUS
<1>2. IsFiniteSet(1..Len(q))
  BY <1>1, FS_Interval
<1>3. Of(s, q) \subseteq 1..Len(q)
  BY <1>1 DEF Of
<1>4. IsFiniteSet(Of(s, q))
  BY <1>2, <1>3, FS_Subset
<1>. QED  BY <1>4, FS_CardinalityType DEF Holding, Of

\* A message that enters a channel.
LEMMA HoldingAppend ==
  ASSUME NEW q \in Seq(Verify), NEW v \in Verify, NEW s
  PROVE  Holding(s, Append(q, v)) = Holding(s, q) + One(v.source = s)
<1>. DEFINE r == Append(q, v)
            n == Len(q) + 1
<1>1. /\ r \in Seq(Verify) /\ DOMAIN r = 1..n /\ DOMAIN q = 1..Len(q) /\ Len(q) \in Nat
      /\ r[n] = v /\ \A i \in 1..Len(q) : r[i] = q[i]
  OBVIOUS
<1>. HIDE DEF r
<1>2. n \notin Of(s, q) /\ 1..n = (1..Len(q)) \cup {n}
  BY <1>1 DEF Of
<1>3. CASE v.source = s
  <2>1. Of(s, r) = Of(s, q) \cup {n}
    BY <1>1, <1>2, <1>3 DEF Of
  <2>2. Cardinality(Of(s, q) \cup {n}) = Cardinality(Of(s, q)) + 1
    BY <1>2, HoldingIs, FS_AddElement
  <2>. QED  BY <1>1, <1>3, <2>1, <2>2, HoldingIs DEF One, r
<1>4. CASE v.source # s
  <2>1. Of(s, r) = Of(s, q)
    BY <1>1, <1>2, <1>4 DEF Of
  <2>2. Holding(s, r) = Holding(s, q) /\ Holding(s, q) \in Nat
    BY <1>1, <2>1, HoldingIs
  <2>3. One(v.source = s) = 0
    BY <1>4 DEF One
  <2>. QED  BY <2>2, <2>3 DEF r
<1>. QED  BY <1>3, <1>4

\* A message that leaves a channel.
LEMMA HoldingTail ==
  ASSUME NEW q \in Seq(Verify), q # <<>>, NEW s
  PROVE  Holding(s, Tail(q)) = Holding(s, q) - One(Head(q).source = s)
<1>. DEFINE r == Tail(q)
            A == Of(s, r)
            B == Of(s, q) \ {1}
            f == [i \in A |-> i + 1]
<1>1. /\ r \in Seq(Verify) /\ DOMAIN r = 1..(Len(q) - 1) /\ DOMAIN q = 1..Len(q)
      /\ Len(q) \in Nat /\ Len(q) >= 1
      /\ \A i \in 1..(Len(q) - 1) : r[i] = q[i + 1]
      /\ Head(q) = q[1]
  OBVIOUS
<1>. HIDE DEF r
<1>2. \A i \in A : i \in Nat /\ i + 1 \in B
  BY <1>1 DEF Of
<1>3. \A j \in B : j - 1 \in A /\ (j - 1) + 1 = j
  <2>. SUFFICES ASSUME NEW j \in B PROVE j - 1 \in A /\ (j - 1) + 1 = j
    OBVIOUS
  <2>1. j \in 1..Len(q) /\ j # 1 /\ q[j].source = s
    BY <1>1 DEF Of
  <2>2. j - 1 \in 1..(Len(q) - 1) /\ (j - 1) + 1 = j
    BY <1>1, <2>1
  <2>. QED  BY <1>1, <2>1, <2>2 DEF Of
<1>4. f \in Bijection(A, B)
  <2>. HIDE DEF A, B
  <2>1. f \in [A -> B] /\ \A i \in A : f[i] = i + 1
    BY <1>2
  <2>2. \A i, k \in A : f[i] = f[k] => i = k
    BY <1>2, <2>1
  <2>3. \A j \in B : \E i \in A : f[i] = j
    BY <1>3, <2>1
  <2>. HIDE DEF f
  <2>. QED  BY <2>1, <2>2, <2>3 DEF Bijection, Injection, Surjection, IsInjective
<1>5. IsFiniteSet(Of(s, q)) /\ IsFiniteSet(A)
  BY <1>1, HoldingIs
<1>6. Cardinality(A) = Cardinality(B)
  <2>1. IsFiniteSet(B)
    BY <1>5, FS_Subset
  <2>. HIDE DEF f, A, B
  <2>. QED  BY <1>4, <1>5, <2>1, FS_Bijection DEF ExistsBijection
<1>7. Holding(s, r) = Cardinality(A) /\ Holding(s, q) = Cardinality(Of(s, q))
  BY <1>1, HoldingIs
<1>8. CASE Head(q).source = s
  <2>1. 1 \in Of(s, q)
    BY <1>1, <1>8 DEF Of
  <2>2. Cardinality(B) = Cardinality(Of(s, q)) - 1
    BY <1>5, <2>1, FS_RemoveElement
  <2>. QED  BY <1>6, <1>7, <1>8, <2>2 DEF One, r
<1>9. CASE Head(q).source # s
  <2>1. B = Of(s, q)
    BY <1>1, <1>9 DEF Of
  <2>2. Holding(s, q) \in Nat
    BY HoldingIs
  <2>3. Holding(s, r) = Holding(s, q)
    BY <1>6, <1>7, <2>1
  <2>4. One(Head(q).source = s) = 0
    BY <1>9 DEF One
  <2>. QED  BY <2>2, <2>3, <2>4 DEF r
<1>. QED  BY <1>8, <1>9

\* A goroutine has one send to make at most, none that was gathered.
Singles ==
  /\ \A g \in Goroutines : Len(outbox[g]) <= 1
  /\ pendingEviction = <<>>

\* The goroutines that stand at a send of an item of s to one of the channels cs.
Senders(s, cs) ==
  {g \in Goroutines : outbox[g] # <<>> /\ outbox[g][1].v.source = s /\ outbox[g][1].ch \in cs}

LEMMA SendersFinite ==
  ASSUME NEW s, NEW cs
  PROVE  IsFiniteSet(Senders(s, cs)) /\ Cardinality(Senders(s, cs)) \in Nat
<1>1. Senders(s, cs) \in SUBSET Goroutines
  BY DEF Senders
<1>. QED  BY <1>1, GoroutinesAssumption, FS_Subset, FS_CardinalityType

LEMMA SendingIs ==
  ASSUME TypeOK, Singles, NEW s, NEW cs
  PROVE  Sending(s, cs) = Cardinality(Senders(s, cs))
<1>. DEFINE A == Senders(s, cs)
            B == {x \in Sends : outbox[x[1]][x[2]].v.source = s /\ outbox[x[1]][x[2]].ch \in cs}
            f == [g \in A |-> <<g, 1>>]
<1>1. \A g \in Goroutines : DOMAIN outbox[g] = IF outbox[g] = <<>> THEN {} ELSE {1}
  <2>. SUFFICES ASSUME NEW g \in Goroutines
                PROVE  DOMAIN outbox[g] = IF outbox[g] = <<>> THEN {} ELSE {1}
    OBVIOUS
  <2>1. outbox[g] \in Seq(Send) /\ Len(outbox[g]) <= 1
    BY DEF TypeOK, Singles
  <2>2. /\ DOMAIN outbox[g] = 1..Len(outbox[g]) /\ Len(outbox[g]) \in Nat
        /\ Len(outbox[g]) = 0 <=> outbox[g] = <<>>
    BY <2>1
  <2>. DEFINE n == Len(outbox[g])
  <2>3. n = 0 \/ n = 1
    <3>1. n \in Nat /\ n <= 1
      BY <2>1, <2>2, Zenon
    <3>. HIDE DEF n
    <3>. QED  BY <3>1
  <2>4. 1..0 = {} /\ 1..1 = {1}
    OBVIOUS
  <2>5. CASE n = 0
    BY <2>2, <2>4, <2>5
  <2>6. CASE n = 1
    BY <2>2, <2>4, <2>6
  <2>. QED  BY <2>3, <2>5, <2>6
<1>2. \A g \in Goroutines : \A i : i \in DOMAIN outbox[g] <=> outbox[g] # <<>> /\ i = 1
  BY <1>1
<1>3. \A x : x \in Sends <=> \E g \in Goroutines : outbox[g] # <<>> /\ x = <<g, 1>>
  BY <1>2 DEF Sends
<1>4. \A g \in A : <<g, 1>> \in B
  BY <1>3 DEF Senders
<1>5. \A x \in B : \E g \in A : x = <<g, 1>>
  <2>. SUFFICES ASSUME NEW x \in B PROVE \E g \in A : x = <<g, 1>>
    OBVIOUS
  <2>1. PICK g \in Goroutines : outbox[g] # <<>> /\ x = <<g, 1>>
    BY <1>3
  <2>. QED  BY <2>1 DEF Senders
<1>6. f \in Bijection(A, B)
  <2>. HIDE DEF A, B
  <2>1. f \in [A -> B] /\ \A g \in A : f[g] = <<g, 1>>
    BY <1>4
  <2>2. \A g, h \in A : f[g] = f[h] => g = h
    BY <2>1
  <2>3. \A x \in B : \E g \in A : f[g] = x
    BY <1>5, <2>1
  <2>. HIDE DEF f
  <2>. QED  BY <2>1, <2>2, <2>3 DEF Bijection, Injection, Surjection, IsInjective
<1>7. IsFiniteSet(A)
  BY SendersFinite
<1>8. Cardinality(B) = Cardinality(A)
  <2>. HIDE DEF f, A, B
  <2>. QED  BY <1>6, <1>7, FS_Bijection DEF ExistsBijection
<1>. QED  BY <1>8 DEF Sending

\* A goroutine comes to a send.
LEMMA SendersPost ==
  ASSUME TypeOK, NEW g \in Goroutines, Free(g), NEW m \in Send, Post(g, <<m>>),
         NEW s, NEW cs
  PROVE  Cardinality(Senders(s, cs)') =
           Cardinality(Senders(s, cs)) + One(m.v.source = s /\ m.ch \in cs)
<1>1. outbox'[g] = <<m>> /\ \A h \in Goroutines \ {g} : outbox'[h] = outbox[h]
  BY DEF Post, TypeOK
<1>2. <<m>> # <<>> /\ <<m>>[1] = m /\ g \notin Senders(s, cs)
  BY DEF Senders, Free
<1>3. IsFiniteSet(Senders(s, cs)) /\ Cardinality(Senders(s, cs)) \in Nat
  BY SendersFinite
<1>4. CASE m.v.source = s /\ m.ch \in cs
  <2>1. Senders(s, cs)' = Senders(s, cs) \cup {g}
    BY <1>1, <1>2, <1>4 DEF Senders
  <2>2. Cardinality(Senders(s, cs) \cup {g}) = Cardinality(Senders(s, cs)) + 1
    BY <1>2, <1>3, FS_AddElement
  <2>3. One(m.v.source = s /\ m.ch \in cs) = 1
    BY <1>4 DEF One
  <2>. QED  BY <2>1, <2>2, <2>3
<1>5. CASE ~(m.v.source = s /\ m.ch \in cs)
  <2>1. Senders(s, cs)' = Senders(s, cs)
    BY <1>1, <1>2, <1>5 DEF Senders
  <2>2. One(m.v.source = s /\ m.ch \in cs) = 0
    BY <1>5 DEF One
  <2>. QED  BY <1>3, <2>1, <2>2
<1>. QED  BY <1>4, <1>5

\* Its send goes through.
LEMMA SendersDeliver ==
  ASSUME TypeOK, Singles, NEW g \in Goroutines, Deliver(g), NEW s, NEW cs
  PROVE  LET m == Head(outbox[g])
         IN  Cardinality(Senders(s, cs)') =
               Cardinality(Senders(s, cs)) - One(m.v.source = s /\ m.ch \in cs)
<1>. DEFINE m == Head(outbox[g])
<1>1. outbox[g] \in Seq(Send) /\ outbox[g] # <<>> /\ Len(outbox[g]) <= 1
  BY DEF TypeOK, Singles, Deliver, Free
<1>2. Tail(outbox[g]) = <<>> /\ m = outbox[g][1]
  <2>. DEFINE o == outbox[g]
              t == Tail(o)
  <2>1. o \in Seq(Send) /\ o # <<>> /\ Len(o) <= 1
    BY <1>1
  <2>. HIDE DEF o
  <2>2. t \in Seq(Send) /\ Len(t) = Len(o) - 1 /\ Len(o) \in Nat /\ Len(o) >= 1
    BY <2>1
  <2>3. Len(t) = 0
    BY <2>1, <2>2
  <2>4. Head(o) = o[1]
    BY <2>1
  <2>. HIDE DEF t
  <2>5. t = <<>>
    BY <2>2, <2>3
  <2>. QED  BY <2>4, <2>5 DEF t, o
<1>3. outbox'[g] = <<>> /\ \A h \in Goroutines \ {g} : outbox'[h] = outbox[h]
  BY <1>2 DEF Deliver, TypeOK
<1>. HIDE DEF m
<1>4. IsFiniteSet(Senders(s, cs)) /\ Cardinality(Senders(s, cs)) \in Nat
  BY SendersFinite
<1>5. CASE m.v.source = s /\ m.ch \in cs
  <2>1. Senders(s, cs)' = Senders(s, cs) \ {g} /\ g \in Senders(s, cs)
    BY <1>1, <1>2, <1>3, <1>5 DEF Senders
  <2>2. Cardinality(Senders(s, cs) \ {g}) = Cardinality(Senders(s, cs)) - 1
    BY <1>4, <2>1, FS_RemoveElement
  <2>3. One(m.v.source = s /\ m.ch \in cs) = 1
    BY <1>5 DEF One
  <2>. QED  BY <2>1, <2>2, <2>3 DEF m
<1>6. CASE ~(m.v.source = s /\ m.ch \in cs)
  <2>1. Senders(s, cs)' = Senders(s, cs)
    BY <1>1, <1>2, <1>3, <1>6 DEF Senders
  <2>2. One(m.v.source = s /\ m.ch \in cs) = 0
    BY <1>6 DEF One
  <2>. QED  BY <1>4, <2>1, <2>2 DEF m
<1>. QED  BY <1>5, <1>6

\* The workers that check an item of s.
Checkers(s) == {w \in Workers : checking[w] # NoVerify /\ checking[w].source = s}

LEMMA CheckersFinite ==
  ASSUME NEW s
  PROVE  IsFiniteSet(Checkers(s)) /\ Cardinality(Checkers(s)) \in Nat
<1>1. Checkers(s) \in SUBSET Goroutines
  BY DEF Checkers, Goroutines
<1>. QED  BY <1>1, GoroutinesAssumption, FS_Subset, FS_CardinalityType

\* A worker takes an item.
LEMMA CheckersTake ==
  ASSUME TypeOK, NEW w \in Workers, checking[w] = NoVerify, NEW v \in Verify,
         checking' = [checking EXCEPT ![w] = v], NEW s
  PROVE  Cardinality(Checkers(s)') = Cardinality(Checkers(s)) + One(v.source = s)
<1>1. checking'[w] = v /\ v # NoVerify /\ \A x \in Workers \ {w} : checking'[x] = checking[x]
  BY ProbeAssumption DEF TypeOK
<1>2. w \notin Checkers(s)
  BY DEF Checkers
<1>3. IsFiniteSet(Checkers(s)) /\ Cardinality(Checkers(s)) \in Nat
  BY CheckersFinite
<1>4. CASE v.source = s
  <2>1. Checkers(s)' = Checkers(s) \cup {w}
    BY <1>1, <1>4 DEF Checkers
  <2>. QED  BY <1>2, <1>3, <1>4, <2>1, FS_AddElement DEF One
<1>5. CASE v.source # s
  <2>1. Checkers(s)' = Checkers(s) /\ One(v.source = s) = 0
    BY <1>1, <1>2, <1>5 DEF Checkers, One
  <2>. QED  BY <1>3, <2>1
<1>. QED  BY <1>4, <1>5

\* A worker is done with an item.
LEMMA CheckersDone ==
  ASSUME TypeOK, NEW w \in Workers, checking[w] # NoVerify,
         checking' = [checking EXCEPT ![w] = NoVerify], NEW s
  PROVE  Cardinality(Checkers(s)') = Cardinality(Checkers(s)) - One(checking[w].source = s)
<1>1. checking'[w] = NoVerify /\ \A x \in Workers \ {w} : checking'[x] = checking[x]
  BY DEF TypeOK
<1>3. IsFiniteSet(Checkers(s)) /\ Cardinality(Checkers(s)) \in Nat
  BY CheckersFinite
<1>4. CASE checking[w].source = s
  <2>1. Checkers(s)' = Checkers(s) \ {w} /\ w \in Checkers(s)
    BY <1>1, <1>4 DEF Checkers
  <2>2. Cardinality(Checkers(s) \ {w}) = Cardinality(Checkers(s)) - 1
    BY <1>3, <2>1, FS_RemoveElement
  <2>3. One(checking[w].source = s) = 1
    BY <1>4 DEF One
  <2>. QED  BY <2>1, <2>2, <2>3
<1>5. CASE checking[w].source # s
  <2>1. Checkers(s)' = Checkers(s) /\ One(checking[w].source = s) = 0
    BY <1>1, <1>5 DEF Checkers, One
  <2>. QED  BY <1>3, <2>1
<1>. QED  BY <1>4, <1>5

\* The items of s that no decision was made about yet, that wait for a worker,
\* and that a worker took and internal.main has not heard of again.
Waiting(s) == Holding(s, chan["scheduled"]) + Cardinality(Senders(s, {"scheduled"}))
Hired(s) == Holding(s, chan["probing"]) + Cardinality(Senders(s, {"probing"}))
InHand(s) ==
  Cardinality(Checkers(s)) + Holding(s, chan["forget"]) + Holding(s, chan["timeout"])
    + Cardinality(Senders(s, {"forget", "timeout"}))

LEMMA CountsType ==
  ASSUME TypeOK, NEW s
  PROVE  /\ Waiting(s) \in Nat /\ Hired(s) \in Nat /\ InHand(s) \in Nat
         /\ \A c \in Channels : chan[c] \in Seq(Verify) /\ Holding(s, chan[c]) \in Nat
<1>1. \A c \in Channels : chan[c] \in Seq(Verify)
  BY DEF TypeOK
<1>2. \A c \in Channels : Holding(s, chan[c]) \in Nat
  BY <1>1, HoldingIs
<1>3. \A cs : Cardinality(Senders(s, cs)) \in Nat
  BY SendersFinite
<1>4. Cardinality(Checkers(s)) \in Nat
  BY CheckersFinite
<1>5. Waiting(s) \in Nat
  BY <1>2, <1>3 DEF Waiting, Channels
<1>6. Hired(s) \in Nat
  BY <1>2, <1>3 DEF Hired, Channels
<1>7. InHand(s) \in Nat
  BY <1>2, <1>3, <1>4 DEF InHand, Channels
<1>. QED  BY <1>1, <1>2, <1>5, <1>6, <1>7

Moved(s, a, b, c) ==
  /\ Waiting(s)' = Waiting(s) + a
  /\ Hired(s)' = Hired(s) + b
  /\ InHand(s)' = InHand(s) + c

\* What a step does to the items of s, from what it does to each place.
LEMMA MovedBy ==
  ASSUME TypeOK, NEW s, NEW a \in Int, NEW b \in Int,
         NEW c \in Int, NEW d \in Int, NEW e \in Int, NEW x \in Int, NEW y \in Int, NEW z \in Int,
         Holding(s, chan'["scheduled"]) = Holding(s, chan["scheduled"]) + a,
         Holding(s, chan'["probing"]) = Holding(s, chan["probing"]) + b,
         Holding(s, chan'["forget"]) = Holding(s, chan["forget"]) + c,
         Holding(s, chan'["timeout"]) = Holding(s, chan["timeout"]) + d,
         Cardinality(Checkers(s)') = Cardinality(Checkers(s)) + e,
         Cardinality(Senders(s, {"scheduled"})') = Cardinality(Senders(s, {"scheduled"})) + x,
         Cardinality(Senders(s, {"probing"})') = Cardinality(Senders(s, {"probing"})) + y,
         Cardinality(Senders(s, {"forget", "timeout"})') =
           Cardinality(Senders(s, {"forget", "timeout"})) + z
  PROVE  Moved(s, a + x, b + y, e + c + d + z)
<1>1. \A cs : Cardinality(Senders(s, cs)) \in Nat
  BY SendersFinite
<1>2. Cardinality(Checkers(s)) \in Nat
  BY CheckersFinite
<1>3. \A q \in Channels : Holding(s, chan[q]) \in Nat
  BY CountsType
<1>4. "scheduled" \in Channels /\ "probing" \in Channels /\ "forget" \in Channels
      /\ "timeout" \in Channels
  BY DEF Channels
<1>5. Waiting(s)' = Waiting(s) + (a + x)
  BY <1>1, <1>3, <1>4 DEF Waiting
<1>6. Hired(s)' = Hired(s) + (b + y)
  BY <1>1, <1>3, <1>4 DEF Hired
<1>7. InHand(s)' = InHand(s) + (e + c + d + z)
  BY <1>1, <1>2, <1>3, <1>4 DEF InHand
<1>. QED  BY <1>5, <1>6, <1>7 DEF Moved

\* What a step leaves alone.
LEMMA PlacesSame ==
  ASSUME TypeOK, NEW s
  PROVE  /\ UNCHANGED chan =>
              \A d \in Channels : Holding(s, chan'[d]) = Holding(s, chan[d]) + 0
         /\ UNCHANGED checking => Cardinality(Checkers(s)') = Cardinality(Checkers(s)) + 0
         /\ UNCHANGED outbox =>
              \A cs : Cardinality(Senders(s, cs)') = Cardinality(Senders(s, cs)) + 0
<1>1. ASSUME UNCHANGED chan, NEW d \in Channels
      PROVE  Holding(s, chan'[d]) = Holding(s, chan[d]) + 0
  <2>1. Holding(s, chan[d]) \in Nat
    BY CountsType
  <2>2. chan'[d] = chan[d]
    BY <1>1
  <2>3. Holding(s, chan'[d]) = Holding(s, chan[d])
    BY <2>2
  <2>. QED  BY <2>1, <2>3
<1>2. ASSUME UNCHANGED checking PROVE Cardinality(Checkers(s)') = Cardinality(Checkers(s)) + 0
  <2>1. Checkers(s)' = Checkers(s)
    BY <1>2 DEF Checkers
  <2>. QED  BY <2>1, CheckersFinite
<1>3. ASSUME UNCHANGED outbox, NEW cs
      PROVE  Cardinality(Senders(s, cs)') = Cardinality(Senders(s, cs)) + 0
  <2>1. Senders(s, cs)' = Senders(s, cs)
    BY <1>3 DEF Senders
  <2>. QED  BY <2>1, SendersFinite
<1>. QED  BY <1>1, <1>2, <1>3

\* What a receive does to the items in the channels.
LEMMA ReceivedHolds ==
  ASSUME TypeOK, NEW c \in Channels, chan[c] # <<>>, Received(c), NEW s
  PROVE  /\ Head(chan[c]) \in Verify
         /\ Holding(s, chan'[c]) = Holding(s, chan[c]) + (-One(Head(chan[c]).source = s))
         /\ \A d \in Channels \ {c} : Holding(s, chan'[d]) = Holding(s, chan[d]) + 0
<1>1. \A d \in Channels : chan[d] \in Seq(Verify) /\ Holding(s, chan[d]) \in Nat
  BY CountsType
<1>2. chan'[c] = Tail(chan[c]) /\ \A d \in Channels \ {c} : chan'[d] = chan[d]
  BY DEF Received, TypeOK
<1>3. Holding(s, chan'[c]) = Holding(s, chan[c]) - One(Head(chan[c]).source = s)
  BY <1>1, <1>2, HoldingTail
<1>4. One(Head(chan[c]).source = s) \in Int
  BY DEF One
<1>5. Holding(s, chan'[c]) = Holding(s, chan[c]) + (-One(Head(chan[c]).source = s))
  BY <1>1, <1>3, <1>4
<1>6. Head(chan[c]) \in Verify
  BY <1>1
<1>. QED  BY <1>1, <1>2, <1>5, <1>6

\* A goroutine that comes to a send of an item of s, or of another source.
LEMMA PostedCounts ==
  ASSUME TypeOK, NEW g \in Goroutines, Free(g), NEW m \in Send, Post(g, <<m>>), NEW s, NEW cs
  PROVE  /\ m.ch \in cs => Cardinality(Senders(s, cs)') =
                             Cardinality(Senders(s, cs)) + One(m.v.source = s)
         /\ m.ch \notin cs => Cardinality(Senders(s, cs)') = Cardinality(Senders(s, cs)) + 0
<1>1. Cardinality(Senders(s, cs)') =
        Cardinality(Senders(s, cs)) + One(m.v.source = s /\ m.ch \in cs)
  BY SendersPost
<1>. QED  BY <1>1 DEF One

\* A send that goes through leaves the item where it is counted.
LEMMA DeliverMoves ==
  ASSUME TypeOK, Singles, NEW g \in Goroutines, Deliver(g), NEW s
  PROVE  Moved(s, 0, 0, 0)
<1>. DEFINE m == Head(outbox[g])
            n == One(m.v.source = s)
<1>1. outbox[g] \in Seq(Send) /\ outbox[g] # <<>>
  BY DEF TypeOK, Deliver, Free
<1>2. m \in Send
  BY <1>1
<1>3. m.ch \in Channels /\ m.v \in Verify
  BY <1>2 DEF Send
<1>4. chan' = [chan EXCEPT ![m.ch] = Append(@, m.v)] /\ UNCHANGED checking
  BY DEF Deliver
<1>5. \A cs : Cardinality(Senders(s, cs)') =
                Cardinality(Senders(s, cs)) - One(m.v.source = s /\ m.ch \in cs)
  BY SendersDeliver
<1>. HIDE DEF m
<1>6. \A d \in Channels : chan[d] \in Seq(Verify) /\ Holding(s, chan[d]) \in Nat
  BY CountsType
<1>7. Holding(s, chan'[m.ch]) = Holding(s, chan[m.ch]) + n
  <2>1. chan'[m.ch] = Append(chan[m.ch], m.v)
    BY <1>3, <1>4 DEF TypeOK
  <2>. QED  BY <1>3, <1>6, <2>1, HoldingAppend
<1>8. \A d \in Channels \ {m.ch} : Holding(s, chan'[d]) = Holding(s, chan[d]) + 0
  BY <1>4, <1>6 DEF TypeOK
<1>9. Cardinality(Checkers(s)') = Cardinality(Checkers(s)) + 0
  <2>1. Checkers(s)' = Checkers(s)
    BY <1>4 DEF Checkers
  <2>. QED  BY <2>1, CheckersFinite
<1>10. \A cs : /\ Cardinality(Senders(s, cs)) \in Nat
               /\ m.ch \in cs => Cardinality(Senders(s, cs)') = Cardinality(Senders(s, cs)) + (-n)
               /\ m.ch \notin cs => Cardinality(Senders(s, cs)') = Cardinality(Senders(s, cs)) + 0
  BY <1>5, SendersFinite DEF One
<1>11. n \in Int /\ -n \in Int /\ n + (-n) = 0
  BY DEF One
<1>. HIDE DEF n
<1>12. CASE m.ch = "scheduled"
  <2>1. Moved(s, n + (-n), 0 + 0, 0 + 0 + 0 + 0)
    BY <1>7, <1>8, <1>9, <1>10, <1>11, <1>12, MovedBy DEF Channels
  <2>. QED  BY <1>11, <2>1
<1>13. CASE m.ch = "probing"
  <2>1. Moved(s, 0 + 0, n + (-n), 0 + 0 + 0 + 0)
    BY <1>7, <1>8, <1>9, <1>10, <1>11, <1>13, MovedBy DEF Channels
  <2>. QED  BY <1>11, <2>1
<1>14. CASE m.ch = "forget"
  <2>1. Moved(s, 0 + 0, 0 + 0, 0 + n + 0 + (-n))
    BY <1>7, <1>8, <1>9, <1>10, <1>11, <1>14, MovedBy DEF Channels
  <2>. QED  BY <1>11, <2>1
<1>15. CASE m.ch = "timeout"
  <2>1. Moved(s, 0 + 0, 0 + 0, 0 + 0 + n + (-n))
    BY <1>7, <1>8, <1>9, <1>10, <1>11, <1>15, MovedBy DEF Channels
  <2>. QED  BY <1>11, <2>1
<1>16. CASE m.ch = "found"
  <2>1. \A d \in {"scheduled", "probing", "forget", "timeout"} :
          Holding(s, chan'[d]) = Holding(s, chan[d]) + 0
    BY <1>8, <1>16 DEF Channels
  <2>2. \A cs : m.ch \notin cs => Cardinality(Senders(s, cs)') = Cardinality(Senders(s, cs)) + 0
    BY <1>10
  <2>3. m.ch \notin {"scheduled"} /\ m.ch \notin {"probing"} /\ m.ch \notin {"forget", "timeout"}
    BY <1>16
  <2>4. Moved(s, 0 + 0, 0 + 0, 0 + 0 + 0 + 0)
    BY <1>9, <2>1, <2>2, <2>3, MovedBy
  <2>. QED  BY <2>4
<1>. QED  BY <1>3, <1>12, <1>13, <1>14, <1>15, <1>16 DEF Channels

LEMMA OneIs == ASSUME NEW b PROVE One(b) \in {0, 1} /\ One(b) \in Int /\ -One(b) \in Int
  BY DEF One

\* internal.main receives an item and sends nothing.
LEMMA ReceiveMoves ==
  ASSUME TypeOK, NEW c \in Channels, chan[c] # <<>>, Received(c),
         UNCHANGED <<outbox, checking>>, NEW s
  PROVE  LET n == One(Head(chan[c]).source = s)
         IN  /\ c = "scheduled" => Moved(s, -n, 0, 0)
             /\ c \in {"forget", "timeout"} => Moved(s, 0, 0, -n)
             /\ c = "found" => Moved(s, 0, 0, 0)
<1>. DEFINE n == One(Head(chan[c]).source = s)
<1>1. n \in Int /\ -n \in Int
  BY OneIs
<1>2. /\ Holding(s, chan'[c]) = Holding(s, chan[c]) + (-n)
      /\ \A d \in Channels \ {c} : Holding(s, chan'[d]) = Holding(s, chan[d]) + 0
  <2>1. /\ Head(chan[c]) \in Verify
        /\ Holding(s, chan'[c]) = Holding(s, chan[c]) + (-One(Head(chan[c]).source = s))
        /\ \A d \in Channels \ {c} : Holding(s, chan'[d]) = Holding(s, chan[d]) + 0
    <3>1. PICK d \in Channels : d = c
      OBVIOUS
    <3>2. chan[d] # <<>> /\ Received(d)
      BY <3>1
    <3>3. /\ Head(chan[d]) \in Verify
          /\ Holding(s, chan'[d]) = Holding(s, chan[d]) + (-One(Head(chan[d]).source = s))
          /\ \A e \in Channels \ {d} : Holding(s, chan'[e]) = Holding(s, chan[e]) + 0
      BY <3>2, ReceivedHolds
    <3>. QED  BY <3>1, <3>3, Zenon
  <2>. QED  BY <2>1, Zenon
<1>3. /\ Cardinality(Checkers(s)') = Cardinality(Checkers(s)) + 0
      /\ \A cs : Cardinality(Senders(s, cs)') = Cardinality(Senders(s, cs)) + 0
  BY PlacesSame
<1>. HIDE DEF n
<1>4. CASE c = "scheduled"
  <2>1. Moved(s, (-n) + 0, 0 + 0, 0 + 0 + 0 + 0)
    <3>1. Holding(s, chan'["scheduled"]) = Holding(s, chan["scheduled"]) + (-n)
      BY <1>2, <1>4
    <3>2. \A d \in {"probing", "forget", "timeout"} : Holding(s, chan'[d]) = Holding(s, chan[d]) + 0
      BY <1>2, <1>4 DEF Channels
    <3>3. /\ Cardinality(Senders(s, {"scheduled"})') = Cardinality(Senders(s, {"scheduled"})) + 0
          /\ Cardinality(Senders(s, {"probing"})') = Cardinality(Senders(s, {"probing"})) + 0
          /\ Cardinality(Senders(s, {"forget", "timeout"})') =
               Cardinality(Senders(s, {"forget", "timeout"})) + 0
          /\ Cardinality(Checkers(s)') = Cardinality(Checkers(s)) + 0
      BY <1>3
    <3>4. -n \in Int /\ 0 \in Int
      BY <1>1
    <3>. QED  BY <3>1, <3>2, <3>3, <3>4, MovedBy
  <2>2. (-n) + 0 = -n
    BY <1>1
  <2>. QED  BY <1>4, <2>1, <2>2 DEF n
<1>5. CASE c = "forget"
  <2>1. Moved(s, 0 + 0, 0 + 0, 0 + (-n) + 0 + 0)
    <3>1. Holding(s, chan'["forget"]) = Holding(s, chan["forget"]) + (-n)
      BY <1>2, <1>5
    <3>2. \A d \in {"scheduled", "probing", "timeout"} : Holding(s, chan'[d]) = Holding(s, chan[d]) + 0
      BY <1>2, <1>5 DEF Channels
    <3>3. /\ Cardinality(Senders(s, {"scheduled"})') = Cardinality(Senders(s, {"scheduled"})) + 0
          /\ Cardinality(Senders(s, {"probing"})') = Cardinality(Senders(s, {"probing"})) + 0
          /\ Cardinality(Senders(s, {"forget", "timeout"})') =
               Cardinality(Senders(s, {"forget", "timeout"})) + 0
          /\ Cardinality(Checkers(s)') = Cardinality(Checkers(s)) + 0
      BY <1>3
    <3>4. -n \in Int /\ 0 \in Int
      BY <1>1
    <3>. QED  BY <3>1, <3>2, <3>3, <3>4, MovedBy
  <2>2. 0 + (-n) + 0 + 0 = -n
    BY <1>1
  <2>. QED  BY <1>5, <2>1, <2>2 DEF n
<1>6. CASE c = "timeout"
  <2>1. Moved(s, 0 + 0, 0 + 0, 0 + 0 + (-n) + 0)
    <3>1. Holding(s, chan'["timeout"]) = Holding(s, chan["timeout"]) + (-n)
      BY <1>2, <1>6
    <3>2. \A d \in {"scheduled", "probing", "forget"} : Holding(s, chan'[d]) = Holding(s, chan[d]) + 0
      BY <1>2, <1>6 DEF Channels
    <3>3. /\ Cardinality(Senders(s, {"scheduled"})') = Cardinality(Senders(s, {"scheduled"})) + 0
          /\ Cardinality(Senders(s, {"probing"})') = Cardinality(Senders(s, {"probing"})) + 0
          /\ Cardinality(Senders(s, {"forget", "timeout"})') =
               Cardinality(Senders(s, {"forget", "timeout"})) + 0
          /\ Cardinality(Checkers(s)') = Cardinality(Checkers(s)) + 0
      BY <1>3
    <3>4. -n \in Int /\ 0 \in Int
      BY <1>1
    <3>. QED  BY <3>1, <3>2, <3>3, <3>4, MovedBy
  <2>2. 0 + 0 + (-n) + 0 = -n
    BY <1>1
  <2>. QED  BY <1>6, <2>1, <2>2 DEF n
<1>7. CASE c = "found"
  <2>1. \A d \in {"scheduled", "probing", "forget", "timeout"} :
          Holding(s, chan'[d]) = Holding(s, chan[d]) + 0
    BY <1>2, <1>7 DEF Channels
  <2>2. Moved(s, 0 + 0, 0 + 0, 0 + 0 + 0 + 0)
    BY <1>3, <2>1, MovedBy
  <2>. QED  BY <1>7, <2>2
<1>. QED  BY <1>4, <1>5, <1>6, <1>7 DEF n

\* internal.main receives an item and hands it to the workers.
LEMMA HireMoves ==
  ASSUME TypeOK, chan["scheduled"] # <<>>, Received("scheduled"), Free("main"),
         Post("main", <<Msg("probing", Head(chan["scheduled"]))>>), UNCHANGED checking, NEW s
  PROVE  LET n == One(Head(chan["scheduled"]).source = s)
         IN  Moved(s, -n, n, 0)
<1>. DEFINE v == Head(chan["scheduled"])
            n == One(v.source = s)
<1>1. n \in Int /\ -n \in Int
  BY OneIs
<1>2. /\ v \in Verify
      /\ Holding(s, chan'["scheduled"]) = Holding(s, chan["scheduled"]) + (-n)
      /\ \A d \in Channels \ {"scheduled"} : Holding(s, chan'[d]) = Holding(s, chan[d]) + 0
  BY ReceivedHolds DEF Channels
<1>3. Cardinality(Checkers(s)') = Cardinality(Checkers(s)) + 0
  BY PlacesSame
<1>4. PICK m : m = Msg("probing", v)
  OBVIOUS
<1>5. m \in Send /\ m.ch = "probing" /\ m.v = v /\ Post("main", <<m>>)
  BY <1>2, <1>4 DEF Msg, Send, Channels
<1>6. \A cs : /\ m.ch \in cs => Cardinality(Senders(s, cs)') =
                                  Cardinality(Senders(s, cs)) + One(m.v.source = s)
              /\ m.ch \notin cs => Cardinality(Senders(s, cs)') = Cardinality(Senders(s, cs)) + 0
  BY <1>5, PostedCounts, Goroutine
<1>7. One(m.v.source = s) = n
  BY <1>5
<1>. HIDE DEF n
<1>8. Moved(s, (-n) + 0, 0 + n, 0 + 0 + 0 + 0)
  <2>1. \A d \in {"probing", "forget", "timeout"} : Holding(s, chan'[d]) = Holding(s, chan[d]) + 0
    BY <1>2 DEF Channels
  <2>2. m.ch \notin {"scheduled"} /\ m.ch \in {"probing"} /\ m.ch \notin {"forget", "timeout"}
    BY <1>5
  <2>3. /\ Cardinality(Senders(s, {"scheduled"})') = Cardinality(Senders(s, {"scheduled"})) + 0
        /\ Cardinality(Senders(s, {"probing"})') = Cardinality(Senders(s, {"probing"})) + n
        /\ Cardinality(Senders(s, {"forget", "timeout"})') =
             Cardinality(Senders(s, {"forget", "timeout"})) + 0
    BY <1>6, <1>7, <2>2
  <2>. QED  BY <1>1, <1>2, <1>3, <2>1, <2>3, MovedBy
<1>9. (-n) + 0 = -n /\ 0 + n = n
  BY <1>1
<1>. QED  BY <1>8, <1>9 DEF n

\* A new item is scheduled.
LEMMA ScheduleMoves ==
  ASSUME TypeOK, NEW g \in Goroutines, Free(g), NEW v \in Verify,
         Post(g, <<Msg("scheduled", v)>>), UNCHANGED <<chan, checking>>, NEW s
  PROVE  LET n == One(v.source = s) IN Moved(s, n, 0, 0)
<1>. DEFINE n == One(v.source = s)
<1>1. n \in Int
  BY OneIs
<1>2. \A d \in Channels : Holding(s, chan'[d]) = Holding(s, chan[d]) + 0
  BY PlacesSame
<1>3. Cardinality(Checkers(s)') = Cardinality(Checkers(s)) + 0
  BY PlacesSame
<1>4. PICK m : m = Msg("scheduled", v)
  OBVIOUS
<1>5. m \in Send /\ m.ch = "scheduled" /\ m.v = v /\ Post(g, <<m>>)
  BY <1>4 DEF Msg, Send, Channels
<1>6. \A cs : /\ m.ch \in cs => Cardinality(Senders(s, cs)') =
                                  Cardinality(Senders(s, cs)) + One(m.v.source = s)
              /\ m.ch \notin cs => Cardinality(Senders(s, cs)') = Cardinality(Senders(s, cs)) + 0
  BY <1>5, PostedCounts
<1>7. One(m.v.source = s) = n
  BY <1>5
<1>. HIDE DEF n
<1>8. Moved(s, 0 + n, 0 + 0, 0 + 0 + 0 + 0)
  BY <1>1, <1>2, <1>3, <1>5, <1>6, <1>7, MovedBy DEF Channels
<1>9. 0 + n = n
  BY <1>1
<1>. QED  BY <1>8, <1>9 DEF n

\* A worker takes an item.
LEMMA TakeMoves ==
  ASSUME TypeOK, NEW w \in Workers, workerTake(w), NEW s
  PROVE  LET n == One(Head(chan["probing"]).source = s) IN Moved(s, 0, -n, n)
<1>. DEFINE v == Head(chan["probing"])
            n == One(v.source = s)
<1>1. n \in Int /\ -n \in Int
  BY OneIs
<1>2. /\ chan["probing"] # <<>> /\ Received("probing") /\ checking[w] = NoVerify
      /\ checking' = [checking EXCEPT ![w] = v] /\ UNCHANGED outbox
  BY DEF workerTake
<1>3. /\ v \in Verify
      /\ Holding(s, chan'["probing"]) = Holding(s, chan["probing"]) + (-n)
      /\ \A d \in Channels \ {"probing"} : Holding(s, chan'[d]) = Holding(s, chan[d]) + 0
  BY <1>2, ReceivedHolds DEF Channels
<1>4. Cardinality(Checkers(s)') = Cardinality(Checkers(s)) + n
  BY <1>2, <1>3, CheckersTake
<1>5. \A cs : Cardinality(Senders(s, cs)') = Cardinality(Senders(s, cs)) + 0
  BY <1>2, PlacesSame
<1>. HIDE DEF n
<1>6. Moved(s, 0 + 0, (-n) + 0, n + 0 + 0 + 0)
  BY <1>1, <1>3, <1>4, <1>5, MovedBy DEF Channels
<1>7. (-n) + 0 = -n /\ n + 0 + 0 + 0 = n
  BY <1>1
<1>. QED  BY <1>6, <1>7 DEF n

\* A worker is done with an item and comes to send its verdict.
LEMMA VerdictMoves ==
  ASSUME TypeOK, CheckingIsFree, NEW w \in Workers, checking[w] # NoVerify,
         NEW ch \in {"forget", "timeout", "found"}, Post(w, <<Msg(ch, checking[w])>>),
         checking' = [checking EXCEPT ![w] = NoVerify], UNCHANGED chan, NEW s
  PROVE  LET n == One(checking[w].source = s)
         IN  /\ ch = "found" => Moved(s, 0, 0, -n)
             /\ ch # "found" => Moved(s, 0, 0, 0)
<1>. DEFINE v == checking[w]
            n == One(v.source = s)
<1>1. n \in Int /\ -n \in Int
  BY OneIs
<1>2. \A d \in Channels : Holding(s, chan'[d]) = Holding(s, chan[d]) + 0
  BY PlacesSame
<1>3. Cardinality(Checkers(s)') = Cardinality(Checkers(s)) + (-n)
  <2>1. Cardinality(Checkers(s)') = Cardinality(Checkers(s)) - n
    BY CheckersDone
  <2>. HIDE DEF n
  <2>. QED  BY <1>1, <2>1, CheckersFinite
<1>4. v \in Verify /\ w \in Goroutines /\ Free(w)
  BY Goroutine DEF TypeOK, CheckingIsFree
<1>5. PICK m : m = Msg(ch, v)
  OBVIOUS
<1>6. m \in Send /\ m.ch = ch /\ m.v = v /\ Post(w, <<m>>)
  BY <1>4, <1>5 DEF Msg, Send, Channels
<1>7. \A cs : /\ m.ch \in cs => Cardinality(Senders(s, cs)') =
                                  Cardinality(Senders(s, cs)) + One(m.v.source = s)
              /\ m.ch \notin cs => Cardinality(Senders(s, cs)') = Cardinality(Senders(s, cs)) + 0
  BY <1>4, <1>6, PostedCounts
<1>8. One(m.v.source = s) = n
  BY <1>6
<1>. HIDE DEF n, v
<1>9. CASE ch = "found"
  <2>1. Moved(s, 0 + 0, 0 + 0, (-n) + 0 + 0 + 0)
    <3>1. m.ch \notin {"scheduled"} /\ m.ch \notin {"probing"} /\ m.ch \notin {"forget", "timeout"}
      BY <1>6, <1>9
    <3>2. /\ Cardinality(Senders(s, {"scheduled"})') = Cardinality(Senders(s, {"scheduled"})) + 0
          /\ Cardinality(Senders(s, {"probing"})') = Cardinality(Senders(s, {"probing"})) + 0
          /\ Cardinality(Senders(s, {"forget", "timeout"})') =
               Cardinality(Senders(s, {"forget", "timeout"})) + 0
      BY <1>7, <3>1
    <3>. QED  BY <1>1, <1>2, <1>3, <3>2, MovedBy DEF Channels
  <2>2. (-n) + 0 + 0 + 0 = -n
    BY <1>1
  <2>. QED  BY <1>9, <2>1, <2>2 DEF n, v
<1>10. CASE ch # "found"
  <2>1. Moved(s, 0 + 0, 0 + 0, (-n) + 0 + 0 + n)
    <3>1. m.ch \notin {"scheduled"} /\ m.ch \notin {"probing"} /\ m.ch \in {"forget", "timeout"}
      BY <1>6, <1>10
    <3>2. /\ Cardinality(Senders(s, {"scheduled"})') = Cardinality(Senders(s, {"scheduled"})) + 0
          /\ Cardinality(Senders(s, {"probing"})') = Cardinality(Senders(s, {"probing"})) + 0
          /\ Cardinality(Senders(s, {"forget", "timeout"})') =
               Cardinality(Senders(s, {"forget", "timeout"})) + n
      BY <1>7, <1>8, <3>1
    <3>. QED  BY <1>1, <1>2, <1>3, <3>2, MovedBy DEF Channels
  <2>2. (-n) + 0 + 0 + n = 0
    BY <1>1
  <2>. QED  BY <1>10, <2>1, <2>2
<1>. QED  BY <1>9, <1>10

\* Nothing moves.
LEMMA StillMoves ==
  ASSUME TypeOK, UNCHANGED <<chan, outbox, checking>>, NEW s
  PROVE  Moved(s, 0, 0, 0)
<1>1. \A d \in Channels : Holding(s, chan'[d]) = Holding(s, chan[d]) + 0
  BY PlacesSame
<1>2. \A d \in {"scheduled", "probing", "forget", "timeout"} :
        Holding(s, chan'[d]) = Holding(s, chan[d]) + 0
  BY <1>1 DEF Channels
<1>3. /\ Cardinality(Senders(s, {"scheduled"})') = Cardinality(Senders(s, {"scheduled"})) + 0
      /\ Cardinality(Senders(s, {"probing"})') = Cardinality(Senders(s, {"probing"})) + 0
      /\ Cardinality(Senders(s, {"forget", "timeout"})') =
           Cardinality(Senders(s, {"forget", "timeout"})) + 0
      /\ Cardinality(Checkers(s)') = Cardinality(Checkers(s)) + 0
  BY PlacesSame
<1>4. Moved(s, 0 + 0, 0 + 0, 0 + 0 + 0 + 0)
  BY <1>2, <1>3, MovedBy
<1>. QED  BY <1>4

\* The steps left when nothing disturbs the accounts.
Steps ==
  \/ \E g \in Goroutines : Deliver(g)
  \/ main
  \/ \E r \in Reverifiers : reverifying(r)
  \/ \E w \in Workers : worker(w)
  \/ deletePoolRemove
  \/ \E s \in Sources : \/ refreshLaunch(s)
                        \/ \E p \in Listed : Schedule(s, p)
                        \/ refreshFinish(s)
  \/ UNCHANGED vars

LEMMA UndisturbedSteps ==
  ASSUME TypeOK, Singles, Undisturbed, [Next]_vars
  PROVE  Steps
<1>1. inputs.evictions \in Nat /\ inputs.deletes \in Nat /\ pendingEviction = <<>>
  BY DEF TypeOK, Singles
<1>2. ASSUME NEW p, checkEviction(p) PROVE FALSE
  <2>1. inputs.evictions < 0
    BY <1>2 DEF checkEviction, Undisturbed
  <2>. QED  BY <1>1, <2>1
<1>3. ASSUME NEW p, HttpDeletetByID(p) PROVE FALSE
  <2>1. inputs.deletes < 0
    BY <1>3 DEF HttpDeletetByID, Undisturbed
  <2>. QED  BY <1>1, <2>1
<1>4. ASSUME NEW s, NEW p, Forget(s, p) PROVE FALSE
  <2>1. inputs.deletes < 0
    BY <1>4 DEF Forget, Undisturbed
  <2>. QED  BY <1>1, <2>1
<1>5. ~gatherEvictions
  BY <1>1 DEF gatherEvictions
<1>. QED  BY <1>2, <1>3, <1>4, <1>5 DEF Next, Steps, refresh

\* At most one reverify goroutine is at work, and its Stat runs while it sends.
Alone == inputs.early = 0 /\ Batches

LEMMA AloneStep ==
  ASSUME TypeOK, Singles, Alone, Undisturbed, [Next]_vars
  PROVE  Alone'
<1>1. Steps
  BY UndisturbedSteps
<1>2. inputs \in [launches : Nat, signals : Nat, deletes : Nat, evictions : Nat,
                   early : Nat]
  BY DEF TypeOK
<1>3. ASSUME handleReverify PROVE inputs'.early = 0
  BY <1>3 DEF handleReverify, Ticked, Alone, Undisturbed
<1>4. ASSUME main /\ ~handleReverify PROVE inputs'.early = 0
  BY <1>4 DEF main, handleScheduled, handleForget, handleTimeout, handleFound, world, Alone
<1>5. ASSUME \E g \in Goroutines : Deliver(g) PROVE inputs'.early = 0
  BY <1>5 DEF Deliver, world, Alone
<1>6. ASSUME \E r \in Reverifiers : reverifying(r) PROVE inputs'.early = 0
  BY <1>6 DEF reverifying, reverifyLaunch, reverifySchedule, reverifyFinish, world, Alone
<1>7. ASSUME \E w \in Workers : worker(w) PROVE inputs'.early = 0
  BY <1>7 DEF worker, workerTake, workerError, workerFound, world, Alone
<1>8. ASSUME deletePoolRemove \/ UNCHANGED vars PROVE inputs'.early = 0
  BY <1>8 DEF deletePoolRemove, vars, Alone
<1>9. ASSUME NEW s \in Sources,
             refreshLaunch(s) \/ (\E p \in Listed : Schedule(s, p)) \/ refreshFinish(s)
      PROVE  inputs'.early = 0
  BY <1>2, <1>9 DEF refreshLaunch, Schedule, refreshFinish, Alone
<1>10. inputs'.early = 0
  BY <1>1, <1>3, <1>4, <1>5, <1>6, <1>7, <1>8, <1>9 DEF Steps, Alone
<1>. QED  BY <1>10, BatchStep DEF Alone

LEMMA AloneInit == Init => Alone
  BY DEF Init, Alone, Batches

\* A worker's verdict when there is no rescue.
LEMMA PlainError ==
  ASSUME Undisturbed, NEW w \in Workers, workerError(w)
  PROVE  \E ch \in {"forget", "timeout"} : Post(w, <<Msg(ch, checking[w])>>)
  BY DEF workerError, Undisturbed

LEMMA PostSingle ==
  ASSUME TypeOK, Singles, NEW g \in Goroutines, NEW m, Post(g, <<m>>), UNCHANGED pendingEviction
  PROVE  Singles'
<1>1. outbox'[g] = <<m>> /\ \A h \in Goroutines \ {g} : outbox'[h] = outbox[h]
  BY DEF Post, TypeOK
<1>2. Len(<<m>>) = 1 /\ 1 <= 1
  OBVIOUS
<1>3. \A h \in Goroutines : Len(outbox'[h]) <= 1
  <2>1. Len(outbox'[g]) <= 1
    BY <1>1, <1>2, Zenon
  <2>2. \A h \in Goroutines \ {g} : Len(outbox'[h]) <= 1
    BY <1>1, Zenon DEF Singles
  <2>. QED  BY <2>1, <2>2
<1>. QED  BY <1>3 DEF Singles

LEMMA SinglesStep ==
  ASSUME TypeOK, Singles, Undisturbed, [Next]_vars
  PROVE  Singles'
<1>a. Steps
  BY UndisturbedSteps
<1>1. CASE UNCHANGED <<outbox, pendingEviction>>
  BY <1>1 DEF Singles
<1>2. ASSUME NEW g \in Goroutines, Deliver(g) PROVE Singles'
  <2>1. outbox[g] \in Seq(Send) /\ outbox[g] # <<>> /\ Len(outbox[g]) <= 1
    BY <1>2 DEF TypeOK, Singles, Deliver, Free
  <2>2. Len(Tail(outbox[g])) <= 1
    <3>. DEFINE o == outbox[g]
    <3>1. o \in Seq(Send) /\ o # <<>> /\ Len(o) <= 1
      BY <2>1
    <3>. HIDE DEF o
    <3>2. Len(Tail(o)) = Len(o) - 1 /\ Len(o) \in Nat
      BY <3>1
    <3>3. Len(Tail(o)) <= 1
      BY <3>1, <3>2
    <3>. QED  BY <3>3 DEF o
  <2>3. outbox'[g] = Tail(outbox[g]) /\ \A h \in Goroutines \ {g} : outbox'[h] = outbox[h]
    BY <1>2 DEF Deliver, TypeOK
  <2>4. \A h \in Goroutines : Len(outbox'[h]) <= 1
    BY <2>2, <2>3 DEF Singles
  <2>5. UNCHANGED pendingEviction
    BY <1>2 DEF Deliver, world
  <2>. QED  BY <2>4, <2>5 DEF Singles
<1>3. CASE handleScheduled
  <2>1. CASE UNCHANGED outbox
    BY <1>1, <1>3, <2>1 DEF handleScheduled, world
  <2>2. CASE Post("main", <<Msg("probing", Head(chan["scheduled"]))>>)
    BY <1>3, <2>2, PostSingle, Goroutine DEF handleScheduled, world
  <2>. QED  BY <1>3, <2>1, <2>2 DEF handleScheduled
<1>4. CASE main /\ ~handleScheduled
  BY <1>1, <1>4 DEF main, handleForget, handleTimeout, handleFound, handleReverify, world
<1>5. ASSUME NEW r \in Reverifiers, reverifying(r) PROVE Singles'
  <2>1. CASE reverifySchedule(r)
    BY <2>1, PostSingle, Goroutine DEF reverifySchedule, world
  <2>2. CASE reverifyLaunch(r) \/ reverifyFinish(r)
    BY <1>1, <2>2 DEF reverifyLaunch, reverifyFinish, world
  <2>. QED  BY <1>5, <2>1, <2>2 DEF reverifying
<1>6. ASSUME NEW w \in Workers, worker(w) PROVE Singles'
  <2>1. CASE workerTake(w)
    BY <1>1, <2>1 DEF workerTake, world
  <2>2. CASE workerError(w)
    <3>1. UNCHANGED pendingEviction
      BY <2>2 DEF workerError, world
    <3>. QED  BY <2>2, <3>1, PlainError, PostSingle, Goroutine
  <2>3. CASE workerFound(w)
    BY <2>3, PostSingle, Goroutine DEF workerFound, world
  <2>. QED  BY <1>6, <2>1, <2>2, <2>3 DEF worker
<1>7. CASE deletePoolRemove
  BY <1>1, <1>7 DEF deletePoolRemove
<1>8. ASSUME NEW s \in Sources, refreshLaunch(s) \/ refreshFinish(s) PROVE Singles'
  BY <1>1, <1>8 DEF refreshLaunch, refreshFinish
<1>9. ASSUME NEW s \in Sources, NEW p \in Listed, Schedule(s, p) PROVE Singles'
  BY <1>9, PostSingle, Goroutine DEF Schedule
<1>10. CASE UNCHANGED vars
  BY <1>1, <1>10 DEF vars
<1>. QED  BY <1>a, <1>2, <1>3, <1>4, <1>5, <1>6, <1>7, <1>8, <1>9, <1>10 DEF Steps

\* Until the first reverify batch is launched no item was probed before, so
\* none of the backlog is exceeded.
Fresh == [proxy : Proxies, source : SourceIds, attempt : {0}]

First ==
  stats[Reverify].state = "absent" =>
    /\ chan \in [Channels -> Seq(Fresh)]
    /\ outbox \in [Goroutines -> Seq([ch : Channels, v : Fresh])]
    /\ checking \in [Workers -> Fresh \cup {NoVerify}]
    /\ LastReverified \in [Proxies -> {0, 1}]

LEMMA NeverAbsent ==
  ASSUME NEW st \in Stat, NEW u \in Updates
  PROVE  handleUpdate(st, u).state # "absent"
<1>. DEFINE k == Known(st)
            c == Count(k, u)
<1>1. k \in Stat /\ k.state # "absent"
  BY KnownType DEF Known, Stat
<1>. HIDE DEF k
<1>2. c.state # "absent"
  <2>1. CASE u = "Launched"
    BY <2>1 DEF Count, Launched
  <2>2. CASE u = "Scheduled"
    BY <1>1, <2>2 DEF Count, Stat
  <2>3. CASE u = "Ignored"
    BY <1>1, <2>3 DEF Count, Stat
  <2>4. CASE u = "New"
    BY <1>1, <2>4 DEF Count, Stat
  <2>5. CASE u = "Probing"
    BY <1>1, <2>5 DEF Count, Stat
  <2>6. CASE u \in {"Found", "Timeout", "Blacklisted"}
    BY <1>1, <2>6 DEF Count, Stat
  <2>7. CASE u = "Finished"
    BY <1>1, <2>7 DEF Count, Stat
  <2>8. CASE u = "FinishedErr"
    BY <1>1, <2>8 DEF Count, Stat
  <2>. QED  BY <2>1, <2>2, <2>3, <2>4, <2>5, <2>6, <2>7, <2>8 DEF Updates
<1>3. c \in Stat
  BY <1>1, CountType
<1>. HIDE DEF c
<1>4. Settle(c).state # "absent"
  BY <1>2, <1>3 DEF Settle, Stat
<1>. QED  BY <1>4 DEF handleUpdate, c, k

\* Removing nothing from an absent Stat is the only way it stays absent.
LEMMA ForgetExceededState ==
  ASSUME NEW st \in Stat, NEW n \in Nat, st.state # "running"
  PROVE  /\ n = 0 => ForgetExceeded(st, n) = st
         /\ n # 0 => ForgetExceeded(st, n).state # "absent"
         /\ st.state \in {"idle", "failed"} => ForgetExceeded(st, n).state = st.state
<1>1. CASE n = 0
  BY <1>1 DEF ForgetExceeded
<1>2. CASE n # 0
  <2>. DEFINE k == Known(st)
              c == [k EXCEPT !.Probing = @ - n]
  <2>1. k \in Stat /\ k.state # "absent" /\ (st.state \in {"idle", "failed"} => k.state = st.state)
    BY KnownType DEF Known, Stat
  <2>. HIDE DEF k
  <2>2. c \in Stat /\ c.state = k.state
    BY <2>1 DEF Stat
  <2>. HIDE DEF c
  <2>3. /\ Settle(c).state # "absent"
        /\ c.state \in {"idle", "failed"} => Settle(c).state = c.state
    BY <2>1, <2>2 DEF Settle, Stat
  <2>4. ForgetExceeded(st, n) = Settle(c)
    BY <1>2 DEF ForgetExceeded, c, k
  <2>. QED  BY <1>2, <2>1, <2>2, <2>3, <2>4
<1>. QED  BY <1>1, <1>2

LEMMA ExceededFinite ==
  IsFiniteSet(Exceeded) /\ Cardinality(Exceeded) \in Nat
  /\ (Cardinality(Exceeded) = 0 <=> Exceeded = {})
<1>1. Exceeded \in SUBSET Proxies
  BY DEF Exceeded, Backlog
<1>2. IsFiniteSet(Exceeded)
  BY <1>1, ProbeAssumption, FS_Subset
<1>. QED  BY <1>2, FS_CardinalityType, FS_EmptySet

LEMMA SourceOfHead ==
  ASSUME TypeOK, NEW c \in Channels, chan[c] # <<>>
  PROVE  Head(chan[c]) \in Verify /\ Head(chan[c]).source \in SourceIds
<1>1. Head(chan[c]) \in Verify
  BY ReceiveType DEF TypeOK
<1>. QED  BY <1>1, VerifyFields

LEMMA FirstStep ==
  ASSUME TypeOK, Singles, First, Undisturbed, [Next]_vars
  PROVE  First'
<1>. SUFFICES ASSUME stats'[Reverify].state = "absent"
              PROVE  /\ chan' \in [Channels -> Seq(Fresh)]
                     /\ outbox' \in [Goroutines -> Seq([ch : Channels, v : Fresh])]
                     /\ checking' \in [Workers -> Fresh \cup {NoVerify}]
                     /\ LastReverified' \in [Proxies -> {0, 1}]
  BY DEF First
<1>. DEFINE M == [ch : Channels, v : Fresh]
            Now == /\ chan \in [Channels -> Seq(Fresh)]
                   /\ outbox \in [Goroutines -> Seq(M)]
                   /\ checking \in [Workers -> Fresh \cup {NoVerify}]
                   /\ LastReverified \in [Proxies -> {0, 1}]
<1>a. Steps
  BY UndisturbedSteps
<1>b. stats \in [SourceIds -> Stat] /\ stats[Reverify] \in Stat
  BY Goroutine DEF TypeOK
<1>c. \A s \in SourceIds, u \in Updates :
        Update(s, u) => s # Reverify /\ stats'[Reverify] = stats[Reverify]
  <2>. SUFFICES ASSUME NEW s \in SourceIds, NEW u \in Updates, Update(s, u)
                PROVE  s # Reverify /\ stats'[Reverify] = stats[Reverify]
    OBVIOUS
  <2>1. CASE s = Reverify
    <3>1. stats'[Reverify] = handleUpdate(stats[Reverify], u)
      BY <1>b, <2>1 DEF Update
    <3>. QED  BY <1>b, <3>1, NeverAbsent
  <2>2. CASE s # Reverify
    BY <1>b, <2>2, Goroutine DEF Update
  <2>. QED  BY <2>1, <2>2
<1>d. stats[Reverify].state = "absent" => Now
  BY DEF First
<1>e. stats'[Reverify] = stats[Reverify] => Now
  BY <1>d
<1>f. \A c \in Channels : chan[c] # <<>> => Head(chan[c]).source \in SourceIds
  BY SourceOfHead
<1>g. \A v \in Fresh, c \in Channels : Msg(c, v) \in M
  BY DEF Msg
<1>h. \A g \in Goroutines, m \in M :
        Now /\ Post(g, <<m>>) => outbox' \in [Goroutines -> Seq(M)]
  <2>. SUFFICES ASSUME NEW g \in Goroutines, NEW m \in M, Now, Post(g, <<m>>)
                PROVE  outbox' \in [Goroutines -> Seq(M)]
    OBVIOUS
  <2>1. outbox \in [Goroutines -> Seq(M)]
    OBVIOUS
  <2>. HIDE DEF M, Now
  <2>2. <<m>> \in Seq(M)
    OBVIOUS
  <2>. QED  BY <2>1, <2>2, PostType
<1>. HIDE DEF Now, M
<1>1. ASSUME NEW g \in Goroutines, Deliver(g)
      PROVE  chan' \in [Channels -> Seq(Fresh)] /\ outbox' \in [Goroutines -> Seq(M)]
             /\ checking' \in [Workers -> Fresh \cup {NoVerify}]
             /\ LastReverified' \in [Proxies -> {0, 1}]
  <2>1. Now
    BY <1>1, <1>e DEF Deliver
  <2>2. chan' \in [Channels -> Seq(Fresh)] /\ outbox' \in [Goroutines -> Seq(M)]
    BY <1>1, <2>1, DeliverType DEF Now, M
  <2>. QED  BY <1>1, <2>1, <2>2 DEF Deliver, Now, maps
<1>2. ASSUME NEW c \in Channels, Now, chan[c] # <<>>, Received(c)
      PROVE  Head(chan[c]) \in Fresh /\ chan' \in [Channels -> Seq(Fresh)]
  BY <1>2, ReceiveType DEF Now
<1>3. CASE handleScheduled
  <2>. DEFINE v == Head(chan["scheduled"])
  <2>1. PICK u \in {"Ignored", "New"} : Update(v.source, u)
    BY <1>3 DEF handleScheduled
  <2>2. Now
    BY <1>c, <1>e, <1>f, <1>3, <2>1 DEF handleScheduled, AtSelect, Channels, Updates
  <2>3. v \in Fresh /\ chan' \in [Channels -> Seq(Fresh)]
    BY <1>2, <1>3, <2>2 DEF handleScheduled, AtSelect, Channels
  <2>4. \/ LastReverified' = [LastReverified EXCEPT ![v.proxy] = 0]
        \/ UNCHANGED LastReverified
    BY <1>3 DEF handleScheduled
  <2>5. UNCHANGED outbox \/ Post("main", <<Msg("probing", v)>>)
    BY <1>3 DEF handleScheduled
  <2>. HIDE DEF v
  <2>6. LastReverified' \in [Proxies -> {0, 1}]
    BY <2>2, <2>4 DEF Now
  <2>7. outbox' \in [Goroutines -> Seq(M)]
    BY <1>g, <1>h, <2>2, <2>3, <2>5, Goroutine DEF Now, Channels
  <2>. QED  BY <1>3, <2>2, <2>3, <2>6, <2>7 DEF handleScheduled, Now, M
<1>4. CASE handleForget
  <2>1. Now
    BY <1>c, <1>e, <1>f, <1>4 DEF handleForget, AtSelect, Channels, Updates
  <2>2. chan' \in [Channels -> Seq(Fresh)]
    BY <1>2, <1>4, <2>1 DEF handleForget, AtSelect, Channels
  <2>3. LastReverified' \in [Proxies -> {0, 1}]
    BY <1>4, <2>1 DEF handleForget, Now
  <2>. QED  BY <1>4, <2>1, <2>2, <2>3 DEF handleForget, Now, M
<1>5. CASE handleTimeout
  <2>. DEFINE v == Head(chan["timeout"])
  <2>1. Now
    BY <1>c, <1>e, <1>f, <1>5 DEF handleTimeout, AtSelect, Channels, Updates
  <2>2. v \in Fresh /\ chan' \in [Channels -> Seq(Fresh)]
    BY <1>2, <1>5, <2>1 DEF handleTimeout, AtSelect, Channels
  <2>3. LastReverified' = [LastReverified EXCEPT ![v.proxy] = nextAttempt(v)]
    BY <1>5 DEF handleTimeout
  <2>. HIDE DEF v
  <2>4. nextAttempt(v) = 1
    BY <2>2 DEF Fresh, nextAttempt
  <2>5. LastReverified' \in [Proxies -> {0, 1}]
    BY <2>1, <2>3, <2>4 DEF Now
  <2>. QED  BY <1>5, <2>1, <2>2, <2>5 DEF handleTimeout, Now, M
<1>6. CASE handleFound
  <2>1. Now
    BY <1>e, <1>6 DEF handleFound
  <2>2. chan' \in [Channels -> Seq(Fresh)]
    BY <1>2, <1>6, <2>1 DEF handleFound, AtSelect, Channels
  <2>3. LastReverified' \in [Proxies -> {0, 1}]
    BY <1>6, <2>1 DEF handleFound, Now
  <2>. QED  BY <1>6, <2>1, <2>2, <2>3 DEF handleFound, Now, M
<1>7. CASE handleReverify
  <2>1. /\ stats'[Reverify] = ForgetExceeded(stats[Reverify], Cardinality(Exceeded))
        /\ stats[Reverify].state # "running"
    BY <1>b, <1>7, Goroutine DEF handleReverify, IsRunning
  <2>2. stats[Reverify].state = "absent"
    <3>1. stats[Reverify].state \in {"absent", "idle", "running", "failed"}
      BY <1>b DEF Stat, States
    <3>2. stats[Reverify].state \in {"idle", "failed"} =>
            ForgetExceeded(stats[Reverify], Cardinality(Exceeded)).state = stats[Reverify].state
      BY <1>b, <2>1, ExceededFinite, ForgetExceededState
    <3>. QED  BY <2>1, <3>1, <3>2
  <2>3. Now
    BY <1>d, <2>2
  <2>4. LastReverified' \in [Proxies -> {0, 1}]
    BY <1>7, <2>3 DEF handleReverify, AfterReverify, Now
  <2>. QED  BY <1>7, <2>3, <2>4 DEF handleReverify, Now, M
<1>8. \A r \in Reverifiers : ~reverifying(r)
  BY <1>c, Goroutine DEF reverifying, reverifyLaunch, reverifySchedule, reverifyFinish, Updates
<1>9. ASSUME NEW w \in Workers, worker(w)
      PROVE  chan' \in [Channels -> Seq(Fresh)] /\ outbox' \in [Goroutines -> Seq(M)]
             /\ checking' \in [Workers -> Fresh \cup {NoVerify}]
             /\ LastReverified' \in [Proxies -> {0, 1}]
  <2>1. CASE workerTake(w)
    <3>. DEFINE v == Head(chan["probing"])
    <3>1. Now
      BY <1>c, <1>e, <1>f, <2>1 DEF workerTake, Channels, Updates
    <3>2. v \in Fresh /\ chan' \in [Channels -> Seq(Fresh)]
      BY <1>2, <2>1, <3>1 DEF workerTake, Channels
    <3>3. checking' = [checking EXCEPT ![w] = v]
      BY <2>1 DEF workerTake
    <3>. HIDE DEF v
    <3>4. checking' \in [Workers -> Fresh \cup {NoVerify}]
      BY <3>1, <3>2, <3>3 DEF Now
    <3>. QED  BY <2>1, <3>1, <3>2, <3>4 DEF workerTake, Now, maps
  <2>2. CASE workerError(w)
    <3>1. Now
      BY <1>e, <2>2 DEF workerError
    <3>2. checking[w] \in Fresh
      BY <2>2, <3>1 DEF workerError, Now
    <3>3. PICK ch \in {"forget", "timeout"} : Post(w, <<Msg(ch, checking[w])>>)
      BY <2>2, PlainError
    <3>4. outbox' \in [Goroutines -> Seq(M)]
      BY <1>g, <1>h, <3>1, <3>2, <3>3, Goroutine DEF Channels
    <3>5. checking' \in [Workers -> Fresh \cup {NoVerify}]
      BY <2>2, <3>1 DEF workerError, Now
    <3>. QED  BY <2>2, <3>1, <3>4, <3>5 DEF workerError, Now, maps
  <2>3. CASE workerFound(w)
    <3>1. checking[w] \in Verify /\ checking[w].source \in SourceIds
      BY <2>3, VerifyFields DEF workerFound, TypeOK
    <3>2. Now
      BY <1>c, <1>e, <2>3, <3>1 DEF workerFound, Updates
    <3>3. checking[w] \in Fresh
      BY <2>3, <3>2 DEF workerFound, Now
    <3>4. Post(w, <<Msg("found", checking[w])>>)
      BY <2>3 DEF workerFound
    <3>5. outbox' \in [Goroutines -> Seq(M)]
      BY <1>g, <1>h, <3>2, <3>3, <3>4, Goroutine DEF Channels
    <3>6. checking' \in [Workers -> Fresh \cup {NoVerify}]
      BY <2>3, <3>2 DEF workerFound, Now
    <3>. QED  BY <2>3, <3>2, <3>5, <3>6 DEF workerFound, Now, maps
  <2>. QED  BY <1>9, <2>1, <2>2, <2>3 DEF worker
<1>10. CASE deletePoolRemove
  BY <1>e, <1>10 DEF deletePoolRemove, Now, M, maps
<1>11. ASSUME NEW s \in Sources, refreshLaunch(s) \/ refreshFinish(s)
       PROVE  chan' \in [Channels -> Seq(Fresh)] /\ outbox' \in [Goroutines -> Seq(M)]
              /\ checking' \in [Workers -> Fresh \cup {NoVerify}]
              /\ LastReverified' \in [Proxies -> {0, 1}]
  <2>1. Now
    BY <1>c, <1>e, <1>11, Goroutine DEF refreshLaunch, refreshFinish, Updates
  <2>. QED  BY <1>11, <2>1 DEF refreshLaunch, refreshFinish, Now, maps
<1>12. ASSUME NEW s \in Sources, NEW p \in Listed, Schedule(s, p)
       PROVE  chan' \in [Channels -> Seq(Fresh)] /\ outbox' \in [Goroutines -> Seq(M)]
              /\ checking' \in [Workers -> Fresh \cup {NoVerify}]
              /\ LastReverified' \in [Proxies -> {0, 1}]
  <2>1. Now
    BY <1>c, <1>e, <1>12, Goroutine DEF Schedule, Updates
  <2>2. [proxy |-> p, source |-> s, attempt |-> 0] \in Fresh
    BY ProbeAssumption, Goroutine DEF Fresh
  <2>3. outbox' \in [Goroutines -> Seq(M)]
    BY <1>g, <1>h, <1>12, <2>1, <2>2, Goroutine DEF Schedule, Channels
  <2>. QED  BY <1>12, <2>1, <2>3 DEF Schedule, Now, maps
<1>13. CASE UNCHANGED vars
  BY <1>e, <1>13 DEF vars, Now, M
<1>. QED  BY <1>a, <1>1, <1>3, <1>4, <1>5, <1>6, <1>7, <1>8, <1>9, <1>10, <1>11, <1>12, <1>13
          DEF Steps, main, M

\* The counters of s are its items in the pipeline.
Exact(s) ==
  /\ stats[s].Scheduled = Waiting(s)
  /\ stats[s].New = Hired(s)
  /\ stats[s].Probing = InHand(s)

NoItems(s) == Waiting(s) = 0 /\ Hired(s) = 0 /\ InHand(s) = 0

\* A source at rest has no items left, which is what lets a launch start from zero.
Booked(s) ==
  /\ s \in Sources \/ IsRunning(stats[s]) => Exact(s)
  /\ stats[s].state \in {"absent", "idle"} => NoItems(s)
  /\ s = Reverify => stats[s].state # "failed"

Books == \A s \in SourceIds : Booked(s)

\* One update for one item of t, which moves accordingly.
ItemMove(t, u) ==
  /\ Update(t, u)
  /\ u = "Scheduled" => IsRunning(stats[t])
  /\ \A s \in SourceIds :
       /\ s = t => Moved(s, ScheduledBy(u), NewBy(u), ProbingBy(u))
       /\ s # t => Moved(s, 0, 0, 0)

LEMMA CountsNext ==
  ASSUME TypeOK', NEW s
  PROVE  Waiting(s)' \in Nat /\ Hired(s)' \in Nat /\ InHand(s)' \in Nat
<1>1. \A c \in Channels : chan'[c] \in Seq(Verify)
  BY DEF TypeOK
<1>2. \A c \in Channels : Holding(s, chan'[c]) \in Nat
  BY <1>1, HoldingIs
<1>3. \A cs : Cardinality(Senders(s, cs)') \in Nat
  <2>. SUFFICES ASSUME NEW cs PROVE Cardinality(Senders(s, cs)') \in Nat
    OBVIOUS
  <2>1. Senders(s, cs)' \in SUBSET Goroutines
    BY DEF Senders
  <2>. QED  BY <2>1, GoroutinesAssumption, FS_Subset, FS_CardinalityType
<1>4. Cardinality(Checkers(s)') \in Nat
  <2>1. Checkers(s)' \in SUBSET Goroutines
    BY DEF Checkers, Goroutines
  <2>. QED  BY <2>1, GoroutinesAssumption, FS_Subset, FS_CardinalityType
<1>5. Waiting(s)' \in Nat
  BY <1>2, <1>3 DEF Waiting, Channels
<1>6. Hired(s)' \in Nat
  BY <1>2, <1>3 DEF Hired, Channels
<1>7. InHand(s)' \in Nat
  BY <1>2, <1>3, <1>4 DEF InHand, Channels
<1>. QED  BY <1>5, <1>6, <1>7

LEMMA DeltasType ==
  ASSUME NEW u \in ItemUpdates
  PROVE  /\ ScheduledBy(u) \in Int /\ NewBy(u) \in Int /\ ProbingBy(u) \in Int
         /\ u # "Scheduled" => ScheduledBy(u) = -1 \/ NewBy(u) = -1 \/ ProbingBy(u) = -1
  BY DEF ItemUpdates, ScheduledBy, NewBy, ProbingBy

\* Whatever reports an item reports it to a Stat that is not at rest.
LEMMA ItemOwned ==
  ASSUME TypeOK, TypeOK', Books, NEW t \in SourceIds, NEW u \in ItemUpdates, ItemMove(t, u)
  PROVE  stats[t].state \in {"running", "failed"}
<1>1. stats[t] \in Stat
  BY DEF TypeOK
<1>2. stats[t].state \in {"absent", "idle", "running", "failed"}
  BY <1>1 DEF Stat, States
<1>3. CASE stats[t].state \in {"absent", "idle"}
  <2>1. u # "Scheduled"
    BY <1>3 DEF ItemMove, IsRunning
  <2>2. Waiting(t) = 0 /\ Hired(t) = 0 /\ InHand(t) = 0
    BY <1>3 DEF Books, Booked, NoItems
  <2>3. /\ Waiting(t)' = Waiting(t) + ScheduledBy(u)
        /\ Hired(t)' = Hired(t) + NewBy(u)
        /\ InHand(t)' = InHand(t) + ProbingBy(u)
    BY DEF ItemMove, Moved
  <2>4. Waiting(t)' \in Nat /\ Hired(t)' \in Nat /\ InHand(t)' \in Nat
    BY CountsNext
  <2>. QED  BY <2>1, <2>2, <2>3, <2>4, DeltasType
<1>. QED  BY <1>2, <1>3

\* A Stat that nobody updates, while nothing of its source moves.
LEMMA BookedSame ==
  ASSUME TypeOK, NEW s, Booked(s), stats'[s] = stats[s], Moved(s, 0, 0, 0)
  PROVE  Booked(s)'
<1>1. Waiting(s) \in Nat /\ Hired(s) \in Nat /\ InHand(s) \in Nat
  BY CountsType
<1>2. Waiting(s)' = Waiting(s) /\ Hired(s)' = Hired(s) /\ InHand(s)' = InHand(s)
  BY <1>1 DEF Moved
<1>. QED  BY <1>2 DEF Booked, Exact, NoItems, IsRunning

LEMMA ItemBooked ==
  ASSUME TypeOK, TypeOK', Books, NEW t \in SourceIds, NEW u \in ItemUpdates, ItemMove(t, u)
  PROVE  Books'
<1>. SUFFICES ASSUME NEW s \in SourceIds PROVE Booked(s)'
  BY DEF Books
<1>1. stats \in [SourceIds -> Stat] /\ Booked(s)
  BY DEF TypeOK, Books
<1>2. CASE s # t
  <2>1. stats'[s] = stats[s]
    BY <1>1, <1>2 DEF ItemMove, Update
  <2>. QED  BY <1>1, <1>2, <2>1, BookedSame DEF ItemMove
<1>3. CASE s = t
  <2>. DEFINE st == stats[s]
              r == handleUpdate(st, u)
  <2>1. st \in Stat /\ st.state \in {"running", "failed"}
    BY <1>1, <1>3, ItemOwned
  <2>2. stats'[s] = r
    BY <1>1, <1>3 DEF ItemMove, Update
  <2>3. s \in Sources \/ st.state = "running"
    BY <1>1, <2>1 DEF Booked, SourceIds
  <2>4. st.Scheduled = Waiting(s) /\ st.New = Hired(s) /\ st.Probing = InHand(s)
    BY <1>1, <2>3 DEF Booked, Exact, IsRunning
  <2>5. /\ r.Scheduled = st.Scheduled + ScheduledBy(u)
        /\ r.New = st.New + NewBy(u)
        /\ r.Probing = st.Probing + ProbingBy(u)
        /\ r.state = st.state \/ (r.state = "idle" /\ Pipeline(r) = 0)
    <3>. HIDE DEF st
    <3>. QED  BY <2>1, ItemCounts
  <2>6. /\ Waiting(s)' = Waiting(s) + ScheduledBy(u)
        /\ Hired(s)' = Hired(s) + NewBy(u)
        /\ InHand(s)' = InHand(s) + ProbingBy(u)
    BY <1>3 DEF ItemMove, Moved
  <2>. HIDE DEF st, r
  <2>7. r.Scheduled = Waiting(s)' /\ r.New = Hired(s)' /\ r.Probing = InHand(s)'
    BY <2>4, <2>5, <2>6
  <2>8. Exact(s)'
    BY <2>2, <2>7 DEF Exact
  <2>9. Waiting(s)' \in Nat /\ Hired(s)' \in Nat /\ InHand(s)' \in Nat
    BY CountsNext
  <2>10. r.state \in {"absent", "idle"} => NoItems(s)'
    <3>. SUFFICES ASSUME r.state \in {"absent", "idle"} PROVE NoItems(s)'
      OBVIOUS
    <3>1. r.Scheduled + r.New + r.Probing = 0
      BY <2>1, <2>5 DEF Pipeline
    <3>. QED  BY <2>7, <2>9, <3>1 DEF NoItems
  <2>11. s = Reverify => r.state # "failed"
    BY <1>1, <2>1, <2>5 DEF Booked, st
  <2>. QED  BY <2>2, <2>8, <2>10, <2>11 DEF Booked
<1>. QED  BY <1>2, <1>3

\* A launch of a source at rest.
LEMMA LaunchBooked ==
  ASSUME TypeOK, Books, NEW t \in SourceIds, Update(t, "Launched"),
         stats[t].state \in {"absent", "idle"}, UNCHANGED <<chan, outbox, checking>>
  PROVE  Books' /\ stats'[t] = Launched
<1>1. stats \in [SourceIds -> Stat]
  BY DEF TypeOK
<1>2. stats'[t] = Launched
  BY <1>1, LaunchCounts DEF Update
<1>. SUFFICES ASSUME NEW s \in SourceIds PROVE Booked(s)'
  BY <1>2 DEF Books
<1>3. Booked(s) /\ Moved(s, 0, 0, 0)
  BY StillMoves DEF Books
<1>4. CASE s # t
  <2>1. stats'[s] = stats[s]
    BY <1>1, <1>4 DEF Update
  <2>. QED  BY <1>3, <2>1, BookedSame
<1>5. CASE s = t
  <2>1. Waiting(s)' = 0 /\ Hired(s)' = 0 /\ InHand(s)' = 0
    BY <1>3, <1>5 DEF Booked, NoItems, Moved
  <2>. QED  BY <1>2, <1>5, <2>1 DEF Booked, Exact, Launched
<1>. QED  BY <1>4, <1>5

\* The end of a run.
LEMMA FinishBooked ==
  ASSUME TypeOK, Books, NEW t \in SourceIds, NEW u \in {"Finished", "FinishedErr"}, Update(t, u),
         t = Reverify => u = "Finished",
         IsRunning(stats[t]), UNCHANGED <<chan, outbox, checking>>
  PROVE  Books'
<1>1. stats \in [SourceIds -> Stat]
  BY DEF TypeOK
<1>. SUFFICES ASSUME NEW s \in SourceIds PROVE Booked(s)'
  BY DEF Books
<1>3. Booked(s) /\ Moved(s, 0, 0, 0)
  BY StillMoves DEF Books
<1>4. CASE s # t
  <2>1. stats'[s] = stats[s]
    BY <1>1, <1>4 DEF Update
  <2>. QED  BY <1>3, <2>1, BookedSame
<1>5. CASE s = t
  <2>. DEFINE st == stats[s]
              r == handleUpdate(st, u)
  <2>1. st \in Stat /\ st.state = "running" /\ stats'[s] = r
    BY <1>1, <1>5 DEF Update, IsRunning
  <2>2. st.Scheduled = Waiting(s) /\ st.New = Hired(s) /\ st.Probing = InHand(s)
    BY <1>3, <2>1 DEF Booked, Exact, IsRunning
  <2>3. /\ r.Scheduled = st.Scheduled /\ r.New = st.New /\ r.Probing = st.Probing
        /\ \/ r.state = "running"
           \/ u = "FinishedErr" /\ r.state = "failed"
           \/ r.state = "idle" /\ Pipeline(r) = 0
    <3>. HIDE DEF st
    <3>. QED  BY <2>1, FinishCounts
  <2>. HIDE DEF st, r
  <2>4. Waiting(s) \in Nat /\ Hired(s) \in Nat /\ InHand(s) \in Nat
    BY CountsType
  <2>5. Waiting(s)' = Waiting(s) /\ Hired(s)' = Hired(s) /\ InHand(s)' = InHand(s)
    BY <1>3, <2>4 DEF Moved
  <2>6. Exact(s)'
    BY <2>1, <2>2, <2>3, <2>5 DEF Exact
  <2>7. r.state \in {"absent", "idle"} => NoItems(s)'
    <3>. SUFFICES ASSUME r.state \in {"absent", "idle"} PROVE NoItems(s)'
      OBVIOUS
    <3>1. r.Scheduled + r.New + r.Probing = 0
      BY <2>3 DEF Pipeline
    <3>. QED  BY <2>2, <2>3, <2>4, <2>5, <3>1 DEF NoItems
  <2>8. s = Reverify => r.state # "failed"
    <3>1. s = Reverify => u # "FinishedErr"
      BY <1>5
    <3>. QED  BY <2>3, <3>1
  <2>. QED  BY <2>1, <2>6, <2>7, <2>8 DEF Booked
<1>. QED  BY <1>4, <1>5

\* The timer finds the Stat of Reverify at rest and leaves it so.
LEMMA ReverifyBooked ==
  ASSUME TypeOK, Books, First, handleReverify
  PROVE  Books' /\ stats'[Reverify].state \in {"absent", "idle"} /\ UNCHANGED feed
<1>1. stats \in [SourceIds -> Stat] /\ Reverify \in SourceIds
  BY Goroutine DEF TypeOK
<1>. DEFINE st == stats[Reverify]
<1>2. /\ st \in Stat /\ st.state # "running"
      /\ stats' = [stats EXCEPT ![Reverify] = ForgetExceeded(st, Cardinality(Exceeded))]
      /\ UNCHANGED <<chan, outbox, checking>> /\ UNCHANGED feed
  BY <1>1 DEF handleReverify, IsRunning, world
<1>3. Booked(Reverify)
  BY <1>1 DEF Books
<1>4. st.state \in {"absent", "idle"}
  BY <1>2, <1>3 DEF Booked, Stat, States
<1>5. stats'[Reverify].state = st.state
  <2>1. CASE st.state = "absent"
    <3>1. LastReverified \in [Proxies -> {0, 1}]
      BY <2>1 DEF First
    <3>2. Exceeded = {}
      BY <3>1, ProbeAssumption DEF Exceeded, Backlog
    <3>3. Cardinality(Exceeded) = 0
      BY <3>2, ExceededFinite
    <3>4. ForgetExceeded(st, Cardinality(Exceeded)) = st
      BY <3>3 DEF ForgetExceeded
    <3>. QED  BY <1>1, <1>2, <3>4
  <2>2. CASE st.state = "idle"
    <3>. HIDE DEF st
    <3>1. ForgetExceeded(st, Cardinality(Exceeded)).state = st.state
      BY <1>2, <2>2, ExceededFinite, ForgetExceededState
    <3>. QED  BY <1>1, <1>2, <3>1
  <2>. QED  BY <1>4, <2>1, <2>2
<1>6. ASSUME NEW s \in SourceIds PROVE Booked(s)'
  <2>1. Booked(s) /\ Moved(s, 0, 0, 0)
    BY <1>2, StillMoves DEF Books
  <2>2. CASE s # Reverify
    <3>1. stats'[s] = stats[s]
      BY <1>1, <1>2, <2>2
    <3>. QED  BY <2>1, <3>1, BookedSame
  <2>3. CASE s = Reverify
    <3>1. NoItems(s)
      BY <1>4, <2>1, <2>3 DEF Booked
    <3>2. NoItems(s)'
      BY <2>1, <3>1 DEF NoItems, Moved
    <3>3. s \notin Sources
      BY <2>3, ProbeAssumption
    <3>. QED  BY <1>4, <1>5, <2>3, <3>2, <3>3 DEF Booked, IsRunning
  <2>. QED  BY <2>2, <2>3
<1>. QED  BY <1>2, <1>4, <1>5, <1>6 DEF Books

\* A source that is between Launch and Finish is running.
FedRunning == \A s \in Sources : feed[s] => IsRunning(stats[s]) /\ ~stats[s].finished

\* Nothing is under way between the timer and the launch of its batch.
LaunchRests ==
  (\E r \in Reverifiers : reverify[r] = "launch") => ~IsRunning(stats[Reverify])

Ledger == Singles /\ First /\ Books /\ FedRunning /\ LaunchRests

\* Every step moves nothing and updates nothing, reports one item that moves,
\* or is a step of a launch, a finish or the timer.
Quiet ==
  UNCHANGED <<stats, feed, reverify>> /\ \A s \in SourceIds : Moved(s, 0, 0, 0)

Reported ==
  UNCHANGED <<feed, reverify>> /\ \E t \in SourceIds, u \in ItemUpdates : ItemMove(t, u)

LEMMA MinusZero ==
  ASSUME NEW i \in Int, i = 0
  PROVE  -i = 0
<1>1. i + (-i) = 0 /\ -i \in Int
  OBVIOUS
<1>2. \A k \in Int : i + k = 0 => k = 0
  OBVIOUS
<1>. QED  BY <1>1, <1>2, Zenon

LEMMA ReportedBy ==
  ASSUME NEW t \in SourceIds, NEW u \in ItemUpdates, Update(t, u), UNCHANGED <<feed, reverify>>,
         u = "Scheduled" => IsRunning(stats[t]),
         \A s \in SourceIds :
           LET n == One(t = s)
           IN  \/ u = "Scheduled" /\ Moved(s, n, 0, 0)
               \/ u = "Ignored" /\ Moved(s, -n, 0, 0)
               \/ u = "New" /\ Moved(s, -n, n, 0)
               \/ u = "Probing" /\ Moved(s, 0, -n, n)
               \/ u \in {"Found", "Timeout", "Blacklisted"} /\ Moved(s, 0, 0, -n)
  PROVE  Reported
<1>. SUFFICES ASSUME NEW s \in SourceIds
              PROVE  /\ s = t => Moved(s, ScheduledBy(u), NewBy(u), ProbingBy(u))
                     /\ s # t => Moved(s, 0, 0, 0)
  BY DEF Reported, ItemMove
<1>. DEFINE n == One(t = s)
<1>1. \/ u = "Scheduled" /\ Moved(s, n, 0, 0)
      \/ u = "Ignored" /\ Moved(s, -n, 0, 0)
      \/ u = "New" /\ Moved(s, -n, n, 0)
      \/ u = "Probing" /\ Moved(s, 0, -n, n)
      \/ u \in {"Found", "Timeout", "Blacklisted"} /\ Moved(s, 0, 0, -n)
  OBVIOUS
<1>2. (s = t => n = 1) /\ (s # t => n = 0)
  BY DEF One
<1>. HIDE DEF n
<1>3. CASE s # t
  <2>0. n = 0
    BY <1>2, <1>3
  <2>1. n = 0 /\ -n = 0
    <3>1. n \in Int
      BY <2>0
    <3>. QED  BY <2>0, <3>1, MinusZero, Zenon
  <2>. QED  BY <1>1, <1>3, <2>1
<1>4. CASE s = t
  <2>0. n = 1
    BY <1>2, <1>4
  <2>1. n = 1 /\ -n = -1
    BY <2>0, Zenon
  <2>2. CASE u = "Scheduled"
    BY <1>1, <1>4, <2>1, <2>2 DEF ScheduledBy, NewBy, ProbingBy
  <2>3. CASE u = "Ignored"
    BY <1>1, <1>4, <2>1, <2>3 DEF ScheduledBy, NewBy, ProbingBy
  <2>4. CASE u = "New"
    BY <1>1, <1>4, <2>1, <2>4 DEF ScheduledBy, NewBy, ProbingBy
  <2>5. CASE u = "Probing"
    BY <1>1, <1>4, <2>1, <2>5 DEF ScheduledBy, NewBy, ProbingBy
  <2>6. CASE u \in {"Found", "Timeout", "Blacklisted"}
    BY <1>1, <1>4, <2>1, <2>6 DEF ScheduledBy, NewBy, ProbingBy
  <2>. QED  BY <2>2, <2>3, <2>4, <2>5, <2>6 DEF ItemUpdates
<1>. QED  BY <1>3, <1>4

LEMMA ReceiveReports ==
  ASSUME TypeOK, NEW c \in {"scheduled", "forget", "timeout"}, chan[c] # <<>>, Received(c),
         UNCHANGED <<outbox, checking>>, UNCHANGED <<feed, reverify>>,
         NEW u \in {"Ignored", "Timeout", "Blacklisted"}, Update(Head(chan[c]).source, u),
         c = "scheduled" <=> u = "Ignored"
  PROVE  Reported
<1>. DEFINE t == Head(chan[c]).source
<1>1. c \in Channels /\ u \in ItemUpdates
  BY DEF Channels, ItemUpdates
<1>2. t \in SourceIds
  BY <1>1, SourceOfHead
<1>3. ASSUME NEW s \in SourceIds
      PROVE  LET n == One(t = s)
             IN  \/ u = "Scheduled" /\ Moved(s, n, 0, 0)
                 \/ u = "Ignored" /\ Moved(s, -n, 0, 0)
                 \/ u = "New" /\ Moved(s, -n, n, 0)
                 \/ u = "Probing" /\ Moved(s, 0, -n, n)
                 \/ u \in {"Found", "Timeout", "Blacklisted"} /\ Moved(s, 0, 0, -n)
  <2>1. /\ c = "scheduled" => Moved(s, -One(Head(chan[c]).source = s), 0, 0)
        /\ c \in {"forget", "timeout"} => Moved(s, 0, 0, -One(Head(chan[c]).source = s))
        /\ c = "found" => Moved(s, 0, 0, 0)
    BY <1>1, ReceiveMoves
  <2>2. CASE c = "scheduled"
    BY <2>1, <2>2
  <2>3. CASE c # "scheduled"
    BY <2>1, <2>3
  <2>. QED  BY <2>2, <2>3
<1>4. Update(t, u)
  OBVIOUS
<1>. HIDE DEF t
<1>. QED  BY <1>1, <1>2, <1>3, <1>4, ReportedBy

\* A worker that takes an item, and one that found its item alive.
LEMMA WorkerReports ==
  ASSUME TypeOK, CheckingIsFree, Undisturbed, NEW w \in Workers, worker(w)
  PROVE  Quiet \/ Reported
<1>0. UNCHANGED <<feed, reverify>>
  BY DEF worker, workerTake, workerError, workerFound, world
<1>1. CASE workerTake(w)
  <2>. DEFINE t == Head(chan["probing"]).source
  <2>1. t \in SourceIds /\ Update(t, "Probing")
    BY <1>1, SourceOfHead DEF workerTake, Channels
  <2>2. ASSUME NEW s \in SourceIds
        PROVE  Moved(s, 0, -One(t = s), One(t = s))
    BY <1>1, TakeMoves
  <2>. HIDE DEF t
  <2>. QED  BY <1>0, <2>1, <2>2, ReportedBy DEF ItemUpdates
<1>2. CASE workerError(w)
  <2>1. PICK ch \in {"forget", "timeout"} : Post(w, <<Msg(ch, checking[w])>>)
    BY <1>2, PlainError
  <2>2. /\ checking[w] # NoVerify /\ checking' = [checking EXCEPT ![w] = NoVerify]
        /\ UNCHANGED chan /\ UNCHANGED stats
    BY <1>2 DEF workerError
  <2>3. ASSUME NEW s \in SourceIds PROVE Moved(s, 0, 0, 0)
    <3>1. ch \in {"forget", "timeout", "found"} /\ ch # "found"
      OBVIOUS
    <3>. QED  BY <2>1, <2>2, <3>1, VerdictMoves
  <2>. QED  BY <1>0, <2>2, <2>3 DEF Quiet
<1>3. CASE workerFound(w)
  <2>. DEFINE t == checking[w].source
  <2>1. /\ checking[w] # NoVerify /\ checking' = [checking EXCEPT ![w] = NoVerify]
        /\ UNCHANGED chan /\ Post(w, <<Msg("found", checking[w])>>) /\ Update(t, "Found")
    BY <1>3 DEF workerFound
  <2>2. t \in SourceIds
    <3>1. checking[w] \in Verify
      BY <2>1 DEF TypeOK
    <3>. QED  BY <3>1, VerifyFields
  <2>3. ASSUME NEW s \in SourceIds PROVE Moved(s, 0, 0, -One(t = s))
    BY <2>1, VerdictMoves
  <2>. HIDE DEF t
  <2>. QED  BY <1>0, <2>1, <2>2, <2>3, ReportedBy DEF ItemUpdates
<1>. QED  BY <1>1, <1>2, <1>3 DEF worker

\* A new item of a running source.
LEMMA ScheduleReports ==
  ASSUME TypeOK, NEW t \in SourceIds, NEW g \in Goroutines, Free(g),
         NEW p \in Proxies, NEW k \in Nat,
         Post(g, <<Msg("scheduled", [proxy |-> p, source |-> t, attempt |-> k])>>),
         Update(t, "Scheduled"), IsRunning(stats[t]),
         UNCHANGED <<chan, checking>>, UNCHANGED <<feed, reverify>>
  PROVE  Reported
<1>1. PICK v \in Verify : v = [proxy |-> p, source |-> t, attempt |-> k]
  BY DEF Verify
<1>2. v.source = t /\ Post(g, <<Msg("scheduled", v)>>)
  BY <1>1
<1>3. ASSUME NEW s \in SourceIds PROVE Moved(s, One(t = s), 0, 0)
  <2>1. Moved(s, One(v.source = s), 0, 0)
    BY <1>2, ScheduleMoves
  <2>. QED  BY <1>2, <2>1
<1>. QED  BY <1>3, ReportedBy DEF ItemUpdates

LEMMA ItemSteps ==
  ASSUME TypeOK, CheckingIsFree, Alone, Singles, FedRunning, Undisturbed, [Next]_vars
  PROVE  \/ Quiet \/ Reported
         \/ handleReverify
         \/ \E r \in Reverifiers : reverifyLaunch(r) \/ reverifyFinish(r)
         \/ \E s \in Sources : refreshLaunch(s) \/ refreshFinish(s)
<1>a. Steps
  BY UndisturbedSteps
<1>1. ASSUME NEW g \in Goroutines, Deliver(g) PROVE Quiet
  <2>1. \A s \in SourceIds : Moved(s, 0, 0, 0)
    BY <1>1, DeliverMoves
  <2>. QED  BY <1>1, <2>1 DEF Deliver, Quiet, world
<1>2. CASE handleScheduled
  <2>. DEFINE v == Head(chan["scheduled"])
  <2>1. /\ chan["scheduled"] # <<>> /\ Received("scheduled") /\ Free("main")
        /\ UNCHANGED checking /\ UNCHANGED <<feed, reverify>>
        /\ \/ UNCHANGED outbox /\ Update(v.source, "Ignored")
           \/ Post("main", <<Msg("probing", v)>>) /\ Update(v.source, "New")
    BY <1>2 DEF handleScheduled, AtSelect, world
  <2>2. CASE UNCHANGED outbox /\ Update(v.source, "Ignored")
    BY <2>1, <2>2, ReceiveReports
  <2>3. CASE Post("main", <<Msg("probing", v)>>) /\ Update(v.source, "New")
    <3>1. v.source \in SourceIds
      BY <2>1, SourceOfHead DEF Channels
    <3>2. ASSUME NEW s \in SourceIds PROVE Moved(s, -One(v.source = s), One(v.source = s), 0)
      BY <2>1, <2>3, HireMoves
    <3>. HIDE DEF v
    <3>. QED  BY <2>1, <2>3, <3>1, <3>2, ReportedBy DEF ItemUpdates
  <2>. QED  BY <2>1, <2>2, <2>3
<1>3. CASE handleForget
  BY <1>3, ReceiveReports DEF handleForget, AtSelect, world
<1>4. CASE handleTimeout
  BY <1>4, ReceiveReports DEF handleTimeout, AtSelect, world
<1>5. CASE handleFound
  <2>1. /\ chan["found"] # <<>> /\ Received("found") /\ UNCHANGED <<outbox, checking>>
        /\ UNCHANGED <<stats, feed, reverify>>
    BY <1>5 DEF handleFound, AtSelect, world
  <2>2. ASSUME NEW s \in SourceIds PROVE Moved(s, 0, 0, 0)
    BY <2>1, ReceiveMoves DEF Channels
  <2>. QED  BY <2>1, <2>2 DEF Quiet
<1>6. ASSUME NEW r \in Reverifiers, reverifySchedule(r) PROVE Reported
  <2>1. PICK b \in batch[r] :
          /\ Update(Reverify, "Scheduled")
          /\ Post(r, <<Msg("scheduled", [proxy |-> b.proxy, source |-> Reverify,
                                         attempt |-> b.attempt])>>)
    BY <1>6 DEF reverifySchedule
  <2>2. b.proxy \in Proxies /\ b.attempt \in Nat
    BY DEF TypeOK
  <2>3. Free(r) /\ IsRunning(stats[Reverify]) /\ UNCHANGED <<chan, checking>>
        /\ UNCHANGED <<feed, reverify>>
    BY <1>6 DEF reverifySchedule, Alone, Batches, world
  <2>. QED  BY <2>1, <2>2, <2>3, ScheduleReports, Goroutine
<1>7. ASSUME NEW s \in Sources, NEW p \in Listed, Schedule(s, p) PROVE Reported
  <2>1. /\ Free(s) /\ Update(s, "Scheduled") /\ IsRunning(stats[s]) /\ UNCHANGED <<chan, checking>>
        /\ Post(s, <<Msg("scheduled", [proxy |-> p, source |-> s, attempt |-> 0])>>)
        /\ UNCHANGED <<feed, reverify>>
    BY <1>7 DEF Schedule, FedRunning
  <2>2. p \in Proxies /\ s \in SourceIds /\ s \in Goroutines /\ 0 \in Nat
    BY ProbeAssumption, Goroutine
  <2>. QED  BY <2>1, <2>2, ScheduleReports
<1>8. CASE deletePoolRemove \/ UNCHANGED vars
  <2>1. UNCHANGED <<chan, outbox, checking>> /\ UNCHANGED <<stats, feed, reverify>>
    BY <1>8 DEF deletePoolRemove, vars
  <2>. QED  BY <2>1, StillMoves DEF Quiet
<1>. QED  BY <1>a, <1>1, <1>2, <1>3, <1>4, <1>5, <1>6, <1>7, <1>8, WorkerReports
          DEF Steps, main, reverifying

LEMMA LedgerStep ==
  ASSUME TypeOK, CheckingIsFree, Alone, Ledger, Undisturbed, [Next]_vars
  PROVE  Ledger'
<1>. USE DEF Ledger
<1>a. TypeOK'
  BY TypeStep
<1>b. Singles' /\ First'
  BY SinglesStep, FirstStep
<1>c. /\ stats \in [SourceIds -> Stat] /\ feed \in [Sources -> BOOLEAN]
      /\ Reverify \in SourceIds /\ Reverify \notin Sources /\ Sources \subseteq SourceIds
  BY ProbeAssumption, Goroutine DEF TypeOK
<1>1. CASE Quiet
  <2>1. Books'
    BY <1>1, BookedSame DEF Quiet, Books
  <2>2. FedRunning' /\ LaunchRests'
    BY <1>1 DEF Quiet, FedRunning, LaunchRests, IsRunning
  <2>. QED  BY <1>b, <2>1, <2>2
<1>2. CASE Reported
  <2>1. PICK t \in SourceIds, u \in ItemUpdates : ItemMove(t, u)
    BY <1>2 DEF Reported
  <2>2. UNCHANGED <<feed, reverify>> /\ Update(t, u)
    BY <1>2, <2>1 DEF Reported, ItemMove
  <2>3. Books' /\ stats[t].state \in {"running", "failed"}
    BY <1>a, <2>1, ItemBooked, ItemOwned
  <2>4. stats'[t] = handleUpdate(stats[t], u) /\ \A s \in SourceIds \ {t} : stats'[s] = stats[s]
    BY <1>c, <2>2 DEF Update
  <2>5. u \in Updates \ {"Finished", "FinishedErr"}
    BY DEF ItemUpdates, Updates
  <2>6. IsRunning(stats[t]) /\ ~stats[t].finished =>
          IsRunning(stats'[t]) /\ ~stats'[t].finished
    BY <1>c, <2>4, <2>5, ItemKeepsRunning
  <2>7. FedRunning'
    <3>. SUFFICES ASSUME NEW s \in Sources, feed'[s]
                  PROVE  IsRunning(stats'[s]) /\ ~stats'[s].finished
      BY DEF FedRunning
    <3>1. feed[s] /\ IsRunning(stats[s]) /\ ~stats[s].finished
      BY <2>2 DEF FedRunning
    <3>2. CASE s = t
      BY <2>6, <3>1, <3>2
    <3>3. CASE s # t
      BY <1>c, <2>4, <3>1, <3>3
    <3>. QED  BY <3>2, <3>3
  <2>8. LaunchRests'
    <3>. SUFFICES ASSUME NEW r \in Reverifiers, reverify[r] = "launch"
                  PROVE  ~IsRunning(stats'[Reverify])
      BY <2>2 DEF LaunchRests
    <3>1. ~IsRunning(stats[Reverify]) /\ stats[Reverify].state # "failed"
      BY <1>c DEF LaunchRests, Books, Booked
    <3>2. t # Reverify
      BY <2>3, <3>1 DEF IsRunning
    <3>. QED  BY <1>c, <2>4, <3>1, <3>2
  <2>. QED  BY <1>b, <2>3, <2>7, <2>8
<1>3. CASE handleReverify
  <2>1. Books' /\ stats'[Reverify].state \in {"absent", "idle"} /\ UNCHANGED feed
    BY <1>3, ReverifyBooked
  <2>2. LaunchRests'
    BY <2>1 DEF LaunchRests, IsRunning
  <2>3. \A s \in Sources : stats'[s] = stats[s]
    BY <1>c, <1>3 DEF handleReverify
  <2>4. FedRunning'
    BY <2>1, <2>3 DEF FedRunning
  <2>. QED  BY <1>b, <2>1, <2>2, <2>4
<1>d. Alone' /\ reverify \in [Reverifiers -> {"none", "launch", "send"}]
  BY AloneStep DEF TypeOK
<1>4. ASSUME NEW r \in Reverifiers, reverifyLaunch(r) PROVE Ledger'
  <2>1. /\ reverify[r] = "launch" /\ reverify'[r] = "send" /\ Update(Reverify, "Launched")
        /\ UNCHANGED <<chan, outbox, checking>> /\ UNCHANGED feed
    BY <1>d, <1>4 DEF reverifyLaunch, world
  <2>2. stats[Reverify].state \in {"absent", "idle"}
    <3>1. stats[Reverify].state # "running" /\ stats[Reverify].state # "failed"
      BY <1>c, <2>1 DEF LaunchRests, Books, Booked, IsRunning
    <3>. QED  BY <1>c, <3>1 DEF Stat, States
  <2>3. Books'
    BY <1>c, <2>1, <2>2, LaunchBooked
  <2>4. \A s \in Sources : stats'[s] = stats[s]
    BY <1>c, <2>1 DEF Update
  <2>5. FedRunning' /\ LaunchRests'
    BY <1>d, <2>1, <2>4 DEF FedRunning, LaunchRests, Alone, Batches
  <2>. QED  BY <1>b, <2>3, <2>5
<1>5. ASSUME NEW r \in Reverifiers, reverifyFinish(r) PROVE Ledger'
  <2>1. /\ reverify[r] = "send" /\ reverify' = [reverify EXCEPT ![r] = "none"]
        /\ Update(Reverify, "Finished")
        /\ UNCHANGED <<chan, outbox, checking>> /\ UNCHANGED feed
    BY <1>5 DEF reverifyFinish, world
  <2>2. IsRunning(stats[Reverify])
    BY <2>1 DEF Alone, Batches
  <2>3. Books'
    BY <1>c, <2>1, <2>2, FinishBooked
  <2>4. \A s \in Sources : stats'[s] = stats[s]
    BY <1>c, <2>1 DEF Update
  <2>5. FedRunning' /\ LaunchRests'
    BY <1>d, <2>1, <2>4 DEF FedRunning, LaunchRests, Alone, Batches
  <2>. QED  BY <1>b, <2>3, <2>5
<1>6. ASSUME NEW t \in Sources, refreshLaunch(t) PROVE Ledger'
  <2>1. /\ Update(t, "Launched") /\ stats[t].state \in {"absent", "idle"} /\ t \in SourceIds
        /\ UNCHANGED <<chan, outbox, checking>> /\ UNCHANGED reverify
        /\ feed' = [feed EXCEPT ![t] = TRUE]
    BY <1>c, <1>6 DEF refreshLaunch, Undisturbed
  <2>2. Books' /\ stats'[t] = Launched
    BY <2>1, LaunchBooked
  <2>3. \A s \in SourceIds \ {t} : stats'[s] = stats[s]
    BY <1>c, <2>1 DEF Update
  <2>4. FedRunning'
    <3>. SUFFICES ASSUME NEW s \in Sources, feed'[s]
                  PROVE  IsRunning(stats'[s]) /\ ~stats'[s].finished
      BY DEF FedRunning
    <3>1. CASE s = t
      BY <2>2, <3>1 DEF IsRunning, Launched
    <3>2. CASE s # t
      <4>1. feed[s] /\ stats'[s] = stats[s]
        BY <1>c, <2>1, <2>3, <3>2
      <4>. QED  BY <4>1 DEF FedRunning
    <3>. QED  BY <3>1, <3>2
  <2>5. LaunchRests'
    <3>1. stats'[Reverify] = stats[Reverify]
      BY <1>c, <2>3
    <3>. QED  BY <2>1, <3>1 DEF LaunchRests, IsRunning
  <2>. QED  BY <1>b, <2>2, <2>4, <2>5
<1>7. ASSUME NEW t \in Sources, refreshFinish(t) PROVE Ledger'
  <2>1. PICK u \in {"Finished", "FinishedErr"} : Update(t, u)
    BY <1>7 DEF refreshFinish
  <2>2. /\ feed[t] /\ t \in SourceIds /\ t # Reverify
        /\ UNCHANGED <<chan, outbox, checking>> /\ UNCHANGED reverify
        /\ feed' = [feed EXCEPT ![t] = FALSE]
    BY <1>c, <1>7 DEF refreshFinish
  <2>3. IsRunning(stats[t])
    BY <2>2 DEF FedRunning
  <2>4. Books'
    BY <2>1, <2>2, <2>3, FinishBooked
  <2>5. \A s \in SourceIds \ {t} : stats'[s] = stats[s]
    BY <1>c, <2>1 DEF Update
  <2>6. FedRunning'
    <3>. SUFFICES ASSUME NEW s \in Sources, feed'[s]
                  PROVE  IsRunning(stats'[s]) /\ ~stats'[s].finished
      BY DEF FedRunning
    <3>1. feed[s] /\ stats'[s] = stats[s]
      BY <1>c, <2>2, <2>5
    <3>. QED  BY <3>1 DEF FedRunning
  <2>7. LaunchRests'
    <3>1. stats'[Reverify] = stats[Reverify]
      BY <1>c, <2>2, <2>5
    <3>. QED  BY <2>2, <3>1 DEF LaunchRests, IsRunning
  <2>. QED  BY <1>b, <2>4, <2>6, <2>7
<1>. QED  BY <1>1, <1>2, <1>3, <1>4, <1>5, <1>6, <1>7, ItemSteps

LEMMA LedgerInit == Init => Ledger
<1>. SUFFICES ASSUME Init PROVE Ledger
  OBVIOUS
<1>a. TypeOK
  BY TypeInit
<1>1. Singles
  BY DEF Init, Singles
<1>2. First
  BY DEF Init, First
<1>3. ASSUME NEW s \in SourceIds PROVE Booked(s)
  <2>1. \A c \in Channels : Holding(s, chan[c]) = 0
    <3>1. \A c \in Channels : {i \in DOMAIN chan[c] : chan[c][i].source = s} = {}
      BY DEF Init
    <3>. QED  BY <3>1, FS_EmptySet DEF Holding
  <2>2. \A cs : Cardinality(Senders(s, cs)) = 0
    <3>. SUFFICES ASSUME NEW cs PROVE Cardinality(Senders(s, cs)) = 0
      OBVIOUS
    <3>1. Senders(s, cs) = {}
      BY DEF Init, Senders
    <3>. QED  BY <3>1, FS_EmptySet
  <2>3. Cardinality(Checkers(s)) = 0
    <3>1. Checkers(s) = {}
      BY DEF Init, Checkers
    <3>. QED  BY <3>1, FS_EmptySet
  <2>4. Waiting(s) = 0 /\ Hired(s) = 0 /\ InHand(s) = 0
    BY <2>1, <2>2, <2>3 DEF Waiting, Hired, InHand, Channels
  <2>5. stats[s] = NoStat
    BY DEF Init
  <2>. QED  BY <2>4, <2>5 DEF Booked, Exact, NoItems, NoStat
<1>4. FedRunning /\ LaunchRests
  BY DEF Init, FedRunning, LaunchRests
<1>. QED  BY <1>1, <1>2, <1>3, <1>4 DEF Ledger, Books

LEMMA LedgerConserves == TypeOK /\ Ledger => StatsConserved
<1>. SUFFICES ASSUME TypeOK, Ledger, NEW s \in SourceIds, s \in Sources \/ IsRunning(stats[s])
              PROVE  /\ stats[s].Scheduled = Holding(s, chan["scheduled"]) + Sending(s, {"scheduled"})
                     /\ stats[s].New = Holding(s, chan["probing"]) + Sending(s, {"probing"})
                     /\ stats[s].Probing = Cardinality({w \in Workers : checking[w] # NoVerify
                                                          /\ checking[w].source = s})
                          + Holding(s, chan["forget"]) + Holding(s, chan["timeout"])
                          + Sending(s, {"forget", "timeout"})
  BY DEF StatsConserved
<1>1. Exact(s)
  BY DEF Ledger, Books, Booked
<1>2. \A cs : Sending(s, cs) = Cardinality(Senders(s, cs))
  BY SendingIs DEF Ledger
<1>. QED  BY <1>1, <1>2 DEF Exact, Waiting, Hired, InHand, Checkers

\* The three counters of a source are at every moment the items of that source
\* at the three places of the pipeline, in the channels, in the hands of the
\* workers and with the goroutines that wait to send them, so a source is set
\* idle with its last item and a relaunch resets nothing under way.
THEOREM CountersAreExact ==
  ASSUME Undisturbed
  PROVE  Spec => []StatsConserved
<1>1. TypeOK /\ CheckingIsFree /\ Alone /\ Ledger /\ [Next]_vars => Ledger'
  BY LedgerStep
<1>2. TypeOK /\ Alone /\ Ledger /\ [Next]_vars => Alone'
  BY AloneStep DEF Ledger
<1>. QED  BY <1>1, <1>2, AloneInit, LedgerInit, LedgerConserves, CheckingIsFreeInit,
             CheckingIsFreeStep, TypeCorrect, PTL DEF Spec
----------------------------------------------------------------------------
(* When a source is running: the part of SourceSettles that is a safety     *)
(* property, since a Stat left running with nothing under way would stay so. *)

\* Is somebody between the launch of s and its finish.
Fed(s) == IF s = Reverify THEN \E r \in Reverifiers : reverify[r] = "send" ELSE feed[s]

\* A Stat that is running after its finish counts something.
Unsettled ==
  \A s \in SourceIds :
    IsRunning(stats[s]) => Fed(s) \/ (stats[s].finished /\ Pipeline(stats[s]) # 0)

\* A Stat that was updated by an item, or by the finish of its run.
LEMMA UpdateUnsettled ==
  ASSUME TypeOK, Unsettled, NEW t \in SourceIds, NEW u \in Updates, Update(t, u),
         IsRunning(stats'[t]) => Fed(t)' \/ stats'[t].finished,
         \A s \in SourceIds \ {t} : Fed(s)' = Fed(s)
  PROVE  Unsettled'
<1>. SUFFICES ASSUME NEW s \in SourceIds, IsRunning(stats'[s])
              PROVE  Fed(s)' \/ (stats'[s].finished /\ Pipeline(stats'[s]) # 0)
  BY DEF Unsettled
<1>1. stats \in [SourceIds -> Stat]
  BY DEF TypeOK
<1>2. CASE s = t
  <2>1. stats'[s] = handleUpdate(stats[s], u) /\ stats[s] \in Stat
    BY <1>1, <1>2 DEF Update
  <2>2. stats'[s].finished => Pipeline(stats'[s]) # 0
    BY <2>1, LeftRunning
  <2>. QED  BY <1>2, <2>2
<1>3. CASE s # t
  <2>1. stats'[s] = stats[s] /\ Fed(s)' = Fed(s)
    BY <1>1, <1>3 DEF Update
  <2>. QED  BY <2>1 DEF Unsettled
<1>. QED  BY <1>2, <1>3

LEMMA UnsettledStep ==
  ASSUME TypeOK, CheckingIsFree, Alone, Ledger, Unsettled, Undisturbed, [Next]_vars
  PROVE  Unsettled'
<1>a. TypeOK' /\ Singles /\ First /\ Books /\ FedRunning
  BY TypeStep DEF Ledger
<1>c. /\ stats \in [SourceIds -> Stat] /\ feed \in [Sources -> BOOLEAN]
      /\ Reverify \in SourceIds /\ Reverify \notin Sources /\ Sources \subseteq SourceIds
  BY ProbeAssumption, Goroutine DEF TypeOK
<1>1. CASE Quiet
  <2>1. UNCHANGED stats /\ \A s : Fed(s)' = Fed(s)
    BY <1>1 DEF Quiet, Fed
  <2>. QED  BY <2>1 DEF Unsettled
<1>2. CASE Reported
  <2>1. PICK t \in SourceIds, u \in ItemUpdates : ItemMove(t, u)
    BY <1>2 DEF Reported
  <2>2. Update(t, u) /\ u \in Updates /\ \A s : Fed(s)' = Fed(s)
    BY <1>2, <2>1 DEF Reported, ItemMove, Fed, ItemUpdates, Updates
  <2>3. stats[t] \in Stat /\ stats[t].state \in {"running", "failed"}
    BY <1>a, <1>c, <2>1, ItemOwned
  <2>4. stats'[t] = handleUpdate(stats[t], u)
    BY <1>c, <2>2 DEF Update
  <2>5. /\ stats'[t].finished = stats[t].finished
        /\ stats'[t].state = stats[t].state \/ stats'[t].state = "idle"
    BY <2>3, <2>4, ItemCounts
  <2>6. IsRunning(stats'[t]) => Fed(t)' \/ stats'[t].finished
    BY <2>2, <2>5 DEF Unsettled, IsRunning
  <2>. QED  BY <2>2, <2>6, UpdateUnsettled
<1>3. CASE handleReverify
  <2>1. stats'[Reverify].state \in {"absent", "idle"} /\ UNCHANGED feed
    BY <1>a, <1>3, ReverifyBooked
  <2>2. \A s \in SourceIds \ {Reverify} : stats'[s] = stats[s] /\ Fed(s)' = Fed(s)
    BY <1>c, <1>3, <2>1 DEF handleReverify, Fed
  <2>. QED  BY <2>1, <2>2 DEF Unsettled, IsRunning
<1>4. ASSUME NEW r \in Reverifiers, reverifyLaunch(r) PROVE Unsettled'
  <2>1. Update(Reverify, "Launched") /\ "Launched" \in Updates /\ Fed(Reverify)'
    BY <1>4 DEF reverifyLaunch, Fed, Updates, TypeOK
  <2>2. \A s \in SourceIds \ {Reverify} : Fed(s)' = Fed(s)
    BY <1>4 DEF reverifyLaunch, Fed, world
  <2>. QED  BY <1>c, <2>1, <2>2, UpdateUnsettled
<1>5. ASSUME NEW t \in SourceIds, NEW u \in {"Finished", "FinishedErr"}, Update(t, u)
      PROVE  stats'[t].finished
  <2>1. stats[t] \in Stat /\ stats'[t] = handleUpdate(stats[t], u)
    BY <1>c, <1>5 DEF Update
  <2>. QED  BY <2>1, FinishIsKept
<1>6. ASSUME NEW r \in Reverifiers, reverifyFinish(r) PROVE Unsettled'
  <2>1. Update(Reverify, "Finished") /\ "Finished" \in Updates
    BY <1>6 DEF reverifyFinish, Updates
  <2>2. \A s \in SourceIds \ {Reverify} : Fed(s)' = Fed(s)
    BY <1>6 DEF reverifyFinish, Fed, world
  <2>. QED  BY <1>c, <1>5, <2>1, <2>2, UpdateUnsettled
<1>7. ASSUME NEW t \in Sources, refreshLaunch(t) PROVE Unsettled'
  <2>1. Update(t, "Launched") /\ "Launched" \in Updates /\ t \in SourceIds /\ Fed(t)'
    BY <1>c, <1>7 DEF refreshLaunch, Fed, Updates
  <2>2. \A s \in SourceIds \ {t} : Fed(s)' = Fed(s)
    BY <1>c, <1>7 DEF refreshLaunch, Fed, SourceIds
  <2>. QED  BY <2>1, <2>2, UpdateUnsettled
<1>8. ASSUME NEW t \in Sources, refreshFinish(t) PROVE Unsettled'
  <2>1. PICK u \in {"Finished", "FinishedErr"} : Update(t, u)
    BY <1>8 DEF refreshFinish
  <2>2. \A s \in SourceIds \ {t} : Fed(s)' = Fed(s)
    BY <1>c, <1>8 DEF refreshFinish, Fed, SourceIds
  <2>3. t \in SourceIds /\ u \in Updates /\ stats'[t].finished
    BY <1>c, <1>5, <2>1 DEF Updates
  <2>. QED  BY <2>1, <2>2, <2>3, UpdateUnsettled
<1>. QED  BY <1>a, <1>1, <1>2, <1>3, <1>4, <1>6, <1>7, <1>8, ItemSteps

\* The Stat of a source is running while the source is between its launch and
\* its finish, and after that until its last item has left the pipeline, or it
\* has failed; then it is not (stats.go:183-186).
RunningWhileBusy ==
  \A s \in SourceIds :
    /\ IsRunning(stats[s]) => Fed(s) \/ ~NoItems(s)
    /\ Fed(s) => IsRunning(stats[s])
    /\ ~NoItems(s) => stats[s].state \in {"running", "failed"}

LEMMA LedgerIsBusy ==
  ASSUME TypeOK, Alone, Ledger, Unsettled
  PROVE  RunningWhileBusy
<1>. SUFFICES ASSUME NEW s \in SourceIds
              PROVE  /\ IsRunning(stats[s]) => Fed(s) \/ ~NoItems(s)
                     /\ Fed(s) => IsRunning(stats[s])
                     /\ ~NoItems(s) => stats[s].state \in {"running", "failed"}
  BY DEF RunningWhileBusy
<1>1. Booked(s) /\ stats[s] \in Stat
  BY DEF Ledger, Books, TypeOK
<1>2. IsRunning(stats[s]) => Fed(s) \/ ~NoItems(s)
  <2>. SUFFICES ASSUME IsRunning(stats[s]), ~Fed(s), NoItems(s) PROVE FALSE
    OBVIOUS
  <2>1. Pipeline(stats[s]) # 0
    BY DEF Unsettled
  <2>2. stats[s].Scheduled = 0 /\ stats[s].New = 0 /\ stats[s].Probing = 0
    BY <1>1 DEF Booked, Exact, NoItems
  <2>. QED  BY <2>1, <2>2 DEF Pipeline
<1>3. Fed(s) => IsRunning(stats[s])
  BY DEF Fed, Alone, Batches, Ledger, FedRunning, SourceIds
<1>4. ~NoItems(s) => stats[s].state \in {"running", "failed"}
  BY <1>1 DEF Booked, Stat, States
<1>. QED  BY <1>2, <1>3, <1>4

\* No source is left running when nothing of it is under way, and none is at
\* rest while anything is: in the code nothing but an item of the source could
\* ever settle it again, and checkSources would never start it.
THEOREM SourcesRestWhenDone ==
  ASSUME Undisturbed
  PROVE  Spec => []RunningWhileBusy
<1>1. TypeOK /\ CheckingIsFree /\ Alone /\ Ledger /\ [Next]_vars => Ledger'
  BY LedgerStep
<1>2. TypeOK /\ CheckingIsFree /\ Alone /\ Ledger /\ Unsettled /\ [Next]_vars
        => Unsettled'
  BY UnsettledStep
<1>3. TypeOK /\ Alone /\ Ledger /\ [Next]_vars => Alone'
  BY AloneStep DEF Ledger
<1>4. Init => Unsettled
  BY DEF Init, Unsettled, NoStat, IsRunning
<1>5. TypeOK /\ Alone /\ Ledger /\ Unsettled => RunningWhileBusy
  BY LedgerIsBusy
<1>. QED  BY <1>1, <1>2, <1>3, <1>4, <1>5, AloneInit, LedgerInit, CheckingIsFreeInit,
             CheckingIsFreeStep, TypeCorrect, PTL DEF Spec
=============================================================================
