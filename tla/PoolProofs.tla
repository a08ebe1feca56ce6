----------------------------- MODULE PoolProofs -----------------------------
(***************************************************************************)
(* Proofs about Pool, for every number of shards, proxies, callers, request *)
(* workers and attempts, and for every threshold and bound of the sums.     *)
(*                                                                          *)
(* Inv strengthens the two safety properties to something every step keeps: *)
(* blank entries are consistent too, and a request that is about to make    *)
(* another attempt has one left.  The last part of the module proves what   *)
(* RoundTripReturns rests on besides fairness.                              *)
(***************************************************************************)
EXTENDS Pool, FiniteSetTheorems, NaturalsInduction, TLAPS

Consistent(e) == e.Ok <=> e.ReanimateAfter = Awake

AttemptLeft(m) ==
  /\ m.attempt <= Larger(maxAttempts, shards)
  /\ m.pc = "loop" => m.attempt < Larger(maxAttempts, shards)

EntriesConsistent == \A r \in Ranks : Consistent(heap[r])

AttemptsLeft == \A c \in Clients : AttemptLeft(client[c])

Inv == TypeOK /\ EntriesConsistent /\ AttemptsLeft
----------------------------------------------------------------------------
(* What the operations on an entry keep.                                    *)

\* A new entry is an awake entry.
LEMMA NewEntry == newEntry \in Entry /\ Consistent(newEntry)
  BY DEF newEntry, Entry, Consistent, Awake

\* An increment of a rolling counter leaves a natural number.
LEMMA BumpIsNat == ASSUME NEW n, NEW s \in Bump(n) PROVE s \in Nat
  BY EntryAssumption DEF Bump

\* The sleeps are positive.
LEMMA SleepsPositive ==
  /\ shortTimeoutSleep \in Nat /\ shortTimeoutSleep # Awake
  /\ longTimeoutSleep \in Nat /\ longTimeoutSleep # Awake
  /\ pauseSleep \in Nat /\ pauseSleep # Awake
  <1>1. /\ shortTimeoutSleep \in Nat \ {0}
        /\ longTimeoutSleep \in Nat \ {0}
        /\ pauseSleep \in Nat \ {0}
    BY EntryAssumption, Zenon
  <1> QED
    BY <1>1 DEF Awake

\* MarkSuccess wakes an entry, MarkFailure suspends it.
LEMMA MarksKeep ==
  ASSUME NEW e \in Entry, NEW s \in Nat
  PROVE  /\ MarkSuccess(e, s) \in Entry /\ Consistent(MarkSuccess(e, s))
         /\ MarkTimeout(e, s) \in Entry /\ Consistent(MarkTimeout(e, s))
         /\ MarkFailure(e, s) \in Entry /\ Consistent(MarkFailure(e, s))
  <1>1. MarkSuccess(e, s) \in Entry /\ Consistent(MarkSuccess(e, s))
    BY DEF MarkSuccess, Entry, Consistent
  <1>2. MarkTimeout(e, s) \in Entry /\ Consistent(MarkTimeout(e, s))
    BY SleepsPositive DEF MarkTimeout, Entry, Consistent
  <1>3. MarkFailure(e, s) \in Entry /\ Consistent(MarkFailure(e, s))
    BY SleepsPositive DEF MarkFailure, Entry, Consistent
  <1> QED
    BY <1>1, <1>2, <1>3

\* A reanimation clears the time together with the flag.
LEMMA ReanimateKeeps ==
  ASSUME NEW e \in Entry, Consistent(e)
  PROVE  /\ ReanimateIfNeeded(e) \in Entry /\ Consistent(ReanimateIfNeeded(e))
         /\ ForceReanimate(e) \in Entry /\ Consistent(ForceReanimate(e))
  <1>1. e.Reanimated \in Nat
    BY DEF Entry
  <1>2. Reanimations(e) \in Nat
    BY <1>1, EntryAssumption DEF Reanimations
  <1> QED
    BY <1>2 DEF ReanimateIfNeeded, ForceReanimate, Entry, Consistent, Awake

\* Eviction and ConsiderSkip set the time together with the flag.
LEMMA SkipsKeep ==
  ASSUME NEW e \in Entry, Consistent(e)
  PROVE  /\ Eviction(e) \in Entry /\ Consistent(Eviction(e))
         /\ Skipped(e) \in Entry /\ Consistent(Skipped(e))
  <1>1. Eviction(e) \in Entry /\ Consistent(Eviction(e))
    BY SleepsPositive DEF Eviction, Entry, Consistent
  <1>2. Skipped(e) \in Entry /\ Consistent(Skipped(e))
    BY SleepsPositive DEF Skipped, Entry, Consistent
  <1> QED
    BY <1>1, <1>2

\* An offer first reanimates.
LEMMA OfferKeeps ==
  ASSUME NEW e \in Entry, Consistent(e), NEW s \in Nat
  PROVE  Offer(e, s) \in Entry /\ Consistent(Offer(e, s))
  <1>1. ReanimateIfNeeded(e) \in Entry /\ Consistent(ReanimateIfNeeded(e))
    BY ReanimateKeeps
  <1>2. SUFFICES ASSUME NEW a \in Entry, Consistent(a), a = ReanimateIfNeeded(e)
                 PROVE  [a EXCEPT !.offers = s] \in Entry /\ Consistent([a EXCEPT !.offers = s])
    BY <1>1 DEF Offer
  <1> QED
    BY <1>2 DEF Entry, Consistent

\* A passing minute does not bring a deadline past 0.
LEMMA MinuteKeeps ==
  ASSUME NEW e \in Entry, Consistent(e)
  PROVE  Minute(e) \in Entry /\ Consistent(Minute(e))
  BY DEF Minute, Entry, Consistent, Awake

\* A restart cuts the sums only.
LEMMA AgedKeeps ==
  ASSUME NEW e \in Entry, Consistent(e), NEW kept \in [Counters -> 0..MaxSum]
  PROVE  Aged(e, kept) \in Entry /\ Consistent(Aged(e, kept))
  <1>1. /\ kept["offers"] \in Nat /\ kept["successes"] \in Nat
        /\ kept["timeouts"] \in Nat /\ kept["failures"] \in Nat
    BY EntryAssumption DEF Counters
  <1>2. \A m, n \in Nat : Least(m, n) \in Nat
    BY DEF Least
  <1>3. /\ Least(e.offers, kept["offers"]) \in Nat
        /\ Least(e.successes, kept["successes"]) \in Nat
        /\ Least(e.timeouts, kept["timeouts"]) \in Nat
        /\ Least(e.failures, kept["failures"]) \in Nat
    BY <1>1, <1>2 DEF Entry
  <1> QED
    BY <1>3 DEF Aged, Entry, Consistent
----------------------------------------------------------------------------
(* What the steps of a request keep of its state.                           *)

\* The larger of two bounds.
LEMMA LargerBound ==
  /\ Larger(maxAttempts, shards) \in Nat \ {0}
  /\ maxAttempts <= Larger(maxAttempts, shards)
  /\ shards <= Larger(maxAttempts, shards)
  BY PoolAssumption DEF Larger

\* Shards are numbered from 0.
LEMMA ModShards == ASSUME NEW n \in Int PROVE n % shards \in Shards
  BY PoolAssumption DEF Shards

\* The state of a caller that waits for nothing.
LEMMA FreshIsClient == Fresh \in Client /\ AttemptLeft(Fresh)
  <1>1. (CHOOSE r \in Ranks : TRUE) \in Ranks
    BY PoolAssumption
  <1>2. 0 \in Shards
    BY PoolAssumption DEF Shards
  <1> QED
    BY <1>1, <1>2, LargerBound DEF Fresh, Client, PCs, Statuses, AttemptLeft

\* The end of a RoundTrip.
LEMMA EndedIsClient ==
  ASSUME NEW m \in Client, NEW status \in Statuses,
         m.attempt <= Larger(maxAttempts, shards)
  PROVE  Ended(m, status) \in Client /\ AttemptLeft(Ended(m, status))
  <1>1. (CHOOSE r \in Ranks : TRUE) \in Ranks
    BY PoolAssumption
  <1>2. 0 \in Shards
    BY PoolAssumption DEF Shards
  <1> QED
    BY <1>1, <1>2, LargerBound DEF Ended, Fresh, Client, PCs, Statuses, AttemptLeft

\* A step that replaces the state of one caller.
LEMMA ClientStep ==
  ASSUME TypeOK, AttemptsLeft, NEW c \in Clients, NEW m \in Client, AttemptLeft(m),
         client' = [client EXCEPT ![c] = m]
  PROVE  client' \in [Clients -> Client] /\ AttemptsLeft'
  <1>1. client \in [Clients -> Client]
    BY DEF TypeOK
  <1>2. \A d \in Clients : client'[d] = IF d = c THEN m ELSE client[d]
    BY <1>1
  <1>3. \A d \in Clients : AttemptLeft(client'[d])
    BY <1>2 DEF AttemptsLeft
  <1> QED
    BY <1>1, <1>3 DEF AttemptsLeft, AttemptLeft

\* A step that moves a caller anywhere but to another attempt.
LEMMA StepKeeps ==
  ASSUME TypeOK, AttemptsLeft, NEW c \in Clients, NEW pc \in PCs \ {"loop"}, Step(c, pc)
  PROVE  client' \in [Clients -> Client] /\ AttemptsLeft'
  <1> DEFINE m == [client[c] EXCEPT !.pc = pc]
  <1>1. client[c] \in Client /\ AttemptLeft(client[c])
    BY DEF TypeOK, AttemptsLeft
  <1>2. m \in Client /\ AttemptLeft(m)
    BY <1>1 DEF Client, AttemptLeft
  <1>3. client' = [client EXCEPT ![c] = m]
    BY DEF Step
  <1> HIDE DEF m
  <1> QED
    BY <1>2, <1>3, ClientStep

\* A RoundTrip that returns.
LEMMA ReturnKeeps ==
  ASSUME TypeOK, AttemptsLeft, NEW c \in Clients, NEW status \in Statuses, Return(c, status)
  PROVE  client' \in [Clients -> Client] /\ AttemptsLeft'
  <1>1. client[c] \in Client /\ AttemptLeft(client[c])
    BY DEF TypeOK, AttemptsLeft
  <1>2. Ended(client[c], status) \in Client /\ AttemptLeft(Ended(client[c], status))
    BY <1>1, EndedIsClient DEF AttemptLeft
  <1>3. client' = [client EXCEPT ![c] = Ended(client[c], status)]
    BY DEF Return
  <1> QED
    BY <1>2, <1>3, ClientStep

\* A shard is numbered within bounds.
LEMMA ShardIsShard ==
  ASSUME TypeOK, NEW c \in Clients
  PROVE  Shard(c) \in Shards
  <1>1. client[c].serial \in Int /\ client[c].attempt \in Int
    BY DEF TypeOK, Client, Shards
  <1> QED
    BY <1>1, ModShards DEF Shard

\* Asking a shard is remembered.
LEMMA AskedIsClient ==
  ASSUME TypeOK, AttemptsLeft, NEW c \in Clients
  PROVE  /\ Asked(c) \in Client
         /\ Asked(c).attempt = client[c].attempt
         /\ Asked(c).attempt \in Nat
         /\ Asked(c).attempt <= Larger(maxAttempts, shards)
  <1>1. client[c] \in Client /\ AttemptLeft(client[c])
    BY DEF TypeOK, AttemptsLeft
  <1>2. Shard(c) \in Shards
    BY ShardIsShard
  <1> QED
    BY <1>1, <1>2 DEF Asked, Client, AttemptLeft

\* Another shard is asked only while there is one that was not.
LEMMA ExhaustedKeeps ==
  ASSUME TypeOK, AttemptsLeft, NEW c \in Clients, exhausted(c)
  PROVE  client' \in [Clients -> Client] /\ AttemptsLeft'
  <1> DEFINE asked == Asked(c)
  <1>1. asked \in Client
    BY AskedIsClient
  <1>2. client' = [client EXCEPT ![c] = IF asked.attempt < shards
                                          THEN [asked EXCEPT !.pc = "loop"]
                                          ELSE Ended(asked, "exhausted")]
    BY DEF exhausted
  <1>3. asked.attempt \in Nat /\ asked.attempt <= Larger(maxAttempts, shards)
    BY AskedIsClient
  <1> HIDE DEF asked
  <1>4. CASE asked.attempt < shards
    <2> DEFINE m == [asked EXCEPT !.pc = "loop"]
    <2>1. asked.attempt < Larger(maxAttempts, shards)
      BY <1>3, <1>4, LargerBound, PoolAssumption
    <2>2. m \in Client /\ m.attempt = asked.attempt
      BY <1>1 DEF Client, PCs
    <2>3. client' = [client EXCEPT ![c] = m]
      BY <1>2, <1>4
    <2> HIDE DEF m
    <2>4. AttemptLeft(m)
      BY <2>1, <2>2, <1>3 DEF AttemptLeft
    <2> QED
      BY <2>2, <2>3, <2>4, ClientStep
  <1>5. CASE ~(asked.attempt < shards)
    <2>1. Ended(asked, "exhausted") \in Client /\ AttemptLeft(Ended(asked, "exhausted"))
      BY <1>1, <1>3, EndedIsClient DEF Statuses
    <2>2. client' = [client EXCEPT ![c] = Ended(asked, "exhausted")]
      BY <1>2, <1>5
    <2> QED
      BY <2>1, <2>2, ClientStep
  <1> QED
    BY <1>4, <1>5

\* An entry of the shard was picked.
LEMMA PickedKeeps ==
  ASSUME TypeOK, AttemptsLeft, NEW c \in Clients, NEW r \in Ranks, picked(c, r)
  PROVE  client' \in [Clients -> Client] /\ AttemptsLeft'
  <1> DEFINE m == [Asked(c) EXCEPT !.pc = "handoff", !.e = r]
  <1>1. Asked(c) \in Client
    BY AskedIsClient
  <1>2. m \in Client /\ m.pc = "handoff" /\ m.attempt = Asked(c).attempt
    BY <1>1 DEF Client, PCs
  <1>3. client' = [client EXCEPT ![c] = m]
    BY DEF picked
  <1> HIDE DEF m
  <1>4. AttemptLeft(m)
    BY <1>2, AskedIsClient DEF AttemptLeft
  <1> QED
    BY <1>2, <1>3, <1>4, ClientStep
----------------------------------------------------------------------------
(* Every step keeps Inv.                                                    *)

\* A step that changes nothing but the state of the callers.
LEMMA ClientsOnly ==
  ASSUME Inv, client' \in [Clients -> Client], AttemptsLeft', UNCHANGED <<shardVars, rest>>
  PROVE  Inv'
  BY DEF Inv, TypeOK, EntriesConsistent, Consistent, shardVars, rest

\* A step that changes entries and callers, and nothing else.
LEMMA EntriesAndClients ==
  ASSUME Inv, client' \in [Clients -> Client], AttemptsLeft',
         heap' = [r \in Ranks |-> heap'[r]],
         \A r \in Ranks : heap'[r] \in Entry /\ Consistent(heap'[r]),
         UNCHANGED <<entries, proxyOf, evictions, due, rest>>
  PROVE  Inv'
  <1>1. heap' \in [Ranks -> Entry]
    OBVIOUS
  <1>2. EntriesConsistent'
    BY DEF EntriesConsistent, Consistent
  <1>3. TypeOK'
    BY <1>1 DEF Inv, TypeOK, rest
  <1> QED
    BY <1>2, <1>3 DEF Inv

\* handleReply changes one entry.
LEMMA MarkKeeps ==
  ASSUME Inv, NEW r \in Ranks, NEW e \in Entry, Consistent(e), Mark(r, e)
  PROVE  /\ heap' = [x \in Ranks |-> heap'[x]]
         /\ \A x \in Ranks : heap'[x] \in Entry /\ Consistent(heap'[x])
  <1>1. heap \in [Ranks -> Entry] /\ \A x \in Ranks : Consistent(heap[x])
    BY DEF Inv, TypeOK, EntriesConsistent
  <1>2. CASE r \in Listed
    <2>1. heap' = [heap EXCEPT ![r] = e]
      BY <1>2 DEF Mark
    <2> QED
      BY <1>1, <2>1
  <1>3. CASE r \notin Listed
    <2>1. heap' = heap
      BY <1>3 DEF Mark
    <2> QED
      BY <1>1, <2>1
  <1> QED
    BY <1>2, <1>3

\* The pool starts empty.
LEMMA InitInv == Init => Inv
  <1> SUFFICES ASSUME Init PROVE Inv
    OBVIOUS
  <1>1. 0 \in Shards
    BY PoolAssumption DEF Shards
  <1>2. (CHOOSE p \in Proxies : TRUE) \in Proxies
    BY PoolAssumption
  <1>3. TypeOK
    BY <1>1, <1>2, NewEntry, FreshIsClient DEF Init, TypeOK
  <1>4. EntriesConsistent
    BY NewEntry DEF Init, EntriesConsistent
  <1>5. AttemptsLeft
    BY FreshIsClient DEF Init, AttemptsLeft
  <1> QED
    BY <1>3, <1>4, <1>5 DEF Inv

\* The steps of a shard that no request takes part in, and of the evictions.
LEMMA ShardInv ==
  ASSUME Inv,
         \/ \E p \in Proxies : removeProxy(p) \/ \E r \in Ranks : add(p, r)
         \/ Tick
         \/ \E sh \in Shards : minute(sh)
         \/ gatherEvictions
         \/ PendingEviction
  PROVE  Inv'
  <1>t. TypeOK
    BY DEF Inv
  <1>h. heap \in [Ranks -> Entry] /\ \A r \in Ranks : Consistent(heap[r])
    BY DEF Inv, TypeOK, EntriesConsistent
  <1>b. \A p \in Proxies : Bucket[p] \in Shards
    BY PoolAssumption
  <1>u. UNCHANGED client => AttemptsLeft'
    BY DEF Inv, AttemptsLeft, AttemptLeft
  <1>1. ASSUME NEW p \in Proxies, removeProxy(p) PROVE Inv'
    <2>1. \A r \in Ranks : heap'[r] \in Entry /\ Consistent(heap'[r])
      BY <1>1, <1>h, NewEntry DEF removeProxy
    <2>2. heap' \in [Ranks -> Entry]
      BY <1>1, <1>h, NewEntry DEF removeProxy
    <2>3. entries' \in [Shards -> SUBSET Ranks]
      BY <1>1, <1>t, <1>b DEF removeProxy, TypeOK
    <2>4. TypeOK'
      BY <1>1, <1>t, <2>2, <2>3 DEF removeProxy, TypeOK, rest
    <2>5. EntriesConsistent'
      BY <2>1 DEF EntriesConsistent, Consistent
    <2> QED
      BY <1>1, <1>u, <2>4, <2>5 DEF Inv, removeProxy
  <1>2. ASSUME NEW p \in Proxies, NEW r \in Ranks, add(p, r) PROVE Inv'
    <2>1. \A x \in Ranks : heap'[x] \in Entry /\ Consistent(heap'[x])
      BY <1>2, <1>h, NewEntry DEF add
    <2>2. heap' \in [Ranks -> Entry]
      BY <1>2, <1>h, NewEntry DEF add
    <2>3. entries' \in [Shards -> SUBSET Ranks] /\ proxyOf' \in [Ranks -> Proxies]
      BY <1>2, <1>t, <1>b DEF add, TypeOK
    <2>4. TypeOK'
      BY <1>2, <1>t, <2>2, <2>3 DEF add, TypeOK, rest
    <2>5. EntriesConsistent'
      BY <2>1 DEF EntriesConsistent, Consistent
    <2> QED
      BY <1>2, <1>u, <2>4, <2>5 DEF Inv, add
  <1>3. CASE Tick
    <2>1. \A r \in Ranks : heap'[r] \in Entry /\ Consistent(heap'[r])
      BY <1>3, <1>h, MinuteKeeps DEF Tick
    <2>2. heap' \in [Ranks -> Entry]
      BY <1>3, <1>h, MinuteKeeps DEF Tick
    <2>3. TypeOK'
      BY <1>3, <1>t, <2>2 DEF Tick, TypeOK, rest
    <2>4. EntriesConsistent'
      BY <2>1 DEF EntriesConsistent, Consistent
    <2> QED
      BY <1>3, <1>u, <2>3, <2>4 DEF Inv, Tick
  <1>4. ASSUME NEW sh \in Shards, minute(sh) PROVE Inv'
    <2> DEFINE awake == [r \in Ranks |-> ReanimateIfNeeded(heap[r])]
               evict == {r \in entries[sh] : Evicts(awake[r])}
    <2>1. /\ entries' = [entries EXCEPT ![sh] = @ \ evict]
          /\ heap' = [r \in Ranks |->
                        IF r \in evict THEN newEntry
                        ELSE IF r \in entries[sh] THEN Eviction(awake[r]) ELSE heap[r]]
          /\ evictions' = [evictions EXCEPT ![sh] = @ \cup {proxyOf[r] : r \in evict}]
          /\ due' = due \ {sh}
          /\ UNCHANGED <<proxyOf, client, rest>>
      BY <1>4 DEF minute
    <2>2. \A r \in Ranks : awake[r] \in Entry /\ Consistent(awake[r])
      BY <1>h, ReanimateKeeps
    <2>3. evict \subseteq Ranks
      BY <1>t DEF TypeOK
    <2> HIDE DEF awake, evict
    <2>4. \A r \in Ranks : Eviction(awake[r]) \in Entry /\ Consistent(Eviction(awake[r]))
      BY <2>2, SkipsKeep
    <2>5. \A r \in Ranks : heap'[r] \in Entry /\ Consistent(heap'[r])
      BY <2>1, <2>4, <1>h, NewEntry
    <2>6. heap' \in [Ranks -> Entry]
      BY <2>1, <2>5
    <2>7. entries' \in [Shards -> SUBSET Ranks] /\ evictions' \in [Shards -> SUBSET Proxies]
      BY <2>1, <2>3, <1>t DEF TypeOK
    <2>8. TypeOK'
      BY <1>t, <2>1, <2>6, <2>7 DEF TypeOK, rest
    <2>9. EntriesConsistent'
      BY <2>5 DEF EntriesConsistent, Consistent
    <2> QED
      BY <2>1, <1>u, <2>8, <2>9 DEF Inv
  <1>5. CASE gatherEvictions
    <2>1. UNION {evictions[sh] : sh \in Shards} \subseteq Proxies
      BY <1>t DEF TypeOK
    <2>2. TypeOK'
      BY <1>5, <1>t, <2>1 DEF gatherEvictions, TypeOK
    <2>3. EntriesConsistent'
      BY <1>5, <1>h DEF gatherEvictions, EntriesConsistent, Consistent
    <2> QED
      BY <1>5, <1>u, <2>2, <2>3 DEF Inv, gatherEvictions
  <1>6. CASE PendingEviction
    <2>1. TypeOK'
      BY <1>6, <1>t DEF PendingEviction, TypeOK, shardVars
    <2>2. EntriesConsistent'
      BY <1>6, <1>h DEF PendingEviction, EntriesConsistent, Consistent, shardVars
    <2> QED
      BY <1>6, <1>u, <2>1, <2>2 DEF Inv, PendingEviction
  <1> QED
    BY <1>1, <1>2, <1>3, <1>4, <1>5, <1>6

\* handleRequest.
LEMMA RequestInv ==
  ASSUME Inv, NEW c \in Clients, handleRequest(c)
  PROVE  Inv'
  <1>t. TypeOK /\ AttemptsLeft
    BY DEF Inv
  <1>h. heap \in [Ranks -> Entry] /\ \A r \in Ranks : Consistent(heap[r])
    BY DEF Inv, TypeOK, EntriesConsistent
  <1>s. \A r \in Ranks : Skipped(heap[r]) \in Entry /\ Consistent(Skipped(heap[r]))
    BY <1>h, SkipsKeep
  <1>1. CASE requestEmpty(c)
    BY <1>1, <1>t, ExhaustedKeeps, ClientsOnly DEF requestEmpty
  <1>2. CASE requestSingle(c)
    BY <1>2, <1>t, PickedKeeps, ClientsOnly DEF requestSingle
  <1>3. CASE requestNone(c)
    <2>1. client' \in [Clients -> Client] /\ AttemptsLeft'
      BY <1>3, <1>t, ExhaustedKeeps DEF requestNone
    <2>2. PICK available \in SUBSET entries[Shard(c)] :
            heap' = [r \in Ranks |-> IF r \in available THEN Skipped(heap[r]) ELSE heap[r]]
      BY <1>3 DEF requestNone, Available
    <2>3. \A r \in Ranks : heap'[r] \in Entry /\ Consistent(heap'[r])
      BY <2>2, <1>h, <1>s
    <2>4. heap' = [r \in Ranks |-> heap'[r]]
      BY <2>2
    <2>5. UNCHANGED <<entries, proxyOf, evictions, due, rest>>
      BY <1>3 DEF requestNone
    <2> QED
      BY <2>1, <2>3, <2>4, <2>5, EntriesAndClients
  <1>4. CASE requestOffer(c)
    <2>1. Shard(c) \in Shards /\ entries[Shard(c)] \subseteq Ranks
      BY <1>t, ShardIsShard DEF TypeOK
    <2>2. PICK first \in entries[Shard(c)], before \in SUBSET entries[Shard(c)] :
            /\ \E s \in Bump(heap[first].offers) :
                 heap' = [r \in Ranks |->
                           IF r = first THEN Offer(heap[r], s)
                           ELSE IF r \in before THEN Skipped(heap[r]) ELSE heap[r]]
            /\ picked(c, first)
      BY <1>4 DEF requestOffer, Available
    <2>3. PICK s \in Bump(heap[first].offers) :
            heap' = [r \in Ranks |->
                      IF r = first THEN Offer(heap[r], s)
                      ELSE IF r \in before THEN Skipped(heap[r]) ELSE heap[r]]
      BY <2>2
    <2>4. first \in Ranks /\ s \in Nat
      BY <2>1, BumpIsNat
    <2>5. \A r \in Ranks : Offer(heap[r], s) \in Entry /\ Consistent(Offer(heap[r], s))
      BY <1>h, <2>4, OfferKeeps
    <2>6. \A r \in Ranks : heap'[r] \in Entry /\ Consistent(heap'[r])
      BY <2>3, <2>5, <1>h, <1>s
    <2>7. heap' = [r \in Ranks |-> heap'[r]]
      BY <2>3
    <2>8. client' \in [Clients -> Client] /\ AttemptsLeft'
      BY <2>2, <2>4, <1>t, PickedKeeps
    <2>9. UNCHANGED <<entries, proxyOf, evictions, due, rest>>
      BY <1>4 DEF requestOffer
    <2> QED
      BY <2>6, <2>7, <2>8, <2>9, EntriesAndClients
  <1> QED
    BY <1>1, <1>2, <1>3, <1>4 DEF handleRequest

\* handleReply: another attempt only after one below the limit.
LEMMA ReplyInv ==
  ASSUME Inv, NEW c \in Clients, handleReply(c)
  PROVE  Inv'
  <1>t. TypeOK /\ AttemptsLeft
    BY DEF Inv
  <1>c. client[c] \in Client /\ AttemptLeft(client[c])
    BY <1>t DEF TypeOK, AttemptsLeft
  <1> DEFINE r == client[c].e
  <1>e. r \in Ranks /\ heap[r] \in Entry
    BY <1>t, <1>c DEF Client, TypeOK
  <1> HIDE DEF r
  <1>1. CASE replySuccess(c)
    <2>1. PICK s \in Bump(heap[r].successes) : Mark(r, MarkSuccess(heap[r], s))
      BY <1>1 DEF replySuccess, r
    <2>2. /\ heap' = [x \in Ranks |-> heap'[x]]
          /\ \A x \in Ranks : heap'[x] \in Entry /\ Consistent(heap'[x])
      BY <2>1, <1>e, BumpIsNat, MarksKeep, MarkKeeps
    <2>3. Return(c, "ok") /\ UNCHANGED <<entries, proxyOf, evictions, due, rest>>
      BY <1>1 DEF replySuccess
    <2>4. client' \in [Clients -> Client] /\ AttemptsLeft'
      BY <2>3, <1>t, ReturnKeeps DEF Statuses
    <2> QED
      BY <2>2, <2>3, <2>4, EntriesAndClients
  <1>2. CASE replyFailure(c)
    <2>1. PICK e \in Entry : Consistent(e) /\ Mark(r, e)
      <3>1. CASE \E s \in Bump(heap[r].timeouts) : Mark(r, MarkTimeout(heap[r], s))
        BY <3>1, <1>e, BumpIsNat, MarksKeep
      <3>2. CASE \E s \in Bump(heap[r].failures) : Mark(r, MarkFailure(heap[r], s))
        BY <3>2, <1>e, BumpIsNat, MarksKeep
      <3> QED
        BY <1>2, <3>1, <3>2 DEF replyFailure, r
    <2>2. /\ heap' = [x \in Ranks |-> heap'[x]]
          /\ \A x \in Ranks : heap'[x] \in Entry /\ Consistent(heap'[x])
      BY <2>1, <1>e, MarkKeeps
    <2>3. Retry(c) /\ UNCHANGED <<entries, proxyOf, evictions, due, rest>>
      BY <1>2 DEF replyFailure
    <2>4. client' \in [Clients -> Client] /\ AttemptsLeft'
      <3>1. CASE client[c].attempt >= maxAttempts
        BY <3>1, <2>3, <1>t, ReturnKeeps DEF Retry, Statuses
      <3>2. CASE ~(client[c].attempt >= maxAttempts)
        <4> DEFINE m == [client[c] EXCEPT !.pc = "loop"]
        <4>1. client' = [client EXCEPT ![c] = m]
          BY <3>2, <2>3 DEF Retry, Step
        <4>2. m \in Client /\ m.attempt = client[c].attempt
          BY <1>c DEF Client, PCs
        <4>3. client[c].attempt \in Nat /\ maxAttempts \in Nat
          BY <1>c, PoolAssumption DEF Client
        <4>4. client[c].attempt < Larger(maxAttempts, shards)
          BY <3>2, <4>3, LargerBound
        <4> HIDE DEF m
        <4>5. AttemptLeft(m)
          BY <4>2, <4>3, <4>4, LargerBound DEF AttemptLeft
        <4> QED
          BY <4>1, <4>2, <4>5, <1>t, ClientStep
      <3> QED
        BY <3>1, <3>2
    <2> QED
      BY <2>2, <2>3, <2>4, EntriesAndClients
  <1> QED
    BY <1>1, <1>2 DEF handleReply

\* The steps of RoundTrip, of the goroutine of handleRequest and of the worker.
LEMMA RoundTripInv ==
  ASSUME Inv, NEW c \in Clients,
         \/ RoundTrip(c) \/ Cancel(c) \/ attempt(c) \/ enqueue(c) \/ abandon(c) \/ worker(c)
  PROVE  Inv'
  <1>t. TypeOK /\ AttemptsLeft
    BY DEF Inv
  <1>c. client[c] \in Client /\ AttemptLeft(client[c])
    BY <1>t DEF TypeOK, AttemptsLeft
  <1>1. CASE RoundTrip(c)
    <2> DEFINE m == [Fresh EXCEPT !.pc = "loop", !.serial = serial]
    <2>1. client' = [client EXCEPT ![c] = m]
      BY <1>1 DEF RoundTrip
    <2>2. serial \in Shards /\ serial \in Int
      BY <1>t DEF TypeOK, Shards
    <2>3. m \in Client /\ m.attempt = 0
      BY FreshIsClient, <2>2 DEF Client, PCs, Fresh
    <2> HIDE DEF m
    <2>4. AttemptLeft(m)
      BY <2>3, LargerBound DEF AttemptLeft
    <2>5. client' \in [Clients -> Client] /\ AttemptsLeft'
      BY <2>1, <2>3, <2>4, <1>t, ClientStep
    <2>6. serial' \in Shards
      BY <1>1, <2>2, ModShards DEF RoundTrip, nextSerial
    <2>7. TypeOK'
      BY <1>1, <1>t, <2>5, <2>6 DEF RoundTrip, TypeOK, shardVars
    <2>8. EntriesConsistent'
      BY <1>1 DEF RoundTrip, Inv, EntriesConsistent, Consistent, shardVars
    <2> QED
      BY <2>5, <2>7, <2>8 DEF Inv
  <1>2. CASE Cancel(c)
    <2> DEFINE m == [client[c] EXCEPT !.cancelled = TRUE]
    <2>1. client' = [client EXCEPT ![c] = m]
      BY <1>2 DEF Cancel
    <2>2. m \in Client /\ AttemptLeft(m)
      BY <1>c DEF Client, AttemptLeft
    <2> HIDE DEF m
    <2> QED
      BY <1>2, <2>1, <2>2, <1>t, ClientStep, ClientsOnly DEF Cancel
  <1>3. CASE attempt(c)
    <2>1. CASE client[c].cancelled
      BY <1>3, <2>1, <1>t, ReturnKeeps, ClientsOnly DEF attempt, Statuses
    <2>2. CASE ~client[c].cancelled
      <3> DEFINE m == [client[c] EXCEPT !.pc = "request", !.attempt = @ + 1]
      <3>1. client' = [client EXCEPT ![c] = m]
        BY <1>3, <2>2 DEF attempt
      <3>a. client[c].attempt + 1 \in Nat /\ "request" \in PCs
        BY <1>c DEF Client, PCs
      <3>b. m \in Client
        BY <1>c, <3>a DEF Client
      <3>c. m.pc = "request" /\ m.attempt = client[c].attempt + 1
        BY <1>c DEF Client
      <3>2. m \in Client /\ m.pc = "request" /\ m.attempt = client[c].attempt + 1
        BY <3>b, <3>c
      <3>3. client[c].attempt < Larger(maxAttempts, shards) /\ client[c].attempt \in Nat
        BY <1>3, <1>c DEF attempt, AttemptLeft, Client
      <3> HIDE DEF m
      <3>4. AttemptLeft(m)
        BY <3>2, <3>3, LargerBound DEF AttemptLeft
      <3> QED
        BY <1>3, <3>1, <3>2, <3>4, <1>t, ClientStep, ClientsOnly DEF attempt
    <2> QED
      BY <2>1, <2>2
  <1>4. CASE enqueue(c)
    BY <1>4, <1>t, StepKeeps, ClientsOnly DEF enqueue, PCs
  <1>5. CASE abandon(c)
    BY <1>5, <1>t, StepKeeps, ClientsOnly DEF abandon, PCs
  <1>6. CASE worker(c)
    BY <1>6, <1>t, StepKeeps, ClientsOnly DEF worker, PCs
  <1> QED
    BY <1>1, <1>2, <1>3, <1>4, <1>5, <1>6

\* A restart.
LEMMA RestartInv == ASSUME Inv, Restart PROVE Inv'
  <1>h. heap \in [Ranks -> Entry] /\ \A r \in Ranks : Consistent(heap[r])
    BY DEF Inv, TypeOK, EntriesConsistent
  <1>1. PICK kept \in [Counters -> 0..MaxSum] :
          heap' = [r \in Ranks |-> ForceReanimate(Aged(heap[r], kept))]
    BY DEF Restart
  <1>2. \A r \in Ranks : Aged(heap[r], kept) \in Entry /\ Consistent(Aged(heap[r], kept))
    BY <1>h, AgedKeeps
  <1>3. \A r \in Ranks : /\ ForceReanimate(Aged(heap[r], kept)) \in Entry
                         /\ Consistent(ForceReanimate(Aged(heap[r], kept)))
    BY <1>2, ReanimateKeeps
  <1>4. \A r \in Ranks : heap'[r] \in Entry /\ Consistent(heap'[r])
    BY <1>1, <1>3
  <1>5. heap' \in [Ranks -> Entry]
    BY <1>1, <1>3
  <1>6. EntriesConsistent'
    BY <1>4 DEF EntriesConsistent, Consistent
  <1>7. Listed \subseteq Ranks
    BY DEF Inv, TypeOK, Listed
  <1>8. client' = [c \in Clients |-> Fresh]
    BY DEF Restart
  <1>9. AttemptsLeft'
    BY <1>8, FreshIsClient DEF AttemptsLeft, AttemptLeft
  <1>10. TypeOK'
    <2>1. entries' \in [Shards -> SUBSET Ranks]
      BY <1>7 DEF Restart
    <2>2. client' \in [Clients -> Client]
      BY <1>8, FreshIsClient
    <2>3. serial' \in Shards
      BY PoolAssumption DEF Restart, Shards
    <2>4. proxyOf' \in [Ranks -> Proxies]
      BY DEF Restart, Inv, TypeOK
    <2> QED
      BY <1>5, <2>1, <2>2, <2>3, <2>4 DEF Restart, TypeOK
  <1> QED
    BY <1>6, <1>9, <1>10 DEF Inv

\* Every step keeps the inductive invariant.
LEMMA NextInv == Inv /\ [Next]_vars => Inv'
  <1> SUFFICES ASSUME Inv, [Next]_vars PROVE Inv'
    OBVIOUS
  <1>1. CASE Next
    BY <1>1, ShardInv, RequestInv, ReplyInv, RoundTripInv, RestartInv DEF Next, served
  <1>2. CASE UNCHANGED vars
    <2>1. TypeOK'
      BY <1>2 DEF Inv, TypeOK, vars
    <2>2. EntriesConsistent'
      BY <1>2 DEF Inv, EntriesConsistent, Consistent, vars
    <2>3. AttemptsLeft'
      BY <1>2 DEF Inv, AttemptsLeft, AttemptLeft, vars
    <2> QED
      BY <2>1, <2>2, <2>3 DEF Inv
  <1> QED
    BY <1>1, <1>2
----------------------------------------------------------------------------
\* The type invariant, for every instance of the pool.
THEOREM PoolTypeCorrect == Spec => []TypeOK
  <1>1. Inv => TypeOK
    BY DEF Inv
  <1> QED
    BY InitInv, NextInv, <1>1, PTL DEF Spec

\* Whatever replies, skips, evictions, ticks and restarts do to an entry, it
\* is out of rotation exactly while a time to reanimate it is set: no entry is
\* ever suspended for good by losing that time.
THEOREM EntriesOkIffAwake == Spec => []OkIffAwake
  <1>1. Inv => OkIffAwake
    BY DEF Inv, TypeOK, EntriesConsistent, Consistent, OkIffAwake, Listed
  <1> QED
    BY InitInv, NextInv, <1>1, PTL DEF Spec

\* One forwarded request makes at most the larger of maxAttempts and shards
\* attempts.
THEOREM AttemptsAreBounded == Spec => []AttemptsBounded
  <1>1. Inv => AttemptsBounded
    BY DEF Inv, AttemptsLeft, AttemptLeft, AttemptsBounded
  <1> QED
    BY InitInv, NextInv, <1>1, PTL DEF Spec
----------------------------------------------------------------------------
(* Which shards a request has asked.  Its attempts ask one shard after the  *)
(* other, from the one of its serial number on, whatever became of them; so *)
(* the first "shards" attempts ask all of them.                             *)

\* The shard of attempt i of a request.
ShardAt(m, i) == (m.serial + i - 1) % shards

\* The attempts that have asked their shard.
AskedBefore(m) == IF m.pc = "request" THEN m.attempt - 1 ELSE m.attempt

Toured(m) ==
  /\ m.pc # "idle" => \A i \in 1..AskedBefore(m) : ShardAt(m, i) \in m.tried
  /\ m.status = "exhausted" => m.tried = Shards

Tours == \A c \in Clients : Toured(client[c])

\* A number below the modulus is its own remainder, and so it is once around.
LEMMA ModOnce ==
  ASSUME NEW n \in Nat \ {0}, NEW x \in 0..(n - 1)
  PROVE  x % n = x /\ (x + n) % n = x
  OBVIOUS

\* "shards" attempts in a row ask every shard.
LEMMA AllShards ==
  ASSUME NEW m \in Client, NEW x \in Shards
  PROVE  \E i \in 1..shards : ShardAt(m, i) = x
  <1>1. shards \in Nat \ {0} /\ m.serial \in 0..(shards - 1) /\ x \in 0..(shards - 1)
    BY PoolAssumption DEF Client, Shards
  <1>2. CASE m.serial <= x
    <2> DEFINE i == (x - m.serial) + 1
    <2>1. i \in 1..shards /\ m.serial + i - 1 = x
      BY <1>1, <1>2
    <2>2. x % shards = x
      BY <1>1, ModOnce
    <2> QED
      BY <2>1, <2>2 DEF ShardAt
  <1>3. CASE x < m.serial
    <2> DEFINE i == ((x + shards) - m.serial) + 1
    <2>1. i \in 1..shards /\ m.serial + i - 1 = x + shards
      BY <1>1, <1>3
    <2>2. (x + shards) % shards = x
      BY <1>1, ModOnce
    <2> QED
      BY <2>1, <2>2 DEF ShardAt
  <1> QED
    BY <1>1, <1>2, <1>3

\* A step that replaces the state of one caller.
LEMMA TourStep ==
  ASSUME TypeOK, Tours, NEW c \in Clients, NEW m, Toured(m), client' = [client EXCEPT ![c] = m]
  PROVE  Tours'
  <1>1. \A d \in Clients : client'[d] = IF d = c THEN m ELSE client[d]
    BY DEF TypeOK
  <1>2. \A d \in Clients : Toured(client'[d])
    BY <1>1 DEF Tours
  <1> QED
    BY <1>2 DEF Tours, Toured, AskedBefore, ShardAt

\* After an attempt has asked its shard.
LEMMA AskedTour ==
  ASSUME TypeOK, Tours, NEW c \in Clients, client[c].pc = "request"
  PROVE  /\ Asked(c) \in Client /\ Asked(c).attempt = client[c].attempt
         /\ \A i \in 1..Asked(c).attempt : ShardAt(Asked(c), i) \in Asked(c).tried
         /\ Asked(c).status = "exhausted" => Asked(c).tried = Shards
  <1> DEFINE m == client[c]
             a == Asked(c)
  <1>1. m \in Client /\ Toured(m) /\ m.attempt \in Nat
    BY DEF TypeOK, Tours, Client
  <1>2. Shard(c) \in Shards /\ Shard(c) = ShardAt(m, m.attempt)
    BY ShardIsShard DEF Shard, ShardAt
  <1>3. /\ a \in Client /\ a.attempt = m.attempt /\ a.serial = m.serial /\ a.status = m.status
        /\ a.tried = m.tried \cup {Shard(c)}
    BY <1>1, <1>2 DEF Asked, Client
  <1>4. \A i \in 1..(m.attempt - 1) : ShardAt(m, i) \in m.tried
    BY <1>1 DEF Toured, AskedBefore
  <1>5. \A i : ShardAt(a, i) = ShardAt(m, i)
    BY <1>3 DEF ShardAt
  <1>6. m.status = "exhausted" => m.tried = Shards
    BY <1>1 DEF Toured
  <1> HIDE DEF m, a
  <1>7. \A i \in 1..m.attempt : i = m.attempt \/ i \in 1..(m.attempt - 1)
    BY <1>1
  <1>8. \A i \in 1..a.attempt : ShardAt(a, i) \in a.tried
    BY <1>2, <1>3, <1>4, <1>5, <1>7
  <1> QED
    BY <1>2, <1>3, <1>6, <1>8 DEF m, a

\* A request gives up only after its shard was the last one left.
LEMMA ExhaustedTour ==
  ASSUME TypeOK, Tours, NEW c \in Clients, client[c].pc = "request", exhausted(c)
  PROVE  Tours'
  <1> DEFINE a == Asked(c)
  <1>1. /\ a \in Client /\ a.attempt \in Nat
        /\ \A i \in 1..a.attempt : ShardAt(a, i) \in a.tried
        /\ a.status = "exhausted" => a.tried = Shards
    BY AskedTour DEF Client
  <1>2. client' = [client EXCEPT ![c] = IF a.attempt < shards
                                          THEN [a EXCEPT !.pc = "loop"]
                                          ELSE Ended(a, "exhausted")]
    BY DEF exhausted
  <1> HIDE DEF a
  <1>3. CASE a.attempt < shards
    <2> DEFINE m == [a EXCEPT !.pc = "loop"]
    <2>1. /\ m.pc = "loop" /\ m.attempt = a.attempt /\ m.tried = a.tried /\ m.status = a.status
          /\ m.serial = a.serial
      BY <1>1 DEF Client
    <2>2. client' = [client EXCEPT ![c] = m]
      BY <1>2, <1>3
    <2> HIDE DEF m
    <2>3. Toured(m)
      BY <1>1, <2>1 DEF Toured, AskedBefore, ShardAt
    <2> QED
      BY <2>2, <2>3, TourStep
  <1>4. CASE ~(a.attempt < shards)
    <2> DEFINE m == Ended(a, "exhausted")
    <2>1. m.pc = "idle" /\ m.tried = a.tried /\ m.status = "exhausted"
      BY DEF Ended, Fresh
    <2>2. client' = [client EXCEPT ![c] = m]
      BY <1>2, <1>4
    <2>3. 1..shards \subseteq 1..a.attempt
      BY <1>1, <1>4, PoolAssumption
    <2>4. a.tried = Shards
      <3>1. Shards \subseteq a.tried
        BY <1>1, <2>3, AllShards
      <3> QED
        BY <1>1, <3>1 DEF Client
    <2> HIDE DEF m
    <2>5. Toured(m)
      BY <2>1, <2>4 DEF Toured
    <2> QED
      BY <2>2, <2>5, TourStep
  <1> QED
    BY <1>3, <1>4

LEMMA PickedTour ==
  ASSUME TypeOK, Tours, NEW c \in Clients, NEW r, client[c].pc = "request", picked(c, r)
  PROVE  Tours'
  <1> DEFINE a == Asked(c)
             m == [a EXCEPT !.pc = "handoff", !.e = r]
  <1>1. /\ a \in Client
        /\ \A i \in 1..a.attempt : ShardAt(a, i) \in a.tried
        /\ a.status = "exhausted" => a.tried = Shards
    BY AskedTour
  <1>2. client' = [client EXCEPT ![c] = m]
    BY DEF picked
  <1> HIDE DEF a
  <1>3. /\ m.pc = "handoff" /\ m.attempt = a.attempt /\ m.tried = a.tried /\ m.status = a.status
        /\ m.serial = a.serial
    BY <1>1 DEF Client
  <1> HIDE DEF m
  <1>4. Toured(m)
    BY <1>1, <1>3 DEF Toured, AskedBefore, ShardAt
  <1> QED
    BY <1>2, <1>4, TourStep

\* The steps of a request that ask no shard.
LEMMA OtherTours ==
  ASSUME TypeOK, Tours, NEW c \in Clients,
         \/ \E status \in Statuses \ {"exhausted"} : Return(c, status)
         \/ \E pc \in PCs \ {"request", "idle"} :
              Step(c, pc) /\ client[c].pc \notin {"request", "idle"}
         \/ RoundTrip(c) \/ Cancel(c) \/ attempt(c)
  PROVE  Tours'
  <1>c. client[c] \in Client /\ Toured(client[c])
    BY DEF TypeOK, Tours
  <1>1. ASSUME NEW status \in Statuses \ {"exhausted"}, Return(c, status) PROVE Tours'
    <2> DEFINE m == Ended(client[c], status)
    <2>1. m.pc = "idle" /\ m.status # "exhausted" /\ client' = [client EXCEPT ![c] = m]
      BY <1>1 DEF Return, Ended, Fresh
    <2> HIDE DEF m
    <2>2. Toured(m)
      BY <2>1 DEF Toured
    <2> QED
      BY <2>1, <2>2, TourStep
  <1>2. ASSUME NEW pc \in PCs \ {"request", "idle"}, Step(c, pc),
               client[c].pc \notin {"request", "idle"}
        PROVE  Tours'
    <2> DEFINE m == [client[c] EXCEPT !.pc = pc]
    <2>1. /\ m.pc = pc /\ m.attempt = client[c].attempt /\ m.tried = client[c].tried
          /\ m.status = client[c].status /\ m.serial = client[c].serial
          /\ client' = [client EXCEPT ![c] = m]
      BY <1>2, <1>c DEF Step, Client
    <2> HIDE DEF m
    <2>2. Toured(m)
      BY <1>2, <1>c, <2>1 DEF Toured, AskedBefore, ShardAt
    <2> QED
      BY <2>1, <2>2, TourStep
  <1>3. CASE RoundTrip(c)
    <2> DEFINE m == [Fresh EXCEPT !.pc = "loop", !.serial = serial]
    <2>1. m.pc = "loop" /\ m.attempt = 0 /\ m.status = "none" /\ client' = [client EXCEPT ![c] = m]
      BY <1>3 DEF RoundTrip, Fresh
    <2> HIDE DEF m
    <2>2. Toured(m)
      BY <2>1 DEF Toured, AskedBefore
    <2> QED
      BY <2>1, <2>2, TourStep
  <1>4. CASE Cancel(c)
    <2> DEFINE m == [client[c] EXCEPT !.cancelled = TRUE]
    <2>1. /\ m.pc = client[c].pc /\ m.attempt = client[c].attempt /\ m.tried = client[c].tried
          /\ m.status = client[c].status /\ m.serial = client[c].serial
          /\ client' = [client EXCEPT ![c] = m]
      BY <1>4, <1>c DEF Cancel, Client
    <2> HIDE DEF m
    <2>2. Toured(m)
      BY <1>c, <2>1 DEF Toured, AskedBefore, ShardAt
    <2> QED
      BY <2>1, <2>2, TourStep
  <1>5. CASE attempt(c) /\ ~client[c].cancelled
    <2> DEFINE m == [client[c] EXCEPT !.pc = "request", !.attempt = @ + 1]
    <2>1. /\ m.pc = "request" /\ m.attempt = client[c].attempt + 1 /\ m.tried = client[c].tried
          /\ m.status = client[c].status /\ m.serial = client[c].serial
      BY <1>c DEF Client
    <2>2. client' = [client EXCEPT ![c] = m] /\ client[c].pc = "loop"
      BY <1>5 DEF attempt
    <2>3. (client[c].attempt + 1) - 1 = client[c].attempt
      BY <1>c DEF Client
    <2> HIDE DEF m
    <2>4. AskedBefore(m) = AskedBefore(client[c])
      BY <2>1, <2>2, <2>3 DEF AskedBefore
    <2>5. Toured(m)
      BY <1>c, <2>1, <2>2, <2>4 DEF Toured, ShardAt
    <2> QED
      BY <2>2, <2>5, TourStep
  <1>6. CASE attempt(c) /\ client[c].cancelled
    BY <1>1, <1>6 DEF attempt, Statuses
  <1> QED
    BY <1>1, <1>2, <1>3, <1>4, <1>5, <1>6

LEMMA ToursNext == TypeOK /\ Tours /\ [Next]_vars => Tours'
  <1> SUFFICES ASSUME TypeOK, Tours, [Next]_vars PROVE Tours'
    OBVIOUS
  <1> USE DEF PCs, Statuses
  <1>1. CASE UNCHANGED client
    BY <1>1 DEF Tours, Toured, AskedBefore, ShardAt
  <1>2. ASSUME NEW c \in Clients, handleRequest(c) PROVE Tours'
    BY <1>2, ExhaustedTour, PickedTour
       DEF handleRequest, requestEmpty, requestSingle, requestNone, requestOffer
  <1>3. ASSUME NEW c \in Clients, handleReply(c) PROVE Tours'
    BY <1>3, OtherTours DEF handleReply, replySuccess, replyFailure, Retry
  <1>4. ASSUME NEW c \in Clients, enqueue(c) \/ abandon(c) \/ worker(c) PROVE Tours'
    BY <1>4, OtherTours DEF enqueue, abandon, worker
  <1>5. ASSUME NEW c \in Clients, RoundTrip(c) \/ Cancel(c) \/ attempt(c) PROVE Tours'
    BY <1>5, OtherTours
  <1>6. CASE Restart
    <2>1. \A c \in Clients : client'[c] = Fresh
      BY <1>6 DEF Restart
    <2>2. Fresh.pc = "idle" /\ Fresh.status = "none"
      BY DEF Fresh
    <2> QED
      BY <2>1, <2>2 DEF Tours, Toured
  <1>7. CASE \/ \E p \in Proxies : removeProxy(p) \/ \E r \in Ranks : add(p, r)
             \/ Tick \/ \E sh \in Shards : minute(sh)
             \/ gatherEvictions \/ PendingEviction
    BY <1>1, <1>7 DEF removeProxy, add, Tick, minute, gatherEvictions, PendingEviction
  <1>8. CASE UNCHANGED vars
    BY <1>1, <1>8 DEF vars
  <1> QED
    BY <1>2, <1>3, <1>4, <1>5, <1>6, <1>7, <1>8 DEF Next, served

\* For every number of shards and of attempts, a request that is answered
\* "pool exhausted" (552) has asked every shard, whichever one its serial
\* number made it begin with and whatever its other attempts ended with.
THEOREM ExhaustedMeansAll == Spec => []ExhaustedAskedAll
  <1>1. Init => Tours
    BY DEF Init, Tours, Toured, Fresh
  <1>2. Tours => ExhaustedAskedAll
    BY DEF Tours, Toured, ExhaustedAskedAll
  <1> QED
    BY PoolTypeCorrect, ToursNext, <1>1, <1>2, PTL DEF Spec
----------------------------------------------------------------------------
(* Why a RoundTrip returns.  TLC checks RoundTripReturns under fairness; the *)
(* two facts below need none.  Every step of a request brings it nearer to  *)
(* its end, of which it is a finite number of steps away; and as long as    *)
(* some request is under way, the guards of a step of one of them hold.     *)

\* The steps that an attempt still needs.
Weight(pc) ==
  CASE pc = "request" -> 4 [] pc = "handoff" -> 3 [] pc = "queued" -> 2
    [] pc = "working" -> 1 [] OTHER -> 0

Remaining(m) == 5 * (Larger(maxAttempts, shards) - m.attempt) + Weight(m.pc)

\* A request begins, ends, is cancelled where it stands, or has fewer steps
\* left than before.
Nearer(m, n) ==
  \/ n = m
  \/ m.pc = "idle" \/ n.pc = "idle"
  \/ n = [m EXCEPT !.cancelled = TRUE]
  \/ Remaining(n) < Remaining(m)

AllNearer == \A c \in Clients : Nearer(client[c], client[c]')

\* Only the goroutine of a cancelled request answers nobody.
LostWasCancelled == \A c \in Clients : client[c].pc = "lost" => client[c].cancelled

StepsAreCounted == \A c \in Clients : Remaining(client[c]) \in Nat

\* The steps that are left are a natural number.
LEMMA RemainingIsNat ==
  ASSUME NEW m \in Client, AttemptLeft(m)
  PROVE  Remaining(m) \in Nat
  <1>1. /\ m.attempt \in Nat /\ m.attempt <= Larger(maxAttempts, shards)
        /\ Larger(maxAttempts, shards) \in Nat
    BY LargerBound DEF Client, AttemptLeft
  <1>2. Weight(m.pc) \in Nat
    BY DEF Weight
  <1> QED
    BY <1>1, <1>2 DEF Remaining

\* An attempt that gets further, or ends and leaves room for another.
LEMMA SameAttempt ==
  ASSUME NEW m \in Client, NEW n \in Client, n.attempt = m.attempt,
         \/ n.pc \in {"loop", "handoff"} /\ m.pc = "request"
         \/ n.pc \in {"queued", "lost"} /\ m.pc = "handoff"
         \/ n.pc = "working" /\ m.pc = "queued"
         \/ n.pc = "loop" /\ m.pc = "working"
  PROVE  Nearer(m, n)
  <1>1. m.attempt \in Nat /\ Larger(maxAttempts, shards) \in Nat
    BY LargerBound DEF Client
  <1>2. Weight(n.pc) \in Nat /\ Weight(m.pc) \in Nat /\ Weight(n.pc) < Weight(m.pc)
    BY DEF Weight
  <1> QED
    BY <1>1, <1>2 DEF Nearer, Remaining

\* Another attempt.
LEMMA NextAttempt ==
  ASSUME NEW m \in Client, NEW n, n.attempt = m.attempt + 1,
         m.pc = "loop", n.pc = "request"
  PROVE  Nearer(m, n)
  <1>1. m.attempt \in Nat /\ Larger(maxAttempts, shards) \in Nat
    BY LargerBound DEF Client
  <1>2. Weight(n.pc) = 4 /\ Weight(m.pc) = 0
    BY DEF Weight
  <1> QED
    BY <1>1, <1>2 DEF Nearer, Remaining

\* A step that replaces the state of one caller.
LEMMA NearerStep ==
  ASSUME TypeOK, LostWasCancelled, NEW c \in Clients, NEW m, Nearer(client[c], m),
         m.pc = "lost" => m.cancelled, client' = [client EXCEPT ![c] = m]
  PROVE  AllNearer /\ LostWasCancelled'
  <1>1. \A d \in Clients : client'[d] = IF d = c THEN m ELSE client[d]
    BY DEF TypeOK
  <1>2. \A d \in Clients : Nearer(client[d], client'[d])
    BY <1>1 DEF Nearer
  <1> QED
    BY <1>1, <1>2 DEF AllNearer, LostWasCancelled

\* The steps that move a caller without asking a shard.
LEMMA StepNearer ==
  ASSUME TypeOK, LostWasCancelled, NEW c \in Clients, NEW pc \in PCs, Step(c, pc),
         \/ pc \in {"queued", "lost"} /\ client[c].pc = "handoff"
         \/ pc = "working" /\ client[c].pc = "queued"
         \/ pc = "loop" /\ client[c].pc = "working",
         pc = "lost" => client[c].cancelled
  PROVE  AllNearer /\ LostWasCancelled'
  <1> DEFINE m == [client[c] EXCEPT !.pc = pc]
  <1>1. client[c] \in Client
    BY DEF TypeOK
  <1>2. /\ m \in Client /\ m.pc = pc /\ m.attempt = client[c].attempt
        /\ m.cancelled = client[c].cancelled
    BY <1>1 DEF Client
  <1>3. client' = [client EXCEPT ![c] = m]
    BY DEF Step
  <1> HIDE DEF m
  <1>4. Nearer(client[c], m)
    BY <1>1, <1>2, SameAttempt
  <1> QED
    BY <1>2, <1>3, <1>4, NearerStep

LEMMA ReturnNearer ==
  ASSUME TypeOK, LostWasCancelled, NEW c \in Clients, NEW status, Return(c, status)
  PROVE  AllNearer /\ LostWasCancelled'
  <1> DEFINE m == Ended(client[c], status)
  <1>1. m.pc = "idle" /\ client' = [client EXCEPT ![c] = m]
    BY DEF Return, Ended, Fresh
  <1> HIDE DEF m
  <1> QED
    BY <1>1, NearerStep DEF Nearer

\* The answer of a shard.
LEMMA AnswerNearer ==
  ASSUME TypeOK, AttemptsLeft, LostWasCancelled, NEW c \in Clients, client[c].pc = "request",
         exhausted(c) \/ \E r \in Ranks : picked(c, r)
  PROVE  AllNearer /\ LostWasCancelled'
  <1> DEFINE a == Asked(c)
  <1>1. client[c] \in Client /\ a \in Client /\ a.attempt = client[c].attempt
    BY AskedIsClient DEF TypeOK
  <1>2. \/ client' = [client EXCEPT ![c] = IF a.attempt < shards
                                             THEN [a EXCEPT !.pc = "loop"]
                                             ELSE Ended(a, "exhausted")]
        \/ \E r \in Ranks :
             client' = [client EXCEPT ![c] = [a EXCEPT !.pc = "handoff", !.e = r]]
    BY DEF exhausted, picked
  <1> HIDE DEF a
  <1>3. ASSUME client' = [client EXCEPT ![c] = [a EXCEPT !.pc = "loop"]]
        PROVE  AllNearer /\ LostWasCancelled'
    <2> DEFINE m == [a EXCEPT !.pc = "loop"]
    <2>1. m \in Client /\ m.pc = "loop" /\ m.attempt = client[c].attempt
      BY <1>1 DEF Client, PCs
    <2> HIDE DEF m
    <2>2. Nearer(client[c], m)
      BY <1>1, <2>1, SameAttempt
    <2>3. client' = [client EXCEPT ![c] = m]
      BY <1>3 DEF m
    <2> QED
      BY <2>1, <2>2, <2>3, NearerStep
  <1>4. ASSUME client' = [client EXCEPT ![c] = Ended(a, "exhausted")]
        PROVE  AllNearer /\ LostWasCancelled'
    <2> DEFINE m == Ended(a, "exhausted")
    <2>1. m.pc = "idle" /\ client' = [client EXCEPT ![c] = m]
      BY <1>4 DEF Ended, Fresh
    <2> HIDE DEF m
    <2> QED
      BY <2>1, NearerStep DEF Nearer
  <1>5. ASSUME NEW r \in Ranks,
               client' = [client EXCEPT ![c] = [a EXCEPT !.pc = "handoff", !.e = r]]
        PROVE  AllNearer /\ LostWasCancelled'
    <2> DEFINE m == [a EXCEPT !.pc = "handoff", !.e = r]
    <2>1. m \in Client /\ m.pc = "handoff" /\ m.attempt = client[c].attempt
      BY <1>1 DEF Client, PCs
    <2> HIDE DEF m
    <2>2. Nearer(client[c], m)
      BY <1>1, <2>1, SameAttempt
    <2>3. client' = [client EXCEPT ![c] = m]
      BY <1>5 DEF m
    <2> QED
      BY <2>1, <2>2, <2>3, NearerStep
  <1> QED
    BY <1>2, <1>3, <1>4, <1>5

\* The caller's own steps.
LEMMA CallerNearer ==
  ASSUME TypeOK, LostWasCancelled, NEW c \in Clients, RoundTrip(c) \/ Cancel(c) \/ attempt(c)
  PROVE  AllNearer /\ LostWasCancelled'
  <1>c. client[c] \in Client
    BY DEF TypeOK
  <1>1. CASE RoundTrip(c)
    <2> DEFINE m == [Fresh EXCEPT !.pc = "loop", !.serial = serial]
    <2>1. client[c].pc = "idle" /\ m.pc = "loop" /\ client' = [client EXCEPT ![c] = m]
      BY <1>1 DEF RoundTrip, Fresh
    <2> HIDE DEF m
    <2> QED
      BY <2>1, NearerStep DEF Nearer
  <1>2. CASE Cancel(c)
    <2> DEFINE m == [client[c] EXCEPT !.cancelled = TRUE]
    <2>1. m.cancelled /\ client' = [client EXCEPT ![c] = m]
      BY <1>2, <1>c DEF Cancel, Client
    <2>2. Nearer(client[c], m)
      BY DEF Nearer
    <2> HIDE DEF m
    <2> QED
      BY <2>1, <2>2, NearerStep
  <1>3. CASE attempt(c) /\ client[c].cancelled
    BY <1>3, ReturnNearer DEF attempt
  <1>4. CASE attempt(c) /\ ~client[c].cancelled
    <2> DEFINE m == [client[c] EXCEPT !.pc = "request", !.attempt = @ + 1]
    <2>1. m.pc = "request" /\ m.attempt = client[c].attempt + 1
      BY <1>c DEF Client
    <2>2. client' = [client EXCEPT ![c] = m] /\ client[c].pc = "loop"
      BY <1>4 DEF attempt
    <2> HIDE DEF m
    <2>3. Nearer(client[c], m)
      BY <1>c, <2>1, <2>2, NextAttempt
    <2> QED
      BY <2>1, <2>2, <2>3, NearerStep
  <1> QED
    BY <1>1, <1>2, <1>3, <1>4

LEMMA NextNearer ==
  Inv /\ LostWasCancelled /\ [Next]_vars => AllNearer /\ LostWasCancelled'
  <1> SUFFICES ASSUME Inv, LostWasCancelled, [Next]_vars PROVE AllNearer /\ LostWasCancelled'
    OBVIOUS
  <1>t. TypeOK /\ AttemptsLeft
    BY DEF Inv
  <1> USE DEF PCs
  <1>1. CASE UNCHANGED client
    BY <1>1 DEF AllNearer, LostWasCancelled, Nearer
  <1>2. ASSUME NEW c \in Clients, handleRequest(c) PROVE AllNearer /\ LostWasCancelled'
    <2>1. client[c].pc = "request"
      BY <1>2 DEF handleRequest, requestEmpty, requestSingle, requestNone, requestOffer
    <2>2. CASE requestEmpty(c) \/ requestNone(c)
      BY <1>t, <2>1, <2>2, AnswerNearer DEF requestEmpty, requestNone
    <2>3. CASE requestSingle(c)
      BY <1>t, <2>1, <2>3, AnswerNearer DEF requestSingle
    <2>4. CASE requestOffer(c)
      <3>1. PICK offset \in entries[Shard(c)] :
              \E first \in Available(Shard(c), offset) : picked(c, first)
        BY <2>4 DEF requestOffer
      <3>2. PICK first \in Available(Shard(c), offset) : picked(c, first)
        BY <3>1
      <3>3. first \in Ranks
        BY <1>t, <3>2, ShardIsShard DEF Available, TypeOK
      <3> QED
        BY <1>t, <2>1, <3>2, <3>3, AnswerNearer
    <2> QED
      BY <1>2, <2>2, <2>3, <2>4 DEF handleRequest
  <1>3. ASSUME NEW c \in Clients, handleReply(c) PROVE AllNearer /\ LostWasCancelled'
    BY <1>t, <1>3, ReturnNearer, StepNearer DEF handleReply, replySuccess, replyFailure, Retry
  <1>4. ASSUME NEW c \in Clients, enqueue(c) \/ abandon(c) \/ worker(c)
        PROVE  AllNearer /\ LostWasCancelled'
    BY <1>t, <1>4, StepNearer DEF enqueue, abandon, worker
  <1>5. ASSUME NEW c \in Clients, RoundTrip(c) \/ Cancel(c) \/ attempt(c)
        PROVE  AllNearer /\ LostWasCancelled'
    BY <1>t, <1>5, CallerNearer
  <1>6. CASE Restart
    <2>1. \A c \in Clients : client'[c] = Fresh
      BY <1>6 DEF Restart
    <2>2. Fresh.pc = "idle"
      BY DEF Fresh
    <2> QED
      BY <2>1, <2>2 DEF AllNearer, LostWasCancelled, Nearer
  <1>7. CASE \/ \E p \in Proxies : removeProxy(p) \/ \E r \in Ranks : add(p, r)
             \/ Tick \/ \E sh \in Shards : minute(sh)
             \/ gatherEvictions \/ PendingEviction
    BY <1>1, <1>7 DEF removeProxy, add, Tick, minute, gatherEvictions, PendingEviction
  <1>8. CASE UNCHANGED vars
    BY <1>1, <1>8 DEF vars
  <1> QED
    BY <1>2, <1>3, <1>4, <1>5, <1>6, <1>7, <1>8 DEF Next, served

\* For every number of shards, attempts, workers and callers, a forwarded
\* request is never more than Remaining steps from its end: this is a natural
\* number, and every step of the pool leaves a request where it is, begins,
\* cancels or ends it, or makes the number smaller.  No order of exhausted
\* shards, failed attempts and full queues makes RoundTrip go round for ever.
THEOREM RoundTripsAreFinite == Spec => []StepsAreCounted /\ [][AllNearer]_vars
  <1>1. Init => LostWasCancelled
    BY DEF Init, LostWasCancelled, Fresh
  <1>2. Inv => StepsAreCounted
    BY RemainingIsNat DEF Inv, TypeOK, AttemptsLeft, StepsAreCounted
  <1> QED
    BY InitInv, NextInv, NextNearer, <1>1, <1>2, PTL DEF Spec

\* What firstAvailableProxy finds in the shard: nothing, a single entry, or,
\* from some offset on, only entries that it skips or a first one that it
\* does not.
Answered(c) ==
  \/ entries[Shard(c)] = {}
  \/ \E r \in Ranks : entries[Shard(c)] = {r}
  \/ /\ Cardinality(entries[Shard(c)]) > 1
     /\ \A offset \in entries[Shard(c)] :
          \/ \A r \in Available(Shard(c), offset) : Skips(heap[r])
          \/ \E first \in Available(Shard(c), offset) :
               /\ ~Skips(heap[first])
               /\ \A r \in Available(Shard(c), offset) : r < first => Skips(heap[r])
               /\ Bump(heap[first].offers) # {}

\* The guards of a step of the request hold.
Advances(c) ==
  \/ client[c].pc \in {"loop", "working"}
  \/ client[c].pc = "request" /\ Answered(c)
  \/ client[c].pc = "handoff" /\ At("queued") < requestWorkers
  \/ client[c].pc = "queued" /\ At("working") < requestWorkers

UnderWay(c) == client[c].pc \notin {"idle", "lost"}

SomeoneAdvances ==
  (\E c \in Clients : UnderWay(c)) => \E c \in Clients : Advances(c)

\* A set of integers from some offset on has a least one.
LEMMA FirstOf ==
  ASSUME NEW D, NEW offset \in Int, D # {}, \A r \in D : r \in Int /\ r >= offset
  PROVE  \E first \in D : \A r \in D : ~(r < first)
  <1> DEFINE E == {r - offset : r \in D}
             R == OpToRel(<, Nat)
  <1>1. E \subseteq Nat /\ E # {}
    OBVIOUS
  <1>2. IsWellFoundedOn(R, Nat)
    BY NatLessThanWellFounded, Zenon
  <1> HIDE DEF R, E
  <1>3. PICK m \in E : \A k \in E : ~(<<k, m>> \in R)
    BY <1>1, <1>2, WFMin
  <1>4. \A k \in E : ~(k < m)
    BY <1>1, <1>3 DEF R, OpToRel
  <1>5. PICK first \in D : m = first - offset
    BY <1>3 DEF E
  <1>6. \A r \in D : r - offset \in E
    BY DEF E
  <1>7. \A r \in D : ~(r - offset < first - offset)
    BY <1>4, <1>5, <1>6
  <1> QED
    BY <1>5, <1>7

\* The four cases of firstAvailableProxy leave no shard out.
LEMMA RequestIsAnswered ==
  ASSUME TypeOK, NEW c \in Clients
  PROVE  Answered(c)
  <1> DEFINE S == entries[Shard(c)]
  <1>1. S \subseteq Ranks /\ S \subseteq Int /\ IsFiniteSet(S)
    <2>1. S \subseteq Ranks
      BY ShardIsShard DEF TypeOK
    <2> HIDE DEF S
    <2> QED
      BY <2>1, PoolAssumption, FS_Subset
  <1> HIDE DEF S
  <1>2. CASE Cardinality(S) > 1
    <2> SUFFICES ASSUME NEW offset \in S,
                        NEW skipped \in Available(Shard(c), offset), ~Skips(heap[skipped])
                 PROVE  \E first \in Available(Shard(c), offset) :
                          /\ ~Skips(heap[first])
                          /\ \A r \in Available(Shard(c), offset) : r < first => Skips(heap[r])
                          /\ Bump(heap[first].offers) # {}
      BY <1>2 DEF Answered, S
    <2> DEFINE D == {r \in Available(Shard(c), offset) : ~Skips(heap[r])}
    <2>1. \A r \in D : r \in Ranks /\ r \in Int /\ r >= offset
      BY <1>1 DEF Available, S
    <2>2. D # {} /\ offset \in Int
      BY <1>1
    <2> HIDE DEF D
    <2>3. PICK first \in D : \A r \in D : ~(r < first)
      BY <2>1, <2>2, FirstOf
    <2>4. heap[first].offers \in Nat
      BY <2>1, <2>3 DEF TypeOK, Entry
    <2>5. 1 \in Bump(heap[first].offers)
      BY <2>4, EntryAssumption DEF Bump
    <2> QED
      BY <2>3, <2>5 DEF D
  <1>3. CASE ~(Cardinality(S) > 1)
    <2>1. Cardinality(S) \in Nat
      BY <1>1, FS_CardinalityType
    <2>2. Cardinality(S) = 0 \/ Cardinality(S) = 1
      BY <1>3, <2>1
    <2>3. S = {} \/ \E r : S = {r}
      BY <1>1, <2>2, FS_EmptySet, FS_Singleton
    <2> QED
      BY <1>1, <2>3 DEF Answered, S
  <1> QED
    BY <1>2, <1>3

\* Nobody stands at a place that is empty.
LEMMA NobodyAt ==
  ASSUME NEW pc, \A c \in Clients : client[c].pc # pc
  PROVE  At(pc) < requestWorkers
  <1>1. {c \in Clients : client[c].pc = pc} = {}
    OBVIOUS
  <1>2. At(pc) = 0
    BY <1>1, FS_EmptySet DEF At
  <1> QED
    BY <1>2, PoolAssumption

\* For every number of callers, request workers and shards: the requests never
\* wait for one another all at once.  While some RoundTrip is under way, a
\* shard has an answer for one, a worker has a reply for one, or the work
\* queue or a worker has room for one; and a request whose goroutine answers
\* nobody is a cancelled one.
THEOREM NoRequestIsStuck == Spec => [](SomeoneAdvances /\ LostWasCancelled)
  <1>1. Init => LostWasCancelled
    BY DEF Init, LostWasCancelled, Fresh
  <1>2. ASSUME TypeOK PROVE SomeoneAdvances
    <2> SUFFICES ASSUME NEW c \in Clients, UnderWay(c), \A d \in Clients : ~Advances(d)
                 PROVE  FALSE
      BY DEF SomeoneAdvances
    <2>1. \A d \in Clients : client[d].pc \in PCs /\ Answered(d)
      BY <1>2, RequestIsAnswered DEF TypeOK, Client
    <2>2. \A d \in Clients : client[d].pc \notin {"loop", "working", "request"}
      BY <2>1 DEF Advances
    <2>3. \A d \in Clients : client[d].pc # "queued"
      BY <2>2, NobodyAt DEF Advances
    <2>4. \A d \in Clients : client[d].pc # "handoff"
      BY <2>3, NobodyAt DEF Advances
    <2> QED
      BY <2>1, <2>2, <2>3, <2>4 DEF UnderWay, PCs
  <1>3. Inv => SomeoneAdvances
    BY <1>2 DEF Inv
  <1> QED
    BY InitInv, NextInv, NextNearer, <1>1, <1>3, PTL DEF Spec
=============================================================================
