--------------------------- MODULE TrafficProofs ---------------------------
(***************************************************************************)
(* Theorems about Traffic, for every number of connections, attempts and    *)
(* records, every capacity of the channel and every limit of the history.   *)
(*                                                                          *)
(* Three invariants are carried together.  Rooms bounds what the server     *)
(* numbers.  Attempts says which attempts of each connection's request were *)
(* sent, and which redirections; with it no two things sent have the same   *)
(* serial, attempt and hop, which bounds how many there are.  Recorded ties *)
(* the state of History.main to what was sent.  The last part of the module *)
(* counts the steps that are left until an answer.                          *)
(***************************************************************************)
EXTENDS Traffic, FiniteSetTheorems, SequenceTheorems, TLAPS

Fields == [serial : Nat, attempt : Nat, hop : Nat, proxy : Proxies, status : Outcomes]

\* The requests among the first k sent that went through p.
Through(p, k) == Cardinality({j \in 1..k : sent[j].proxy = p})

\* How many requests the history holds.
Held == IF limit > 0 /\ counter > limit THEN limit ELSE counter

\* What a dashboard is answered that asks for id after n requests.
AnswerFor(id, n) ==
  IF id \in 1..n /\ (limit = 0 \/ id > n - limit) THEN Entry(id) ELSE NoRequest

\* The channel holds what was sent last.
Channel ==
  /\ record \in Seq(Fields) /\ Len(record) <= recordCap
  /\ sent \in Seq(Fields) /\ counter \in Nat
  /\ Len(sent) = counter + Len(record)
  /\ \A i \in 1..Len(record) : record[i] = sent[counter + i]

Listed ==
  /\ appears = [p \in Proxies |-> Through(p, counter)]
  /\ requests = [i \in 1..Held |-> Entry((counter - Held) + i)]
  /\ beating \in BOOLEAN

Answer ==
  [pc : {"idle", "asking", "answered"}, id : 0..MaxRecords,
   found : {NoRequest} \cup {Entry(k) : k \in 1..counter}, upto : 0..counter]

Answers ==
  /\ asker \in [Askers -> Answer]
  /\ \A a \in Askers : asker[a].pc = "answered" =>
       asker[a].found = AnswerFor(asker[a].id, asker[a].upto)

Recorded == Channel /\ Listed /\ Answers

\* The connections that wait for the number of their session.
Waiting(T) == {c \in Conns : At(c, "accepted") /\ conn[c].tunnel \in T}

Conn ==
  [pc : PCs, tunnel : BOOLEAN, gone : BOOLEAN, serial : 0..MaxRequests, attempt : Nat,
   hop : Nat, status : Statuses]

\* The numbers that are given out leave room for who was accepted.
Rooms ==
  /\ conn \in [Conns -> Conn]
  /\ sessions \in Nat /\ sessions + Accepted(BOOLEAN) <= MaxRequests
  /\ serial \in Nat /\ serial + Accepted({FALSE}) <= MaxRequests

Made ==
  [serial : 1..MaxRequests, attempt : 1..MaxAttempt, hop : 0..MaxRedirects,
   proxy : Proxies, status : Outcomes]

\* What was sent with a serial, and the attempts of the request of c in it.
Mine(x) == {k \in DOMAIN sent : sent[k].serial = x}
tried(c) == {sent[k].attempt : k \in Mine(conn[c].serial)}

\* A request under way: none of what was sent of it went well, all of it belongs
\* to earlier attempts or to redirections of this one, and no attempt after all
\* shards were asked is missing.
Trying(c) ==
  /\ conn[c].attempt \in 1..MaxAttempt
  /\ \A k \in Mine(conn[c].serial) :
       /\ sent[k].status # "ok"
       /\ InOrder(sent[k], [attempt |-> conn[c].attempt, hop |-> conn[c].hop,
                            proxy |-> made[c].proxy])
  /\ conn[c].hop > 0 => \E k \in Mine(conn[c].serial) :
       sent[k].attempt = conn[c].attempt /\ sent[k].hop = conn[c].hop - 1
  /\ Shards..(conn[c].attempt - 1) \subseteq tried(c)

\* A request whose RoundTrip has returned the answer of a proxy.
Ended(c) ==
  /\ tried(c) \subseteq 1..conn[c].attempt
  /\ {conn[c].attempt} \cup (Shards..conn[c].attempt) \subseteq tried(c)
  /\ \A k \in Mine(conn[c].serial) :
       sent[k].status = "ok" <=>
         conn[c].status = "ok" /\ \A j \in Mine(conn[c].serial) : j <= k

AttemptsOf(c) ==
  /\ conn[c].status = "none" => Trying(c)
  /\ conn[c].status \in {"ok", "failed"} => Ended(c)

UnderWay == {"attempt", "request", "record", "redirected"}

\* What is sent when roundTripper.RoundTrip returns belongs to the request under
\* way.
MadeBy(c) ==
  IF conn[c].pc \in {"record", "redirected"}
    THEN /\ made[c] \in Made /\ <<made[c].proxy, made[c].status>> \in Offers[c]
         /\ conn[c].pc = "record" => /\ made[c].serial = conn[c].serial
                                     /\ made[c].attempt = conn[c].attempt
                                     /\ made[c].hop = conn[c].hop
    ELSE made[c] = NotMade

Attempts ==
  /\ sent \in Seq(Fields) /\ made = [d \in Conns |-> made[d]]
  /\ \A k \in DOMAIN sent : /\ sent[k].serial \in 1..serial
                            /\ sent[k].attempt \in 1..MaxAttempt
                            /\ sent[k].hop \in 0..MaxRedirects
  /\ \A j, k \in DOMAIN sent :
       j < k /\ sent[j].serial = sent[k].serial => InOrder(sent[j], sent[k])
  /\ \A k \in DOMAIN sent : sent[k].hop > 0 =>
       \E j \in DOMAIN sent : /\ sent[j].serial = sent[k].serial
                              /\ sent[j].attempt = sent[k].attempt
                              /\ sent[j].hop = sent[k].hop - 1
  /\ \A c \in Conns :
       /\ conn[c].serial <= serial
       /\ conn[c].serial > 0 => AttemptsOf(c)
       /\ conn[c].status # "none" => conn[c].serial > 0
       /\ conn[c].pc \in UnderWay => conn[c].serial > 0 /\ conn[c].status = "none"
       /\ conn[c].hop \in 0..MaxRedirects
       /\ conn[c].pc \in {"attempt", "request"} => conn[c].hop = 0
       /\ MadeBy(c)
  /\ \A c, d \in Conns : c # d /\ conn[c].serial = conn[d].serial => conn[c].serial = 0

Inv == Recorded /\ Rooms /\ Attempts
----------------------------------------------------------------------------
(* The history. *)

LEMMA Limits ==
  /\ limit \in Nat /\ recordCap \in Nat /\ MaxRecords \in Nat /\ MaxRequests \in Nat
  /\ maxAttempts \in Nat /\ Shards \in Nat /\ MaxRedirects \in Nat /\ Shards > 0
  /\ MaxAttempt \in Nat /\ MaxAttempt > 0 /\ MaxAttempt >= maxAttempts /\ MaxAttempt >= Shards
<1>1. limit \in Nat /\ recordCap \in Nat /\ MaxRecords \in Nat /\ MaxRequests \in Nat
  BY HistoryAssumption, ServeAssumption
<1>2. maxAttempts \in Nat /\ maxAttempts > 0 /\ Shards \in Nat /\ Shards > 0 /\ MaxRedirects \in Nat
  BY TrafficAssumption
<1>. QED  BY <1>1, <1>2 DEF MaxAttempt

LEMMA SentIndex ==
  ASSUME sent \in Seq(Fields)
  PROVE  /\ Len(sent) \in Nat /\ DOMAIN sent = 1..Len(sent)
         /\ \A k \in DOMAIN sent : sent[k] \in Fields
  OBVIOUS

LEMMA EntryThrough ==
  ASSUME NEW k
  PROVE  Entry(k) = stored(sent[k], k, Through(sent[k].proxy, k))
  BY DEF Entry, Through

LEMMA ThroughType ==
  ASSUME NEW p, NEW k \in Nat
  PROVE  Through(p, k) \in 0..k
<1>. DEFINE S == {j \in 1..k : sent[j].proxy = p}
<1>1. IsFiniteSet(1..k) /\ Cardinality(1..k) = k
  BY FS_Interval
<1>2. S \in SUBSET (1..k)
  OBVIOUS
<1>3. IsFiniteSet(S) /\ Cardinality(S) <= k
  BY <1>1, <1>2, FS_Subset
<1>. HIDE DEF S
<1>4. Cardinality(S) \in Nat
  BY <1>3, FS_CardinalityType
<1>. QED  BY <1>3, <1>4 DEF Through, S

LEMMA ThroughNext ==
  ASSUME NEW p, NEW k \in Nat
  PROVE  Through(p, k + 1) = Through(p, k) + (IF sent[k + 1].proxy = p THEN 1 ELSE 0)
<1>. DEFINE S == {j \in 1..k : sent[j].proxy = p}
            T == {j \in 1..(k + 1) : sent[j].proxy = p}
<1>1. S \in SUBSET (1..k) /\ IsFiniteSet(1..k)
  BY FS_Interval
<1>2. IsFiniteSet(S) /\ k + 1 \notin S
  BY <1>1, FS_Subset
<1>3. T = IF sent[k + 1].proxy = p THEN S \cup {k + 1} ELSE S
  <2>1. 1..(k + 1) = (1..k) \cup {k + 1}
    OBVIOUS
  <2>. QED  BY <2>1
<1>4. Through(p, k) = Cardinality(S) /\ Through(p, k + 1) = Cardinality(T)
  BY DEF Through
<1>. HIDE DEF S, T
<1>5. Cardinality(S \cup {k + 1}) = Cardinality(S) + 1 /\ Cardinality(S) \in Nat
  BY <1>2, FS_AddElement, FS_CardinalityType
<1>. QED  BY <1>3, <1>4, <1>5

\* What has been sent does not change when more is.
LEMMA EntryKept ==
  ASSUME sent \in Seq(Fields), NEW r \in Fields, sent' = Append(sent, r) \/ sent' = sent
  PROVE  /\ \A k \in 1..Len(sent) : Entry(k)' = Entry(k)
         /\ \A p, k : k \in 0..Len(sent) => Through(p, k)' = Through(p, k)
<1>1. \A k \in 1..Len(sent) : sent'[k] = sent[k]
  OBVIOUS
<1>2. Len(sent) \in Nat
  OBVIOUS
<1>3. ASSUME NEW p, NEW k, k \in 0..Len(sent) PROVE Through(p, k)' = Through(p, k)
  <2>1. {j \in 1..k : sent'[j].proxy = p} = {j \in 1..k : sent[j].proxy = p}
    BY <1>1, <1>2, <1>3
  <2>. QED  BY <2>1 DEF Through
<1>4. ASSUME NEW k \in 1..Len(sent) PROVE Entry(k)' = Entry(k)
  <2>1. {j \in 1..k : sent'[j].proxy = sent'[k].proxy} = {j \in 1..k : sent[j].proxy = sent[k].proxy}
    BY <1>1, <1>2
  <2>. QED  BY <1>1, <2>1 DEF Entry, stored
<1>. QED  BY <1>3, <1>4

LEMMA HeldType ==
  ASSUME counter \in Nat
  PROVE  Held \in 0..counter /\ (limit > 0 => Held <= limit)
  BY Limits DEF Held

LEMMA RecordedInit == Init => Recorded
<1>. SUFFICES ASSUME Init PROVE Recorded
  OBVIOUS
<1>1. record = <<>> /\ requests = <<>> /\ sent = <<>> /\ counter = 0 /\ beating = FALSE
      /\ appears = [p \in Proxies |-> 0] /\ asker = [a \in Askers |-> NoAnswer]
  BY DEF Init, HistoryInit
<1>2. \A p : Through(p, 0) = 0
  BY ThroughType
<1>3. Held = 0
  BY <1>1, HeldType
<1>4. requests = [i \in 1..Held |-> Entry((counter - Held) + i)]
  BY <1>1, <1>3
<1>5. NoAnswer \in Answer
  BY <1>1, Limits DEF NoAnswer, Answer
<1>6. \A a \in Askers : asker[a].pc # "answered"
  BY <1>1 DEF NoAnswer
<1>7. Channel
  BY <1>1, Limits DEF Channel
<1>8. Listed
  BY <1>1, <1>2, <1>4 DEF Listed
<1>9. Answers
  BY <1>1, <1>5, <1>6 DEF Answers
<1>. QED  BY <1>7, <1>8, <1>9 DEF Recorded

\* Answers stay right when more is sent or taken from the channel.
LEMMA AnswersKept ==
  ASSUME Channel, Answers, NEW r \in Fields, sent' = Append(sent, r) \/ sent' = sent,
         counter' \in {counter, counter + 1}, UNCHANGED asker
  PROVE  Answers'
<1>1. counter \in Nat /\ counter <= Len(sent) /\ Len(sent) \in Nat /\ sent \in Seq(Fields)
  BY DEF Channel
<1>2. \A k \in 1..counter : Entry(k)' = Entry(k) /\ k \in 1..counter'
  BY <1>1, EntryKept
<1>3. 0..counter \subseteq 0..counter'
  BY <1>1
<1>4. {Entry(k) : k \in 1..counter} \subseteq {Entry(k)' : k \in 1..counter'}
  BY <1>2
<1>5. Answer \subseteq Answer'
  <2>. DEFINE F == {Entry(k) : k \in 1..counter}
              G == {Entry(k)' : k \in 1..counter'}
  <2>1. Answer' = [pc : {"idle", "asking", "answered"}, id : 0..MaxRecords,
                   found : {NoRequest} \cup G, upto : 0..counter']
    BY DEF Answer, NoRequest
  <2>2. Answer = [pc : {"idle", "asking", "answered"}, id : 0..MaxRecords,
                  found : {NoRequest} \cup F, upto : 0..counter]
    BY DEF Answer
  <2>3. F \subseteq G
    BY <1>4
  <2>. HIDE DEF F, G
  <2>. QED  BY <1>3, <2>1, <2>2, <2>3
<1>6. ASSUME NEW a \in Askers
      PROVE  AnswerFor(asker[a].id, asker[a].upto)' = AnswerFor(asker[a].id, asker[a].upto)
  <2>1. asker[a].upto \in 0..counter /\ asker[a].id \in 0..MaxRecords
    BY DEF Answers, Answer
  <2>2. 1..asker[a].upto \subseteq 1..counter
    BY <1>1, <2>1
  <2>3. \A x : x = asker[a].id /\ x \in 1..asker[a].upto => Entry(x)' = Entry(x)
    BY <1>2, <2>2
  <2>4. asker[a].id \in 1..asker[a].upto => Entry(asker[a].id)' = Entry(asker[a].id)
    <3>1. asker'[a].id = asker[a].id
      OBVIOUS
    <3>. QED  BY <2>3, <3>1 DEF Entry, stored
  <2>. QED  BY <2>4 DEF AnswerFor, NoRequest
<1>7. asker' \in [Askers -> Answer']
  BY <1>5 DEF Answers
<1>. QED  BY <1>6, <1>7 DEF Answers

\* Record puts a request at the end of what waits for main.
LEMMA RecordedSend ==
  ASSUME Recorded, NEW r \in Fields, Record(r)
  PROVE  Recorded'
<1>1. /\ record \in Seq(Fields) /\ sent \in Seq(Fields) /\ counter \in Nat
      /\ Len(sent) = counter + Len(record) /\ Len(record) \in Nat /\ Len(sent) \in Nat
      /\ \A i \in 1..Len(record) : record[i] = sent[counter + i]
  BY DEF Recorded, Channel
<1>2. /\ record' = Append(record, r) /\ sent' = Append(sent, r) /\ Len(record) < recordCap
      /\ UNCHANGED <<requests, appears, counter, beating, asker>>
  BY DEF Record
<1>3. record' \in Seq(Fields) /\ Len(record') = Len(record) + 1 /\ Len(record') <= recordCap
  BY <1>1, <1>2, Limits
<1>4. sent' \in Seq(Fields) /\ Len(sent') = counter' + Len(record')
  BY <1>1, <1>2
<1>5. ASSUME NEW i \in 1..Len(record') PROVE record'[i] = sent'[counter' + i]
  <2>1. CASE i = Len(record) + 1
    BY <1>1, <1>2, <2>1
  <2>2. CASE i \in 1..Len(record)
    <3>1. counter + i \in 1..Len(sent)
      BY <1>1, <2>2
    <3>. QED  BY <1>1, <1>2, <2>2, <3>1
  <2>. QED  BY <1>1, <1>3, <2>1, <2>2
<1>6. /\ \A k \in 1..counter : Entry(k)' = Entry(k)
      /\ \A p : Through(p, counter)' = Through(p, counter)
  <2>1. 1..counter \subseteq 1..Len(sent) /\ counter \in 0..Len(sent)
    BY <1>1
  <2>2. \A p, k : k \in 0..Len(sent) => Through(p, k)' = Through(p, k)
    BY <1>1, <1>2, EntryKept
  <2>3. \A p : {j \in 1..counter' : sent'[j].proxy = p} = {j \in 1..counter : sent[j].proxy = p}
    BY <1>1, <1>2
  <2>. QED  BY <1>1, <1>2, <2>1, <2>3, EntryKept DEF Through
<1>7. Held' = Held /\ Held \in 0..counter
  BY <1>1, <1>2, HeldType DEF Held
<1>8. requests' = [i \in 1..Held' |-> Entry((counter - Held) + i)']
  <2>1. \A i \in 1..Held : (counter - Held) + i \in 1..counter
    BY <1>1, <1>7
  <2>2. \A i \in 1..Held : Entry((counter - Held) + i)' = Entry((counter - Held) + i)
    BY <1>2, <1>6, <1>7, <2>1
  <2>. QED  BY <1>2, <1>7, <2>2 DEF Recorded, Listed
<1>9. Channel'
  BY <1>1, <1>2, <1>3, <1>4, <1>5 DEF Channel
<1>10. Listed'
  BY <1>2, <1>6, <1>8 DEF Recorded, Listed
<1>11. Answers'
  BY <1>1, <1>2, AnswersKept DEF Recorded
<1>. QED  BY <1>9, <1>10, <1>11 DEF Recorded

LEMMA Appended ==
  ASSUME NEW S, NEW s \in Seq(S), NEW x \in S
  PROVE  Append(s, x) = [i \in 1..(Len(s) + 1) |-> IF i = Len(s) + 1 THEN x ELSE s[i]]
<1>. DEFINE t == Append(s, x)
<1>1. /\ t \in Seq(S) /\ Len(t) = Len(s) + 1 /\ Len(s) \in Nat
      /\ \A i \in 1..(Len(s) + 1) : t[i] = IF i = Len(s) + 1 THEN x ELSE s[i]
  OBVIOUS
<1>. HIDE DEF t
<1>2. t = [i \in 1..(Len(s) + 1) |-> t[i]]
  BY <1>1
<1>. QED  BY <1>1, <1>2 DEF t

LEMMA Slid ==
  ASSUME NEW S, NEW s \in Seq(S), s # <<>>, NEW x \in S
  PROVE  Append(Tail(s), x) = [i \in 1..Len(s) |-> IF i = Len(s) THEN x ELSE s[i + 1]]
<1>. DEFINE t == Tail(s)
<1>1. /\ t \in Seq(S) /\ Len(t) = Len(s) - 1 /\ Len(s) \in Nat
      /\ \A i \in 1..(Len(s) - 1) : t[i] = s[i + 1]
  OBVIOUS
<1>. HIDE DEF t
<1>2. Append(t, x) = [i \in 1..(Len(t) + 1) |-> IF i = Len(t) + 1 THEN x ELSE t[i]]
  BY <1>1, Appended
<1>3. Len(t) + 1 = Len(s)
  BY <1>1
<1>4. \A i \in 1..Len(s) : i # Len(s) => t[i] = s[i + 1]
  BY <1>1
<1>. QED  BY <1>2, <1>3, <1>4 DEF t

\* main takes a request from the channel: the list loses its oldest when it
\* is full, and the number and the count of the request are those of its place
\* in what was sent.
LEMMA RecordedMain ==
  ASSUME Recorded, mainRecord
  PROVE  Recorded'
<1>. DEFINE r == Head(record)
<1>1. /\ record \in Seq(Fields) /\ sent \in Seq(Fields) /\ counter \in Nat
      /\ Len(record) <= recordCap
      /\ Len(sent) = counter + Len(record) /\ Len(record) \in Nat /\ Len(sent) \in Nat
      /\ \A i \in 1..Len(record) : record[i] = sent[counter + i]
      /\ appears = [p \in Proxies |-> Through(p, counter)]
      /\ requests = [i \in 1..Held |-> Entry((counter - Held) + i)]
  BY DEF Recorded, Channel, Listed
<1>2. /\ record # <<>> /\ record' = Tail(record) /\ counter' = counter + 1 /\ beating' = TRUE
      /\ appears' = [appears EXCEPT ![r.proxy] = @ + 1]
      /\ requests' = Append(kept(requests), stored(r, counter + 1, appears'[r.proxy]))
      /\ UNCHANGED <<asker, sent>>
  BY DEF mainRecord
<1>3. r = sent[counter + 1] /\ r \in Fields /\ Len(record) > 0
  BY <1>1, <1>2
<1>. HIDE DEF r
<1>4. r.proxy \in Proxies
  BY <1>3 DEF Fields
<1>5. Channel'
  <2>1. record' \in Seq(Fields) /\ Len(record') = Len(record) - 1
    BY <1>1, <1>2
  <2>2. ASSUME NEW i \in 1..Len(record') PROVE record'[i] = sent'[counter' + i]
    <3>1. i + 1 \in 1..Len(record) /\ record'[i] = record[i + 1]
      BY <1>1, <1>2, <2>1
    <3>2. counter + (i + 1) = (counter + 1) + i
      BY <1>1, <2>1
    <3>. QED  BY <1>1, <1>2, <3>1, <3>2
  <2>. QED  BY <1>1, <1>2, <1>3, <2>1, <2>2, Limits DEF Channel
<1>6. \A p : Through(p, counter)' = Through(p, counter + 1)
  BY <1>2 DEF Through
<1>7. \A k : Entry(k)' = stored(sent[k], k, Through(sent[k].proxy, k))
  BY <1>2 DEF Entry, stored, Through
<1>8. \A p \in Proxies : appears'[p] = Through(p, counter + 1)
  <2>1. \A p \in Proxies : /\ Through(p, counter) \in Nat
                           /\ Through(p, counter + 1) =
                                Through(p, counter) + (IF r.proxy = p THEN 1 ELSE 0)
    <3>1. \A p : Through(p, counter) \in 0..counter
      BY <1>1, ThroughType
    <3>2. \A p : Through(p, counter + 1) =
                   Through(p, counter) + (IF sent[counter + 1].proxy = p THEN 1 ELSE 0)
      BY <1>1, ThroughNext
    <3>. QED  BY <1>3, <3>1, <3>2
  <2>. QED  BY <1>1, <1>2, <1>4, <2>1
<1>9. appears' = [p \in Proxies |-> Through(p, counter)']
  <2>1. DOMAIN appears' = Proxies /\ appears' = [p \in DOMAIN appears' |-> appears'[p]]
    BY <1>1, <1>2
  <2>. QED  BY <1>6, <1>8, <2>1
<1>10. \A k : Entry(k)' = Entry(k)
  BY <1>7, EntryThrough
<1>11. stored(r, counter + 1, appears'[r.proxy]) = Entry(counter + 1)
  BY <1>3, <1>4, <1>8, EntryThrough
<1>. DEFINE e == Entry(counter + 1)
            S == {Entry(k) : k \in 1..(counter + 1)}
<1>12. Held \in 0..counter /\ Held' = IF limit > 0 /\ Held = limit THEN limit ELSE Held + 1
  BY <1>1, <1>2, Limits DEF Held
<1>13. Len(requests) = Held /\ requests \in Seq(S) /\ e \in S
  <2>1. \A i \in 1..Held : (counter - Held) + i \in 1..(counter + 1)
    BY <1>1, <1>12
  <2>2. \A i \in 1..Held : Entry((counter - Held) + i) \in S
    BY <2>1
  <2>3. counter + 1 \in 1..(counter + 1)
    BY <1>1
  <2>. HIDE DEF S
  <2>4. requests = [i \in 1..Held |-> Entry((counter - Held) + i)]
    BY <1>1
  <2>5. requests \in [1..Held -> S]
    BY <2>2, <2>4, Zenon
  <2>6. Held \in Nat
    BY <1>1, <1>12
  <2>. QED  BY <2>3, <2>5, <2>6, IsASeq DEF S
<1>14. requests' = [i \in 1..Held' |-> Entry((counter' - Held') + i)]
  <2>1. requests' = Append(kept(requests), e)
    BY <1>2, <1>11
  <2>. HIDE DEF e, S
  <2>2. CASE limit > 0 /\ Held = limit
    <3>1. kept(requests) = Tail(requests) /\ requests # <<>> /\ Held' = Held /\ Held > 0
      BY <1>12, <1>13, <2>2, Limits DEF kept
    <3>2. requests' = [i \in 1..Held |-> IF i = Held THEN e ELSE requests[i + 1]]
      BY <1>13, <2>1, <3>1, Slid
    <3>3. \A i \in 1..Held : requests'[i] = Entry((counter' - Held') + i)
      <4>1. e = Entry((counter' - Held') + Held)
        BY <1>1, <1>2, <1>12, <3>1 DEF e
      <4>2. \A i \in 1..Held : i # Held =>
              i + 1 \in 1..Held /\ (counter - Held) + (i + 1) = (counter' - Held') + i
        BY <1>1, <1>2, <1>12, <3>1
      <4>. QED  BY <1>1, <3>2, <4>1, <4>2
    <3>. QED  BY <3>1, <3>2, <3>3
  <2>3. CASE ~(limit > 0 /\ Held = limit)
    <3>1. kept(requests) = requests /\ Held' = Held + 1
      BY <1>12, <1>13, <2>3 DEF kept
    <3>2. requests' = [i \in 1..(Held + 1) |-> IF i = Held + 1 THEN e ELSE requests[i]]
      BY <1>13, <2>1, <3>1, Appended
    <3>3. \A i \in 1..(Held + 1) : requests'[i] = Entry((counter' - Held') + i)
      <4>1. e = Entry((counter' - Held') + (Held + 1))
        BY <1>1, <1>2, <1>12, <3>1 DEF e
      <4>2. \A i \in 1..(Held + 1) : i # Held + 1 =>
              i \in 1..Held /\ (counter - Held) + i = (counter' - Held') + i
        BY <1>1, <1>2, <1>12, <3>1
      <4>. QED  BY <1>1, <3>2, <4>1, <4>2
    <3>. QED  BY <3>1, <3>2, <3>3
  <2>. QED  BY <2>2, <2>3
<1>15. Listed'
  <2>1. requests' = [i \in 1..Held' |-> Entry((counter - Held) + i)']
    <3>1. \A i : Entry((counter - Held) + i)' = Entry((counter' - Held') + i)
      BY <1>2 DEF Entry, stored
    <3>. QED  BY <1>14, <3>1
  <2>. QED  BY <1>2, <1>9, <2>1 DEF Listed
<1>16. Answers'
  BY <1>1, <1>2, <1>3, AnswersKept DEF Recorded
<1>. QED  BY <1>5, <1>15, <1>16 DEF Recorded

\* Nothing but the askers changes.
LEMMA AskersOnly ==
  ASSUME Recorded, UNCHANGED <<record, requests, appears, counter, sent>>, beating' \in BOOLEAN
  PROVE  /\ Channel' /\ Listed' /\ Answer' = Answer
         /\ \A id, n : AnswerFor(id, n)' = AnswerFor(id', n')
<1>1. \A k : Entry(k)' = Entry(k')
  BY DEF Entry, stored
<1>2. Channel'
  BY DEF Recorded, Channel
<1>3. Listed'
  <2>1. Held' = Held /\ \A p : Through(p, counter)' = Through(p, counter)
    BY DEF Held, Through
  <2>2. [i \in 1..Held' |-> Entry((counter - Held) + i)'] =
          [i \in 1..Held |-> Entry((counter - Held) + i)]
    BY <2>1 DEF Entry, stored
  <2>. QED  BY <2>1, <2>2 DEF Recorded, Listed
<1>4. Answer' = Answer
  BY DEF Answer, Entry, stored, NoRequest
<1>5. \A id, n : AnswerFor(id, n)' = AnswerFor(id', n')
  BY <1>1 DEF AnswerFor, NoRequest
<1>. QED  BY <1>2, <1>3, <1>4, <1>5

\* main looks for a number in the list: it is there at most once, and at its
\* place.
LEMMA Found ==
  ASSUME Channel, Listed, NEW id \in Nat
  PROVE  (IF having(id) = {} THEN NoRequest ELSE requests[Min(having(id))]) = AnswerFor(id, counter)
<1>1. /\ counter \in Nat /\ limit \in Nat /\ Held \in 0..counter
      /\ limit > 0 => Held <= limit
  BY Limits, HeldType DEF Channel
<1>2. requests = [i \in 1..Held |-> Entry((counter - Held) + i)]
  BY DEF Listed
<1>3. \A k : Entry(k).ID = k
  BY DEF Entry, stored
<1>4. having(id) = {i \in 1..Held : (counter - Held) + i = id}
  BY <1>2, <1>3 DEF having
<1>5. AnswerFor(id, counter) = IF id > counter - Held /\ id <= counter THEN Entry(id) ELSE NoRequest
  BY <1>1 DEF AnswerFor, Held
<1>6. CASE id > counter - Held /\ id <= counter
  <2>. DEFINE i == id - (counter - Held)
  <2>1. i \in 1..Held /\ (counter - Held) + i = id
    BY <1>1, <1>6
  <2>2. having(id) = {i}
    BY <1>1, <1>4, <2>1
  <2>. HIDE DEF i
  <2>3. Min({i}) = i
    <3>1. i \in {i} /\ \A y \in {i} : i <= y
      BY <1>1, <2>1
    <3>. QED  BY <3>1 DEF Min
  <2>4. requests[i] = Entry(id)
    BY <1>2, <2>1
  <2>. QED  BY <1>5, <1>6, <2>2, <2>3, <2>4
<1>7. CASE ~(id > counter - Held /\ id <= counter)
  <2>1. having(id) = {}
    BY <1>1, <1>4, <1>7
  <2>. QED  BY <1>5, <1>7, <2>1
<1>. QED  BY <1>6, <1>7

LEMMA RecordedGet ==
  ASSUME Recorded, NEW a \in Askers, mainGet(a)
  PROVE  Recorded'
<1>1. /\ UNCHANGED <<record, requests, appears, counter, beating, sent>>
      /\ asker[a].pc = "asking"
  BY DEF mainGet
<1>2. asker \in [Askers -> Answer] /\ beating \in BOOLEAN /\ counter \in Nat
  BY DEF Recorded, Answers, Listed, Channel
<1>. DEFINE found == AnswerFor(asker[a].id, counter)
<1>3. asker[a].id \in 0..MaxRecords /\ asker[a].id \in Nat
  BY <1>2, Limits DEF Answer
<1>4. found = IF having(asker[a].id) = {} THEN NoRequest ELSE requests[Min(having(asker[a].id))]
  BY <1>3, Found DEF Recorded
<1>5. asker' = [asker EXCEPT ![a].pc = "answered", ![a].found = found, ![a].upto = counter]
  BY <1>4 DEF mainGet, replied
<1>6. found \in {NoRequest} \cup {Entry(k) : k \in 1..counter}
  BY DEF AnswerFor
<1>. HIDE DEF found
<1>7. asker' \in [Askers -> Answer]
  <2>. DEFINE F == {NoRequest} \cup {Entry(k) : k \in 1..counter}
  <2>1. Answer = [pc : {"idle", "asking", "answered"}, id : 0..MaxRecords, found : F,
                  upto : 0..counter]
    BY DEF Answer
  <2>2. found \in F /\ counter \in 0..counter
    BY <1>2, <1>6
  <2>. HIDE DEF F
  <2>3. [asker[a] EXCEPT !.pc = "answered", !.found = found, !.upto = counter] \in Answer
    BY <1>2, <2>1, <2>2
  <2>. QED  BY <1>2, <1>5, <2>3
<1>8. Channel' /\ Listed' /\ Answer' = Answer
  BY <1>1, <1>2, AskersOnly
<1>9. \A b \in Askers \ {a} : asker'[b] = asker[b]
  BY <1>2, <1>5
<1>10. asker'[a].found = found /\ asker'[a].id = asker[a].id /\ asker'[a].upto = counter
  BY <1>2, <1>5 DEF Answer
<1>11. ASSUME NEW b \in Askers, asker'[b].pc = "answered"
       PROVE  asker'[b].found = AnswerFor(asker'[b].id, asker'[b].upto)
  <2>1. CASE b = a
    BY <1>10, <2>1 DEF found
  <2>2. CASE b # a
    BY <1>9, <1>11, <2>2 DEF Recorded, Answers
  <2>. QED  BY <2>1, <2>2
<1>12. \A b \in Askers : AnswerFor(asker[b].id, asker[b].upto)' = AnswerFor(asker'[b].id, asker'[b].upto)
  BY <1>1 DEF AnswerFor, Entry, stored, NoRequest
<1>13. Answers'
  BY <1>7, <1>8, <1>11, <1>12 DEF Answers
<1>. QED  BY <1>8, <1>13 DEF Recorded

\* A dashboard asks, or has its answer, or main's heartbeat is received.
LEMMA RecordedAsk ==
  ASSUME Recorded,
         \/ Heartbeat
         \/ \E a \in Askers : (\E id \in Asked : get(a, id)) \/ gotten(a)
  PROVE  Recorded'
<1>1. /\ UNCHANGED <<record, requests, appears, counter, sent>> /\ beating' \in BOOLEAN
      /\ asker \in [Askers -> Answer] /\ counter \in Nat
  BY DEF Recorded, Answers, Listed, Channel, Heartbeat, get, gotten
<1>2. Channel' /\ Listed' /\ Answer' = Answer
  BY <1>1, AskersOnly
<1>3. \A id \in Asked : [NoAnswer EXCEPT !.pc = "asking", !.id = id] \in Answer
  <2>1. \A id \in Asked : id \in 0..MaxRecords
    BY TrafficAssumption
  <2>. DEFINE F == {NoRequest} \cup {Entry(k) : k \in 1..counter}
  <2>2. Answer = [pc : {"idle", "asking", "answered"}, id : 0..MaxRecords, found : F,
                  upto : 0..counter]
    BY DEF Answer
  <2>3. NoRequest \in F /\ 0 \in 0..counter
    BY <1>1
  <2>. HIDE DEF F
  <2>4. NoAnswer \in Answer
    BY <2>2, <2>3, Limits DEF NoAnswer
  <2>. QED  BY <2>1, <2>2, <2>4
<1>4. NoAnswer \in Answer
  BY <1>1, Limits DEF NoAnswer, Answer
<1>5. /\ asker' \in [Askers -> Answer]
      /\ \A b \in Askers : asker'[b].pc = "answered" => asker'[b] = asker[b]
  <2>1. CASE Heartbeat
    BY <1>1, <2>1 DEF Heartbeat
  <2>2. ASSUME NEW a \in Askers, NEW id \in Asked, get(a, id)
        PROVE  /\ asker' \in [Askers -> Answer]
               /\ \A b \in Askers : asker'[b].pc = "answered" => asker'[b] = asker[b]
    BY <1>1, <1>3, <2>2 DEF get, NoAnswer
  <2>3. ASSUME NEW a \in Askers, gotten(a)
        PROVE  /\ asker' \in [Askers -> Answer]
               /\ \A b \in Askers : asker'[b].pc = "answered" => asker'[b] = asker[b]
    BY <1>1, <1>4, <2>3 DEF gotten, NoAnswer
  <2>. QED  BY <2>1, <2>2, <2>3
<1>6. \A b \in Askers : AnswerFor(asker[b].id, asker[b].upto)' = AnswerFor(asker'[b].id, asker'[b].upto)
  BY <1>1 DEF AnswerFor, Entry, stored, NoRequest
<1>7. Answers'
  BY <1>2, <1>5, <1>6 DEF Recorded, Answers
<1>. QED  BY <1>2, <1>7 DEF Recorded
----------------------------------------------------------------------------
(* The numbers that the server and the pool give out. *)

LEMMA AcceptedIs ==
  ASSUME NEW T
  PROVE  Accepted(T) = Cardinality(Waiting(T)) /\ IsFiniteSet(Waiting(T)) /\ Accepted(T) \in Nat
<1>1. Waiting(T) \in SUBSET Conns
  BY DEF Waiting
<1>2. IsFiniteSet(Waiting(T))
  BY <1>1, FS_Subset, ServeAssumption
<1>. QED  BY <1>2, FS_CardinalityType DEF Accepted, Waiting

\* A step of one connection changes at most whether that one waits.
LEMMA AcceptedStep ==
  ASSUME NEW T, NEW c \in Conns, \A d \in Conns \ {c} : conn'[d] = conn[d]
  PROVE  Accepted(T)' = (Accepted(T) - (IF c \in Waiting(T) THEN 1 ELSE 0))
                        + (IF c \in Waiting(T)' THEN 1 ELSE 0)
<1>. DEFINE W == Waiting(T)
            V == Waiting(T)'
<1>1. V = IF c \in V THEN (W \ {c}) \cup {c} ELSE W \ {c}
  BY DEF Waiting, At
<1>2. IsFiniteSet(W) /\ Accepted(T) = Cardinality(W)
  BY AcceptedIs
<1>3. Accepted(T)' = Cardinality(V)
  BY DEF Accepted, Waiting
<1>. HIDE DEF W, V
<1>4. /\ IsFiniteSet(W \ {c})
      /\ Cardinality(W \ {c}) = Cardinality(W) - (IF c \in W THEN 1 ELSE 0)
      /\ Cardinality(W) \in Nat
  BY <1>2, FS_RemoveElement, FS_CardinalityType
<1>5. Cardinality((W \ {c}) \cup {c}) = Cardinality(W \ {c}) + 1
  BY <1>4, FS_AddElement
<1>6. Cardinality(V) = Cardinality(W \ {c}) + (IF c \in V THEN 1 ELSE 0)
  <2>1. CASE c \in V
    BY <1>1, <1>5, <2>1
  <2>2. CASE c \notin V
    <3>1. V = W \ {c} /\ Cardinality(W \ {c}) \in Nat
      BY <1>1, <1>4, <2>2, FS_CardinalityType
    <3>. QED  BY <2>2, <3>1
  <2>. QED  BY <2>1, <2>2
<1>7. Cardinality(V) = (Cardinality(W) - (IF c \in W THEN 1 ELSE 0)) + (IF c \in V THEN 1 ELSE 0)
  BY <1>4, <1>6
<1>. QED  BY <1>2, <1>3, <1>7 DEF W, V

LEMMA AcceptedKept ==
  ASSUME NEW T, NEW c \in Conns, \A d \in Conns \ {c} : conn'[d] = conn[d],
         c \in Waiting(T)' <=> c \in Waiting(T)
  PROVE  Accepted(T)' = Accepted(T)
<1>1. Accepted(T)' = (Accepted(T) - (IF c \in Waiting(T) THEN 1 ELSE 0))
                        + (IF c \in Waiting(T)' THEN 1 ELSE 0)
  BY AcceptedStep
<1>. QED  BY <1>1, AcceptedIs

LEMMA RoomsInit == Init => Rooms
<1>. SUFFICES ASSUME Init PROVE Rooms
  OBVIOUS
<1>1. conn = [c \in Conns |-> Fresh] /\ sessions = 0 /\ serial = 0
  BY DEF Init, ServeInit
<1>2. conn \in [Conns -> Conn]
  BY <1>1, Limits DEF Fresh, Conn, PCs, Statuses
<1>3. \A T : Waiting(T) = {}
  BY <1>1 DEF Waiting, At, Fresh
<1>4. \A T : Accepted(T) = 0
  BY <1>3, AcceptedIs, FS_EmptySet
<1>. QED  BY <1>1, <1>2, <1>4, Limits DEF Rooms

\* The steps that give out no number and leave who waits as it is.
LEMMA RoomsKept ==
  ASSUME Rooms, NEW c \in Conns, UNCHANGED <<sessions, serial>>, NEW r \in Conn,
         conn' = [conn EXCEPT ![c] = r],
         \/ conn[c].pc # "accepted" /\ r.pc # "accepted"
         \/ conn[c].pc = r.pc /\ conn[c].tunnel = r.tunnel
  PROVE  Rooms'
<1>1. conn' \in [Conns -> Conn] /\ conn'[c] = r /\ \A d \in Conns \ {c} : conn'[d] = conn[d]
  BY DEF Rooms
<1>2. \A T : c \in Waiting(T)' <=> c \in Waiting(T)
  BY <1>1 DEF Waiting, At
<1>3. Accepted(BOOLEAN)' = Accepted(BOOLEAN) /\ Accepted({FALSE})' = Accepted({FALSE})
  BY <1>1, <1>2, AcceptedKept
<1>. QED  BY <1>1, <1>3 DEF Rooms

LEMMA RoomsServe ==
  ASSUME Rooms, NEW c \in Conns, client(c) \/ server(c)
  PROVE  Rooms'
<1>. USE DEF PCs, Statuses
<1>a. conn \in [Conns -> Conn] /\ sessions \in Nat /\ serial \in Nat
  BY DEF Rooms
<1>b. \A T : Accepted(T) \in Nat
  BY AcceptedIs
<1>1. ASSUME NEW t \in BOOLEAN, send(c, t) PROVE Rooms'
  <2>1. Fresh \in Conn
    BY Limits DEF Fresh, Conn
  <2>2. [Fresh EXCEPT !.pc = "accepted", !.tunnel = t] \in Conn
    BY <2>1 DEF Conn
  <2>3. /\ conn' = [conn EXCEPT ![c] = [Fresh EXCEPT !.pc = "accepted", !.tunnel = t]]
        /\ conn[c].pc # "accepted" /\ UNCHANGED <<sessions, serial>>
        /\ SessionsBound /\ (t \/ SerialBound)
    BY <1>1 DEF send
  <2>4. /\ conn' \in [Conns -> Conn] /\ \A d \in Conns \ {c} : conn'[d] = conn[d]
        /\ conn'[c].pc = "accepted" /\ conn'[c].tunnel = t
    BY <1>a, <2>1, <2>2, <2>3 DEF Conn
  <2>5. \A T : c \notin Waiting(T) /\ (c \in Waiting(T)' <=> t \in T)
    BY <2>3, <2>4 DEF Waiting, At
  <2>6. Accepted(BOOLEAN)' = Accepted(BOOLEAN) + 1
    BY <1>b, <2>4, <2>5, AcceptedStep
  <2>7. Accepted({FALSE})' = Accepted({FALSE}) + (IF t THEN 0 ELSE 1)
    <3>1. t \in {FALSE} <=> ~t
      BY Zenon
    <3>2. c \notin Waiting({FALSE}) /\ (c \in Waiting({FALSE})' <=> ~t)
      BY <2>5, <3>1, Zenon
    <3>3. Accepted({FALSE})' = (Accepted({FALSE}) - (IF c \in Waiting({FALSE}) THEN 1 ELSE 0))
                               + (IF c \in Waiting({FALSE})' THEN 1 ELSE 0)
      BY <2>4, AcceptedStep
    <3>. QED  BY <1>b, <3>2, <3>3
  <2>. QED  BY <1>a, <1>b, <2>3, <2>4, <2>6, <2>7, Limits DEF Rooms, SessionsBound, SerialBound
<1>2. CASE disconnect(c)
  <2>1. [conn[c] EXCEPT !.gone = TRUE] \in Conn
    BY <1>a DEF Conn
  <2>. QED  BY <1>2, <1>a, <2>1, RoomsKept DEF disconnect, Conn
<1>3. CASE readRequest(c)
  <2>. DEFINE r == [conn[c] EXCEPT !.pc = "attempt", !.serial = serial + 1, !.attempt = 1,
                                   !.hop = 0, !.status = "none"]
  <2>1. conn' = [conn EXCEPT ![c] = r] /\ serial' = serial + 1 /\ UNCHANGED sessions
    BY <1>3 DEF readRequest, forward
  <2>2. serial + 1 + Accepted({FALSE}) <= MaxRequests
    BY <1>3, <1>a, <1>b, Limits DEF readRequest, SerialBound
  <2>3. serial + 1 \in 0..MaxRequests
    BY <1>a, <1>b, <2>2, Limits
  <2>4. r \in Conn /\ r.pc = "attempt"
    BY <1>a, <2>3 DEF Conn
  <2>. HIDE DEF r
  <2>5. /\ conn' \in [Conns -> Conn] /\ \A d \in Conns \ {c} : conn'[d] = conn[d]
        /\ conn'[c] = r /\ conn[c].pc = "read"
    BY <1>3, <1>a, <2>1, <2>4 DEF readRequest, At
  <2>6. \A T : c \notin Waiting(T) /\ c \notin Waiting(T)'
    BY <2>4, <2>5 DEF Waiting, At
  <2>7. Accepted(BOOLEAN)' = Accepted(BOOLEAN) /\ Accepted({FALSE})' = Accepted({FALSE})
    BY <2>5, <2>6, AcceptedKept
  <2>. QED  BY <1>a, <1>b, <2>1, <2>2, <2>5, <2>7 DEF Rooms
<1>4. CASE ServeHTTP(c)
  <2>1. conn[c].pc = "accepted" /\ sessions' = sessions + 1
    BY <1>4 DEF ServeHTTP, At, counterSends
  <2>2. conn[c].tunnel \in BOOLEAN
    BY <1>a DEF Conn
  <2>3. \A T : c \in Waiting(T) <=> conn[c].tunnel \in T
    BY <2>1 DEF Waiting, At
  <2>4. serial + (IF conn[c].tunnel THEN 0 ELSE 1) \in 0..MaxRequests
    <3>1. CASE conn[c].tunnel
      BY <1>a, <1>b, <3>1, Limits DEF Rooms
    <3>2. CASE ~conn[c].tunnel
      <4>1. c \in Waiting({FALSE})
        BY <2>2, <2>3, <3>2
      <4>2. Accepted({FALSE}) # 0
        BY <4>1, AcceptedIs, FS_EmptySet
      <4>. QED  BY <1>a, <1>b, <3>2, <4>2, Limits DEF Rooms
    <3>. QED  BY <3>1, <3>2
  <2>5. /\ conn' \in [Conns -> Conn] /\ \A d \in Conns \ {c} : conn'[d] = conn[d]
        /\ conn'[c].pc # "accepted"
        /\ serial' = serial + (IF conn[c].tunnel THEN 0 ELSE 1)
    <3>1. CASE conn[c].tunnel
      <4>1. conn' = [conn EXCEPT ![c].pc = "connect"] /\ serial' = serial
        BY <1>4, <3>1 DEF ServeHTTP, Go
      <4>2. [conn[c] EXCEPT !.pc = "connect"] \in Conn
        BY <1>a DEF Conn
      <4>. QED  BY <1>a, <3>1, <4>1, <4>2 DEF Conn
    <3>2. CASE ~conn[c].tunnel
      <4>. DEFINE r == [conn[c] EXCEPT !.pc = "attempt", !.serial = serial + 1, !.attempt = 1,
                                       !.hop = 0, !.status = "none"]
      <4>1. conn' = [conn EXCEPT ![c] = r] /\ serial' = serial + 1
        BY <1>4, <3>2 DEF ServeHTTP, forward
      <4>2. r \in Conn /\ r.pc = "attempt"
        BY <1>a, <2>4, <3>2 DEF Conn
      <4>. HIDE DEF r
      <4>. QED  BY <1>a, <3>2, <4>1, <4>2
    <3>. QED  BY <3>1, <3>2
  <2>6. \A T : c \notin Waiting(T)'
    BY <2>5 DEF Waiting, At
  <2>7. Accepted(BOOLEAN)' = Accepted(BOOLEAN) - 1
    BY <1>b, <2>2, <2>3, <2>5, <2>6, AcceptedStep
  <2>8. Accepted({FALSE})' = Accepted({FALSE}) - (IF conn[c].tunnel THEN 0 ELSE 1)
    <3>a. conn[c].tunnel \in {FALSE} <=> ~conn[c].tunnel
      BY <2>2, Zenon
    <3>1. c \in Waiting({FALSE}) <=> ~conn[c].tunnel
      BY <2>3, <3>a, Zenon
    <3>2. Accepted({FALSE})' = (Accepted({FALSE}) - (IF c \in Waiting({FALSE}) THEN 1 ELSE 0))
                               + (IF c \in Waiting({FALSE})' THEN 1 ELSE 0)
      BY <2>5, AcceptedStep
    <3>. QED  BY <1>b, <2>6, <3>1, <3>2
  <2>. QED  BY <1>a, <1>b, <2>1, <2>5, <2>7, <2>8, Limits DEF Rooms
<1>5. ASSUME NEW pc \in PCs, pc # "accepted", conn[c].pc # "accepted", Go(c, pc),
             UNCHANGED <<sessions, serial>>
      PROVE  Rooms'
  <2>1. [conn[c] EXCEPT !.pc = pc] \in Conn /\ [conn[c] EXCEPT !.pc = pc].pc = pc
    BY <1>a DEF Conn
  <2>. QED  BY <1>5, <1>a, <2>1, RoomsKept DEF Go
<1>6. CASE handleConnect(c) \/ handleHandshake(c) \/ readError(c)
  BY <1>5, <1>6 DEF handleConnect, handleHandshake, readError, At
<1>7. CASE writeResponse(c)
  <2>1. answered(c) \in PCs /\ answered(c) # "accepted"
    BY DEF answered
  <2>. QED  BY <1>5, <1>7, <2>1 DEF writeResponse, At
<1>8. CASE send(c, c \in Tunnels)
  <2>1. ASSUME c \in Tunnels PROVE send(c, TRUE)
    <3>1. (c \in Tunnels) = TRUE
      BY <2>1, Zenon
    <3>. QED  BY <1>8, <3>1, Zenon
  <2>2. ASSUME c \notin Tunnels PROVE send(c, FALSE)
    <3>1. (c \in Tunnels) = FALSE
      BY <2>2, SMT
    <3>. QED  BY <1>8, <3>1, Zenon
  <2>. QED  BY <1>1, <2>1, <2>2
<1>. QED  BY <1>2, <1>3, <1>4, <1>6, <1>7, <1>8 DEF client, server, serving

LEMMA RoomsAttempt ==
  ASSUME Rooms, NEW c \in Conns, attempting(c)
  PROVE  Rooms'
<1>. USE DEF PCs, Statuses
<1>a. conn \in [Conns -> Conn] /\ conn[c] \in Conn
  BY DEF Rooms
<1>1. ASSUME UNCHANGED <<sessions, serial>>, conn[c].pc # "accepted",
             NEW n \in Conn, n.pc # "accepted", conn' = [conn EXCEPT ![c] = n]
      PROVE  Rooms'
  BY <1>1, RoomsKept
<1>2. UNCHANGED <<sessions, serial>> /\ conn[c].pc # "accepted"
  BY DEF attempting, asked, cancelled, exhausted, abandoned, RoundTrip, followed, returned, At
<1>3. ASSUME NEW pc \in PCs, pc # "accepted", Go(c, pc) PROVE Rooms'
  <2>1. [conn[c] EXCEPT !.pc = pc] \in Conn /\ [conn[c] EXCEPT !.pc = pc].pc = pc
    BY <1>a DEF Conn
  <2>. QED  BY <1>1, <1>2, <1>3, <2>1 DEF Go
<1>4. CASE asked(c) \/ abandoned(c) \/ \E p, st : RoundTrip(c, p, st)
  BY <1>3, <1>4 DEF asked, abandoned, RoundTrip
<1>5. CASE cancelled(c)
  <2>. DEFINE n == [conn[c] EXCEPT !.pc = "answer", !.status = "error"]
  <2>1. n \in Conn /\ n.pc = "answer" /\ conn' = [conn EXCEPT ![c] = n]
    BY <1>a, <1>5 DEF cancelled, Conn
  <2>. HIDE DEF n
  <2>. QED  BY <1>1, <1>2, <2>1
<1>6. again(conn[c]) \in Conn /\ again(conn[c]).pc = "attempt"
  <2>1. conn[c].attempt + 1 \in Nat /\ 0 \in Nat
    BY <1>a DEF Conn
  <2>. DEFINE m == [conn[c] EXCEPT !.pc = "attempt"]
              n == [m EXCEPT !.attempt = conn[c].attempt + 1]
  <2>2. m \in Conn /\ m.attempt = conn[c].attempt /\ m.pc = "attempt"
    BY <1>a DEF Conn
  <2>3. n \in Conn /\ n.pc = "attempt"
    BY <2>1, <2>2 DEF Conn
  <2>4. [n EXCEPT !.hop = 0] \in Conn /\ [n EXCEPT !.hop = 0].pc = "attempt"
    BY <2>3 DEF Conn
  <2>. QED  BY <2>4 DEF again
<1>7. \A st \in Statuses : ends(conn[c], st) \in Conn /\ ends(conn[c], st).pc = "answer"
  BY <1>a DEF ends, Conn
<1>8. CASE exhausted(c) \/ returned(c)
  <2>1. PICK n : /\ conn' = [conn EXCEPT ![c] = n]
                 /\ n = again(conn[c]) \/ \E st \in Statuses : n = ends(conn[c], st)
    BY <1>8 DEF exhausted, returned
  <2>. QED  BY <1>1, <1>2, <1>6, <1>7, <2>1
<1>9. CASE followed(c)
  <2>. DEFINE n == [conn[c] EXCEPT !.pc = "redirected", !.hop = @ + 1]
  <2>1. n \in Conn /\ n.pc = "redirected" /\ conn' = [conn EXCEPT ![c] = n]
    BY <1>a, <1>9 DEF followed, Conn
  <2>. HIDE DEF n
  <2>. QED  BY <1>1, <1>2, <2>1
<1>. QED  BY <1>4, <1>5, <1>8, <1>9 DEF attempting
----------------------------------------------------------------------------
(* The attempts of a request. *)

LEMMA AttemptsInit == Init => Attempts
<1>. SUFFICES ASSUME Init PROVE Attempts
  OBVIOUS
<1>1. sent = <<>> /\ serial = 0 /\ conn = [c \in Conns |-> Fresh]
      /\ made = [c \in Conns |-> NotMade]
  BY DEF Init, HistoryInit, ServeInit
<1>2. \A c \in Conns : conn[c] = Fresh /\ made[c] = NotMade
  BY <1>1
<1>3. Fresh.serial = 0 /\ Fresh.status = "none" /\ Fresh.pc = "idle" /\ Fresh.hop = 0
  BY DEF Fresh
<1>4. DOMAIN sent = {} /\ sent \in Seq(Fields) /\ made = [d \in Conns |-> made[d]]
  BY <1>1
<1>. QED  BY <1>1, <1>2, <1>3, <1>4, Limits DEF Attempts, MadeBy, UnderWay

LEMMA AttemptsSame ==
  ASSUME Attempts, UNCHANGED <<sent, conn, serial, made>>
  PROVE  Attempts'
<1>1. \A c \in Conns : AttemptsOf(c)' = AttemptsOf(c) /\ MadeBy(c)' = MadeBy(c)
  BY DEF AttemptsOf, Trying, Ended, tried, Mine, MadeBy, Made, NotMade, InOrder
<1>. QED  BY <1>1 DEF Attempts, InOrder

LEMMA OtherAttempts ==
  ASSUME UNCHANGED sent, NEW d, conn'[d] = conn[d], made'[d] = made[d]
  PROVE  (AttemptsOf(d)' <=> AttemptsOf(d)) /\ (MadeBy(d)' <=> MadeBy(d))
<1>1. Mine(conn[d].serial)' = Mine(conn[d].serial) /\ tried(d)' = tried(d)
  BY DEF Mine, tried
<1>2. Trying(d)' <=> Trying(d)
  BY <1>1 DEF Trying, InOrder
<1>3. Ended(d)' <=> Ended(d)
  BY <1>1 DEF Ended
<1>4. MadeBy(d)' <=> MadeBy(d)
  BY DEF MadeBy, Made, NotMade
<1>. QED  BY <1>2, <1>3, <1>4 DEF AttemptsOf

\* A step of c that does not send anything and keeps the number of its request.
LEMMA AttemptsKept ==
  ASSUME Attempts, NEW c \in Conns, UNCHANGED <<sent, serial>>,
         \A d \in Conns \ {c} : conn'[d] = conn[d] /\ made'[d] = made[d],
         made' = [d \in Conns |-> made'[d]],
         conn'[c].serial = conn[c].serial,
         conn[c].serial > 0 => AttemptsOf(c)',
         conn'[c].status # "none" => conn[c].serial > 0,
         conn'[c].pc \in UnderWay => conn[c].serial > 0 /\ conn'[c].status = "none",
         conn'[c].hop \in 0..MaxRedirects,
         conn'[c].pc \in {"attempt", "request"} => conn'[c].hop = 0,
         MadeBy(c)'
  PROVE  Attempts'
<1>1. \A d \in Conns \ {c} : (AttemptsOf(d)' <=> AttemptsOf(d)) /\ (MadeBy(d)' <=> MadeBy(d))
  BY OtherAttempts
<1>2. ASSUME NEW d \in Conns
      PROVE  /\ conn'[d].serial <= serial'
             /\ conn'[d].serial > 0 => AttemptsOf(d)'
             /\ conn'[d].status # "none" => conn'[d].serial > 0
             /\ conn'[d].pc \in UnderWay => conn'[d].serial > 0 /\ conn'[d].status = "none"
             /\ conn'[d].hop \in 0..MaxRedirects
             /\ conn'[d].pc \in {"attempt", "request"} => conn'[d].hop = 0
             /\ MadeBy(d)'
  <2>1. CASE d = c
    BY <2>1 DEF Attempts
  <2>2. CASE d # c
    BY <1>1, <2>2 DEF Attempts
  <2>. QED  BY <2>1, <2>2
<1>3. \A d, e \in Conns : d # e /\ conn'[d].serial = conn'[e].serial => conn'[d].serial = 0
  BY DEF Attempts
<1>4. /\ \A k \in DOMAIN sent' : /\ sent'[k].serial \in 1..serial'
                                /\ sent'[k].attempt \in 1..MaxAttempt
                                /\ sent'[k].hop \in 0..MaxRedirects
      /\ \A j, k \in DOMAIN sent' :
           j < k /\ sent'[j].serial = sent'[k].serial => InOrder(sent'[j], sent'[k])
      /\ \A k \in DOMAIN sent' : sent'[k].hop > 0 =>
           \E j \in DOMAIN sent' : /\ sent'[j].serial = sent'[k].serial
                                   /\ sent'[j].attempt = sent'[k].attempt
                                   /\ sent'[j].hop = sent'[k].hop - 1
  BY DEF Attempts
<1>. QED  BY <1>2, <1>3, <1>4 DEF Attempts, UnderWay, InOrder

\* The same, when the attempt and what became of the request stay too.
LEMMA SameAttempt ==
  ASSUME Attempts, NEW c \in Conns, UNCHANGED <<sent, serial, made>>,
         \A d \in Conns \ {c} : conn'[d] = conn[d],
         conn'[c].serial = conn[c].serial, conn'[c].attempt = conn[c].attempt,
         conn'[c].hop = conn[c].hop, conn'[c].status = conn[c].status,
         \/ conn'[c].pc = conn[c].pc
         \/ conn[c].pc \notin {"record", "redirected"} /\ conn'[c].pc \notin UnderWay
         \/ conn[c].pc = "attempt" /\ conn'[c].pc = "request"
  PROVE  Attempts'
<1>1. AttemptsOf(c) => AttemptsOf(c)'
  BY DEF AttemptsOf, Trying, Ended, tried, Mine, InOrder
<1>2. MadeBy(c)'
  BY DEF Attempts, MadeBy, Made, NotMade, UnderWay
<1>3. made' = [d \in Conns |-> made'[d]]
  BY DEF Attempts
<1>. QED  BY <1>1, <1>2, <1>3, AttemptsKept DEF Attempts, UnderWay

\* A step of c that gives it a new request, or none.
LEMMA AttemptsNew ==
  ASSUME Attempts, Rooms, NEW c \in Conns, UNCHANGED <<sent, made>>,
         \A d \in Conns \ {c} : conn'[d] = conn[d],
         conn[c].pc \notin {"record", "redirected"}, conn'[c].status = "none", conn'[c].hop = 0,
         \/ conn'[c].serial = 0 /\ conn'[c].pc = "accepted" /\ serial' = serial
         \/ /\ conn'[c].serial = serial + 1 /\ serial' = serial + 1
            /\ conn'[c].attempt = 1 /\ conn'[c].pc = "attempt"
  PROVE  Attempts'
<1>1. \A d \in Conns \ {c} : (AttemptsOf(d)' <=> AttemptsOf(d)) /\ (MadeBy(d)' <=> MadeBy(d))
  BY OtherAttempts
<1>2. /\ serial \in Nat /\ serial' \in Nat /\ serial' >= serial
      /\ \A d \in Conns : conn[d].serial \in Nat /\ conn[d].serial <= serial
  BY DEF Rooms, Conn, Attempts
<1>3. conn'[c].serial > 0 => AttemptsOf(c)'
  <2>. SUFFICES ASSUME conn'[c].serial > 0 PROVE AttemptsOf(c)'
    OBVIOUS
  <2>1. conn'[c].serial = serial + 1 /\ conn'[c].attempt = 1
    OBVIOUS
  <2>2. \A k \in DOMAIN sent : sent[k].serial \in 1..serial
    BY DEF Attempts
  <2>3. {k \in DOMAIN sent' : sent'[k].serial = conn'[c].serial} = {}
    BY <1>2, <2>1, <2>2
  <2>4. Shards..(conn'[c].attempt - 1) = {} /\ 1 \in 1..MaxAttempt
    BY <2>1, Limits
  <2>5. Trying(c)'
    BY <2>1, <2>3, <2>4 DEF Trying, Mine, tried
  <2>. QED  BY <2>5 DEF AttemptsOf
<1>4. MadeBy(c)'
  BY DEF Attempts, MadeBy, NotMade
<1>5. \A d \in Conns \ {c} : conn'[c].serial = conn'[d].serial => conn'[c].serial = 0
  BY <1>2
<1>6. /\ \A k \in DOMAIN sent' : /\ sent'[k].serial \in 1..serial'
                                /\ sent'[k].attempt \in 1..MaxAttempt
                                /\ sent'[k].hop \in 0..MaxRedirects
      /\ \A j, k \in DOMAIN sent' :
           j < k /\ sent'[j].serial = sent'[k].serial => InOrder(sent'[j], sent'[k])
      /\ \A k \in DOMAIN sent' : sent'[k].hop > 0 =>
           \E j \in DOMAIN sent' : /\ sent'[j].serial = sent'[k].serial
                                   /\ sent'[j].attempt = sent'[k].attempt
                                   /\ sent'[j].hop = sent'[k].hop - 1
  BY <1>2 DEF Attempts
<1>7. ASSUME NEW d \in Conns
      PROVE  /\ conn'[d].serial <= serial'
             /\ conn'[d].serial > 0 => AttemptsOf(d)'
             /\ conn'[d].status # "none" => conn'[d].serial > 0
             /\ conn'[d].pc \in UnderWay => conn'[d].serial > 0 /\ conn'[d].status = "none"
             /\ conn'[d].hop \in 0..MaxRedirects
             /\ conn'[d].pc \in {"attempt", "request"} => conn'[d].hop = 0
             /\ MadeBy(d)'
  <2>1. CASE d = c
    BY <1>2, <1>3, <1>4, <2>1, Limits DEF UnderWay
  <2>2. CASE d # c
    BY <1>1, <1>2, <2>2 DEF Attempts
  <2>. QED  BY <2>1, <2>2
<1>8. \A d, e \in Conns : d # e /\ conn'[d].serial = conn'[e].serial => conn'[d].serial = 0
  BY <1>5 DEF Attempts
<1>9. sent' \in Seq(Fields) /\ made' = [d \in Conns |-> made'[d]]
  BY DEF Attempts
<1>. QED  BY <1>6, <1>7, <1>8, <1>9 DEF Attempts, UnderWay, InOrder

LEMMA AttemptsServe ==
  ASSUME Attempts, Rooms, NEW c \in Conns, client(c) \/ server(c), UNCHANGED <<sent, made>>
  PROVE  Attempts'
<1>a. conn \in [Conns -> Conn]
  BY DEF Rooms
<1>1. ASSUME NEW t, send(c, t) PROVE Attempts'
  <2>1. /\ conn' = [conn EXCEPT ![c] = [Fresh EXCEPT !.pc = "accepted", !.tunnel = t]]
        /\ conn[c].pc \notin {"record", "redirected"} /\ serial' = serial
    BY <1>1 DEF send
  <2>2. \A d \in Conns \ {c} : conn'[d] = conn[d]
    BY <1>a, <2>1
  <2>3. /\ conn'[c].serial = 0 /\ conn'[c].status = "none" /\ conn'[c].pc = "accepted"
        /\ conn'[c].hop = 0
    BY <1>a, <2>1 DEF Fresh
  <2>. QED  BY <2>1, <2>2, <2>3, AttemptsNew
<1>2. CASE disconnect(c)
  <2>1. /\ \A d \in Conns \ {c} : conn'[d] = conn[d]
        /\ conn'[c].serial = conn[c].serial /\ conn'[c].attempt = conn[c].attempt
        /\ conn'[c].hop = conn[c].hop
        /\ conn'[c].status = conn[c].status /\ conn'[c].pc = conn[c].pc /\ serial' = serial
    BY <1>2, <1>a DEF disconnect, Conn
  <2>. QED  BY <2>1, SameAttempt
<1>3. ASSUME forward(c), conn[c].pc \in {"accepted", "read"} PROVE Attempts'
  <2>1. /\ \A d \in Conns \ {c} : conn'[d] = conn[d]
        /\ conn'[c].serial = serial + 1 /\ conn'[c].attempt = 1 /\ conn'[c].hop = 0
        /\ conn'[c].status = "none" /\ conn'[c].pc = "attempt" /\ serial' = serial + 1
    BY <1>3, <1>a DEF forward, Conn
  <2>2. conn[c].pc \notin {"record", "redirected"}
    BY <1>3
  <2>. QED  BY <2>1, <2>2, AttemptsNew
<1>4. ASSUME NEW pc, Go(c, pc), pc \notin UnderWay,
             conn[c].pc \notin {"record", "redirected"}, serial' = serial
      PROVE  Attempts'
  <2>1. /\ \A d \in Conns \ {c} : conn'[d] = conn[d]
        /\ conn'[c].serial = conn[c].serial /\ conn'[c].attempt = conn[c].attempt
        /\ conn'[c].hop = conn[c].hop
        /\ conn'[c].status = conn[c].status /\ conn'[c].pc = pc
    BY <1>4, <1>a DEF Go, Conn
  <2>. QED  BY <1>4, <2>1, SameAttempt
<1>5. CASE ServeHTTP(c)
  <2>1. conn[c].pc = "accepted" /\ "connect" \notin UnderWay
    BY <1>5 DEF ServeHTTP, At, UnderWay
  <2>2. forward(c) \/ (Go(c, "connect") /\ serial' = serial)
    BY <1>5 DEF ServeHTTP
  <2>. QED  BY <1>3, <1>4, <2>1, <2>2
<1>6. CASE handleConnect(c) \/ handleHandshake(c) \/ readError(c)
  <2>1. PICK pc \in {"handshake", "idle", "read", "closed"} : Go(c, pc) /\ serial' = serial
    BY <1>6 DEF handleConnect, handleHandshake, readError
  <2>2. conn[c].pc \in {"connect", "handshake", "read"}
    BY <1>6 DEF handleConnect, handleHandshake, readError, At
  <2>. QED  BY <1>4, <2>1, <2>2 DEF UnderWay
<1>7. CASE writeResponse(c)
  <2>1. answered(c) \notin UnderWay
    BY DEF answered, UnderWay
  <2>. QED  BY <1>4, <1>7, <2>1 DEF writeResponse, At
<1>8. CASE readRequest(c)
  BY <1>3, <1>8 DEF readRequest, At
<1>9. CASE send(c, c \in Tunnels)
  BY <1>1, <1>9, Zenon
<1>. QED  BY <1>2, <1>5, <1>6, <1>7, <1>8, <1>9 DEF client, server, serving

\* A step that sends nothing.
LEMMA AttemptsStep ==
  ASSUME Attempts, Rooms, NEW c \in Conns, attempting(c), ~followed(c), ~returned(c)
  PROVE  Attempts'
<1>a. /\ conn \in [Conns -> Conn] /\ conn[c] \in Conn /\ made = [d \in Conns |-> made[d]]
      /\ MadeBy(c)
  BY DEF Rooms, Attempts
<1>b. conn[c].pc \in UnderWay => conn[c].serial > 0 /\ conn[c].status = "none" /\ Trying(c)
  BY DEF Attempts, AttemptsOf
<1>1. CASE asked(c) \/ abandoned(c)
  <2>1. PICK pc : /\ Go(c, pc) /\ conn[c].pc \in {"attempt", "request"}
                  /\ (pc = "request" /\ conn[c].pc = "attempt") \/ pc = "abandoned"
                  /\ UNCHANGED <<sent, serial, made>>
    BY <1>1 DEF asked, abandoned, At, historyVars
  <2>2. /\ \A d \in Conns \ {c} : conn'[d] = conn[d]
        /\ conn'[c].serial = conn[c].serial /\ conn'[c].attempt = conn[c].attempt
        /\ conn'[c].hop = conn[c].hop
        /\ conn'[c].status = conn[c].status /\ conn'[c].pc = pc
    BY <1>a, <2>1 DEF Go, Conn
  <2>. QED  BY <2>1, <2>2, SameAttempt DEF UnderWay
<1>2. ASSUME NEW n, conn' = [conn EXCEPT ![c] = n], UNCHANGED <<sent, serial, made>>,
             conn[c].pc \in {"attempt", "request"}, n.serial = conn[c].serial, n.hop = 0,
             n.pc = "answer" /\ n.status \in {"error", "exhausted"}
      PROVE  Attempts'
  <2>1. conn'[c] = n /\ \A d \in Conns \ {c} : conn'[d] = conn[d]
    BY <1>a, <1>2
  <2>2. AttemptsOf(c)'
    BY <1>2, <2>1 DEF AttemptsOf
  <2>3. MadeBy(c)'
    BY <1>a, <1>2, <2>1 DEF MadeBy, NotMade
  <2>. QED  BY <1>a, <1>b, <1>2, <2>1, <2>2, <2>3, Limits, AttemptsKept DEF UnderWay
<1>3. CASE cancelled(c)
  <2>. DEFINE n == [conn[c] EXCEPT !.pc = "answer", !.status = "error"]
  <2>1. /\ conn' = [conn EXCEPT ![c] = n] /\ UNCHANGED <<sent, serial, made>>
        /\ conn[c].pc = "attempt"
    BY <1>a, <1>3 DEF cancelled, At, historyVars
  <2>2. conn[c].hop = 0
    BY <2>1 DEF Attempts
  <2>3. n.serial = conn[c].serial /\ n.hop = 0 /\ n.pc = "answer" /\ n.status = "error"
    BY <1>a, <2>2 DEF Conn
  <2>. HIDE DEF n
  <2>. QED  BY <1>2, <2>1, <2>3
<1>4. CASE exhausted(c)
  <2>a. /\ conn[c].pc = "request" /\ UNCHANGED <<sent, serial, made>>
        /\ conn' = [conn EXCEPT ![c] = IF conn[c].attempt < Shards THEN again(conn[c])
                                       ELSE ends(conn[c], "exhausted")]
    BY <1>a, <1>4 DEF exhausted, At, historyVars
  <2>1. CASE conn[c].attempt < Shards
    <3>1. conn' = [conn EXCEPT ![c] = again(conn[c])]
      BY <2>a, <2>1
    <3>2. /\ conn'[c].serial = conn[c].serial /\ conn'[c].attempt = conn[c].attempt + 1
          /\ conn'[c].hop = 0 /\ conn'[c].pc = "attempt" /\ conn'[c].status = conn[c].status
          /\ \A d \in Conns \ {c} : conn'[d] = conn[d]
      BY <1>a, <3>1 DEF Conn, again
    <3>3. Trying(c)'
      <4>1. Trying(c) /\ conn[c].attempt \in 1..MaxAttempt
        BY <1>b, <2>a DEF UnderWay, Trying
      <4>2. conn'[c].attempt \in 1..MaxAttempt /\ Shards..(conn'[c].attempt - 1) = {}
        BY <2>1, <3>2, <4>1, Limits
      <4>3. \A k \in Mine(conn[c].serial) :
              sent[k].attempt <= conn[c].attempt /\ sent[k].attempt \in Nat
        BY <4>1, Limits DEF Trying, InOrder, Attempts, Mine
      <4>4. \A k \in Mine(conn[c].serial) : sent[k].attempt < conn'[c].attempt
        BY <3>2, <4>1, <4>3, Limits
      <4>5. Mine(conn[c].serial)' = Mine(conn[c].serial)
        BY <2>a, <3>2 DEF Mine
      <4>. QED  BY <2>a, <3>2, <4>1, <4>2, <4>4, <4>5 DEF Trying, InOrder
    <3>4. MadeBy(c)'
      BY <1>a, <2>a, <3>2 DEF MadeBy, NotMade
    <3>5. AttemptsOf(c)' /\ conn[c].serial > 0 /\ conn'[c].status = "none"
      BY <1>b, <2>a, <3>2, <3>3 DEF AttemptsOf, UnderWay
    <3>. QED  BY <1>a, <2>a, <3>2, <3>4, <3>5, Limits, AttemptsKept
  <2>2. CASE ~(conn[c].attempt < Shards)
    <3>. DEFINE n == ends(conn[c], "exhausted")
    <3>1. n.serial = conn[c].serial /\ n.hop = 0 /\ n.pc = "answer" /\ n.status = "exhausted"
      BY <1>a DEF ends, Conn
    <3>. HIDE DEF n
    <3>2. conn' = [conn EXCEPT ![c] = n]
      BY <2>a, <2>2 DEF n
    <3>. QED  BY <1>2, <2>a, <3>1, <3>2
  <2>. QED  BY <2>1, <2>2
<1>5. ASSUME NEW o \in Offers[c], RoundTrip(c, o[1], o[2]) PROVE Attempts'
  <2>. DEFINE r == [serial |-> conn[c].serial, attempt |-> conn[c].attempt,
                    hop |-> conn[c].hop, proxy |-> o[1], status |-> o[2]]
  <2>1. /\ \A d \in Conns \ {c} : conn'[d] = conn[d] /\ made'[d] = made[d]
        /\ conn'[c].serial = conn[c].serial /\ conn'[c].attempt = conn[c].attempt
        /\ conn'[c].hop = conn[c].hop
        /\ conn'[c].status = conn[c].status /\ conn'[c].pc = "record"
        /\ conn[c].pc = "request" \/ (conn[c].pc = "redirected" /\ o[1] = made[c].proxy)
        /\ UNCHANGED <<sent, serial>> /\ made' = [d \in Conns |-> made'[d]] /\ made'[c] = r
    BY <1>a, <1>5 DEF RoundTrip, Go, At, Conn, historyVars
  <2>2. Trying(c) /\ conn[c].serial > 0 /\ conn[c].status = "none"
    BY <1>b, <2>1 DEF UnderWay
  <2>3. o \in Proxies \X Outcomes /\ o = <<o[1], o[2]>>
    BY TrafficAssumption
  <2>4. r \in Made
    <3>1. conn[c].serial \in 1..MaxRequests /\ conn[c].hop \in 0..MaxRedirects
      BY <1>a, <2>2, Limits DEF Conn, Attempts
    <3>. QED  BY <2>2, <2>3, <3>1 DEF Made, Trying
  <2>5. MadeBy(c)'
    <3>1. r.serial = conn[c].serial /\ r.attempt = conn[c].attempt /\ r.hop = conn[c].hop
          /\ <<r.proxy, r.status>> \in Offers[c]
      BY <1>5, <2>3
    <3>. HIDE DEF r
    <3>. QED  BY <2>1, <2>4, <3>1 DEF MadeBy, Made
  <2>6. Trying(c)'
    <3>1. Mine(conn[c].serial)' = Mine(conn[c].serial) /\ tried(c)' = tried(c)
      BY <2>1 DEF Mine, tried
    <3>2. ASSUME NEW k \in Mine(conn[c].serial)
          PROVE  InOrder(sent[k], [attempt |-> conn[c].attempt, hop |-> conn[c].hop,
                                   proxy |-> made'[c].proxy])
      <4>1. InOrder(sent[k], [attempt |-> conn[c].attempt, hop |-> conn[c].hop,
                              proxy |-> made[c].proxy])
        BY <2>2 DEF Trying
      <4>2. CASE conn[c].pc = "request"
        <5>1. conn[c].hop = 0 /\ sent[k].hop \in 0..MaxRedirects
          BY <4>2 DEF Attempts, Mine
        <5>. QED  BY <4>1, <5>1 DEF InOrder
      <4>3. CASE conn[c].pc = "redirected" /\ o[1] = made[c].proxy
        BY <2>1, <4>1, <4>3
      <4>. QED  BY <2>1, <4>2, <4>3
    <3>. QED  BY <2>1, <2>2, <3>1, <3>2 DEF Trying, InOrder
  <2>7. AttemptsOf(c)'
    BY <2>1, <2>2, <2>6 DEF AttemptsOf
  <2>8. conn'[c].hop \in 0..MaxRedirects
    BY <2>1 DEF Attempts
  <2>. HIDE DEF r
  <2>. QED  BY <2>1, <2>2, <2>5, <2>7, <2>8, AttemptsKept
<1>. QED  BY <1>1, <1>3, <1>4, <1>5 DEF attempting

\* What is sent for c comes after what was sent of its request, and changes what
\* was sent of no other.
LEMMA Sending ==
  ASSUME Attempts, Rooms, NEW c \in Conns, conn[c].pc = "record", Record(made[c]),
         serial' = serial, \A d \in Conns \ {c} : conn'[d] = conn[d] /\ made'[d] = made[d],
         made' = [d \in Conns |-> made'[d]], conn'[c].serial = conn[c].serial,
         AttemptsOf(c)', MadeBy(c)', conn'[c].hop \in 0..MaxRedirects,
         conn'[c].pc \in UnderWay => conn'[c].status = "none",
         conn'[c].pc \in {"attempt", "request"} => conn'[c].hop = 0
  PROVE  Attempts'
<1>. DEFINE r == made[c]
            s == conn[c].serial
            n == Len(sent) + 1
<1>1. /\ r \in Fields /\ r \in Made /\ r.serial = s /\ r.attempt = conn[c].attempt
      /\ r.hop = conn[c].hop /\ Trying(c) /\ s \in 1..serial
  <2>1. r \in Made /\ r.serial = s /\ r.attempt = conn[c].attempt /\ r.hop = conn[c].hop
    BY DEF Attempts, MadeBy
  <2>2. s > 0 /\ conn[c].status = "none" /\ AttemptsOf(c) /\ s <= serial
    BY DEF Attempts, UnderWay
  <2>. QED  BY <2>1, <2>2, Limits DEF AttemptsOf, Made, Fields, Rooms, Conn
<1>2. /\ sent \in Seq(Fields) /\ Len(sent) \in Nat
      /\ sent' = Append(sent, r) /\ sent' \in Seq(Fields) /\ sent'[n] = r
      /\ DOMAIN sent = 1..Len(sent) /\ DOMAIN sent' = DOMAIN sent \cup {n} /\ n \notin DOMAIN sent
      /\ \A k \in DOMAIN sent : sent'[k] = sent[k] /\ k < n
  BY <1>1 DEF Record, Attempts
<1>. HIDE DEF r, n
<1>3. ASSUME NEW k \in DOMAIN sent'
      PROVE  /\ sent'[k].serial \in 1..serial' /\ sent'[k].attempt \in 1..MaxAttempt
             /\ sent'[k].hop \in 0..MaxRedirects
  <2>1. CASE k \in DOMAIN sent
    BY <1>2, <2>1 DEF Attempts
  <2>2. CASE k = n
    BY <1>1, <1>2, <2>2 DEF Made
  <2>. QED  BY <1>2, <2>1, <2>2
<1>4. ASSUME NEW j \in DOMAIN sent', NEW k \in DOMAIN sent', j < k,
             sent'[j].serial = sent'[k].serial
      PROVE  InOrder(sent'[j], sent'[k])
  <2>1. CASE k = n
    <3>1. j \in Mine(s)
      BY <1>1, <1>2, <1>4, <2>1 DEF Mine
    <3>2. InOrder(sent[j], [attempt |-> conn[c].attempt, hop |-> conn[c].hop,
                            proxy |-> r.proxy])
      BY <1>1, <3>1 DEF Trying, r
    <3>3. InOrder(sent[j], r)
      BY <1>1, <3>2 DEF InOrder
    <3>. QED  BY <1>2, <2>1, <3>1, <3>3 DEF Mine
  <2>2. CASE k # n
    <3>1. j \in DOMAIN sent /\ k \in DOMAIN sent
      BY <1>2, <1>4, <2>2
    <3>. QED  BY <1>2, <1>4, <3>1 DEF Attempts
  <2>. QED  BY <2>1, <2>2
<1>5. ASSUME NEW k \in DOMAIN sent', sent'[k].hop > 0
      PROVE  \E j \in DOMAIN sent' : /\ sent'[j].serial = sent'[k].serial
                                     /\ sent'[j].attempt = sent'[k].attempt
                                     /\ sent'[j].hop = sent'[k].hop - 1
  <2>1. PICK j \in DOMAIN sent : /\ sent[j].serial = sent'[k].serial
                                 /\ sent[j].attempt = sent'[k].attempt
                                 /\ sent[j].hop = sent'[k].hop - 1
    <3>1. CASE k \in DOMAIN sent
      BY <1>2, <1>5, <3>1 DEF Attempts
    <3>2. CASE k = n
      BY <1>1, <1>2, <1>5, <3>2 DEF Trying, Mine
    <3>. QED  BY <1>2, <3>1, <3>2
  <2>. QED  BY <1>2, <2>1
<1>6. ASSUME NEW d \in Conns \ {c} PROVE (conn[d].serial > 0 => AttemptsOf(d)') /\ MadeBy(d)'
  <2>1. MadeBy(d)'
    BY DEF Attempts, MadeBy, Made, NotMade
  <2>2. ASSUME conn[d].serial > 0 PROVE AttemptsOf(d)'
    <3>1. conn[d].serial # s /\ AttemptsOf(d) /\ conn'[d] = conn[d] /\ made'[d] = made[d]
      BY <1>1, <2>2 DEF Attempts
    <3>2. Mine(conn[d].serial)' = Mine(conn[d].serial)
      BY <1>1, <1>2, <3>1 DEF Mine
    <3>3. \A k \in Mine(conn[d].serial) : sent'[k] = sent[k]
      BY <1>2 DEF Mine
    <3>4. tried(d)' = tried(d)
      BY <3>2, <3>3 DEF tried
    <3>5. Trying(d) => Trying(d)'
      BY <3>1, <3>2, <3>3, <3>4 DEF Trying, InOrder
    <3>6. Ended(d) => Ended(d)'
      BY <3>1, <3>2, <3>3, <3>4 DEF Ended
    <3>. QED  BY <3>1, <3>5, <3>6 DEF AttemptsOf
  <2>. QED  BY <2>1, <2>2
<1>7. ASSUME NEW d \in Conns
      PROVE  /\ conn'[d].serial <= serial'
             /\ conn'[d].serial > 0 => AttemptsOf(d)'
             /\ conn'[d].status # "none" => conn'[d].serial > 0
             /\ conn'[d].pc \in UnderWay => conn'[d].serial > 0 /\ conn'[d].status = "none"
             /\ conn'[d].hop \in 0..MaxRedirects
             /\ conn'[d].pc \in {"attempt", "request"} => conn'[d].hop = 0
             /\ MadeBy(d)'
  <2>1. CASE d = c
    BY <1>1, <2>1 DEF Attempts, UnderWay
  <2>2. CASE d # c
    BY <1>6, <2>2 DEF Attempts
  <2>. QED  BY <2>1, <2>2
<1>8. \A d, e \in Conns : d # e /\ conn'[d].serial = conn'[e].serial => conn'[d].serial = 0
  BY DEF Attempts
<1>. QED  BY <1>2, <1>3, <1>4, <1>5, <1>7, <1>8 DEF Attempts, UnderWay, InOrder

\* What was sent of the request of c afterwards.
LEMMA MineGrows ==
  ASSUME Attempts, Rooms, NEW c \in Conns, conn[c].pc = "record", Record(made[c])
  PROVE  LET s == conn[c].serial
             n == Len(sent) + 1
         IN  /\ {k \in DOMAIN sent' : sent'[k].serial = s} = Mine(s) \cup {n}
             /\ sent'[n] = made[c] /\ n \in Nat
             /\ \A k \in Mine(s) : k \in Nat /\ k < n /\ sent'[k] = sent[k]
             /\ made[c] \in Made /\ made[c] \in Fields
             /\ made[c].serial = s /\ made[c].attempt = conn[c].attempt
             /\ made[c].hop = conn[c].hop /\ <<made[c].proxy, made[c].status>> \in Offers[c]
             /\ s > 0 /\ conn[c].status = "none" /\ Trying(c)
<1>. DEFINE r == made[c]
            s == conn[c].serial
            n == Len(sent) + 1
<1>1. /\ r \in Made /\ r.serial = s /\ r.attempt = conn[c].attempt /\ r.hop = conn[c].hop
      /\ <<made[c].proxy, made[c].status>> \in Offers[c]
  BY DEF Attempts, MadeBy
<1>2. s > 0 /\ conn[c].status = "none" /\ Trying(c)
  BY DEF Attempts, AttemptsOf, UnderWay
<1>3. r \in Fields
  BY <1>1, Limits DEF Made, Fields
<1>4. /\ sent \in Seq(Fields) /\ Len(sent) \in Nat /\ sent' = Append(sent, r) /\ sent'[n] = r
      /\ DOMAIN sent = 1..Len(sent) /\ DOMAIN sent' = DOMAIN sent \cup {n} /\ n \notin DOMAIN sent
      /\ \A k \in DOMAIN sent : sent'[k] = sent[k] /\ k < n
  BY <1>3 DEF Record, Attempts
<1>. HIDE DEF r, n
<1>5. {k \in DOMAIN sent' : sent'[k].serial = s} = Mine(s) \cup {n}
  BY <1>1, <1>4 DEF Mine
<1>6. \A k \in Mine(s) : k \in Nat /\ k < n /\ sent'[k] = sent[k]
  BY <1>4 DEF Mine
<1>. QED  BY <1>1, <1>2, <1>3, <1>4, <1>5, <1>6 DEF r, n

\* A redirection is sent, and followed.
LEMMA AttemptsFollowed ==
  ASSUME Attempts, Rooms, NEW c \in Conns, followed(c)
  PROVE  Attempts' /\ made[c] \in Fields /\ Record(made[c])
<1>. DEFINE s == conn[c].serial
            n == Len(sent) + 1
            m == [conn[c] EXCEPT !.pc = "redirected", !.hop = @ + 1]
<1>a. conn \in [Conns -> Conn] /\ conn[c] \in Conn /\ made = [d \in Conns |-> made[d]]
  BY DEF Rooms, Attempts
<1>1. /\ conn[c].pc = "record" /\ Record(made[c]) /\ serial' = serial /\ made' = made
      /\ made[c].status = "moved" /\ conn[c].hop < MaxRedirects /\ conn' = [conn EXCEPT ![c] = m]
  BY <1>a DEF followed, recorded, At
<1>2. /\ m.serial = s /\ m.attempt = conn[c].attempt /\ m.status = conn[c].status
      /\ m.pc = "redirected" /\ m.hop = conn[c].hop + 1 /\ conn[c].hop \in Nat
  BY <1>a DEF Conn
<1>. HIDE DEF m
<1>3. conn'[c] = m /\ \A d \in Conns \ {c} : conn'[d] = conn[d]
  BY <1>a, <1>1
<1>4. /\ {k \in DOMAIN sent' : sent'[k].serial = s} = Mine(s) \cup {n}
      /\ sent'[n] = made[c] /\ \A k \in Mine(s) : sent'[k] = sent[k]
      /\ made[c] \in Made /\ made[c] \in Fields /\ made[c].attempt = conn[c].attempt
      /\ made[c].hop = conn[c].hop /\ <<made[c].proxy, made[c].status>> \in Offers[c]
      /\ conn[c].status = "none" /\ Trying(c)
  BY <1>1, MineGrows
<1>. HIDE DEF n
<1>5. Mine(conn[c].serial)' = Mine(s) \cup {n}
  BY <1>2, <1>3, <1>4 DEF Mine
<1>6. Trying(c)'
  <2>1. ASSUME NEW k \in Mine(s) \cup {n}
        PROVE  /\ sent'[k].status # "ok"
               /\ InOrder(sent'[k], [attempt |-> conn'[c].attempt, hop |-> conn'[c].hop,
                                     proxy |-> made'[c].proxy])
    <3>1. CASE k = n
      BY <1>1, <1>2, <1>3, <1>4, <3>1 DEF InOrder
    <3>2. CASE k \in Mine(s)
      <4>1. sent[k].hop \in Nat
        BY <3>2, Limits DEF Attempts, Mine
      <4>2. /\ sent[k].status # "ok"
            /\ InOrder(sent[k], [attempt |-> conn[c].attempt, hop |-> conn[c].hop,
                                 proxy |-> made[c].proxy])
        BY <1>4, <3>2 DEF Trying
      <4>. QED  BY <1>1, <1>2, <1>3, <1>4, <3>2, <4>1, <4>2 DEF InOrder
    <3>. QED  BY <3>1, <3>2
  <2>2. conn'[c].hop - 1 = conn[c].hop
    BY <1>2, <1>3
  <2>3. n \in Mine(s) \cup {n} /\ sent'[n].attempt = conn'[c].attempt
        /\ sent'[n].hop = conn'[c].hop - 1
    BY <1>2, <1>3, <1>4, <2>2
  <2>4. tried(c) \subseteq {sent'[k].attempt : k \in Mine(s) \cup {n}}
    BY <1>4 DEF tried
  <2>5. conn'[c].attempt = conn[c].attempt
    BY <1>2, <1>3
  <2>6. /\ conn[c].attempt \in 1..MaxAttempt
        /\ Shards..(conn[c].attempt - 1) \subseteq tried(c)
    BY <1>4 DEF Trying
  <2>. QED  BY <1>5, <2>1, <2>3, <2>4, <2>5, <2>6 DEF Trying, tried, InOrder
<1>7. MadeBy(c)'
  BY <1>1, <1>2, <1>3, <1>4 DEF MadeBy, Made
<1>8. AttemptsOf(c)'
  BY <1>2, <1>3, <1>4, <1>6 DEF AttemptsOf
<1>9. conn'[c].hop \in 0..MaxRedirects
  BY <1>1, <1>2, <1>3, Limits
<1>10. Attempts'
  BY <1>a, <1>1, <1>2, <1>3, <1>4, <1>7, <1>8, <1>9, Sending
<1>. QED  BY <1>1, <1>4, <1>10

\* The last request of an attempt is sent; the attempt is the last one if it went
\* well or no other may be made.
LEMMA AttemptsReturned ==
  ASSUME Attempts, Rooms, NEW c \in Conns, returned(c)
  PROVE  Attempts' /\ made[c] \in Fields /\ Record(made[c])
<1>. DEFINE r == made[c]
            s == conn[c].serial
            a == conn[c].attempt
            n == Len(sent) + 1
            S == Mine(s) \cup {n}
            m == IF r.status = "ok" THEN ends(conn[c], "ok")
                 ELSE IF a >= maxAttempts THEN ends(conn[c], "failed")
                 ELSE again(conn[c])
<1>a. conn \in [Conns -> Conn] /\ conn[c] \in Conn /\ made = [d \in Conns |-> made[d]]
  BY DEF Rooms, Attempts
<1>1. /\ conn[c].pc = "record" /\ Record(r) /\ serial' = serial
      /\ conn' = [conn EXCEPT ![c] = m] /\ made' = [made EXCEPT ![c] = NotMade]
  BY <1>a DEF returned, recorded, At
<1>2. /\ {k \in DOMAIN sent' : sent'[k].serial = s} = S
      /\ sent'[n] = r /\ n \in Nat
      /\ \A k \in Mine(s) : k \in Nat /\ k < n /\ sent'[k] = sent[k]
      /\ r \in Made /\ r \in Fields /\ r.attempt = a
      /\ conn[c].status = "none" /\ Trying(c) /\ s > 0
  BY <1>1, MineGrows
<1>3. a \in 1..MaxAttempt /\ a \in Nat
  BY <1>2, Limits DEF Trying
<1>4. /\ \A k \in Mine(s) : /\ sent[k].status # "ok" /\ sent[k].attempt <= a
                            /\ sent[k].attempt \in 1..MaxAttempt
      /\ Shards..(a - 1) \subseteq tried(c)
  <2>1. \A k \in Mine(s) : sent[k].attempt \in 1..MaxAttempt
    BY DEF Attempts, Mine
  <2>2. \A k \in Mine(s) : /\ sent[k].status # "ok"
                           /\ (sent[k].attempt < a \/ sent[k].attempt = a)
    BY <1>2 DEF Trying, InOrder
  <2>3. Shards..(a - 1) \subseteq tried(c)
    BY <1>2 DEF Trying
  <2>4. \A k \in Mine(s) : sent[k].attempt \in Nat
    BY <2>1, Limits
  <2>. QED  BY <1>3, <2>1, <2>2, <2>3, <2>4
<1>5. \A st : /\ ends(conn[c], st).serial = s /\ ends(conn[c], st).attempt = a
              /\ ends(conn[c], st).hop = 0 /\ ends(conn[c], st).status = st
              /\ ends(conn[c], st).pc = "answer"
  BY <1>a DEF ends, Conn
<1>6. LET g == again(conn[c])
      IN  /\ g.serial = s /\ g.attempt = a + 1 /\ g.hop = 0 /\ g.status = "none"
          /\ g.pc = "attempt"
  BY <1>a, <1>2 DEF again, Conn
<1>7. conn'[c] = m /\ (\A d \in Conns \ {c} : conn'[d] = conn[d] /\ made'[d] = made[d])
      /\ made'[c] = NotMade /\ made' = [d \in Conns |-> made'[d]]
  BY <1>a, <1>1
<1>8. /\ m.serial = s /\ m.hop = 0 /\ m.pc \in {"answer", "attempt"}
      /\ m.pc = "attempt" => m.status = "none"
      /\ m.status = "ok" <=> r.status = "ok"
      /\ m.status = "none" => m.attempt = a + 1 /\ a < maxAttempts /\ r.status # "ok"
      /\ m.status \in {"ok", "failed"} => m.attempt = a
  <2>1. CASE r.status = "ok"
    BY <1>5, <2>1
  <2>2. CASE r.status # "ok" /\ a >= maxAttempts
    BY <1>5, <2>2
  <2>3. CASE r.status # "ok" /\ ~(a >= maxAttempts)
    BY <1>3, <1>6, <2>3, Limits
  <2>. QED  BY <2>1, <2>2, <2>3
<1>. HIDE DEF m, n
<1>9. Mine(conn[c].serial)' = S
  BY <1>2, <1>7, <1>8 DEF Mine
<1>10. tried(c)' = tried(c) \cup {a}
  <2>1. {sent'[k].attempt : k \in S} = {sent[k].attempt : k \in Mine(s)} \cup {a}
    BY <1>2
  <2>. QED  BY <1>9, <2>1 DEF tried
<1>. HIDE DEF S
<1>11. ASSUME conn'[c].status = "none" PROVE Trying(c)'
  <2>1. conn'[c].attempt = a + 1 /\ conn'[c].hop = 0 /\ a < maxAttempts /\ r.status # "ok"
    BY <1>7, <1>8, <1>11
  <2>2. a + 1 \in 1..MaxAttempt
    BY <1>3, <2>1, Limits
  <2>3. ASSUME NEW k \in S PROVE sent'[k].status # "ok" /\ sent'[k].attempt < a + 1
    <3>1. CASE k = n
      BY <1>2, <1>3, <2>1, <3>1
    <3>2. CASE k \in Mine(s)
      BY <1>2, <1>3, <1>4, <3>2, Limits
    <3>. QED  BY <3>1, <3>2 DEF S
  <2>4. Shards..((a + 1) - 1) \subseteq tried(c)'
    <3>1. Shards..((a + 1) - 1) \subseteq (Shards..(a - 1)) \cup {a}
      BY <1>3, Limits
    <3>. QED  BY <1>4, <1>10, <3>1
  <2>. QED  BY <1>9, <2>1, <2>2, <2>3, <2>4 DEF Trying, InOrder
<1>12. ASSUME conn'[c].status \in {"ok", "failed"} PROVE Ended(c)'
  <2>1. conn'[c].attempt = a /\ (conn'[c].status = "ok" <=> r.status = "ok")
    BY <1>7, <1>8, <1>12
  <2>2. tried(c)' \subseteq 1..a
    <3>1. \A k \in Mine(s) : sent[k].attempt \in 1..a
      BY <1>3, <1>4, Limits
    <3>2. tried(c) \subseteq 1..a
      BY <3>1 DEF tried
    <3>. QED  BY <1>3, <1>10, <3>2
  <2>3. {a} \cup (Shards..a) \subseteq tried(c)'
    <3>1. Shards..a \subseteq (Shards..(a - 1)) \cup {a}
      BY <1>3, Limits
    <3>. QED  BY <1>4, <1>10, <3>1
  <2>4. ASSUME NEW k \in S
        PROVE  sent'[k].status = "ok" <=> conn'[c].status = "ok" /\ \A j \in S : j <= k
    <3>1. \A j \in S : j <= n
      BY <1>2 DEF S
    <3>2. CASE k = n
      BY <1>2, <2>1, <3>1, <3>2
    <3>3. CASE k \in Mine(s)
      <4>1. sent'[k].status # "ok"
        BY <1>2, <1>4, <3>3
      <4>2. n \in S /\ ~(n <= k)
        BY <1>2, <3>3 DEF S
      <4>. QED  BY <4>1, <4>2
    <3>. QED  BY <3>2, <3>3 DEF S
  <2>. QED  BY <1>9, <2>1, <2>2, <2>3, <2>4 DEF Ended
<1>13. AttemptsOf(c)'
  BY <1>11, <1>12 DEF AttemptsOf
<1>14. MadeBy(c)'
  BY <1>7, <1>8 DEF MadeBy, NotMade
<1>15. conn'[c].hop \in 0..MaxRedirects
  BY <1>7, <1>8, Limits
<1>16. conn'[c].pc \in UnderWay => conn'[c].status = "none"
  BY <1>7, <1>8 DEF UnderWay
<1>17. Attempts'
  BY <1>1, <1>7, <1>8, <1>13, <1>14, <1>15, <1>16, Sending
<1>. QED  BY <1>1, <1>2, <1>17
----------------------------------------------------------------------------
(* The invariant, and what follows from it. *)

LEMMA RecordedSame ==
  ASSUME Recorded, UNCHANGED historyVars
  PROVE  Recorded'
<1>1. Channel' /\ Listed' /\ Answer' = Answer
  BY AskersOnly DEF historyVars, Recorded, Listed
<1>2. \A b \in Askers : AnswerFor(asker[b].id, asker[b].upto)' = AnswerFor(asker[b].id, asker[b].upto)
  BY DEF historyVars, AnswerFor, Entry, stored, NoRequest
<1>. QED  BY <1>1, <1>2 DEF Recorded, Answers, historyVars

LEMMA RoomsSame ==
  ASSUME Rooms, UNCHANGED serveVars
  PROVE  Rooms'
  BY DEF Rooms, serveVars, Accepted, At

LEMMA InvStep == Inv /\ [Next]_vars => Inv'
<1>. SUFFICES ASSUME Inv, [Next]_vars PROVE Inv'
  OBVIOUS
<1>. USE DEF Inv
<1>1. ASSUME NEW c \in Conns, client(c) \/ server(c), UNCHANGED <<historyVars, made>>
      PROVE  Inv'
  BY <1>1, RecordedSame, RoomsServe, AttemptsServe DEF historyVars
<1>2. ASSUME NEW c \in Conns, attempting(c) PROVE Inv'
  <2>1. Rooms'
    BY <1>2, RoomsAttempt
  <2>2. CASE followed(c) \/ returned(c)
    <3>1. Attempts' /\ made[c] \in Fields /\ Record(made[c])
      BY <2>2, AttemptsFollowed, AttemptsReturned
    <3>. QED  BY <2>1, <3>1, RecordedSend
  <2>3. CASE ~(followed(c) \/ returned(c))
    <3>1. UNCHANGED historyVars
      BY <1>2, <2>3 DEF attempting, asked, cancelled, exhausted, abandoned, RoundTrip
    <3>. QED  BY <1>2, <2>1, <2>3, <3>1, AttemptsStep, RecordedSame
  <2>. QED  BY <2>2, <2>3
<1>3. ASSUME UNCHANGED <<serveVars, made, sent>> PROVE Rooms' /\ Attempts'
  BY <1>3, RoomsSame, AttemptsSame DEF serveVars
<1>4. ASSUME main, UNCHANGED <<serveVars, made>> PROVE Inv'
  <2>1. UNCHANGED sent
    BY <1>4 DEF main, mainRecord, Heartbeat, mainGet
  <2>. QED  BY <1>3, <1>4, <2>1, RecordedMain, RecordedAsk, RecordedGet DEF main
<1>5. ASSUME NEW a \in Askers, (\E id \in Asked : get(a, id)) \/ gotten(a),
             UNCHANGED <<serveVars, made>>
      PROVE  Inv'
  <2>1. UNCHANGED sent
    BY <1>5 DEF get, gotten
  <2>. QED  BY <1>3, <1>5, <2>1, RecordedAsk
<1>6. CASE UNCHANGED vars
  BY <1>3, <1>6, RecordedSame DEF vars, historyVars
<1>. QED  BY <1>1, <1>2, <1>4, <1>5, <1>6 DEF Next

\* No two things sent have the same serial, attempt and hop, so there are no more
\* of them than requests that the attempts of all requests can make.
LEMMA SentBound ==
  ASSUME Rooms, Attempts
  PROVE  Len(sent) <= MaxRecords
<1>. DEFINE A == 1..MaxRequests
            B == 1..MaxAttempt
            C == 0..MaxRedirects
            f == [k \in DOMAIN sent |-> <<sent[k].serial, <<sent[k].attempt, sent[k].hop>>>>]
<1>1. serial \in Nat /\ serial <= MaxRequests
  BY AcceptedIs, Limits DEF Rooms
<1>2. sent \in Seq(Fields) /\ DOMAIN sent = 1..Len(sent) /\ Len(sent) \in Nat
  BY DEF Attempts
<1>3. \A k \in DOMAIN sent : sent[k].serial \in A /\ sent[k].attempt \in B /\ sent[k].hop \in C
  BY <1>1, Limits DEF Attempts
<1>4. f \in [DOMAIN sent -> A \X (B \X C)]
  BY <1>3
<1>5. ASSUME NEW j \in DOMAIN sent, NEW k \in DOMAIN sent, f[j] = f[k] PROVE j = k
  <2>1. /\ sent[j].serial = sent[k].serial /\ sent[j].attempt = sent[k].attempt
        /\ sent[j].hop = sent[k].hop
    BY <1>5
  <2>2. ~(j < k) /\ ~(k < j)
    BY <1>3, <2>1, Limits DEF Attempts, InOrder
  <2>. QED  BY <1>2, <2>2
<1>6. f \in Injection(DOMAIN sent, A \X (B \X C))
  BY <1>4, <1>5 DEF Injection, IsInjective
<1>7. /\ IsFiniteSet(A) /\ Cardinality(A) = MaxRequests
      /\ IsFiniteSet(B) /\ Cardinality(B) = MaxAttempt
      /\ IsFiniteSet(C) /\ Cardinality(C) = MaxRedirects + 1
  <2>1. IsFiniteSet(A) /\ Cardinality(A) = MaxRequests
    BY FS_Interval, Limits
  <2>2. IsFiniteSet(B) /\ Cardinality(B) = MaxAttempt
    BY FS_Interval, Limits
  <2>3. IsFiniteSet(C) /\ Cardinality(C) = MaxRedirects + 1
    BY FS_Interval, Limits
  <2>. QED  BY <2>1, <2>2, <2>3
<1>8. /\ IsFiniteSet(A \X (B \X C))
      /\ Cardinality(A \X (B \X C)) = MaxRequests * (MaxAttempt * (MaxRedirects + 1))
  <2>. HIDE DEF A, B, C
  <2>1. IsFiniteSet(B \X C) /\ Cardinality(B \X C) = Cardinality(B) * Cardinality(C)
    BY <1>7, FS_Product
  <2>2. /\ IsFiniteSet(A \X (B \X C))
        /\ Cardinality(A \X (B \X C)) = Cardinality(A) * Cardinality(B \X C)
    BY <1>7, <2>1, FS_Product
  <2>. QED  BY <1>7, <2>1, <2>2, Zenon
<1>9. Cardinality(DOMAIN sent) = Len(sent)
  BY <1>2, FS_Interval
<1>10. Cardinality(DOMAIN sent) <= Cardinality(A \X (B \X C))
  BY <1>6, <1>8, FS_Injection
<1>11. MaxRecords >= MaxRequests * (MaxAttempt * (MaxRedirects + 1))
  BY TrafficAssumption
<1>12. Cardinality(A \X (B \X C)) <= MaxRecords
  BY <1>8, <1>11, Zenon
<1>. HIDE DEF A, B, C
<1>13. Cardinality(A \X (B \X C)) \in Nat /\ MaxRecords \in Nat
  BY <1>8, FS_CardinalityType, Limits
<1>. QED  BY <1>2, <1>9, <1>10, <1>12, <1>13

LEMMA InvType == Inv => TypeOK
<1>. SUFFICES ASSUME Inv PROVE TypeOK
  OBVIOUS
<1>. DEFINE Full == [ID : 1..MaxRecords, Appeared : 1..MaxRecords, serial : Nat, attempt : Nat,
                     hop : Nat, proxy : Proxies, status : Outcomes]
<1>1. Channel /\ Listed /\ Answers /\ Rooms /\ Attempts
  BY DEF Inv, Recorded
<1>2. /\ sent \in Seq(Fields) /\ record \in Seq(Fields) /\ Len(sent) \in Nat /\ Len(record) \in Nat
      /\ counter \in Nat /\ Len(sent) = counter + Len(record) /\ Len(record) <= recordCap
  BY <1>1 DEF Channel
<1>3. counter \in 0..MaxRecords /\ counter <= Len(sent) /\ Len(sent) <= MaxRecords
  BY <1>1, <1>2, SentBound, Limits
<1>4. \A p \in Proxies : Through(p, counter) \in 0..MaxRecords
  <2>1. \A p \in Proxies : Through(p, counter) \in 0..counter
    BY <1>2, ThroughType
  <2>. QED  BY <1>2, <1>3, <2>1, Limits
<1>5. ASSUME NEW k \in 1..counter PROVE Entry(k) \in Full
  <2>1. k \in 1..Len(sent) /\ k \in 1..MaxRecords /\ k - 1 \in Nat /\ (k - 1) + 1 = k
    BY <1>2, <1>3, Limits
  <2>2. sent[k] \in Fields
    BY <1>2, <2>1
  <2>. DEFINE p == sent[k].proxy
  <2>3. Through(p, k - 1) \in 0..(k - 1)
    BY <2>1, ThroughType
  <2>4. Through(p, (k - 1) + 1) =
          Through(p, k - 1) + (IF sent[(k - 1) + 1].proxy = p THEN 1 ELSE 0)
    BY <2>1, ThroughNext
  <2>5. Through(p, k) = Through(p, k - 1) + 1
    BY <2>1, <2>4
  <2>6. Through(p, k) \in 1..MaxRecords
    BY <2>1, <2>3, <2>5, Limits
  <2>7. Entry(k) = stored(sent[k], k, Through(p, k))
    BY EntryThrough
  <2>. HIDE DEF p
  <2>. QED  BY <2>1, <2>2, <2>6, <2>7 DEF stored, Fields
<1>6. requests \in Seq(Full)
  <2>1. Held \in 0..counter /\ Held \in Nat
    BY <1>2, HeldType
  <2>2. \A i \in 1..Held : (counter - Held) + i \in 1..counter
    BY <1>2, <2>1
  <2>3. \A i \in 1..Held : Entry((counter - Held) + i) \in Full
    BY <1>5, <2>2
  <2>4. requests = [i \in 1..Held |-> Entry((counter - Held) + i)]
    BY <1>1 DEF Listed
  <2>. HIDE DEF Full
  <2>5. requests \in [1..Held -> Full]
    BY <2>3, <2>4, Zenon
  <2>. QED  BY <2>1, <2>5, IsASeq
<1>7. appears \in [Proxies -> 0..MaxRecords] /\ beating \in BOOLEAN
  BY <1>1, <1>4 DEF Listed
<1>8. asker \in [Askers -> [pc : {"idle", "asking", "answered"}, id : 0..MaxRecords,
                            found : Full \cup {NoRequest}, upto : 0..MaxRecords]]
  <2>. DEFINE F == {NoRequest} \cup {Entry(k) : k \in 1..counter}
  <2>1. F \subseteq Full \cup {NoRequest} /\ 0..counter \subseteq 0..MaxRecords
    BY <1>2, <1>3, <1>5, Limits
  <2>2. Answer = [pc : {"idle", "asking", "answered"}, id : 0..MaxRecords, found : F,
                  upto : 0..counter]
    BY DEF Answer
  <2>. HIDE DEF F, Full
  <2>3. Answer \subseteq [pc : {"idle", "asking", "answered"}, id : 0..MaxRecords,
                          found : Full \cup {NoRequest}, upto : 0..MaxRecords]
    BY <2>1, <2>2
  <2>. QED  BY <1>1, <2>3 DEF Answers
<1>9. HistoryTypeOK
  <2>. HIDE DEF Full
  <2>1. /\ record \in Seq(Fields) /\ Len(record) <= recordCap /\ sent \in Seq(Fields)
        /\ requests \in Seq(Full)
        /\ appears \in [Proxies -> 0..MaxRecords] /\ counter \in 0..MaxRecords
        /\ beating \in BOOLEAN
    BY <1>2, <1>3, <1>6, <1>7
  <2>. QED  BY <1>8, <2>1 DEF HistoryTypeOK, Fields, Full
<1>10. ServeTypeOK
  BY <1>1, AcceptedIs, Limits DEF Rooms, Conn, ServeTypeOK
<1>11. made \in [Conns -> {NotMade} \cup Made]
  <2>1. \A c \in Conns : made[c] \in {NotMade} \cup Made
    BY <1>1 DEF Attempts, MadeBy
  <2>2. made = [c \in Conns |-> made[c]]
    BY <1>1 DEF Attempts
  <2>. QED  BY <2>1, <2>2
<1>. QED  BY <1>9, <1>10, <1>11 DEF TypeOK, Made

LEMMA InvInit == Init => Inv
  BY RecordedInit, RoomsInit, AttemptsInit DEF Inv

\* Inv holds in every reachable state.
THEOREM Invariant == Spec => []Inv
  BY InvInit, InvStep, PTL DEF Spec

\* Every reachable state is well typed; the numbers of sessions, requests and
\* records stay within their bounds since no request of an attempt, the first or
\* a redirection that it followed, is recorded twice.
THEOREM TypeCorrect == Spec => []TypeOK
  BY Invariant, InvType, PTL

LEMMA InvKeeps == Inv => HistoryKeepsLatest
<1>. SUFFICES ASSUME Inv PROVE HistoryKeepsLatest
  OBVIOUS
<1>1. Channel /\ Listed /\ Answers /\ Rooms /\ Attempts
  BY DEF Inv, Recorded
<1>2. sent = SubSeq(sent, 1, counter) \o record
  <2>1. /\ sent \in Seq(Fields) /\ record \in Seq(Fields) /\ Len(sent) \in Nat /\ Len(record) \in Nat
        /\ counter \in Nat /\ Len(sent) = counter + Len(record)
        /\ \A i \in 1..Len(record) : record[i] = sent[counter + i]
    BY <1>1 DEF Channel
  <2>. DEFINE h == SubSeq(sent, 1, counter)
              t == h \o record
  <2>2. h \in Seq(Fields) /\ Len(h) = counter /\ \A i \in 1..counter : h[i] = sent[i]
    BY <2>1
  <2>. HIDE DEF h
  <2>3. /\ t \in Seq(Fields) /\ Len(t) = counter + Len(record)
        /\ \A i \in 1..Len(t) : t[i] = IF i <= counter THEN h[i] ELSE record[i - counter]
    BY <2>1, <2>2
  <2>. HIDE DEF t
  <2>4. ASSUME NEW i \in 1..Len(sent) PROVE t[i] = sent[i]
    <3>1. CASE i <= counter
      BY <2>1, <2>2, <2>3, <3>1
    <3>2. CASE ~(i <= counter)
      <4>1. i - counter \in 1..Len(record) /\ counter + (i - counter) = i
        BY <2>1, <3>2
      <4>2. record[i - counter] = sent[counter + (i - counter)]
        BY <2>1, <4>1
      <4>. QED  BY <2>1, <2>3, <3>2, <4>1, <4>2
    <3>. QED  BY <3>1, <3>2
  <2>5. sent = t
    BY <2>1, <2>3, <2>4
  <2>. QED  BY <2>5 DEF t, h
<1>3. requests = [i \in 1..Held |-> Entry((counter - Held) + i)]
  BY <1>1 DEF Listed
<1>4. \A a \in Askers : asker[a].pc = "answered" =>
        asker[a].found = AnswerFor(asker[a].id, asker[a].upto)
  BY <1>1 DEF Answers
<1>5. ASSUME NEW c \in Conns, conn[c].status \in {"ok", "failed"} PROVE Ended(c)
  BY <1>1, <1>5 DEF Attempts, AttemptsOf
<1>6. /\ \A j, k \in DOMAIN sent :
           j < k /\ sent[j].serial = sent[k].serial => InOrder(sent[j], sent[k])
      /\ \A k \in DOMAIN sent : sent[k].hop > 0 =>
           \E j \in DOMAIN sent : /\ sent[j].serial = sent[k].serial
                                  /\ sent[j].attempt = sent[k].attempt
                                  /\ sent[j].hop = sent[k].hop - 1
  BY <1>1 DEF Attempts
<1>. QED  BY <1>2, <1>3, <1>4, <1>5, <1>6
          DEF HistoryKeepsLatest, Held, AnswerFor, Ended, tried, Mine

\* The history holds the latest requests without a gap, numbered and counted in
\* the order they were sent; a look-up finds exactly those; the attempts of a
\* request and the redirections of an attempt are sent in order and once, through
\* one proxy for an attempt; and of a request that was answered only attempts are
\* missing that found a shard without proxies before all were asked.  It holds
\* however the handlers of the connections, History.main and the dashboards
\* interleave and whatever the limit and the capacity of the channel are.
THEOREM HistoryIsExact == Spec => []HistoryKeepsLatest
  BY Invariant, InvKeeps, PTL
----------------------------------------------------------------------------
(* What RequestsAnswered rests on besides fairness: a request is a finite    *)
(* number of steps from its answer, and what it waits for can happen.        *)

\* The steps that the server takes at most from the a-th attempt to the answer:
\* in an attempt it asks a shard, and each redirection and the first request are
\* made and recorded.
Span == 2 * MaxRedirects + 4
Left(a) == Span * ((MaxAttempt + 1) - a)

\* The steps that the server still takes for a connection that waits for it.
Steps(m) ==
  CASE m.pc = "accepted" -> Left(1) + 1
    [] m.pc = "attempt" -> Left(m.attempt)
    [] m.pc = "request" -> Left(m.attempt) - 1
    [] m.pc = "record" -> Left(m.attempt) - (2 * m.hop + 2)
    [] m.pc = "redirected" -> Left(m.attempt) - (2 * m.hop + 1)
    [] m.pc = "connect" -> 2
    [] m.pc \in {"handshake", "answer"} -> 1
    [] OTHER -> 0

\* Nobody is waited for at "abandoned": the client is gone, and the goroutine that
\* was to answer as well.
Waits(m) == m.pc \notin {"idle", "read", "closed", "abandoned"}

Closer(m, n) ==
  \/ n = m \/ n = [m EXCEPT !.gone = TRUE]
  \/ ~Waits(m) \/ ~Waits(n)
  \/ Steps(n) < Steps(m)

AllCloser == \A c \in Conns : Closer(conn[c], conn[c]')

\* The guards of the next step for a connection hold, or the channel is full
\* and those of a step of History.main do.
Served(c) ==
  \/ conn[c].pc \in {"accepted", "connect", "handshake", "attempt", "request", "answer"}
  \/ conn[c].pc = "redirected" /\ \E o \in Offers[c] : o[1] = made[c].proxy
  \/ conn[c].pc = "record" /\ Len(record) < recordCap
  \/ conn[c].pc = "record" /\ (beating \/ record # <<>>)

WaitsAreCounted ==
  \A c \in Conns : Waits(conn[c]) => Steps(conn[c]) \in Nat /\ Served(c)

LEMMA LeftIs ==
  /\ Span \in Nat
  /\ \A a \in 1..MaxAttempt : /\ Left(a) \in Nat /\ Left(a) >= Span
                              /\ Left(a + 1) = Left(a) - Span
  /\ 1 \in 1..MaxAttempt
<1>1. Span \in Nat /\ 1 \in 1..MaxAttempt
  BY Limits DEF Span
<1>2. ASSUME NEW x \in Nat, NEW y \in Nat
      PROVE  x * y \in Nat /\ x * (y + 1) = x * y + x
  OBVIOUS
<1>3. ASSUME NEW a \in 1..MaxAttempt
      PROVE  Left(a) \in Nat /\ Left(a) >= Span /\ Left(a + 1) = Left(a) - Span
  <2>. DEFINE y == MaxAttempt - a
  <2>1. y \in Nat /\ (MaxAttempt + 1) - a = y + 1 /\ (MaxAttempt + 1) - (a + 1) = y
    BY <1>3, Limits
  <2>. HIDE DEF y
  <2>2. Left(a) = Span * (y + 1) /\ Left(a + 1) = Span * y
    BY <2>1 DEF Left
  <2>3. Span * y \in Nat /\ Span * (y + 1) = Span * y + Span
    BY <1>1, <1>2, <2>1
  <2>. DEFINE z == Span * y
  <2>4. Left(a) = z + Span /\ Left(a + 1) = z /\ z \in Nat
    BY <2>2, <2>3
  <2>. HIDE DEF z
  <2>. QED  BY <1>1, <2>4
<1>. QED  BY <1>1, <1>3

LEMMA InvCounts == Inv => WaitsAreCounted
<1>. SUFFICES ASSUME Inv, NEW c \in Conns, Waits(conn[c])
              PROVE  Steps(conn[c]) \in Nat /\ Served(c)
  BY DEF WaitsAreCounted
<1>1. conn[c] \in Conn /\ conn[c].pc \in PCs /\ conn[c].serial \in Nat
  BY DEF Inv, Rooms, Conn
<1>2. /\ conn[c].pc \in UnderWay => conn[c].attempt \in 1..MaxAttempt
      /\ conn[c].hop \in 0..MaxRedirects
      /\ conn[c].pc = "redirected" => \E o \in Offers[c] : o[1] = made[c].proxy
  <2>1. conn[c].pc \in UnderWay => Trying(c)
    BY DEF Inv, Attempts, AttemptsOf
  <2>2. conn[c].pc = "redirected" => <<made[c].proxy, made[c].status>> \in Offers[c]
    BY DEF Inv, Attempts, MadeBy
  <2>3. conn[c].hop \in 0..MaxRedirects
    BY DEF Inv, Attempts
  <2>. QED  BY <2>1, <2>2, <2>3 DEF Trying
<1>3. Steps(conn[c]) \in Nat
  <2>1. CASE conn[c].pc \in UnderWay
    <3>1. /\ Left(conn[c].attempt) \in Nat
          /\ Left(conn[c].attempt) >= 2 * MaxRedirects + 4
          /\ conn[c].hop \in Nat /\ conn[c].hop <= MaxRedirects /\ MaxRedirects \in Nat
      BY <1>2, <2>1, LeftIs, Limits DEF Span
    <3>. QED  BY <2>1, <3>1 DEF Steps, UnderWay
  <2>2. CASE conn[c].pc \notin UnderWay
    <3>1. Left(1) + 1 \in Nat
      BY LeftIs
    <3>. QED  BY <1>1, <2>2, <3>1 DEF Steps, UnderWay, PCs
  <2>. QED  BY <2>1, <2>2
<1>4. Len(record) < recordCap \/ record # <<>>
  <2>1. record \in Seq(Fields) /\ Len(record) \in Nat
    BY DEF Inv, Recorded, Channel
  <2>2. record = <<>> => Len(record) = 0
    BY <2>1
  <2>. QED  BY <2>2, HistoryAssumption
<1>. QED  BY <1>1, <1>2, <1>3, <1>4 DEF Served, Waits, PCs

\* A step that replaces the state of one connection.
LEMMA CloserStep ==
  ASSUME Rooms, NEW c \in Conns, NEW n, Closer(conn[c], n), conn' = [conn EXCEPT ![c] = n]
  PROVE  AllCloser
<1>1. \A d \in Conns : conn'[d] = IF d = c THEN n ELSE conn[d]
  BY DEF Rooms
<1>2. \A d \in Conns : Closer(conn[d], conn'[d])
  BY <1>1 DEF Closer
<1>. QED  BY <1>1, <1>2 DEF AllCloser

LEMMA GoCloser ==
  ASSUME Rooms, NEW c \in Conns, NEW pc, Go(c, pc),
         \/ pc \in {"idle", "read", "closed", "abandoned"}
         \/ pc = "connect" /\ conn[c].pc = "accepted"
         \/ pc = "handshake" /\ conn[c].pc = "connect"
  PROVE  AllCloser
<1>. DEFINE n == [conn[c] EXCEPT !.pc = pc]
<1>1. conn[c] \in Conn /\ conn[c].attempt \in Nat
  BY DEF Rooms, Conn
<1>2. n.pc = pc /\ n.attempt = conn[c].attempt /\ conn' = [conn EXCEPT ![c] = n]
  BY <1>1 DEF Conn, Go
<1>. HIDE DEF n
<1>3. Closer(conn[c], n)
  <2>1. Left(1) \in Nat /\ Left(1) >= 4
    BY LeftIs, Limits DEF Span
  <2>2. /\ conn[c].pc = "accepted" => Steps(conn[c]) = Left(1) + 1
        /\ conn[c].pc = "connect" => Steps(conn[c]) = 2
        /\ pc = "connect" => Steps(n) = 2
        /\ pc = "handshake" => Steps(n) = 1
    BY <1>2 DEF Steps
  <2>. QED  BY <1>2, <2>1, <2>2 DEF Closer, Waits
<1>. QED  BY <1>2, <1>3, CloserStep

\* A request gets its number, and with it its first attempt.
LEMMA ForwardCloser ==
  ASSUME Rooms, NEW c \in Conns, forward(c), conn[c].pc \in {"accepted", "read"}
  PROVE  AllCloser
<1>. DEFINE n == [conn[c] EXCEPT !.pc = "attempt", !.serial = serial + 1, !.attempt = 1,
                                 !.hop = 0, !.status = "none"]
<1>1. conn[c] \in Conn
  BY DEF Rooms
<1>2. n.pc = "attempt" /\ n.attempt = 1 /\ conn' = [conn EXCEPT ![c] = n]
  BY <1>1 DEF Conn, forward
<1>. HIDE DEF n
<1>3. Closer(conn[c], n)
  BY <1>2, LeftIs DEF Closer, Waits, Steps
<1>. QED  BY <1>2, <1>3, CloserStep

LEMMA ServeCloser ==
  ASSUME Rooms, NEW c \in Conns, client(c) \/ server(c)
  PROVE  AllCloser
<1>1. CASE send(c, c \in Tunnels)
  <2>. DEFINE n == [Fresh EXCEPT !.pc = "accepted", !.tunnel = c \in Tunnels]
  <2>1. conn' = [conn EXCEPT ![c] = n] /\ ~Waits(conn[c])
    BY <1>1 DEF send, Waits
  <2>. HIDE DEF n
  <2>. QED  BY <2>1, CloserStep DEF Closer
<1>2. CASE disconnect(c)
  <2>. DEFINE n == [conn[c] EXCEPT !.gone = TRUE]
  <2>1. conn' = [conn EXCEPT ![c] = n] /\ Closer(conn[c], n)
    BY <1>2 DEF disconnect, Closer
  <2>. HIDE DEF n
  <2>. QED  BY <2>1, CloserStep
<1>3. CASE readRequest(c) \/ ServeHTTP(c)
  BY <1>3, ForwardCloser, GoCloser DEF readRequest, ServeHTTP, At
<1>4. CASE handleConnect(c) \/ handleHandshake(c) \/ readError(c)
  BY <1>4, GoCloser DEF handleConnect, handleHandshake, readError, At
<1>5. CASE writeResponse(c)
  <2>1. answered(c) \in {"idle", "read", "closed"}
    BY DEF answered
  <2>. QED  BY <1>5, <2>1, GoCloser DEF writeResponse
<1>. QED  BY <1>1, <1>2, <1>3, <1>4, <1>5 DEF client, server, serving

LEMMA AttemptCloser ==
  ASSUME Rooms, Attempts, NEW c \in Conns, attempting(c)
  PROVE  AllCloser
<1>. DEFINE a == conn[c].attempt
            h == conn[c].hop
<1>1. /\ conn[c] \in Conn /\ a \in 1..MaxAttempt /\ a \in Nat
      /\ h \in Nat /\ h <= MaxRedirects /\ MaxRedirects \in Nat
      /\ conn[c].pc \in {"attempt", "request"} => h = 0
  <2>1. conn[c].pc \in UnderWay
    BY DEF attempting, asked, cancelled, exhausted, abandoned, RoundTrip, followed, returned,
           At, UnderWay
  <2>2. conn[c] \in Conn
    BY DEF Rooms
  <2>3. AttemptsOf(c) /\ conn[c].status = "none" /\ h \in 0..MaxRedirects
        /\ (conn[c].pc \in {"attempt", "request"} => h = 0)
    BY <2>1 DEF Attempts
  <2>4. a \in 1..MaxAttempt
    BY <2>3 DEF AttemptsOf, Trying
  <2>. HIDE DEF a, h
  <2>. QED  BY <2>2, <2>3, <2>4, Limits
<1>2. /\ Left(a) \in Nat /\ Left(a) >= 2 * MaxRedirects + 4
      /\ Left(a + 1) = Left(a) - (2 * MaxRedirects + 4)
  BY <1>1, LeftIs DEF Span
<1>. HIDE DEF a, h
<1>3. ASSUME NEW n, conn' = [conn EXCEPT ![c] = n], Steps(n) < Steps(conn[c])
      PROVE  AllCloser
  BY <1>3, CloserStep DEF Closer
<1>4. CASE asked(c)
  <2>. DEFINE n == [conn[c] EXCEPT !.pc = "request"]
  <2>1. n.pc = "request" /\ n.attempt = a /\ conn' = [conn EXCEPT ![c] = n]
    BY <1>1, <1>4 DEF asked, Go, Conn, a
  <2>. HIDE DEF n
  <2>2. Steps(n) = Left(a) - 1 /\ Steps(conn[c]) = Left(a)
    BY <1>4, <2>1 DEF Steps, asked, At, a
  <2>3. Steps(n) < Steps(conn[c])
    BY <1>2, <2>2
  <2>. QED  BY <1>3, <2>1, <2>3
<1>5. CASE abandoned(c)
  BY <1>5, GoCloser DEF abandoned
<1>6. ASSUME NEW p, NEW st, RoundTrip(c, p, st) PROVE AllCloser
  <2>. DEFINE n == [conn[c] EXCEPT !.pc = "record"]
  <2>1. n.pc = "record" /\ n.attempt = a /\ n.hop = h /\ conn' = [conn EXCEPT ![c] = n]
    BY <1>1, <1>6 DEF RoundTrip, Go, Conn, a, h
  <2>. HIDE DEF n
  <2>2. Steps(n) = Left(a) - (2 * h + 2)
    BY <2>1 DEF Steps
  <2>3. /\ conn[c].pc = "request" => Steps(conn[c]) = Left(a) - 1
        /\ conn[c].pc = "redirected" => Steps(conn[c]) = Left(a) - (2 * h + 1)
        /\ conn[c].pc \in {"request", "redirected"}
    BY <1>6 DEF Steps, RoundTrip, At, a, h
  <2>4. Steps(n) < Steps(conn[c])
    BY <1>1, <1>2, <2>2, <2>3
  <2>. QED  BY <1>3, <2>1, <2>4
<1>7. CASE followed(c)
  <2>. DEFINE n == [conn[c] EXCEPT !.pc = "redirected", !.hop = @ + 1]
  <2>1. n.pc = "redirected" /\ n.attempt = a /\ n.hop = h + 1 /\ conn' = [conn EXCEPT ![c] = n]
    BY <1>1, <1>7 DEF followed, Conn, a, h
  <2>. HIDE DEF n
  <2>2. Steps(n) = Left(a) - (2 * (h + 1) + 1) /\ Steps(conn[c]) = Left(a) - (2 * h + 2)
    BY <1>7, <2>1 DEF Steps, followed, At, a, h
  <2>3. Steps(n) < Steps(conn[c])
    BY <1>1, <1>2, <2>2
  <2>. QED  BY <1>3, <2>1, <2>3
<1>8. ASSUME conn[c].pc \in {"attempt", "request", "record"}, NEW n,
             conn' = [conn EXCEPT ![c] = n],
             \/ n.pc = "answer"
             \/ n.pc = "attempt" /\ conn[c].pc # "attempt" /\ n.attempt = a + 1
      PROVE  AllCloser
  <2>1. /\ n.pc = "answer" => Steps(n) = 1
        /\ n.pc = "attempt" => Steps(n) = Left(a + 1)
    BY <1>8 DEF Steps
  <2>2. /\ conn[c].pc = "attempt" => Steps(conn[c]) = Left(a)
        /\ conn[c].pc = "request" => Steps(conn[c]) = Left(a) - 1
        /\ conn[c].pc = "record" => Steps(conn[c]) = Left(a) - (2 * h + 2)
    BY DEF Steps, a, h
  <2>3. Steps(n) < Steps(conn[c])
    BY <1>1, <1>2, <1>8, <2>1, <2>2
  <2>. QED  BY <1>3, <1>8, <2>3
<1>9. CASE cancelled(c)
  <2>. DEFINE n == [conn[c] EXCEPT !.pc = "answer", !.status = "error"]
  <2>1. conn' = [conn EXCEPT ![c] = n] /\ n.pc = "answer" /\ conn[c].pc = "attempt"
    BY <1>1, <1>9 DEF cancelled, Conn, At
  <2>. HIDE DEF n
  <2>. QED  BY <1>8, <2>1
<1>10. CASE exhausted(c) \/ returned(c)
  <2>1. PICK n : /\ conn' = [conn EXCEPT ![c] = n]
                 /\ n = again(conn[c]) \/ \E st : n = ends(conn[c], st)
    BY <1>10 DEF exhausted, returned
  <2>2. again(conn[c]).pc = "attempt" /\ again(conn[c]).attempt = a + 1
    BY <1>1 DEF again, Conn, a
  <2>3. \A st : ends(conn[c], st).pc = "answer"
    BY <1>1 DEF ends, Conn
  <2>4. conn[c].pc \in {"request", "record"}
    BY <1>10 DEF exhausted, returned, At
  <2>. QED  BY <1>8, <2>1, <2>2, <2>3, <2>4
<1>. QED  BY <1>4, <1>5, <1>6, <1>7, <1>9, <1>10 DEF attempting

LEMMA NextCloser == Inv /\ [Next]_vars => AllCloser
<1>. SUFFICES ASSUME Inv, [Next]_vars PROVE AllCloser
  OBVIOUS
<1>1. Rooms /\ Attempts
  BY DEF Inv
<1>2. CASE UNCHANGED serveVars
  BY <1>2 DEF serveVars, AllCloser, Closer
<1>3. CASE UNCHANGED vars
  BY <1>2, <1>3 DEF vars
<1>. QED  BY <1>1, <1>2, <1>3, ServeCloser, AttemptCloser DEF Next

\* For every number of connections, attempts, shards, redirections and places in
\* the channel: a connection that waits for the server is a natural number of
\* steps from its answer, every step leaves it where it is, notices that its
\* client has gone, or makes the number smaller, and what the next of them waits
\* for can happen: a full channel is one that History.main can take from, or main
\* has a heartbeat to send first.  The exception is as in RequestsAnswered: a
\* request whose client goes away while it is handed over to a worker waits no
\* more, and is not answered either.
THEOREM RequestsAreFinite == Spec => []WaitsAreCounted /\ [][AllCloser]_vars
  BY Invariant, InvCounts, NextCloser, PTL DEF Spec
=============================================================================
