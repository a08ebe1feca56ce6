------------------------------ MODULE History ------------------------------
(***************************************************************************)
(* history: the latest requests that were forwarded.  Forwarders put them   *)
(* in a channel, and History.main takes them out, numbers them and answers  *)
(* the dashboards that ask for one.                                         *)
(***************************************************************************)
EXTENDS Integers, FiniteSets, SequencesExt

CONSTANTS
  Proxies,
  limit,     \* requests that are kept; none are dropped if it is 0
  recordCap, \* capacity of the channel of requests
  Askers,    \* goroutines that serve GET /history/ID
  MaxRecords \* bound of the identifiers

ASSUME HistoryAssumption == {limit, recordCap, MaxRecords} \subseteq Nat /\ recordCap > 0

VARIABLES
  record,   \* the channel
  requests, \* RequestDataset
  appears,  \* proxy -> requests through it
  counter,
  beating,  \* main stands at ctx.Heartbeat
  asker,    \* asker -> what it asks for and was answered
  sent      \* history of the channel: everything that was put in it

historyVars == <<record, requests, appears, counter, beating, asker, sent>>

\* The status of a record: a redirection, another status below 400, any other
\* status or an error.
Outcomes == {"moved", "ok", "failed"}

NoRequest == [ID |-> 0]
NoAnswer == [pc |-> "idle", id |-> 0, found |-> NoRequest, upto |-> 0]

HistoryInit ==
  /\ record = <<>>
  /\ requests = <<>>
  /\ appears = [p \in Proxies |-> 0]
  /\ counter = 0
  /\ beating = FALSE
  /\ asker = [a \in Askers |-> NoAnswer]
  /\ sent = <<>>

\* Mutant of Record: nobody waits for History.main.
RecordAnyway(r) ==
  /\ record' = Append(record, r)
  /\ sent' = Append(sent, r)
  /\ UNCHANGED <<requests, appears, counter, beating, asker>>

\* History.Record; it blocks while the channel is full.
Record(r) ==
  /\ Len(record) < recordCap
  /\ record' = Append(record, r)
  /\ sent' = Append(sent, r)
  /\ UNCHANGED <<requests, appears, counter, beating, asker>>

stored(r, id, appeared) ==
  [ID |-> id, Appeared |-> appeared, serial |-> r.serial, attempt |-> r.attempt,
   hop |-> r.hop, proxy |-> r.proxy, status |-> r.status]

\* Mutant of kept: the list is cut when it is one longer.
keptOneMore(list) == IF limit > 0 /\ Len(list) > limit THEN Tail(list) ELSE list

\* What is kept of the list before a request is added.
kept(list) == IF limit > 0 /\ Len(list) = limit THEN Tail(list) ELSE list

mainRecord ==
  /\ ~beating /\ record # <<>>
  /\ LET r == Head(record)
     IN  /\ appears' = [appears EXCEPT ![r.proxy] = @ + 1]
         /\ requests' = Append(kept(requests), stored(r, counter + 1, appears'[r.proxy]))
  /\ counter' = counter + 1
  /\ record' = Tail(record)
  /\ beating' = TRUE
  /\ UNCHANGED <<asker, sent>>

\* Fabric.sync receives the heartbeat.
Heartbeat ==
  /\ beating
  /\ beating' = FALSE
  /\ UNCHANGED <<record, requests, appears, counter, asker, sent>>

\* HttpGetByID: a dashboard asks for a request by its number.
get(a, id) ==
  /\ asker[a].pc = "idle"
  /\ asker' = [asker EXCEPT ![a] = [NoAnswer EXCEPT !.pc = "asking", !.id = id]]
  /\ UNCHANGED <<record, requests, appears, counter, beating, sent>>

replied(a, found) ==
  asker' = [asker EXCEPT ![a].pc = "answered", ![a].found = found, ![a].upto = counter]

having(id) == {i \in DOMAIN requests : requests[i].ID = id}

\* The empty request makes the dashboard answer that there is none.
mainGet(a) ==
  /\ ~beating /\ asker[a].pc = "asking"
  /\ LET is == having(asker[a].id)
     IN  replied(a, IF is = {} THEN NoRequest ELSE requests[Min(is)])
  /\ UNCHANGED <<record, requests, appears, counter, beating, sent>>

\* The dashboard shows the answer and may ask again.
gotten(a) ==
  /\ asker[a].pc = "answered"
  /\ asker' = [asker EXCEPT ![a] = NoAnswer]
  /\ UNCHANGED <<record, requests, appears, counter, beating, sent>>

main == mainRecord \/ Heartbeat \/ \E a \in Askers : mainGet(a)
----------------------------------------------------------------------------
HistoryTypeOK ==
  LET fields == [serial : Nat, attempt : Nat, hop : Nat, proxy : Proxies, status : Outcomes]
      full   == [ID : 1..MaxRecords, Appeared : 1..MaxRecords, serial : Nat, attempt : Nat,
                 hop : Nat, proxy : Proxies, status : Outcomes]
  IN  /\ record \in Seq(fields) /\ Len(record) <= recordCap
      /\ requests \in Seq(full)
      /\ appears \in [Proxies -> 0..MaxRecords]
      /\ counter \in 0..MaxRecords
      /\ beating \in BOOLEAN
      /\ asker \in [Askers -> [pc : {"idle", "asking", "answered"}, id : 0..MaxRecords,
                               found : full \cup {NoRequest}, upto : 0..MaxRecords]]
      /\ sent \in Seq(fields)

\* The k-th request that was sent, as it is to be kept.
Entry(k) ==
  stored(sent[k], k, Cardinality({j \in 1..k : sent[j].proxy = sent[k].proxy}))
=============================================================================
