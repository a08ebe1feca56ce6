------------------------------ MODULE Traffic ------------------------------
(***************************************************************************)
(* What a client's request goes through: the proxy server (Serve), attempts *)
(* of the pool, each through the round tripper that records it, and the     *)
(* history (History), whose service sends a heartbeat for every record.     *)
(* The pool is as the module Pool shows it to its callers: an attempt is    *)
(* made through some proxy, or there is none in the shard that it asked; a   *)
(* failed attempt is followed by another or is the last.                     *)
(*                                                                          *)
(* An attempt is more than one request if its proxy answers it with a        *)
(* redirection: http.Client.Do follows it, through the same proxy and with   *)
(* the headers of the first.  "hop" is which of them a record is about, in    *)
(* the code the URL of the record.                                           *)
(***************************************************************************)
EXTENDS History, Serve

CONSTANTS
  maxAttempts,
  Shards,       \* number of shards of the pool
  MaxRedirects, \* redirections that http.Client.Do follows
  Asked,        \* numbers of requests that dashboards ask for
  Tunnels,      \* connections whose client sends CONNECT
  Offers        \* connection -> what its requests may go through and meet

\* The attempts of a request: a failed one is the last at maxAttempts, and one
\* that finds a shard without proxies at the number of shards.
MaxAttempt == IF maxAttempts < Shards THEN Shards ELSE maxAttempts

ASSUME TrafficAssumption ==
  /\ maxAttempts \in Nat \ {0} /\ Shards \in Nat \ {0} /\ MaxRedirects \in Nat
  /\ MaxRecords >= MaxRequests * (MaxAttempt * (MaxRedirects + 1))
  /\ Asked \subseteq 0..MaxRecords /\ Tunnels \subseteq Conns
  /\ Offers \in [Conns -> SUBSET (Proxies \X Outcomes)]

VARIABLE made \* connection -> the record of the request it is making

vars == <<historyVars, serveVars, made>>

NotMade == [proxy |-> "none"]

Init == HistoryInit /\ ServeInit /\ made = [c \in Conns |-> NotMade]

\* The client of a request outside of a tunnel has gone away; the requests of a
\* tunnel have a context that never ends.
Done(c) == conn[c].gone /\ ~conn[c].tunnel

\* The loop of pool.RoundTrip: it asks a shard ...
asked(c) ==
  /\ At(c, "attempt") /\ ~Done(c)
  /\ Go(c, "request")
  /\ UNCHANGED <<sessions, serial, historyVars, made>>

\* ... unless the client has gone away.
cancelled(c) ==
  /\ At(c, "attempt") /\ Done(c)
  /\ conn' = [conn EXCEPT ![c].pc = "answer", ![c].status = "error"]
  /\ UNCHANGED <<sessions, serial, historyVars, made>>

\* The state of a connection whose pool.RoundTrip goes on to the next attempt,
\* and of one whose RoundTrip returns.
again(m) == [m EXCEPT !.pc = "attempt", !.attempt = @ + 1, !.hop = 0]
ends(m, status) == [m EXCEPT !.pc = "answer", !.hop = 0, !.status = status]

\* The shard has no proxy for the request (552): the next one is asked, and the
\* attempt leaves no record, or all were.
exhausted(c) ==
  /\ At(c, "request")
  /\ conn' = [conn EXCEPT ![c] = IF @.attempt < Shards THEN again(@) ELSE ends(@, "exhausted")]
  /\ UNCHANGED <<sessions, serial, historyVars, made>>

\* The shard has a proxy, but the client goes away before a worker takes the
\* request: the goroutine of handleRequest returns, and RoundTrip, which waits
\* for its answer, never does.
abandoned(c) ==
  /\ At(c, "request") /\ Done(c) /\ Offers[c] # {}
  /\ Go(c, "abandoned")
  /\ UNCHANGED <<sessions, serial, historyVars, made>>

\* roundTripper.RoundTrip: a request of an attempt, whose numbers are taken from
\* the headers that the pool has set, was made through a proxy.
RoundTrip(c, p, status) ==
  /\ At(c, "request") \/ (At(c, "redirected") /\ p = made[c].proxy)
  /\ made' = [made EXCEPT ![c] = [serial |-> conn[c].serial, attempt |-> conn[c].attempt,
                                 hop |-> conn[c].hop, proxy |-> p, status |-> status]]
  /\ Go(c, "record")
  /\ UNCHANGED <<sessions, serial, historyVars>>

\* The request is recorded, whatever became of it.
recorded(c) == Record(made[c])

\* It returns to http.Client.Do once the request is recorded, which follows a
\* redirection.
followed(c) ==
  /\ At(c, "record") /\ made[c].status = "moved" /\ conn[c].hop < MaxRedirects
  /\ recorded(c)
  /\ conn' = [conn EXCEPT ![c].pc = "redirected", ![c].hop = @ + 1]
  /\ UNCHANGED <<sessions, serial, made>>

\* Or Do returns to the pool, of a redirection that it cannot follow with an
\* error, and the attempt is over.
returned(c) ==
  /\ At(c, "record") /\ recorded(c)
  /\ conn' = [conn EXCEPT ![c] = IF made[c].status = "ok" THEN ends(@, "ok")
                                 ELSE IF @.attempt >= maxAttempts THEN ends(@, "failed")
                                 ELSE again(@)]
  /\ made' = [made EXCEPT ![c] = NotMade]
  /\ UNCHANGED <<sessions, serial>>

attempting(c) ==
  \/ asked(c) \/ cancelled(c) \/ exhausted(c) \/ abandoned(c)
  \/ \E o \in Offers[c] : RoundTrip(c, o[1], o[2])
  \/ followed(c) \/ returned(c)

client(c) == send(c, c \in Tunnels) \/ disconnect(c) \/ readRequest(c)

server(c) == serving(c) \/ readError(c)

Next ==
  \/ \E c \in Conns : (client(c) \/ server(c)) /\ UNCHANGED <<historyVars, made>>
  \/ \E c \in Conns : attempting(c)
  \/ main /\ UNCHANGED <<serveVars, made>>
  \/ \E a \in Askers :
       /\ (\E id \in Asked : get(a, id)) \/ gotten(a)
       /\ UNCHANGED <<serveVars, made>>

Spec == Init /\ [][Next]_vars

\* What the handler of a connection, and the pool for it, do by themselves.
handling(c) == (serving(c) /\ UNCHANGED <<historyVars, made>>) \/ attempting(c)

\* Every goroutine that can step does: the handler of a connection, a worker
\* of the pool and History.main, and Fabric.sync receives heartbeats.  Nothing
\* is asked of clients.  A channel serves those who wait at it in turn, and the
\* select of History.main chooses at random among what is ready, so that who
\* waits at a channel is not passed over forever.
FairSpec ==
  /\ Spec
  /\ \A c \in Conns : SF_vars(handling(c))
  /\ WF_vars((mainRecord \/ Heartbeat) /\ UNCHANGED <<serveVars, made>>)
  /\ \A a \in Askers : SF_vars(mainGet(a) /\ UNCHANGED <<serveVars, made>>)
----------------------------------------------------------------------------
TypeOK ==
  /\ HistoryTypeOK
  /\ ServeTypeOK
  /\ made \in [Conns -> {NotMade} \cup [serial : 1..MaxRequests, attempt : 1..MaxAttempt,
                                       hop : 0..MaxRedirects, proxy : Proxies,
                                       status : Outcomes]]

\* The records r and q of a request were sent in this order: of an earlier and
\* a later attempt, or of one attempt and the redirections that it followed.
InOrder(r, q) ==
  \/ r.attempt < q.attempt
  \/ r.attempt = q.attempt /\ r.hop < q.hop /\ r.proxy = q.proxy /\ r.status = "moved"

\* The history holds the latest requests, without a gap, in the order they were
\* sent to it, numbered and counted per proxy; a dashboard that asks for one of
\* them by its number gets it, and one that asks for another gets none.  What was
\* sent of a request are its attempts in order, each with the redirections it
\* followed through one proxy and each of them once; of one that was answered no
\* attempt is missing but those that found a shard without proxies before all
\* shards were asked, and it was answered well exactly if its last record was
\* (README.md:40, "Every forwarded request can later be inspected").
HistoryKeepsLatest ==
  /\ sent = SubSeq(sent, 1, counter) \o record
  /\ LET n == IF limit > 0 /\ counter > limit THEN limit ELSE counter
     IN  requests = [i \in 1..n |-> Entry(counter - n + i)]
  /\ \A a \in Askers : asker[a].pc = "answered" =>
       asker[a].found =
         IF asker[a].id \in 1..asker[a].upto /\ (limit = 0 \/ asker[a].id > asker[a].upto - limit)
           THEN Entry(asker[a].id) ELSE NoRequest
  /\ \A j, k \in DOMAIN sent :
       j < k /\ sent[j].serial = sent[k].serial => InOrder(sent[j], sent[k])
  /\ \A k \in DOMAIN sent : sent[k].hop > 0 =>
       \E j \in DOMAIN sent : /\ sent[j].serial = sent[k].serial
                              /\ sent[j].attempt = sent[k].attempt
                              /\ sent[j].hop = sent[k].hop - 1
  /\ \A c \in Conns : conn[c].status \in {"ok", "failed"} =>
       LET mine  == {k \in DOMAIN sent : sent[k].serial = conn[c].serial}
           tried == {sent[k].attempt : k \in mine}
           last  == conn[c].attempt
       IN  /\ tried \subseteq 1..last /\ {last} \cup (Shards..last) \subseteq tried
           /\ \A k \in mine : sent[k].status = "ok" <=>
                                conn[c].status = "ok" /\ \A j \in mine : j <= k

\* A request that the server has accepted is answered or its connection closed,
\* and so is a dashboard: nobody waits forever for the full channel of the
\* history, for a session number, or for a heartbeat.  Only a client that goes
\* away while its request is handed over leaves its handler waiting for ever
\* ("this leaks a goroutine to certain extent", shard.go:240).
RequestsAnswered ==
  /\ \A c \in Conns : conn[c].pc \in PCs \ {"idle", "read", "closed"}
                        ~> \/ conn[c].pc \in {"idle", "read", "closed"}
                           \/ At(c, "abandoned") /\ Done(c)
  /\ \A a \in Askers : asker[a].pc = "asking" ~> asker[a].pc = "answered"
=============================================================================
