-------------------------------- MODULE Pool --------------------------------
(***************************************************************************)
(* Package pool: the shards with their entries, the clients inside          *)
(* Pool.RoundTrip, the goroutine that hands a request to the work queue,    *)
(* the request workers, and the tickers.  A client has at most one request  *)
(* under way, so what the goroutine, the queue and the worker hold for it   *)
(* is part of the client's state.                                           *)
(*                                                                          *)
(* An entry is named by its rank in the order of Speed, in which a shard    *)
(* keeps its entries; the rank of a new entry is arbitrary.  An entry that  *)
(* left its shard is blank: nothing reads it any more.                      *)
(***************************************************************************)
EXTENDS Entry, FiniteSets

CONSTANTS
  Proxies,
  Ranks,         \* names of entries, a set of integers
  shards,        \* number of shards
  Bucket,        \* the shard of each proxy
  Clients,       \* callers of RoundTrip
  requestWorkers,
  maxAttempts    \* the literal 10 in handleReply

Shards == 0..(shards - 1)

ASSUME PoolAssumption ==
  /\ Ranks \subseteq Int /\ IsFiniteSet(Ranks) /\ Ranks # {} /\ Proxies # {}
  /\ {shards, requestWorkers, maxAttempts} \subseteq Nat \ {0}
  /\ Bucket \in [Proxies -> Shards]

VARIABLES
  entries,         \* shard -> ranks of its entries
  proxyOf,         \* rank -> proxy
  heap,            \* rank -> entry
  evictions,       \* shard -> proxies it evicted since the last gathering
  pendingEviction, \* gathered evictions that the probe has not collected
  due,             \* shards whose minute ticker has fired
  client,          \* caller -> state of its RoundTrip
  serial           \* the last serial number, modulo shards

vars == <<entries, proxyOf, heap, evictions, pendingEviction, due, client, serial>>

\* What the shards know, and what the rest of the pool knows.
shardVars == <<entries, proxyOf, heap, evictions, due>>
rest == <<pendingEviction, serial>>

PCs == {"idle", "loop", "request", "handoff", "queued", "working", "lost"}

\* "status" is how the last RoundTrip ended and "tried" the shards it asked.
Statuses == {"none", "ok", "exhausted", "failed", "cancelled"}

Client == [pc : PCs, serial : Shards, attempt : Nat, cancelled : BOOLEAN, e : Ranks,
           status : Statuses, tried : SUBSET Shards]

Listed == UNION {entries[sh] : sh \in Shards}
Held == {client[c].e : c \in {x \in Clients :
                                client[x].pc \in {"handoff", "queued", "working"}}}

Fresh == [pc |-> "idle", serial |-> 0, attempt |-> 0, cancelled |-> FALSE,
          e |-> CHOOSE r \in Ranks : TRUE, status |-> "none", tried |-> {}]

Init ==
  /\ entries = [sh \in Shards |-> {}]
  /\ proxyOf = [r \in Ranks |-> CHOOSE p \in Proxies : TRUE]
  /\ heap = [r \in Ranks |-> newEntry]
  /\ evictions = [sh \in Shards |-> {}]
  /\ pendingEviction = {}
  /\ due = {}
  /\ client = [c \in Clients |-> Fresh]
  /\ serial = 0
----------------------------------------------------------------------------
(* The select loop of shard.main.                                           *)

\* shard.add: the same proxy may be added more than once.
add(p, r) ==
  /\ r \notin Listed \cup Held
  /\ entries' = [entries EXCEPT ![Bucket[p]] = @ \cup {r}]
  /\ proxyOf' = [proxyOf EXCEPT ![r] = p]
  /\ heap' = [heap EXCEPT ![r] = newEntry]
  /\ UNCHANGED <<evictions, due, client, rest>>

removeProxy(p) ==
  /\ \E r \in entries[Bucket[p]] : proxyOf[r] = p
  /\ entries' = [entries EXCEPT ![Bucket[p]] = {r \in @ : proxyOf[r] # p}]
  /\ heap' = [r \in Ranks |-> IF r \in entries[Bucket[p]] /\ proxyOf[r] = p
                                THEN newEntry ELSE heap[r]]
  /\ UNCHANGED <<proxyOf, evictions, due, client, rest>>

\* A minute passes and every ticker of the shards fires.
Tick ==
  /\ heap' = [r \in Ranks |-> Minute(heap[r])]
  /\ due' = Shards
  /\ UNCHANGED <<entries, proxyOf, evictions, client, rest>>

\* handleReanimate, then checkEviction.
minute(sh) ==
  /\ sh \in due
  /\ LET awake == [r \in Ranks |-> ReanimateIfNeeded(heap[r])]
         evict == {r \in entries[sh] : Evicts(awake[r])}
     IN  /\ entries' = [entries EXCEPT ![sh] = @ \ evict]
         /\ heap' = [r \in Ranks |->
                       IF r \in evict THEN newEntry
                       ELSE IF r \in entries[sh] THEN Eviction(awake[r]) ELSE heap[r]]
         /\ evictions' = [evictions EXCEPT ![sh] = @ \cup {proxyOf[r] : r \in evict}]
  /\ due' = due \ {sh}
  /\ UNCHANGED <<proxyOf, client, rest>>

Step(c, pc) == client' = [client EXCEPT ![c].pc = pc]

\* What a caller whose RoundTrip ended remembers of it.
Ended(m, status) ==
  [Fresh EXCEPT !.attempt = m.attempt, !.tried = m.tried, !.status = status]

Return(c, status) == client' = [client EXCEPT ![c] = Ended(@, status)]

\* Mutant of Shard: every attempt asks the same shard.
ShardOfSerial(c) == client[c].serial

\* The shard an attempt asks; "serial" is already one less than the code's.
Shard(c) == (client[c].serial + client[c].attempt - 1) % shards

Asked(c) == [client[c] EXCEPT !.tried = @ \cup {Shard(c)}]

\* handleRequest found nothing: 552.  RoundTrip tries the next shard or returns.
exhausted(c) ==
  client' = [client EXCEPT ![c] =
    IF Asked(c).attempt < shards THEN [Asked(c) EXCEPT !.pc = "loop"]
    ELSE Ended(Asked(c), "exhausted")]

\* handleRequest picked entry r; its goroutine stands at the select.
picked(c, r) ==
  client' = [client EXCEPT ![c] = [Asked(c) EXCEPT !.pc = "handoff", !.e = r]]

\* firstAvailableProxy in a shard with no entry, and with exactly one.
requestEmpty(c) ==
  /\ client[c].pc = "request"
  /\ entries[Shard(c)] = {}
  /\ exhausted(c)
  /\ UNCHANGED <<shardVars, rest>>

requestSingle(c) ==
  /\ client[c].pc = "request"
  /\ \E r \in Ranks : entries[Shard(c)] = {r} /\ picked(c, r)
  /\ UNCHANGED <<shardVars, rest>>

\* From a random offset to the end of the shard.
Available(sh, offset) == {r \in entries[sh] : r >= offset}

requestNone(c) ==
  /\ client[c].pc = "request"
  /\ Cardinality(entries[Shard(c)]) > 1
  /\ \E offset \in entries[Shard(c)] :
       LET available == Available(Shard(c), offset)
       IN  /\ \A r \in available : Skips(heap[r])
           /\ heap' = [r \in Ranks |->
                         IF r \in available THEN Skipped(heap[r]) ELSE heap[r]]
  /\ exhausted(c)
  /\ UNCHANGED <<entries, proxyOf, evictions, due, rest>>

requestOffer(c) ==
  /\ client[c].pc = "request"
  /\ Cardinality(entries[Shard(c)]) > 1
  /\ \E offset \in entries[Shard(c)] : \E first \in Available(Shard(c), offset) :
       LET before == {r \in Available(Shard(c), offset) : r < first}
       IN  /\ ~Skips(heap[first]) /\ \A r \in before : Skips(heap[r])
           /\ \E s \in Bump(heap[first].offers) :
                heap' = [r \in Ranks |->
                           IF r = first THEN Offer(heap[r], s)
                           ELSE IF r \in before THEN Skipped(heap[r]) ELSE heap[r]]
           /\ picked(c, first)
  /\ UNCHANGED <<entries, proxyOf, evictions, due, rest>>

\* handleReply updates the entry; nothing reads one that left its shard meanwhile.
Mark(r, e) == heap' = IF r \in Listed THEN [heap EXCEPT ![r] = e] ELSE heap

replySuccess(c) ==
  /\ client[c].pc = "working"
  /\ LET e == heap[client[c].e]
     IN  \E s \in Bump(e.successes) : Mark(client[c].e, MarkSuccess(e, s))
  /\ Return(c, "ok")
  /\ UNCHANGED <<entries, proxyOf, evictions, due, rest>>

\* Mutant of Retry: the limit of attempts is forgotten.
RetryForever(c) == Step(c, "loop")

\* After a failed attempt: 429 from the last one, another attempt before.
Retry(c) == IF client[c].attempt >= maxAttempts THEN Return(c, "failed") ELSE Step(c, "loop")

\* An error of the client or a status of 400 and more.
replyFailure(c) ==
  /\ client[c].pc = "working"
  /\ LET e == heap[client[c].e]
     IN  \/ \E s \in Bump(e.timeouts) : Mark(client[c].e, MarkTimeout(e, s))
         \/ \E s \in Bump(e.failures) : Mark(client[c].e, MarkFailure(e, s))
  /\ Retry(c)
  /\ UNCHANGED <<entries, proxyOf, evictions, due, rest>>
----------------------------------------------------------------------------
(* Pool.gatherEvictions, in rounds that ask every shard, and its answer to  *)
(* the probe.                                                               *)

gatherEvictions ==
  /\ \E sh \in Shards : evictions[sh] # {}
  /\ pendingEviction' = pendingEviction \cup UNION {evictions[sh] : sh \in Shards}
  /\ evictions' = [sh \in Shards |-> {}]
  /\ UNCHANGED <<entries, proxyOf, heap, due, client, serial>>

PendingEviction ==
  /\ pendingEviction # {}
  /\ pendingEviction' = {}
  /\ UNCHANGED <<shardVars, client, serial>>
----------------------------------------------------------------------------
(* Pool.RoundTrip and the goroutine and the worker that serve it.           *)

\* Mutant of nextSerial: the number is not reduced to a shard.
nextSerialPlain(n) == n + 1

\* Pool.counter; only the number modulo shards matters.
nextSerial(n) == (n + 1) % shards

RoundTrip(c) ==
  /\ client[c].pc = "idle"
  /\ serial' = nextSerial(serial)
  /\ client' = [client EXCEPT ![c] = [Fresh EXCEPT !.pc = "loop", !.serial = serial]]
  /\ UNCHANGED <<shardVars, pendingEviction>>

Cancel(c) ==
  /\ client[c].pc # "idle" /\ ~client[c].cancelled
  /\ client' = [client EXCEPT ![c].cancelled = TRUE]
  /\ UNCHANGED <<shardVars, rest>>

attempt(c) ==
  /\ client[c].pc = "loop"
  /\ IF client[c].cancelled
       THEN Return(c, "cancelled")
       ELSE client' = [client EXCEPT ![c].pc = "request", ![c].attempt = @ + 1]
  /\ UNCHANGED <<shardVars, rest>>

At(pc) == Cardinality({c \in Clients : client[c].pc = pc})

\* Mutant of enqueue: a request that meets a full queue is dropped.
enqueueOrDrop(c) ==
  /\ client[c].pc = "handoff"
  /\ Step(c, IF At("queued") < requestWorkers THEN "queued" ELSE "lost")
  /\ UNCHANGED <<shardVars, rest>>

\* The goroutine of handleRequest hands the work over ...
enqueue(c) ==
  /\ client[c].pc = "handoff" /\ At("queued") < requestWorkers
  /\ Step(c, "queued")
  /\ UNCHANGED <<shardVars, rest>>

\* ... or returns because the request was cancelled, answering nobody.
abandon(c) ==
  /\ client[c].pc = "handoff" /\ client[c].cancelled
  /\ Step(c, "lost")
  /\ UNCHANGED <<shardVars, rest>>

\* Pool.worker; the client it calls has a timeout, so a reply always follows.
worker(c) ==
  /\ client[c].pc = "queued" /\ At("working") < requestWorkers
  /\ Step(c, "working")
  /\ UNCHANGED <<shardVars, rest>>
----------------------------------------------------------------------------
(* The process stops and starts again with the entries it saved: requests   *)
(* and pending evictions are gone, the rolling counters dropped what left   *)
(* their windows and every entry is reanimated.  To start from an older     *)
(* snapshot is to have restarted earlier: nothing else survives.            *)

Restart ==
  /\ entries' = [sh \in Shards |-> {r \in Listed : Bucket[proxyOf[r]] = sh}]
  /\ \E kept \in [Counters -> 0..MaxSum] :
       heap' = [r \in Ranks |-> ForceReanimate(Aged(heap[r], kept))]
  /\ evictions' = [sh \in Shards |-> {}]
  /\ pendingEviction' = {}
  /\ due' = {}
  /\ client' = [c \in Clients |-> Fresh]
  /\ serial' = 0
  /\ UNCHANGED proxyOf
----------------------------------------------------------------------------
handleRequest(c) == requestEmpty(c) \/ requestSingle(c) \/ requestNone(c) \/ requestOffer(c)

handleReply(c) == replySuccess(c) \/ replyFailure(c)

served(c) == attempt(c) \/ handleRequest(c) \/ enqueue(c) \/ abandon(c) \/ worker(c)
               \/ handleReply(c)

Next ==
  \/ \E p \in Proxies : removeProxy(p) \/ \E r \in Ranks : add(p, r)
  \/ Tick
  \/ \E sh \in Shards : minute(sh)
  \/ gatherEvictions
  \/ PendingEviction
  \/ Restart
  \/ \E c \in Clients : RoundTrip(c) \/ Cancel(c) \/ served(c)

Spec == Init /\ [][Next]_vars

\* Time passes, tickers are served, and every request that can advance does;
\* senders and receivers blocked on the work queue are served in their order.
Fairness ==
  /\ WF_vars(Tick)
  /\ \A sh \in Shards : WF_vars(minute(sh))
  /\ \A c \in Clients : WF_vars(served(c)) /\ SF_vars(enqueue(c)) /\ SF_vars(worker(c))

FairSpec == Spec /\ Fairness
----------------------------------------------------------------------------
TypeOK ==
  /\ entries \in [Shards -> SUBSET Ranks]
  /\ proxyOf \in [Ranks -> Proxies]
  /\ heap \in [Ranks -> Entry]
  /\ evictions \in [Shards -> SUBSET Proxies]
  /\ pendingEviction \subseteq Proxies
  /\ due \subseteq Shards
  /\ client \in [Clients -> Client]
  /\ serial \in Shards

\* An entry of a shard is not Ok exactly while it has a time to be reanimated
\* at: no sequence of replies, evictions and skips leaves one that nothing
\* would ever wake up.  ("TODO: is this statement even reachable?",
\* entry.go:184: it is not.)
OkIffAwake ==
  \A r \in Listed : heap[r].Ok <=> heap[r].ReanimateAfter = Awake

Larger(m, n) == IF m < n THEN n ELSE m

\* One forwarded request makes at most maxAttempts attempts, or one per shard
\* where there are more shards, however failures and exhausted shards follow
\* one another.
AttemptsBounded ==
  \A c \in Clients : client[c].attempt <= Larger(maxAttempts, shards)

\* "Pool exhausted" (552) is the answer of all shards: whatever the serial
\* number, and however failed attempts and empty shards alternate, a request
\* that ends with it has asked every one of them.
ExhaustedAskedAll ==
  \A c \in Clients : client[c].status = "exhausted" => client[c].tried = Shards

\* Every RoundTrip that its caller does not cancel returns: no reply is lost
\* between the shard, the goroutine that hands the request over, the work
\* queue and the workers, whatever happens to the requests cancelled around
\* it.  (A cancelled one may wait for ever: "this leaks a goroutine to certain
\* extent", shard.go:240, and RoundTrip with it.)
RoundTripReturns ==
  \A c \in Clients :
    client[c].pc # "idle" ~> client[c].pc = "idle" \/ client[c].cancelled
=============================================================================
