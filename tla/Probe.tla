------------------------------- MODULE Probe -------------------------------
(***************************************************************************)
(* Package probe: the goroutine that owns the verification state           *)
(* (internal.main), the probing workers, the reverify goroutines, the      *)
(* eviction gatherer, the HTTP delete handler, and the refresh goroutines  *)
(* of the sources that feed it.  They communicate over five buffered       *)
(* channels.  Every goroutine hands its messages over through an outbox:   *)
(* a non-empty outbox is a goroutine standing at a channel send, and the   *)
(* send happens (Deliver) when the channel has room.  Calls to the stats   *)
(* goroutine are synchronous and are made inside the step that makes them. *)
(* The pool is only a count of entries per proxy.                          *)
(***************************************************************************)
EXTENDS Stats, Sequences, FiniteSets

CONSTANTS
  Address,        \* proxy addresses
  Listed,         \* the proxies that the sources and the API may name
  Sources,        \* ids of the sources
  Reverify,       \* the pseudo-source id 0
  Workers,        \* probing goroutines (128 in the code)
  Reverifiers,    \* the goroutines that handleReverify starts, at once
  Buffer,         \* capacity of each of the channels (512 in the code)
  maxReverifies,  \* 5 in the code
  enableHttpRescue,
  ManualStart,    \* TRUE: POST /api/refresher/:name starts a source at will
  MaxLaunches, MaxSignals, MaxDeletes, MaxEvictions, \* bounds on the inputs
  MaxEarly,       \* bound on the ticks from the first one on that comes before
                  \* the goroutine of an earlier tick has launched its batch
  NoVerify        \* not a verify

Protos == {"HTTP", "HTTPS", "SOCKS4", "SOCKS5"}

Proxies == [addr : Address, proto : Protos]

SourceIds == Sources \cup {Reverify}

Verify == [proxy : Proxies, source : SourceIds, attempt : Nat]

ASSUME ProbeAssumption ==
  /\ IsFiniteSet(Proxies)
  /\ Listed \subseteq Proxies
  /\ Reverify \notin Sources
  /\ Buffer \in Nat \ {0}
  /\ maxReverifies \in Nat \ {0}
  /\ enableHttpRescue \in BOOLEAN
  /\ ManualStart \in BOOLEAN
  /\ NoVerify \notin Verify

ASSUME BoundsAssumption ==
  {MaxLaunches, MaxSignals, MaxDeletes, MaxEvictions, MaxEarly} \subseteq Nat

VARIABLES
  chan,            \* the channels, oldest message first
  outbox,          \* per goroutine: the sends it still has to make
  LastReverified,  \* the reverify backlog: attempts of a proxy, 0 = no entry
  Blacklist, Seen, SeenSources,
  checking,        \* per worker: the verify inside checker.Check
  reverify,        \* per reverify goroutine: its pc
  batch,           \* per reverify goroutine: what it has not scheduled yet
  feed,            \* per source: is its refresh goroutine between Launch and Finish
  stats,
  pool,            \* per proxy: number of entries in its shard
  pendingEviction, \* evicted from the shards, not yet collected by the probe
  removing,        \* the proxy HttpDeletetByID removes after its send
  inputs           \* how many inputs of each kind were spent

vars == <<chan, outbox, LastReverified, Blacklist, Seen, SeenSources, checking,
          reverify, batch, feed, stats, pool, pendingEviction, removing, inputs>>

Channels == {"scheduled", "probing", "forget", "timeout", "found"}

Goroutines == Workers \cup Sources \cup Reverifiers \cup {"main", "evictor", "api"}

\* The goroutines are finitely many and named apart.
ASSUME GoroutinesAssumption ==
  /\ IsFiniteSet(Goroutines)
  /\ Workers \cap (Sources \cup Reverifiers) = {} /\ Sources \cap Reverifiers = {}
  /\ (Workers \cup Sources \cup Reverifiers) \cap {"main", "evictor", "api"} = {}

Send == [ch : Channels, v : Verify]

maps == <<LastReverified, Blacklist, Seen, SeenSources>>
world == <<feed, pendingEviction, removing, inputs>>
----------------------------------------------------------------------------
Init ==
  /\ chan = [c \in Channels |-> <<>>]
  /\ outbox = [g \in Goroutines |-> <<>>]
  /\ LastReverified = [p \in Proxies |-> 0]
  /\ Blacklist = {}
  /\ Seen = {}
  /\ SeenSources = [p \in Proxies |-> {}]
  /\ checking = [w \in Workers |-> NoVerify]
  /\ reverify = [r \in Reverifiers |-> "none"]
  /\ batch = [r \in Reverifiers |-> {}]
  /\ feed = [s \in Sources |-> FALSE]
  /\ stats = [s \in SourceIds |-> NoStat]
  /\ pool = [p \in Proxies |-> 0]
  /\ pendingEviction = <<>>
  /\ removing = {}
  /\ inputs = [launches |-> 0, signals |-> 0, deletes |-> 0, evictions |-> 0,
               early |-> 0]

Update(s, u) == stats' = [stats EXCEPT ![s] = handleUpdate(@, u)]

Msg(c, v) == [ch |-> c, v |-> v]

\* A goroutine comes to its next sends.
Post(g, sends) == outbox' = [outbox EXCEPT ![g] = sends]

Free(g) == outbox[g] = <<>>

\* A blocked send goes through: the channel has room.
Deliver(g) ==
  /\ ~Free(g)
  /\ LET m == Head(outbox[g])
     IN  /\ Len(chan[m.ch]) < Buffer
         /\ chan' = [chan EXCEPT ![m.ch] = Append(@, m.v)]
  /\ outbox' = [outbox EXCEPT ![g] = Tail(@)]
  /\ UNCHANGED <<maps, checking, reverify, batch, stats, pool, world>>

Received(c) == chan' = [chan EXCEPT ![c] = Tail(@)]
----------------------------------------------------------------------------
(* The select loop of internal.main: one action per case.  The goroutine   *)
(* is at its select exactly when it is not blocked in handleScheduled.     *)

AtSelect(c) == Free("main") /\ chan[c] # <<>>

handleScheduled ==
  /\ AtSelect("scheduled")
  /\ Received("scheduled")
  /\ LET v == Head(chan["scheduled"])
         p == v.proxy
         backlog == LastReverified[p] > 0 /\ v.attempt = 0
     IN  /\ SeenSources' = [SeenSources EXCEPT ![p] = @ \cup {v.source}]
         /\ \/ /\ p \in Blacklist
               /\ Update(v.source, "Ignored")
               /\ LastReverified' = [LastReverified EXCEPT ![p] = 0]
               /\ UNCHANGED outbox
            \/ /\ p \notin Blacklist /\ backlog
               /\ Update(v.source, "Ignored")
               /\ UNCHANGED <<LastReverified, outbox>>
            \/ /\ p \notin Blacklist /\ ~backlog /\ p \in Seen
               /\ Update(v.source, "Ignored")
               /\ LastReverified' = [LastReverified EXCEPT ![p] = 0]
               /\ UNCHANGED outbox
            \/ /\ p \notin Blacklist /\ ~backlog /\ p \notin Seen
               /\ Update(v.source, "New")
               /\ Post("main", <<Msg("probing", v)>>)
               /\ UNCHANGED LastReverified
  /\ UNCHANGED <<Blacklist, Seen, checking, reverify, batch, pool, world>>

\* Mutant of Blacklisted: what failed leaves the backlog and nothing else.
BlacklistedNot(ps) == Blacklist

Blacklisted(ps) == Blacklist \cup ps

handleForget ==
  /\ AtSelect("forget")
  /\ Received("forget")
  /\ LET v == Head(chan["forget"])
     IN  /\ Update(v.source, "Blacklisted")
         /\ LastReverified' = [LastReverified EXCEPT ![v.proxy] = 0]
         /\ Blacklist' = Blacklisted({v.proxy})
  /\ UNCHANGED <<outbox, Seen, SeenSources, checking, reverify, batch, pool, world>>

\* Mutant of nextAttempt: it counts down.
nextAttemptDown(v) == v.attempt - 1

nextAttempt(v) == v.attempt + 1

handleTimeout ==
  /\ AtSelect("timeout")
  /\ Received("timeout")
  /\ LET v == Head(chan["timeout"])
     IN  /\ Update(v.source, "Timeout")
         /\ LastReverified' = [LastReverified EXCEPT ![v.proxy] = nextAttempt(v)]
  /\ UNCHANGED <<outbox, Blacklist, Seen, SeenSources, checking, reverify, batch,
                 pool, world>>

handleFound ==
  /\ AtSelect("found")
  /\ Received("found")
  /\ LET p == Head(chan["found"]).proxy
     IN  /\ LastReverified' = [LastReverified EXCEPT ![p] = 0]
         /\ Seen' = Seen \cup {p}
  /\ UNCHANGED <<outbox, Blacklist, SeenSources, checking, reverify, batch, stats,
                 pool, world>>

\* What an HTTP(S) entry of the backlog is probed as the next time.
Swap(p) ==
  CASE p.proto = "HTTP"  -> [p EXCEPT !.proto = "HTTPS"]
    [] p.proto = "HTTPS" -> [p EXCEPT !.proto = "HTTP"]
    [] OTHER             -> p

Backlog == {p \in Proxies : LastReverified[p] > 0}

\* Mutant of Exceeded: one reverification too many.
ExceededLate == {p \in Backlog : LastReverified[p] > maxReverifies + 1}

Exceeded == {p \in Backlog : LastReverified[p] > maxReverifies}

\* Mutant of AfterReverify: the batch takes the entries out of the backlog.
AfterReverifyTaken(p) == 0

\* An entry stays in the backlog while it is probed again.
AfterReverify(p) == IF p \in Exceeded THEN 0 ELSE LastReverified[p]

\* One handleForget with source Reverify for each of n exceeded entries.  It
\* runs when the Stat is not running, so no intermediate update settles it.
ForgetExceeded(st, n) ==
  IF n = 0 THEN st ELSE Settle([Known(st) EXCEPT !.Probing = @ - n])

\* A tick is early when a goroutine that another one started has not reached
\* its LaunchAnticipated: IsRunning does not know of its batch yet.  (The ticks
\* are 30 minutes apart.)
Early == \E r \in Reverifiers : reverify[r] = "launch"

\* From the first early tick on they are counted.
Ticked ==
  IF Early \/ inputs.early > 0
  THEN inputs.early < MaxEarly /\ inputs' = [inputs EXCEPT !.early = @ + 1]
  ELSE UNCHANGED inputs

\* A goroutine starts with this batch.
Go(b) ==
  \E r \in Reverifiers :
    /\ reverify[r] = "none"
    /\ reverify' = [reverify EXCEPT ![r] = "launch"]
    /\ batch' = [batch EXCEPT ![r] = b]

\* The timer case.
handleReverify ==
  /\ Free("main")
  /\ Ticked
  /\ ~IsRunning(stats[Reverify])
  /\ LET again == Backlog \ Exceeded
     IN  /\ Backlog # {}
         /\ LastReverified' = [p \in Proxies |-> AfterReverify(p)]
         /\ Blacklist' = Blacklisted(Exceeded)
         /\ stats' = [stats EXCEPT ![Reverify] =
                                 ForgetExceeded(@, Cardinality(Exceeded))]
         /\ IF again = {} THEN UNCHANGED <<reverify, batch>>
            ELSE Go({[proxy |-> Swap(p), attempt |-> LastReverified[p]] : p \in again})
  /\ UNCHANGED <<chan, outbox, Seen, SeenSources, checking, pool, feed, pendingEviction,
                 removing>>
----------------------------------------------------------------------------
(* A goroutine that handleReverify starts.                                 *)

reverifyLaunch(r) ==
  /\ reverify[r] = "launch"
  /\ Update(Reverify, "Launched")
  /\ reverify' = [reverify EXCEPT ![r] = "send"]
  /\ UNCHANGED <<chan, outbox, maps, checking, batch, pool, world>>

reverifySchedule(r) ==
  /\ reverify[r] = "send" /\ Free(r)
  /\ \E b \in batch[r] :
       /\ Update(Reverify, "Scheduled")
       /\ Post(r, <<Msg("scheduled", [proxy |-> b.proxy, source |-> Reverify,
                                       attempt |-> b.attempt])>>)
       /\ batch' = [batch EXCEPT ![r] = @ \ {b}]
  /\ UNCHANGED <<chan, maps, checking, reverify, pool, world>>

reverifyFinish(r) ==
  /\ reverify[r] = "send" /\ Free(r) /\ batch[r] = {}
  /\ Update(Reverify, "Finished")
  /\ reverify' = [reverify EXCEPT ![r] = "none"]
  /\ UNCHANGED <<chan, outbox, maps, checking, batch, pool, world>>
----------------------------------------------------------------------------
(* Probe.worker.                                                           *)

workerTake(w) ==
  /\ checking[w] = NoVerify /\ Free(w)
  /\ chan["probing"] # <<>>
  /\ Received("probing")
  /\ LET v == Head(chan["probing"])
     IN  /\ Update(v.source, "Probing")
         /\ checking' = [checking EXCEPT ![w] = v]
  /\ UNCHANGED <<outbox, maps, reverify, batch, pool, world>>

AsHttp(p) == [p EXCEPT !.proto = "HTTP"]

\* checker.Check answers with an error: what the worker sends for it.
workerError(w) ==
  /\ checking[w] # NoVerify
  /\ LET v == checking[w]
         rescued == [v EXCEPT !.proxy = AsHttp(v.proxy)]
     IN  \/ /\ enableHttpRescue  \* isHttpProxy(err)
            /\ Post(w, <<Msg("timeout", rescued), Msg("forget", v)>>)
         \/ Post(w, <<Msg("timeout", v)>>)  \* isTemporary(err)
         \/ Post(w, <<Msg("forget", v)>>)
  /\ checking' = [checking EXCEPT ![w] = NoVerify]
  /\ UNCHANGED <<chan, maps, reverify, batch, stats, pool, world>>

workerFound(w) ==
  /\ checking[w] # NoVerify
  /\ LET v == checking[w]
     IN  /\ Update(v.source, "Found")
         /\ pool' = [pool EXCEPT ![v.proxy] = @ + 1]
         /\ Post(w, <<Msg("found", v)>>)
  /\ checking' = [checking EXCEPT ![w] = NoVerify]
  /\ UNCHANGED <<chan, maps, reverify, batch, world>>
----------------------------------------------------------------------------
(* Evictions and removals.                                                 *)

\* Mutant of Forgotten: what left the pool is queued for another probe.
ForgottenAsTimeout(p) == Msg("timeout", [proxy |-> p, source |-> Reverify, attempt |-> 0])

Forgotten(p) == Msg("forget", [proxy |-> p, source |-> Reverify, attempt |-> 0])

\* shard.checkEviction drops an entry and remembers its proxy.
checkEviction(p) ==
  /\ pool[p] > 0 /\ inputs.evictions < MaxEvictions
  /\ pool' = [pool EXCEPT ![p] = @ - 1]
  /\ pendingEviction' = Append(pendingEviction, p)
  /\ inputs' = [inputs EXCEPT !.evictions = @ + 1]
  /\ UNCHANGED <<chan, outbox, maps, checking, reverify, batch, feed, stats, removing>>

gatherEvictions ==
  /\ Free("evictor") /\ pendingEviction # <<>>
  /\ Post("evictor", [i \in DOMAIN pendingEviction |-> Forgotten(pendingEviction[i])])
  /\ pendingEviction' = <<>>
  /\ UNCHANGED <<chan, maps, checking, reverify, batch, feed, stats, pool, removing, inputs>>

HttpDeletetByID(p) ==
  /\ Free("api") /\ removing = {} /\ inputs.deletes < MaxDeletes
  /\ Post("api", <<Forgotten(p)>>)
  /\ removing' = {p}
  /\ inputs' = [inputs EXCEPT !.deletes = @ + 1]
  /\ UNCHANGED <<chan, maps, checking, reverify, batch, feed, stats, pool, pendingEviction>>

\* pool.Remove drops every entry of the proxy, after the send went through.
deletePoolRemove ==
  /\ Free("api") /\ removing # {}
  /\ pool' = [p \in Proxies |-> IF p \in removing THEN 0 ELSE pool[p]]
  /\ removing' = {}
  /\ UNCHANGED <<chan, outbox, maps, checking, reverify, batch, feed, stats,
                 pendingEviction, inputs>>
----------------------------------------------------------------------------
(* Refresher.refresh for source s.                                         *)

\* checkSources starts only a source that is neither running nor failed; a
\* request to the API starts any source whose refresh goroutine has ended.
refreshLaunch(s) ==
  /\ ~feed[s] /\ Free(s) /\ inputs.launches < MaxLaunches
  /\ ManualStart \/ stats[s].state \in {"absent", "idle"}
  /\ Update(s, "Launched")
  /\ feed' = [feed EXCEPT ![s] = TRUE]
  /\ inputs' = [inputs EXCEPT !.launches = @ + 1]
  /\ UNCHANGED <<chan, outbox, maps, checking, reverify, batch, pool, pendingEviction, removing>>

Schedule(s, p) ==
  /\ feed[s] /\ Free(s) /\ inputs.signals < MaxSignals
  /\ Update(s, "Scheduled")
  /\ Post(s, <<Msg("scheduled", [proxy |-> p, source |-> s, attempt |-> 0])>>)
  /\ inputs' = [inputs EXCEPT !.signals = @ + 1]
  /\ UNCHANGED <<chan, maps, checking, reverify, batch, feed, pool, pendingEviction, removing>>

Forget(s, p) ==
  /\ feed[s] /\ Free(s) /\ inputs.deletes < MaxDeletes
  /\ pool' = [pool EXCEPT ![p] = 0]
  /\ Post(s, <<Forgotten(p)>>)
  /\ inputs' = [inputs EXCEPT !.deletes = @ + 1]
  /\ UNCHANGED <<chan, maps, checking, reverify, batch, feed, stats, pendingEviction, removing>>

refreshFinish(s) ==
  /\ feed[s] /\ Free(s)
  /\ \E u \in {"Finished", "FinishedErr"} : Update(s, u)
  /\ feed' = [feed EXCEPT ![s] = FALSE]
  /\ UNCHANGED <<chan, outbox, maps, checking, reverify, batch, pool, pendingEviction,
                 removing, inputs>>
----------------------------------------------------------------------------
main == handleScheduled \/ handleForget \/ handleTimeout \/ handleFound \/ handleReverify

reverifying(r) == reverifyLaunch(r) \/ reverifySchedule(r) \/ reverifyFinish(r)

worker(w) == workerTake(w) \/ workerError(w) \/ workerFound(w)

refresh(s) ==
  \/ refreshLaunch(s)
  \/ \E p \in Listed : Schedule(s, p) \/ Forget(s, p)
  \/ refreshFinish(s)

Next ==
  \/ \E g \in Goroutines : Deliver(g)
  \/ main
  \/ \E r \in Reverifiers : reverifying(r)
  \/ \E w \in Workers : worker(w)
  \/ \E p \in Proxies : checkEviction(p)
  \/ gatherEvictions
  \/ \E p \in Listed : HttpDeletetByID(p)
  \/ deletePoolRemove
  \/ \E s \in Sources : refresh(s)

Spec == Init /\ [][Next]_vars

\* Every goroutine that can step eventually does; its steps, the sends among
\* them, follow each other, so one condition covers all of them.  Go picks
\* among the ready cases of a select at random, hence strong fairness for
\* internal.main: a case that is ready again and again is chosen.  Inputs
\* need not come.
Fairness ==
  /\ WF_vars(Deliver("main"))
  /\ SF_vars(handleScheduled) /\ SF_vars(handleForget) /\ SF_vars(handleTimeout)
  /\ SF_vars(handleFound) /\ SF_vars(handleReverify)
  /\ \A r \in Reverifiers : WF_vars(Deliver(r) \/ reverifying(r))
  /\ \A w \in Workers : WF_vars(Deliver(w) \/ worker(w))
  /\ WF_vars(Deliver("evictor") \/ gatherEvictions)
  /\ WF_vars(Deliver("api") \/ deletePoolRemove)
  /\ \A s \in Sources : WF_vars(Deliver(s) \/ refreshFinish(s))

FairSpec == Spec /\ Fairness
----------------------------------------------------------------------------
(* Properties.                                                             *)

TypeOK ==
  /\ chan \in [Channels -> Seq(Verify)]
  /\ outbox \in [Goroutines -> Seq(Send)]
  /\ LastReverified \in [Proxies -> Nat]
  /\ Blacklist \subseteq Proxies
  /\ Seen \subseteq Proxies
  /\ SeenSources \in [Proxies -> SUBSET SourceIds]
  /\ checking \in [Workers -> Verify \cup {NoVerify}]
  /\ reverify \in [Reverifiers -> {"none", "launch", "send"}]
  /\ batch \in [Reverifiers -> SUBSET [proxy : Proxies, attempt : Nat]]
  /\ feed \in [Sources -> BOOLEAN]
  /\ stats \in [SourceIds -> Stat]
  /\ pool \in [Proxies -> Nat]
  /\ pendingEviction \in Seq(Proxies)
  /\ removing \subseteq Proxies
  /\ inputs \in [launches : Nat, signals : Nat, deletes : Nat, evictions : Nat,
               early : Nat]

VerifyInRange == [proxy : Proxies, source : SourceIds, attempt : 0..maxReverifies]

\* Nothing anywhere in the pipeline is probed beyond maxReverifies, so an
\* entry of the backlog has an attempt in 1..maxReverifies+1: Probe.HttpGet
\* indexes an array of maxReverifies+1 elements with Attempt-1 and would
\* panic otherwise.
AttemptsInRange ==
  /\ \A c \in Channels : chan[c] \in Seq(VerifyInRange)
  /\ \A g \in Goroutines : outbox[g] \in Seq([ch : Channels, v : VerifyInRange])
  /\ \A w \in Workers : checking[w] \in VerifyInRange \cup {NoVerify}
  /\ \A r \in Reverifiers : \A b \in batch[r] : b.attempt \in 1..maxReverifies
  /\ \A p \in Proxies : LastReverified[p] \in 0..(maxReverifies + 1)

\* The proxies named by messages in channel c, and by the sends on their way to it.
Queued(c) ==
  {chan[c][i].proxy : i \in DOMAIN chan[c]} \cup
  UNION {{outbox[g][i].v.proxy : i \in {j \in DOMAIN outbox[g] : outbox[g][j].ch = c}} :
            g \in Goroutines}

Checked == {checking[w].proxy : w \in {x \in Workers : checking[x] # NoVerify}}

\* No proxy falls between the goroutines: one that internal.main has taken
\* from a source is decided (Seen or Blacklist), waits in the reverify
\* backlog, or is on its way through the workers, however the handlers that
\* delete from the backlog interleave with results still in flight.
NoProxyLost ==
  \A p \in Proxies : SeenSources[p] # {} =>
    \/ p \in Seen \cup Blacklist
    \/ LastReverified[p] > 0
    \/ p \in Queued("probing") \cup Checked
    \/ p \in Queued("forget") \cup Queued("timeout") \cup Queued("found")

\* A proxy of Seen, which every later schedule of it ignores as "in pool", is
\* in the pool or has been removed from it by somebody who has blacklisted
\* it or is about to.
SeenInPool ==
  \A p \in Seen :
    \/ pool[p] > 0
    \/ p \in Blacklist \cup Queued("forget")
    \/ \E i \in DOMAIN pendingEviction : pendingEviction[i] = p

\* Two reverify goroutines are at work at once only after an early tick.  From
\* the launch of a batch to its finish the IsRunning check of handleReverify
\* keeps another from starting; between the start of the goroutine and its
\* LaunchAnticipated nothing does ("at the moment, two reverifies can be
\* running", internal.go:117).
OneReverifyBatch ==
  \A r, q \in Reverifiers :
    reverify[r] # "none" /\ reverify[q] # "none" /\ r # q => inputs.early > 0

Holding(s, sends) == Cardinality({i \in DOMAIN sends : sends[i].source = s})

Sends == UNION {{<<g, i>> : i \in DOMAIN outbox[g]} : g \in Goroutines}

Sending(s, cs) == Cardinality(
  {x \in Sends : outbox[x[1]][x[2]].v.source = s /\ outbox[x[1]][x[2]].ch \in cs})

\* The counters of a source are exactly the items of that source in the
\* channels and goroutines, so a source becomes idle when its last item has
\* left the pipeline and not before.  The Stat of Reverify counts only while
\* a batch runs.
StatsConserved ==
  \A s \in SourceIds : s \in Sources \/ IsRunning(stats[s]) =>
    /\ stats[s].Scheduled = Holding(s, chan["scheduled"]) + Sending(s, {"scheduled"})
    /\ stats[s].New = Holding(s, chan["probing"]) + Sending(s, {"probing"})
    /\ stats[s].Probing = Cardinality({w \in Workers : checking[w] # NoVerify
                                                     /\ checking[w].source = s})
                          + Holding(s, chan["forget"]) + Holding(s, chan["timeout"])
                          + Sending(s, {"forget", "timeout"})

\* A source that was launched comes to rest, idle or failed (internal.go:11,
\* "Running --> Failed", and :12, "Running --> Idle").
SourceSettles ==
  \A s \in SourceIds : IsRunning(stats[s]) ~> ~IsRunning(stats[s])

\* Every proxy taken from a source is decided in the end, found or blacklisted
\* after at most maxReverifies further attempts (README.md:34); an HTTP(S)
\* proxy that timed out is probed again, and decided, as the other of the two.
EventuallyDecided ==
  \A p \in Listed : SeenSources[p] # {} ~> {p, Swap(p)} \cap (Seen \cup Blacklist) # {}
=============================================================================
