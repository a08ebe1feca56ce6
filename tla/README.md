# slrp: specifications, model checks and proofs

[slrp](../src/README.md) collects open proxies from public lists, probes them,
keeps the working ones in a pool and forwards HTTP requests through them. It is
one Go process of many goroutines that own their state and talk over channels.
This directory models what the goroutines do to each other, from the start of
the services to the answer of a request, and the algorithms they rest on: the
query language, the encoding of proxies, the verdict on a proxy.
Paths such as `probe/internal.go` are relative to `src/`.

## 1. The system

| Component | State | Operations | Talks to |
|---|---|---|---|
| sources (`sources/`) | none between refreshes | a feed per site: fetch, retry, emit signals (add a proxy, forget one) | refresher |
| refresher (`refresher/refresher.go`) | `active` tasks, `next`, `plan` | timer (`checkSources`), `start`, `stop`, `finish`, one `refresh` goroutine per task | feeds, probe, stats, pool (as an HTTP transport) |
| stats (`stats/stats.go`) | one `Stat` per source: counters, state, `finished` | `Launch`, `Update`, `Finish`, `Snapshot` | called by refresher, probe |
| probe (`probe/`) | `LastReverified` (backlog), `Blacklist`, `Seen`, `SeenSources`, failure reasons | handlers of five channels, reverify timer, 128 workers, eviction gatherer, delete API | checker, pool, stats |
| checker (`checker/`) | current IP | `Check`: speed or an error | network |
| pool (`pool/`) | shards of entries, pending evictions, a serial number | `Add`, `Remove`, `RoundTrip`, workers, minute tickers, reanimation, eviction | callers of `RoundTrip`, probe, history, dialer |
| rolling counter (`pool/counter/`) | ring of intervals, sum, position | `Add`, marshal, unmarshal | entries of the pool |
| fabric (`app/fabric.go`) | `updated`, `flushed` per service; a file and a backup per service | heartbeats, sync ticker, flush, load | every service |
| factories (`app/factories.go`) | none | resolves the services and their start order | fabric |
| history (`history/`) | the last requests, appearances per proxy | record, get, filter | pool (its transport), dashboards, fabric (heartbeats) |
| proxy servers (`serve/`) | a session number; per connection: plain or tunnel | `ServeHTTP`, `handleConnect`, handshake, loop over inner requests | clients, pool |
| proxy encoding (`pmux/`) | none | packing of address, port, protocol into 64 bits; shard of a proxy | everybody |
| query language (`ql/`) | none | lexer, parser, optimizer, evaluator, sorting, facets | dashboards of pool, history, probe |
| dialer, ipinfo, ui, config | VPN configuration, database file | dialling, look-ups, display | pool, dashboards |

A proxy travels like this: a feed emits it, `refresh` calls `Probe.Schedule`,
`internal.main` decides whether it is new and hands it to a worker, the worker
asks the checker and answers with found, timeout or forget; a found one enters
the pool, a timed-out one the backlog, from which the reverify timer schedules
it again, a bad one the blacklist. A shard evicts entries that keep failing;
the probe collects them every minute and blacklists them.

What is hard here, and what each component must get right:

* **probe**: one item visits up to four goroutines and five bounded channels
  while other copies of it, evictions and deletes do the same. No proxy may be
  lost; a proxy that is ignored because it is in the pool must be there; the
  counters of a source must return to zero exactly when its last item is
  decided, otherwise the source (or the reverify timer) never runs again.
* **pool**: replies arrive for entries that were evicted, removed or suspended
  meanwhile; suspension has two fields that four operations write; retries are
  bounded by two limits in two goroutines; the caller waits on a channel that
  three goroutines in turn are responsible for answering.
* **rolling counter**: a ring with a running sum, pauses longer than the ring,
  narrow integers, restarts.
* **refresher**: starts, stops and late finish messages of one source; a limit
  on parallel refreshes; sources must be refreshed again.
* **source feeds**: generators and forwarders over unbuffered channels that end,
  fail, panic or are cancelled in any order; the refresh must end, lose nothing
  and read a settled error.
* **fabric**: a crash between any two steps of a flush, a file that cannot be
  renamed, created or written, changes during a flush, before `sync` runs, and
  without a heartbeat.
* **factories**: the start order is computed over maps in any order, from edges
  that are listed in both directions; a service must be started once and after
  everything it depends on.
* **history and servers**: every attempt of every request, and every redirection
  that an attempt follows, passes one channel whose receiver waits for
  `Fabric.sync`; what one request leaves there must stay in order, and nobody may
  wait forever beside a client that goes away.
* **query language**: a generated table-driven parser on a stack of limited size,
  an evaluator whose type assertions rely on the optimizer, ranges of floating
  point numbers, and cards whose texts are queries again.
* **checker and page fetching**: errors that are wrapped on their way up and
  must still say whether they are temporary and which proxy they blame.

## 2. Modules

| Module | Models | Used by |
|---|---|---|
| `Stats`, `StatsProofs` | a `Stat` and `handleUpdate` (pure) | `Probe`, `Refresher` |
| `Probe`, `MCProbe`, `ProbeProofs` | package probe, with the refresh goroutines and the pool as environment | |
| `Entry` | `pool/entry.go` (pure operations on an entry) | `Pool` |
| `Pool`, `MCPool`, `PoolProofs` | shards, `RoundTrip`, workers, tickers, restart | |
| `SlidingWindow` | abstract: what a rolling counter promises | `RollingCounter` |
| `RollingCounter` | `pool/counter/rolling_counter.go`, refines `SlidingWindow` | `Algorithms` |
| `Refresher`, `MCRefresher`, `RefresherProofs` | package refresher; the probe is "an item is decided some time later" | |
| `Feed`, `FeedProofs` | `sources/try.go` and the loop of `Refresher.refresh` that consumes it | |
| `Startup` | `app/factories.go` and the phases of `Fabric.Start` | `Fabric` |
| `Fabric`, `MCFabric`, `FabricProofs` | heartbeats, flush, load, failing files, crash, on top of `Startup` | |
| `History` | `history/history.go` | `Traffic` |
| `Serve` | `serve/http_proxy.go`, `serve/mitm_proxy.go` | `Traffic` |
| `Traffic`, `MCTraffic`, `TrafficProofs` | composition: server, attempts of the pool, round tripper, history, dashboards | |
| `QueryAst`, `QueryParser` | the tree; lexer, goyacc tables, parser loop, reductions | `QueryFacets` |
| `QueryFields`, `QueryRecords` | the fields of a dataset; typing, evaluation and comparison, one node and one record at a time | `QueryEval`, `AlgorithmsProofs` |
| `Ranges` | the ranges a facet cuts a column of numbers into | `QueryFacets`, `Algorithms` |
| `QueryFacets`, `QueryEval` | facets and cards; the walks over the tree, sorting, `Dataset.Query` | `Queries` |
| `QueryMeaning` | abstract: what a filter means | `Queries`, `AlgorithmsProofs` |
| `Datasets` | the four generated datasets: getters, sorters, default order, facets | `Queries` |
| `Pmux`, `Fetch` | `pmux/proxy.go`; `sources/util.go`, `sources/errors.go` | `Algorithms` |
| `Checker` | `checker/checker.go` | `Algorithms` |
| `Algorithms`, `MCAlgorithms`, `AlgorithmsProofs` | the counter, and the inputs of proxy numbers, checker, fetching and ranges with their reference definitions | |
| `Queries` | the inputs of the query language with their reference definitions, beside those of `Algorithms` | `MCAlgorithms` |

**Probe.** The five channels are bounded sequences. A goroutine that reaches
channel sends posts them to its `outbox`; `Deliver` moves one message when the
channel has room, so a full channel blocks exactly the goroutine that stands at
it, `internal.main` included. Each case of `internal.main`'s select is one
action. Calls to the stats goroutine are synchronous in the code (an unbuffered
channel) and are part of the action that makes them. `checker.Check` answers
anything. `handleReverify` looks at the Stat of source 0, which the goroutine it
starts sets only when it runs: a tick before that (`Early`) may start a second
goroutine, as `internal.go:117` says. Ticks are half an hour apart, so `MaxEarly`
bounds how many may be early. A proxy is a record of address and protocol, since the backlog swaps
HTTP and HTTPS and the rescue turns proxies into HTTP. The pool is a number of
entries per proxy. `ReverifyCounter`, `ReverifyAttempts`, the failure reasons
and all display counters are left out. A verification the code calls with the
empty proxy (0) is dropped by `Schedule` before it reaches a channel.

**Pool.** A shard is a set of ranks (the entries in their order of speed); an
entry is a record of what decides anything: `Ok`, `ReanimateAfter` as the
minutes left, `Reanimated`, and the sums of the four short rolling counters. A
sum changes only by an increment, which first drops any part of it
(`Bump`): that is what `RollingCounter` allows. A client is one caller of
`RoundTrip` with everything the hand-over goroutine, the queue and the worker
hold for it. A reply to an entry that left its shard changes nothing anybody
reads. The `halter` and its back-pressure are left out: nothing sends to
`pool.pressure`.

**RollingCounter.** Time is the number of intervals since the last addition,
converted to 16 bits as in the code. The refinement mapping turns the ring so
that index 0 is the current interval. After a pause longer than `exact`, which
for the code is the largest int16, `SlidingWindow` may drop fewer intervals than
have passed (the code takes the pause modulo 2^16, `rolling_counter.go:35`), but
its total is still the sum of what it keeps.

**Refresher.** A refresh goroutine is a pair of a source and a number; `due` is
the set of sources whose frequency has passed. `finish` has capacity 1, as in
the code. `next` never matters beyond "the timer fires again".

**Feed.** The channels are unbuffered, so a message passes in one step of sender
and receiver (`take`, `receive`); a goroutine that stands at a send has the
signal as its program counter. A source is either a `mergeSrc` of all
generators or a single one, chosen in `Init`. `listPage`, `failPage`,
`skipPage` and `panicPage` are the ways a call of a scraper can end. `Refresher`
takes the result of all this as "the feed ends, with an error or without".

**Startup and Fabric.** A parameter of a factory is the set of factories whose
product matches its type, so a wiring may be ambiguous, incomplete or cyclic.
`ordered` is one round of the queue loop; what becomes ready in a round enters
the queue in any order, since Go walks maps in any order. Then come `resolve`,
the rounds of `configureServices`, `loadState` and `startAll`, and `sync`. A
service that has been started may change and stand at its first heartbeat while
`sync` is not running yet. The state of a service is a version number; a file
holds a version, is incomplete or does not exist. A change is announced by a
heartbeat or silent, as it is in `handleScheduled` and `handleReverify` of the
probe (`internal.go:105`, `:115`) and in `handleReply` and `forceReanimate` of a
shard (`shard.go:92`, `:103`). The rename may fail, after which `flush` goes on
and truncates the file where it is (`flushRename`); `os.MkdirAll` and `os.Create`
may fail (`flushFail`); and so may the encoding, which leaves an incomplete file
(`flushEncode`). `refused` remembers of which services the disk has refused a
rename or an encoding since their last completed flush. A crash may happen
between any two steps, those of the startup included, and starts the program
again.

**Traffic.** A connection is a plain client or sends CONNECT. `ServeHTTP` waits
for its session number, `handleConnect` and `handleHandshake` open the tunnel,
`readRequest` and `writeResponse` are the loop of `handleInnerHttp`. A request
makes attempts as `Pool.RoundTrip` does (proved bounded in `PoolProofs`). One that
meets a shard without proxies (552) leaves no record; the next one asks the next
shard, until all were asked (`exhausted`). Any other passes
`roundTripper.RoundTrip`, which blocks at `History.Record` while the channel is
full. If its proxy answers with a redirection, `http.Client.Do` (external) sends
another request through the same proxy, which is recorded under the same serial
and attempt (`followed`); `hop` tells them apart. `RoundTrip` looks at the
client's context only before an attempt (`cancelled`); a client that goes away
while its request is handed over to the workers leaves `RoundTrip` waiting for
good (`abandoned`, `shard.go:243`). `History.main` takes records, answers dashboards and stands at
a heartbeat after every record. `sent` is a history variable: everything that
was put in the channel. The context of a tunnel's requests never ends
(`http_proxy.go:136`), so only plain requests see their client go away.

**Query language.** A text is the sequence of words that `text/scanner` finds
in it (external). The tables are those of `parser.go`, the loop is `parse`, and
the semantic actions are `reduction`. Nodes are records. The evaluator's type
assertions may give `Panic`, which is what the properties rule out. What Go
does with texts (order, lower case, substring) is given by constants over a
small set of texts. `Node.Transform` calls its callback on every child once by
the child and once by its parent; `transform` and `evaluate` do the same. They
are `RECURSIVE` operators; what they do at one node is in `QueryRecords`, with
the recursive call as a parameter, so that it can be proved about. The
names of number cards, and with them the order of cards of equal count, are
left out. The queries of the cards go through the same words and the same lexer
as those of users, so a text that a card leaves unquoted may be unreadable there
(`Readable` says which are not).

**Pmux, Checker, Fetch.** The widths of the parts of a proxy number are
constants; the run looks at every number of a small width, whose upper half is
negative as an int. A page's answer is an error or the set of marks the code
looks for in it; the page is chosen at random, so a check has a set of outcomes.
The strategy `headers` is modelled as the code has it, the same as `simple`
(section 3).
A fetched reply has a status, a set of contents, a failure to read it and the
proxy it came through.

## 3. Runs

All bounds are small on purpose: the races need two copies of one proxy, two
entries in a shard, two tasks of a source, two services; nothing in the code
treats a third one differently.

| Run | Instance | Shows |
|---|---|---|
| `probe_pipeline` | one HTTP proxy listed twice, two workers, channels of 3, one reverification | `NoProxyLost`, `StatsConserved`, `SourceSettles`, `EventuallyDecided` |
| `probe_removals` | one SOCKS proxy with rescue, eviction, deletes by API and feed, two workers, two reverify goroutines, one early tick, channels of 1 | `TypeOK`, `AttemptsInRange`, `SeenInPool`, `OneReverifyBatch` |
| `pool_safety` | two shards, one of them empty, two entries of one proxy, cancellation, restart | `TypeOK`, `OkIffAwake`, `AttemptsBounded`, `ExhaustedAskedAll` |
| `pool_live` | two clients that may cancel, one worker, one entry | `RoundTripReturns` |
| `algorithms` | a ring of 4 with pauses up to its turning over and around the wrap of an int16 (32767, 32768, 65536, 65538); 1000 filters over 7 leaves and 4 records, orders, limits, NOT nested to the depth of the stack; 1 to 4 numbers in 1 to 5 ranges; all proxies of 9 bits; all answers of 4 pages; all replies of the pool in 3 attempts | `TypeOK`, `SlidesOver` (refinement), `ParsesPrinted`, `QueryAnswers`, `RangesPartition`, `CardsDrillDown`, `ProxyEncoding`, `ChecksKeepVerdict`, `FetchBlamesProxy` |
| `traffic` | a plain client, whose proxy redirects, and a tunnel, one proxy each, two shards, two requests of two attempts, one redirection, a channel of 1, a history of 1, one dashboard that asks for request 2 | `TypeOK`, `HistoryKeepsLatest`, `RequestsAnswered` |
| `refresher_safety` | two sources, one started and one stopped over the API, `max_scheduled` of 1, which lets both run | `TypeOK`, `OneLiveRefresh`, `InactiveIsQuiet`, `RunningWhileFed`, `SourceRunsAgain` |
| `fabric_flush` | five factories in two right and three wrong wirings, two of them services with two changes each, one crash, renames, creations and encodings that fail | `TypeOK`, `StartsInOrder`, `RestartKeepsFlushed`, `ChangesReachDisk` |
| `feed` | two generators, two proxies and two retries each, cancellation | `NoSendAfterClose`, `QuietAtTheEnd`, `AllDelivered`, `FeedEnds` |
| `probe_evict` | as above with one eviction | **violated**: `SourceSettles` |
| `refresher_limit` | two sources that are due, `max_scheduled` of 1 | **violated**: `ScheduledAtMost` |
| `refresher_failed` | one source whose feed fails | **violated**: `FailedRunsAgain` |

Deadlock is not checked for `Probe`, `Fabric`, `Feed` and `algorithms`: the
inputs of the first two are bounded and the system may rest when they are spent,
a refresh ends, and an input of an algorithm is a state without a step. Workers
and reverify goroutines are symmetric in `probe_removals`, which checks only
invariants. Its constraint `OverlapOrRemovals` does not follow behaviours that
have both an early tick and a removal by eviction, API or feed, nor an early tick
and then the time-out of an HTTPS proxy (swapped by the next batch as the HTTP
proxy before it): two batches, the swap and the removals are explored, but not all
of them together, which would be several times as many states. The theorems about these invariants have no such restriction.

The bounds of `traffic` make every channel full and every list drop its oldest
entry: with room for one record, the second record of any request waits for
`History.main` while the dashboard and the other connection do. The proxy of the
first connection answers every request with a redirection, the last one that is
followed included, so that redirected and failed attempts follow each other; that
of the second answers. Both may find either shard without proxies. The instance of
`algorithms` holds each operator over each pair of leaf kinds, which is where
typing decides, and one level of operators over a selection of the results.
The 64-bit proxies are replaced by 4 bits of address, 2 of port and 3 of
protocol: the code only shifts, masks and compares signs, and the proof of
`ProxyEncoding` covers the real widths.

**Fairness.** Every goroutine that can take a step does so (weak fairness).
Go's select chooses among ready cases at random, so each case of
`internal.main` is strongly fair; blocked senders and receivers of a channel are
served in order, so `enqueue`, `worker` and `refreshReport` are strongly fair.
The HTTP clients have timeouts, so a check and a forwarded request end. Inputs
(launches, signals, deletes, evictions, new requests, cancellations, crashes,
clients, failing disks, ticks that come early) have no fairness. In `Traffic` the handlers of the
server are weakly fair and an attempt is strongly fair, because senders blocked
at a channel are served in turn, and so is a dashboard, because the select of
`History.main` is random; in `Fabric` the ticker fires, and the startup goes on.

### What the violated runs show

* `probe_evict`: `gatherEvictions`, `HttpDeletetByID` and `Forget` post a
  failure with source 0. `handleForget` counts it as Blacklisted of the source
  Reverify, whose `Probing` becomes -1; its Stat is running from then on and
  `handleReverify` returns early at every later tick.
* `refresher_limit`: `checkSources` stops when *more* than `maxScheduled` sources
  are active (`refresher.go:371`), so it starts one too many. `src/README.md:195`
  calls `max_scheduled` the "number of sources to refresh at the same time". That
  it is never more than one too many is the theorem `TimerOvershootsByOne`.
* `refresher_failed`: the next update of a failed source is `trigger` plus a
  minute, compared with `trigger`: always in the future.

### Where the passing properties stop

The instances above stay inside these limits, which the models show as well
when a constant is changed:

* `SourceSettles` also fails with `enableHttpRescue = TRUE` (a rescued item is
  counted out twice, `probe.go:258`), with `ManualStart = TRUE` and two launches
  (a relaunch resets the counters of items in flight, `refresher.go:265`), and
  with `Buffer = 1` and six signals: `internal.main` waits for room in `probing`
  (`internal.go:169`) while the workers wait for room in a result channel.
* `OneReverifyBatch` allows two batches at once after an early tick. They then
  share the Stat of source 0, which the second launch resets while items of the
  first are under way: `StatsConserved` is false then, and `probe_pipeline` and
  the theorem about it have `MaxEarly = 0`.
* `EventuallyDecided` is about a proxy *or its swapped twin*: a timed-out HTTP
  proxy is reverified as HTTPS (`internal.go:269`), and its own entry can stay
  in the backlog when the twin was decided.
* A blacklisted proxy is probed once more if a second copy of it was already
  queued for the workers (`internal.go:145`).
* A shard with a single entry offers it even when it is suspended
  (`shard.go:189`), and an entry put to sleep for its timeouts is put to sleep
  again every minute, because its sums do not change without requests
  (`entry.go:136`).
* `RoundTripReturns` is about requests that are not cancelled. When one is, while
  it waits for the work queue, the goroutine of `handleRequest` returns on
  `ctx.Done()` (`shard.go:243`) and `RoundTrip` waits on a channel nobody answers
  (`pool.go:477`). `RequestsAnswered` excludes the same: the handler of a plain
  client that went away at that moment never ends.
* `FeedEnds` takes a page to fail at most `MaxRetries` times. A cancelled refresh
  may leave a generator behind for good at the send of a failure
  (`try.go:108`), and one that panics at its first call counts as a success
  (`try.go:71`): `QuietAtTheEnd` and `AllDelivered` exclude these.
* `SlidesOver` promises nothing about what leaves the window after a pause of
  32768 intervals or more, where the int16 wraps (`rolling_counter.go:35`): a
  sum may then count what is older than the window.
* `OneLiveRefresh` and its companions exclude sources that are stopped over the
  API: the late finish message of the stopped goroutine removes the task of its
  successor (`refresher.go:202`).
* `SourceRunsAgain` needs as many slots as sources: the scan order of
  `checkSources` may starve the last ones otherwise.
* `RestartKeepsFlushed` fails with `MaxCrashes = 2`: after a crash during a flush
  only the backup is whole, the next flush renames the incomplete file over it
  (`fabric.go:316`), and a second crash leaves nothing to load. One crash is
  enough for a service whose rename failed, because `os.Create` then truncates the
  only whole copy (`fabric.go:317`), or whose encoding failed, which leaves an
  incomplete file that the next flush renames over the backup (`fabric.go:328`):
  the property excludes the services in `refused`.
* `ChangesReachDisk` is about announced changes and the silent ones before them. A
  change without a heartbeat is saved with the next announced one of its service,
  however late that is, and lost in a crash before it. A service whose last flush
  failed is excluded too: it is tried again only after the next heartbeat
  (`fabric.go:323`).
* `Fabric.sync` starts a flush without waiting for the last one of the same service
  (`fabric.go:283`). The model takes it to have ended by the next tick, a minute
  later; two at once could write one file together.
* Of the saved state: evictions that the probe has not collected are not saved
  (`pool.go:32`), and probe, pool and stats are saved at different times
  (`fabric.go:283`), so after a crash a proxy may be Seen and in no shard.
* `ParsesPrinted` stops at the 16 entries of the parser's array: `Parse` reads
  the query back from the first array, which a grown stack has left
  (`api.go:34`, `parser.go:357`). A deeper query becomes one without a filter,
  which panics.
* `QueryAnswers` excludes an AND or OR below another AND, OR or NOT:
  `IsBoolean` does not list them (`optimize.go:136`) and the query is rejected.
  A filter that is a duration, or compares with one, selects nothing or is
  rejected. Sorting by a bool is left out: its generated comparators are `==`
  and `!=`, which are no orders (`apientry_dataset.go:140`). A request cannot be
  sorted by `Size`, which has a getter and no sorter.
* `CardsDrillDown`: the query of a number card leaves its ends out
  (`facets.go:176`), a card that searches finds more than it counts (`http` is
  part of `https`), and the card `n/a` of the empty text finds nothing. A card
  leaves texts of letters, digits and underscores unquoted (`facets.go:212`), of
  which the lexer reads only letters as one word (`api.go:22`), and no keyword or
  unit among them (`lexer.go:54`): the cards of the protocol `socks5` and of the
  country `BY` are syntax errors. The property is about the other cards.
* `ProxyEncoding` is about IPv4; `NewProxy` panics for an IPv6 address
  (`netip.Addr.As4`).
* `ChecksKeepVerdict` is about `simple` and `twopass`. The strategy `headers` does
  not do what `src/README.md:211` says, "look for the real IP address" in the pages
  that show headers: `newFederated` does not use its argument `sites`
  (`checker.go:179`), so `headers` is the same as `simple`.
* `FetchBlamesProxy`: a body that breaks off while it is read is an error to try
  again (`util.go:186`, `try.go:117`), but it is returned as it is, without the
  proxy it came through, and nobody is blamed for it.
* `RequestsAnswered` counts a closed tunnel as an answer: when the upstream
  fails with EOF in a tunnel, `errors.Is(err, io.EOF)` holds of the wrapped error
  and the tunnel closes without the 472 (`http_proxy.go:148`). `handleConnect`
  sends 200 before it knows whether it can take the connection over. After
  `ctx.Done()` nobody receives records and requests block once 128 are buffered;
  the models have no shutdown.
* `HistoryKeepsLatest` bounds the list of requests; the map `appears` is never
  cut (`history.go:189`).

## 4. Proofs

Every safety property that a passing run checks is also proved, for every value
of the constants, except three of the query language. A theorem rests on
nothing but the named assumptions of the modules it is about, which TLC
evaluates on each instance:

| Module | Assumptions | What they ask |
|---|---|---|
| `ProbeProofs` | `ProbeAssumption`, `BoundsAssumption`, `GoroutinesAssumption` | finitely many proxies and goroutines, which are named apart; buffers and `maxReverifies` positive |
| `PoolProofs` | `EntryAssumption`, `PoolAssumption` | thresholds are natural; at least one shard, worker and attempt; finitely many entries |
| `FeedProofs` | `FeedAssumption` | bounds are natural, generators finitely many, at least one |
| `RefresherProofs` | `RefresherAssumption` | a list of sources, some of which are started or stopped over the API |
| `FabricProofs` | `StartupAssumption`, `FabricAssumption` | finitely many factories; a wiring is any set of matching products |
| `TrafficProofs` | `HistoryAssumption`, `ServeAssumption`, `TrafficAssumption` | finitely many connections, the channel has room for a record, and the bound of the records allows for every attempt of every request |
| `AlgorithmsProofs` | `CounterAssumption`, `PmuxAssumption`, `CheckerAssumption`, `AnswersAssumption`, `RepliesAssumption`, `AddressesAssumption`, `OthersAssumption`, `ColumnsAssumption`, `QueryAssumption` | a window that an int16 holds; widths of a proxy's parts; a page of headers has a mark to show; the replies are ones the callers can get; the inputs of the query language are marked as such; a column has a natural number in it; a field has one of three kinds |

Four theorems have hypotheses of their own, and each is false without them
(section 3 says how): `CountersAreExact` and `SourcesRestWhenDone` (no evictions,
deletes, rescue, manual relaunches or early ticks, each of which alone breaks
`StatsConserved`), `RestartKeepsFlush` (one crash), `SortIsAnOrder` (no ORDER BY a
bool).

**Probe.** `TypeCorrect`, `AttemptsStayInRange`, `OneReverifyBatchAtATime`: an
attempt number is raised only in `handleTimeout` and enters a batch only if it
did not exceed `maxReverifies`; while no tick was early, the Stat of source 0 runs,
unfinished, from the launch of a batch to its finish, so that no tick starts
another.

* `NoProxyIsLost`: a proxy is `Accounted` for in one of the maps, a channel, a
  pending send or a worker's hands. This is inductive only with `CheckingIsFree`:
  a worker that holds a proxy has no send pending, so its verdict overwrites none.
* `SeenStaysInPool`: needs `FoundInPool`, which says the same of a proxy whose
  found message has not been handled yet, and that a removal by API is already
  on its way to the blacklist.
* `CountersAreExact`: `StatsConserved` under `Undisturbed`. The invariant `Ledger`
  says, per source, that `Scheduled`, `New` and `Probing` are the numbers of its
  items waiting, handed to a worker, or in a worker's hands and result channels
  (`Books`), that every goroutine has at most one send pending (`Singles`), that
  no item was tried before the first reverify batch (`First`), that a source that feeds is running
  (`FedRunning`) and that a batch is launched on a Stat at rest (`LaunchRests`).
  Every step then moves nothing, moves one item together with its counter, or
  launches or finishes a Stat. The lemmas about the counters are in `StatsProofs`.
* `SourcesRestWhenDone`: with the same hypothesis a Stat runs only while its
  source is fed or has items in the pipeline, and does run then. From `Ledger`,
  and from what `Settle` leaves running: a Stat whose counters are not zero.

**Pool.** `PoolTypeCorrect`, `EntriesOkIffAwake` (from `EntriesConsistent`, the
same statement for blank entries too), `AttemptsAreBounded` (from `AttemptsLeft`:
a client that may still retry has attempts left under one of the two limits).
`ExhaustedMeansAll` needs `Tours`: the shards that a request has asked are those
of its attempts so far, counted from its serial number, and "as many attempts in
a row as there are shards ask each of them" is a lemma about remainders.
`RoundTripsAreFinite` counts the steps that a request has left: five for every
attempt that is left and one for every station of the present one; only a new
attempt raises the second part, and it lowers the first. That the count is a
natural number is `AttemptsLeft` again. `NoRequestIsStuck`: if nobody is being
tried or waiting to be, nobody works, so the queue empties, so the hand-over does;
and `firstAvailableProxy` has an answer for every shard, since the entries from
the random offset on that it does not skip have a first one.

**Feed.** `FeedTypeCorrect`, `ClosesLast`, `EndsQuietly`, `DeliversAll`: from one
invariant. `TypeOK` is not inductive by itself: that no more is delivered than
listed needs `Ranged` (where a generator is in its list) and `Counted` (what was
sent is delivered or in the hands of the forwarder, unless the refresh is
cancelled). `Joined` and `Closing` order the ends: generator, forwarder, channel,
consumer. `NobodyIsStuck` says that whoever stands at a channel is heard and
that somebody can step until the consumer has ended; `EveryRefreshIsFinite` that
every step lowers the natural number `Variant` of one generator, raising no
other, or is the close, the end or the cancellation, which happen once.

**Refresher.** `TypeCorrect`; `OneGoroutinePerSource`, `FedSourcesRun` and
`InactiveSourcesAreQuiet` from `OwnTask`: the goroutine of a source
that is never stopped is the task main has for it, and a source whose finish
message is on its way is still active, so that nothing starts it.
`NoFinishIsLost` is the converse: a task without a goroutine has its message in
the channel. `TimerOvershootsByOne` and `TimerPassesOverNone` are action properties
about the loop of `checkSources`, a recursive function whose turns are followed
one by one: it starts at most one source too many, and passes over none unless it
is full.

**Startup and Fabric.** `TypeCorrect`; `ServicesStartInOrder` from `Ordering`: the
degree of a factory is the number of its parameters that products outside of what
was taken still match, so a factory enters the queue when everything it depends
on was taken, once; `resolve` goes on only if the order is complete.
`FirstRestartLoadsFlushed` and `RestartKeepsFlush` from `Disk`: at each step of a
flush, the file or the backup of a service holds what its last completed flush
wrote, unless the disk has refused a rename or an encoding of it since.
`NoChangeIsForgotten`, for any number of crashes: an announced change that is newer
than the disk is at a heartbeat, known to `sync` as newer than its flush, or in a
flush under way, unless its flush failed; and what is durable never gets older.

**Traffic.** `TypeCorrect` and `HistoryIsExact` from three invariants that are
carried together. `Recorded` ties the list, the channel and the answers of
`History.main` to the sequence of everything sent; `Attempts` says which attempts
of a connection's request were sent and which of their redirections, hence that no
two records have the same serial, attempt and hop; `Rooms` bounds the numbers that
were given out. `RequestsAreFinite` counts the steps that the server has left for a
connection, some for every attempt left and every redirection that it may follow,
and shows that the next one waits for nobody but `History.main`, which can then take
a step; a request that was abandoned in the hand-over counts no more.

**Algorithms.** `TypeCorrect` and `RingSlides`: the ring, read from its position,
is the abstract window; one turn of the loop in `Add` shifts it by one interval
and takes what falls out from the sum, so the sum is the total (`SumIsTotal`); a
pause that wraps makes fewer turns, which `Dropped` allows.
`EncodingIsExact` rests on lemmas about quotients and remainders: packing and
unpacking are inverse for fields of any width. `VerdictIsKept` and
`BlameFallsOnTheLastProxy` go through the outcomes of a page and of a reply. `RangesAreExact`: consecutive
ranges neither touch nor leave a whole number out, and `n` of them reach the
largest number, because the size of a range is rounded up.

Two theorems are about the query language without its recursion.
`FiltersKeepMeaning` takes any set of trees of finite depth that is closed under
children, and any functions that satisfy the recursive definitions of
`QueryRecords` and `QueryMeaning` on it (`AreWalks`): typing and evaluating a
filter gives what it means, or refuses it, and never panics. The induction is
over the depth; its claim `Sound` also says what the second call of the optimizer
on a node does, namely nothing. `SortIsAnOrder`: the comparators of a list of
fields, asked in turn, are a strict weak order, which `slices.SortStableFunc`
asks for.

Induction over numbers (the turns of a loop, the sum over a set) is stated with
the set of the numbers for which a claim holds, which is all of them because a
set of numbers has a least element.

**Only model-checked:**

* every liveness property, since the prover has no rules for fairness. What each
  of them rests on besides fairness is proved, for every value of the constants:

  | Property | Proved of it |
  |---|---|
  | `SourceSettles` | `SourcesRestWhenDone` |
  | `EventuallyDecided` | `NoProxyIsLost` |
  | `RoundTripReturns` | `RoundTripsAreFinite`, `NoRequestIsStuck` |
  | `SourceRunsAgain` | `NoFinishIsLost`, `TimerPassesOverNone` |
  | `FeedEnds` | `EveryRefreshIsFinite`, `NobodyIsStuck` |
  | `ChangesReachDisk` | `NoChangeIsForgotten` |
  | `RequestsAnswered` | `RequestsAreFinite` |

* `ParsesPrinted`, `QueryAnswers` and `CardsDrillDown`: parser, printer and the
  walks over a filter are `RECURSIVE` operators, in whose modules the prover
  loses its arithmetic, and a parser's result for every text needs induction over
  sequences. Of `QueryAnswers`, the filter and the order are proved
  (`FiltersKeepMeaning`, `SortIsAnOrder`); parsing, the search of a bare text,
  stable insertion and the limit are not. Of `CardsDrillDown`, that the ranges
  are disjoint and complete is (`RangesAreExact`).

That the channels of the probe always have somebody to empty them is not a
theorem: with small buffers it is false (section 3, `Buffer = 1`).

## 5. State of the work

All components with state of their own are modelled, their safety properties
proved, and the safety half of each liveness property too. What a next step would
be is a proof of the parser, with a prover that has induction over sequences.

## 6. Not modelled

* The composition of probe, pool and fabric across a crash: its state space is
  the product of three of the largest models here, and neither code nor docs say
  what the services should agree on after a restart; the facts are listed above.
* The scrapers of individual sites (`sources/*.go` besides `try.go`, `util.go`
  and `errors.go`): string processing without state.
* `dialer`, certificates (`serve/ca.go`), `ipinfo`, configuration, REST routing,
  the dashboards' formatting and the UI: input and output without shared state.
* The generator of the datasets, a build-time program; its output is modelled.
* Shutdown: every goroutine returns on `ctx.Done()` and the process ends.
* Saving and loading of `Stats`: loading drops every Stat that is not idle
  (`stats.go:225`), and gob leaves out the unexported `finished`.
* Real time. The reverify and refresher timers are created anew on every message
  (`internal.go:100`, `refresher.go:169`), with the time that is left, and once that
  is over with the last time left that was computed; whether they starve under load
  depends on it.
