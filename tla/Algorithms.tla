---------------------------- MODULE Algorithms ----------------------------
(***************************************************************************)
(* The rolling counter, and four algorithms without a state of their own:   *)
(* proxy numbers, the check of a proxy, the fetching of a page and the       *)
(* ranges of a column of numbers.  A state is a state of the counter or one  *)
(* input of an algorithm, and the properties compare what the algorithm      *)
(* makes of it with a reference definition.                                  *)
(***************************************************************************)
EXTENDS RollingCounter, Checker, Fetch, Ranges

CONSTANTS
  Answers,   \* what a page may answer the checker
  Requests,  \* what a source may ask for
  Replies,   \* what the pool may answer it, one reply after the other
  Addresses, \* what looks like an address on the page
  Columns,   \* columns of numbers
  Others     \* inputs of algorithms that this module says nothing about

Numbers == 0..(Numbers64 - 1)

ASSUME AnswersAssumption ==
  \A reply \in Answers : reply.err \in {NoError, Permanent, Temporary}

\* A client that failed has no status.
ASSUME RepliesAssumption ==
  \A replies \in Replies :
    /\ DOMAIN replies = 1..MaxAttempts
    /\ \A i \in 1..MaxAttempts :
         /\ replies[i].err \in BOOLEAN /\ replies[i].status \in Nat
         /\ replies[i].err => replies[i].status = 0

ASSUME AddressesAssumption ==
  \A i \in DOMAIN Addresses :
    Addresses[i] = Malformed \/ \E p \in Numbers : Addresses[i] = Address(p)

\* Only records that there are have facets, and their numbers are counters,
\* times and durations.
ASSUME ColumnsAssumption == \A data \in Columns : data \in Seq(Nat) /\ data # <<>>

ASSUME OthersAssumption ==
  \A i \in Others : i.of \notin {"counter", "proxy", "check", "fetch", "ranges"}

VARIABLE input

NoInput == [of |-> "counter"]

Strategies == {"simple", "headers", "twopass", "none"}

Inputs ==
  {[of |-> "proxy", p |-> p] : p \in Numbers}
    \cup {[of |-> "check", strategy |-> s, web |-> w] :
            s \in Strategies, w \in [firstPass \cup DOMAIN secondPass -> Answers]}
    \cup {[of |-> "fetch", r |-> r, replies |-> s] : r \in Requests, s \in Replies}
    \cup {[of |-> "ranges", data |-> d, n |-> n] : d \in Columns, n \in 1..MaxRanges}
    \cup Others

AlgorithmsInit == Init /\ input \in {NoInput} \cup Inputs
AlgorithmsNext == input = NoInput /\ Next /\ UNCHANGED input
AlgorithmsSpec == AlgorithmsInit /\ [][AlgorithmsNext]_<<vars, input>>
----------------------------------------------------------------------------
\* A proxy is the same after it was written as a URL and read again, as it is
\* from the header of a response (errors.go:43) and from the texts of the API;
\* the proxy that the probe tries as HTTP instead has the same address; and
\* the shard of a proxy exists, also for numbers whose int is negative.
ProxyEncoding ==
  input.of = "proxy" =>
    LET p == input.p
    IN  /\ Proto(p) < Len(Schemes) => NewProxyFromURL(URL(p)) = p
        /\ \A q \in {AsHttp(p), AsHttps(p)} : Address(q) = Address(p) /\ ~IsTunnel(q)
        /\ {Proto(AsHttp(p)), Proto(AsHttps(p))} = {HTTP, HTTPS}
        /\ \A n \in 1..7 : Bucket(p, n) \in 0..(n - 1)

\* What the worker of the probe does with a proxy after its check.
Verdict(err) ==
  IF ~err.failed THEN "found" ELSE IF err.temporary THEN "timeout" ELSE "forget"

\* The verdicts that a page allows: it has to show an address other than this
\* machine's, and what a rate limit shows says nothing about the proxy.
PageVerdict(reply, mark) ==
  IF reply.err.failed THEN Verdict(reply.err)
  ELSE IF reply.marks \cap ErrorPages # {} THEN "timeout"
  ELSE IF ThisIP \in reply.marks \/ mark \notin reply.marks THEN "forget"
  ELSE "found"

\* A proxy is found only if every page that was asked lets it pass, and it is
\* tried again later whenever the page that failed it did so temporarily: no
\* strategy hides this from the worker of the probe by wrapping the error.
\* Nothing is said of the strategy "headers": it should look at the pages that
\* show all headers (README.md:211), and newFederated (checker.go:179) sends it
\* to those of the first pass.
ChecksKeepVerdict ==
  input.of = "check" /\ input.strategy # "headers" =>
    LET one == {PageVerdict(input.web[page], AnyIP) : page \in firstPass}
        two == {PageVerdict(input.web[page], secondPass[page]) : page \in DOMAIN secondPass}
    IN  {Verdict(err) : err \in Check(Configure("1.2.3.4", input.strategy), input.web)} =
          CASE input.strategy = "simple" -> one
            [] input.strategy = "twopass" ->
                 IF "found" \in one THEN (one \ {"found"}) \cup two ELSE one
            [] OTHER -> {"forget"}

\* The feed of a source takes a page for what it is (nothing that failed or
\* was blocked passes for a page of proxies) and asks an exhausted pool at most
\* three times.  Nobody is blamed for a failure but the proxy that the last
\* answer came through, only failures that are tried again blame it, and of
\* these all do but one: a body that breaks off (util.go:221) is tried again
\* without a word to the proxy.  This stays so when the source adds the URL of
\* its page to the error.  What looks like an address and is none becomes no
\* proxy (Probe.Schedule refuses 0).
FetchBlamesProxy ==
  input.of = "fetch" =>
    LET exhausted(i) == input.replies[i].status = PoolExhausted
        n       == IF ~exhausted(1) THEN 1 ELSE IF ~exhausted(2) THEN 2 ELSE 3
        final   == input.replies[n]
        err     == newTablePage(input.r, input.replies)
        again   == err # NoErr /\ ~err.skip
        through == IF final.err THEN 0 ELSE NewProxyFromURL(final.through)
    IN  /\ err = NoErr => /\ ~final.err /\ final.status < 400 /\ ~final.unread
                          /\ "table" \in final.body /\ final.body \cap blockers = {}
        /\ blamed(err) = IF again /\ err.msg # "read" THEN through ELSE 0
        /\ blamed(wrapError(err, <<<<"https", Malformed>>>>)) = blamed(err)
        /\ \A p \in Range(newRegexPage(input.r, input.replies, Addresses, "socks5").found) :
             p # 0 => Address(p) \in Range(Addresses) /\ IsTunnel(p)

\* The numeric ranges of a facet take in every value exactly once, whatever
\* rounding does to their size.
RangesPartition ==
  input.of = "ranges" =>
    \A i \in DOMAIN input.data :
      Cardinality({b \in 1..input.n : input.data[i] \in Bins(input.data, input.n)[b]}) = 1
=============================================================================
