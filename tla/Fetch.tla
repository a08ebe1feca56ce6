------------------------------- MODULE Fetch -------------------------------
(***************************************************************************)
(* sources: how a page of proxies is fetched through the pool, and what the *)
(* errors of it carry.  A reply of the pool has the status, the body (the   *)
(* set of what it contains), whether reading it fails, and the URL of the   *)
(* proxy it came through; or it is an error.                                *)
(***************************************************************************)
EXTENDS Pmux, FiniteSets

PoolExhausted == 552
MaxAttempts == 3

\* io.Reader without a byte, and no reader at all.
EmptyBody == {}
NilBody == {"nil"}

blockers == {"cloudflare", "contentkeeper.net"}

\* A sourceError with its string fields in order; a plain error has none.
newErr(msg, strs) == [msg |-> msg, strs |-> strs, skip |-> FALSE, source |-> TRUE]
skipError(msg, strs) == [newErr(msg, strs) EXCEPT !.skip = TRUE]
plainErr(msg) == [newErr(msg, <<>>) EXCEPT !.source = FALSE]
NoErr == plainErr("")

\* wrapError: a sourceError keeps its fields in front of the new ones.
wrapError(err, strs) ==
  IF err.source THEN [err EXCEPT !.strs = @ \o strs] ELSE newErr(err.msg, strs)

\* sourceError.Proxy: the first string field, read as the URL of a proxy.
blamed(err) == IF err.strs = <<>> THEN 0 ELSE NewProxyFromURL(Head(err.strs))

\* How often the client is asked: again when the pool is exhausted.
attempts(replies) ==
  Min({MaxAttempts} \cup {i \in DOMAIN replies : replies[i].status # PoolExhausted})

\* Mutant of errorStatus: the status comes before the proxy.
errorStatusFirst(res) == newErr("error status", <<<<"status">>, res.through>>)

errorStatus(res) == newErr("error status", <<res.through, <<"status">>>>)

\* What the request r (expect is "" for nothing) makes of the last reply.
response(r, res) ==
  IF res.err THEN plainErr("round trip")
  ELSE IF res.body = NilBody THEN newErr("nil body", <<res.through, <<"url">>>>)
  ELSE IF res.body \cap blockers # {} THEN newErr("found blocker", <<res.through, <<"marker">>>>)
  ELSE IF r.SkipOnStatus > 0 /\ res.status = r.SkipOnStatus THEN skipError("skip status", <<>>)
  ELSE IF res.status >= 400 THEN errorStatus(res)
  ELSE IF res.body = EmptyBody /\ ~r.EmptyBodyValid THEN newErr("empty body", <<res.through>>)
  ELSE IF r.ExpectInResponse # "" /\ r.ExpectInResponse \notin res.body
    THEN newErr("invalid response", <<res.through, <<"expect">>>>)
  ELSE IF res.unread THEN plainErr("read") ELSE NoErr

\* req.Do; replies are what the client answers, one after the other.
Do(r, replies) == response(r, replies[attempts(replies)])

\* newTablePage: a page without tables is not tried again.
newTablePage(r, replies) ==
  LET err == Do(r, replies)
  IN  IF err # NoErr THEN err
      ELSE IF "table" \notin replies[attempts(replies)].body
        THEN skipError("no tables found", <<<<"https", Malformed>>>>)
      ELSE NoErr

\* newRegexPage: the addresses of the page, as proxies of a protocol.  Some of
\* what looks like an address is none.
extractProxies(addresses, proto) ==
  [i \in DOMAIN addresses |-> NewProxy(addresses[i], proto)]

newRegexPage(r, replies, addresses, proto) ==
  LET err == Do(r, replies)
  IN  [err |-> err, found |-> IF err = NoErr THEN extractProxies(addresses, proto) ELSE <<>>]
=============================================================================
