---------------------------- MODULE MCAlgorithms ----------------------------
(* An instance of Algorithms for TLC, with the query language beside it. *)
EXTENDS Queries

\* Up to the ring's turning over, the longest pause an int16 holds, and longer
\* ones that it takes for a negative one, for none and for a short one.
PauseGaps == 0..(window + 1) \cup {32767, 32768, 65536, 65538}

\* What the pages may answer a proxy.
AllMarks == {AnyIP, "user_agent", "ifconfig_hostname"}
PageAnswers ==
  {Reply(Temporary, {}), Reply(Permanent, {}), Reply(NoError, {}), Reply(NoError, AllMarks),
   Reply(NoError, AllMarks \cup {ThisIP}), Reply(NoError, {"Cloudflare", ThisIP})}

Pages == {"ip1", "ip2"}
HeaderPages == [all1 |-> "user_agent", all2 |-> "ifconfig_hostname"]

\* What the pool may answer a source, and what a source may ask for.
proxied(status, body, unread, p) ==
  [err |-> FALSE, status |-> status, body |-> body, unread |-> unread,
   through |-> IF p = 0 THEN <<"">> ELSE URL(p)]
Refused == [err |-> TRUE, status |-> 0]
Exhausted == proxied(PoolExhausted, {"x"}, FALSE, 9)
Finals ==
  {Refused, Exhausted}
    \cup {proxied(status, body, unread, p) :
            status \in {200, 404}, unread \in BOOLEAN, p \in {0, 17},
            body \in {NilBody, EmptyBody, {"x"}, {"table"}, {"table", "cloudflare"}}}
PoolReplies ==
  {<<f, Refused, Refused>> : f \in Finals} \cup {<<Exhausted, f, Refused>> : f \in Finals}
    \cup {<<Exhausted, Exhausted, f>> : f \in Finals}
PageRequests ==
  [SkipOnStatus : {0, 404}, EmptyBodyValid : BOOLEAN, ExpectInResponse : {"", "table"}]
PageAddresses == <<Address(17), Malformed>>

\* Up to four numbers.
NumberColumns == UNION {[1..n -> 0..4] : n \in 1..3} \cup {<<0, 1, 6, 7>>, <<2, 3, 9, 30>>}
=============================================================================
