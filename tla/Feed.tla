-------------------------------- MODULE Feed --------------------------------
(***************************************************************************)
(* Package sources, try.go: the goroutines of one refresh of a source.      *)
(* A retriableGenerator calls the scraper of its page until it succeeds and *)
(* sends what it lists; a mergeSrc runs several of them, each with a        *)
(* forwarder, into one channel, which finish closes.  The consumer is the   *)
(* loop of Refresher.refresh.  The channels are unbuffered: a message       *)
(* passes when sender and receiver meet.  The pauses between two calls of a *)
(* scraper and the identity of the proxies are left out; what a scraper     *)
(* answers is arbitrary.                                                    *)
(***************************************************************************)
EXTENDS Naturals, FiniteSets

CONSTANTS
  Generators,
  MaxListed,  \* bound of the proxies one page lists
  MaxRetries  \* bound of the failures of a page that are tried again

ASSUME FeedAssumption ==
  /\ IsFiniteSet(Generators) /\ Generators # {}
  /\ MaxListed \in Nat /\ MaxRetries \in Nat

VARIABLES
  direct,    \* the source is a single generator, and not a mergeSrc
  gen,       \* per generator: its goroutine and its fields
  forwarder, \* per generator: waiting, with a signal in its hands, or done
  closed,    \* mergeSrc.out is closed
  consumer,
  delivered, \* per generator: proxies that reached the consumer
  cancelled  \* the context of the refresh

vars == <<direct, gen, forwarder, closed, consumer, delivered, cancelled>>

\* "select": the loop waits for its timer; "failure" and "found": it stands at
\* one of the two sends to its channel; "done": the channel is closed.
GeneratorPCs == {"select", "failure", "found", "done"}

Generator == [pc : GeneratorPCs, err : BOOLEAN, panicked : BOOLEAN,
              listed : 0..MaxListed, sent : 0..MaxListed, retries : 0..MaxRetries]

At(pc) == [pc |-> pc, err |-> FALSE, panicked |-> FALSE,
           listed |-> 0, sent |-> 0, retries |-> 0]

Signals == {"failure", "found"}

\* mergeSrc.Generate; a generator that is not part of the source is done.
Init ==
  /\ \/ /\ direct = FALSE
        /\ gen = [g \in Generators |-> At("select")]
        /\ forwarder = [g \in Generators |-> "receive"]
     \/ /\ direct = TRUE
        /\ \E only \in Generators :
             gen = [g \in Generators |-> At(IF g = only THEN "select" ELSE "done")]
        /\ forwarder = [g \in Generators |-> "done"]
  /\ closed = FALSE
  /\ consumer = "receive"
  /\ delivered = [g \in Generators |-> 0]
  /\ cancelled = FALSE
----------------------------------------------------------------------------
(* retriableGenerator.generate                                              *)

Become(g, r) ==
  /\ gen' = [gen EXCEPT ![g] = r]
  /\ UNCHANGED <<direct, forwarder, closed, consumer, delivered, cancelled>>

\* Mutant of More: the last proxy of the page is not sent.
MoreButLast(r) == r.sent + 1 < r.listed

\* The range over the proxies of the page is not at its end.
More(r) == r.sent < r.listed

Ranging(r) == [r EXCEPT !.pc = IF More(r) THEN "found" ELSE "done"]

listPage(g) ==
  /\ gen[g].pc = "select"
  /\ \E n \in 0..MaxListed :
       Become(g, Ranging([gen[g] EXCEPT !.err = FALSE, !.listed = n]))

\* An error that is tried again; a sourceError that names a proxy is sent first.
failPage(g) ==
  /\ gen[g].pc = "select" /\ gen[g].retries < MaxRetries
  /\ \E next \in {"select", "failure"} :
       Become(g, [gen[g] EXCEPT !.pc = next, !.err = TRUE, !.retries = @ + 1])

\* skipErr, and context.Canceled once the context is cancelled.
skipPage(g) ==
  /\ gen[g].pc = "select"
  /\ Become(g, [gen[g] EXCEPT !.pc = "done", !.err = TRUE])

\* The recovered panic of a scraper leaves the error of the call before it.
panicPage(g) ==
  /\ gen[g].pc = "select"
  /\ Become(g, [gen[g] EXCEPT !.pc = "done", !.panicked = TRUE])

\* ctx.Done() is a case of the two selects, and not of the send of a failure.
stop(g) ==
  /\ cancelled /\ gen[g].pc \in {"select", "found"}
  /\ Become(g, [gen[g] EXCEPT !.pc = "done"])

\* Mutant of Sent: the range does not advance.
SentAgain(r) == IF r.pc = "failure" THEN [r EXCEPT !.pc = "select"] ELSE r

\* The generator after its signal has been received.
Sent(r) ==
  IF r.pc = "failure" THEN [r EXCEPT !.pc = "select"]
  ELSE Ranging([r EXCEPT !.sent = @ + 1])
----------------------------------------------------------------------------
(* mergeSrc.forward and mergeSrc.finish                                     *)

take(g) ==
  /\ forwarder[g] = "receive" /\ gen[g].pc \in Signals
  /\ forwarder' = [forwarder EXCEPT ![g] = gen[g].pc]
  /\ gen' = [gen EXCEPT ![g] = Sent(@)]
  /\ UNCHANGED <<direct, closed, consumer, delivered, cancelled>>

rangeEnds(g) ==
  /\ forwarder[g] = "receive" /\ gen[g].pc = "done"
  /\ forwarder' = [forwarder EXCEPT ![g] = "done"]
  /\ UNCHANGED <<direct, gen, closed, consumer, delivered, cancelled>>

\* Mutant of abandon: a consumer that is not ready ends the forwarder.
abandonEarly(g) ==
  /\ forwarder[g] \in Signals
  /\ forwarder' = [forwarder EXCEPT ![g] = "done"]
  /\ UNCHANGED <<direct, gen, closed, consumer, delivered, cancelled>>

abandon(g) ==
  /\ forwarder[g] \in Signals /\ cancelled
  /\ forwarder' = [forwarder EXCEPT ![g] = "done"]
  /\ UNCHANGED <<direct, gen, closed, consumer, delivered, cancelled>>

\* Mutants of Waited: one forwarder is enough; the generators are waited for.
WaitedForOne == \E g \in Generators : forwarder[g] = "done"
WaitedForGenerators == \A g \in Generators : gen[g].pc = "done"

\* The WaitGroup counts the forwarders.
Waited == \A g \in Generators : forwarder[g] = "done"

finish ==
  /\ ~direct /\ ~closed /\ Waited
  /\ closed' = TRUE
  /\ UNCHANGED <<direct, gen, forwarder, consumer, delivered, cancelled>>
----------------------------------------------------------------------------
(* The loop of Refresher.refresh and its end; Refresher.stop.               *)

Deliver(g, signal) ==
  delivered' = IF signal = "found" THEN [delivered EXCEPT ![g] = @ + 1] ELSE delivered

receive(g) ==
  /\ consumer = "receive"
  /\ \/ /\ ~closed /\ forwarder[g] \in Signals
        /\ forwarder' = [forwarder EXCEPT ![g] = "receive"]
        /\ Deliver(g, forwarder[g])
        /\ UNCHANGED gen
     \/ /\ direct /\ gen[g].pc \in Signals
        /\ gen' = [gen EXCEPT ![g] = Sent(@)]
        /\ Deliver(g, gen[g].pc)
        /\ UNCHANGED forwarder
  /\ UNCHANGED <<direct, closed, consumer, cancelled>>

feedEnds ==
  /\ consumer = "receive"
  /\ \/ closed
     \/ direct /\ \A g \in Generators : gen[g].pc = "done"
  /\ consumer' = "ended"
  /\ UNCHANGED <<direct, gen, forwarder, closed, delivered, cancelled>>

cancel ==
  /\ ~cancelled
  /\ cancelled' = TRUE
  /\ UNCHANGED <<direct, gen, forwarder, closed, consumer, delivered>>
----------------------------------------------------------------------------
generate(g) == listPage(g) \/ failPage(g) \/ skipPage(g) \/ panicPage(g) \/ stop(g)

forward(g) == take(g) \/ rangeEnds(g) \/ abandon(g)

Next ==
  \/ \E g \in Generators : generate(g) \/ forward(g) \/ receive(g)
  \/ finish \/ feedEnds \/ cancel

Spec == Init /\ [][Next]_vars

\* Every goroutine that can step does; a refresh need not be cancelled.
Fairness ==
  /\ \A g \in Generators : WF_vars(generate(g)) /\ WF_vars(forward(g)) /\ WF_vars(receive(g))
  /\ WF_vars(finish) /\ WF_vars(feedEnds)

FairSpec == Spec /\ Fairness
----------------------------------------------------------------------------
TypeOK ==
  /\ direct \in BOOLEAN
  /\ gen \in [Generators -> Generator]
  /\ forwarder \in [Generators -> Signals \cup {"receive", "done"}]
  /\ closed \in BOOLEAN
  /\ consumer \in {"receive", "ended"}
  /\ delivered \in [Generators -> 0..MaxListed]
  /\ cancelled \in BOOLEAN

\* mergeSrc.Err, retriableGenerator.Err
Err == \E g \in Generators : gen[g].err

\* finish never closes the channel under a forwarder that stands at its send
\* to it or comes back to it (a send to a closed channel panics), whenever
\* the generators end and whenever the refresh is cancelled.
NoSendAfterClose ==
  closed => \A g \in Generators : forwarder[g] = "done"

\* A refresh that is not cancelled leaves no goroutine behind when its range
\* ends, so nobody writes an error between the two calls of feed.Err() that
\* follow (refresher.go:438 and :440; "race condition?...", try.go:58).
QuietAtTheEnd ==
  consumer = "ended" /\ ~cancelled => \A g \in Generators : gen[g].pc = "done"

\* A refresh that ends without cancellation and without an error has handed
\* over all that its pages listed in their last, successful call, unless a
\* scraper panicked: a page that failed some times in between loses nothing
\* and repeats nothing.
AllDelivered ==
  consumer = "ended" /\ ~cancelled /\ ~Err =>
    \A g \in Generators : gen[g].panicked \/ delivered[g] = gen[g].listed

\* The refresh comes to its end once no page fails any more, also when it is
\* cancelled while generators and forwarders stand at their sends; otherwise
\* its source would stay active and running for good.
FeedEnds == <>(consumer = "ended")
=============================================================================
