----------------------------- MODULE FeedProofs -----------------------------
(***************************************************************************)
(* Proofs about Feed, for any set of generators and any bounds.             *)
(***************************************************************************)
EXTENDS Feed, TLAPS

\* Where generator r is in its range; c tells whether the refresh is cancelled.
Ranged(r, c) ==
  /\ r.pc \in {"select", "failure"} => r.listed = 0 /\ r.sent = 0
  /\ r.pc = "found" => r.sent < r.listed
  /\ r.pc = "done" => c \/ r.err \/ r.panicked \/ r.sent = r.listed

\* Proxies in the hands of a forwarder.
Held(f) == IF f = "found" THEN 1 ELSE 0

\* What a generator has sent was delivered or is held; only a cancelled
\* refresh drops anything.
Counted(d, f, r, c) ==
  /\ d + Held(f) <= r.sent
  /\ ~c => d + Held(f) = r.sent

\* A forwarder of an uncancelled merge outlives its generator.
Joined(f, r, c, dir) == f = "done" => c \/ dir \/ r.pc = "done"

Each(g) ==
  /\ Ranged(gen[g], cancelled)
  /\ Counted(delivered[g], forwarder[g], gen[g], cancelled)
  /\ Joined(forwarder[g], gen[g], cancelled, direct)

Closing ==
  /\ direct => ~closed /\ \A g \in Generators : forwarder[g] = "done"
  /\ closed => \A g \in Generators : forwarder[g] = "done"
  /\ consumer = "ended" =>
       closed \/ (direct /\ \A g \in Generators : gen[g].pc = "done")

Inv == TypeOK /\ Closing /\ \A g \in Generators : Each(g)
----------------------------------------------------------------------------
\* Ranging changes nothing but the program counter of a generator.
LEMMA RangingKeeps ==
  ASSUME NEW r \in Generator
  PROVE  /\ Ranging(r) \in Generator
         /\ Ranging(r).sent = r.sent /\ Ranging(r).listed = r.listed
         /\ Ranging(r).err = r.err /\ Ranging(r).panicked = r.panicked
         /\ Ranging(r).pc = IF r.sent < r.listed THEN "found" ELSE "done"
  BY DEF Ranging, More, Generator, GeneratorPCs

\* A generator whose signal was received is in its range, one proxy further
\* if the signal was one.
LEMMA SentAdvances ==
  ASSUME FeedAssumption, NEW r \in Generator, NEW c \in BOOLEAN, Ranged(r, c),
         r.pc \in Signals
  PROVE  /\ Sent(r) \in Generator
         /\ Ranged(Sent(r), c)
         /\ Sent(r).sent = r.sent + Held(r.pc)
<1>1. CASE r.pc = "failure"
  BY <1>1 DEF Sent, Generator, GeneratorPCs, Ranged, Held
<1>2. CASE r.pc = "found"
  <2>. DEFINE n == [r EXCEPT !.sent = @ + 1]
  <2>1. /\ r.sent \in Nat /\ r.listed \in Nat /\ MaxListed \in Nat
        /\ r.sent < r.listed /\ r.listed <= MaxListed
    BY <1>2 DEF Ranged, Generator, FeedAssumption
  <2>2. n \in Generator /\ n.sent = r.sent + 1 /\ n.listed = r.listed
    BY <2>1 DEF Generator
  <2>3. Sent(r) = Ranging(n)
    BY <1>2 DEF Sent
  <2>. HIDE DEF n
  <2>4. /\ Sent(r) \in Generator
        /\ Sent(r).sent = r.sent + 1 /\ Sent(r).listed = r.listed
        /\ Sent(r).pc = IF r.sent + 1 < r.listed THEN "found" ELSE "done"
    BY <2>2, <2>3, RangingKeeps
  <2>. QED  BY <1>2, <2>1, <2>4 DEF Ranged, Held
<1>. QED  BY <1>1, <1>2 DEF Signals

\* The invariant holds when Generate has started the goroutines.
LEMMA InitInv == ASSUME FeedAssumption, Init PROVE Inv
<1>1. MaxListed \in Nat /\ MaxRetries \in Nat
  BY DEF FeedAssumption
<1>2. \A pc \in GeneratorPCs : At(pc) \in Generator
  BY <1>1 DEF At, Generator
<1>3. gen \in [Generators -> Generator]
  BY <1>2 DEF Init, GeneratorPCs
<1>4. TypeOK
  <2>1. forwarder \in [Generators -> Signals \cup {"receive", "done"}]
    BY DEF Init
  <2>2. delivered \in [Generators -> 0..MaxListed]
    BY <1>1 DEF Init
  <2>. QED  BY <1>3, <2>1, <2>2 DEF Init, TypeOK
<1>5. Closing
  BY DEF Init, Closing
<1>6. ASSUME NEW g \in Generators PROVE Each(g)
  <2>1. /\ delivered[g] = 0 /\ cancelled = FALSE
        /\ forwarder[g] \in {"receive", "done"}
        /\ forwarder[g] = "done" => direct
    BY DEF Init
  <2>2. gen[g] = At("select") \/ gen[g] = At("done")
    BY DEF Init
  <2>3. /\ gen[g].sent = 0 /\ gen[g].listed = 0
        /\ gen[g].pc \in {"select", "done"}
    BY <2>2 DEF At
  <2>. QED  BY <2>1, <2>3 DEF Each, Ranged, Counted, Joined, Held
<1>. QED  BY <1>4, <1>5, <1>6 DEF Inv
----------------------------------------------------------------------------
\* A step of one generator alone, which was not done.
LEMMA GeneratorStep ==
  ASSUME Inv, NEW g \in Generators, NEW r \in Generator, Become(g, r),
         gen[g].pc # "done", Ranged(r, cancelled), r.sent = gen[g].sent
  PROVE  Inv'
<1>1. /\ gen' \in [Generators -> Generator]
      /\ gen'[g] = r
      /\ \A h \in Generators \ {g} : gen'[h] = gen[h]
  BY DEF Inv, TypeOK, Become
<1>2. TypeOK'
  BY <1>1 DEF Inv, TypeOK, Become
<1>3. Closing'
  <2>1. consumer = "ended" => closed
    BY DEF Inv, Closing
  <2>. QED  BY <2>1 DEF Inv, Closing, Become
<1>4. ASSUME NEW h \in Generators PROVE Each(h)'
  <2>1. CASE h = g
    BY <1>1, <2>1 DEF Inv, Each, Counted, Joined, Become
  <2>2. CASE h # g
    BY <1>1, <2>2 DEF Inv, Each, Become
  <2>. QED  BY <2>1, <2>2
<1>. QED  BY <1>2, <1>3, <1>4 DEF Inv

\* Every way a call of a scraper can end, and ctx.Done().
LEMMA GenerateStep ==
  ASSUME FeedAssumption, Inv, NEW g \in Generators, generate(g)
  PROVE  Inv'
<1>1. gen[g] \in Generator /\ Ranged(gen[g], cancelled)
  BY DEF Inv, TypeOK, Each
<1>2. MaxListed \in Nat /\ MaxRetries \in Nat
  BY DEF FeedAssumption
<1>3. CASE listPage(g)
  <2>1. PICK n \in 0..MaxListed :
          Become(g, Ranging([gen[g] EXCEPT !.err = FALSE, !.listed = n]))
    BY <1>3 DEF listPage
  <2>. DEFINE page == [gen[g] EXCEPT !.err = FALSE, !.listed = n]
  <2>2. gen[g].pc = "select" /\ gen[g].sent = 0
    BY <1>1, <1>3 DEF listPage, Ranged
  <2>3. page \in Generator /\ page.sent = 0 /\ page.listed = n
    BY <1>1, <2>2 DEF Generator
  <2>4. Become(g, Ranging(page))
    BY <2>1
  <2>. HIDE DEF page
  <2>5. /\ Ranging(page) \in Generator
        /\ Ranging(page).sent = 0 /\ Ranging(page).listed = n
        /\ Ranging(page).pc = IF 0 < n THEN "found" ELSE "done"
    BY <2>3, RangingKeeps
  <2>6. Ranged(Ranging(page), cancelled)
    BY <2>5, <1>2 DEF Ranged
  <2>. QED  BY <2>2, <2>4, <2>5, <2>6, GeneratorStep
<1>4. CASE failPage(g)
  <2>1. PICK next \in {"select", "failure"} :
          Become(g, [gen[g] EXCEPT !.pc = next, !.err = TRUE, !.retries = @ + 1])
    BY <1>4 DEF failPage
  <2>. DEFINE r == [gen[g] EXCEPT !.pc = next, !.err = TRUE, !.retries = @ + 1]
  <2>2. gen[g].pc = "select" /\ gen[g].retries < MaxRetries
    BY <1>4 DEF failPage
  <2>3. r \in Generator /\ r.pc = next /\ r.sent = gen[g].sent /\ r.listed = gen[g].listed
    <3>1. gen[g].retries + 1 \in 0..MaxRetries
      BY <1>1, <1>2, <2>2 DEF Generator
    <3>2. next \in GeneratorPCs
      BY DEF GeneratorPCs
    <3>. QED  BY <1>1, <3>1, <3>2 DEF Generator
  <2>4. Become(g, r)
    BY <2>1
  <2>. HIDE DEF r
  <2>5. Ranged(r, cancelled)
    BY <1>1, <2>2, <2>3 DEF Ranged
  <2>. QED  BY <2>2, <2>3, <2>4, <2>5, GeneratorStep
<1>5. CASE skipPage(g)
  <2>. DEFINE r == [gen[g] EXCEPT !.pc = "done", !.err = TRUE]
  <2>1. gen[g].pc = "select" /\ Become(g, r)
    BY <1>5 DEF skipPage
  <2>2. r \in Generator /\ r.pc = "done" /\ r.err = TRUE /\ r.sent = gen[g].sent
    BY <1>1 DEF Generator, GeneratorPCs
  <2>. HIDE DEF r
  <2>. QED  BY <2>1, <2>2, GeneratorStep DEF Ranged
<1>6. CASE panicPage(g)
  <2>. DEFINE r == [gen[g] EXCEPT !.pc = "done", !.panicked = TRUE]
  <2>1. gen[g].pc = "select" /\ Become(g, r)
    BY <1>6 DEF panicPage
  <2>2. r \in Generator /\ r.pc = "done" /\ r.panicked = TRUE /\ r.sent = gen[g].sent
    BY <1>1 DEF Generator, GeneratorPCs
  <2>. HIDE DEF r
  <2>. QED  BY <2>1, <2>2, GeneratorStep DEF Ranged
<1>7. CASE stop(g)
  <2>. DEFINE r == [gen[g] EXCEPT !.pc = "done"]
  <2>1. cancelled /\ gen[g].pc # "done" /\ Become(g, r)
    BY <1>7 DEF stop
  <2>2. r \in Generator /\ r.pc = "done" /\ r.sent = gen[g].sent
    BY <1>1 DEF Generator, GeneratorPCs
  <2>. HIDE DEF r
  <2>. QED  BY <2>1, <2>2, GeneratorStep DEF Ranged
<1>. QED  BY <1>3, <1>4, <1>5, <1>6, <1>7 DEF generate

\* A forwarder takes a signal, ends with its generator or leaves it.
LEMMA ForwardStep ==
  ASSUME FeedAssumption, Inv, NEW g \in Generators, forward(g)
  PROVE  Inv'
<1>1. /\ gen \in [Generators -> Generator]
      /\ forwarder \in [Generators -> Signals \cup {"receive", "done"}]
      /\ delivered \in [Generators -> 0..MaxListed]
      /\ cancelled \in BOOLEAN
  BY DEF Inv, TypeOK
<1>2. /\ \A h \in Generators : Each(h)
      /\ Closing
  BY DEF Inv
<1>3. forwarder[g] # "done" /\ ~direct /\ ~closed
  BY <1>2 DEF forward, take, rangeEnds, abandon, Signals, Closing
<1>4. consumer # "ended"
  BY <1>2, <1>3 DEF Closing
<1>5. CASE take(g)
  <2>1. gen[g].pc \in Signals /\ forwarder[g] = "receive"
    BY <1>5 DEF take
  <2>2. /\ Sent(gen[g]) \in Generator
        /\ Ranged(Sent(gen[g]), cancelled)
        /\ Sent(gen[g]).sent = gen[g].sent + Held(gen[g].pc)
    BY <1>1, <1>2, <2>1, SentAdvances DEF Each
  <2>3. /\ gen' \in [Generators -> Generator]
        /\ gen'[g] = Sent(gen[g])
        /\ \A h \in Generators \ {g} : gen'[h] = gen[h]
    BY <1>1, <1>5, <2>2 DEF take
  <2>4. /\ forwarder' \in [Generators -> Signals \cup {"receive", "done"}]
        /\ forwarder'[g] = gen[g].pc
        /\ \A h \in Generators \ {g} : forwarder'[h] = forwarder[h]
    BY <1>1, <1>5, <2>1 DEF take
  <2>5. UNCHANGED <<direct, closed, consumer, delivered, cancelled>>
    BY <1>5 DEF take
  <2>6. TypeOK'
    BY <2>3, <2>4, <2>5 DEF Inv, TypeOK
  <2>7. Closing'
    BY <1>3, <1>4, <2>5 DEF Closing
  <2>8. ASSUME NEW h \in Generators PROVE Each(h)'
    <3>1. CASE h = g
      <4>1. Counted(delivered[g], gen[g].pc, Sent(gen[g]), cancelled)
        <5>1. delivered[g] \in Nat /\ gen[g].sent \in Nat /\ Held(gen[g].pc) \in Nat
          BY <1>1 DEF Generator, Held
        <5>2. Counted(delivered[g], "receive", gen[g], cancelled)
          BY <1>2, <2>1 DEF Each
        <5>3. delivered[g] <= gen[g].sent /\ (~cancelled => delivered[g] = gen[g].sent)
          BY <5>1, <5>2 DEF Counted, Held
        <5>. QED  BY <2>2, <5>1, <5>3 DEF Counted
      <4>2. Joined(gen[g].pc, Sent(gen[g]), cancelled, direct)
        BY <2>1 DEF Joined, Signals
      <4>. QED  BY <2>2, <2>3, <2>4, <2>5, <3>1, <4>1, <4>2 DEF Each
    <3>2. CASE h # g
      BY <1>2, <2>3, <2>4, <2>5, <3>2 DEF Each
    <3>. QED  BY <3>1, <3>2
  <2>. QED  BY <2>6, <2>7, <2>8 DEF Inv
<1>6. CASE rangeEnds(g) \/ abandon(g)
  <2>1. /\ forwarder' \in [Generators -> Signals \cup {"receive", "done"}]
        /\ forwarder'[g] = "done"
        /\ \A h \in Generators \ {g} : forwarder'[h] = forwarder[h]
    BY <1>1, <1>6 DEF rangeEnds, abandon
  <2>2. UNCHANGED <<direct, gen, closed, consumer, delivered, cancelled>>
    BY <1>6 DEF rangeEnds, abandon
  <2>3. (gen[g].pc = "done" /\ forwarder[g] = "receive") \/ cancelled
    BY <1>6 DEF rangeEnds, abandon
  <2>4. TypeOK'
    BY <2>1, <2>2 DEF Inv, TypeOK
  <2>5. Closing'
    BY <1>3, <1>4, <2>2 DEF Closing
  <2>6. ASSUME NEW h \in Generators PROVE Each(h)'
    <3>1. CASE h = g
      <4>1. delivered[g] \in Nat /\ gen[g].sent \in Nat
        BY <1>1 DEF Generator
      <4>2. Counted(delivered[g], forwarder[g], gen[g], cancelled)
        BY <1>2 DEF Each
      <4>3. Counted(delivered[g], "done", gen[g], cancelled)
        BY <2>3, <4>1, <4>2 DEF Counted, Held
      <4>4. Joined("done", gen[g], cancelled, direct)
        BY <2>3 DEF Joined
      <4>. QED  BY <1>2, <2>1, <2>2, <3>1, <4>3, <4>4 DEF Each
    <3>2. CASE h # g
      BY <1>2, <2>1, <2>2, <3>2 DEF Each
    <3>. QED  BY <3>1, <3>2
  <2>. QED  BY <2>4, <2>5, <2>6 DEF Inv
<1>. QED  BY <1>5, <1>6 DEF forward

\* The consumer meets a forwarder, or the single generator.
LEMMA ReceiveStep ==
  ASSUME FeedAssumption, Inv, NEW g \in Generators, receive(g)
  PROVE  Inv'
<1>1. /\ gen \in [Generators -> Generator]
      /\ forwarder \in [Generators -> Signals \cup {"receive", "done"}]
      /\ delivered \in [Generators -> 0..MaxListed]
      /\ cancelled \in BOOLEAN
      /\ MaxListed \in Nat
  BY DEF Inv, TypeOK, FeedAssumption
<1>2. /\ \A h \in Generators : Each(h)
      /\ Closing
  BY DEF Inv
<1>3. /\ consumer = "receive"
      /\ UNCHANGED <<direct, closed, consumer, cancelled>>
  BY DEF receive
<1>4. /\ delivered[g] \in Nat
      /\ gen[g].sent \in Nat /\ gen[g].sent <= MaxListed
  BY <1>1 DEF Generator
<1>5. CASE ~closed /\ forwarder[g] \in Signals /\ UNCHANGED gen
           /\ forwarder' = [forwarder EXCEPT ![g] = "receive"]
           /\ Deliver(g, forwarder[g])
  <2>1. /\ forwarder' \in [Generators -> Signals \cup {"receive", "done"}]
        /\ forwarder'[g] = "receive"
        /\ \A h \in Generators \ {g} : forwarder'[h] = forwarder[h]
    BY <1>1, <1>5
  <2>2. ~direct
    BY <1>2, <1>5 DEF Closing, Signals
  <2>3. /\ delivered[g] + Held(forwarder[g]) <= gen[g].sent
        /\ ~cancelled => delivered[g] + Held(forwarder[g]) = gen[g].sent
    BY <1>2 DEF Each, Counted
  <2>4. /\ delivered' \in [Generators -> 0..MaxListed]
        /\ delivered'[g] = delivered[g] + Held(forwarder[g])
        /\ \A h \in Generators \ {g} : delivered'[h] = delivered[h]
    <3>1. CASE forwarder[g] = "found"
      <4>1. delivered' = [delivered EXCEPT ![g] = @ + 1]
        BY <1>5, <3>1 DEF Deliver
      <4>2. delivered[g] + 1 \in 0..MaxListed
        BY <1>1, <1>4, <2>3, <3>1 DEF Held
      <4>. QED  BY <1>1, <3>1, <4>1, <4>2 DEF Held
    <3>2. CASE forwarder[g] = "failure"
      BY <1>1, <1>4, <1>5, <3>2 DEF Deliver, Held
    <3>. QED  BY <1>5, <3>1, <3>2 DEF Signals
  <2>5. TypeOK'
    BY <1>3, <1>5, <2>1, <2>4 DEF Inv, TypeOK
  <2>6. Closing'
    BY <1>3, <1>5, <2>2 DEF Closing
  <2>7. ASSUME NEW h \in Generators PROVE Each(h)'
    <3>1. CASE h = g
      <4>1. Held("receive") = 0 /\ Held(forwarder[g]) \in Nat
        BY DEF Held
      <4>2. Counted(delivered'[g], "receive", gen[g], cancelled)
        BY <1>4, <2>3, <2>4, <4>1 DEF Counted
      <4>3. Joined("receive", gen[g], cancelled, direct)
        BY DEF Joined
      <4>. QED  BY <1>2, <1>3, <1>5, <2>1, <3>1, <4>2, <4>3 DEF Each
    <3>2. CASE h # g
      BY <1>2, <1>3, <1>5, <2>1, <2>4, <3>2 DEF Each
    <3>. QED  BY <3>1, <3>2
  <2>. QED  BY <2>5, <2>6, <2>7 DEF Inv
<1>6. CASE direct /\ gen[g].pc \in Signals /\ UNCHANGED forwarder
           /\ gen' = [gen EXCEPT ![g] = Sent(@)]
           /\ Deliver(g, gen[g].pc)
  <2>1. /\ Sent(gen[g]) \in Generator
        /\ Ranged(Sent(gen[g]), cancelled)
        /\ Sent(gen[g]).sent = gen[g].sent + Held(gen[g].pc)
    BY <1>1, <1>2, <1>6, SentAdvances DEF Each
  <2>2. /\ gen' \in [Generators -> Generator]
        /\ gen'[g] = Sent(gen[g])
        /\ \A h \in Generators \ {g} : gen'[h] = gen[h]
    BY <1>1, <1>6, <2>1
  <2>3. forwarder[g] = "done" /\ ~closed
    BY <1>2, <1>6 DEF Closing
  <2>4. delivered[g] <= gen[g].sent /\ (~cancelled => delivered[g] = gen[g].sent)
    <3>1. Counted(delivered[g], "done", gen[g], cancelled)
      BY <1>2, <2>3 DEF Each
    <3>. QED  BY <1>4, <3>1 DEF Counted, Held
  <2>5. Sent(gen[g]).sent <= MaxListed
    BY <1>1, <2>1 DEF Generator
  <2>6. /\ delivered' \in [Generators -> 0..MaxListed]
        /\ delivered'[g] = delivered[g] + Held(gen[g].pc)
        /\ \A h \in Generators \ {g} : delivered'[h] = delivered[h]
    <3>1. CASE gen[g].pc = "found"
      <4>1. delivered' = [delivered EXCEPT ![g] = @ + 1]
        BY <1>6, <3>1 DEF Deliver
      <4>2. delivered[g] + 1 \in 0..MaxListed
        BY <1>1, <1>4, <2>1, <2>4, <2>5, <3>1 DEF Held
      <4>. QED  BY <1>1, <3>1, <4>1, <4>2 DEF Held
    <3>2. CASE gen[g].pc = "failure"
      BY <1>1, <1>4, <1>6, <3>2 DEF Deliver, Held
    <3>. QED  BY <1>6, <3>1, <3>2 DEF Signals
  <2>7. TypeOK'
    BY <1>3, <1>6, <2>2, <2>6 DEF Inv, TypeOK
  <2>8. Closing'
    BY <1>2, <1>3, <1>6, <2>3 DEF Closing
  <2>9. ASSUME NEW h \in Generators PROVE Each(h)'
    <3>1. CASE h = g
      <4>1. Held("done") = 0 /\ Held(gen[g].pc) \in Nat
        BY DEF Held
      <4>2. Counted(delivered'[g], "done", Sent(gen[g]), cancelled)
        BY <1>4, <2>1, <2>4, <2>6, <4>1 DEF Counted
      <4>3. Joined("done", Sent(gen[g]), cancelled, direct)
        BY <1>6 DEF Joined
      <4>. QED  BY <1>3, <1>6, <2>1, <2>2, <2>3, <3>1, <4>2, <4>3 DEF Each
    <3>2. CASE h # g
      BY <1>2, <1>3, <1>6, <2>2, <2>6, <3>2 DEF Each
    <3>. QED  BY <3>1, <3>2
  <2>. QED  BY <2>7, <2>8, <2>9 DEF Inv
<1>. QED  BY <1>5, <1>6 DEF receive

\* Every step keeps the invariant.
LEMMA NextInv == ASSUME FeedAssumption, Inv, [Next]_vars PROVE Inv'
<1>1. ASSUME NEW g \in Generators, generate(g) PROVE Inv'
  BY <1>1, GenerateStep
<1>2. ASSUME NEW g \in Generators, forward(g) PROVE Inv'
  BY <1>2, ForwardStep
<1>3. ASSUME NEW g \in Generators, receive(g) PROVE Inv'
  BY <1>3, ReceiveStep
<1>4. CASE finish
  BY <1>4 DEF finish, Waited, Inv, TypeOK, Closing, Each
<1>5. CASE feedEnds
  BY <1>5 DEF feedEnds, Inv, TypeOK, Closing, Each
<1>6. CASE cancel
  <2>1. UNCHANGED <<direct, gen, forwarder, closed, consumer, delivered>> /\ cancelled'
    BY <1>6 DEF cancel
  <2>2. TypeOK' /\ Closing'
    BY <2>1 DEF Inv, TypeOK, Closing
  <2>3. ASSUME NEW g \in Generators PROVE Each(g)'
    BY <2>1 DEF Inv, Each, Ranged, Counted, Joined
  <2>. QED  BY <2>2, <2>3 DEF Inv
<1>7. CASE UNCHANGED vars
  BY <1>7 DEF vars, Inv, TypeOK, Closing, Each
<1>. QED  BY <1>1, <1>2, <1>3, <1>4, <1>5, <1>6, <1>7 DEF Next

\* The invariant holds in every reachable state.
LEMMA InvHolds == Spec => []Inv
<1>1. Init => Inv
  BY FeedAssumption, InitInv
<1>2. Inv /\ [Next]_vars => Inv'
  BY FeedAssumption, NextInv
<1>. QED  BY <1>1, <1>2, PTL DEF Spec
----------------------------------------------------------------------------
\* The types of Feed: no generator sends, and no consumer receives, more than
\* the page listed.
THEOREM FeedTypeCorrect == Spec => []TypeOK
<1>1. Inv => TypeOK
  BY DEF Inv
<1>. QED  BY <1>1, InvHolds, PTL

\* mergeSrc.finish closes the channel after the last forwarder has left it.
THEOREM ClosesLast == Spec => []NoSendAfterClose
<1>1. Inv => NoSendAfterClose
  BY DEF Inv, Closing, NoSendAfterClose
<1>. QED  BY <1>1, InvHolds, PTL

\* An uncancelled refresh ends after all its generators.
THEOREM EndsQuietly == Spec => []QuietAtTheEnd
<1>1. Inv => QuietAtTheEnd
  <2>. SUFFICES ASSUME Inv, consumer = "ended", ~cancelled, NEW g \in Generators
                PROVE  gen[g].pc = "done"
    BY DEF QuietAtTheEnd
  <2>. QED  BY DEF Inv, Closing, Each, Joined
<1>. QED  BY <1>1, InvHolds, PTL

\* An uncancelled refresh without an error has delivered what was listed.
THEOREM DeliversAll == Spec => []AllDelivered
<1>1. Inv => AllDelivered
  <2>. SUFFICES ASSUME Inv, consumer = "ended", ~cancelled, ~Err,
                       NEW g \in Generators, ~gen[g].panicked
                PROVE  delivered[g] = gen[g].listed
    BY DEF AllDelivered
  <2>1. forwarder[g] = "done"
    BY DEF Inv, Closing
  <2>2. gen[g].pc = "done"
    BY <2>1 DEF Inv, Closing, Each, Joined
  <2>3. ~gen[g].err
    BY DEF Err
  <2>4. gen[g].sent = gen[g].listed
    BY <2>2, <2>3 DEF Inv, Each, Ranged
  <2>5. Counted(delivered[g], "done", gen[g], cancelled)
    BY <2>1 DEF Inv, Each
  <2>6. delivered[g] \in Nat
    BY FeedAssumption DEF Inv, TypeOK, FeedAssumption
  <2>. QED  BY <2>4, <2>5, <2>6 DEF Counted, Held
<1>. QED  BY <1>1, InvHolds, PTL
----------------------------------------------------------------------------
(* The end of a refresh (FeedEnds) from three facts about single states and  *)
(* steps: whoever stands at a send is heard, somebody can step until the     *)
(* refresh has ended, and every step takes from a finite store of steps.     *)

\* A forwarder at its send meets a consumer that still receives from an open
\* channel.  So does a generator: its forwarder, or its consumer if the source
\* is a single generator, has not left it.  Only a cancelled refresh leaves a
\* generator alone at the send of a failure (try.go:108), for good.
SendersAreHeard ==
  \A g \in Generators :
    /\ forwarder[g] \in Signals => consumer = "receive" /\ ~closed
    /\ gen[g].pc \in Signals /\ ~cancelled =>
         consumer = "receive" /\ (direct \/ forwarder[g] # "done")

\* The guards of what the goroutines do next, without cancel, which need not
\* come, and failPage, which is bounded.
SomebodySteps ==
  \/ \E g \in Generators : gen[g].pc = "select"                               \* listPage
  \/ \E g \in Generators : forwarder[g] = "receive" /\ gen[g].pc \in Signals  \* take
  \/ \E g \in Generators : forwarder[g] = "receive" /\ gen[g].pc = "done"     \* rangeEnds
  \/ ~direct /\ ~closed /\ Waited                                             \* finish
  \/ consumer = "receive" /\ \E g \in Generators :                            \* receive
       (~closed /\ forwarder[g] \in Signals) \/ (direct /\ gen[g].pc \in Signals)
  \/ consumer = "receive" /\                                                  \* feedEnds
       (closed \/ (direct /\ \A g \in Generators : gen[g].pc = "done"))

\* No refresh is stuck before its end, cancelled or not: every sender of a
\* signal has a receiver, and some goroutine of try.go can step.
THEOREM NobodyIsStuck ==
  Spec => [](SendersAreHeard /\ (consumer # "ended" => SomebodySteps))
<1>1. Inv => SendersAreHeard
  <2>. SUFFICES ASSUME Inv, NEW g \in Generators
                PROVE  /\ forwarder[g] \in Signals => consumer = "receive" /\ ~closed
                       /\ gen[g].pc \in Signals /\ ~cancelled =>
                            consumer = "receive" /\ (direct \/ forwarder[g] # "done")
    BY DEF SendersAreHeard
  <2>1. consumer \in {"receive", "ended"} /\ Closing /\ Joined(forwarder[g], gen[g], cancelled, direct)
    BY DEF Inv, TypeOK, Each
  <2>2. ASSUME forwarder[g] \in Signals PROVE consumer = "receive" /\ ~closed
    BY <2>1, <2>2 DEF Closing, Signals
  <2>3. ASSUME gen[g].pc \in Signals, ~cancelled
        PROVE  consumer = "receive" /\ (direct \/ forwarder[g] # "done")
    BY <2>1, <2>3 DEF Closing, Joined, Signals
  <2>. QED  BY <2>2, <2>3
<1>2. Inv /\ consumer # "ended" => SomebodySteps
  <2>. SUFFICES ASSUME Inv, consumer # "ended" PROVE SomebodySteps
    OBVIOUS
  <2>1. /\ consumer = "receive" /\ Closing /\ direct \in BOOLEAN /\ closed \in BOOLEAN
        /\ \A g \in Generators : /\ gen[g].pc \in {"select", "done"} \cup Signals
                                 /\ forwarder[g] \in {"receive", "done"} \cup Signals
    BY DEF Inv, TypeOK, Generator, GeneratorPCs, Signals
  <2>2. CASE direct
    BY <2>1, <2>2 DEF SomebodySteps
  <2>3. CASE ~direct /\ closed
    BY <2>1, <2>3 DEF SomebodySteps
  <2>4. CASE ~direct /\ ~closed
    BY <2>1, <2>4 DEF SomebodySteps, Waited
  <2>. QED  BY <2>1, <2>2, <2>3, <2>4
<1>. QED  BY <1>1, <1>2, InvHolds, PTL

\* A bound of the steps that a generator and its forwarder have before them: two
\* for a proxy, its send and the forwarder's, and no more than four for a call
\* that failed.
ToCome(r) ==
  IF r.pc = "select" THEN 2 * MaxListed + 1 + 4 * (MaxRetries - r.retries)
  ELSE IF r.pc = "failure" THEN 2 * MaxListed + 4 + 4 * (MaxRetries - r.retries)
  ELSE IF r.pc = "found" THEN 2 * (r.listed - r.sent)
  ELSE 0

Handing(f) == IF f \in Signals THEN 2 ELSE IF f = "receive" THEN 1 ELSE 0

Variant(g) == ToCome(gen[g]) + Handing(forwarder[g])

\* One generator and its forwarder come closer to their end.
Advances(g) ==
  /\ Variant(g)' < Variant(g)
  /\ \A h \in Generators \ {g} : Variant(h)' = Variant(h)
  /\ UNCHANGED <<closed, consumer, cancelled>>

\* One of the three things happens that happen once.
HappensOnce ==
  /\ \A g \in Generators : Variant(g)' = Variant(g)
  /\ \/ ~closed /\ closed' /\ UNCHANGED <<consumer, cancelled>>
     \/ consumer = "receive" /\ consumer' = "ended" /\ UNCHANGED <<closed, cancelled>>
     \/ ~cancelled /\ cancelled' /\ UNCHANGED <<closed, consumer>>

LEMMA ToComeType ==
  ASSUME FeedAssumption, NEW r \in Generator, NEW c, Ranged(r, c)
  PROVE  ToCome(r) \in Nat
<1>1. /\ MaxListed \in Nat /\ r.retries \in Nat /\ r.listed \in Nat /\ r.sent \in Nat
      /\ MaxRetries \in Nat /\ r.retries <= MaxRetries /\ (r.pc = "found" => r.sent < r.listed)
  BY DEF Generator, Ranged, FeedAssumption
<1>. QED  BY <1>1 DEF ToCome

\* Where a range stands, from what is left of the page.
LEMMA RangingToCome ==
  ASSUME FeedAssumption, NEW r \in Generator
  PROVE  /\ ToCome(Ranging(r)) <= 2 * MaxListed
         /\ r.sent <= r.listed => ToCome(Ranging(r)) = 2 * (r.listed - r.sent)
<1>1. /\ r.listed \in Nat /\ r.sent \in Nat /\ MaxListed \in Nat /\ r.listed <= MaxListed
  BY DEF Generator, FeedAssumption
<1>2. /\ Ranging(r).sent = r.sent /\ Ranging(r).listed = r.listed
      /\ Ranging(r).pc = IF r.sent < r.listed THEN "found" ELSE "done"
  BY RangingKeeps
<1>. QED  BY <1>1, <1>2 DEF ToCome

\* A signal that was received pays for the forwarder that has it now.
LEMMA SentToCome ==
  ASSUME FeedAssumption, NEW r \in Generator, NEW c \in BOOLEAN, Ranged(r, c), r.pc \in Signals
  PROVE  ToCome(Sent(r)) <= ToCome(r) - 2
<1>1. /\ MaxListed \in Nat /\ r.retries \in Nat /\ r.listed \in Nat /\ r.sent \in Nat
      /\ MaxRetries \in Nat /\ r.retries <= MaxRetries /\ (r.pc = "found" => r.sent < r.listed)
  BY DEF Generator, Ranged, FeedAssumption
<1>2. CASE r.pc = "failure"
  <2>1. Sent(r).pc = "select" /\ Sent(r).retries = r.retries
    BY <1>2 DEF Sent, Generator
  <2>. QED  BY <1>1, <1>2, <2>1 DEF ToCome
<1>3. CASE r.pc = "found"
  <2>. DEFINE n == [r EXCEPT !.sent = @ + 1]
  <2>1. n \in Generator /\ n.sent = r.sent + 1 /\ n.listed = r.listed /\ Sent(r) = Ranging(n)
    BY <1>1, <1>3 DEF Generator, Sent
  <2>. HIDE DEF n
  <2>2. ToCome(Ranging(n)) = 2 * (n.listed - n.sent)
    BY <1>1, <1>3, <2>1, RangingToCome
  <2>. QED  BY <1>1, <1>3, <2>1, <2>2 DEF ToCome
<1>. QED  BY <1>2, <1>3 DEF Signals

\* A generator alone takes a step and has fewer of them to come.
LEMMA GeneratorAdvances ==
  ASSUME Inv, NEW g \in Generators, NEW r \in Generator, Become(g, r),
         ToCome(r) < ToCome(gen[g]), ToCome(r) \in Nat, ToCome(gen[g]) \in Nat
  PROVE  Advances(g)
<1>1. gen'[g] = r /\ \A h \in Generators \ {g} : gen'[h] = gen[h]
  BY DEF Inv, TypeOK, Become
<1>2. Handing(forwarder[g]) \in Nat /\ UNCHANGED <<forwarder, closed, consumer, cancelled>>
  BY DEF Handing, Become
<1>3. Variant(g)' < Variant(g)
  BY <1>1, <1>2 DEF Variant
<1>4. \A h \in Generators \ {g} : Variant(h)' = Variant(h)
  BY <1>1, <1>2 DEF Variant
<1>. QED  BY <1>2, <1>3, <1>4 DEF Advances

\* Every call of a scraper, and ctx.Done().
LEMMA GenerateAdvances ==
  ASSUME FeedAssumption, Inv, NEW g \in Generators, generate(g)
  PROVE  Advances(g)
<1>. DEFINE r == gen[g]
<1>1. r \in Generator /\ Ranged(r, cancelled) /\ ToCome(r) \in Nat
  BY ToComeType DEF Inv, TypeOK, Each
<1>2. /\ MaxListed \in Nat /\ MaxRetries \in Nat /\ r.retries \in Nat /\ r.retries <= MaxRetries
      /\ r.sent \in Nat /\ r.listed \in Nat
  BY <1>1 DEF Generator, FeedAssumption
<1>. HIDE DEF r
<1>3. CASE listPage(g)
  <2>1. PICK n \in 0..MaxListed : Become(g, Ranging([r EXCEPT !.err = FALSE, !.listed = n]))
    BY <1>3 DEF listPage, r
  <2>. DEFINE page == [r EXCEPT !.err = FALSE, !.listed = n]
  <2>2. r.pc = "select" /\ r.sent = 0
    BY <1>1, <1>3 DEF listPage, Ranged, r
  <2>3. page \in Generator /\ page.sent = 0 /\ page.listed = n
    BY <1>1, <2>2 DEF Generator
  <2>. HIDE DEF page
  <2>4. Ranging(page) \in Generator /\ ToCome(Ranging(page)) = 2 * (n - 0)
    BY <2>3, RangingKeeps, RangingToCome
  <2>5. ToCome(r) = 2 * MaxListed + 1 + 4 * (MaxRetries - r.retries)
    BY <2>2 DEF ToCome
  <2>6. ToCome(Ranging(page)) < ToCome(r) /\ ToCome(Ranging(page)) \in Nat
    BY <1>2, <2>4, <2>5
  <2>7. Become(g, Ranging(page))
    BY <2>1 DEF page
  <2>. QED  BY <1>1, <2>4, <2>6, <2>7, GeneratorAdvances DEF r
<1>4. CASE failPage(g)
  <2>1. PICK next \in {"select", "failure"} :
          Become(g, [r EXCEPT !.pc = next, !.err = TRUE, !.retries = @ + 1])
    BY <1>4 DEF failPage, r
  <2>. DEFINE n == [r EXCEPT !.pc = next, !.err = TRUE, !.retries = @ + 1]
  <2>2. r.pc = "select" /\ r.retries < MaxRetries
    BY <1>4 DEF failPage, r
  <2>3. n \in Generator /\ n.pc = next /\ n.retries = r.retries + 1
    <3>1. r.retries + 1 \in 0..MaxRetries /\ next \in GeneratorPCs
      BY <1>2, <2>2 DEF GeneratorPCs
    <3>2. n \in Generator
      BY <1>1, <3>1 DEF Generator
    <3>3. n.pc = next /\ n.retries = r.retries + 1
      BY <1>1 DEF Generator
    <3>. QED  BY <3>2, <3>3
  <2>4. Become(g, n)
    BY <2>1
  <2>. HIDE DEF n
  <2>5. ToCome(n) < ToCome(r) /\ ToCome(n) \in Nat
    <3>1. ToCome(r) = 2 * MaxListed + 1 + 4 * (MaxRetries - r.retries)
      BY <2>2 DEF ToCome
    <3>2. ToCome(n) = IF next = "select" THEN 2 * MaxListed + 1 + 4 * (MaxRetries - (r.retries + 1))
                                         ELSE 2 * MaxListed + 4 + 4 * (MaxRetries - (r.retries + 1))
      BY <2>3 DEF ToCome
    <3>. QED  BY <1>2, <2>2, <3>1, <3>2
  <2>. QED  BY <1>1, <2>3, <2>4, <2>5, GeneratorAdvances DEF r
<1>5. ASSUME NEW n \in Generator, n.pc = "done", r.pc \in {"select", "found"}, Become(g, n)
      PROVE  Advances(g)
  <2>1. ToCome(n) = 0
    BY <1>5 DEF ToCome
  <2>2. ToCome(r) > 0
    BY <1>1, <1>2, <1>5 DEF ToCome, Ranged
  <2>. QED  BY <1>1, <1>5, <2>1, <2>2, GeneratorAdvances DEF r
<1>6. CASE skipPage(g)
  <2>1. r.pc = "select" /\ Become(g, [r EXCEPT !.pc = "done", !.err = TRUE])
    BY <1>6 DEF skipPage, r
  <2>2. [r EXCEPT !.pc = "done", !.err = TRUE] \in Generator
    BY <1>1 DEF Generator, GeneratorPCs
  <2>. QED  BY <1>1, <1>5, <2>1, <2>2 DEF Generator
<1>7. CASE panicPage(g)
  <2>1. r.pc = "select" /\ Become(g, [r EXCEPT !.pc = "done", !.panicked = TRUE])
    BY <1>7 DEF panicPage, r
  <2>2. [r EXCEPT !.pc = "done", !.panicked = TRUE] \in Generator
    BY <1>1 DEF Generator, GeneratorPCs
  <2>. QED  BY <1>1, <1>5, <2>1, <2>2 DEF Generator
<1>8. CASE stop(g)
  <2>1. r.pc \in {"select", "found"} /\ Become(g, [r EXCEPT !.pc = "done"])
    BY <1>8 DEF stop, r
  <2>2. [r EXCEPT !.pc = "done"] \in Generator
    BY <1>1 DEF Generator, GeneratorPCs
  <2>. QED  BY <1>1, <1>5, <2>1, <2>2 DEF Generator
<1>. QED  BY <1>3, <1>4, <1>6, <1>7, <1>8 DEF generate

\* A signal, or the end of a range, passes from one goroutine to the next.
LEMMA HandingAdvances ==
  ASSUME FeedAssumption, Inv, NEW g \in Generators, forward(g) \/ receive(g)
  PROVE  Advances(g)
<1>1. /\ gen \in [Generators -> Generator] /\ gen[g] \in Generator
      /\ forwarder \in [Generators -> Signals \cup {"receive", "done"}]
      /\ Ranged(gen[g], cancelled) /\ cancelled \in BOOLEAN /\ ToCome(gen[g]) \in Nat
  BY ToComeType DEF Inv, TypeOK, Each
<1>2. ASSUME gen[g].pc \in Signals
      PROVE  ToCome(Sent(gen[g])) <= ToCome(gen[g]) - 2 /\ ToCome(Sent(gen[g])) \in Nat
  <2>1. Sent(gen[g]) \in Generator /\ Ranged(Sent(gen[g]), cancelled)
    BY <1>1, <1>2, SentAdvances
  <2>. QED  BY <1>1, <1>2, <2>1, SentToCome, ToComeType
<1>. DEFINE sum(r, f) == ToCome(r) + Handing(f)
<1>3. ASSUME NEW r, NEW f, gen' = [gen EXCEPT ![g] = r], forwarder' = [forwarder EXCEPT ![g] = f],
             sum(r, f) < sum(gen[g], forwarder[g]), UNCHANGED <<closed, consumer, cancelled>>
      PROVE  Advances(g)
  <2>1. gen'[g] = r /\ forwarder'[g] = f
    BY <1>1, <1>3
  <2>2. \A h \in Generators \ {g} : gen'[h] = gen[h] /\ forwarder'[h] = forwarder[h]
    BY <1>1, <1>3
  <2>. QED  BY <1>3, <2>1, <2>2 DEF Advances, Variant
<1>4. CASE take(g)
  <2>1. /\ gen' = [gen EXCEPT ![g] = Sent(gen[g])]
        /\ forwarder' = [forwarder EXCEPT ![g] = gen[g].pc]
        /\ gen[g].pc \in Signals /\ forwarder[g] = "receive"
        /\ UNCHANGED <<closed, consumer, cancelled>>
    BY <1>4 DEF take
  <2>2. Handing(gen[g].pc) = 2 /\ Handing(forwarder[g]) = 1
    BY <2>1 DEF Handing, Signals
  <2>3. sum(Sent(gen[g]), gen[g].pc) < sum(gen[g], forwarder[g])
    BY <1>1, <1>2, <2>1, <2>2
  <2>. QED  BY <1>3, <2>1, <2>3
<1>5. CASE rangeEnds(g) \/ abandon(g)
  <2>1. /\ gen' = [gen EXCEPT ![g] = gen[g]]
        /\ forwarder' = [forwarder EXCEPT ![g] = "done"]
        /\ forwarder[g] \in Signals \cup {"receive"}
        /\ UNCHANGED <<closed, consumer, cancelled>>
    BY <1>1, <1>5 DEF rangeEnds, abandon
  <2>2. Handing("done") = 0 /\ Handing(forwarder[g]) \in {1, 2}
    BY <2>1 DEF Handing, Signals
  <2>3. sum(gen[g], "done") < sum(gen[g], forwarder[g])
    BY <1>1, <2>2
  <2>. QED  BY <1>3, <2>1, <2>3
<1>6. CASE receive(g)
  <2>1. UNCHANGED <<closed, consumer, cancelled>>
    BY <1>6 DEF receive
  <2>2. CASE forwarder[g] \in Signals /\ UNCHANGED gen
             /\ forwarder' = [forwarder EXCEPT ![g] = "receive"]
    <3>1. Handing("receive") = 1 /\ Handing(forwarder[g]) = 2
      BY <2>2 DEF Handing, Signals
    <3>2. sum(gen[g], "receive") < sum(gen[g], forwarder[g])
      BY <1>1, <3>1
    <3>3. gen' = [gen EXCEPT ![g] = gen[g]]
      BY <1>1, <2>2
    <3>. QED  BY <1>3, <2>1, <2>2, <3>2, <3>3
  <2>3. CASE gen[g].pc \in Signals /\ UNCHANGED forwarder
             /\ gen' = [gen EXCEPT ![g] = Sent(gen[g])]
    <3>1. Handing(forwarder[g]) \in Nat
      BY DEF Handing
    <3>2. sum(Sent(gen[g]), forwarder[g]) < sum(gen[g], forwarder[g])
      BY <1>1, <1>2, <2>3, <3>1
    <3>3. forwarder' = [forwarder EXCEPT ![g] = forwarder[g]]
      BY <1>1, <2>3
    <3>. QED  BY <1>3, <2>1, <2>3, <3>2, <3>3
  <2>. QED  BY <1>6, <2>2, <2>3 DEF receive
<1>. QED  BY <1>4, <1>5, <1>6 DEF forward

\* Every step of a refresh brings one generator and its forwarder closer to
\* their end, and no other further from it, or is the close, the end or the
\* cancellation: no interleaving of the goroutines of try.go goes on forever.
THEOREM EveryRefreshIsFinite ==
  /\ Spec => [](\A g \in Generators : Variant(g) \in Nat)
  /\ Spec => [][(\E g \in Generators : Advances(g)) \/ HappensOnce]_vars
<1>1. Inv => \A g \in Generators : Variant(g) \in Nat
  <2>. SUFFICES ASSUME Inv, NEW g \in Generators PROVE Variant(g) \in Nat
    OBVIOUS
  <2>1. ToCome(gen[g]) \in Nat
    BY FeedAssumption, ToComeType DEF Inv, TypeOK, Each
  <2>2. Handing(forwarder[g]) \in Nat
    BY DEF Handing
  <2>. QED  BY <2>1, <2>2 DEF Variant
<1>2. Inv /\ [Next]_vars => [(\E g \in Generators : Advances(g)) \/ HappensOnce]_vars
  <2>. SUFFICES ASSUME Inv, Next
                PROVE  (\E g \in Generators : Advances(g)) \/ HappensOnce
    OBVIOUS
  <2>1. ASSUME NEW g \in Generators, generate(g) \/ forward(g) \/ receive(g) PROVE Advances(g)
    BY <2>1, FeedAssumption, GenerateAdvances, HandingAdvances
  <2>2. CASE finish
    BY <2>2 DEF finish, HappensOnce, Variant
  <2>3. CASE feedEnds
    BY <2>3 DEF feedEnds, HappensOnce, Variant
  <2>4. CASE cancel
    BY <2>4 DEF cancel, HappensOnce, Variant
  <2>. QED  BY <2>1, <2>2, <2>3, <2>4 DEF Next
<1>. QED  BY <1>1, <1>2, InvHolds, PTL DEF Spec
=============================================================================
