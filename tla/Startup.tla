------------------------------ MODULE Startup ------------------------------
(***************************************************************************)
(* app.Factories and Fabric.Start: the factories are put in an order,       *)
(* called, and their products configured, given their saved state and       *)
(* started, one after the other.  A factory has parameters, and a parameter *)
(* is the set of the factories whose product matches its type.  Go iterates *)
(* over maps in any order; edges are taken to be listed in any order too.   *)
(***************************************************************************)
EXTENDS Integers, FiniteSets, SequencesExt

CONSTANTS
  Factories, \* names
  Wirings    \* functions from Factories to sequences of parameters

ASSUME StartupAssumption ==
  /\ IsFiniteSet(Factories) /\ "monitor" \notin Factories
  /\ Wirings \subseteq [Factories -> Seq(SUBSET Factories)]

VARIABLES
  In,       \* the wiring of this program
  phase,    \* what Fabric.Start is doing
  indegree, \* factory -> parameters that are not in the order yet
  queue,    \* factories to be put in the order
  order,
  at        \* index into the order of the loop that is running

startupVars == <<In, phase, indegree, queue, order, at>>

Phases == {"order", "init", "configure", "load", "start", "run", "stopped"}

\* How many parameters of k the product of j matches.
matches(k, j) == Cardinality({i \in DOMAIN In[k] : j \in In[k][i]})

DependsOn(k) == {j \in Factories : matches(k, j) > 0}

\* Once for every parameter and every product that matches it.
degree(k) == Cardinality({e \in (DOMAIN In[k]) \X Factories : e[2] \in In[k][e[1]]})

\* Fabric.Start up to the loop of ordered: any order of what needs nothing.
Starting ==
  /\ phase' = "order"
  /\ indegree' = [k \in Factories |-> degree(k)]
  /\ queue' \in SetToSeqs({k \in Factories : degree(k) = 0})
  /\ order' = <<>>
  /\ at' = 1

StartupInit ==
  /\ In \in Wirings
  /\ phase = "order"
  /\ indegree = [k \in Factories |-> degree(k)]
  /\ queue \in SetToSeqs({k \in Factories : degree(k) = 0})
  /\ order = <<>>
  /\ at = 1

\* Mutant of released: one of its parameters is enough for a factory.
releasedEarly(k) == {j \in Factories : indegree[j] > 0 /\ matches(j, k) > 0}

\* There is an edge in both directions: what k depends on is counted down too.
lowered(k, j) == indegree[j] - matches(j, k) - matches(k, j)

\* The factories whose indegree passes zero when k is taken from the queue.
released(k) == {j \in Factories : indegree[j] > 0 /\ lowered(k, j) <= 0}

\* One round of the loop of ordered.
ordered ==
  /\ phase = "order" /\ queue # <<>>
  /\ LET k == Head(queue)
     IN  /\ order' = Append(order, k)
         /\ indegree' = [j \in Factories |-> lowered(k, j)]
         /\ \E next \in SetToSeqs(released(k)) : queue' = Tail(queue) \o next
  /\ UNCHANGED <<In, phase, at>>

orderDone ==
  /\ phase = "order" /\ queue = <<>>
  /\ phase' = "init"
  /\ UNCHANGED <<In, indegree, queue, order, at>>

\* resolve calls every factory once, after those of its parameters; it fails
\* unless every parameter has one match, and never ends in a cycle.
Resolvable ==
  /\ \A k \in Factories : \A i \in DOMAIN In[k] : Cardinality(In[k][i]) = 1
  /\ \A S \in SUBSET Factories : S # {} => \E k \in S : DependsOn(k) \cap S = {}

\* Factories.Init, and the monitor at the end of the order; a factory may fail.
resolve ==
  /\ phase = "init"
  /\ phase' \in IF Resolvable THEN {"configure", "stopped"} ELSE {"stopped"}
  /\ order' = Append(order, "monitor")
  /\ UNCHANGED <<In, indegree, queue, at>>

\* One round of configureServices; a service that cannot be configured ends
\* the program.
configureServices ==
  /\ phase = "configure" /\ at \in DOMAIN order
  /\ at' = at + 1
  /\ phase' \in {"configure", "stopped"}
  /\ UNCHANGED <<In, indegree, queue, order>>

configureDone ==
  /\ phase = "configure" /\ at \notin DOMAIN order
  /\ phase' = "load"
  /\ at' = 1
  /\ UNCHANGED <<In, indegree, queue, order>>

\* One round of startAll.
startAll ==
  /\ phase = "start" /\ at \in DOMAIN order
  /\ at' = at + 1
  /\ UNCHANGED <<In, phase, indegree, queue, order>>

\* go f.sync
startDone ==
  /\ phase = "start" /\ at \notin DOMAIN order
  /\ phase' = "run"
  /\ UNCHANGED <<In, indegree, queue, order, at>>

StartupNext ==
  ordered \/ orderDone \/ resolve \/ configureServices \/ configureDone \/ startAll \/ startDone

\* The services whose Start was called; monitor is the last of them.
Started == IF phase \in {"start", "run"} THEN {order[i] : i \in 1..(at - 1)} ELSE {}
----------------------------------------------------------------------------
StartupTypeOK ==
  /\ In \in Wirings
  /\ phase \in Phases
  /\ indegree \in [Factories -> Int]
  /\ queue \in Seq(Factories)
  /\ order \in Seq(Factories \cup {"monitor"})
  /\ at \in 1..(Len(order) + 1)

\* A service is configured and started once, after everything it depends on,
\* and none is left out of either: although ordered counts down in both
\* directions of an edge, and a factory that it leaves out would just not run
\* (fabric.go:187).  The servers of monitor listen last.
StartsInOrder ==
  /\ \A i \in DOMAIN order : order[i] # "monitor" =>
       /\ DependsOn(order[i]) \subseteq {order[j] : j \in 1..(i - 1)}
       /\ \A j \in 1..(i - 1) : order[j] # order[i]
  /\ phase \in {"configure", "load", "start", "run"} =>
       /\ Range(order) = Factories \cup {"monitor"}
       /\ Last(order) = "monitor"
=============================================================================
