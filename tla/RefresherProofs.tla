-------------------------- MODULE RefresherProofs --------------------------
(***************************************************************************)
(* Theorems about Refresher, for every list of sources, every set of them   *)
(* that is started or stopped over the API and every maxScheduled.          *)
(***************************************************************************)
EXTENDS Refresher, StatsProofs, FiniteSetTheorems

(* Induction over the turns of the loop in checkSources. *)

\* A set of numbers that is not empty has a least element.
LEMMA LeastNumber ==
  ASSUME NEW T, T \subseteq Nat, T # {}
  PROVE  \E m \in T : \A k \in T : m <= k
<1>. DEFINE R == OpToRel(<, Nat)
<1>1. IsWellFoundedOn(R, Nat)
  BY NatLessThanWellFounded, Zenon
<1>. HIDE DEF R
<1>2. PICK m \in T : \A k \in T : ~(<<k, m>> \in R)
  BY <1>1, WFMin
<1>3. \A k \in T : ~(k < m)
  BY <1>2 DEF R, OpToRel
<1>. QED  BY <1>3

\* Induction, stated with the set of the numbers for which the claim holds.
LEMMA InductiveSet ==
  ASSUME NEW T, 0 \in T, \A n \in Nat : n \in T => n + 1 \in T
  PROVE  Nat \subseteq T
<1>. SUFFICES ASSUME ~(Nat \subseteq T) PROVE FALSE
  OBVIOUS
<1>1. PICK m \in Nat \ T : \A k \in Nat \ T : m <= k
  BY LeastNumber
<1>. QED  BY <1>1

\* One turn of the loop.
Turn(a, n) == IF ~Full(a) /\ Startable(srcs[n]) THEN start(a, srcs[n]) ELSE a

IsRun(f, m) == f = [n \in 0..m |-> IF n = 0 THEN active ELSE Turn(f[n - 1], n)]

\* The turns define a function of their number, whatever the number of sources.
LEMMA RunExists == \A m \in Nat : \E f : IsRun(f, m)
<1>. DEFINE T == {m \in Nat : \E f : IsRun(f, m)}
<1>1. 0 \in T
  <2>. DEFINE f == [n \in 0..0 |-> active]
  <2>1. IsRun(f, 0)
    BY DEF IsRun
  <2>. QED  BY <2>1
<1>2. ASSUME NEW m \in Nat, m \in T PROVE m + 1 \in T
  <2>1. PICK f : IsRun(f, m)
    BY <1>2
  <2>. DEFINE g == [n \in 0..(m + 1) |-> IF n = m + 1 THEN Turn(f[m], m + 1) ELSE f[n]]
  <2>2. \A n \in 0..(m + 1) : g[n] = IF n = 0 THEN active ELSE Turn(g[n - 1], n)
    <3>. SUFFICES ASSUME NEW n \in 0..(m + 1)
                  PROVE  g[n] = IF n = 0 THEN active ELSE Turn(g[n - 1], n)
      OBVIOUS
    <3>1. CASE n = m + 1
      <4>1. n # 0 /\ n - 1 = m /\ m \in 0..(m + 1) /\ m # m + 1
        BY <3>1
      <4>. QED  BY <3>1, <4>1
    <3>2. CASE n = 0
      <4>1. g[0] = f[0] /\ f[0] = active
        BY <2>1 DEF IsRun
      <4>. QED  BY <3>2, <4>1
    <3>3. CASE n # m + 1 /\ n # 0
      <4>1. /\ n \in 0..m /\ n - 1 \in 0..m /\ n - 1 \in 0..(m + 1)
            /\ n - 1 # m + 1
        BY <3>3
      <4>2. f[n] = Turn(f[n - 1], n)
        BY <2>1, <3>3, <4>1 DEF IsRun
      <4>. QED  BY <3>3, <4>1, <4>2
    <3>. QED  BY <3>1, <3>2, <3>3
  <2>3. IsRun(g, m + 1)
    <3>. DEFINE h == [n \in 0..(m + 1) |-> IF n = 0 THEN active ELSE Turn(g[n - 1], n)]
    <3>1. g = h
      BY <2>2
    <3>. HIDE DEF g
    <3>. QED  BY <3>1 DEF IsRun
  <2>. QED  BY <2>3
<1>3. Nat \subseteq T
  <2>. HIDE DEF T
  <2>. QED  BY <1>1, <1>2, InductiveSet
<1>. QED  BY <1>3

\* The equation that defines Started.
LEMMA StartedRun ==
  /\ Started[0] = active
  /\ \A n \in 1..Len(srcs) : Started[n] = Turn(Started[n - 1], n)
<1>1. Len(srcs) \in Nat
  BY RefresherAssumption
<1>2. \E f : IsRun(f, Len(srcs))
  BY <1>1, RunExists
<1>3. Started = CHOOSE f : IsRun(f, Len(srcs))
  BY DEF Started, IsRun, Turn
<1>4. IsRun(Started, Len(srcs))
  BY <1>2, <1>3
<1>. QED  BY <1>1, <1>4 DEF IsRun
----------------------------------------------------------------------------
(* What the turns of checkSources do. *)

LEMMA FiniteSources == IsFiniteSet(Sources)
<1>1. srcs \in [1..Len(srcs) -> Sources] /\ Len(srcs) \in Nat
  BY RefresherAssumption
<1>2. srcs \in Surjection(1..Len(srcs), Sources)
  BY <1>1 DEF Surjection, Sources
<1>. QED  BY <1>1, <1>2, FS_Interval, FS_Surjection

ActiveType == [Sources -> Tasks \cup {NoTask}]

LEMMA NewTaskIs ==
  ASSUME NEW s \in Sources, FreeTasks(s) # {}
  PROVE  /\ NewTask(s) \in Tasks /\ NewTask(s)[1] = s
         /\ pc[NewTask(s)] = "none" /\ NewTask(s) # NoTask
<1>1. NewTask(s) \in FreeTasks(s)
  BY DEF NewTask
<1>2. \A t \in {s} \X (1..MaxRuns) : t \in Tasks /\ t[1] = s /\ t # NoTask
  BY DEF Tasks, NoTask
<1>. QED  BY <1>1, <1>2 DEF FreeTasks

\* From active to a, sources without a task were given one that is free.
Grown(a) ==
  /\ a \in ActiveType
  /\ \A s \in Sources : a[s] # active[s] =>
       /\ active[s] = NoTask
       /\ a[s] \in Tasks /\ a[s][1] = s /\ pc[a[s]] = "none"

\* One more source than maxScheduled is active at most, once one was started.
Limited(a) == a # active => Cardinality(Active(a)) <= maxScheduled + 1

LEMMA StartGrows ==
  ASSUME NEW a, Grown(a), NEW s \in Sources, FreeTasks(s) # {}
  PROVE  Grown(start(a, s))
<1>1. CASE a[s] # NoTask
  BY <1>1 DEF start
<1>2. CASE a[s] = NoTask
  <2>1. start(a, s) = [a EXCEPT ![s] = NewTask(s)]
    BY <1>2 DEF start
  <2>2. active[s] = NoTask
    BY <1>2 DEF Grown
  <2>. QED  BY <2>1, <2>2, NewTaskIs DEF Grown, ActiveType
<1>. QED  BY <1>1, <1>2

LEMMA StartLimited ==
  ASSUME NEW a \in ActiveType, NEW s \in Sources, ~Full(a)
  PROVE  Cardinality(Active(start(a, s))) <= maxScheduled + 1
<1>1. IsFiniteSet(Active(a))
  <2>1. Active(a) \in SUBSET Sources
    BY DEF Active
  <2>. QED  BY <2>1, FiniteSources, FS_Subset
<1>2. Cardinality(Active(a)) \in Nat /\ maxScheduled \in Nat
  BY <1>1, FS_CardinalityType, RefresherAssumption
<1>3. Cardinality(Active(a)) <= maxScheduled
  BY <1>2 DEF Full
<1>4. CASE a[s] # NoTask
  BY <1>2, <1>3, <1>4 DEF start
<1>5. CASE a[s] = NoTask
  <2>1. Active(start(a, s)) \in SUBSET (Active(a) \cup {s})
    BY <1>5 DEF start, Active, ActiveType
  <2>2. IsFiniteSet(Active(a) \cup {s}) /\ s \notin Active(a)
    BY <1>1, <1>5, FS_AddElement DEF Active
  <2>3. Cardinality(Active(a) \cup {s}) = Cardinality(Active(a)) + 1
    BY <1>1, <2>2, FS_AddElement
  <2>4. /\ Cardinality(Active(start(a, s))) <= Cardinality(Active(a) \cup {s})
        /\ Cardinality(Active(start(a, s))) \in Nat
    BY <2>1, <2>2, FS_Subset, FS_CardinalityType
  <2>. QED  BY <1>2, <1>3, <2>3, <2>4
<1>. QED  BY <1>4, <1>5

\* So much is true after every turn of the loop.
LEMMA CheckSourcesGrows ==
  ASSUME TypeOK, \A s \in Sources : FreeTasks(s) # {}
  PROVE  Grown(Started[Len(srcs)]) /\ Limited(Started[Len(srcs)])
<1>. DEFINE Holds(n) == Grown(Started[n]) /\ Limited(Started[n])
            T == {n \in Nat : n \in 0..Len(srcs) => Holds(n)}
<1>a. Len(srcs) \in Nat /\ \A n \in 1..Len(srcs) : srcs[n] \in Sources
  BY RefresherAssumption
<1>1. 0 \in T
  <2>1. Grown(active) /\ Limited(active)
    BY DEF Grown, Limited, ActiveType, TypeOK
  <2>. QED  BY <2>1, StartedRun
<1>2. ASSUME NEW n \in Nat, n \in T PROVE n + 1 \in T
  <2>. SUFFICES ASSUME n + 1 \in 0..Len(srcs) PROVE Holds(n + 1)
    OBVIOUS
  <2>. DEFINE a == Started[n]
              s == srcs[n + 1]
  <2>1. n \in 0..Len(srcs) /\ n + 1 \in 1..Len(srcs) /\ (n + 1) - 1 = n
    BY <1>a
  <2>2. Grown(a) /\ Limited(a)
    BY <1>2, <2>1
  <2>3. Started[n + 1] = Turn(a, n + 1)
    BY <2>1, StartedRun
  <2>4. s \in Sources
    BY <1>a, <2>1
  <2>. HIDE DEF a, s
  <2>5. CASE Turn(a, n + 1) = a
    BY <2>2, <2>3, <2>5
  <2>6. CASE ~Full(a) /\ Turn(a, n + 1) = start(a, s)
    <3>1. Grown(start(a, s))
      BY <2>2, <2>4, StartGrows
    <3>2. Cardinality(Active(start(a, s))) <= maxScheduled + 1
      BY <2>2, <2>4, <2>6, StartLimited DEF Grown
    <3>. QED  BY <2>3, <2>6, <3>1, <3>2 DEF Limited
  <2>. QED  BY <2>5, <2>6 DEF Turn, s
<1>3. Nat \subseteq T
  <2>. HIDE DEF T
  <2>. QED  BY <1>1, <1>2, InductiveSet
<1>. QED  BY <1>a, <1>3

\* Both ways of starting a source, the timer and the API, begin free tasks.
LEMMA BeginGrows ==
  ASSUME TypeOK, checkSources \/ \E s \in Sources : reqStart(s)
  PROVE  \E a : /\ Grown(a) /\ Begin(a)
                /\ UNCHANGED <<finish, stats, items, due>>
<1>1. CASE checkSources
  BY <1>1, CheckSourcesGrows DEF checkSources
<1>2. ASSUME NEW s \in Sources, reqStart(s)
      PROVE  Grown(start(active, s)) /\ Begin(start(active, s))
  <2>1. Grown(active)
    BY DEF Grown, ActiveType, TypeOK
  <2>. QED  BY <1>2, <2>1, StartGrows DEF reqStart
<1>. QED  BY <1>1, <1>2 DEF reqStart

LEMMA LaunchingIs ==
  ASSUME NEW a, Grown(a)
  PROVE  \A t \in Launching(a) :
           t \in Tasks /\ a[t[1]] = t /\ active[t[1]] = NoTask /\ pc[t] = "none"
<1>. SUFFICES ASSUME NEW s \in Sources, a[s] # active[s]
              PROVE  LET t == a[s] IN
                     t \in Tasks /\ a[t[1]] = t /\ active[t[1]] = NoTask /\ pc[t] = "none"
  BY DEF Launching
<1>. QED  BY DEF Grown
----------------------------------------------------------------------------
(* Type correctness. *)

LEMMA TaskSource == \A t \in Tasks : t[1] \in Sources
  BY DEF Tasks

LEMMA StatsType ==
  ASSUME TypeOK, NEW s \in Sources, NEW u \in Updates, Update(s, u)
  PROVE  stats' \in [Sources -> Stat] /\ due' \subseteq Sources
<1>1. handleUpdate(stats[s], u) \in Stat
  BY UpdateType DEF TypeOK
<1>. QED  BY <1>1 DEF Update, TypeOK

LEMMA TypeRefresh ==
  ASSUME TypeOK, NEW t \in Tasks, refresh(t)
  PROVE  TypeOK'
<1>a. t[1] \in Sources
  BY TaskSource
<1>b. /\ pc \in [Tasks -> PCs] /\ items \in [Sources -> 0..MaxSignals]
      /\ MaxSignals \in Nat /\ cancelled \subseteq Tasks
  BY RefresherAssumption DEF TypeOK
<1>1. CASE refreshLaunch(t)
  <2>1. stats' \in [Sources -> Stat] /\ due' \subseteq Sources
    BY <1>a, <1>1, StatsType DEF refreshLaunch, Updates
  <2>2. pc' \in [Tasks -> PCs]
    BY <1>b, <1>1 DEF refreshLaunch, PCs
  <2>. QED  BY <1>1, <2>1, <2>2 DEF refreshLaunch, TypeOK
<1>2. CASE Schedule(t)
  <2>1. stats' \in [Sources -> Stat] /\ due' \subseteq Sources
    BY <1>a, <1>2, StatsType DEF Schedule, Updates
  <2>2. items' \in [Sources -> 0..MaxSignals]
    <3>1. items[t[1]] + 1 \in 0..MaxSignals
      BY <1>a, <1>b, <1>2 DEF Schedule
    <3>. QED  BY <1>b, <1>2, <3>1 DEF Schedule
  <2>. QED  BY <1>2, <2>1, <2>2 DEF Schedule, TypeOK
<1>3. CASE refreshFinish(t)
  <2>1. stats' \in [Sources -> Stat] /\ due' \subseteq Sources
    BY <1>a, <1>3, StatsType DEF refreshFinish, Updates
  <2>2. pc' \in [Tasks -> PCs]
    BY <1>b, <1>3 DEF refreshFinish, PCs
  <2>. QED  BY <1>3, <2>1, <2>2 DEF refreshFinish, TypeOK
<1>4. CASE refreshReport(t)
  <2>1. pc' \in [Tasks -> PCs]
    BY <1>b, <1>4 DEF refreshReport, PCs
  <2>2. finish' \in {<<>>} \cup {<<s>> : s \in Sources} /\ cancelled' \subseteq Tasks
    BY <1>a, <1>b, <1>4 DEF refreshReport
  <2>. QED  BY <1>4, <2>1, <2>2 DEF refreshReport, TypeOK
<1>. QED  BY <1>1, <1>2, <1>3, <1>4 DEF refresh

LEMMA TypeStep == TypeOK /\ [Next]_vars => TypeOK'
<1>. SUFFICES ASSUME TypeOK, [Next]_vars PROVE TypeOK'
  OBVIOUS
<1>a. active \in [Sources -> Tasks \cup {NoTask}] /\ items \in [Sources -> 0..MaxSignals]
  BY DEF TypeOK
<1>1. CASE checkSources \/ \E s \in Sources : reqStart(s)
  <2>1. PICK a : Grown(a) /\ Begin(a) /\ UNCHANGED <<finish, stats, items, due>>
    BY <1>1, BeginGrows
  <2>2. active' \in [Sources -> Tasks \cup {NoTask}]
    BY <2>1 DEF Grown, Begin, ActiveType
  <2>3. pc' \in [Tasks -> PCs] /\ cancelled' \subseteq Tasks
    BY <2>1 DEF Begin, TypeOK, PCs
  <2>. QED  BY <2>1, <2>2, <2>3 DEF TypeOK
<1>2. CASE handleFinish
  <2>1. active' \in [Sources -> Tasks \cup {NoTask}]
    BY <1>a, <1>2 DEF handleFinish
  <2>2. finish' = <<>>
    <3>1. PICK s \in Sources : finish = <<s>>
      BY <1>2 DEF handleFinish, TypeOK
    <3>. QED  BY <1>2, <3>1 DEF handleFinish
  <2>. QED  BY <1>2, <2>1, <2>2 DEF handleFinish, TypeOK
<1>3. ASSUME NEW s \in Sources, reqStop(s) PROVE TypeOK'
  <2>1. active' \in [Sources -> Tasks \cup {NoTask}] /\ active[s] \in Tasks
    BY <1>a, <1>3 DEF reqStop
  <2>. QED  BY <1>3, <2>1 DEF reqStop, TypeOK
<1>4. ASSUME NEW s \in Sources, decided(s) PROVE TypeOK'
  <2>1. stats' \in [Sources -> Stat] /\ due' \subseteq Sources
    BY <1>4, StatsType DEF decided, Updates
  <2>2. items[s] - 1 \in 0..MaxSignals
    BY <1>a, <1>4, RefresherAssumption DEF decided
  <2>3. items' \in [Sources -> 0..MaxSignals]
    BY <1>a, <1>4, <2>2 DEF decided
  <2>. QED  BY <1>4, <2>1, <2>3 DEF decided, TypeOK
<1>5. ASSUME NEW s \in Sources, elapse(s) PROVE TypeOK'
  BY <1>5 DEF elapse, TypeOK
<1>6. CASE UNCHANGED vars
  BY <1>6 DEF vars, TypeOK
<1>. QED  BY <1>1, <1>2, <1>3, <1>4, <1>5, <1>6, TypeRefresh DEF Next

\* Every reachable state of the refresher is well typed: the task of a source
\* is one of the tasks there are, the channel finish holds at most one source,
\* and the items of a source stay within their bound.
THEOREM TypeCorrect == Spec => []TypeOK
<1>1. Init => TypeOK
  <2>. SUFFICES ASSUME Init PROVE TypeOK
    OBVIOUS
  <2>1. 0 \in 0..MaxSignals
    BY RefresherAssumption
  <2>. QED  BY <2>1, NoStatType DEF Init, TypeOK, PCs
<1>. QED  BY <1>1, TypeStep, PTL DEF Spec
----------------------------------------------------------------------------
(* One goroutine per source.  The goroutine of a source that is never        *)
(* stopped is the task main has for it, and a source in the channel finish   *)
(* is still active, so that nothing starts it, and has no goroutine left.    *)

OwnTask ==
  /\ \A s \in Sources : active[s] # NoTask => active[s][1] = s
  /\ \A t \in Tasks : t[1] \notin Stops /\ pc[t] # "none" => active[t[1]] = t
  /\ \A s \in Sources \ Stops : finish = <<s>> =>
       active[s] # NoTask /\ \A t \in Tasks : t[1] = s => pc[t] = "none"

LEMMA OwnTaskBegin ==
  ASSUME TypeOK, OwnTask, RunningWhileFed, NEW a, Grown(a), Begin(a),
         UNCHANGED <<finish, stats, items, due>>
  PROVE  OwnTask' /\ RunningWhileFed'
<1>1. \A t \in Launching(a) :
        t \in Tasks /\ a[t[1]] = t /\ active[t[1]] = NoTask /\ pc[t] = "none"
  BY LaunchingIs
<1>2. /\ active' = a
      /\ pc' = [t \in Tasks |-> IF t \in Launching(a) THEN "launch" ELSE pc[t]]
  BY DEF Begin
<1>3. \A s \in Sources : active'[s] # NoTask => active'[s][1] = s
  BY <1>2 DEF Grown, OwnTask
<1>4. ASSUME NEW t \in Tasks, t[1] \notin Stops, pc'[t] # "none"
      PROVE  active'[t[1]] = t
  <2>1. CASE t \in Launching(a)
    BY <1>1, <1>2, <2>1
  <2>2. CASE t \notin Launching(a)
    <3>1. active[t[1]] = t /\ t[1] \in Sources
      BY <1>2, <1>4, <2>2, TaskSource DEF OwnTask
    <3>2. t # NoTask
      BY DEF Tasks, NoTask
    <3>. QED  BY <1>2, <3>1, <3>2 DEF Grown
  <2>. QED  BY <2>1, <2>2
<1>5. ASSUME NEW s \in Sources \ Stops, finish' = <<s>>
      PROVE  active'[s] # NoTask /\ \A t \in Tasks : t[1] = s => pc'[t] = "none"
  <2>1. active[s] # NoTask /\ \A t \in Tasks : t[1] = s => pc[t] = "none"
    BY <1>5 DEF OwnTask
  <2>2. a[s] = active[s]
    BY <2>1 DEF Grown
  <2>. QED  BY <1>1, <1>2, <2>1, <2>2
<1>6. RunningWhileFed'
  BY <1>2 DEF RunningWhileFed
<1>. QED  BY <1>3, <1>4, <1>5, <1>6 DEF OwnTask

LEMMA OwnTaskRefresh ==
  ASSUME TypeOK, OwnTask, RunningWhileFed, NEW t \in Tasks, refresh(t)
  PROVE  OwnTask' /\ RunningWhileFed'
<1>. DEFINE s == t[1]
<1>a. s \in Sources /\ pc \in [Tasks -> PCs] /\ stats \in [Sources -> Stat]
  BY TaskSource DEF TypeOK
<1>b. pc[t] # "none" /\ active' = active
  BY DEF refresh, refreshLaunch, Schedule, refreshFinish, refreshReport
<1>c. s \notin Stops => active[s] = t /\ \A r \in Tasks : r[1] = s /\ r # t => pc[r] = "none"
  BY <1>a, <1>b DEF OwnTask
<1>d. \A r \in Tasks : r # t => pc'[r] = pc[r]
  BY <1>a DEF refresh, refreshLaunch, Schedule, refreshFinish, refreshReport
<1>e. \A x \in Sources : x # s => stats'[x] = stats[x]
  BY <1>a DEF refresh, refreshLaunch, Schedule, refreshFinish, refreshReport, Update
<1>. HIDE DEF s
<1>1. \A r \in Tasks : r[1] \notin Stops /\ pc'[r] # "none" => active'[r[1]] = r
  <2>. SUFFICES ASSUME NEW r \in Tasks, r[1] \notin Stops, pc'[r] # "none"
                PROVE  active[r[1]] = r
    BY <1>b
  <2>. QED  BY <1>b, <1>c, <1>d DEF OwnTask, s
<1>2. ASSUME NEW x \in Sources \ Stops, finish' = <<x>>
      PROVE  active'[x] # NoTask /\ \A r \in Tasks : r[1] = x => pc'[r] = "none"
  <2>1. CASE refreshReport(t)
    <3>1. x = s /\ pc'[t] = "none"
      BY <1>a, <1>2, <2>1 DEF refreshReport, s
    <3>2. active[x] = t /\ t # NoTask
      BY <1>c, <3>1 DEF Tasks, NoTask
    <3>. QED  BY <1>b, <1>c, <1>d, <3>1, <3>2
  <2>2. CASE ~refreshReport(t)
    <3>1. finish' = finish
      BY <2>2 DEF refresh, refreshLaunch, Schedule, refreshFinish
    <3>2. active[x] # NoTask /\ \A r \in Tasks : r[1] = x => pc[r] = "none"
      BY <1>2, <3>1 DEF OwnTask
    <3>3. x # s
      BY <1>b, <3>2 DEF s
    <3>. QED  BY <1>b, <1>d, <3>2, <3>3 DEF s
  <2>. QED  BY <2>1, <2>2
<1>3. ASSUME NEW r \in Tasks, r[1] \notin Stops, pc'[r] = "feed"
      PROVE  IsRunning(stats'[r[1]]) /\ ~stats'[r[1]].finished
  <2>1. CASE r[1] # s
    <3>1. pc[r] = "feed" /\ stats'[r[1]] = stats[r[1]]
      BY <1>d, <1>e, <1>3, <2>1, TaskSource DEF s
    <3>. QED  BY <1>3, <3>1 DEF RunningWhileFed
  <2>2. CASE r[1] = s
    <3>1. r = t
      BY <1>c, <1>d, <1>3, <2>2
    <3>2. CASE refreshLaunch(t)
      <4>1. stats'[s] = Settle(Launched)
        BY <1>a, <3>2 DEF refreshLaunch, Update, handleUpdate, Count, s
      <4>2. Settle(Launched) = Launched
        BY DEF Settle, Launched
      <4>. QED  BY <2>2, <4>1, <4>2 DEF IsRunning, Launched
    <3>3. CASE Schedule(t)
      <4>1. IsRunning(stats[s]) /\ ~stats[s].finished /\ stats[s] \in Stat
        BY <1>a, <1>3, <2>2, <3>3, <3>1 DEF Schedule, RunningWhileFed
      <4>2. stats'[s] = handleUpdate(stats[s], "Scheduled")
        BY <1>a, <3>3 DEF Schedule, Update, s
      <4>. QED  BY <2>2, <4>1, <4>2, ItemKeepsRunning DEF Updates
    <3>4. CASE refreshFinish(t) \/ refreshReport(t)
      BY <1>a, <1>3, <3>1, <3>4 DEF refreshFinish, refreshReport
    <3>. QED  BY <3>2, <3>3, <3>4 DEF refresh
  <2>. QED  BY <2>1, <2>2
<1>. QED  BY <1>b, <1>1, <1>2, <1>3 DEF OwnTask, RunningWhileFed

LEMMA OwnTaskStep ==
  TypeOK /\ OwnTask /\ RunningWhileFed /\ [Next]_vars => OwnTask' /\ RunningWhileFed'
<1>. SUFFICES ASSUME TypeOK, OwnTask, RunningWhileFed, [Next]_vars
              PROVE  OwnTask' /\ RunningWhileFed'
  OBVIOUS
<1>a. active \in [Sources -> Tasks \cup {NoTask}] /\ stats \in [Sources -> Stat]
  BY DEF TypeOK
<1>1. CASE checkSources \/ \E s \in Sources : reqStart(s)
  BY <1>1, BeginGrows, OwnTaskBegin
<1>2. CASE handleFinish
  <2>1. PICK x \in Sources : finish = <<x>>
    BY <1>2 DEF handleFinish, TypeOK
  <2>2. /\ active' = [active EXCEPT ![x] = NoTask] /\ finish' = <<>>
        /\ UNCHANGED <<pc, stats>>
    BY <1>2, <2>1 DEF handleFinish
  <2>3. \A t \in Tasks : t[1] \notin Stops /\ pc[t] # "none" => t[1] # x
    BY <2>1 DEF OwnTask
  <2>4. \A s \in Sources : s # x => active'[s] = active[s]
    BY <1>a, <2>2
  <2>5. active'[x] = NoTask
    BY <1>a, <2>2
  <2>6. OwnTask'
    BY <2>2, <2>3, <2>4, <2>5, TaskSource DEF OwnTask
  <2>. QED  BY <2>2, <2>6 DEF RunningWhileFed
<1>3. ASSUME NEW x \in Sources, reqStop(x) PROVE OwnTask' /\ RunningWhileFed'
  <2>1. /\ x \in Stops /\ active' = [active EXCEPT ![x] = NoTask]
        /\ UNCHANGED <<pc, finish, stats>>
    BY <1>3 DEF reqStop
  <2>2. active'[x] = NoTask /\ \A s \in Sources : s # x => active'[s] = active[s]
    BY <1>a, <2>1
  <2>3. OwnTask'
    BY <2>1, <2>2, TaskSource DEF OwnTask
  <2>. QED  BY <2>1, <2>3 DEF RunningWhileFed
<1>4. ASSUME NEW x \in Sources, decided(x) PROVE OwnTask' /\ RunningWhileFed'
  <2>1. UNCHANGED <<active, pc, finish>> /\ Update(x, "Ignored")
    BY <1>4 DEF decided
  <2>2. OwnTask'
    BY <2>1 DEF OwnTask
  <2>3. ASSUME NEW t \in Tasks, t[1] \notin Stops, pc[t] = "feed"
        PROVE  IsRunning(stats'[t[1]]) /\ ~stats'[t[1]].finished
    <3>1. IsRunning(stats[t[1]]) /\ ~stats[t[1]].finished /\ t[1] \in Sources
      BY <2>3, TaskSource DEF RunningWhileFed
    <3>2. CASE t[1] = x
      <4>1. stats'[x] = handleUpdate(stats[x], "Ignored") /\ stats[x] \in Stat
        BY <1>a, <2>1 DEF Update
      <4>. QED  BY <3>1, <3>2, <4>1, ItemKeepsRunning DEF Updates
    <3>3. CASE t[1] # x
      <4>1. stats'[t[1]] = stats[t[1]]
        BY <1>a, <2>1, <3>1, <3>3 DEF Update
      <4>. QED  BY <3>1, <4>1
    <3>. QED  BY <3>2, <3>3
  <2>. QED  BY <2>1, <2>2, <2>3 DEF RunningWhileFed
<1>5. ASSUME NEW x \in Sources, elapse(x) PROVE OwnTask' /\ RunningWhileFed'
  BY <1>5 DEF elapse, OwnTask, RunningWhileFed
<1>6. CASE UNCHANGED vars
  BY <1>6 DEF vars, OwnTask, RunningWhileFed
<1>. QED  BY <1>1, <1>2, <1>3, <1>4, <1>5, <1>6, OwnTaskRefresh DEF Next

LEMMA OwnTaskHolds == Spec => [](OwnTask /\ RunningWhileFed)
<1>1. Init => OwnTask /\ RunningWhileFed
  BY DEF Init, OwnTask, RunningWhileFed
<1>. QED  BY <1>1, OwnTaskStep, TypeCorrect, PTL DEF Spec

LEMMA LiveIsActive ==
  ASSUME OwnTask, NEW s \in Sources \ Stops
  PROVE  Live(s) \subseteq {active[s]}
<1>1. \A t \in {s} \X (1..MaxRuns) : t \in Tasks /\ t[1] = s
  BY DEF Tasks
<1>. QED  BY <1>1 DEF Live, OwnTask

\* A source that is never stopped over the API is refreshed by one goroutine
\* at a time, for any number of sources and any order of timer, requests and
\* finish messages.
THEOREM OneGoroutinePerSource == Spec => []OneLiveRefresh
<1>1. OwnTask => OneLiveRefresh
  <2>. SUFFICES ASSUME OwnTask, NEW s \in Sources \ Stops PROVE Cardinality(Live(s)) <= 1
    BY DEF OneLiveRefresh
  <2>1. Live(s) \in SUBSET {active[s]}
    BY LiveIsActive
  <2>2. IsFiniteSet({active[s]}) /\ Cardinality({active[s]}) = 1
    BY FS_Singleton
  <2>. QED  BY <2>1, <2>2, FS_Subset
<1>. QED  BY <1>1, OwnTaskHolds, PTL

\* The Stat of a source runs, unfinished, as long as its goroutine feeds it,
\* whatever the probe reports of its items meanwhile.
THEOREM FedSourcesRun == Spec => []RunningWhileFed
  BY OwnTaskHolds, PTL

\* A source that main has no task for is not being launched, fed or finished.
THEOREM InactiveSourcesAreQuiet == Spec => []InactiveIsQuiet
<1>1. TypeOK /\ OwnTask => InactiveIsQuiet
  <2>. SUFFICES ASSUME TypeOK, OwnTask, NEW s \in Sources \ Stops, active[s] = NoTask
                PROVE  Live(s) = {}
    BY DEF InactiveIsQuiet
  <2>1. Live(s) \subseteq {NoTask}
    BY LiveIsActive
  <2>2. \A t \in {s} \X (1..MaxRuns) : t # NoTask
    BY DEF NoTask
  <2>. QED  BY <2>1, <2>2 DEF Live
<1>. QED  BY <1>1, OwnTaskHolds, TypeCorrect, PTL

\* A step that starts a source which the API does not start leaves at most
\* maxScheduled + 1 sources active, however many the API had started: the loop
\* of checkSources looks at the limit before every start.  The one too many is
\* what the run refresher_limit shows.
TimerBounded ==
  [][\A s \in Sources \ Starts : active[s] = NoTask /\ active'[s] # NoTask
        => Cardinality(Active(active')) <= maxScheduled + 1]_vars

THEOREM TimerOvershootsByOne == Spec => TimerBounded
<1>. DEFINE Respects == \A s \in Sources \ Starts :
              active[s] = NoTask /\ active'[s] # NoTask
                => Cardinality(Active(active')) <= maxScheduled + 1
<1>1. TypeOK /\ [Next]_vars => [Respects]_vars
  <2>. SUFFICES ASSUME TypeOK, Next, NEW s \in Sources \ Starts, active[s] = NoTask,
                       active'[s] # NoTask
                PROVE  Cardinality(Active(active')) <= maxScheduled + 1
    OBVIOUS
  <2>a. active \in [Sources -> Tasks \cup {NoTask}]
    BY DEF TypeOK
  <2>1. CASE checkSources
    <3>1. Limited(Started[Len(srcs)]) /\ active' = Started[Len(srcs)]
      BY <2>1, CheckSourcesGrows DEF checkSources, Begin
    <3>2. active' # active
      OBVIOUS
    <3>. QED  BY <3>1, <3>2 DEF Limited
  <2>2. ASSUME NEW x \in Sources, reqStart(x) PROVE FALSE
    <3>1. active' = start(active, x) /\ x # s
      BY <2>2 DEF reqStart, Begin
    <3>. QED  BY <2>a, <3>1 DEF start
  <2>3. CASE handleFinish
    BY <2>a, <2>3 DEF handleFinish
  <2>4. ASSUME NEW x \in Sources, reqStop(x) \/ decided(x) \/ elapse(x) PROVE FALSE
    BY <2>a, <2>4 DEF reqStop, decided, elapse
  <2>5. ASSUME NEW t \in Tasks, refresh(t) PROVE FALSE
    BY <2>5 DEF refresh, refreshLaunch, Schedule, refreshFinish, refreshReport
  <2>. QED  BY <2>1, <2>2, <2>3, <2>4, <2>5 DEF Next
<1>2. TimerBounded <=> [][Respects]_vars
  BY DEF TimerBounded
<1>. HIDE DEF Respects
<1>. QED  BY <1>1, <1>2, TypeCorrect, PTL DEF Spec
----------------------------------------------------------------------------
(* What SourceRunsAgain rests on besides fairness: main gets every task      *)
(* back, and the timer passes over no source that it may start.              *)

\* The task of a source has a goroutine, or its finish message is in the
\* channel.
TasksComeBack ==
  \A s \in Sources \ Stops : active[s] # NoTask => pc[active[s]] # "none" \/ finish = <<s>>

LEMMA TasksComeBackStep ==
  TypeOK /\ OwnTask /\ TasksComeBack /\ [Next]_vars => TasksComeBack'
<1>. SUFFICES ASSUME TypeOK, OwnTask, TasksComeBack, [Next]_vars,
                     NEW s \in Sources \ Stops, active'[s] # NoTask
              PROVE  pc'[active'[s]] # "none" \/ finish' = <<s>>
  BY DEF TasksComeBack
<1>a. active \in [Sources -> Tasks \cup {NoTask}] /\ pc \in [Tasks -> PCs]
  BY DEF TypeOK
<1>1. CASE checkSources \/ \E x \in Sources : reqStart(x)
  <2>1. PICK a : Grown(a) /\ Begin(a) /\ UNCHANGED <<finish, stats, items, due>>
    BY <1>1, BeginGrows
  <2>2. active' = a /\ pc' = [t \in Tasks |-> IF t \in Launching(a) THEN "launch" ELSE pc[t]]
    BY <2>1 DEF Begin
  <2>3. a[s] \in Tasks
    BY <2>1, <2>2 DEF Grown, ActiveType
  <2>4. CASE a[s] = active[s]
    <3>1. pc[a[s]] # "none" \/ finish = <<s>>
      BY <2>2, <2>4 DEF TasksComeBack
    <3>. QED  BY <2>1, <2>2, <2>3, <3>1
  <2>5. CASE a[s] # active[s]
    <3>1. a[s] \in Launching(a)
      BY <2>5 DEF Launching
    <3>. QED  BY <2>2, <2>3, <3>1
  <2>. QED  BY <2>4, <2>5
<1>2. CASE handleFinish
  <2>1. PICK x \in Sources : finish = <<x>>
    BY <1>2 DEF handleFinish, TypeOK
  <2>2. active' = [active EXCEPT ![x] = NoTask] /\ pc' = pc
    BY <1>2, <2>1 DEF handleFinish
  <2>3. s # x /\ active'[s] = active[s]
    BY <1>a, <2>2
  <2>. QED  BY <2>1, <2>2, <2>3 DEF TasksComeBack
<1>3. ASSUME NEW x \in Sources, reqStop(x) \/ decided(x) \/ elapse(x)
      PROVE  pc'[active'[s]] # "none" \/ finish' = <<s>>
  <2>1. UNCHANGED <<pc, finish>> /\ active'[s] = active[s]
    BY <1>a, <1>3 DEF reqStop, decided, elapse
  <2>. QED  BY <2>1 DEF TasksComeBack
<1>4. ASSUME NEW t \in Tasks, refresh(t)
      PROVE  pc'[active'[s]] # "none" \/ finish' = <<s>>
  <2>1. active' = active /\ active[s] \in Tasks
    BY <1>a, <1>4 DEF refresh, refreshLaunch, Schedule, refreshFinish, refreshReport
  <2>2. pc[active[s]] # "none" \/ finish = <<s>>
    BY <2>1 DEF TasksComeBack
  <2>3. CASE refreshReport(t)
    <3>1. pc' = [pc EXCEPT ![t] = "none"] /\ finish = <<>> /\ finish' = <<t[1]>>
      BY <2>3 DEF refreshReport
    <3>2. CASE active[s] = t
      <4>1. t[1] = s
        BY <2>1, <3>2 DEF OwnTask
      <4>. QED  BY <3>1, <4>1
    <3>3. CASE active[s] # t
      <4>1. pc[active[s]] # "none"
        BY <2>2, <3>1
      <4>. QED  BY <1>a, <2>1, <3>1, <3>3, <4>1
    <3>. QED  BY <3>2, <3>3
  <2>4. CASE refreshLaunch(t) \/ Schedule(t) \/ refreshFinish(t)
    <3>1. finish' = finish /\ (pc' = pc \/ pc' = [pc EXCEPT ![t] = "feed"]
                                 \/ pc' = [pc EXCEPT ![t] = "finish"])
      BY <2>4 DEF refreshLaunch, Schedule, refreshFinish
    <3>. QED  BY <1>a, <2>1, <2>2, <3>1
  <2>. QED  BY <1>4, <2>3, <2>4 DEF refresh
<1>5. CASE UNCHANGED vars
  BY <1>5 DEF vars, TasksComeBack
<1>. QED  BY <1>1, <1>2, <1>3, <1>4, <1>5 DEF Next

\* No finish message is lost, for any number of sources and goroutines that
\* wait for the one place in the channel: the task of a source that is never
\* stopped over the API either still has its goroutine, or the message that
\* takes the task away is the one in the channel.
THEOREM NoFinishIsLost == Spec => []TasksComeBack
<1>1. Init => TasksComeBack
  BY DEF Init, TasksComeBack
<1>. QED  BY <1>1, TasksComeBackStep, OwnTaskHolds, TypeCorrect, PTL DEF Spec

\* The first n sources were passed over only because too many are active.
Considered(a, n) ==
  \A i \in 1..n : Startable(srcs[i]) => a[srcs[i]] # NoTask \/ Full(a)

LEMMA CheckSourcesConsiders ==
  ASSUME TypeOK, \A s \in Sources : FreeTasks(s) # {}
  PROVE  Considered(Started[Len(srcs)], Len(srcs))
<1>. DEFINE Holds(n) == Started[n] \in ActiveType /\ Considered(Started[n], n)
            T == {n \in Nat : n \in 0..Len(srcs) => Holds(n)}
<1>a. Len(srcs) \in Nat /\ \A n \in 1..Len(srcs) : srcs[n] \in Sources
  BY RefresherAssumption
<1>1. 0 \in T
  BY StartedRun DEF Considered, ActiveType, TypeOK
<1>2. ASSUME NEW n \in Nat, n \in T PROVE n + 1 \in T
  <2>. SUFFICES ASSUME n + 1 \in 0..Len(srcs) PROVE Holds(n + 1)
    OBVIOUS
  <2>. DEFINE a == Started[n]
              b == Turn(a, n + 1)
              s == srcs[n + 1]
  <2>1. n \in 0..Len(srcs) /\ n + 1 \in 1..Len(srcs) /\ (n + 1) - 1 = n
    BY <1>a
  <2>2. a \in ActiveType /\ Considered(a, n)
    BY <1>2, <2>1
  <2>3. Started[n + 1] = b
    BY <2>1, StartedRun
  <2>4. s \in Sources /\ NewTask(s) \in Tasks /\ NewTask(s) # NoTask
    BY <1>a, <2>1, NewTaskIs
  <2>5. b = IF ~Full(a) /\ Startable(s) THEN start(a, s) ELSE a
    BY DEF Turn
  <2>6. \A i \in 1..(n + 1) : i \in 1..n \/ i = n + 1
    OBVIOUS
  <2>7. \A i \in 1..n : srcs[i] \in Sources
    BY <1>a, <2>1
  <2>. HIDE DEF a, b
  <2>8. b \in ActiveType /\ \A x \in Sources : a[x] # NoTask => b[x] # NoTask
    BY <2>2, <2>4, <2>5 DEF start, ActiveType
  <2>9. ASSUME NEW i \in 1..(n + 1), Startable(srcs[i]) PROVE b[srcs[i]] # NoTask \/ Full(b)
    <3>1. CASE Full(a)
      BY <2>5, <3>1
    <3>2. CASE ~Full(a) /\ i \in 1..n
      <4>1. a[srcs[i]] # NoTask
        BY <2>2, <2>9, <3>2 DEF Considered
      <4>. QED  BY <2>7, <2>8, <3>2, <4>1
    <3>3. CASE ~Full(a) /\ i = n + 1
      <4>1. b = start(a, s)
        BY <2>5, <2>9, <3>3
      <4>2. b[s] # NoTask
        BY <2>2, <2>4, <4>1 DEF start, ActiveType
      <4>. QED  BY <3>3, <4>2
    <3>. QED  BY <2>6, <3>1, <3>2, <3>3
  <2>10. Considered(b, n + 1)
    BY <2>9 DEF Considered
  <2>. QED  BY <2>3, <2>8, <2>10
<1>3. Nat \subseteq T
  <2>. HIDE DEF T
  <2>. QED  BY <1>1, <1>2, InductiveSet
<1>. QED  BY <1>a, <1>3

\* After the timer every source that was due and at rest is active, or more
\* than maxScheduled are: the loop of checkSources passes over none of them,
\* wherever it stands in the list, and returns early only when it is full.
THEOREM TimerPassesOverNone ==
  Spec => [][checkSources => \A s \in Sources : Startable(s) =>
                               active'[s] # NoTask \/ Full(active')]_vars
<1>. DEFINE Thorough == checkSources => \A s \in Sources : Startable(s) =>
                          active'[s] # NoTask \/ Full(active')
<1>1. TypeOK /\ [Next]_vars => [Thorough]_vars
  <2>. SUFFICES ASSUME TypeOK, checkSources, NEW s \in Sources, Startable(s)
                PROVE  active'[s] # NoTask \/ Full(active')
    OBVIOUS
  <2>1. active' = Started[Len(srcs)] /\ Considered(Started[Len(srcs)], Len(srcs))
    BY CheckSourcesConsiders DEF checkSources, Begin
  <2>2. PICK i \in 1..Len(srcs) : s = srcs[i]
    BY RefresherAssumption DEF Sources
  <2>. QED  BY <2>1, <2>2 DEF Considered
<1>. HIDE DEF Thorough
<1>2. Spec => [][Thorough]_vars
  BY <1>1, TypeCorrect, PTL DEF Spec
<1>. QED  BY <1>2 DEF Thorough
=============================================================================
