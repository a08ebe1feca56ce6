------------------------------ MODULE Refresher ------------------------------
(***************************************************************************)
(* Package refresher: the goroutine that schedules the sources              *)
(* (Refresher.main) and the goroutines that refresh them.  What a refresh   *)
(* schedules goes through the probe (Probe.tla); here an item is counted,   *)
(* and ignored or decided some time later.                                  *)
(*                                                                          *)
(* A refresh goroutine is a pair of its source and a number.  Time is the   *)
(* set "due" of the sources whose Frequency has passed since their Stat was *)
(* updated.                                                                 *)
(***************************************************************************)
EXTENDS Stats, Sequences, FiniteSets

CONSTANTS
  srcs,         \* ids of the sources, in the order of sources.Sources
  maxScheduled,
  Starts,       \* the sources that are started over the API
  Stops,        \* the sources that are stopped over the API
  MaxRuns,      \* bound of the goroutines of one source
  MaxSignals    \* bound of the items a source has in the pipeline

Sources == {srcs[i] : i \in DOMAIN srcs}

Tasks == Sources \X (1..MaxRuns)

NoTask == <<>>

ASSUME RefresherAssumption ==
  /\ srcs \in Seq(Sources)
  /\ {maxScheduled, MaxSignals} \subseteq Nat /\ MaxRuns \in Nat \ {0}
  /\ Starts \subseteq Sources /\ Stops \subseteq Sources

VARIABLES
  active,    \* source -> its task
  pc,        \* task -> where its goroutine is
  cancelled, \* tasks whose context is cancelled
  finish,    \* the channel finish, of capacity 1
  stats,     \* source -> its Stat
  items,     \* source -> its items that the probe has not decided
  due

vars == <<active, pc, cancelled, finish, stats, items, due>>

PCs == {"none", "launch", "feed", "finish"}

Init ==
  /\ active = [s \in Sources |-> NoTask]
  /\ pc = [t \in Tasks |-> "none"]
  /\ cancelled = {}
  /\ finish = <<>>
  /\ stats = [s \in Sources |-> NoStat]
  /\ items = [s \in Sources |-> 0]
  /\ due = Sources

Update(s, u) ==
  /\ stats' = [stats EXCEPT ![s] = handleUpdate(@, u)]
  /\ due' = due \ {s}

Active(a) == {s \in Sources : a[s] # NoTask}

FreeTasks(s) == {t \in {s} \X (1..MaxRuns) : pc[t] = "none"}

NewTask(s) == CHOOSE t \in FreeTasks(s) : TRUE

\* start: a source with a task is running already.
start(a, s) == IF a[s] = NoTask THEN [a EXCEPT ![s] = NewTask(s)] ELSE a

Launching(a) == {a[s] : s \in {x \in Sources : a[x] # active[x]}}

Begin(a) ==
  /\ active' = a
  /\ pc' = [t \in Tasks |-> IF t \in Launching(a) THEN "launch" ELSE pc[t]]
  /\ cancelled' = cancelled \ Launching(a)
----------------------------------------------------------------------------
(* The select loop of Refresher.main.                                       *)

\* The next update of a failed source is always one minute away.
Startable(s) ==
  ~IsRunning(stats[s]) /\ stats[s].state # "failed" /\ s \in due

Full(a) == Cardinality(Active(a)) > maxScheduled

\* The active tasks after the first n turns of the loop in checkSources.  A
\* loop that is full returns, and stays full.
Started[n \in 0..Len(srcs)] ==
  IF n = 0 THEN active
  ELSE LET a == Started[n - 1]
       IN  IF ~Full(a) /\ Startable(srcs[n]) THEN start(a, srcs[n]) ELSE a

checkSources ==
  /\ \A s \in Sources : FreeTasks(s) # {}
  /\ Begin(Started[Len(srcs)])
  /\ UNCHANGED <<finish, stats, items, due>>

\* Mutant of reqStart: a source is started whether it is active or not.
reqStartAnyway(s) ==
  /\ s \in Starts /\ FreeTasks(s) # {}
  /\ Begin([active EXCEPT ![s] = NewTask(s)])
  /\ UNCHANGED <<finish, stats, items, due>>

reqStart(s) ==
  /\ s \in Starts /\ active[s] = NoTask /\ FreeTasks(s) # {}
  /\ Begin(start(active, s))
  /\ UNCHANGED <<finish, stats, items, due>>

reqStop(s) ==
  /\ s \in Stops /\ active[s] # NoTask
  /\ cancelled' = cancelled \cup {active[s]}
  /\ active' = [active EXCEPT ![s] = NoTask]
  /\ UNCHANGED <<pc, finish, stats, items, due>>

\* Mutant of handleFinish: the source stays active.
handleFinishForgets ==
  /\ finish # <<>>
  /\ finish' = Tail(finish)
  /\ UNCHANGED <<active, pc, cancelled, stats, items, due>>

\* A refresh has finished: its source, whatever its task, is not active.
handleFinish ==
  /\ finish # <<>>
  /\ active' = [active EXCEPT ![Head(finish)] = NoTask]
  /\ finish' = Tail(finish)
  /\ UNCHANGED <<pc, cancelled, stats, items, due>>
----------------------------------------------------------------------------
(* Refresher.refresh.  What it sends to progress is for display.            *)

refreshLaunch(t) ==
  /\ pc[t] = "launch"
  /\ Update(t[1], "Launched")
  /\ pc' = [pc EXCEPT ![t] = "feed"]
  /\ UNCHANGED <<active, cancelled, finish, items>>

Schedule(t) ==
  /\ pc[t] = "feed" /\ items[t[1]] < MaxSignals
  /\ Update(t[1], "Scheduled")
  /\ items' = [items EXCEPT ![t[1]] = @ + 1]
  /\ UNCHANGED <<active, pc, cancelled, finish>>

refreshFinish(t) ==
  /\ pc[t] = "feed"
  /\ \E u \in {"Finished", "FinishedErr"} : Update(t[1], u)
  /\ pc' = [pc EXCEPT ![t] = "finish"]
  /\ UNCHANGED <<active, cancelled, finish, items>>

\* Mutants of refreshReport: the source is reported before its Stat is
\* finished; the channel never blocks.
refreshReportAlways(t) ==
  /\ pc[t] = "finish"
  /\ finish' = Append(finish, t[1])
  /\ pc' = [pc EXCEPT ![t] = "none"]
  /\ cancelled' = cancelled \ {t}
  /\ UNCHANGED <<active, stats, items, due>>
refreshReportEarly(t) ==
  /\ pc[t] \in {"feed", "finish"} /\ finish = <<>>
  /\ finish' = <<t[1]>>
  /\ pc' = [pc EXCEPT ![t] = IF @ = "feed" THEN @ ELSE "none"]
  /\ UNCHANGED <<active, cancelled, stats, items, due>>

refreshReport(t) ==
  /\ pc[t] = "finish" /\ finish = <<>>
  /\ finish' = <<t[1]>>
  /\ pc' = [pc EXCEPT ![t] = "none"]
  /\ cancelled' = cancelled \ {t}
  /\ UNCHANGED <<active, stats, items, due>>

\* The probe is done with an item of source s.
decided(s) ==
  /\ items[s] > 0
  /\ Update(s, "Ignored")
  /\ items' = [items EXCEPT ![s] = @ - 1]
  /\ UNCHANGED <<active, pc, cancelled, finish>>

\* The Frequency of a source has passed.
elapse(s) ==
  /\ s \notin due
  /\ due' = due \cup {s}
  /\ UNCHANGED <<active, pc, cancelled, finish, stats, items>>
----------------------------------------------------------------------------
refresh(t) == refreshLaunch(t) \/ Schedule(t) \/ refreshFinish(t) \/ refreshReport(t)

Next ==
  \/ checkSources
  \/ handleFinish
  \/ \E s \in Sources : reqStart(s) \/ reqStop(s) \/ decided(s) \/ elapse(s)
  \/ \E t \in Tasks : refresh(t)

Spec == Init /\ [][Next]_vars

\* Timers fire, channels are served and feeds end.  Of two goroutines of one
\* source only one has to advance.
Fairness ==
  /\ WF_vars(checkSources) /\ WF_vars(handleFinish)
  /\ \A s \in Sources :
       /\ WF_vars(decided(s)) /\ WF_vars(elapse(s))
       /\ WF_vars(\E t \in {s} \X (1..MaxRuns) : refreshLaunch(t) \/ refreshFinish(t))
       /\ SF_vars(\E t \in {s} \X (1..MaxRuns) : refreshReport(t))

FairSpec == Spec /\ Fairness
----------------------------------------------------------------------------
TypeOK ==
  /\ active \in [Sources -> Tasks \cup {NoTask}]
  /\ pc \in [Tasks -> PCs]
  /\ cancelled \subseteq Tasks
  /\ finish \in {<<>>} \cup {<<s>> : s \in Sources}
  /\ stats \in [Sources -> Stat]
  /\ items \in [Sources -> 0..MaxSignals]
  /\ due \subseteq Sources

Live(s) == {t \in {s} \X (1..MaxRuns) : pc[t] # "none" /\ t \notin cancelled}

\* A source is never refreshed by two goroutines at once ("source %s is
\* running", refresher.go:267), however the timer, the API and the finish
\* messages interleave.  A source that is stopped may be: the finish message
\* of the stopped goroutine takes the task of its successor away.
OneLiveRefresh ==
  \A s \in Sources \ Stops : Cardinality(Live(s)) <= 1

\* While the goroutine of a source feeds it, its Stat is running, and not
\* finished: that is how checkSources, the probe and the UI know of it.
RunningWhileFed ==
  \A t \in Tasks : t[1] \notin Stops /\ pc[t] = "feed" =>
    IsRunning(stats[t[1]]) /\ ~stats[t[1]].finished

\* A source without a task has no goroutine left that would still launch,
\* feed or finish it: the goroutine reports to main last.
InactiveIsQuiet ==
  \A s \in Sources \ Stops : active[s] = NoTask => Live(s) = {}

\* No more sources are active than the configuration allows (README.md:195,
\* "max_scheduled - number of sources to refresh at the same time").
ScheduledAtMost == Cardinality(Active(active)) <= maxScheduled

\* A failed source runs again (internal.go:13, "Failed --> Running").
FailedRunsAgain ==
  \A s \in Sources : stats[s].state = "failed" ~> IsRunning(stats[s])

\* A source that came to rest without a failure runs again: a lost finish
\* message or a Stat that never settles would keep it from it.
SourceRunsAgain ==
  \A s \in Sources \ Stops : stats[s].state = "idle" ~> IsRunning(stats[s])
=============================================================================
