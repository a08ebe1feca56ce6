------------------------------- MODULE Stats -------------------------------
(***************************************************************************)
(* The counters package stats keeps for every source of proxies.  One      *)
(* Stat is a record; handleUpdate is what the stats goroutine does with    *)
(* one update.  Of type Stat only the fields that decide the State are     *)
(* kept: Found, Timeouts, Blacklisted, Ignored, Progress, anticipated and  *)
(* Updated are display values and feed back into nothing modelled here.    *)
(***************************************************************************)
EXTENDS Integers

States == {"absent", "idle", "running", "failed"}

\* "absent" stands for a source that has no key in the map Stats.sources.
Stat == [state : States, Scheduled : Int, New : Int, Probing : Int,
         finished : BOOLEAN]

NoStat == [state |-> "absent", Scheduled |-> 0, New |-> 0, Probing |-> 0,
           finished |-> FALSE]

\* The Stat a launch starts from.
Launched == [state |-> "running", Scheduled |-> 0, New |-> 0, Probing |-> 0,
             finished |-> FALSE]

Updates == {"Launched", "Scheduled", "Ignored", "New", "Probing", "Found",
            "Timeout", "Blacklisted", "Finished", "FinishedErr"}

Pipeline(st) == st.Scheduled + st.New + st.Probing

IsRunning(st) == st.state = "running"

\* An update for an unknown source creates a Stat that is already running.
Known(st) == IF st.state = "absent" THEN [st EXCEPT !.state = "running"] ELSE st

\* Mutant of Count: an ignored item is not taken off Scheduled.
CountIgnoredStays(st, u) ==
  CASE u = "Launched"    -> Launched
    [] u = "Scheduled"   -> [st EXCEPT !.Scheduled = @ + 1]
    [] u = "New"         -> [st EXCEPT !.Scheduled = @ - 1, !.New = @ + 1]
    [] u = "Probing"     -> [st EXCEPT !.New = @ - 1, !.Probing = @ + 1]
    [] u \in {"Found", "Timeout", "Blacklisted"}
                         -> [st EXCEPT !.Probing = @ - 1]
    [] u = "Finished"    -> [st EXCEPT !.finished = TRUE]
    [] u = "FinishedErr" -> [st EXCEPT !.finished = TRUE, !.state = "failed"]
    [] u = "Ignored"     -> st

Count(st, u) ==
  CASE u = "Launched"    -> Launched
    [] u = "Scheduled"   -> [st EXCEPT !.Scheduled = @ + 1]
    [] u = "Ignored"     -> [st EXCEPT !.Scheduled = @ - 1]
    [] u = "New"         -> [st EXCEPT !.Scheduled = @ - 1, !.New = @ + 1]
    [] u = "Probing"     -> [st EXCEPT !.New = @ - 1, !.Probing = @ + 1]
    [] u \in {"Found", "Timeout", "Blacklisted"}
                         -> [st EXCEPT !.Probing = @ - 1]
    [] u = "Finished"    -> [st EXCEPT !.finished = TRUE]
    [] u = "FinishedErr" -> [st EXCEPT !.finished = TRUE, !.state = "failed"]

\* Mutant of Settle: an empty pipeline is idle although more may be scheduled.
SettleUnfinished(st) ==
  IF st.state # "failed" /\ Pipeline(st) = 0
    THEN [st EXCEPT !.state = "idle"]
    ELSE st

Settle(st) ==
  IF st.finished /\ st.state # "failed" /\ Pipeline(st) = 0
    THEN [st EXCEPT !.state = "idle"]
    ELSE st

handleUpdate(st, u) == Settle(Count(Known(st), u))
=============================================================================
