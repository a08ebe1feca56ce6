--------------------------- MODULE SlidingWindow ---------------------------
(***************************************************************************)
(* What a rolling counter promises: when something is added, its total is   *)
(* what was added within the last "window" intervals, the current one       *)
(* included.  A pause that is too long for its clock may be taken for a     *)
(* shorter one, and then what is older than the window still counts; but    *)
(* the total is always the sum of what is kept, and nothing is kept twice.  *)
(***************************************************************************)
EXTENDS Integers, FiniteSetsExt

CONSTANTS
  window,  \* intervals that count
  Amounts, \* what may be added
  Gaps,    \* intervals that may pass between two additions
  exact    \* the longest pause that is measured exactly

Ages == 0..(window - 1)

VARIABLES
  recent, \* age of an interval -> what was added in it
  total,
  gap     \* intervals that passed before the last addition

vars == <<recent, total, gap>>

Init == recent = [a \in Ages |-> 0] /\ total = 0 /\ gap = 0

\* The intervals that leave the window after a pause.
Dropped(elapsed) ==
  {d \in 0..window : elapsed <= exact => d = IF elapsed < window THEN elapsed ELSE window}

Add(what, elapsed, d) ==
  /\ gap' = elapsed
  /\ recent' = [a \in Ages |-> (IF a >= d THEN recent[a - d] ELSE 0)
                                 + (IF a = 0 THEN what ELSE 0)]
  /\ total' = MapThenSumSet(LAMBDA a : recent'[a], Ages)

Next ==
  \E what \in Amounts, elapsed \in Gaps : \E d \in Dropped(elapsed) : Add(what, elapsed, d)

Spec == Init /\ [][Next]_vars
=============================================================================
