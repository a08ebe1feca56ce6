--------------------------- MODULE RollingCounter ---------------------------
(***************************************************************************)
(* counter.RollingCounter: a ring of "window" intervals and their sum.      *)
(*                                                                          *)
(* Time is the number of intervals that passed since the last addition.  It *)
(* is kept in an int16, the width of the code.  A counter is created with   *)
(* the time rounded to the nearest interval and updated with the time       *)
(* truncated: the first addition may happen one interval "before".          *)
(***************************************************************************)
EXTENDS Integers

CONSTANTS window, Amounts, Gaps,
  MaxSum  \* bound of the sum; the int32 is taken not to overflow

ASSUME CounterAssumption ==
  /\ window \in 1..32767
  /\ Amounts \subseteq Nat /\ Gaps \subseteq Nat /\ MaxSum \in Nat

Slots == 0..(window - 1)

VARIABLES buf, pos, sum,
  fresh,  \* nothing was added yet
  last    \* intervals that passed before the last addition

vars == <<buf, pos, sum, fresh, last>>

\* NewRollingCounter
Init == buf = [i \in Slots |-> 0] /\ pos = 0 /\ sum = 0 /\ fresh = TRUE /\ last = 0

Int16(n) == ((n + 32768) % 65536) - 32768

\* Mutants of Clear: the slot is subtracted but not emptied; it is emptied
\* before it is subtracted.
ClearKeeps(r) ==
  LET p == (r.pos + 1) % window
  IN  [buf |-> r.buf, pos |-> p, sum |-> r.sum - r.buf[p]]
ClearFirst(r) ==
  LET p == (r.pos + 1) % window
      b == [r.buf EXCEPT ![p] = 0]
  IN  [buf |-> b, pos |-> p, sum |-> r.sum - b[p]]

clearIntervals(gap) == IF Int16(gap) > window THEN window ELSE Int16(gap)

\* One turn of the loop in Add.
Clear(r) ==
  LET p == (r.pos + 1) % window
  IN  [buf |-> [r.buf EXCEPT ![p] = 0], pos |-> p, sum |-> r.sum - r.buf[p]]

Cleared(gap) ==
  LET after[n \in 0..window] ==
        IF n = 0 THEN [buf |-> buf, pos |-> pos, sum |-> sum] ELSE Clear(after[n - 1])
  IN  IF clearIntervals(gap) > 0 THEN after[clearIntervals(gap)] ELSE after[0]

Add(what, gap) ==
  LET r == Cleared(gap)
  IN  /\ r.sum + what <= MaxSum
      /\ buf' = [r.buf EXCEPT ![r.pos] = @ + what]
      /\ pos' = r.pos
      /\ sum' = r.sum + what
      /\ fresh' = FALSE
      /\ last' = IF gap < 0 THEN 0 ELSE gap

\* Written to disk and read again: UnmarshalBinary ends with Add(0).
Restart(gap) == Add(0, gap)

Elapsed == Gaps \cup (IF fresh THEN {-1} ELSE {})

Next ==
  \/ \E what \in Amounts, gap \in Elapsed : Add(what, gap)
  \/ \E gap \in Elapsed : Restart(gap)

Spec == Init /\ [][Next]_vars
----------------------------------------------------------------------------
TypeOK ==
  /\ buf \in [Slots -> 0..MaxSum]
  /\ pos \in Slots
  /\ sum \in 0..MaxSum
  /\ fresh \in BOOLEAN
  /\ last \in Gaps \cup {0}

Window == INSTANCE SlidingWindow WITH
  Amounts <- Amounts \cup {0},
  Gaps <- Gaps \cup {0},
  recent <- [a \in Slots |-> buf[(pos - a) % window]],
  exact <- 32767,
  total <- sum,
  gap <- last

\* The ring and its running sum implement the sliding window: Sum() after an
\* addition or a restart is exactly what was added within the last "window"
\* intervals, as long as the pauses between the additions fit an int16; a
\* longer one (rolling_counter.go:35) is taken modulo 2^16 and may clear less
\* than it should, but whatever the pauses are, no slot is ever counted twice
\* or forgotten in the sum when the ring turns over.
SlidesOver == Window!Spec
=============================================================================
