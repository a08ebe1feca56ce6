------------------------------- MODULE Ranges -------------------------------
(***************************************************************************)
(* ql/eval/facets.go: the ranges that a column of numbers is cut into, n of *)
(* the same size.  The numbers are whole (counters, seconds, nanoseconds)   *)
(* and small enough to be exact in a float64.                               *)
(***************************************************************************)
EXTENDS FiniteSetsExt

\* More ranges than these are difficult to read.
MaxRanges == 5

\* ceil of the size of a range.  max starts as the least positive number, so
\* that one range over nothing but zeroes has the size 1.
rangeSize(data, n) ==
  LET max == Max(Range(data))
      min == Min(Range(data))
  IN  IF max = 0 THEN (IF n = 1 THEN 1 ELSE 0) ELSE (max - min + n - 1) \div n

\* Mutant of binStart: a range starts where the last one ends.
binStartAtEnd(data, n, i) == Min(Range(data)) + (i - 1) * rangeSize(data, n)

\* start = current.end + 1
binStart(data, n, i) == Min(Range(data)) + (i - 1) * (rangeSize(data, n) + 1)

binEnd(data, n, i) == binStart(data, n, i) + rangeSize(data, n)

Bins(data, n) == [i \in 1..n |-> binStart(data, n, i)..binEnd(data, n, i)]
=============================================================================
