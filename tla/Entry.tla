------------------------------- MODULE Entry -------------------------------
(***************************************************************************)
(* One entry of the pool (pool/entry.go) as a record and the operations a   *)
(* shard performs on it.                                                    *)
(*                                                                          *)
(* ReanimateAfter is kept as the minutes that are left until it: Awake is   *)
(* the zero time, 0 is a deadline that has passed and was not acted upon.   *)
(* The four short rolling counters are kept as their Sum().  A Sum never    *)
(* shrinks by itself; an Increment first drops the intervals that left the  *)
(* window, which is any part of the old sum (RollingCounter.tla): Bump.     *)
(* A sum is capped at MaxSum: an Increment beyond it drops old intervals.   *)
(* Offered and Succeed, the daily counters, the hourly arrays and the       *)
(* timestamps decide nothing and are left out.                              *)
(***************************************************************************)
EXTENDS Integers

CONSTANTS
  offerLimit,
  shortTimeoutSleep, longTimeoutSleep, pauseSleep, \* minutes, rounded up
  evictThresholdTimeouts, evictThresholdFailures, evictThresholdReanimations,
  pauseFailures,  \* the literal 3 in ConsiderSkip
  MaxSum          \* bound of the rolling sums

ASSUME EntryAssumption ==
  /\ {shortTimeoutSleep, longTimeoutSleep, pauseSleep} \subseteq Nat \ {0}
  /\ {offerLimit, evictThresholdTimeouts, evictThresholdFailures,
      evictThresholdReanimations, pauseFailures} \subseteq Nat
  /\ MaxSum \in Nat \ {0}

Awake == -1

Entry == [Ok : BOOLEAN, ReanimateAfter : Nat \cup {Awake},
          Reanimated : Nat,
          offers : Nat, successes : Nat, timeouts : Nat, failures : Nat]

newEntry == [Ok |-> TRUE, ReanimateAfter |-> Awake,
             Reanimated |-> 0,
             offers |-> 0, successes |-> 0, timeouts |-> 0, failures |-> 0]

Bump(sum) == {s \in 1..MaxSum : s <= sum + 1}

\* Only the comparison with the threshold matters of Reanimated.
Reanimations(e) == IF e.Reanimated > evictThresholdReanimations
                     THEN e.Reanimated ELSE e.Reanimated + 1

\* "s" is the new sum of the rolling counter that the operation increments.
MarkSuccess(e, s) ==
  [e EXCEPT !.successes = s,
            !.Ok = TRUE,
            !.ReanimateAfter = Awake]

\* Mutant of MarkTimeout: the proxy is not suspended.
MarkTimeoutAwake(e, s) == [e EXCEPT !.Ok = FALSE, !.timeouts = s]

\* MarkFailure of an error whose Timeout() is true, and of any other error.
MarkTimeout(e, s) ==
  [e EXCEPT !.Ok = FALSE, !.ReanimateAfter = shortTimeoutSleep, !.timeouts = s]
MarkFailure(e, s) ==
  [e EXCEPT !.Ok = FALSE, !.ReanimateAfter = shortTimeoutSleep, !.failures = s]

RequestsComplete(e) ==
  e.offers # 0 /\ e.offers = e.successes + e.timeouts + e.failures

\* The three ways in which Eviction finds an entry that never succeeded lately.
Sleeps(e) ==
  RequestsComplete(e) /\ e.successes = 0 /\ e.timeouts > evictThresholdTimeouts

Evicts(e) ==
  /\ RequestsComplete(e) /\ e.successes = 0 /\ ~Sleeps(e)
  /\ \/ e.failures > evictThresholdFailures
     \/ /\ e.Reanimated > evictThresholdReanimations
        /\ e.timeouts > 0 \/ e.failures > 0

\* What Eviction leaves of an entry that stays in its shard.
Eviction(e) ==
  IF Sleeps(e) THEN [e EXCEPT !.Ok = FALSE, !.ReanimateAfter = longTimeoutSleep] ELSE e

ReanimateIfNeeded(e) ==
  IF e.ReanimateAfter = 0
    THEN [e EXCEPT !.ReanimateAfter = Awake, !.Reanimated = Reanimations(e), !.Ok = TRUE]
    ELSE e

\* What a restart leaves of the sums: at most "kept" of each.
Counters == {"offers", "successes", "timeouts", "failures"}

Least(m, n) == IF m < n THEN m ELSE n

Aged(e, kept) ==
  [e EXCEPT !.offers = Least(@, kept["offers"]),
            !.successes = Least(@, kept["successes"]),
            !.timeouts = Least(@, kept["timeouts"]),
            !.failures = Least(@, kept["failures"])]

ForceReanimate(e) ==
  IF e.Ok THEN [e EXCEPT !.ReanimateAfter = Awake]
          ELSE [e EXCEPT !.ReanimateAfter = Awake, !.Reanimated = Reanimations(e), !.Ok = TRUE]

(* ConsiderSkip, in the order of its returns.                               *)
TooManyOffers(e) == e.offers > offerLimit

Paused(e) == ~TooManyOffers(e) /\ e.successes = 0 /\ e.failures = pauseFailures

Dead(e) == ~TooManyOffers(e) /\ ~Paused(e) /\ e.ReanimateAfter > 0

NotOk(e) == ~TooManyOffers(e) /\ ~Paused(e) /\ ~Dead(e) /\ ~ReanimateIfNeeded(e).Ok

Skips(e) == TooManyOffers(e) \/ Paused(e) \/ Dead(e) \/ NotOk(e)

\* The entry after a ConsiderSkip that returned true, and one that returned false.
Skipped(e) ==
  IF Paused(e) THEN [e EXCEPT !.Ok = FALSE, !.ReanimateAfter = pauseSleep] ELSE e
Offer(e, s) ==
  [ReanimateIfNeeded(e) EXCEPT !.offers = s]

\* A minute passes.
Minute(e) == IF e.ReanimateAfter > 0 THEN [e EXCEPT !.ReanimateAfter = @ - 1] ELSE e
=============================================================================
