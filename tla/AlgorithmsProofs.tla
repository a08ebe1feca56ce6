-------------------------- MODULE AlgorithmsProofs --------------------------
(***************************************************************************)
(* Theorems about RollingCounter and about the algorithms without a state.  *)
(*                                                                          *)
(* The counter, for every window an int16 holds, every set of amounts and   *)
(* every bound of the sum: its type invariant and the refinement of         *)
(* SlidingWindow, however long the pauses are.  The argument is about the   *)
(* ring as seen from its position: one turn of the loop in Add shifts this  *)
(* view by one interval and takes what falls out of the window from the     *)
(* sum, so the sum stays the total of the view.                             *)
(*                                                                          *)
(* The algorithms, for every input: proxy numbers of any width, any pages   *)
(* and answers of the checker, any replies of the pool, any column of       *)
(* numbers that a facet cuts into ranges, any filter of a query and any     *)
(* order of its records.                                                    *)
(***************************************************************************)
EXTENDS Algorithms, QueryRecords, QueryMeaning, FiniteSetTheorems, TLAPS

(* Induction, stated with the set of the numbers for which a claim holds. *)

\* A set of numbers that is not empty has a least one.
LEMMA LeastOf ==
  ASSUME NEW D, D \subseteq Nat, D # {}
  PROVE  \E m \in D : \A k \in D : ~(k < m)
<1>. DEFINE R == OpToRel(<, Nat)
<1>1. IsWellFoundedOn(R, Nat)
  BY NatLessThanWellFounded, Zenon
<1>. HIDE DEF R
<1>2. PICK m \in D : \A k \in D : ~(<<k, m>> \in R)
  BY <1>1, WFMin
<1>3. \A k \in D : ~(k < m)
  BY <1>2 DEF R, OpToRel
<1>. QED  BY <1>2, <1>3

\* A set of numbers with 0 and every successor holds all of them.
LEMMA NumbersBySteps ==
  ASSUME NEW T, 0 \in T, \A n \in Nat : n \in T => n + 1 \in T
  PROVE  Nat \subseteq T
<1>. SUFFICES ASSUME Nat \ T # {} PROVE FALSE
  OBVIOUS
<1>1. PICK m \in Nat \ T : \A k \in Nat \ T : ~(k < m)
  BY LeastOf
<1>2. m - 1 \in Nat \ T
  BY <1>1
<1>. QED  BY <1>1, <1>2
----------------------------------------------------------------------------
(* The sum over a set of ages, as MapThenSumSet of SlidingWindow folds it. *)

Chosen(s) == CHOOSE x \in s : TRUE

IsFold(g, f) ==
  g = [s \in SUBSET Slots |-> IF s = {} THEN 0 ELSE f[Chosen(s)] + g[s \ {Chosen(s)}]]

Fold(f) == CHOOSE g : IsFold(g, f)

\* What was added at all ages, and at the n youngest.
Total(f) == Fold(f)[Slots]
Youngest(f, n) == Fold(f)[0..(n - 1)]

Small(n) == {s \in SUBSET Slots : Cardinality(s) <= n}

IsFoldUpTo(g, f, n) ==
  g = [s \in Small(n) |-> IF s = {} THEN 0 ELSE f[Chosen(s)] + g[s \ {Chosen(s)}]]

\* The slots are finite, and so is every set of them.
LEMMA SlotsFinite ==
  /\ IsFiniteSet(Slots) /\ Cardinality(Slots) = window
  /\ \A s \in SUBSET Slots : IsFiniteSet(s) /\ Cardinality(s) \in 0..window
<1>1. window \in Nat /\ window - 1 \in Int /\ 0 \in Int /\ window >= 1
  BY CounterAssumption
<1>2. IsFiniteSet(Slots) /\ Cardinality(Slots) = window
  BY <1>1, FS_Interval DEF Slots
<1>3. ASSUME NEW s \in SUBSET Slots PROVE IsFiniteSet(s) /\ Cardinality(s) \in 0..window
  <2>1. IsFiniteSet(s) /\ Cardinality(s) <= window
    BY <1>2, FS_Subset
  <2>. QED  BY <1>1, <2>1, FS_CardinalityType
<1>. QED  BY <1>2, <1>3

\* Without the element that is chosen from it, a set is smaller.
LEMMA Smaller ==
  ASSUME NEW s \in SUBSET Slots, NEW x \in s
  PROVE  /\ s \ {x} \in SUBSET Slots
         /\ Cardinality(s) \in Nat /\ Cardinality(s \ {x}) = Cardinality(s) - 1
<1>1. IsFiniteSet(s) /\ Cardinality(s) \in Nat
  BY SlotsFinite
<1>. QED  BY <1>1, FS_RemoveElement

\* The fold is defined on the sets of every size.
LEMMA FoldUpToExists ==
  ASSUME NEW f
  PROVE  \A n \in Nat : \E g : IsFoldUpTo(g, f, n)
<1>. DEFINE T == {n \in Nat : \E g : IsFoldUpTo(g, f, n)}
<1>1. 0 \in T
  <2>. DEFINE g == [s \in Small(0) |-> 0]
  <2>1. \A s \in Small(0) : s = {}
    <3>1. \A s \in Small(0) : IsFiniteSet(s) /\ Cardinality(s) = 0
      BY SlotsFinite DEF Small
    <3>. QED  BY <3>1, FS_EmptySet
  <2>2. IsFoldUpTo(g, f, 0)
    BY <2>1 DEF IsFoldUpTo
  <2>. QED  BY <2>2
<1>2. ASSUME NEW n \in Nat, n \in T PROVE n + 1 \in T
  <2>1. PICK g : IsFoldUpTo(g, f, n)
    BY <1>2
  <2>. DEFINE B(s) == IF s = {} THEN 0 ELSE f[Chosen(s)] + g[s \ {Chosen(s)}]
              h == [s \in Small(n + 1) |-> B(s)]
  <2>2. \A s \in Small(n) : s \in Small(n + 1) /\ g[s] = B(s)
    <3>1. \A s \in Small(n) : s \in Small(n + 1)
      BY SlotsFinite DEF Small
    <3>. QED  BY <2>1, <3>1 DEF IsFoldUpTo
  <2>3. \A s \in Small(n) : h[s] = g[s]
    BY <2>2
  <2>4. ASSUME NEW s \in Small(n + 1), s # {} PROVE s \ {Chosen(s)} \in Small(n)
    <3>1. Chosen(s) \in s /\ s \in SUBSET Slots /\ Cardinality(s) <= n + 1
      BY <2>4 DEF Chosen, Small
    <3>. QED  BY <3>1, Smaller DEF Small
  <2>5. \A s \in Small(n + 1) :
          h[s] = IF s = {} THEN 0 ELSE f[Chosen(s)] + h[s \ {Chosen(s)}]
    BY <2>3, <2>4
  <2>6. IsFoldUpTo(h, f, n + 1)
    <3>. DEFINE k == [s \in Small(n + 1) |->
                        IF s = {} THEN 0 ELSE f[Chosen(s)] + h[s \ {Chosen(s)}]]
    <3>1. h = k
      BY <2>5
    <3>. HIDE DEF h
    <3>. QED  BY <3>1 DEF IsFoldUpTo
  <2>. QED  BY <2>6
<1>3. Nat \subseteq T
  <2>. HIDE DEF T
  <2>. QED  BY <1>1, <1>2, NumbersBySteps
<1>. QED  BY <1>3

\* The equation that defines the fold.
LEMMA FoldIs == ASSUME NEW f PROVE IsFold(Fold(f), f)
<1>1. Small(window) = SUBSET Slots /\ window \in Nat
  BY SlotsFinite, CounterAssumption DEF Small
<1>2. PICK g : IsFoldUpTo(g, f, window)
  BY <1>1, FoldUpToExists
<1>3. IsFold(g, f)
  BY <1>1, <1>2 DEF IsFoldUpTo, IsFold
<1>. QED  BY <1>3 DEF Fold

\* Whichever element is taken first, the sum is the same.
LEMMA TakeAny ==
  ASSUME NEW f \in [Slots -> Int], NEW s \in SUBSET Slots
  PROVE  /\ Fold(f)[s] \in Int
         /\ s = {} => Fold(f)[s] = 0
         /\ \A x \in s : Fold(f)[s] = f[x] + Fold(f)[s \ {x}]
<1>. DEFINE g == Fold(f)
            Good(t) == g[t] \in Int /\ \A x \in t : g[t] = f[x] + g[t \ {x}]
            T == {n \in Nat : \A t \in Small(n) : Good(t)}
<1>1. \A t \in SUBSET Slots :
        g[t] = IF t = {} THEN 0 ELSE f[Chosen(t)] + g[t \ {Chosen(t)}]
  <2>1. IsFold(g, f)
    BY FoldIs
  <2>. HIDE DEF g
  <2>. QED  BY <2>1 DEF IsFold
<1>. HIDE DEF g
<1>0. Good({})
  <2>1. {} \in SUBSET Slots
    OBVIOUS
  <2>2. g[{}] = 0
    BY <1>1, <2>1, Zenon
  <2>3. \A x \in {} : g[{}] = f[x] + g[{} \ {x}]
    OBVIOUS
  <2>. QED  BY <2>2, <2>3
<1>2. 0 \in T
  <2>1. \A t \in Small(0) : t = {} /\ t \in SUBSET Slots
    <3>1. \A t \in Small(0) : IsFiniteSet(t) /\ Cardinality(t) = 0 /\ t \in SUBSET Slots
      BY SlotsFinite DEF Small
    <3>. QED  BY <3>1, FS_EmptySet
  <2>2. \A t \in Small(0) : Good(t)
    BY <1>0, <2>1, Zenon
  <2>. HIDE DEF Good
  <2>. QED  BY <2>2
<1>3. ASSUME NEW n \in Nat, n \in T PROVE n + 1 \in T
  <2>. SUFFICES ASSUME NEW t \in Small(n + 1), t # {} PROVE Good(t)
    <3>1. \A t \in Small(n + 1) : Good(t)
      BY <1>0, Zenon
    <3>. HIDE DEF Good
    <3>. QED  BY <3>1
  <2>. DEFINE c == Chosen(t)
  <2>1. t \in SUBSET Slots /\ c \in t /\ c \in Slots
    BY DEF Chosen, Small
  <2>2. ASSUME NEW x \in t PROVE t \ {x} \in SUBSET Slots /\ t \ {x} \in Small(n)
    BY <2>1, Smaller DEF Small
  <2>3. \A x \in t : Good(t \ {x})
    BY <1>3, <2>2
  <2>4. g[t] = f[c] + g[t \ {c}]
    BY <1>1, <2>1
  <2>. HIDE DEF c
  <2>5. g[t] \in Int
    BY <2>1, <2>3, <2>4
  <2>6. ASSUME NEW x \in t PROVE g[t] = f[x] + g[t \ {x}]
    <3>1. CASE x = c
      BY <2>4, <3>1
    <3>2. CASE x # c
      <4>. DEFINE r == (t \ {c}) \ {x}
      <4>1. g[t \ {c}] = f[x] + g[r]
        BY <2>1, <2>3, <3>2
      <4>2. r = (t \ {x}) \ {c}
        OBVIOUS
      <4>3. g[t \ {x}] = f[c] + g[r]
        BY <2>1, <2>3, <3>2, <4>2
      <4>4. r \in Small(n)
        <5>1. t \ {c} \in SUBSET Slots /\ t \ {c} \in Small(n) /\ x \in t \ {c}
          BY <2>1, <2>2, <3>2
        <5>2. Cardinality(r) = Cardinality(t \ {c}) - 1 /\ r \in SUBSET Slots
              /\ Cardinality(t \ {c}) \in Nat
          BY <5>1, Smaller
        <5>. QED  BY <5>1, <5>2 DEF Small
      <4>5. g[r] \in Int
        BY <1>3, <4>4
      <4>. HIDE DEF r
      <4>6. f[x] \in Int /\ f[c] \in Int
        BY <2>1
      <4>. QED  BY <2>4, <4>1, <4>3, <4>5, <4>6
    <3>. QED  BY <3>1, <3>2
  <2>. QED  BY <2>5, <2>6
<1>4. Nat \subseteq T
  <2>. HIDE DEF T
  <2>. QED  BY <1>2, <1>3, NumbersBySteps
<1>5. window \in Nat /\ s \in Small(window)
  BY SlotsFinite, CounterAssumption DEF Small
<1>6. Good(s)
  BY <1>4, <1>5
<1>. QED  BY <1>1, <1>6 DEF g

\* The sum grows by one age at a time.
LEMMA YoungestStep ==
  ASSUME NEW f \in [Slots -> Int]
  PROVE  /\ Youngest(f, 0) = 0
         /\ Youngest(f, window) = Total(f)
         /\ \A n \in 0..window : Youngest(f, n) \in Int
         /\ \A n \in 0..(window - 1) : Youngest(f, n + 1) = f[n] + Youngest(f, n)
<1>1. window \in Nat /\ window >= 1
  BY CounterAssumption
<1>2. \A n \in 0..window : 0..(n - 1) \in SUBSET Slots
  BY <1>1 DEF Slots
<1>3. 0..(0 - 1) = {}
  OBVIOUS
<1>4. Youngest(f, 0) = 0
  BY <1>2, <1>3, TakeAny DEF Youngest
<1>5. ASSUME NEW n \in 0..(window - 1) PROVE Youngest(f, n + 1) = f[n] + Youngest(f, n)
  <2>1. n \in 0..n /\ 0..n \in SUBSET Slots /\ (0..n) \ {n} = 0..(n - 1) /\ (n + 1) - 1 = n
    BY <1>1 DEF Slots
  <2>2. Fold(f)[0..n] = f[n] + Fold(f)[(0..n) \ {n}]
    BY <2>1, TakeAny
  <2>. QED  BY <2>1, <2>2 DEF Youngest
<1>6. \A n \in 0..window : Youngest(f, n) \in Int
  BY <1>2, TakeAny DEF Youngest
<1>. QED  BY <1>4, <1>5, <1>6 DEF Youngest, Total, Slots

\* What was added at age a is at age a + n, n intervals later.
Shifted(f, n) == [a \in Slots |-> IF a >= n THEN f[a - n] ELSE 0]

\* A shift by one drops the oldest interval from the total.
LEMMA ShiftDropsOldest ==
  ASSUME NEW f \in [Slots -> Int]
  PROVE  /\ Shifted(f, 1) \in [Slots -> Int]
         /\ Total(Shifted(f, 1)) = Total(f) - f[window - 1]
<1>. DEFINE h == Shifted(f, 1)
            T == {n \in Nat : n <= window - 1 => Youngest(h, n + 1) = Youngest(f, n)}
<1>1. window \in Nat /\ window >= 1
  BY CounterAssumption
<1>2. h \in [Slots -> Int] /\ h[0] = 0 /\ \A a \in 1..(window - 1) : h[a] = f[a - 1]
  <2>1. \A a \in Slots : a >= 1 => a - 1 \in Slots /\ f[a - 1] \in Int
    BY <1>1 DEF Slots
  <2>2. h \in [Slots -> Int]
    BY <2>1 DEF Shifted
  <2>3. 0 \in Slots /\ \A a \in 1..(window - 1) : a \in Slots /\ a >= 1
    BY <1>1 DEF Slots
  <2>. QED  BY <2>2, <2>3 DEF Shifted
<1>. HIDE DEF h
<1>3. 0 \in T
  <2>1. Youngest(h, 0 + 1) = h[0] + Youngest(h, 0) /\ Youngest(h, 0) = 0 /\ Youngest(f, 0) = 0
    BY <1>1, <1>2, YoungestStep
  <2>. QED  BY <1>2, <2>1
<1>4. ASSUME NEW n \in Nat, n \in T PROVE n + 1 \in T
  <2>. SUFFICES ASSUME n + 1 <= window - 1 PROVE Youngest(h, (n + 1) + 1) = Youngest(f, n + 1)
    OBVIOUS
  <2>1. /\ n \in 0..(window - 1) /\ n + 1 \in 0..(window - 1)
        /\ n + 1 \in 1..(window - 1) /\ (n + 1) - 1 = n
    BY <1>1
  <2>2. Youngest(h, n + 1) = Youngest(f, n)
    BY <1>1, <1>4, <2>1
  <2>3. Youngest(h, (n + 1) + 1) = h[n + 1] + Youngest(h, n + 1)
    BY <1>2, <2>1, YoungestStep
  <2>4. Youngest(f, n + 1) = f[n] + Youngest(f, n)
    BY <2>1, YoungestStep
  <2>. QED  BY <1>2, <2>1, <2>2, <2>3, <2>4
<1>5. Nat \subseteq T
  <2>. HIDE DEF T
  <2>. QED  BY <1>3, <1>4, NumbersBySteps
<1>6. window - 1 \in 0..(window - 1) /\ window - 1 \in 0..window /\ (window - 1) + 1 = window
  BY <1>1
<1>7. Youngest(h, window) = Youngest(f, window - 1)
  BY <1>1, <1>5, <1>6
<1>8. Youngest(f, window) = f[window - 1] + Youngest(f, window - 1)
  BY <1>6, YoungestStep
<1>9. f[window - 1] \in Int /\ Youngest(f, window - 1) \in Int
  BY <1>6, YoungestStep DEF Slots
<1>10. Total(h) = Youngest(h, window) /\ Total(f) = Youngest(f, window)
  BY <1>2, YoungestStep
<1>. QED  BY <1>2, <1>7, <1>8, <1>9, <1>10 DEF h

\* What is added in the current interval is added to the total.
LEMMA TotalOfAdded ==
  ASSUME NEW f \in [Slots -> Int], NEW what \in Int
  PROVE  Total([f EXCEPT ![0] = @ + what]) = Total(f) + what
<1>. DEFINE h == [f EXCEPT ![0] = @ + what]
            T == {n \in Nat : n <= window - 1 => Youngest(h, n + 1) = Youngest(f, n + 1) + what}
<1>1. window \in Nat /\ window >= 1 /\ 0 \in Slots
  BY CounterAssumption DEF Slots
<1>2. h \in [Slots -> Int] /\ h[0] = f[0] + what /\ \A a \in 1..(window - 1) : h[a] = f[a]
  BY <1>1 DEF Slots
<1>. HIDE DEF h
<1>3. 0 \in T
  <2>1. Youngest(h, 0 + 1) = h[0] + Youngest(h, 0) /\ Youngest(h, 0) = 0
    BY <1>1, <1>2, YoungestStep
  <2>2. Youngest(f, 0 + 1) = f[0] + Youngest(f, 0) /\ Youngest(f, 0) = 0
    BY <1>1, YoungestStep
  <2>. QED  BY <1>1, <1>2, <2>1, <2>2
<1>4. ASSUME NEW n \in Nat, n \in T PROVE n + 1 \in T
  <2>. SUFFICES ASSUME n + 1 <= window - 1
                PROVE  Youngest(h, (n + 1) + 1) = Youngest(f, (n + 1) + 1) + what
    OBVIOUS
  <2>1. /\ n + 1 \in 0..(window - 1) /\ n + 1 \in 1..(window - 1)
        /\ n + 1 \in 0..window /\ n + 1 \in Slots /\ n <= window - 1
    BY <1>1 DEF Slots
  <2>2. Youngest(h, n + 1) = Youngest(f, n + 1) + what
    BY <1>4, <2>1
  <2>3. Youngest(h, (n + 1) + 1) = h[n + 1] + Youngest(h, n + 1)
    BY <1>2, <2>1, YoungestStep
  <2>4. Youngest(f, (n + 1) + 1) = f[n + 1] + Youngest(f, n + 1)
    BY <2>1, YoungestStep
  <2>5. Youngest(f, n + 1) \in Int /\ f[n + 1] \in Int
    BY <2>1, YoungestStep
  <2>. QED  BY <1>2, <2>1, <2>2, <2>3, <2>4, <2>5
<1>5. Nat \subseteq T
  <2>. HIDE DEF T
  <2>. QED  BY <1>3, <1>4, NumbersBySteps
<1>6. Youngest(h, window) = Youngest(f, window) + what
  <2>1. window - 1 \in T /\ window - 1 <= window - 1 /\ (window - 1) + 1 = window
    BY <1>1, <1>5
  <2>. QED  BY <2>1
<1>7. Total(h) = Youngest(h, window) /\ Total(f) = Youngest(f, window)
  BY <1>2, YoungestStep
<1>. QED  BY <1>6, <1>7 DEF h

\* Nothing was added: the total is 0.
LEMMA TotalOfNothing == Total([a \in Slots |-> 0]) = 0
<1>. DEFINE f == [a \in Slots |-> 0]
            T == {n \in Nat : n <= window => Youngest(f, n) = 0}
<1>1. window \in Nat /\ f \in [Slots -> Int] /\ \A a \in 0..(window - 1) : f[a] = 0
  BY CounterAssumption DEF Slots
<1>. HIDE DEF f
<1>2. 0 \in T
  BY <1>1, YoungestStep
<1>3. ASSUME NEW n \in Nat, n \in T PROVE n + 1 \in T
  <2>. SUFFICES ASSUME n + 1 <= window PROVE Youngest(f, n + 1) = 0
    OBVIOUS
  <2>1. n \in 0..(window - 1) /\ Youngest(f, n) = 0
    BY <1>1, <1>3
  <2>2. Youngest(f, n + 1) = f[n] + Youngest(f, n)
    BY <1>1, <2>1, YoungestStep
  <2>. QED  BY <1>1, <2>1, <2>2
<1>4. Nat \subseteq T
  <2>. HIDE DEF T
  <2>. QED  BY <1>2, <1>3, NumbersBySteps
<1>5. Youngest(f, window) = 0
  BY <1>1, <1>4
<1>. QED  BY <1>1, <1>5, YoungestStep DEF f

\* No interval has more than the total, when nothing negative was added.
LEMMA TotalBounds ==
  ASSUME NEW f \in [Slots -> Nat]
  PROVE  Total(f) \in Nat /\ \A a \in Slots : f[a] <= Total(f)
<1>. DEFINE Ok(n) == Youngest(f, n) \in Nat /\ \A a \in 0..(n - 1) : f[a] <= Youngest(f, n)
            T == {n \in Nat : n <= window => Ok(n)}
<1>1. window \in Nat /\ f \in [Slots -> Int] /\ \A a \in 0..(window - 1) : f[a] \in Nat
  BY CounterAssumption DEF Slots
<1>2. 0 \in T
  BY <1>1, YoungestStep
<1>3. ASSUME NEW n \in Nat, n \in T PROVE n + 1 \in T
  <2>. SUFFICES ASSUME n + 1 <= window PROVE Ok(n + 1)
    OBVIOUS
  <2>1. n \in 0..(window - 1) /\ n <= window
    BY <1>1
  <2>2. Ok(n) /\ f[n] \in Nat
    BY <1>1, <1>3, <2>1
  <2>3. Youngest(f, n + 1) = f[n] + Youngest(f, n)
    BY <1>1, <2>1, YoungestStep
  <2>4. ASSUME NEW a \in 0..((n + 1) - 1) PROVE f[a] <= Youngest(f, n + 1)
    <3>1. CASE a = n
      BY <2>2, <2>3, <3>1
    <3>2. CASE a # n
      <4>1. a \in 0..(n - 1) /\ a \in 0..(window - 1)
        BY <1>1, <2>1, <3>2
      <4>. QED  BY <1>1, <2>2, <2>3, <4>1
    <3>. QED  BY <3>1, <3>2
  <2>. QED  BY <2>2, <2>3, <2>4
<1>4. Nat \subseteq T
  <2>. HIDE DEF T
  <2>. QED  BY <1>2, <1>3, NumbersBySteps
<1>5. Ok(window)
  BY <1>1, <1>4
<1>. QED  BY <1>1, <1>5, YoungestStep DEF Slots
----------------------------------------------------------------------------
(* The ring, seen from its position: age 0 is the current interval. *)

Ring == [buf : [Slots -> Nat], pos : Slots, sum : Int]

View(r) == [a \in Slots |-> r.buf[(r.pos - a) % window]]

\* Where the interval of age a is.
LEMMA SlotOf ==
  ASSUME NEW p \in Slots, NEW a \in Slots
  PROVE  (p - a) % window = IF p >= a THEN p - a ELSE (p - a) + window
<1>1. window \in Nat \ {0} /\ p \in 0..(window - 1) /\ a \in 0..(window - 1)
  BY CounterAssumption DEF Slots
<1>. QED  BY <1>1

\* The next position.
LEMMA NextSlot ==
  ASSUME NEW p \in Slots
  PROVE  (p + 1) % window = IF p = window - 1 THEN 0 ELSE p + 1
<1>1. window \in Nat \ {0} /\ p \in 0..(window - 1)
  BY CounterAssumption DEF Slots
<1>2. CASE p = window - 1
  <2>1. p + 1 = 0 + window
    BY <1>1, <1>2
  <2>2. (0 + window) % window = 0
    BY <1>1
  <2>. QED  BY <1>2, <2>1, <2>2
<1>3. CASE p # window - 1
  BY <1>1, <1>3
<1>. QED  BY <1>2, <1>3

\* The view is a function of the ages, and age 0 is at the position.
LEMMA ViewIs ==
  ASSUME NEW r \in Ring
  PROVE  /\ View(r) \in [Slots -> Nat] /\ View(r) \in [Slots -> Int]
         /\ \A a \in Slots : (r.pos - a) % window \in Slots
         /\ (r.pos - 0) % window = r.pos
<1>1. window \in Nat \ {0} /\ r.pos \in Slots /\ r.pos \in 0..(window - 1) /\ 0 \in Slots
  BY CounterAssumption DEF Slots, Ring
<1>2. ASSUME NEW a \in Slots PROVE (r.pos - a) % window \in Slots
  <2>1. (r.pos - a) % window = IF r.pos >= a THEN r.pos - a ELSE (r.pos - a) + window
    BY <1>1, SlotOf
  <2>. QED  BY <1>1, <2>1 DEF Slots
<1>3. (r.pos - 0) % window = r.pos
  <2>1. (r.pos - 0) % window = IF r.pos >= 0 THEN r.pos - 0 ELSE (r.pos - 0) + window
    BY <1>1, SlotOf
  <2>. QED  BY <1>1, <2>1
<1>4. r.buf \in [Slots -> Nat]
  BY DEF Ring
<1>5. View(r) \in [Slots -> Nat]
  BY <1>2, <1>4 DEF View
<1>. QED  BY <1>2, <1>3, <1>5

\* One turn of the loop in Add: every interval is one older, the current one is
\* empty, and what fell out of the window is taken from the sum.
LEMMA ClearShifts ==
  ASSUME NEW r \in Ring
  PROVE  /\ Clear(r) \in Ring
         /\ View(Clear(r)) = Shifted(View(r), 1)
         /\ Clear(r).sum = r.sum - View(r)[window - 1]
<1>. DEFINE p == (r.pos + 1) % window
            b == [r.buf EXCEPT ![p] = 0]
<1>1. /\ window \in Nat \ {0} /\ r.pos \in Slots /\ r.pos \in 0..(window - 1)
      /\ r.buf \in [Slots -> Nat] /\ r.sum \in Int
      /\ window - 1 \in Slots /\ 0 \in Slots
  BY CounterAssumption DEF Slots, Ring
<1>2. p = IF r.pos = window - 1 THEN 0 ELSE r.pos + 1
  BY <1>1, NextSlot
<1>. HIDE DEF p
<1>3. p \in Slots /\ p \in 0..(window - 1)
  BY <1>1, <1>2 DEF Slots
<1>4. Clear(r) = [buf |-> b, pos |-> p, sum |-> r.sum - r.buf[p]]
  BY DEF Clear, p
<1>5. Clear(r) \in Ring
  <2>1. b \in [Slots -> Nat]
    BY <1>1, <1>3
  <2>2. r.sum - r.buf[p] \in Int
    BY <1>1, <1>3
  <2>. QED  BY <1>3, <1>4, <2>1, <2>2 DEF Ring
<1>6. (r.pos - (window - 1)) % window = p
  <2>1. (r.pos - (window - 1)) % window =
          IF r.pos >= window - 1 THEN r.pos - (window - 1) ELSE (r.pos - (window - 1)) + window
    BY <1>1, SlotOf
  <2>. QED  BY <1>1, <1>2, <2>1
<1>7. View(r)[window - 1] = r.buf[p]
  BY <1>1, <1>6 DEF View
<1>8. ASSUME NEW a \in Slots
      PROVE  b[(p - a) % window] = Shifted(View(r), 1)[a]
  <2>1. a \in 0..(window - 1)
    BY DEF Slots
  <2>2. (p - a) % window = IF p >= a THEN p - a ELSE (p - a) + window
    BY <1>3, SlotOf
  <2>3. CASE a = 0
    <3>1. (p - a) % window = p
      BY <1>3, <2>2, <2>3
    <3>. QED  BY <1>1, <1>3, <2>3, <3>1 DEF Shifted
  <2>4. CASE a # 0
    <3>1. a - 1 \in Slots /\ a >= 1
      BY <1>1, <2>1, <2>4 DEF Slots
    <3>2. (r.pos - (a - 1)) % window =
            IF r.pos >= a - 1 THEN r.pos - (a - 1) ELSE (r.pos - (a - 1)) + window
      BY <1>1, <3>1, SlotOf
    <3>3. (p - a) % window = (r.pos - (a - 1)) % window /\ (p - a) % window # p
      BY <1>1, <1>2, <1>3, <2>1, <2>2, <2>4, <3>2
    <3>4. (r.pos - (a - 1)) % window \in Slots
      BY <3>1, ViewIs
    <3>5. b[(p - a) % window] = r.buf[(r.pos - (a - 1)) % window]
      BY <1>1, <1>3, <3>3, <3>4
    <3>. QED  BY <3>1, <3>5 DEF Shifted, View
  <2>. QED  BY <2>3, <2>4
<1>9. View(Clear(r)) = Shifted(View(r), 1)
  <2>1. View(Clear(r)) = [a \in Slots |-> b[(p - a) % window]]
    BY <1>4 DEF View
  <2>2. Shifted(View(r), 1) = [a \in Slots |-> Shifted(View(r), 1)[a]]
    BY DEF Shifted
  <2>. HIDE DEF b
  <2>. QED  BY <1>8, <2>1, <2>2
<1>. QED  BY <1>4, <1>5, <1>7, <1>9

(* The loop in Add. *)

ring == [buf |-> buf, pos |-> pos, sum |-> sum]

IsLoop(f, m) == f = [n \in 0..m |-> IF n = 0 THEN ring ELSE Clear(f[n - 1])]

\* The turns of the loop define a function of their number.
LEMMA LoopExists == \A m \in Nat : \E f : IsLoop(f, m)
<1>. DEFINE T == {m \in Nat : \E f : IsLoop(f, m)}
<1>1. 0 \in T
  <2>. DEFINE f == [n \in 0..0 |-> ring]
  <2>1. IsLoop(f, 0)
    BY DEF IsLoop
  <2>. QED  BY <2>1
<1>2. ASSUME NEW m \in Nat, m \in T PROVE m + 1 \in T
  <2>1. PICK f : IsLoop(f, m)
    BY <1>2
  <2>. DEFINE B(n) == IF n = 0 THEN ring ELSE Clear(f[n - 1])
              g == [n \in 0..(m + 1) |-> B(n)]
  <2>2. \A n \in 0..m : n \in 0..(m + 1) /\ f[n] = B(n)
    BY <2>1 DEF IsLoop
  <2>3. \A n \in 0..(m + 1) : n # 0 => n - 1 \in 0..m
    OBVIOUS
  <2>4. \A n \in 0..m : g[n] = f[n]
    BY <2>2
  <2>5. \A n \in 0..(m + 1) : g[n] = IF n = 0 THEN ring ELSE Clear(g[n - 1])
    BY <2>3, <2>4
  <2>6. IsLoop(g, m + 1)
    <3>. DEFINE h == [n \in 0..(m + 1) |-> IF n = 0 THEN ring ELSE Clear(g[n - 1])]
    <3>1. g = h
      BY <2>5
    <3>. HIDE DEF g
    <3>. QED  BY <3>1 DEF IsLoop
  <2>. QED  BY <2>6
<1>3. Nat \subseteq T
  <2>. HIDE DEF T
  <2>. QED  BY <1>1, <1>2, NumbersBySteps
<1>. QED  BY <1>3

Turns(gap) == IF clearIntervals(gap) > 0 THEN clearIntervals(gap) ELSE 0

\* n turns shift the view by n and keep the sum its total.
LEMMA LoopShifts ==
  ASSUME NEW gap \in Int, ring \in Ring, sum = Total(View(ring))
  PROVE  /\ Turns(gap) \in 0..window
         /\ Cleared(gap) \in Ring
         /\ View(Cleared(gap)) = Shifted(View(ring), Turns(gap))
         /\ Cleared(gap).sum = Total(View(Cleared(gap)))
<1>. DEFINE after == CHOOSE f : IsLoop(f, window)
            Good(n) == /\ after[n] \in Ring
                       /\ View(after[n]) = Shifted(View(ring), n)
                       /\ after[n].sum = Total(View(after[n]))
            T == {n \in Nat : n <= window => Good(n)}
<1>1. window \in Nat /\ 0 \in 0..window
  BY CounterAssumption
<1>2. Turns(gap) \in 0..window
  <2>1. Int16(gap) \in Int
    BY DEF Int16
  <2>. QED  BY <1>1, <2>1 DEF Turns, clearIntervals
<1>3. Cleared(gap) = after[Turns(gap)]
  BY DEF Cleared, Turns, IsLoop, ring
<1>4. IsLoop(after, window)
  BY <1>1, LoopExists
<1>. HIDE DEF after
<1>5. after[0] = ring /\ \A n \in 0..(window - 1) : after[n + 1] = Clear(after[n])
  <2>1. after[0] = ring
    BY <1>1, <1>4 DEF IsLoop
  <2>2. ASSUME NEW n \in 0..(window - 1) PROVE after[n + 1] = Clear(after[n])
    <3>1. n + 1 \in 0..window /\ n + 1 # 0 /\ (n + 1) - 1 = n
      BY <1>1
    <3>. QED  BY <1>4, <3>1 DEF IsLoop
  <2>. QED  BY <2>1, <2>2
<1>6. 0 \in T
  <2>1. View(ring) \in [Slots -> Int]
    BY ViewIs
  <2>2. \A a \in Slots : a >= 0 /\ a - 0 = a
    BY <1>1 DEF Slots
  <2>3. Shifted(View(ring), 0) = View(ring)
    BY <2>1, <2>2 DEF Shifted
  <2>4. ring.sum = sum
    BY DEF ring
  <2>. QED  BY <1>5, <2>3, <2>4
<1>7. ASSUME NEW n \in Nat, n \in T PROVE n + 1 \in T
  <2>. SUFFICES ASSUME n + 1 <= window PROVE Good(n + 1)
    OBVIOUS
  <2>1. n \in 0..(window - 1) /\ n <= window
    BY <1>1
  <2>2. Good(n)
    BY <1>7, <2>1
  <2>3. after[n + 1] = Clear(after[n])
    BY <1>5, <2>1
  <2>. DEFINE r == after[n]
              v == View(ring)
  <2>4. r \in Ring /\ View(r) = Shifted(v, n) /\ r.sum = Total(View(r)) /\ r.sum \in Int
    BY <2>2 DEF Ring
  <2>5. /\ Clear(r) \in Ring /\ View(Clear(r)) = Shifted(View(r), 1)
        /\ Clear(r).sum = r.sum - View(r)[window - 1]
    BY <2>4, ClearShifts
  <2>6. View(r) \in [Slots -> Int]
    BY <2>4, ViewIs
  <2>7. Total(Shifted(View(r), 1)) = Total(View(r)) - View(r)[window - 1]
    BY <2>6, ShiftDropsOldest
  <2>8. Shifted(Shifted(v, n), 1) = Shifted(v, n + 1)
    <3>1. ASSUME NEW a \in Slots
          PROVE  Shifted(Shifted(v, n), 1)[a] = Shifted(v, n + 1)[a]
      <4>1. a \in Int /\ a >= 0
        BY <1>1 DEF Slots
      <4>2. CASE a >= 1
        <5>1. a - 1 \in Slots /\ (a - 1 >= n <=> a >= n + 1) /\ (a - 1) - n = a - (n + 1)
          BY <1>1, <4>2 DEF Slots
        <5>. QED  BY <4>2, <5>1 DEF Shifted
      <4>3. CASE ~(a >= 1)
        <5>1. ~(a >= n + 1)
          BY <4>1, <4>3
        <5>. QED  BY <4>3, <5>1 DEF Shifted
      <4>. QED  BY <4>2, <4>3
    <3>. HIDE DEF v
    <3>2. Shifted(Shifted(v, n), 1) = [a \in Slots |-> Shifted(Shifted(v, n), 1)[a]]
      BY DEF Shifted
    <3>3. Shifted(v, n + 1) = [a \in Slots |-> Shifted(v, n + 1)[a]]
      BY DEF Shifted
    <3>. QED  BY <3>1, <3>2, <3>3
  <2>. QED  BY <2>3, <2>4, <2>5, <2>7, <2>8
<1>8. Nat \subseteq T
  <2>. HIDE DEF T
  <2>. QED  BY <1>6, <1>7, NumbersBySteps
<1>9. Good(Turns(gap))
  BY <1>1, <1>2, <1>8
<1>. QED  BY <1>2, <1>3, <1>9

\* Every slot is in view.
LEMMA SlotInView ==
  ASSUME NEW r \in Ring, NEW i \in Slots
  PROVE  \E a \in Slots : View(r)[a] = r.buf[i]
<1>. DEFINE a == IF r.pos >= i THEN r.pos - i ELSE (r.pos - i) + window
<1>1. /\ window \in Nat \ {0} /\ r.pos \in Slots
      /\ r.pos \in 0..(window - 1) /\ i \in 0..(window - 1)
  BY CounterAssumption DEF Slots, Ring
<1>2. a \in Slots /\ a \in 0..(window - 1)
  BY <1>1 DEF Slots
<1>3. (r.pos - a) % window = IF r.pos >= a THEN r.pos - a ELSE (r.pos - a) + window
  <2>. HIDE DEF a
  <2>. QED  BY <1>1, <1>2, SlotOf
<1>4. (r.pos - a) % window = i
  BY <1>1, <1>3
<1>. HIDE DEF a
<1>. QED  BY <1>2, <1>4 DEF View
----------------------------------------------------------------------------
(* The invariant: the running sum is the total of what is in the ring. *)

SumIsTotal == sum = Total(View(ring))

Inv == TypeOK /\ SumIsTotal

\* The invariant's types are those of a ring.
LEMMA RingTyped == ASSUME TypeOK PROVE ring \in Ring
<1>1. 0..MaxSum \subseteq Nat
  BY CounterAssumption
<1>2. buf \in [Slots -> Nat] /\ pos \in Slots /\ sum \in Int
  BY <1>1 DEF TypeOK
<1>. QED  BY <1>2 DEF ring, Ring

\* Add clears, adds at the position and keeps the sum.
LEMMA AddShifts ==
  ASSUME Inv, NEW what \in Nat, NEW gap \in Gaps \cup {-1}, Add(what, gap)
  PROVE  /\ Inv'
         /\ View(ring)' = [Shifted(View(ring), Turns(gap)) EXCEPT ![0] = @ + what]
<1>. DEFINE r == Cleared(gap)
<1>1. gap \in Int /\ ring \in Ring /\ sum = Total(View(ring))
  BY CounterAssumption, RingTyped DEF Inv, SumIsTotal
<1>2. /\ r \in Ring /\ View(r) = Shifted(View(ring), Turns(gap))
      /\ r.sum = Total(View(r))
  BY <1>1, LoopShifts
<1>3. /\ r.sum + what <= MaxSum
      /\ buf' = [r.buf EXCEPT ![r.pos] = @ + what] /\ pos' = r.pos /\ sum' = r.sum + what
      /\ fresh' = FALSE /\ last' = IF gap < 0 THEN 0 ELSE gap
  BY DEF Add
<1>. HIDE DEF r
<1>4. r.buf \in [Slots -> Nat] /\ r.pos \in Slots /\ r.sum \in Int /\ 0 \in Slots
  BY <1>2, CounterAssumption DEF Ring, Slots
<1>5. ring' \in Ring
  <2>1. buf' \in [Slots -> Nat] /\ pos' \in Slots /\ sum' \in Int
    BY <1>3, <1>4
  <2>2. ring' = [buf |-> buf', pos |-> pos', sum |-> sum']
    BY DEF ring
  <2>. QED  BY <2>1, <2>2 DEF Ring
<1>6. View(ring') = [View(r) EXCEPT ![0] = @ + what]
  <2>1. /\ View(r) \in [Slots -> Nat]
        /\ \A a \in Slots : (r.pos - a) % window \in Slots
        /\ (r.pos - 0) % window = r.pos
    BY <1>2, ViewIs
  <2>2. ASSUME NEW a \in Slots, a # 0 PROVE (r.pos - a) % window # r.pos
    <3>1. window \in Nat \ {0} /\ r.pos \in 0..(window - 1) /\ a \in 0..(window - 1)
      BY <1>4, CounterAssumption DEF Slots
    <3>2. (r.pos - a) % window = IF r.pos >= a THEN r.pos - a ELSE (r.pos - a) + window
      BY <1>4, SlotOf
    <3>. QED  BY <2>2, <3>1, <3>2
  <2>3. View(ring') = [a \in Slots |-> buf'[(r.pos - a) % window]]
    BY <1>3 DEF View, ring
  <2>4. ASSUME NEW a \in Slots
        PROVE  buf'[(r.pos - a) % window] = [View(r) EXCEPT ![0] = @ + what][a]
    <3>1. View(r)[a] = r.buf[(r.pos - a) % window]
      BY DEF View
    <3>2. CASE a = 0
      <4>1. buf'[r.pos] = r.buf[r.pos] + what
        BY <1>3, <1>4
      <4>. QED  BY <1>4, <2>1, <3>1, <3>2, <4>1
    <3>3. CASE a # 0
      <4>1. buf'[(r.pos - a) % window] = r.buf[(r.pos - a) % window]
        BY <1>3, <1>4, <2>1, <2>2, <3>3
      <4>. QED  BY <2>1, <3>1, <3>3, <4>1
    <3>. QED  BY <3>2, <3>3
  <2>5. [View(r) EXCEPT ![0] = @ + what] = [a \in Slots |-> [View(r) EXCEPT ![0] = @ + what][a]]
    BY <2>1
  <2>. QED  BY <2>3, <2>4, <2>5
<1>7. sum' = Total(View(ring'))
  <2>1. View(r) \in [Slots -> Int] /\ what \in Int
    BY <1>2, ViewIs
  <2>2. Total([View(r) EXCEPT ![0] = @ + what]) = Total(View(r)) + what
    BY <2>1, TotalOfAdded
  <2>. QED  BY <1>2, <1>3, <1>6, <2>2
<1>8. TypeOK'
  <2>1. View(ring') \in [Slots -> Nat]
    BY <1>5, ViewIs
  <2>2. Total(View(ring')) \in Nat /\ \A a \in Slots : View(ring')[a] <= Total(View(ring'))
    BY <2>1, TotalBounds
  <2>3. sum' \in 0..MaxSum
    BY <1>3, <1>7, <2>2, CounterAssumption
  <2>4. ASSUME NEW i \in Slots PROVE buf'[i] \in 0..MaxSum
    <3>1. ring'.buf = buf'
      BY DEF ring
    <3>2. PICK a \in Slots : View(ring')[a] = buf'[i]
      BY <1>5, <3>1, SlotInView
    <3>3. View(ring')[a] \in Nat /\ View(ring')[a] <= sum'
      BY <1>7, <2>1, <2>2
    <3>. QED  BY <2>3, <3>2, <3>3, CounterAssumption
  <2>5. buf' \in [Slots -> 0..MaxSum]
    <3>1. buf' \in [Slots -> Nat]
      BY <1>3, <1>4
    <3>. QED  BY <2>4, <3>1
  <2>6. last' \in Gaps \cup {0}
    BY <1>3, CounterAssumption
  <2>. QED  BY <1>3, <1>4, <2>3, <2>5, <2>6 DEF TypeOK
<1>. QED  BY <1>2, <1>6, <1>7, <1>8 DEF Inv, SumIsTotal

\* A new counter has an empty ring.
LEMMA InvInit == Init => Inv
<1>. SUFFICES ASSUME Init PROVE Inv
  OBVIOUS
<1>1. TypeOK
  BY CounterAssumption DEF Init, TypeOK, Slots
<1>2. View(ring) = [a \in Slots |-> 0]
  <2>1. ring \in Ring /\ ring.buf = [i \in Slots |-> 0]
    BY <1>1, RingTyped DEF Init, ring
  <2>2. \A a \in Slots : (ring.pos - a) % window \in Slots
    BY <2>1, ViewIs
  <2>. QED  BY <2>1, <2>2 DEF View
<1>3. sum = Total(View(ring))
  BY <1>2, TotalOfNothing DEF Init
<1>. QED  BY <1>1, <1>3 DEF Inv, SumIsTotal

\* A step of the counter is an addition, a restart being one of nothing.
LEMMA NextAdds ==
  ASSUME Next
  PROVE  \E what \in Amounts \cup {0}, gap \in Gaps \cup {-1} : Add(what, gap)
<1>1. \A gap \in Elapsed : gap \in Gaps \cup {-1}
  BY DEF Elapsed
<1>. QED  BY <1>1 DEF Next, Restart

\* Every addition and every restart keeps the invariant.
LEMMA InvNext == Inv /\ [Next]_vars => Inv'
<1>. SUFFICES ASSUME Inv, [Next]_vars PROVE Inv'
  OBVIOUS
<1>1. CASE Next
  <2>1. PICK what \in Amounts \cup {0}, gap \in Gaps \cup {-1} : Add(what, gap)
    BY <1>1, NextAdds
  <2>2. what \in Nat
    BY CounterAssumption
  <2>. QED  BY <2>1, <2>2, AddShifts
<1>2. CASE UNCHANGED vars
  BY <1>2 DEF Inv, TypeOK, SumIsTotal, ring, vars
<1>. QED  BY <1>1, <1>2

\* The counter keeps its types for every pause, those that an int16 does not
\* hold included: no slot and no sum ever becomes negative, although every turn
\* of the loop subtracts a slot from the sum.
THEOREM TypeCorrect == Spec => []TypeOK
<1>1. Inv => TypeOK
  BY DEF Inv
<1>. QED  BY <1>1, InvInit, InvNext, PTL DEF Spec
----------------------------------------------------------------------------
(* The refinement. *)

\* MapThenSumSet over the ages is the total.
LEMMA AbstractAdd ==
  ASSUME NEW what, NEW elapsed, NEW d,
         last' = elapsed,
         View(ring') = [a \in Slots |-> (IF a >= d THEN View(ring)[a - d] ELSE 0)
                                          + (IF a = 0 THEN what ELSE 0)],
         sum' = Total(View(ring'))
  PROVE  Window!Add(what, elapsed, d)
<1>. DEFINE v == [a \in Slots |-> buf[(pos - a) % window]]
<1>1. View(ring) = v /\ View(ring') = v'
  BY DEF View, ring
<1>2. v' = [a \in Slots |-> (IF a >= d THEN v[a - d] ELSE 0)
                              + (IF a = 0 THEN what ELSE 0)]
  <2>. HIDE DEF v
  <2>. QED  BY <1>1
<1>3. sum' = Total(v')
  <2>. HIDE DEF v
  <2>. QED  BY <1>1
<1>4. sum' = Window!MapThenSumSet(LAMBDA a : v'[a], Slots)
  BY <1>3 DEF Total, Fold, IsFold, Chosen, Window!MapThenSumSet, Window!MapThenFoldSet
<1>. QED  BY <1>2, <1>4 DEF Window!Add, Window!Ages, Slots

\* A new ring is a new window.
LEMMA InitSlides == Init => Window!Init
<1>. SUFFICES ASSUME Init PROVE Window!Init
  OBVIOUS
<1>1. TypeOK
  BY InvInit DEF Inv
<1>2. ring \in Ring /\ ring.buf = [i \in Slots |-> 0] /\ ring.pos = pos
  BY <1>1, RingTyped DEF Init, ring
<1>3. \A a \in Slots : (pos - a) % window \in Slots
  BY <1>2, ViewIs
<1>4. [a \in Slots |-> buf[(pos - a) % window]] = [a \in Slots |-> 0]
  BY <1>3 DEF Init
<1>5. Window!Ages = Slots /\ sum = 0 /\ last = 0
  BY DEF Init, Window!Ages, Slots
<1>. QED  BY <1>4, <1>5, Zenon DEF Window!Init

\* What the turns drop is what a window may drop.
LEMMA TurnsDrop ==
  ASSUME NEW gap \in Gaps \cup {-1}, NEW elapsed, elapsed = IF gap < 0 THEN 0 ELSE gap,
         Turns(gap) \in 0..window
  PROVE  Turns(gap) \in Window!Dropped(elapsed)
<1>1. gap \in Int /\ gap >= -1 /\ window \in 1..32767
  BY CounterAssumption
<1>2. elapsed <= 32767 => Int16(gap) = gap
  BY <1>1 DEF Int16
<1>3. elapsed <= 32767 => Turns(gap) = IF elapsed < window THEN elapsed ELSE window
  <2>. SUFFICES ASSUME elapsed <= 32767
                PROVE  Turns(gap) = IF elapsed < window THEN elapsed ELSE window
    OBVIOUS
  <2>1. clearIntervals(gap) = IF gap > window THEN window ELSE gap
    BY <1>2 DEF clearIntervals
  <2>2. Turns(gap) = IF (IF gap > window THEN window ELSE gap) > 0
                       THEN IF gap > window THEN window ELSE gap ELSE 0
    BY <2>1 DEF Turns
  <2>. QED  BY <1>1, <2>2
<1>. QED  BY <1>3 DEF Window!Dropped

\* Every step of the ring is a step of the window.
LEMMA StepSlides ==
  ASSUME Inv, Next
  PROVE  Window!Next
<1>1. PICK what \in Amounts \cup {0}, gap \in Gaps \cup {-1} : Add(what, gap)
  BY NextAdds
<1>2. what \in Nat
  BY CounterAssumption
<1>. DEFINE elapsed == IF gap < 0 THEN 0 ELSE gap
            v == View(ring)
            d == Turns(gap)
<1>3. elapsed \in Gaps \cup {0} /\ last' = elapsed
  BY <1>1, CounterAssumption DEF Add
<1>4. Inv' /\ View(ring') = [Shifted(v, d) EXCEPT ![0] = @ + what]
  BY <1>1, <1>2, AddShifts
<1>5. sum' = Total(View(ring'))
  BY <1>4 DEF Inv, SumIsTotal
<1>d. d \in 0..window
  <2>1. gap \in Int /\ ring \in Ring /\ sum = Total(View(ring))
    BY RingTyped, CounterAssumption DEF Inv, SumIsTotal
  <2>. QED  BY <2>1, LoopShifts
<1>e. d \in Window!Dropped(elapsed)
  BY <1>d, TurnsDrop
<1>. HIDE DEF d
<1>6. View(ring') = [a \in Slots |-> (IF a >= d THEN v[a - d] ELSE 0)
                                       + (IF a = 0 THEN what ELSE 0)]
  <2>. DEFINE w == [Shifted(v, d) EXCEPT ![0] = @ + what]
  <2>1. v \in [Slots -> Nat]
    BY RingTyped, ViewIs DEF Inv
  <2>. HIDE DEF v
  <2>2. ASSUME NEW a \in Slots
        PROVE  w[a] = (IF a >= d THEN v[a - d] ELSE 0) + (IF a = 0 THEN what ELSE 0)
    <3>. DEFINE x == IF a >= d THEN v[a - d] ELSE 0
    <3>2. Shifted(v, d)[a] = x
      BY DEF Shifted
    <3>3. x \in Nat
      <4>1. a >= d => a - d \in Slots
        BY <1>d, CounterAssumption DEF Slots
      <4>. QED  BY <2>1, <4>1
    <3>4. w[a] = IF a = 0 THEN x + what ELSE x
      <4>. HIDE DEF x
      <4>. QED  BY <3>2 DEF Shifted
    <3>. HIDE DEF x
    <3>5. w[a] = x + (IF a = 0 THEN what ELSE 0)
      BY <1>2, <3>3, <3>4
    <3>. QED  BY <3>5 DEF x
  <2>3. w = [a \in Slots |-> w[a]]
    BY DEF Shifted
  <2>. HIDE DEF w
  <2>4. w = [a \in Slots |-> (IF a >= d THEN v[a - d] ELSE 0) + (IF a = 0 THEN what ELSE 0)]
    BY <2>2, <2>3
  <2>. QED  BY <1>4, <2>4 DEF w
<1>. HIDE DEF elapsed
<1>7. Window!Add(what, elapsed, d)
  BY <1>3, <1>5, <1>6, AbstractAdd
<1>. QED  BY <1>3, <1>e, <1>7 DEF Window!Next

\* The ring implements the sliding window, however long the pauses are: after
\* every Add and every restart the running sum of the code is what was added
\* within the last "window" intervals, or longer ago only after a pause that an
\* int16 does not hold, and the ring turned to its position shows when.
THEOREM RingSlides == Spec => SlidesOver
<1>1. Inv /\ [Next]_vars => [Window!Next]_(Window!vars)
  <2>1. ASSUME Inv, Next PROVE Window!Next
    BY <2>1, StepSlides
  <2>2. ASSUME UNCHANGED vars PROVE UNCHANGED Window!vars
    BY <2>2 DEF vars, Window!vars
  <2>. QED  BY <2>1, <2>2
<1>. QED  BY <1>1, InitSlides, InvInit, InvNext, PTL DEF Spec, SlidesOver, Window!Spec

----------------------------------------------------------------------------
(* Whole division, of which the provers know only the definition. *)

LEMMA MulMono ==
  ASSUME NEW a \in Int, NEW b \in Int, NEW d \in Nat, a <= b
  PROVE  a * d <= b * d
  OBVIOUS

LEMMA DivMod ==
  ASSUME NEW x \in Nat, NEW d \in Nat \ {0}
  PROVE  x = (x \div d) * d + (x % d) /\ x % d \in 0..(d - 1) /\ x \div d \in Nat
  OBVIOUS

\* A number has one quotient and one remainder.
LEMMA DivUnique ==
  ASSUME NEW q \in Nat, NEW d \in Nat \ {0}, NEW r \in 0..(d - 1), NEW x, x = q * d + r
  PROVE  x \div d = q /\ x % d = r
<1>1. x \in Nat
  OBVIOUS
<1>. DEFINE k == x \div d
            m == x % d
<1>2. x = k * d + m /\ m \in 0..(d - 1) /\ k \in Nat
  BY <1>1, DivMod
<1>. HIDE DEF k, m
<1>3. q <= k
  <2>. SUFFICES ASSUME k + 1 <= q PROVE FALSE
    BY <1>2
  <2>1. (k + 1) * d <= q * d
    BY <1>2, MulMono
  <2>2. (k + 1) * d = k * d + d
    BY <1>2
  <2>. QED  BY <1>2, <2>1, <2>2
<1>4. k <= q
  <2>. SUFFICES ASSUME q + 1 <= k PROVE FALSE
    BY <1>2
  <2>1. (q + 1) * d <= k * d
    BY <1>2, MulMono
  <2>2. (q + 1) * d = q * d + d
    BY <1>2
  <2>. QED  BY <1>2, <2>1, <2>2
<1>5. k = q
  BY <1>2, <1>3, <1>4
<1>6. m = r
  BY <1>2, <1>5
<1>. QED  BY <1>5, <1>6 DEF k, m

\* Dividing by a product is dividing by its factors, the right one first.
LEMMA DivDiv ==
  ASSUME NEW x \in Nat, NEW d \in Nat \ {0}, NEW e \in Nat \ {0}
  PROVE  x \div (d * e) = (x \div e) \div d
<1>. DEFINE y == x \div e
            r == x % e
            z == y \div d
            s == y % d
<1>1. x = y * e + r /\ r \in 0..(e - 1) /\ y \in Nat
  BY DivMod
<1>. HIDE DEF y
<1>2. y = z * d + s /\ s \in 0..(d - 1) /\ z \in Nat
  BY <1>1, DivMod
<1>. HIDE DEF r, z, s
<1>3. x = (z * d + s) * e + r
  BY <1>1, <1>2
<1>4. (z * d + s) * e = z * (d * e) + s * e
  BY <1>2
<1>5. s * e + r \in 0..(d * e - 1)
  <2>1. s * e <= (d - 1) * e
    BY <1>2, MulMono
  <2>2. (d - 1) * e = d * e - e
    OBVIOUS
  <2>3. s * e \in Nat /\ d * e \in Nat
    BY <1>2
  <2>. QED  BY <1>1, <2>1, <2>2, <2>3
<1>6. d * e \in Nat \ {0}
  OBVIOUS
<1>7. x = z * (d * e) + (s * e + r)
  BY <1>1, <1>2, <1>3, <1>4
<1>8. x \div (d * e) = z
  BY <1>2, <1>5, <1>6, <1>7, DivUnique
<1>. QED  BY <1>8 DEF z, y

\* A quotient is below the factor that its number is below a multiple of.
LEMMA DivBelow ==
  ASSUME NEW x \in Nat, NEW m \in Nat, NEW d \in Nat \ {0}, x < m * d
  PROVE  x \div d < m
<1>. DEFINE k == x \div d
            r == x % d
<1>1. x = k * d + r /\ r \in 0..(d - 1) /\ k \in Nat
  BY DivMod
<1>. HIDE DEF k, r
<1>. SUFFICES ASSUME m <= k PROVE FALSE
  BY <1>1 DEF k
<1>2. m * d <= k * d
  BY <1>1, MulMono
<1>3. k * d \in Nat /\ m * d \in Nat
  BY <1>1
<1>. QED  BY <1>1, <1>2, <1>3
----------------------------------------------------------------------------
(* Proxy numbers: packing and unpacking are inverse. *)

LEMMA Widths ==
  /\ Octets \in Nat \ {0} /\ Ports \in Nat \ {0} /\ Protos \in Nat \ {0}
  /\ Protos >= 4 /\ Ports * Protos \in Nat \ {0} /\ Octets * Octets \in Nat \ {0}
  /\ Octets * Octets * Octets \in Nat \ {0}
<1>1. Octets \in Nat \ {0} /\ Ports \in Nat \ {0} /\ Protos \in Nat \ {0}
  BY PmuxAssumption
<1>2. Len(Schemes) = 4
  BY DEF Schemes
<1>3. Protos >= 4
  BY <1>1, <1>2, PmuxAssumption
<1>4. Ports * Protos \in Nat \ {0} /\ Octets * Octets \in Nat \ {0}
  BY <1>1
<1>5. Octets * Octets * Octets \in Nat \ {0}
  BY <1>1, <1>4
<1>. QED  BY <1>1, <1>3, <1>4, <1>5

\* What is packed is read again.
LEMMA PackRead ==
  ASSUME NEW a \in Nat, NEW port \in 0..(Ports - 1), NEW proto \in 0..(Protos - 1)
  PROVE  /\ pack(a, port, proto) \in Nat
         /\ ip(pack(a, port, proto)) = a
         /\ Port(pack(a, port, proto)) = port
         /\ Proto(pack(a, port, proto)) = proto
<1>. DEFINE x == pack(a, port, proto)
            q == a * Ports + port
<1>1. q \in Nat /\ q \div Ports = a /\ q % Ports = port
  BY Widths, DivUnique
<1>2. x = q * Protos + proto /\ x \in Nat
  <2>1. q * Protos = a * Ports * Protos + port * Protos
    BY Widths
  <2>2. a * Ports * Protos \in Nat /\ port * Protos \in Nat
    BY Widths
  <2>. QED  BY <2>1, <2>2, Widths DEF pack
<1>. HIDE DEF q, x
<1>3. x \div Protos = q /\ x % Protos = proto
  BY <1>1, <1>2, Widths, DivUnique
<1>4. x \div (Ports * Protos) = (x \div Protos) \div Ports
  BY <1>2, Widths, DivDiv
<1>5. ip(x) = a /\ Port(x) = port /\ Proto(x) = proto
  BY <1>1, <1>3, <1>4 DEF ip, Port, Proto
<1>. QED  BY <1>2, <1>5 DEF x

\* What is read is packed again.
LEMMA ReadPack ==
  ASSUME NEW p \in Nat
  PROVE  /\ ip(p) \in Nat /\ Port(p) \in 0..(Ports - 1) /\ Proto(p) \in 0..(Protos - 1)
         /\ pack(ip(p), Port(p), Proto(p)) = p
<1>. DEFINE q == p \div Protos
<1>1. p = q * Protos + Proto(p) /\ Proto(p) \in 0..(Protos - 1) /\ q \in Nat
  BY Widths, DivMod DEF Proto
<1>2. Port(p) = q % Ports
  BY DEF Port
<1>3. p \div (Ports * Protos) = q \div Ports
  BY Widths, DivDiv
<1>4. ip(p) = q \div Ports
  BY <1>3 DEF ip
<1>. HIDE DEF q
<1>5. q = ip(p) * Ports + Port(p) /\ Port(p) \in 0..(Ports - 1) /\ ip(p) \in Nat
  BY <1>1, <1>2, <1>4, Widths, DivMod
<1>6. q * Protos = ip(p) * Ports * Protos + Port(p) * Protos
  BY <1>5, Widths
<1>7. pack(ip(p), Port(p), Proto(p)) = p
  BY <1>1, <1>6 DEF pack
<1>. QED  BY <1>1, <1>5, <1>7

\* The four octets of an address make its number.
LEMMA OctetsRead ==
  ASSUME NEW p \in Nat, ip(p) < Octets * Octets * Octets * Octets
  PROVE  ((IP(p)[1] * Octets + IP(p)[2]) * Octets + IP(p)[3]) * Octets + IP(p)[4] = ip(p)
<1>. DEFINE n == ip(p)
            n1 == n \div Octets
            n2 == n1 \div Octets
            n3 == n2 \div Octets
<1>1. n \in Nat
  BY ReadPack
<1>. HIDE DEF n
<1>2. n = n1 * Octets + (n % Octets) /\ n1 \in Nat
  BY <1>1, Widths, DivMod
<1>3. n1 < Octets * Octets * Octets
  BY <1>1, Widths, DivBelow DEF n
<1>4. n \div (Octets * Octets) = n2
  BY <1>1, Widths, DivDiv
<1>5. n \div (Octets * Octets * Octets) = n1 \div (Octets * Octets)
  BY <1>1, Widths, DivDiv
<1>. HIDE DEF n1
<1>6. n1 = n2 * Octets + (n1 % Octets) /\ n2 \in Nat
  BY <1>2, Widths, DivMod
<1>7. n2 < Octets * Octets
  BY <1>2, <1>3, Widths, DivBelow
<1>8. n1 \div (Octets * Octets) = n3
  BY <1>2, Widths, DivDiv
<1>. HIDE DEF n2
<1>9. n2 = n3 * Octets + (n2 % Octets) /\ n3 \in Nat
  BY <1>6, Widths, DivMod
<1>10. n3 < Octets
  BY <1>6, <1>7, Widths, DivBelow
<1>. HIDE DEF n3
<1>11. n3 % Octets = n3
  BY <1>9, <1>10, Widths
<1>12. IP(p) = <<n3, n2 % Octets, n1 % Octets, n % Octets>>
  BY <1>4, <1>5, <1>8, <1>11 DEF IP, n, n1
<1>. QED  BY <1>2, <1>6, <1>9, <1>12 DEF n

LEMMA NumbersAreNat ==
  /\ Numbers64 \in Nat
  /\ \A p \in Numbers : p \in Nat /\ ip(p) < Octets * Octets * Octets * Octets
<1>. DEFINE m == Octets * Octets * Octets * Octets
<1>1. m \in Nat
  BY Widths
<1>2. Numbers64 = m * Ports * Protos
  BY DEF Numbers64
<1>. HIDE DEF m
<1>3. m * Ports * Protos = m * (Ports * Protos) /\ m * (Ports * Protos) \in Nat
  BY <1>1, Widths
<1>4. Numbers64 \in Nat
  BY <1>2, <1>3
<1>5. ASSUME NEW p \in Numbers PROVE p \in Nat /\ ip(p) < m
  <2>1. p \in Nat /\ p < m * (Ports * Protos)
    BY <1>2, <1>3, <1>4 DEF Numbers
  <2>2. p \div (Ports * Protos) < m
    BY <1>1, <2>1, Widths, DivBelow
  <2>. QED  BY <2>1, <2>2 DEF ip
<1>. QED  BY <1>4, <1>5 DEF m

LEMMA SchemeNumbers ==
  /\ Range(Schemes) = {"http", "https", "socks4", "socks5"}
  /\ protoMap("http") = 0 /\ protoMap("https") = 1
  /\ protoMap("socks4") = 2 /\ protoMap("socks5") = 3
<1>1. /\ DOMAIN Schemes = 1..4
      /\ Schemes[1] = "http" /\ Schemes[2] = "https"
      /\ Schemes[3] = "socks4" /\ Schemes[4] = "socks5"
  BY DEF Schemes
<1>2. Range(Schemes) = {"http", "https", "socks4", "socks5"}
  BY <1>1 DEF Range
<1>3. ASSUME NEW k \in 1..4
      PROVE  protoMap(Schemes[k]) = k - 1
  <2>1. \A i \in DOMAIN Schemes : Schemes[i] = Schemes[k] => i = k
    BY <1>1
  <2>2. (CHOOSE i \in DOMAIN Schemes : Schemes[i] = Schemes[k]) = k
    BY <1>1, <2>1
  <2>3. Schemes[k] \in Range(Schemes)
    BY <1>1 DEF Range
  <2>. QED  BY <2>2, <2>3 DEF protoMap
<1>. QED  BY <1>1, <1>2, <1>3

\* An address that was written is read as the same number.
LEMMA AddressRead ==
  ASSUME NEW p \in Numbers, NEW t
  PROVE  NewProxy(Address(p), t) = pack(ip(p), Port(p), protoMap(t))
<1>1. Address(p).v = 4 /\ Address(p).ip = IP(p) /\ Address(p).port = Port(p)
  BY DEF Address
<1>2. ((IP(p)[1] * Octets + IP(p)[2]) * Octets + IP(p)[3]) * Octets + IP(p)[4] = ip(p)
  BY NumbersAreNat, OctetsRead
<1>. QED  BY <1>1, <1>2 DEF NewProxy

LEMMA SameAddress ==
  ASSUME NEW p \in Nat, NEW proto \in 0..(Protos - 1)
  PROVE  Address(pack(ip(p), Port(p), proto)) = Address(p)
<1>. DEFINE q == pack(ip(p), Port(p), proto)
<1>1. ip(q) = ip(p) /\ Port(q) = Port(p)
  BY ReadPack, PackRead
<1>. HIDE DEF q
<1>2. IP(q) = IP(p)
  BY <1>1 DEF IP
<1>3. Address(q) = Address(p)
  BY <1>1, <1>2 DEF Address
<1>. QED  BY <1>3 DEF q

\* The input of a behavior is one of the instance's, and stays.
LEMMA InputStays == AlgorithmsSpec => [](input \in {NoInput} \cup Inputs)
<1>1. AlgorithmsInit => input \in {NoInput} \cup Inputs
  BY DEF AlgorithmsInit
<1>2. input \in {NoInput} \cup Inputs /\ [AlgorithmsNext]_<<vars, input>>
        => (input \in {NoInput} \cup Inputs)'
  BY DEF AlgorithmsNext, NoInput, Inputs
<1>. QED  BY <1>1, <1>2, PTL DEF AlgorithmsSpec

LEMMA InputKinds ==
  ASSUME input \in {NoInput} \cup Inputs
  PROVE  /\ input.of = "proxy" => input.p \in Numbers
         /\ input.of = "check" =>
              /\ input.strategy \in Strategies
              /\ input.web \in [firstPass \cup DOMAIN secondPass -> Answers]
         /\ input.of = "fetch" => input.r \in Requests /\ input.replies \in Replies
         /\ input.of = "ranges" => input.data \in Columns /\ input.n \in 1..MaxRanges
<1>1. CASE input \in Others
  BY <1>1, OthersAssumption
<1>2. CASE input \notin Others
  <2>1. \/ input = NoInput
        \/ \E p \in Numbers : input = [of |-> "proxy", p |-> p]
        \/ \E s \in Strategies, w \in [firstPass \cup DOMAIN secondPass -> Answers] :
             input = [of |-> "check", strategy |-> s, web |-> w]
        \/ \E r \in Requests, s \in Replies : input = [of |-> "fetch", r |-> r, replies |-> s]
        \/ \E d \in Columns, n \in 1..MaxRanges : input = [of |-> "ranges", data |-> d, n |-> n]
    BY <1>2 DEF Inputs
  <2>2. CASE input = NoInput
    BY <2>2 DEF NoInput
  <2>3. CASE \E p \in Numbers : input = [of |-> "proxy", p |-> p]
    BY <2>3
  <2>4. CASE \E s \in Strategies, w \in [firstPass \cup DOMAIN secondPass -> Answers] :
               input = [of |-> "check", strategy |-> s, web |-> w]
    BY <2>4
  <2>5. CASE \E r \in Requests, s \in Replies : input = [of |-> "fetch", r |-> r, replies |-> s]
    BY <2>5
  <2>6. CASE \E d \in Columns, n \in 1..MaxRanges : input = [of |-> "ranges", data |-> d, n |-> n]
    BY <2>6
  <2>. QED  BY <2>1, <2>2, <2>3, <2>4, <2>5, <2>6
<1>. QED  BY <1>1, <1>2

LEMMA EncodingHolds ==
  ASSUME input \in {NoInput} \cup Inputs
  PROVE  ProxyEncoding
<1>. SUFFICES ASSUME input.of = "proxy" PROVE ProxyEncoding
  BY DEF ProxyEncoding
<1>. DEFINE p == input.p
<1>1. p \in Numbers
  BY InputKinds
<1>. HIDE DEF p
<1>2. p \in Nat /\ ip(p) < Octets * Octets * Octets * Octets
  BY <1>1, NumbersAreNat
<1>3. ASSUME Proto(p) < Len(Schemes) PROVE NewProxyFromURL(URL(p)) = p
  <2>1. Proto(p) \in 0..3
    <3>1. Len(Schemes) = 4
      BY DEF Schemes
    <3>2. Proto(p) \in 0..(Protos - 1)
      BY <1>2, ReadPack
    <3>. QED  BY <1>3, <3>1, <3>2, Widths
  <2>2. protoMap(Schemes[Proto(p) + 1]) = Proto(p)
    BY <2>1, SchemeNumbers DEF Schemes
  <2>3. URL(p) = <<Schemes[Proto(p) + 1], Address(p)>>
    BY <1>3 DEF URL
  <2>4. NewProxyFromURL(URL(p)) = NewProxy(Address(p), Schemes[Proto(p) + 1])
    BY <2>3 DEF NewProxyFromURL
  <2>. QED  BY <1>1, <1>2, <2>2, <2>4, AddressRead, ReadPack
<1>4. /\ Proto(AsHttp(p)) = HTTP /\ Proto(AsHttps(p)) = HTTPS
      /\ Address(AsHttp(p)) = Address(p) /\ Address(AsHttps(p)) = Address(p)
  <2>1. HTTP \in 0..(Protos - 1) /\ HTTPS \in 0..(Protos - 1)
    BY Widths DEF HTTP, HTTPS
  <2>. QED  BY <1>2, <2>1, ReadPack, PackRead, SameAddress DEF AsHttp, AsHttps
<1>5. ~IsTunnel(AsHttp(p)) /\ ~IsTunnel(AsHttps(p))
  BY <1>4 DEF IsTunnel, HTTP, HTTPS
<1>6. ASSUME NEW n \in 1..7 PROVE Bucket(p, n) \in 0..(n - 1)
  <2>. DEFINE s == IF p >= Numbers64 \div 2 THEN p - Numbers64 ELSE p
              a == IF s < 0 THEN -s ELSE s
  <2>1. s \in Int
    BY <1>2, NumbersAreNat
  <2>. HIDE DEF s
  <2>2. a \in Nat
    BY <2>1
  <2>3. Bucket(p, n) = a % n
    BY DEF Bucket, s
  <2>. HIDE DEF a
  <2>. QED  BY <2>2, <2>3, DivMod
<1>. QED  BY <1>3, <1>4, <1>5, <1>6 DEF ProxyEncoding, p

\* A number of a proxy survives being written as a URL and read again, its HTTP
\* and HTTPS forms keep the address, and its shard exists, for octets, ports and
\* protocols of every width: also for the 64 bits of the code.
THEOREM EncodingIsExact == AlgorithmsSpec => []ProxyEncoding
<1>1. input \in {NoInput} \cup Inputs => ProxyEncoding
  BY EncodingHolds
<1>. QED  BY <1>1, InputStays, PTL
----------------------------------------------------------------------------
(* The check of a proxy. *)

Errors == {NoError, Permanent, Temporary}

LEMMA ErrorVerdicts ==
  /\ Verdict(NoError) = "found" /\ Verdict(Permanent) = "forget"
  /\ Verdict(Temporary) = "timeout"
  /\ pass(NoError) = NoError /\ pass(Permanent) = Permanent /\ pass(Temporary) = Temporary
<1>1. ~NoError.failed /\ ~NoError.temporary
  BY DEF NoError
<1>2. Permanent.failed /\ ~Permanent.temporary
  BY DEF Permanent
<1>3. Temporary.failed /\ Temporary.temporary
  BY DEF Temporary
<1>. QED  BY <1>1, <1>2, <1>3 DEF Verdict, pass, wrapped

\* What a page has to show.
MarkOf(valid) == IF valid = "" THEN AnyIP ELSE valid

\* A page lets a proxy pass or fails it as its reply says.
LEMMA PageChecked ==
  ASSUME NEW reply \in Answers, NEW valid
  PROVE  /\ simpleCheck(reply, valid) \in Errors
         /\ Verdict(simpleCheck(reply, valid)) = PageVerdict(reply, MarkOf(valid))
<1>1. reply.err \in Errors
  BY AnswersAssumption DEF Errors
<1>2. CASE reply.err.failed
  BY <1>1, <1>2 DEF simpleCheck, PageVerdict
<1>3. CASE ~reply.err.failed
  <2>1. simpleCheck(reply, valid) = validate(reply.marks, valid)
    BY <1>3 DEF simpleCheck
  <2>2. CASE reply.marks \cap ErrorPages # {}
    BY <1>3, <2>1, <2>2, ErrorVerdicts DEF validate, PageVerdict, Errors
  <2>3. CASE reply.marks \cap ErrorPages = {} /\ ThisIP \in reply.marks
    BY <1>3, <2>1, <2>3, ErrorVerdicts DEF validate, PageVerdict, Errors
  <2>4. CASE reply.marks \cap ErrorPages = {} /\ ThisIP \notin reply.marks
    <3>1. validate(reply.marks, valid) = IF MarkOf(valid) \notin reply.marks THEN Permanent ELSE NoError
      BY <2>4 DEF validate, MarkOf
    <3>2. PageVerdict(reply, MarkOf(valid)) = IF MarkOf(valid) \notin reply.marks THEN "forget" ELSE "found"
      BY <1>3, <2>4 DEF PageVerdict
    <3>. QED  BY <2>1, <3>1, <3>2, ErrorVerdicts DEF Errors
  <2>. QED  BY <2>2, <2>3, <2>4
<1>. QED  BY <1>2, <1>3

\* What a pass over some pages may come to.
LEMMA PassChecked ==
  ASSUME NEW web \in [firstPass \cup DOMAIN secondPass -> Answers],
         NEW pages, DOMAIN pages \subseteq firstPass \cup DOMAIN secondPass
  PROVE  /\ federatedCheck(pages, web) \subseteq Errors
         /\ {Verdict(err) : err \in federatedCheck(pages, web)}
              = {PageVerdict(web[page], MarkOf(pages[page])) : page \in DOMAIN pages}
<1>1. \A page \in DOMAIN pages :
        /\ simpleCheck(web[page], pages[page]) \in Errors
        /\ Verdict(simpleCheck(web[page], pages[page]))
             = PageVerdict(web[page], MarkOf(pages[page]))
  BY PageChecked
<1>. QED  BY <1>1, Zenon DEF federatedCheck

LEMMA ChecksHold ==
  ASSUME input \in {NoInput} \cup Inputs
  PROVE  ChecksKeepVerdict
<1>. SUFFICES ASSUME input.of = "check", input.strategy # "headers" PROVE ChecksKeepVerdict
  BY DEF ChecksKeepVerdict
<1>. DEFINE web == input.web
            s == input.strategy
            first == [page \in firstPass |-> ""]
            one == {PageVerdict(web[page], AnyIP) : page \in firstPass}
            two == {PageVerdict(web[page], secondPass[page]) : page \in DOMAIN secondPass}
            E1 == federatedCheck(first, web)
            E2 == federatedCheck(secondPass, web)
<1>1. s \in Strategies /\ web \in [firstPass \cup DOMAIN secondPass -> Answers]
  BY InputKinds
<1>. HIDE DEF web, s
<1>2. E1 \subseteq Errors /\ {Verdict(err) : err \in E1} = one
  <2>1. DOMAIN first = firstPass /\ \A page \in firstPass : MarkOf(first[page]) = AnyIP
    BY DEF MarkOf
  <2>. HIDE DEF first
  <2>2. /\ E1 \subseteq Errors
        /\ {Verdict(err) : err \in E1}
             = {PageVerdict(web[page], MarkOf(first[page])) : page \in DOMAIN first}
    BY <1>1, <2>1, PassChecked
  <2>3. {PageVerdict(web[page], MarkOf(first[page])) : page \in DOMAIN first} = one
    BY <2>1
  <2>. QED  BY <2>2, <2>3
<1>3. E2 \subseteq Errors /\ {Verdict(err) : err \in E2} = two
  <2>1. \A page \in DOMAIN secondPass : MarkOf(secondPass[page]) = secondPass[page]
    BY CheckerAssumption DEF MarkOf
  <2>2. /\ E2 \subseteq Errors
        /\ {Verdict(err) : err \in E2}
             = {PageVerdict(web[page], MarkOf(secondPass[page])) : page \in DOMAIN secondPass}
    BY <1>1, PassChecked
  <2>3. {PageVerdict(web[page], MarkOf(secondPass[page])) : page \in DOMAIN secondPass} = two
    BY <2>1
  <2>. QED  BY <2>2, <2>3
<1>. HIDE DEF E1, E2, one, two
<1>4. ASSUME NEW err \in Errors
      PROVE  /\ Verdict(pass(err)) = Verdict(err)
             /\ Verdict(err) = "found" <=> err = NoError
  BY ErrorVerdicts DEF Errors
<1>5. \A sites : newFederated(sites) = first
  BY DEF newFederated
<1>6. Configure("1.2.3.4", s) = IF s \in {"simple", "headers", "twopass"} THEN s ELSE "none"
  BY DEF Configure
<1>. DEFINE outcomes == {Verdict(err) : err \in Check(Configure("1.2.3.4", s), web)}
<1>7. CASE s = "simple"
  <2>1. Check(Configure("1.2.3.4", s), web) = E1
    BY <1>5, <1>6, <1>7 DEF Check, E1
  <2>2. outcomes = one
    BY <1>2, <2>1
  <2>. QED  BY <1>7, <2>2 DEF ChecksKeepVerdict, one, two, s, web
<1>8. CASE s = "twopass"
  <2>. DEFINE left == (E1 \ {NoError}) \cup (IF NoError \in E1 THEN E2 ELSE {})
  <2>1. Check(Configure("1.2.3.4", s), web) = {pass(err) : err \in left}
    BY <1>5, <1>6, <1>8 DEF Check, E1, E2, twoPassCheck
  <2>2. left \subseteq Errors
    BY <1>2, <1>3
  <2>3. NoError \in E1 <=> "found" \in one
    BY <1>2, <1>4
  <2>4. {Verdict(err) : err \in E1 \ {NoError}} = one \ {"found"}
    BY <1>2, <1>4
  <2>5. {Verdict(err) : err \in left}
          = IF "found" \in one THEN (one \ {"found"}) \cup two ELSE one
    BY <1>3, <2>3, <2>4
  <2>6. outcomes = {Verdict(err) : err \in left}
    <3>. HIDE DEF left
    <3>1. outcomes = {Verdict(pass(err)) : err \in left}
      BY <2>1
    <3>. QED  BY <1>4, <2>2, <3>1
  <2>. HIDE DEF left
  <2>7. outcomes = IF "found" \in one THEN (one \ {"found"}) \cup two ELSE one
    BY <2>5, <2>6
  <2>. HIDE DEF outcomes
  <2>. QED  BY <1>8, <2>7 DEF ChecksKeepVerdict, outcomes, one, two, s, web
<1>9. CASE s = "none"
  <2>1. Check(Configure("1.2.3.4", s), web) = {Permanent}
    BY <1>6, <1>9 DEF Check
  <2>2. outcomes = {"forget"}
    BY <2>1, ErrorVerdicts
  <2>. QED  BY <1>9, <2>2 DEF ChecksKeepVerdict, s, web
<1>. QED  BY <1>1, <1>7, <1>8, <1>9 DEF Strategies, s

\* Whatever pages the checker asks and whatever they answer, the worker of the
\* probe learns from "simple" and "twopass" exactly what the pages say of the proxy: no pass
\* hides that a failure was temporary, and none turns a failure into a success.
THEOREM VerdictIsKept == AlgorithmsSpec => []ChecksKeepVerdict
<1>1. input \in {NoInput} \cup Inputs => ChecksKeepVerdict
  BY ChecksHold
<1>. QED  BY <1>1, InputStays, PTL
----------------------------------------------------------------------------
(* Fetching a page: what a reply comes to, and whom it blames. *)

\* The proxy is the first text of an error, also after another was added.
LEMMA FirstText ==
  ASSUME NEW x, NEW y, NEW z
  PROVE  /\ <<x>> # <<>> /\ <<x, y>> # <<>>
         /\ Head(<<x>>) = x /\ Head(<<x, y>>) = x
         /\ <<>> \o <<z>> = <<z>>
         /\ <<x>> \o <<z>> # <<>> /\ Head(<<x>> \o <<z>>) = x
         /\ <<x, y>> \o <<z>> # <<>> /\ Head(<<x, y>> \o <<z>>) = x
  OBVIOUS

\* The outcomes of a reply: an error of the client, one that names the proxy
\* first, one that is not to be tried again, a body that cannot be read, a page.
Outcome(err, res) ==
  \/ res.err /\ err = plainErr("round trip")
  \/ /\ ~res.err
     /\ \E msg \in {"nil body", "found blocker", "error status", "invalid response"} : \E y :
          err = newErr(msg, <<res.through, y>>)
  \/ ~res.err /\ err = newErr("empty body", <<res.through>>)
  \/ ~res.err /\ err = skipError("skip status", <<>>)
  \/ ~res.err /\ err = plainErr("read")
  \/ /\ ~res.err /\ err = NoErr
     /\ ~res.unread /\ res.status < 400 /\ res.body \cap blockers = {}

LEMMA Responses ==
  ASSUME NEW r, NEW res, res.err \in BOOLEAN, res.status \in Nat
  PROVE  Outcome(response(r, res), res)
<1>. USE DEF Outcome
<1>1. CASE res.err
  BY <1>1 DEF response
<1>2. CASE ~res.err /\ res.body = NilBody
  BY <1>2 DEF response
<1>3. CASE ~res.err /\ res.body # NilBody
  <2>1. CASE res.body \cap blockers # {}
    BY <1>3, <2>1 DEF response
  <2>2. CASE res.body \cap blockers = {} /\ r.SkipOnStatus > 0 /\ res.status = r.SkipOnStatus
    BY <1>3, <2>2 DEF response
  <2>3. CASE res.body \cap blockers = {} /\ ~(r.SkipOnStatus > 0 /\ res.status = r.SkipOnStatus)
    <3>. DEFINE rest ==
           IF res.body = EmptyBody /\ ~r.EmptyBodyValid THEN newErr("empty body", <<res.through>>)
           ELSE IF r.ExpectInResponse # "" /\ r.ExpectInResponse \notin res.body
             THEN newErr("invalid response", <<res.through, <<"expect">>>>)
           ELSE IF res.unread THEN plainErr("read") ELSE NoErr
    <3>1. response(r, res) = IF res.status >= 400 THEN errorStatus(res) ELSE rest
      BY <1>3, <2>3 DEF response
    <3>2. CASE res.status >= 400
      BY <1>3, <3>1, <3>2 DEF errorStatus
    <3>3. CASE ~(res.status >= 400)
      <4>1. \/ rest = newErr("empty body", <<res.through>>)
            \/ rest = newErr("invalid response", <<res.through, <<"expect">>>>)
            \/ rest = plainErr("read")
            \/ rest = NoErr /\ ~res.unread
        OBVIOUS
      <4>2. res.status < 400
        BY <3>3
      <4>. HIDE DEF rest
      <4>. QED  BY <1>3, <2>3, <3>1, <3>3, <4>1, <4>2
    <3>. QED  BY <3>2, <3>3
  <2>. QED  BY <2>1, <2>2, <2>3
<1>. QED  BY <1>1, <1>2, <1>3

\* The client is asked again while the pool is exhausted, three times at most.
LEMMA AskedAgain ==
  ASSUME NEW replies \in Replies
  PROVE  /\ attempts(replies) \in 1..3
         /\ attempts(replies) =
              IF replies[1].status # PoolExhausted THEN 1
              ELSE IF replies[2].status # PoolExhausted THEN 2 ELSE 3
<1>. DEFINE S == {MaxAttempts} \cup {i \in DOMAIN replies : replies[i].status # PoolExhausted}
            n == IF replies[1].status # PoolExhausted THEN 1
                 ELSE IF replies[2].status # PoolExhausted THEN 2 ELSE 3
<1>1. DOMAIN replies = 1..3 /\ MaxAttempts = 3
  BY RepliesAssumption DEF MaxAttempts
<1>2. n \in S /\ n \in 1..3
  BY <1>1
<1>3. S \subseteq 1..3
  BY <1>1
<1>4. \A i \in S : n <= i
  BY <1>1
<1>. HIDE DEF n, S
<1>5. \A m \in S : (\A i \in S : m <= i) => m = n
  BY <1>2, <1>3, <1>4
<1>6. (CHOOSE m \in S : \A i \in S : m <= i) = n
  BY <1>2, <1>4, <1>5
<1>. QED  BY <1>2, <1>6 DEF attempts, Min, S, n

\* What FetchBlamesProxy says of an error and of the reply it is made of.
Blames(err, final) ==
  /\ blamed(err) = IF err # NoErr /\ ~err.skip /\ err.msg # "read"
                     THEN IF final.err THEN 0 ELSE NewProxyFromURL(final.through)
                     ELSE 0
  /\ blamed(wrapError(err, <<<<"https", Malformed>>>>)) = blamed(err)

LEMMA PageNamesNobody == NewProxyFromURL(<<"https", Malformed>>) = 0
  BY DEF NewProxyFromURL, NewProxy, Malformed

\* An error that is no sourceError blames nobody, also when it becomes one.
LEMMA PlainBlames ==
  ASSUME NEW final, NEW msg, final.err \/ msg \in {"read", ""}
  PROVE  Blames(plainErr(msg), final)
<1>. DEFINE url == <<"https", Malformed>>
            err == plainErr(msg)
            more == wrapError(err, <<url>>)
<1>1. err.strs = <<>> /\ ~err.source /\ err.msg = msg /\ (msg = "" => err = NoErr)
  BY DEF plainErr, newErr, NoErr
<1>2. more = newErr(msg, <<url>>)
  BY <1>1 DEF wrapError
<1>. HIDE DEF url, err, more
<1>3. more.strs = <<url>>
  BY <1>2 DEF newErr
<1>4. blamed(err) = 0 /\ blamed(more) = 0
  BY <1>1, <1>3, FirstText, PageNamesNobody DEF blamed, url
<1>5. Blames(err, final)
  BY <1>1, <1>4 DEF Blames, more, url
<1>. QED  BY <1>5 DEF err

\* A sourceError with its proxy in front blames it, also with more behind it.
LEMMA ProxyBlames ==
  ASSUME NEW final, ~final.err, NEW msg, msg # "read", NEW y, NEW strs,
         strs = <<final.through>> \/ strs = <<final.through, y>>
  PROVE  Blames(newErr(msg, strs), final)
<1>. DEFINE url == <<"https", Malformed>>
            err == newErr(msg, strs)
            more == wrapError(err, <<url>>)
<1>1. err.strs = strs /\ err.source /\ ~err.skip /\ err.msg = msg /\ err # NoErr
  BY DEF plainErr, newErr, NoErr
<1>2. more = [err EXCEPT !.strs = strs \o <<url>>]
  BY <1>1 DEF wrapError
<1>3. more.strs = strs \o <<url>>
  BY <1>2 DEF newErr
<1>. HIDE DEF url, err, more
<1>4. /\ strs # <<>> /\ Head(strs) = final.through
      /\ strs \o <<url>> # <<>> /\ Head(strs \o <<url>>) = final.through
  BY FirstText
<1>5. blamed(err) = NewProxyFromURL(final.through) /\ blamed(more) = blamed(err)
  BY <1>1, <1>3, <1>4 DEF blamed
<1>6. Blames(err, final)
  BY <1>1, <1>5 DEF Blames, more, url
<1>. QED  BY <1>6 DEF err

\* An error that is not tried again blames nobody.
LEMMA SkipBlames ==
  ASSUME NEW final, ~final.err, NEW msg, msg # "read", NEW strs,
         strs = <<>> \/ strs = <<<<"https", Malformed>>>>
  PROVE  Blames(skipError(msg, strs), final)
<1>. DEFINE url == <<"https", Malformed>>
            err == skipError(msg, strs)
            more == wrapError(err, <<url>>)
<1>1. err.strs = strs /\ err.source /\ err.skip /\ err.msg = msg
  BY DEF skipError, newErr
<1>2. err # NoErr
  <2>1. ~NoErr.source
    BY DEF NoErr, plainErr, newErr
  <2>. QED  BY <1>1, <2>1
<1>3. more.strs = strs \o <<url>>
  <2>1. more = [err EXCEPT !.strs = err.strs \o <<url>>]
    BY <1>1 DEF wrapError
  <2>2. "strs" \in DOMAIN err
    BY DEF skipError, newErr
  <2>. QED  BY <1>1, <2>1, <2>2
<1>4. (strs = <<>> \/ Head(strs) = url) /\ strs \o <<url>> # <<>> /\ Head(strs \o <<url>>) = url
  BY FirstText DEF url
<1>. HIDE DEF err, more
<1>5. blamed(err) = 0 /\ blamed(more) = 0
  BY <1>1, <1>3, <1>4, PageNamesNobody DEF blamed
<1>6. Blames(err, final)
  BY <1>1, <1>2, <1>5 DEF Blames, more
<1>. QED  BY <1>6 DEF err

\* A proxy that a page lists has an address of the page, and the protocol of
\* its source.
LEMMA ListedProxies ==
  ASSUME NEW p \in Range(extractProxies(Addresses, "socks5")), p # 0
  PROVE  Address(p) \in Range(Addresses) /\ IsTunnel(p)
<1>1. PICK i \in DOMAIN Addresses : p = NewProxy(Addresses[i], "socks5")
  BY DEF extractProxies, Range
<1>2. NewProxy(Malformed, "socks5") = 0
  BY DEF NewProxy, Malformed
<1>3. PICK q \in Numbers : Addresses[i] = Address(q)
  BY <1>1, <1>2, AddressesAssumption
<1>4. p = pack(ip(q), Port(q), 3)
  BY <1>1, <1>3, AddressRead, SchemeNumbers
<1>5. q \in Nat /\ 3 \in 0..(Protos - 1)
  BY NumbersAreNat, Widths
<1>6. Address(p) = Address(q)
  BY <1>4, <1>5, SameAddress
<1>7. Proto(p) = 3
  BY <1>4, <1>5, ReadPack, PackRead
<1>. QED  BY <1>3, <1>6, <1>7 DEF IsTunnel, Range

LEMMA FetchHolds ==
  ASSUME input \in {NoInput} \cup Inputs
  PROVE  FetchBlamesProxy
<1>. SUFFICES ASSUME input.of = "fetch" PROVE FetchBlamesProxy
  BY DEF FetchBlamesProxy
<1>. DEFINE r == input.r
            replies == input.replies
            n == attempts(replies)
            final == replies[n]
            done == Do(r, replies)
            err == newTablePage(r, replies)
            url == <<"https", Malformed>>
<1>1. replies \in Replies
  BY InputKinds
<1>. HIDE DEF r, replies
<1>2. /\ n \in 1..3
      /\ n = IF ~(replies[1].status = PoolExhausted) THEN 1
             ELSE IF ~(replies[2].status = PoolExhausted) THEN 2 ELSE 3
  BY <1>1, AskedAgain
<1>. HIDE DEF n
<1>3. final.err \in BOOLEAN /\ final.status \in Nat
  BY <1>1, <1>2, RepliesAssumption DEF MaxAttempts
<1>4. done = response(r, final)
  BY DEF Do, n
<1>5. err = IF done # NoErr THEN done
            ELSE IF "table" \notin final.body
              THEN skipError("no tables found", <<url>>) ELSE NoErr
  BY DEF newTablePage, n
<1>6. NewProxyFromURL(url) = 0
  BY DEF NewProxyFromURL, NewProxy, Malformed
<1>. HIDE DEF final, done, err, url
\* The five outcomes of the page.
<1>7. \/ final.err /\ err = plainErr("round trip")
      \/ /\ ~final.err
         /\ \E msg \in {"nil body", "found blocker", "error status", "invalid response"} : \E y :
              err = newErr(msg, <<final.through, y>>)
      \/ ~final.err /\ err = newErr("empty body", <<final.through>>)
      \/ ~final.err /\ err = skipError("skip status", <<>>)
      \/ ~final.err /\ err = skipError("no tables found", <<url>>)
      \/ ~final.err /\ err = plainErr("read")
      \/ /\ ~final.err /\ err = NoErr /\ ~final.unread /\ final.status < 400
         /\ "table" \in final.body /\ final.body \cap blockers = {}
  <2>1. /\ plainErr("round trip") # NoErr /\ plainErr("read") # NoErr
        /\ \A msg, strs : newErr(msg, strs) # NoErr /\ skipError(msg, strs) # NoErr
    BY DEF plainErr, newErr, skipError, NoErr
  <2>2. Outcome(done, final)
    BY <1>3, <1>4, Responses
  <2>3. CASE done # NoErr
    BY <1>5, <2>2, <2>3 DEF Outcome
  <2>4. CASE done = NoErr
    <3>1. ~final.err /\ ~final.unread /\ final.status < 400 /\ final.body \cap blockers = {}
      BY <2>1, <2>2, <2>4 DEF Outcome
    <3>. QED  BY <1>5, <2>4, <3>1
  <2>. QED  BY <2>3, <2>4
<1>8. err = NoErr => /\ ~final.err /\ final.status < 400 /\ ~final.unread
                     /\ "table" \in final.body /\ final.body \cap blockers = {}
  <2>1. /\ plainErr("round trip") # NoErr /\ plainErr("read") # NoErr
        /\ \A msg, strs : newErr(msg, strs) # NoErr /\ skipError(msg, strs) # NoErr
    BY DEF plainErr, newErr, skipError, NoErr
  <2>. QED  BY <1>7, <2>1
<1>9. Blames(err, final)
  <2>1. NoErr = plainErr("")
    BY DEF NoErr
  <2>. QED  BY <1>7, <2>1, PlainBlames, ProxyBlames, SkipBlames DEF url
<1>10. ASSUME NEW p \in Range(newRegexPage(r, replies, Addresses, "socks5").found), p # 0
       PROVE  Address(p) \in Range(Addresses) /\ IsTunnel(p)
  <2>1. \A x : x \notin Range(<<>>)
    BY DEF Range
  <2>2. newRegexPage(r, replies, Addresses, "socks5").found
          \in {<<>>, extractProxies(Addresses, "socks5")}
    BY DEF newRegexPage
  <2>. QED  BY <1>10, <2>1, <2>2, ListedProxies
<1>11. final = replies[n]
  BY DEF final
<1>. QED
  BY <1>2, <1>8, <1>9, <1>10, <1>11 DEF FetchBlamesProxy, Blames, err, url, r, replies

\* Whatever the pool answers a source: no failure and no blocked page passes for
\* a page of proxies, an exhausted pool is asked three times at most, and an
\* error blames the proxy of the last answer if and only if it is one to try
\* again and not a body that broke off, also after the source has wrapped it.
THEOREM BlameFallsOnTheLastProxy == AlgorithmsSpec => []FetchBlamesProxy
<1>1. input \in {NoInput} \cup Inputs => FetchBlamesProxy
  BY FetchHolds
<1>. QED  BY <1>1, InputStays, PTL

----------------------------------------------------------------------------
(* The ranges of a column. *)

\* A column has a least and a greatest number.
LEMMA ColumnEnds ==
  ASSUME NEW data \in Seq(Nat), data # <<>>
  PROVE  /\ Min(Range(data)) \in Nat /\ Max(Range(data)) \in Nat
         /\ \A i \in DOMAIN data : Min(Range(data)) <= data[i] /\ data[i] <= Max(Range(data))
<1>. DEFINE Ends(k) ==
              k > Len(data) \/ \E lo, hi \in 1..k : \A j \in 1..k :
                                data[lo] <= data[j] /\ data[j] <= data[hi]
            T == {m \in Nat : Ends(m + 1)}
<1>1. /\ Len(data) \in Nat /\ Len(data) >= 1 /\ DOMAIN data = 1..Len(data)
      /\ \A j \in 1..Len(data) : data[j] \in Nat
  OBVIOUS
<1>2. 0 \in T
  <2>1. Ends(1)
    BY <1>1
  <2>. QED  BY <2>1
<1>3. ASSUME NEW m \in Nat, m \in T PROVE m + 1 \in T
  <2>1. CASE m + 2 > Len(data)
    BY <2>1
  <2>2. CASE m + 2 <= Len(data)
    <3>1. PICK lo \in 1..(m + 1), hi \in 1..(m + 1) : \A j \in 1..(m + 1) :
            data[lo] <= data[j] /\ data[j] <= data[hi]
      BY <1>1, <1>3, <2>2
    <3>. DEFINE x == data[m + 2]
                lo2 == IF x < data[lo] THEN m + 2 ELSE lo
                hi2 == IF x > data[hi] THEN m + 2 ELSE hi
    <3>2. data[lo] \in Nat /\ data[hi] \in Nat /\ x \in Nat
      BY <1>1, <2>2, <3>1
    <3>3. \A j \in 1..(m + 2) : j \in 1..(m + 1) \/ j = m + 2
      OBVIOUS
    <3>4. lo2 \in 1..(m + 2) /\ hi2 \in 1..(m + 2)
      BY <3>1
    <3>5. /\ data[lo2] <= data[lo] /\ data[lo2] <= x /\ data[lo2] \in Nat
          /\ data[hi] <= data[hi2] /\ x <= data[hi2] /\ data[hi2] \in Nat
      <4>1. data[lo2] = IF x < data[lo] THEN x ELSE data[lo]
        BY Zenon
      <4>2. data[hi2] = IF x > data[hi] THEN x ELSE data[hi]
        BY Zenon
      <4>. HIDE DEF lo2, hi2, x
      <4>3. data[lo2] <= data[lo] /\ data[lo2] <= x /\ data[lo2] \in Nat
        BY <3>2, <4>1
      <4>4. data[hi] <= data[hi2] /\ x <= data[hi2] /\ data[hi2] \in Nat
        BY <3>2, <4>2
      <4>. QED  BY <4>3, <4>4
    <3>6. \A j \in 1..(m + 1) : data[j] \in Nat
      BY <1>1, <2>2
    <3>. HIDE DEF lo2, hi2
    <3>7. \A j \in 1..(m + 2) : data[lo2] <= data[j] /\ data[j] <= data[hi2]
      <4>. SUFFICES ASSUME NEW j \in 1..(m + 2)
                    PROVE  data[lo2] <= data[j] /\ data[j] <= data[hi2]
        OBVIOUS
      <4>1. CASE j = m + 2
        BY <3>5, <4>1
      <4>2. CASE j \in 1..(m + 1)
        <5>1. data[j] \in Nat /\ data[lo] <= data[j] /\ data[j] <= data[hi]
          BY <3>1, <3>6, <4>2
        <5>2. \A a, b, c \in Nat : a <= b /\ b <= c => a <= c
          OBVIOUS
        <5>. QED  BY <3>2, <3>5, <5>1, <5>2, Zenon
      <4>. QED  BY <3>3, <4>1, <4>2
    <3>8. Ends(m + 2)
      BY <3>4, <3>7
    <3>9. m + 2 = (m + 1) + 1
      OBVIOUS
    <3>. HIDE DEF Ends
    <3>. QED  BY <3>8, <3>9
  <2>. QED  BY <1>1, <2>1, <2>2
<1>4. Len(data) - 1 \in T
  <2>. HIDE DEF T
  <2>1. Nat \subseteq T
    BY <1>2, <1>3, NumbersBySteps
  <2>. QED  BY <1>1, <2>1
<1>5. PICK lo \in 1..Len(data), hi \in 1..Len(data) : \A j \in 1..Len(data) :
        data[lo] <= data[j] /\ data[j] <= data[hi]
  <2>1. Len(data) - 1 \in Nat /\ (Len(data) - 1) + 1 = Len(data) /\ ~(Len(data) > Len(data))
    BY <1>1
  <2>2. Ends(Len(data))
    <3>. HIDE DEF Ends
    <3>. QED  BY <1>4, <2>1
  <2>. QED  BY <2>1, <2>2
<1>6. Range(data) \subseteq Nat /\ data[lo] \in Range(data) /\ data[hi] \in Range(data)
      /\ \A y \in Range(data) : data[lo] <= y /\ data[hi] >= y
  BY <1>1, <1>5 DEF Range
<1>7. /\ Min(Range(data)) \in Range(data) /\ \A y \in Range(data) : Min(Range(data)) <= y
      /\ Max(Range(data)) \in Range(data) /\ \A y \in Range(data) : Max(Range(data)) >= y
  BY <1>6 DEF Min, Max
<1>8. \A i \in DOMAIN data : data[i] \in Range(data)
  BY DEF Range
<1>. QED  BY <1>6, <1>7, <1>8

\* n ranges of the size of rangeSize reach from the least to the greatest number.
LEMMA RangesReach ==
  ASSUME NEW data \in Seq(Nat), data # <<>>, NEW n \in Nat \ {0}
  PROVE  /\ rangeSize(data, n) \in Nat
         /\ Max(Range(data)) - Min(Range(data)) <= rangeSize(data, n) * n
<1>. DEFINE lo == Min(Range(data))
            hi == Max(Range(data))
            k  == (hi - lo + n - 1) \div n
<1>1. lo \in Nat /\ hi \in Nat /\ lo <= hi
  <2>1. 1 \in DOMAIN data
    OBVIOUS
  <2>2. data[1] \in Nat
    OBVIOUS
  <2>. QED  BY <2>1, <2>2, ColumnEnds
<1>2. rangeSize(data, n) = IF hi = 0 THEN (IF n = 1 THEN 1 ELSE 0) ELSE k
  BY DEF rangeSize
<1>. HIDE DEF lo, hi
<1>3. hi - lo + n - 1 \in Nat
  BY <1>1
<1>4. hi - lo + n - 1 = k * n + ((hi - lo + n - 1) % n) /\ (hi - lo + n - 1) % n \in 0..(n - 1)
      /\ k \in Nat
  BY <1>3, DivMod
<1>. HIDE DEF k
<1>5. k * n \in Nat
  BY <1>4
<1>6. hi - lo <= k * n
  BY <1>1, <1>4, <1>5
<1>7. CASE hi = 0
  <2>1. hi - lo = 0
    BY <1>1, <1>7
  <2>2. CASE n = 1
    BY <1>2, <1>7, <2>1, <2>2 DEF hi, lo
  <2>3. CASE n # 1
    BY <1>2, <1>7, <2>1, <2>3 DEF hi, lo
  <2>. QED  BY <2>2, <2>3
<1>8. CASE hi # 0
  BY <1>2, <1>4, <1>6, <1>8 DEF hi, lo
<1>. QED  BY <1>7, <1>8

\* A number of the column is in the one range that the division names.
LEMMA OneRange ==
  ASSUME NEW data \in Seq(Nat), data # <<>>, NEW n \in Nat \ {0}, NEW i \in DOMAIN data
  PROVE  Cardinality({b \in 1..n : data[i] \in Bins(data, n)[b]}) = 1
<1>. DEFINE lo == Min(Range(data))
            d  == rangeSize(data, n) + 1
            x  == data[i] - lo
            q  == x \div d
            r  == x % d
<1>1. lo \in Nat /\ data[i] \in Nat /\ x \in Nat /\ x <= Max(Range(data)) - lo
  BY ColumnEnds
<1>2. rangeSize(data, n) \in Nat /\ x <= rangeSize(data, n) * n
  BY <1>1, ColumnEnds, RangesReach
<1>3. d \in Nat \ {0} /\ rangeSize(data, n) = d - 1
  BY <1>2
<1>4. \A b \in 1..n : Bins(data, n)[b] = (lo + (b - 1) * d)..(lo + (b - 1) * d + d - 1)
  BY <1>3 DEF Bins, binStart, binEnd
<1>. HIDE DEF lo, d
<1>5. x = q * d + r /\ r \in 0..(d - 1) /\ q \in Nat
  BY <1>1, <1>3, DivMod
<1>6. x < n * d
  <2>1. (d - 1) * n = n * d - n
    BY <1>3
  <2>2. n * d \in Nat
    BY <1>3
  <2>. QED  BY <1>1, <1>2, <1>3, <2>1, <2>2
<1>7. q < n
  BY <1>1, <1>3, <1>6, DivBelow
<1>8. data[i] = lo + x
  BY <1>1
<1>. HIDE DEF q, r, x
<1>9. ASSUME NEW b \in 1..n PROVE data[i] \in Bins(data, n)[b] <=> b = q + 1
  <2>1. (b - 1) * d \in Int
    BY <1>3
  <2>2. data[i] \in Bins(data, n)[b] <=> x - (b - 1) * d \in 0..(d - 1)
    BY <1>1, <1>3, <1>4, <1>8, <2>1
  <2>3. ASSUME x - (b - 1) * d \in 0..(d - 1) PROVE b = q + 1
    <3>. DEFINE s == x - (b - 1) * d
    <3>1. x = (b - 1) * d + s /\ s \in 0..(d - 1) /\ b - 1 \in Nat
      BY <1>1, <2>1, <2>3
    <3>. HIDE DEF s
    <3>2. x \div d = b - 1
      BY <1>3, <3>1, DivUnique
    <3>. QED  BY <1>5, <3>2 DEF q
  <2>4. ASSUME b = q + 1 PROVE x - (b - 1) * d \in 0..(d - 1)
    <3>1. b - 1 = q
      BY <1>5, <2>4
    <3>2. q * d \in Int
      BY <1>3, <1>5
    <3>3. x - q * d = r
      BY <1>1, <1>5, <3>2
    <3>. QED  BY <1>5, <3>1, <3>3
  <2>. QED  BY <2>2, <2>3, <2>4
<1>10. q + 1 \in 1..n
  BY <1>5, <1>7
<1>11. {b \in 1..n : data[i] \in Bins(data, n)[b]} = {q + 1}
  BY <1>9, <1>10
<1>. QED  BY <1>11, FS_Singleton

\* The ranges of a facet take in every number of a column exactly once, for
\* columns of any length and numbers of any size.
THEOREM RangesAreExact == AlgorithmsSpec => []RangesPartition
<1>1. ASSUME input \in {NoInput} \cup Inputs PROVE RangesPartition
  <2>. SUFFICES ASSUME input.of = "ranges", NEW i \in DOMAIN input.data
                PROVE  Cardinality({b \in 1..input.n :
                                      input.data[i] \in Bins(input.data, input.n)[b]}) = 1
    BY DEF RangesPartition
  <2>1. input.data \in Columns /\ input.n \in 1..MaxRanges
    BY <1>1, InputKinds
  <2>2. input.data \in Seq(Nat) /\ input.data # <<>> /\ input.n \in Nat \ {0}
    BY <2>1, ColumnsAssumption DEF MaxRanges
  <2>. QED  BY <2>2, OneRange
<1>. QED  BY <1>1, InputStays, PTL
----------------------------------------------------------------------------
(* Filters: what the optimizer makes of a tree, and the evaluator of that. *)

\* Trees as the parser builds them: the operands of a tree are trees of the
\* set, and less deep.
AreTrees(S, depth) ==
  /\ \A n \in S : depth[n] \in Nat
  /\ \A n \in S :
       \/ \E s : n = Ident(s) \/ n = String(s) \/ n = Number(s)
       \/ n = Duration
       \/ \E l \in S : n = Not(l) /\ depth[l] < depth[n]
       \/ \E op \in Binaries, l \in S, r \in S :
            n = Node(op, l, r) /\ depth[l] < depth[n] /\ depth[r] < depth[n]

\* The walks as functions on trees.
TransformedWith(n, T) == Transformed(n, LAMBDA m : T[m])
FailingWith(n, F) == Failing(n, LAMBDA m : F[m])
EvaluatedWith(n, record, E) == Evaluated(n, record, LAMBDA m : E[m])
KindWith(n, K) == KindOf(n, LAMBDA m : K[m])
HoldsWith(n, record, K, H) == HoldsOf(n, record, LAMBDA m : K[m], LAMBDA m : H[m])
NestedWith(n, N) == NestedIn(n, LAMBDA m : N[m])

\* T, F and E are the walks of the optimizer, of IsFailure and of Filter on this
\* record, and K, H and N those of the meaning.
AreWalks(S, record, T, F, E, K, H, N) ==
  \A n \in S :
    /\ T[n] = TransformedWith(n, T)
    /\ F[T[n]] = FailingWith(T[n], F)
    /\ E[T[n]] = EvaluatedWith(T[n], record, E)
    /\ K[n] = KindWith(n, K)
    /\ H[n] = HoldsWith(n, record, K, H)
    /\ N[n] = NestedWith(n, N)
    /\ F[T[n]] \in BOOLEAN /\ N[n] \in BOOLEAN

\* A record has a truth value in every field of truth values.
IsRecord(record) ==
  \A f \in DOMAIN Accessors : Accessors[f] = "BooleanGetter" => record[f] \in BOOLEAN

Junctions == {"and", "or"}

\* What the optimizer does with a node, operator by operator.
LEMMA OptimizeLeaf ==
  ASSUME NEW s
  PROVE  /\ optimize(Ident(s)) = IF s \in DOMAIN Accessors THEN Getter(s) ELSE String(s)
         /\ optimize(String(s)) = String(s) /\ optimize(Number(s)) = Number(s)
         /\ optimize(Duration) = Duration /\ optimize(Invalid) = Invalid
         /\ s \in DOMAIN Accessors => optimize(Getter(s)) = Getter(s)
<1>1. optimize(Ident(s)) = IF s \in DOMAIN Accessors THEN Getter(s) ELSE String(s)
  BY DEF optimize, Ident, Comparisons
<1>2. /\ optimize(String(s)) = String(s) /\ optimize(Number(s)) = Number(s)
      /\ optimize(Duration) = Duration /\ optimize(Invalid) = Invalid
  BY DEF optimize, String, Number, Duration, Invalid, Comparisons
<1>3. ASSUME s \in DOMAIN Accessors PROVE optimize(Getter(s)) = Getter(s)
  BY <1>3, QueryAssumption DEF optimize, Getter, Comparisons
<1>. QED  BY <1>1, <1>2, <1>3

LEMMA OptimizeNode ==
  ASSUME NEW l, NEW r
  PROVE  /\ \A op \in Junctions : optimize(Node(op, l, r)) =
              IF IsBoolean(l) /\ IsBoolean(r) THEN Node(op, l, r) ELSE Invalid
         /\ optimize(Not(l)) = IF IsBoolean(l) THEN Not(l) ELSE Invalid
         /\ optimize(Node("contains", l, r)) =
              IF IsString(l) /\ IsString(r) THEN Node("contains", l, r) ELSE Invalid
         /\ \A op \in Comparisons : optimize(Node(op, l, r)) =
              IF IsString(l) /\ IsString(r) THEN Node(AsString[op], l, r)
              ELSE IF IsNumber(l) /\ IsNumber(r) THEN Node(AsNumber[op], l, r) ELSE Invalid
         /\ \A op \in Typed : optimize(Node(op, l, r)) = Node(op, l, r)
<1>1. ASSUME NEW op \in Junctions
      PROVE  optimize(Node(op, l, r)) =
               IF IsBoolean(l) /\ IsBoolean(r) THEN Node(op, l, r) ELSE Invalid
  BY DEF optimize, Node, Junctions, Comparisons
<1>2. optimize(Not(l)) = IF IsBoolean(l) THEN Not(l) ELSE Invalid
  BY DEF optimize, Not, Comparisons
<1>3. optimize(Node("contains", l, r)) =
        IF IsString(l) /\ IsString(r) THEN Node("contains", l, r) ELSE Invalid
  BY DEF optimize, Node, Comparisons
<1>4. ASSUME NEW op \in Comparisons
      PROVE  optimize(Node(op, l, r)) =
               IF IsString(l) /\ IsString(r) THEN Node(AsString[op], l, r)
               ELSE IF IsNumber(l) /\ IsNumber(r) THEN Node(AsNumber[op], l, r) ELSE Invalid
  <2>. DEFINE n == Node(op, l, r)
  <2>1. n.op = op /\ n.l = l /\ n.r = r
    BY DEF Node
  <2>2. \A x : [n EXCEPT !.op = x] = Node(x, l, r)
    BY DEF Node
  <2>3. [n EXCEPT !.op = AsString[@]] = Node(AsString[op], l, r)
    BY <2>1, <2>2
  <2>4. [n EXCEPT !.op = AsNumber[@]] = Node(AsNumber[op], l, r)
    BY <2>1, <2>2
  <2>5. ~(IsString(l) /\ IsNumber(l))
    BY DEF IsString, IsNumber
  <2>. HIDE DEF n
  <2>6. typed(n) = IF IsString(l) /\ IsString(r) THEN Node(AsString[op], l, r)
                   ELSE IF IsNumber(l) /\ IsNumber(r) THEN Node(AsNumber[op], l, r) ELSE Invalid
    BY <2>1, <2>3, <2>4, <2>5 DEF typed
  <2>7. optimize(n) = typed(n)
    BY <2>1 DEF optimize, Comparisons
  <2>. QED  BY <2>6, <2>7 DEF n
<1>5. ASSUME NEW op \in Typed PROVE optimize(Node(op, l, r)) = Node(op, l, r)
  BY DEF optimize, Node, Typed, AsString, AsNumber, Comparisons
<1>. QED  BY <1>1, <1>2, <1>3, <1>4, <1>5

\* What the evaluator does with a node whose operands are values.
LEMMA ComputeLeaf ==
  ASSUME NEW s, NEW record
  PROVE  /\ compute(String(s), record) = String(s)
         /\ compute(Number(s), record) = Number(s)
         /\ compute(Bool(s), record) = Bool(s)
         /\ compute(Duration, record) = Bool(FALSE)
         /\ s \in DOMAIN Accessors =>
              compute(Getter(s), record) =
                IF Accessors[s] = "StringGetter" THEN String(record[s])
                ELSE IF Accessors[s] = "NumberGetter" THEN Number(record[s]) ELSE Bool(record[s])
<1>1. /\ compute(String(s), record) = String(s) /\ compute(Number(s), record) = Number(s)
      /\ compute(Bool(s), record) = Bool(s)
  BY DEF compute, String, Number, Bool
<1>2. compute(Duration, record) = Bool(FALSE)
  BY DEF compute, Duration
<1>3. ASSUME s \in DOMAIN Accessors
      PROVE  compute(Getter(s), record) =
               IF Accessors[s] = "StringGetter" THEN String(record[s])
               ELSE IF Accessors[s] = "NumberGetter" THEN Number(record[s]) ELSE Bool(record[s])
  BY <1>3, QueryAssumption DEF compute, Getter
<1>. QED  BY <1>1, <1>2, <1>3

LEMMA ComputeBools ==
  ASSUME NEW a \in BOOLEAN, NEW b \in BOOLEAN, NEW c \in BOOLEAN, NEW record
  PROVE  /\ c = (a /\ b) => compute(Node("and", Bool(a), Bool(b)), record) = Bool(c)
         /\ c = (a \/ b) => compute(Node("or", Bool(a), Bool(b)), record) = Bool(c)
         /\ c = ~a => compute(Not(Bool(a)), record) = Bool(c)
<1>1. ASSUME c = (a /\ b) PROVE compute(Node("and", Bool(a), Bool(b)), record) = Bool(c)
  BY <1>1 DEF compute, assert, Node, Bool
<1>2. ASSUME c = (a \/ b) PROVE compute(Node("or", Bool(a), Bool(b)), record) = Bool(c)
  BY <1>2 DEF compute, assert, Node, Bool
<1>3. ASSUME c = ~a PROVE compute(Not(Bool(a)), record) = Bool(c)
  BY <1>3 DEF compute, Not, Bool
<1>. QED  BY <1>1, <1>2, <1>3

\* The operands of a node replaced, one after the other.
Replaced(n, x, y) == [n EXCEPT !.l = x, !.r = y]

LEMMA NodeExcept ==
  ASSUME NEW o, NEW l, NEW r, NEW x, NEW y
  PROVE  Replaced(Node(o, l, r), x, y) = Node(o, x, y)
<1>1. [Node(o, l, r) EXCEPT !.l = x] = Node(o, x, r)
  BY DEF Node
<1>2. [Node(o, x, r) EXCEPT !.r = y] = Node(o, x, y)
  BY DEF Node
<1>. QED  BY <1>1, <1>2, Zenon DEF Replaced

\* The walks at a node, in terms of the walks at its operands.
LEMMA NodeFields ==
  ASSUME NEW o, NEW l, NEW r
  PROVE  Node(o, l, r).op = o /\ Node(o, l, r).l = l /\ Node(o, l, r).r = r
  BY DEF Node

LEMMA ComputeContains ==
  ASSUME NEW a, NEW b, NEW c \in BOOLEAN, c <=> <<ToLower[b], ToLower[a]>> \in Within, NEW record
  PROVE  compute(Node("contains", String(a), String(b)), record) = Bool(c)
<1>. DEFINE n == Node("contains", String(a), String(b))
<1>1. n.op = "contains" /\ n.l = String(a) /\ n.r = String(b)
  BY NodeFields
<1>2. String(a).op = "string" /\ String(b).op = "string"
  BY DEF String
<1>3. String(a).s = a /\ String(b).s = b
  BY DEF String
<1>. HIDE DEF n
<1>4. compute(n, record) = assert("string", n, contains(n.l.s, n.r.s))
  BY <1>1 DEF compute
<1>5. compute(n, record) = Bool(contains(n.l.s, n.r.s))
  BY <1>1, <1>2, <1>4 DEF assert
<1>6. (contains(n.l.s, n.r.s)) = c
  BY <1>1, <1>3 DEF contains
<1>. QED  BY <1>5, <1>6, Zenon DEF n

LEMMA ComputeEqualStrings ==
  ASSUME NEW a, NEW b, NEW c \in BOOLEAN, c <=> a = b, NEW record
  PROVE  compute(Node("EqualString", String(a), String(b)), record) = Bool(c)
<1>. DEFINE n == Node("EqualString", String(a), String(b))
<1>1. n.op = "EqualString" /\ n.l = String(a) /\ n.r = String(b)
  BY NodeFields
<1>2. String(a).op = "string" /\ String(b).op = "string"
  BY DEF String
<1>3. String(a).s = a /\ String(b).s = b
  BY DEF String
<1>. HIDE DEF n
<1>4. compute(n, record) = assert("string", n, n.l.s = n.r.s)
  BY <1>1 DEF compute
<1>5. compute(n, record) = Bool(n.l.s = n.r.s)
  BY <1>1, <1>2, <1>4 DEF assert
<1>6. (n.l.s = n.r.s) = c
  BY <1>1, <1>3
<1>. QED  BY <1>5, <1>6, Zenon DEF n

LEMMA ComputeEqualNumbers ==
  ASSUME NEW a, NEW b, NEW c \in BOOLEAN, c <=> a = b, NEW record
  PROVE  compute(Node("EqualNumber", Number(a), Number(b)), record) = Bool(c)
<1>. DEFINE n == Node("EqualNumber", Number(a), Number(b))
<1>1. n.op = "EqualNumber" /\ n.l = Number(a) /\ n.r = Number(b)
  BY NodeFields
<1>2. Number(a).op = "number" /\ Number(b).op = "number"
  BY DEF Number
<1>3. Number(a).n = a /\ Number(b).n = b
  BY DEF Number
<1>. HIDE DEF n
<1>4. compute(n, record) = assert("number", n, n.l.n = n.r.n)
  BY <1>1 DEF compute
<1>5. compute(n, record) = Bool(n.l.n = n.r.n)
  BY <1>1, <1>2, <1>4 DEF assert
<1>6. (n.l.n = n.r.n) = c
  BY <1>1, <1>3
<1>. QED  BY <1>5, <1>6, Zenon DEF n

LEMMA ComputeLessStrings ==
  ASSUME NEW a, NEW b, NEW c \in BOOLEAN, c <=> Rank[a] < Rank[b], NEW record
  PROVE  compute(Node("LessThanString", String(a), String(b)), record) = Bool(c)
<1>. DEFINE n == Node("LessThanString", String(a), String(b))
<1>1. n.op = "LessThanString" /\ n.l = String(a) /\ n.r = String(b)
  BY NodeFields
<1>2. String(a).op = "string" /\ String(b).op = "string"
  BY DEF String
<1>3. String(a).s = a /\ String(b).s = b
  BY DEF String
<1>. HIDE DEF n
<1>4. compute(n, record) = assert("string", n, Rank[n.l.s] < Rank[n.r.s])
  BY <1>1 DEF compute
<1>5. compute(n, record) = Bool(Rank[n.l.s] < Rank[n.r.s])
  BY <1>1, <1>2, <1>4 DEF assert
<1>6. (Rank[n.l.s] < Rank[n.r.s]) = c
  BY <1>1, <1>3
<1>. QED  BY <1>5, <1>6, Zenon DEF n

LEMMA ComputeGreaterStrings ==
  ASSUME NEW a, NEW b, NEW c \in BOOLEAN, c <=> Rank[a] > Rank[b], NEW record
  PROVE  compute(Node("GreaterThanString", String(a), String(b)), record) = Bool(c)
<1>. DEFINE n == Node("GreaterThanString", String(a), String(b))
<1>1. n.op = "GreaterThanString" /\ n.l = String(a) /\ n.r = String(b)
  BY NodeFields
<1>2. String(a).op = "string" /\ String(b).op = "string"
  BY DEF String
<1>3. String(a).s = a /\ String(b).s = b
  BY DEF String
<1>. HIDE DEF n
<1>4. compute(n, record) = assert("string", n, Rank[n.l.s] > Rank[n.r.s])
  BY <1>1 DEF compute
<1>5. compute(n, record) = Bool(Rank[n.l.s] > Rank[n.r.s])
  BY <1>1, <1>2, <1>4 DEF assert
<1>6. (Rank[n.l.s] > Rank[n.r.s]) = c
  BY <1>1, <1>3
<1>. QED  BY <1>5, <1>6, Zenon DEF n

LEMMA ComputeLessNumbers ==
  ASSUME NEW a, NEW b, NEW c \in BOOLEAN, c <=> a < b, NEW record
  PROVE  compute(Node("LessThanNumber", Number(a), Number(b)), record) = Bool(c)
<1>. DEFINE n == Node("LessThanNumber", Number(a), Number(b))
<1>1. n.op = "LessThanNumber" /\ n.l = Number(a) /\ n.r = Number(b)
  BY NodeFields
<1>2. Number(a).op = "number" /\ Number(b).op = "number"
  BY DEF Number
<1>3. Number(a).n = a /\ Number(b).n = b
  BY DEF Number
<1>. HIDE DEF n
<1>4. compute(n, record) = assert("number", n, n.l.n < n.r.n)
  BY <1>1 DEF compute
<1>5. compute(n, record) = Bool(n.l.n < n.r.n)
  BY <1>1, <1>2, <1>4 DEF assert
<1>6. (n.l.n < n.r.n) = c
  BY <1>1, <1>3
<1>. QED  BY <1>5, <1>6, Zenon DEF n

LEMMA ComputeGreaterNumbers ==
  ASSUME NEW a, NEW b, NEW c \in BOOLEAN, c <=> a > b, NEW record
  PROVE  compute(Node("GreaterThanNumber", Number(a), Number(b)), record) = Bool(c)
<1>. DEFINE n == Node("GreaterThanNumber", Number(a), Number(b))
<1>1. n.op = "GreaterThanNumber" /\ n.l = Number(a) /\ n.r = Number(b)
  BY NodeFields
<1>2. Number(a).op = "number" /\ Number(b).op = "number"
  BY DEF Number
<1>3. Number(a).n = a /\ Number(b).n = b
  BY DEF Number
<1>. HIDE DEF n
<1>4. compute(n, record) = assert("number", n, n.l.n > n.r.n)
  BY <1>1 DEF compute
<1>5. compute(n, record) = Bool(n.l.n > n.r.n)
  BY <1>1, <1>2, <1>4 DEF assert
<1>6. (n.l.n > n.r.n) = c
  BY <1>1, <1>3
<1>. QED  BY <1>5, <1>6, Zenon DEF n

LEMMA NodeOps == \A o \in Binaries \cup Typed : o \notin {"not", "invalid"}
  BY DEF Binaries, Typed, Comparisons, AsString, AsNumber

LEMMA TransformedNode ==
  ASSUME NEW op \in Binaries, NEW l, NEW r, NEW T
  PROVE  TransformedWith(Node(op, l, r), T) = optimize(Node(op, optimize(T[l]), optimize(T[r])))
<1>. DEFINE n == Node(op, l, r)
            a == optimize(T[l])
            b == optimize(T[r])
<1>. HIDE DEF a, b
<1>1. n.op = op /\ n.l = l /\ n.r = r
  BY NodeFields
<1>2. Replaced(n, a, b) = Node(op, a, b)
  BY NodeExcept
<1>. HIDE DEF n
<1>3. TransformedWith(n, T) = optimize(Replaced(n, optimize(T[n.l]), optimize(T[n.r])))
  BY <1>1, NodeOps DEF TransformedWith, Transformed, Replaced
<1>. QED  BY <1>1, <1>2, <1>3, Zenon DEF n, a, b

LEMMA FailingNode ==
  ASSUME NEW o \in Binaries \cup Typed, NEW l, NEW r, NEW F
  PROVE  FailingWith(Node(o, l, r), F) = (F[l] \/ F[r])
<1>. DEFINE n == Node(o, l, r)
<1>1. n.op = o /\ n.l = l /\ n.r = r
  BY NodeFields
<1>. HIDE DEF n
<1>2. FailingWith(n, F) = (F[n.l] \/ F[n.r])
  BY <1>1, NodeOps DEF FailingWith, Failing
<1>. QED  BY <1>1, <1>2, Zenon DEF n

LEMMA EvaluatedNode ==
  ASSUME NEW o \in Binaries \cup Typed, NEW l, NEW r, NEW record, NEW E
  PROVE  EvaluatedWith(Node(o, l, r), record, E)
           = compute(Node(o, compute(E[l], record), compute(E[r], record)), record)
<1>. DEFINE n == Node(o, l, r)
            a == compute(E[l], record)
            b == compute(E[r], record)
<1>. HIDE DEF a, b
<1>1. n.op = o /\ n.l = l /\ n.r = r
  BY NodeFields
<1>2. Replaced(n, a, b) = Node(o, a, b)
  BY NodeExcept
<1>. HIDE DEF n
<1>3. EvaluatedWith(n, record, E)
        = compute(Replaced(n, compute(E[n.l], record), compute(E[n.r], record)), record)
  BY <1>1, NodeOps DEF EvaluatedWith, Evaluated, Replaced
<1>. QED  BY <1>1, <1>2, <1>3, Zenon DEF n, a, b

LEMMA NotFields ==
  ASSUME NEW l, NEW x
  PROVE  Not(l).op = "not" /\ Not(l).l = l /\ [Not(l) EXCEPT !.l = x] = Not(x)
  BY DEF Not

LEMMA TransformedNot ==
  ASSUME NEW l, NEW T
  PROVE  TransformedWith(Not(l), T) = optimize(Not(optimize(T[l])))
<1>. DEFINE n == Not(l)
<1>1. n.op = "not" /\ n.l = l /\ \A x : [n EXCEPT !.l = x] = Not(x)
  BY NotFields
<1>. HIDE DEF n
<1>2. TransformedWith(n, T) = optimize([n EXCEPT !.l = optimize(T[n.l])])
  BY <1>1, NodeOps DEF TransformedWith, Transformed
<1>. QED  BY <1>1, <1>2 DEF n

LEMMA FailingNot ==
  ASSUME NEW l, NEW F
  PROVE  FailingWith(Not(l), F) = F[l]
<1>. DEFINE n == Not(l)
<1>1. n.op = "not" /\ n.l = l
  BY NotFields
<1>. HIDE DEF n
<1>2. FailingWith(n, F) = F[n.l]
  BY <1>1, NodeOps DEF FailingWith, Failing
<1>. QED  BY <1>1, <1>2, Zenon DEF n

LEMMA EvaluatedNot ==
  ASSUME NEW l, NEW record, NEW E
  PROVE  EvaluatedWith(Not(l), record, E) = compute(Not(compute(E[l], record)), record)
<1>. DEFINE n == Not(l)
<1>1. n.op = "not" /\ n.l = l /\ \A x : [n EXCEPT !.l = x] = Not(x)
  BY NotFields
<1>. HIDE DEF n
<1>2. EvaluatedWith(n, record, E) = compute([n EXCEPT !.l = compute(E[n.l], record)], record)
  BY <1>1, NodeOps DEF EvaluatedWith, Evaluated
<1>. QED  BY <1>1, <1>2 DEF n

\* A walk at a leaf.
LEMMA WalkLeaf ==
  ASSUME NEW n, n.op \notin Binaries \cup Typed \cup {"not", "invalid"},
         NEW record, NEW T, NEW F, NEW E
  PROVE  /\ TransformedWith(n, T) = optimize(n)
         /\ FailingWith(n, F) = FALSE
         /\ EvaluatedWith(n, record, E) = compute(n, record)
<1>1. n.op \notin Binaries /\ n.op \notin Typed /\ n.op # "not" /\ n.op # "invalid"
  OBVIOUS
<1>2. TransformedWith(n, T) = optimize(n)
  BY <1>1 DEF TransformedWith, Transformed
<1>3. FailingWith(n, F) = FALSE
  BY <1>1 DEF FailingWith, Failing
<1>4. EvaluatedWith(n, record, E) = compute(n, record)
  BY <1>1 DEF EvaluatedWith, Evaluated
<1>. QED  BY <1>2, <1>3, <1>4

\* A filter of truth values without nested junctions.
Good(n, K, N) == K[n] = "BooleanGetter" /\ ~N[n]

\* What is shown of every tree, and used for its operands: a tree of a good
\* type stays what it means, and every other one is a failure, or a leaf that is
\* no truth value to the operator above it.
Sound(n, record, T, F, E, K, H, N) ==
  /\ optimize(T[n]) = T[n]
  /\ IsString(T[n]) <=> K[n] = "StringGetter"
  /\ IsNumber(T[n]) <=> K[n] = "NumberGetter"
  /\ K[n] = "StringGetter" =>
       ~F[T[n]] /\ ~N[n] /\ compute(E[T[n]], record) = String(value(n, record))
  /\ K[n] = "NumberGetter" =>
       ~F[T[n]] /\ ~N[n] /\ compute(E[T[n]], record) = Number(value(n, record))
  /\ Good(n, K, N) =>
       /\ ~F[T[n]] /\ H[n] \in BOOLEAN /\ compute(E[T[n]], record) = Bool(H[n])
       /\ IsBoolean(T[n]) <=> n.op \notin Junctions
  /\ ~Good(n, K, N) => F[T[n]] \/ (~IsBoolean(T[n]) /\ n.op \notin Binaries \cup {"not"})

\* The operators of leaves.
LEMMA LeafOps ==
  /\ {"ident", "string", "number", "duration", "StringGetter", "NumberGetter", "BooleanGetter"}
       \cap (Binaries \cup Typed \cup {"not", "invalid"}) = {}
  /\ \A op \in {"ident", "string", "number", "duration"} : op \notin Junctions
  /\ \A n : n.op \in {"string", "number", "duration", "StringGetter", "NumberGetter"} => ~IsBoolean(n)
<1>1. {"ident", "string", "number", "duration", "StringGetter", "NumberGetter", "BooleanGetter"}
        \cap (Binaries \cup Typed \cup {"not", "invalid"}) = {}
  BY DEF Binaries, Typed, Comparisons, AsString, AsNumber
<1>2. \A op \in {"ident", "string", "number", "duration"} : op \notin Junctions
  BY DEF Junctions
<1>3. ASSUME NEW n, n.op \in {"string", "number", "duration", "StringGetter", "NumberGetter"}
      PROVE  ~IsBoolean(n)
  BY <1>3 DEF IsBoolean, Typed, Comparisons, AsString, AsNumber
<1>. QED  BY <1>1, <1>2, <1>3

LEMMA LeavesSound ==
  ASSUME NEW S, NEW record, NEW T, NEW F, NEW E, NEW K, NEW H, NEW N,
         AreWalks(S, record, T, F, E, K, H, N), IsRecord(record), NEW n \in S, NEW s,
         n = Ident(s) \/ n = String(s) \/ n = Number(s) \/ n = Duration
  PROVE  Sound(n, record, T, F, E, K, H, N)
<1>1. /\ T[n] = TransformedWith(n, T)
      /\ F[T[n]] = FailingWith(T[n], F)
      /\ E[T[n]] = EvaluatedWith(T[n], record, E)
      /\ K[n] = KindWith(n, K)
      /\ H[n] = HoldsWith(n, record, K, H)
      /\ N[n] = NestedWith(n, N)
  BY DEF AreWalks
<1>2. n.op \in {"ident", "string", "number", "duration"}
  BY DEF Ident, String, Number, Duration
<1>3. T[n] = optimize(n)
  BY <1>1, <1>2, LeafOps, WalkLeaf
<1>4. ~N[n]
  <2>1. n.op \notin Binaries /\ n.op # "not"
    BY <1>2, LeafOps
  <2>. QED  BY <1>1, <2>1 DEF NestedWith, NestedIn
<1>5. ASSUME T[n].op \in {"string", "number", "duration",
                          "StringGetter", "NumberGetter", "BooleanGetter"}
      PROVE  ~F[T[n]] /\ E[T[n]] = compute(T[n], record)
  BY <1>1, <1>5, LeafOps, WalkLeaf
<1>6. n.op \notin Junctions /\ n.op \notin Binaries \cup {"not"}
  BY <1>2, LeafOps
<1>7. CASE n = String(s) \/ (n = Ident(s) /\ s \notin DOMAIN Accessors)
  <2>1. T[n] = String(s)
    BY <1>3, <1>7, OptimizeLeaf
  <2>2. T[n].op = "string"
    BY <2>1 DEF String
  <2>3. K[n] = "StringGetter" /\ value(n, record) = s
    BY <1>1, <1>7 DEF KindWith, KindOf, IsText, value, Ident, String
  <2>4. compute(E[T[n]], record) = String(s)
    BY <1>5, <2>1, <2>2, ComputeLeaf
  <2>5. IsString(T[n]) /\ ~IsNumber(T[n]) /\ ~IsBoolean(T[n]) /\ optimize(T[n]) = T[n]
    BY <2>1, <2>2, LeafOps, OptimizeLeaf DEF IsString, IsNumber
  <2>. QED  BY <1>4, <1>5, <1>6, <2>2, <2>3, <2>4, <2>5 DEF Sound, Good
<1>8. CASE n = Number(s)
  <2>1. T[n] = Number(s)
    BY <1>3, <1>8, OptimizeLeaf
  <2>2. T[n].op = "number"
    BY <2>1 DEF Number
  <2>3. K[n] = "NumberGetter" /\ value(n, record) = s
    BY <1>1, <1>8 DEF KindWith, KindOf, value, Number
  <2>4. compute(E[T[n]], record) = Number(s)
    BY <1>5, <2>1, <2>2, ComputeLeaf
  <2>5. ~IsString(T[n]) /\ IsNumber(T[n]) /\ ~IsBoolean(T[n]) /\ optimize(T[n]) = T[n]
    BY <2>1, <2>2, LeafOps, OptimizeLeaf DEF IsString, IsNumber
  <2>. QED  BY <1>4, <1>5, <1>6, <2>2, <2>3, <2>4, <2>5 DEF Sound, Good
<1>9. CASE n = Duration
  <2>1. T[n] = Duration
    BY <1>3, <1>9, OptimizeLeaf
  <2>2. T[n].op = "duration"
    BY <2>1 DEF Duration
  <2>3. K[n] = "none"
    BY <1>1, <1>9 DEF KindWith, KindOf, Duration
  <2>5. ~IsString(T[n]) /\ ~IsNumber(T[n]) /\ ~IsBoolean(T[n]) /\ optimize(T[n]) = T[n]
    BY <2>1, <2>2, LeafOps, OptimizeLeaf DEF IsString, IsNumber
  <2>. QED  BY <1>6, <2>3, <2>5 DEF Sound, Good
<1>10. CASE n = Ident(s) /\ s \in DOMAIN Accessors
  <2>1. T[n] = Getter(s)
    BY <1>3, <1>10, OptimizeLeaf
  <2>2. T[n].op = Accessors[s]
    BY <2>1 DEF Getter
  <2>3. K[n] = Accessors[s] /\ value(n, record) = record[s] /\ H[n] = record[s]
    <3>1. n.op = "ident" /\ n.s = s
      BY <1>10 DEF Ident
    <3>2. ~IsText(n)
      BY <1>10, <3>1 DEF IsText
    <3>. QED  BY <1>1, <3>1, <3>2 DEF KindWith, KindOf, value, HoldsWith, HoldsOf
  <2>4. Accessors[s] \in {"StringGetter", "NumberGetter", "BooleanGetter"}
    BY <1>10, QueryAssumption
  <2>5. /\ ~F[T[n]]
        /\ compute(E[T[n]], record) =
             IF Accessors[s] = "StringGetter" THEN String(record[s])
             ELSE IF Accessors[s] = "NumberGetter" THEN Number(record[s]) ELSE Bool(record[s])
    <3>1. ~F[T[n]] /\ E[T[n]] = compute(Getter(s), record)
      BY <1>5, <2>1, <2>2, <2>4
    <3>2. E[T[n]] = IF Accessors[s] = "StringGetter" THEN String(record[s])
                    ELSE IF Accessors[s] = "NumberGetter" THEN Number(record[s])
                    ELSE Bool(record[s])
      BY <1>10, <3>1, ComputeLeaf
    <3>3. \A x : /\ compute(String(x), record) = String(x)
                 /\ compute(Number(x), record) = Number(x)
                 /\ compute(Bool(x), record) = Bool(x)
      BY ComputeLeaf
    <3>. QED  BY <3>1, <3>2, <3>3
  <2>6. optimize(T[n]) = T[n]
    BY <1>10, <2>1, OptimizeLeaf
  <2>7. CASE Accessors[s] = "StringGetter"
    <3>1. IsString(T[n]) /\ ~IsNumber(T[n]) /\ ~IsBoolean(T[n])
      BY <2>2, <2>7, LeafOps DEF IsString, IsNumber
    <3>. QED  BY <1>4, <1>6, <2>3, <2>5, <2>6, <2>7, <3>1 DEF Sound, Good
  <2>8. CASE Accessors[s] = "NumberGetter"
    <3>1. ~IsString(T[n]) /\ IsNumber(T[n]) /\ ~IsBoolean(T[n])
      BY <2>2, <2>8, LeafOps DEF IsString, IsNumber
    <3>. QED  BY <1>4, <1>6, <2>3, <2>5, <2>6, <2>8, <3>1 DEF Sound, Good
  <2>9. CASE Accessors[s] = "BooleanGetter"
    <3>1. ~IsString(T[n]) /\ ~IsNumber(T[n]) /\ IsBoolean(T[n])
      BY <2>2, <2>9 DEF IsString, IsNumber, IsBoolean
    <3>2. H[n] \in BOOLEAN
      BY <1>10, <2>3, <2>9 DEF IsRecord
    <3>. QED  BY <1>4, <1>6, <2>3, <2>5, <2>6, <2>9, <3>1, <3>2 DEF Sound, Good
  <2>. QED  BY <2>4, <2>7, <2>8, <2>9
<1>. QED  BY <1>7, <1>8, <1>9, <1>10

\* An invalid expression is a failure, and no text and no number.
LEMMA InvalidFails ==
  ASSUME NEW F
  PROVE  FailingWith(Invalid, F) = TRUE /\ ~IsString(Invalid) /\ ~IsNumber(Invalid)
<1>1. Invalid.op = "invalid"
  BY DEF Invalid
<1>2. FailingWith(Invalid, F) = TRUE
  BY <1>1, NodeOps DEF FailingWith, Failing
<1>. QED  BY <1>1, <1>2 DEF IsString, IsNumber

LEMMA NotsSound ==
  ASSUME NEW S, NEW record, NEW T, NEW F, NEW E, NEW K, NEW H, NEW N,
         AreWalks(S, record, T, F, E, K, H, N), NEW n \in S, NEW l \in S,
         n = Not(l), Sound(l, record, T, F, E, K, H, N)
  PROVE  Sound(n, record, T, F, E, K, H, N)
<1>1. /\ T[n] = TransformedWith(n, T) /\ F[T[n]] = FailingWith(T[n], F)
      /\ E[T[n]] = EvaluatedWith(T[n], record, E) /\ K[n] = KindWith(n, K)
      /\ H[n] = HoldsWith(n, record, K, H) /\ N[n] = NestedWith(n, N)
      /\ N[l] \in BOOLEAN
  BY DEF AreWalks
<1>2. n.op = "not" /\ n.l = l
  BY DEF Not
<1>3. n.op \notin Binaries /\ n.op \notin Junctions
  BY <1>2 DEF Binaries, Comparisons, Junctions
<1>4. K[n] = IF K[l] = "BooleanGetter" THEN "BooleanGetter" ELSE "none"
  BY <1>1, <1>2 DEF KindWith, KindOf
<1>5. N[n] = (l.op \in Junctions \/ N[l])
  BY <1>1, <1>2, <1>3 DEF NestedWith, NestedIn, Junctions
<1>6. H[n] = ~H[l]
  BY <1>1, <1>2 DEF HoldsWith, HoldsOf
<1>7. Good(n, K, N) <=> Good(l, K, N) /\ l.op \notin Junctions
  BY <1>4, <1>5 DEF Good
<1>8. T[n] = IF IsBoolean(T[l]) THEN Not(T[l]) ELSE Invalid
  <2>1. T[n] = optimize(Not(optimize(T[l])))
    BY <1>1, TransformedNot
  <2>2. optimize(T[l]) = T[l]
    BY DEF Sound
  <2>. QED  BY <2>1, <2>2, OptimizeNode
<1>9. CASE IsBoolean(T[l])
  <2>1. T[n] = Not(T[l])
    BY <1>8, <1>9
  <2>2. F[T[n]] = F[T[l]]
    BY <1>1, <2>1, FailingNot
  <2>3. E[T[n]] = compute(Not(compute(E[T[l]], record)), record)
    BY <1>1, <2>1, EvaluatedNot
  <2>4. T[n].op = "not"
    BY <2>1 DEF Not
  <2>5. ~IsString(T[n]) /\ ~IsNumber(T[n]) /\ IsBoolean(T[n])
    BY <2>4 DEF IsString, IsNumber, IsBoolean
  <2>6. optimize(T[n]) = T[n]
    BY <1>9, <2>1, OptimizeNode
  <2>7. ASSUME Good(n, K, N)
        PROVE  ~F[T[n]] /\ H[n] \in BOOLEAN /\ compute(E[T[n]], record) = Bool(H[n])
    <3>1. ~F[T[l]] /\ H[l] \in BOOLEAN /\ compute(E[T[l]], record) = Bool(H[l])
      BY <1>7, <2>7 DEF Sound
    <3>4. H[n] \in BOOLEAN
      BY <1>6, <3>1
    <3>2. compute(Not(Bool(H[l])), record) = Bool(H[n])
      BY <1>6, <3>1, <3>4, ComputeBools
    <3>3. compute(Bool(H[n]), record) = Bool(H[n])
      BY ComputeLeaf
    <3>. QED  BY <2>2, <2>3, <3>1, <3>2, <3>3, <3>4
  <2>8. ASSUME ~Good(n, K, N) PROVE F[T[n]]
    BY <1>7, <1>9, <2>2, <2>8 DEF Sound
  <2>. QED  BY <1>3, <1>4, <2>5, <2>6, <2>7, <2>8 DEF Sound
<1>10. CASE ~IsBoolean(T[l])
  <2>1. T[n] = Invalid
    BY <1>8, <1>10
  <2>2. F[T[n]]
    BY <1>1, <2>1, InvalidFails
  <2>3. ~IsString(T[n]) /\ ~IsNumber(T[n]) /\ optimize(T[n]) = T[n]
    BY <2>1, InvalidFails, OptimizeLeaf
  <2>4. ~Good(n, K, N)
    BY <1>7, <1>10 DEF Sound
  <2>. QED  BY <1>4, <2>2, <2>3, <2>4 DEF Sound
<1>. QED  BY <1>9, <1>10

LEMMA JunctionsSound ==
  ASSUME NEW S, NEW record, NEW T, NEW F, NEW E, NEW K, NEW H, NEW N,
         AreWalks(S, record, T, F, E, K, H, N), NEW n \in S, NEW l \in S, NEW r \in S,
         NEW op \in Junctions, n = Node(op, l, r),
         Sound(l, record, T, F, E, K, H, N), Sound(r, record, T, F, E, K, H, N)
  PROVE  Sound(n, record, T, F, E, K, H, N)
<1>1. /\ T[n] = TransformedWith(n, T) /\ F[T[n]] = FailingWith(T[n], F)
      /\ E[T[n]] = EvaluatedWith(T[n], record, E) /\ K[n] = KindWith(n, K)
      /\ H[n] = HoldsWith(n, record, K, H) /\ N[n] = NestedWith(n, N)
      /\ N[l] \in BOOLEAN /\ N[r] \in BOOLEAN
      /\ F[T[l]] \in BOOLEAN /\ F[T[r]] \in BOOLEAN
  BY DEF AreWalks
<1>2. n.op = op /\ n.l = l /\ n.r = r
  BY DEF Node
<1>3. op \in Binaries /\ op \in {"and", "or"}
  BY DEF Binaries, Junctions
<1>4. K[n] = IF K[l] = "BooleanGetter" /\ K[r] = "BooleanGetter" THEN "BooleanGetter" ELSE "none"
  BY <1>1, <1>2, <1>3 DEF KindWith, KindOf
<1>5. N[n] <=> (l.op \in Junctions \/ r.op \in Junctions \/ N[l] \/ N[r])
  <2>1. N[n] = \/ n.op \in {"and", "or"} /\ {n.l.op, n.r.op} \cap {"and", "or"} # {}
               \/ N[n.l] \/ N[n.r]
    BY <1>1, <1>2, <1>3 DEF NestedWith, NestedIn
  <2>2. {l.op, r.op} \cap {"and", "or"} # {} <=> l.op \in Junctions \/ r.op \in Junctions
    BY DEF Junctions
  <2>. QED  BY <1>1, <1>2, <1>3, <2>1, <2>2
<1>6. H[n] = IF op = "and" THEN H[l] /\ H[r] ELSE H[l] \/ H[r]
  BY <1>1, <1>2, <1>3 DEF HoldsWith, HoldsOf
<1>7. Good(n, K, N) <=>
        Good(l, K, N) /\ Good(r, K, N) /\ l.op \notin Junctions /\ r.op \notin Junctions
  BY <1>4, <1>5 DEF Good
<1>8. T[n] = IF IsBoolean(T[l]) /\ IsBoolean(T[r]) THEN Node(op, T[l], T[r]) ELSE Invalid
  <2>1. T[n] = optimize(Node(op, optimize(T[l]), optimize(T[r])))
    BY <1>1, <1>3, TransformedNode
  <2>2. optimize(T[l]) = T[l] /\ optimize(T[r]) = T[r]
    BY DEF Sound
  <2>3. T[n] = optimize(Node(op, T[l], T[r]))
    BY <2>1, <2>2
  <2>. QED  BY <2>3, OptimizeNode
<1>9. CASE IsBoolean(T[l]) /\ IsBoolean(T[r])
  <2>1. T[n] = Node(op, T[l], T[r])
    BY <1>8, <1>9
  <2>2. F[T[n]] = (F[T[l]] \/ F[T[r]])
    BY <1>1, <1>3, <2>1, FailingNode
  <2>3. E[T[n]] = compute(Node(op, compute(E[T[l]], record), compute(E[T[r]], record)), record)
    BY <1>1, <1>3, <2>1, EvaluatedNode
  <2>4. T[n].op = op
    BY <2>1 DEF Node
  <2>5. ~IsString(T[n]) /\ ~IsNumber(T[n]) /\ ~IsBoolean(T[n])
    BY <1>3, <2>4 DEF IsString, IsNumber, IsBoolean, Typed, Comparisons, AsString, AsNumber
  <2>6. optimize(T[n]) = T[n]
    BY <1>9, <2>1, OptimizeNode
  <2>7. ASSUME Good(n, K, N)
        PROVE  ~F[T[n]] /\ H[n] \in BOOLEAN /\ compute(E[T[n]], record) = Bool(H[n])
    <3>1. /\ ~F[T[l]] /\ H[l] \in BOOLEAN /\ compute(E[T[l]], record) = Bool(H[l])
          /\ ~F[T[r]] /\ H[r] \in BOOLEAN /\ compute(E[T[r]], record) = Bool(H[r])
      BY <1>7, <2>7 DEF Sound
    <3>5. H[n] \in BOOLEAN
      BY <1>6, <3>1
    <3>2. E[T[n]] = compute(Node(op, Bool(H[l]), Bool(H[r])), record)
      BY <2>3, <3>1
    <3>3. E[T[n]] = Bool(H[n])
      <4>1. CASE op = "and"
        <5>1. H[n] = (H[l] /\ H[r])
          BY <1>6, <4>1
        <5>2. compute(Node("and", Bool(H[l]), Bool(H[r])), record) = Bool(H[n])
          BY <3>1, <3>5, <5>1, ComputeBools
        <5>. QED  BY <3>2, <4>1, <5>2, Zenon
      <4>2. CASE op = "or"
        <5>1. H[n] = (H[l] \/ H[r])
          BY <1>6, <4>2
        <5>2. compute(Node("or", Bool(H[l]), Bool(H[r])), record) = Bool(H[n])
          BY <3>1, <3>5, <5>1, ComputeBools
        <5>. QED  BY <3>2, <4>2, <5>2, Zenon
      <4>. QED  BY <1>3, <4>1, <4>2
    <3>4. compute(Bool(H[n]), record) = Bool(H[n])
      BY ComputeLeaf
    <3>. QED  BY <2>2, <3>1, <3>3, <3>4, <3>5
  <2>8. ASSUME ~Good(n, K, N) PROVE F[T[n]]
    <3>1. \A c \in {l, r} : IsBoolean(T[c]) /\ (F[T[c]] \/ (Good(c, K, N) /\ c.op \notin Junctions))
      BY <1>9 DEF Sound
    <3>. QED  BY <1>7, <2>2, <2>8, <3>1
  <2>. QED  BY <1>2, <1>4, <2>5, <2>6, <2>7, <2>8 DEF Sound
<1>10. CASE ~(IsBoolean(T[l]) /\ IsBoolean(T[r]))
  <2>1. T[n] = Invalid
    BY <1>8, <1>10
  <2>2. F[T[n]]
    BY <1>1, <2>1, InvalidFails
  <2>3. ~IsString(T[n]) /\ ~IsNumber(T[n]) /\ optimize(T[n]) = T[n]
    BY <2>1, InvalidFails, OptimizeLeaf
  <2>4. ~Good(n, K, N)
    BY <1>7, <1>10 DEF Sound
  <2>. QED  BY <1>4, <2>2, <2>3, <2>4 DEF Sound
<1>. QED  BY <1>9, <1>10

\* A comparison of texts or of numbers, typed and evaluated.
LEMMA ComparisonsSound ==
  ASSUME NEW S, NEW record, NEW T, NEW F, NEW E, NEW K, NEW H, NEW N,
         AreWalks(S, record, T, F, E, K, H, N), NEW n \in S, NEW l \in S, NEW r \in S,
         NEW op \in Comparisons \cup {"contains"}, n = Node(op, l, r),
         Sound(l, record, T, F, E, K, H, N), Sound(r, record, T, F, E, K, H, N)
  PROVE  Sound(n, record, T, F, E, K, H, N)
<1>1. /\ T[n] = TransformedWith(n, T) /\ F[T[n]] = FailingWith(T[n], F)
      /\ E[T[n]] = EvaluatedWith(T[n], record, E) /\ K[n] = KindWith(n, K)
      /\ H[n] = HoldsWith(n, record, K, H) /\ N[n] = NestedWith(n, N)
      /\ N[n] \in BOOLEAN /\ N[l] \in BOOLEAN /\ N[r] \in BOOLEAN
  BY DEF AreWalks
<1>2. n.op = op /\ n.l = l /\ n.r = r
  BY NodeFields
<1>3. op \in Binaries /\ op \notin Junctions /\ op \in {"equals", "less", "greater", "contains"}
  BY DEF Binaries, Junctions, Comparisons
<1>. DEFINE strings == K[l] = "StringGetter" /\ K[r] = "StringGetter"
            numbers == K[l] = "NumberGetter" /\ K[r] = "NumberGetter" /\ op # "contains"
            a == value(l, record)
            b == value(r, record)
<1>4. K[n] = IF strings \/ numbers THEN "BooleanGetter" ELSE "none"
  <2>1. K[n] = IF /\ K[l] = K[r]
                  /\ \/ K[l] = "StringGetter"
                     \/ K[l] = "NumberGetter" /\ op # "contains"
                 THEN "BooleanGetter" ELSE "none"
    BY <1>1, <1>2, <1>3 DEF KindWith, KindOf
  <2>. QED  BY <2>1
<1>5. N[n] <=> N[l] \/ N[r]
  <2>1. N[n] = \/ n.op \in {"and", "or"} /\ {n.l.op, n.r.op} \cap {"and", "or"} # {}
               \/ N[n.l] \/ N[n.r]
    BY <1>1, <1>2, <1>3 DEF NestedWith, NestedIn
  <2>. QED  BY <1>1, <1>2, <1>3, <2>1
<1>6. /\ IsString(T[l]) <=> K[l] = "StringGetter"
      /\ IsString(T[r]) <=> K[r] = "StringGetter"
      /\ IsNumber(T[l]) <=> K[l] = "NumberGetter"
      /\ IsNumber(T[r]) <=> K[r] = "NumberGetter"
  BY DEF Sound
<1>7. T[n] = IF strings THEN Node(IF op = "contains" THEN op ELSE AsString[op], T[l], T[r])
             ELSE IF numbers THEN Node(AsNumber[op], T[l], T[r]) ELSE Invalid
  <2>1. T[n] = optimize(Node(op, optimize(T[l]), optimize(T[r])))
    BY <1>1, <1>3, TransformedNode
  <2>2. optimize(T[l]) = T[l] /\ optimize(T[r]) = T[r]
    BY DEF Sound
  <2>3. T[n] = optimize(Node(op, T[l], T[r]))
    BY <2>1, <2>2
  <2>4. CASE op = "contains"
    BY <1>6, <2>3, <2>4, OptimizeNode
  <2>5. CASE op # "contains"
    BY <1>6, <2>3, <2>5, OptimizeNode
  <2>. QED  BY <2>4, <2>5
<1>12. ASSUME strings \/ numbers PROVE H[n] \in BOOLEAN
  <2>1. CASE op = "equals"
    BY <1>1, <1>2, <2>1 DEF HoldsWith, HoldsOf
  <2>2. CASE op = "contains"
    BY <1>1, <1>2, <2>2 DEF HoldsWith, HoldsOf
  <2>3. CASE op = "less"
    <3>1. H[n] = (IF K[l] = "NumberGetter" THEN a < b ELSE Rank[a] < Rank[b])
      BY <1>1, <1>2, <2>3 DEF HoldsWith, HoldsOf
    <3>2. (a < b) \in BOOLEAN /\ (Rank[a] < Rank[b]) \in BOOLEAN
      OBVIOUS
    <3>. HIDE DEF a, b
    <3>. QED  BY <3>1, <3>2
  <2>4. CASE op = "greater"
    <3>1. H[n] = (IF K[l] = "NumberGetter" THEN b < a ELSE Rank[b] < Rank[a])
      BY <1>1, <1>2, <2>4 DEF HoldsWith, HoldsOf
    <3>2. (b < a) \in BOOLEAN /\ (Rank[b] < Rank[a]) \in BOOLEAN
      OBVIOUS
    <3>. HIDE DEF a, b
    <3>. QED  BY <3>1, <3>2
  <2>. QED  BY <1>3, <2>1, <2>2, <2>3, <2>4
\* A typed comparison keeps its meaning.
<1>8. ASSUME NEW o \in Typed \cup {"contains"}, T[n] = Node(o, T[l], T[r]), strings \/ numbers,
             compute(Node(o, compute(E[T[l]], record), compute(E[T[r]], record)), record) = Bool(H[n])
      PROVE  Sound(n, record, T, F, E, K, H, N)
  <2>1. o \in Binaries \cup Typed
    BY <1>8 DEF Binaries
  <2>2. F[T[n]] = (F[T[l]] \/ F[T[r]])
    BY <1>1, <1>8, <2>1, FailingNode
  <2>3. E[T[n]] = compute(Node(o, compute(E[T[l]], record), compute(E[T[r]], record)), record)
    BY <1>1, <1>8, <2>1, EvaluatedNode
  <2>4. compute(E[T[n]], record) = Bool(H[n])
    <3>1. compute(Bool(H[n]), record) = Bool(H[n])
      BY ComputeLeaf
    <3>. QED  BY <1>8, <2>3, <3>1
  <2>5. ~F[T[l]] /\ ~F[T[r]] /\ ~N[l] /\ ~N[r]
    BY <1>8 DEF Sound
  <2>6. T[n].op = o
    BY <1>8, NodeFields
  <2>7. ~IsString(T[n]) /\ ~IsNumber(T[n]) /\ IsBoolean(T[n])
    BY <1>8, <2>6 DEF IsString, IsNumber, IsBoolean, Typed, Comparisons, AsString, AsNumber
  <2>8. optimize(T[n]) = T[n]
    <3>1. CASE o \in Typed
      BY <1>8, <3>1, OptimizeNode
    <3>2. CASE o = "contains"
      <4>1. o \notin Typed
        BY <3>2 DEF Typed, Comparisons, AsString, AsNumber
      <4>2. strings
        <5>1. \A x \in Comparisons : AsNumber[x] # "contains"
          BY DEF AsNumber, Comparisons
        <5>2. numbers => op \in Comparisons
          BY <1>3 DEF Comparisons
        <5>3. T[n].op = "contains"
          BY <2>6, <3>2
        <5>4. ASSUME ~strings PROVE FALSE
          <6>1. T[n] = Node(AsNumber[op], T[l], T[r])
            BY <1>7, <1>8, <5>4
          <6>2. T[n].op = AsNumber[op]
            BY <6>1, NodeFields
          <6>. QED  BY <1>8, <5>1, <5>2, <5>3, <5>4, <6>2
        <5>. QED  BY <5>4
      <4>3. IsString(T[l]) /\ IsString(T[r])
        BY <1>6, <4>2
      <4>. QED  BY <1>8, <3>2, <4>3, OptimizeNode
    <3>. QED  BY <1>8, <3>1, <3>2
  <2>9. Good(n, K, N)
    BY <1>4, <1>5, <1>8, <2>5 DEF Good
  <2>10. H[n] \in BOOLEAN
    BY <1>8, <1>12
  <2>. QED  BY <1>2, <1>3, <1>4, <1>8, <2>2, <2>4, <2>5, <2>7, <2>8, <2>9, <2>10 DEF Sound
<1>9. CASE strings
  <2>6. H[n] \in BOOLEAN
    BY <1>9, <1>12
  <2>. DEFINE o == IF op = "contains" THEN op ELSE AsString[op]
  <2>1. compute(E[T[l]], record) = String(a) /\ compute(E[T[r]], record) = String(b)
    BY <1>9 DEF Sound
  <2>2. o \in Typed \cup {"contains"}
    BY <1>3 DEF Typed, Comparisons
  <2>3. T[n] = Node(o, T[l], T[r])
    BY <1>7, <1>9
  <2>4. K[l] # "NumberGetter"
    BY <1>9
  <2>. HIDE DEF a, b, o
  <2>5. compute(Node(o, String(a), String(b)), record) = Bool(H[n])
    <3>1. CASE op = "contains"
      <4>1. H[n] = (<<ToLower[b], ToLower[a]>> \in Within)
        BY <1>1, <1>2, <3>1 DEF HoldsWith, HoldsOf, a, b
      <4>2. o = "contains"
        BY <3>1 DEF o
      <4>4. compute(Node("contains", String(a), String(b)), record) = Bool(H[n])
        BY <2>6, <4>1, ComputeContains
      <4>. QED  BY <4>2, <4>4
    <3>2. CASE op = "equals"
      <4>1. H[n] = (a = b)
        BY <1>1, <1>2, <3>2 DEF HoldsWith, HoldsOf, a, b
      <4>2. o = "EqualString"
        BY <3>2 DEF o, AsString
      <4>4. compute(Node("EqualString", String(a), String(b)), record) = Bool(H[n])
        <5>1. H[n] <=> a = b
          BY <2>6, <4>1
        <5>. QED  BY <2>6, <5>1, ComputeEqualStrings, Zenon
      <4>. QED  BY <4>2, <4>4
    <3>3. CASE op = "less"
      <4>1. H[n] = (Rank[a] < Rank[b])
        BY <1>1, <1>2, <2>4, <3>3 DEF HoldsWith, HoldsOf, a, b
      <4>2. o = "LessThanString"
        BY <3>3 DEF o, AsString
      <4>4. compute(Node("LessThanString", String(a), String(b)), record) = Bool(H[n])
        <5>1. H[n] <=> Rank[a] < Rank[b]
          BY <2>6, <4>1
        <5>. QED  BY <2>6, <5>1, ComputeLessStrings, Zenon
      <4>. QED  BY <4>2, <4>4
    <3>4. CASE op = "greater"
      <4>1. H[n] = (Rank[b] < Rank[a])
        BY <1>1, <1>2, <2>4, <3>4 DEF HoldsWith, HoldsOf, a, b
      <4>2. o = "GreaterThanString"
        BY <3>4 DEF o, AsString
      <4>3. (Rank[a] > Rank[b]) = (Rank[b] < Rank[a])
        OBVIOUS
      <4>4. compute(Node("GreaterThanString", String(a), String(b)), record) = Bool(H[n])
        <5>1. H[n] <=> Rank[a] > Rank[b]
          BY <2>6, <4>1, <4>3
        <5>. QED  BY <2>6, <5>1, ComputeGreaterStrings, Zenon
      <4>. QED  BY <4>2, <4>4
    <3>. QED  BY <1>3, <3>1, <3>2, <3>3, <3>4
  <2>. QED  BY <1>8, <1>9, <2>1, <2>2, <2>3, <2>5
<1>10. CASE numbers
  <2>6. H[n] \in BOOLEAN
    BY <1>10, <1>12
  <2>. DEFINE o == AsNumber[op]
  <2>1. compute(E[T[l]], record) = Number(a) /\ compute(E[T[r]], record) = Number(b)
    BY <1>10 DEF Sound
  <2>2. o \in Typed \cup {"contains"}
    BY <1>3, <1>10 DEF Typed, Comparisons
  <2>3. T[n] = Node(o, T[l], T[r])
    BY <1>7, <1>10
  <2>. HIDE DEF a, b, o
  <2>5. compute(Node(o, Number(a), Number(b)), record) = Bool(H[n])
    <3>2. CASE op = "equals"
      <4>1. H[n] = (a = b)
        BY <1>1, <1>2, <3>2 DEF HoldsWith, HoldsOf, a, b
      <4>2. o = "EqualNumber"
        BY <3>2 DEF o, AsNumber
      <4>4. compute(Node("EqualNumber", Number(a), Number(b)), record) = Bool(H[n])
        <5>1. H[n] <=> a = b
          BY <2>6, <4>1
        <5>. QED  BY <2>6, <5>1, ComputeEqualNumbers, Zenon
      <4>. QED  BY <4>2, <4>4
    <3>3. CASE op = "less"
      <4>1. H[n] = (a < b)
        BY <1>1, <1>2, <1>10, <3>3 DEF HoldsWith, HoldsOf, a, b
      <4>2. o = "LessThanNumber"
        BY <3>3 DEF o, AsNumber
      <4>4. compute(Node("LessThanNumber", Number(a), Number(b)), record) = Bool(H[n])
        <5>1. H[n] <=> a < b
          BY <2>6, <4>1
        <5>. QED  BY <2>6, <5>1, ComputeLessNumbers, Zenon
      <4>. QED  BY <4>2, <4>4
    <3>4. CASE op = "greater"
      <4>1. H[n] = (b < a)
        BY <1>1, <1>2, <1>10, <3>4 DEF HoldsWith, HoldsOf, a, b
      <4>2. o = "GreaterThanNumber"
        BY <3>4 DEF o, AsNumber
      <4>3. (a > b) = (b < a)
        OBVIOUS
      <4>4. compute(Node("GreaterThanNumber", Number(a), Number(b)), record) = Bool(H[n])
        <5>1. H[n] <=> a > b
          BY <2>6, <4>1, <4>3
        <5>. QED  BY <2>6, <5>1, ComputeGreaterNumbers, Zenon
      <4>. QED  BY <4>2, <4>4
    <3>. QED  BY <1>3, <1>10, <3>2, <3>3, <3>4
  <2>. QED  BY <1>8, <1>10, <2>1, <2>2, <2>3, <2>5
<1>11. CASE ~strings /\ ~numbers
  <2>1. T[n] = Invalid
    BY <1>7, <1>11
  <2>2. F[T[n]]
    BY <1>1, <2>1, InvalidFails
  <2>3. ~IsString(T[n]) /\ ~IsNumber(T[n]) /\ optimize(T[n]) = T[n]
    BY <2>1, InvalidFails, OptimizeLeaf
  <2>4. K[n] = "none"
    BY <1>4, <1>11
  <2>5. ~Good(n, K, N)
    BY <2>4 DEF Good
  <2>. QED  BY <2>2, <2>3, <2>4, <2>5 DEF Sound
<1>. QED  BY <1>9, <1>10, <1>11

\* By induction over the depth, every tree is sound.
LEMMA TreesSound ==
  ASSUME NEW S, NEW depth, AreTrees(S, depth),
         NEW record, NEW T, NEW F, NEW E, NEW K, NEW H, NEW N,
         AreWalks(S, record, T, F, E, K, H, N), IsRecord(record)
  PROVE  \A n \in S : Sound(n, record, T, F, E, K, H, N)
<1>. DEFINE Fine(n) == Sound(n, record, T, F, E, K, H, N)
            D == {d \in Nat : \A n \in S : depth[n] <= d => Fine(n)}
<1>1. \A n \in S : depth[n] \in Nat
  BY DEF AreTrees
<1>2. ASSUME NEW n \in S, \A m \in S : depth[m] < depth[n] => Fine(m)
      PROVE  Fine(n)
  <2>1. CASE \E s : n = Ident(s) \/ n = String(s) \/ n = Number(s) \/ n = Duration
    BY <2>1, LeavesSound
  <2>2. CASE \E l \in S : n = Not(l) /\ depth[l] < depth[n]
    BY <1>2, <2>2, NotsSound
  <2>3. CASE \E op \in Binaries, l \in S, r \in S :
               n = Node(op, l, r) /\ depth[l] < depth[n] /\ depth[r] < depth[n]
    <3>1. PICK op \in Binaries, l \in S, r \in S :
            n = Node(op, l, r) /\ depth[l] < depth[n] /\ depth[r] < depth[n]
      BY <2>3
    <3>2. Fine(l) /\ Fine(r)
      BY <1>2, <3>1
    <3>3. op \in Junctions \/ op \in Comparisons \cup {"contains"}
      BY DEF Binaries, Junctions
    <3>4. CASE op \in Junctions
      BY <3>1, <3>2, <3>4, JunctionsSound
    <3>5. CASE op \in Comparisons \cup {"contains"}
      BY <3>1, <3>2, <3>5, ComparisonsSound
    <3>. QED  BY <3>3, <3>4, <3>5
  <2>4. \/ \E s : n = Ident(s) \/ n = String(s) \/ n = Number(s) \/ n = Duration
        \/ \E l \in S : n = Not(l) /\ depth[l] < depth[n]
        \/ \E op \in Binaries, l \in S, r \in S :
             n = Node(op, l, r) /\ depth[l] < depth[n] /\ depth[r] < depth[n]
    BY DEF AreTrees
  <2>. QED  BY <2>1, <2>2, <2>3, <2>4
<1>. HIDE DEF Fine
<1>3. 0 \in D
  <2>1. \A n \in S : depth[n] <= 0 => \A m \in S : ~(depth[m] < depth[n])
    BY <1>1
  <2>. QED  BY <1>2, <2>1
<1>4. ASSUME NEW d \in Nat, d \in D PROVE d + 1 \in D
  <2>1. ASSUME NEW n \in S, depth[n] <= d + 1 PROVE Fine(n)
    <3>1. \A m \in S : depth[m] < depth[n] => depth[m] <= d
      BY <1>1, <2>1
    <3>2. \A m \in S : depth[m] < depth[n] => Fine(m)
      BY <1>4, <3>1
    <3>. QED  BY <1>2, <3>2
  <2>. QED  BY <2>1
<1>5. Nat \subseteq D
  <2>. HIDE DEF D
  <2>. QED  BY <1>3, <1>4, NumbersBySteps
<1>6. ASSUME NEW n \in S PROVE Fine(n)
  <2>1. depth[n] \in D /\ depth[n] <= depth[n]
    BY <1>1, <1>5
  <2>. QED  BY <2>1
<1>. QED  BY <1>6 DEF Fine

\* The filter of a query, whatever tree the parser has built, on any record of
\* any dataset, as Dataset.Query uses it (dataset.go:30): one of
\* truth values and without nested junctions is let through and gives on the
\* record what it means; a duration gives FALSE; every other tree but a text is
\* refused by IsFailure, or is a number or a field of another type, whose value is
\* refused.  No filter that is let through panics in a type assertion of the
\* evaluator.
THEOREM FiltersKeepMeaning ==
  ASSUME NEW S, NEW depth, AreTrees(S, depth),
         NEW record, NEW T, NEW F, NEW E, NEW K, NEW H, NEW N,
         AreWalks(S, record, T, F, E, K, H, N), IsRecord(record),
         NEW n \in S, ~IsText(n),
         NEW filter, filter = optimize(T[n])
  PROVE  /\ Good(n, K, N) => ~F[filter] /\ compute(E[filter], record) = Bool(H[n])
         /\ n = Duration => ~F[filter] /\ compute(E[filter], record) = Bool(FALSE)
         /\ ~Good(n, K, N) /\ n # Duration =>
              F[filter] \/ compute(E[filter], record).op \in {"number", "string"}
         /\ ~F[filter] => compute(E[filter], record) # Panic
<1>1. Sound(n, record, T, F, E, K, H, N)
  BY TreesSound
<1>2. filter = T[n]
  BY <1>1 DEF Sound
<1>3. ASSUME Good(n, K, N) PROVE ~F[filter] /\ compute(E[filter], record) = Bool(H[n])
  BY <1>1, <1>2, <1>3 DEF Sound
<1>4. ASSUME n = Duration PROVE ~F[filter] /\ compute(E[filter], record) = Bool(FALSE)
  <2>1. /\ T[n] = TransformedWith(n, T) /\ F[T[n]] = FailingWith(T[n], F)
        /\ E[T[n]] = EvaluatedWith(T[n], record, E)
    BY DEF AreWalks
  <2>2. n.op = "duration"
    BY <1>4 DEF Duration
  <2>3. n.op \notin Binaries \cup Typed \cup {"not", "invalid"}
    BY <2>2, LeafOps
  <2>4. T[n] = optimize(n)
    BY <2>1, <2>3, WalkLeaf
  <2>5. T[n] = n
    BY <1>4, <2>4, OptimizeLeaf
  <2>6. ~F[T[n]] /\ E[T[n]] = compute(n, record)
    BY <2>1, <2>3, <2>5, WalkLeaf
  <2>7. compute(Duration, record) = Bool(FALSE) /\ compute(Bool(FALSE), record) = Bool(FALSE)
    BY ComputeLeaf
  <2>. QED  BY <1>2, <1>4, <2>6, <2>7
<1>5. ASSUME ~Good(n, K, N), n # Duration
      PROVE  F[filter] \/ compute(E[filter], record).op \in {"number", "string"}
  <2>1. CASE n.op \in Binaries \cup {"not"}
    BY <1>1, <1>2, <1>5, <2>1 DEF Sound
  <2>2. CASE n.op \notin Binaries \cup {"not"}
    <3>1. \E s : n = Ident(s) \/ n = String(s) \/ n = Number(s)
      <4>1. \A l : Not(l).op = "not"
        BY NotFields
      <4>2. \A op \in Binaries, l \in S, r \in S : Node(op, l, r).op \in Binaries
        BY NodeFields
      <4>. QED  BY <1>5, <2>2, <4>1, <4>2 DEF AreTrees
    <3>2. PICK s : n = Ident(s) \/ n = String(s) \/ n = Number(s)
      BY <3>1
    <3>3. (n = Ident(s) /\ s \in DOMAIN Accessors) \/ n = Number(s)
      BY <3>2 DEF IsText, Ident, String
    <3>4. K[n] = KindWith(n, K) /\ N[n] = NestedWith(n, N)
      BY DEF AreWalks
    <3>5. ~N[n]
      BY <2>2, <3>4 DEF NestedWith, NestedIn
    <3>6. K[n] # "BooleanGetter"
      BY <1>5, <3>5 DEF Good
    <3>7. K[n] = IF n = Number(s) THEN "NumberGetter" ELSE Accessors[s]
      <4>1. CASE n = Number(s)
        BY <3>4, <4>1 DEF KindWith, KindOf, Number
      <4>2. CASE n # Number(s)
        <5>1. n.op = "ident" /\ n.s = s
          BY <3>3, <4>2 DEF Ident
        <5>. QED  BY <3>4, <4>2, <5>1 DEF KindWith, KindOf
      <4>. QED  BY <4>1, <4>2
    <3>8. K[n] \in {"NumberGetter", "StringGetter"}
      BY <3>3, <3>6, <3>7, QueryAssumption
    <3>9. CASE K[n] = "NumberGetter"
      <4>1. compute(E[filter], record) = Number(value(n, record))
        BY <1>1, <1>2, <3>9 DEF Sound
      <4>. QED  BY <4>1 DEF Number
    <3>10. CASE K[n] = "StringGetter"
      <4>1. compute(E[filter], record) = String(value(n, record))
        BY <1>1, <1>2, <3>10 DEF Sound
      <4>. QED  BY <4>1 DEF String
    <3>. QED  BY <3>8, <3>9, <3>10
  <2>. QED  BY <2>1, <2>2
<1>6. ASSUME ~F[filter] PROVE compute(E[filter], record) # Panic
  <2>1. \A x : Bool(x) # Panic
    BY DEF Bool, Panic
  <2>2. Panic.op = "panic"
    BY DEF Panic
  <2>. QED  BY <1>3, <1>4, <1>5, <1>6, <2>1, <2>2
<1>. QED  BY <1>3, <1>4, <1>5, <1>6

----------------------------------------------------------------------------
(* The order of the records of an answer. *)

\* What ORDER BY names, other than truth values: their comparators are no orders.
OrderedFields == {f \in Sorters : Accessors[f] # "BooleanGetter"}

IsOrderBy(sort) ==
  /\ DOMAIN sort = 1..Len(sort) /\ Len(sort) \in Nat
  /\ \A i \in DOMAIN sort : sort[i].field \in OrderedFields /\ sort[i].asc \in BOOLEAN

\* What a record is compared by: a number of its own, or the place of a text.
Key(f, record) ==
  IF Accessors[f] = "NumberGetter" THEN record[f] ELSE Rank[record[f]]

IsKeyed(record) == \A f \in OrderedFields : Key(f, record) \in Int

\* What a comparator makes of two records is what < makes of their keys, either
\* way around.
LEMMA ComparatorByKey ==
  ASSUME NEW by, by.field \in OrderedFields, by.asc \in BOOLEAN, NEW left, NEW right
  PROVE  Comparator(by, left, right) <=>
           IF by.asc THEN Key(by.field, left) < Key(by.field, right)
                     ELSE Key(by.field, right) < Key(by.field, left)
<1>. DEFINE f == by.field
<1>1. Accessors[f] = "NumberGetter" \/ Accessors[f] = "StringGetter"
  BY QueryAssumption DEF OrderedFields
<1>2. \A l, r : less(f, l, r) <=> Key(f, l) < Key(f, r)
  BY <1>1 DEF less, Key
<1>3. greater(f, left, right) <=> Key(f, right) < Key(f, left)
  BY <1>1, <1>2 DEF greater
<1>. QED  BY <1>2, <1>3 DEF Comparator

\* The comparators of ORDER BY are strict, total up to equal keys, and agree.
LEMMA ComparatorsOrder ==
  ASSUME NEW by, by.field \in OrderedFields, by.asc \in BOOLEAN,
         NEW a, NEW b, NEW c, IsKeyed(a), IsKeyed(b), IsKeyed(c)
  PROVE  /\ ~Comparator(by, a, a)
         /\ Comparator(by, a, b) => ~Comparator(by, b, a)
         /\ ~Comparator(by, b, a) /\ ~Comparator(by, c, b) => ~Comparator(by, c, a)
         /\ Comparator(by, a, b) /\ ~Comparator(by, c, b) => Comparator(by, a, c)
         /\ ~Comparator(by, b, a) /\ Comparator(by, b, c) => Comparator(by, a, c)
<1>. DEFINE f == by.field
<1>1. Key(f, a) \in Int /\ Key(f, b) \in Int /\ Key(f, c) \in Int
  BY DEF IsKeyed
<1>2. \A l \in {a, b, c}, r \in {a, b, c} :
        Comparator(by, l, r) <=>
          IF by.asc THEN Key(f, l) < Key(f, r) ELSE Key(f, r) < Key(f, l)
  BY ComparatorByKey
<1>. HIDE DEF f
<1>3. CASE by.asc
  BY <1>1, <1>2, <1>3
<1>4. CASE ~by.asc
  BY <1>1, <1>2, <1>4
<1>. QED  BY <1>3, <1>4

\* Sorters.Sort (ql/eval/sort.go) is a strict weak order, which the stable
\* sort of Dataset.Query relies on, whatever ORDER BY names except truth
\* values: no record comes before itself, coming before is transitive, and
\* so is not coming before.  Two records are told apart if and only if they
\* differ in a field that is named.
THEOREM SortIsAnOrder ==
  ASSUME NEW sort, IsOrderBy(sort),
         NEW a, NEW b, NEW c, IsKeyed(a), IsKeyed(b), IsKeyed(c)
  PROVE  /\ ~Sort(sort, a, a)
         /\ Sort(sort, a, b) /\ Sort(sort, b, c) => Sort(sort, a, c)
         /\ ~Sort(sort, a, b) /\ ~Sort(sort, b, c) => ~Sort(sort, a, c)
         /\ Sort(sort, a, b) \/ Sort(sort, b, a) <=>
              \E i \in DOMAIN sort : Key(sort[i].field, a) # Key(sort[i].field, b)
<1>. DEFINE before(i, l, r) == Comparator(sort[i], l, r)
<1>1. /\ DOMAIN sort = 1..Len(sort) /\ Len(sort) \in Nat
      /\ \A i \in DOMAIN sort : sort[i].field \in OrderedFields /\ sort[i].asc \in BOOLEAN
  BY DEF IsOrderBy
<1>2. ASSUME NEW i \in DOMAIN sort, NEW x \in {a, b, c}, NEW y \in {a, b, c}, NEW z \in {a, b, c}
      PROVE  /\ ~before(i, x, x)
             /\ before(i, x, y) => ~before(i, y, x)
             /\ ~before(i, y, x) /\ ~before(i, z, y) => ~before(i, z, x)
             /\ before(i, x, y) /\ ~before(i, z, y) => before(i, x, z)
             /\ ~before(i, y, x) /\ before(i, y, z) => before(i, x, z)
  <2>1. IsKeyed(x) /\ IsKeyed(y) /\ IsKeyed(z)
    OBVIOUS
  <2>. QED  BY <1>1, <2>1, ComparatorsOrder
<1>3. \A x \in {a, b, c}, y \in {a, b, c} :
        Sort(sort, x, y) <=> \E i \in DOMAIN sort : /\ before(i, x, y)
                                                    /\ \A j \in 1..(i - 1) : ~before(j, y, x)
  BY DEF Sort
<1>. HIDE DEF before
<1>4. ~Sort(sort, a, a)
  BY <1>2, <1>3
<1>5. ASSUME Sort(sort, a, b), Sort(sort, b, c) PROVE Sort(sort, a, c)
  <2>1. PICK i \in DOMAIN sort : before(i, a, b) /\ \A j \in 1..(i - 1) : ~before(j, b, a)
    BY <1>3, <1>5
  <2>2. PICK k \in DOMAIN sort : before(k, b, c) /\ \A j \in 1..(k - 1) : ~before(j, c, b)
    BY <1>3, <1>5
  <2>3. CASE i <= k
    <3>1. ~before(i, c, b)
      BY <1>1, <1>2, <2>1, <2>2, <2>3
    <3>2. before(i, a, c)
      BY <1>2, <2>1, <3>1
    <3>3. ASSUME NEW j \in 1..(i - 1) PROVE ~before(j, c, a)
      <4>1. j \in DOMAIN sort /\ j \in 1..(k - 1)
        BY <1>1, <2>3
      <4>. QED  BY <1>2, <2>1, <2>2, <4>1
    <3>. QED  BY <1>3, <3>2, <3>3
  <2>4. CASE k < i
    <3>1. ~before(k, b, a)
      BY <1>1, <2>1, <2>4
    <3>2. before(k, a, c)
      BY <1>2, <2>2, <3>1
    <3>3. ASSUME NEW j \in 1..(k - 1) PROVE ~before(j, c, a)
      <4>1. j \in DOMAIN sort /\ j \in 1..(i - 1)
        BY <1>1, <2>4
      <4>. QED  BY <1>2, <2>1, <2>2, <4>1
    <3>. QED  BY <1>3, <3>2, <3>3
  <2>. QED  BY <1>1, <2>3, <2>4
<1>6. ASSUME Sort(sort, a, c) PROVE Sort(sort, a, b) \/ Sort(sort, b, c)
  <2>1. PICK i \in DOMAIN sort : before(i, a, c) /\ \A j \in 1..(i - 1) : ~before(j, c, a)
    BY <1>3, <1>6
  <2>. DEFINE differs(j) == before(j, a, b) \/ before(j, b, a) \/ before(j, b, c) \/ before(j, c, b)
              D == {j \in 1..i : differs(j)}
  <2>2. D \subseteq Nat /\ D \subseteq DOMAIN sort
    BY <1>1
  <2>3. i \in D
    <3>1. before(i, a, b) \/ before(i, b, c)
      BY <1>2, <2>1
    <3>. QED  BY <1>1, <3>1
  <2>4. PICK m \in D : \A k \in D : ~(k < m)
    <3>. HIDE DEF D
    <3>. QED  BY <2>2, <2>3, LeastOf
  <2>5. \A j \in 1..(m - 1) : ~differs(j)
    BY <1>1, <2>2, <2>4
  <2>6. ~before(m, c, a)
    BY <1>1, <1>2, <2>1
  <2>7. before(m, a, b) \/ before(m, b, c)
    <3>1. differs(m) /\ m \in DOMAIN sort
      BY <2>2
    <3>. QED  BY <1>2, <2>6, <3>1
  <2>. QED  BY <1>3, <2>2, <2>5, <2>7
<1>7. ASSUME NEW i \in DOMAIN sort
      PROVE  before(i, a, b) \/ before(i, b, a) <=> Key(sort[i].field, a) # Key(sort[i].field, b)
  <2>1. Key(sort[i].field, a) \in Int /\ Key(sort[i].field, b) \in Int
    BY <1>1 DEF IsKeyed
  <2>2. \A x \in {a, b}, y \in {a, b} :
          before(i, x, y) <=> IF sort[i].asc
                                THEN Key(sort[i].field, x) < Key(sort[i].field, y)
                                ELSE Key(sort[i].field, y) < Key(sort[i].field, x)
    BY <1>1, ComparatorByKey DEF before
  <2>. QED  BY <1>1, <2>1, <2>2
<1>8. ASSUME Sort(sort, a, b) \/ Sort(sort, b, a)
      PROVE  \E i \in DOMAIN sort : Key(sort[i].field, a) # Key(sort[i].field, b)
  BY <1>3, <1>7, <1>8
<1>9. ASSUME NEW i \in DOMAIN sort, Key(sort[i].field, a) # Key(sort[i].field, b)
      PROVE  Sort(sort, a, b) \/ Sort(sort, b, a)
  <2>. DEFINE D == {j \in DOMAIN sort : before(j, a, b) \/ before(j, b, a)}
  <2>1. i \in D /\ D \subseteq Nat
    BY <1>1, <1>7, <1>9
  <2>2. PICK m \in D : \A k \in D : ~(k < m)
    <3>. HIDE DEF D
    <3>. QED  BY <2>1, LeastOf
  <2>3. \A j \in 1..(m - 1) : ~before(j, a, b) /\ ~before(j, b, a)
    BY <1>1, <2>2
  <2>. QED  BY <1>3, <2>2, <2>3
<1>. QED  BY <1>4, <1>5, <1>6, <1>8, <1>9
----------------------------------------------------------------------------
\* An algorithm's input leaves the counter alone, so that what is proved of the
\* counter holds of every behavior here.
LEMMA CounterAlone == AlgorithmsSpec => Spec
<1>1. AlgorithmsInit => Init
  BY DEF AlgorithmsInit
<1>2. [AlgorithmsNext]_<<vars, input>> => [Next]_vars
  BY DEF AlgorithmsNext, vars
<1>. QED  BY <1>1, <1>2, PTL DEF AlgorithmsSpec, Spec
=============================================================================
