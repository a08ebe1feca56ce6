---------------------------- MODULE FabricProofs ----------------------------
(***************************************************************************)
(* Theorems about Fabric and Startup, for every set of factories and every  *)
(* way of wiring them, right or wrong, and for every set of services.       *)
(***************************************************************************)
EXTENDS Fabric, FiniteSetTheorems, SequenceTheorems, TLAPS

(* The counts that the order of the factories is made with. *)

\* A listing of a finite set names every element of it once.
LEMMA Listing ==
  ASSUME NEW S, IsFiniteSet(S), NEW q \in SetToSeqs(S)
  PROVE  q \in Seq(S) /\ IsInjective(q) /\ Range(q) = S
<1>. DEFINE n == Cardinality(S)
<1>1. n \in Nat
  BY FS_CardinalityType
<1>2. q \in [1..n -> S] /\ \A i, j \in 1..n : i # j => q[i] # q[j]
  BY DEF SetToSeqs
<1>. HIDE DEF n
<1>3. q \in Injection(1..n, S) /\ IsInjective(q)
  BY <1>2 DEF Injection, IsInjective
<1>4. IsFiniteSet(1..n) /\ Cardinality(1..n) = n
  BY <1>1, FS_Interval
<1>5. q \in Surjection(1..n, S)
  BY <1>3, <1>4, FS_Injection DEF n
<1>6. Range(q) = S
  BY <1>2, <1>5 DEF Surjection, Range
<1>. QED  BY <1>1, <1>2, <1>3, <1>6, IsASeq

LEMMA WiringType ==
  ASSUME In \in Wirings, NEW k \in Factories
  PROVE  /\ In[k] \in Seq(SUBSET Factories)
         /\ IsFiniteSet(DOMAIN In[k])
         /\ \A i \in DOMAIN In[k] : In[k][i] \subseteq Factories
<1>1. In[k] \in Seq(SUBSET Factories)
  BY StartupAssumption
<1>2. DOMAIN In[k] = 1..Len(In[k]) /\ Len(In[k]) \in Nat
  BY <1>1
<1>3. \A i \in DOMAIN In[k] : In[k][i] \in SUBSET Factories
  BY <1>1
<1>4. IsFiniteSet(1..Len(In[k]))
  BY <1>2, FS_Interval
<1>. QED  BY <1>1, <1>2, <1>3, <1>4

LEMMA MatchesType ==
  ASSUME In \in Wirings, NEW k \in Factories, NEW j
  PROVE  /\ matches(k, j) \in Nat
         /\ matches(k, j) > 0 <=> \E i \in DOMAIN In[k] : j \in In[k][i]
<1>. DEFINE M == {i \in DOMAIN In[k] : j \in In[k][i]}
<1>1. IsFiniteSet(M)
  <2>1. M \in SUBSET DOMAIN In[k]
    OBVIOUS
  <2>. QED  BY <2>1, WiringType, FS_Subset
<1>2. Cardinality(M) \in Nat /\ (Cardinality(M) = 0 <=> M = {})
  BY <1>1, FS_CardinalityType, FS_EmptySet
<1>3. matches(k, j) = Cardinality(M)
  BY DEF matches
<1>4. M = {} <=> ~\E i \in DOMAIN In[k] : j \in In[k][i]
  OBVIOUS
<1>. HIDE DEF M
<1>. QED  BY <1>2, <1>3, <1>4

\* The pairs of a parameter of j and a product outside of D that matches it.
Missing(j, D) ==
  {e \in (DOMAIN In[j]) \X Factories : e[2] \in In[j][e[1]] /\ e[2] \notin D}

LEMMA MissingFinite ==
  ASSUME In \in Wirings, NEW j \in Factories, NEW D
  PROVE  /\ IsFiniteSet(Missing(j, D))
         /\ Cardinality(Missing(j, D)) \in Nat
         /\ Cardinality(Missing(j, D)) = 0 <=> Missing(j, D) = {}
<1>1. IsFiniteSet((DOMAIN In[j]) \X Factories)
  BY WiringType, FS_Product, StartupAssumption
<1>2. Missing(j, D) \in SUBSET ((DOMAIN In[j]) \X Factories)
  BY DEF Missing
<1>. QED  BY <1>1, <1>2, FS_Subset, FS_CardinalityType, FS_EmptySet

\* Nothing is missing for j when everything it depends on is in D.
LEMMA MissingNothing ==
  ASSUME In \in Wirings, NEW j \in Factories, NEW D
  PROVE  Missing(j, D) = {} <=> DependsOn(j) \subseteq D
<1>1. DependsOn(j) = {x \in Factories : \E i \in DOMAIN In[j] : x \in In[j][i]}
  BY MatchesType DEF DependsOn
<1>2. ASSUME Missing(j, D) = {}, NEW x \in Factories, NEW i \in DOMAIN In[j], x \in In[j][i]
      PROVE  x \in D
  <2>1. <<i, x>> \in (DOMAIN In[j]) \X Factories /\ <<i, x>>[1] = i /\ <<i, x>>[2] = x
    OBVIOUS
  <2>. QED  BY <1>2, <2>1 DEF Missing
<1>3. ASSUME DependsOn(j) \subseteq D, NEW e \in Missing(j, D) PROVE FALSE
  <2>1. e[1] \in DOMAIN In[j] /\ e[2] \in Factories /\ e[2] \in In[j][e[1]] /\ e[2] \notin D
    BY DEF Missing
  <2>. QED  BY <1>1, <1>3, <2>1
<1>. QED  BY <1>1, <1>2, <1>3

\* When k joins D, exactly the parameters that k matches stop being missing.
LEMMA MissingLess ==
  ASSUME In \in Wirings, NEW j \in Factories, NEW k \in Factories, NEW D, k \notin D
  PROVE  Cardinality(Missing(j, D \cup {k})) = Cardinality(Missing(j, D)) - matches(j, k)
<1>. DEFINE M == {i \in DOMAIN In[j] : k \in In[j][i]}
            N == Missing(j, D)
            E == {e \in N : e[2] = k}
            f == [i \in M |-> <<i, k>>]
<1>1. IsFiniteSet(N) /\ IsFiniteSet(M)
  <2>1. M \in SUBSET DOMAIN In[j]
    OBVIOUS
  <2>. QED  BY <2>1, WiringType, FS_Subset, MissingFinite
<1>2. f \in Bijection(M, E)
  <2>1. \A i \in M : <<i, k>> \in E
    BY DEF Missing
  <2>2. \A e \in E : e[1] \in M /\ e = <<e[1], k>>
    BY DEF Missing
  <2>. HIDE DEF M, E
  <2>3. f \in [M -> E] /\ \A a, b \in M : f[a] = f[b] => a = b
    BY <2>1
  <2>4. \A e \in E : f[e[1]] = e
    BY <2>2
  <2>. QED  BY <2>2, <2>3, <2>4 DEF Bijection, Injection, Surjection, IsInjective
<1>3. Cardinality(E) = Cardinality(M)
  <2>1. ExistsBijection(M, E)
    BY <1>2 DEF ExistsBijection
  <2>. HIDE DEF M, E
  <2>. QED  BY <1>1, <2>1, FS_Bijection
<1>4. Missing(j, D \cup {k}) = N \ E /\ N \cap E = E
  BY DEF Missing
<1>5. matches(j, k) = Cardinality(M)
  BY DEF matches
<1>. HIDE DEF M, N, E
<1>6. Cardinality(N \ E) = Cardinality(N) - Cardinality(N \cap E)
  BY <1>1, FS_Difference
<1>. QED  BY <1>3, <1>4, <1>5, <1>6 DEF N

LEMMA DegreeIs ==
  ASSUME In \in Wirings, NEW k \in Factories
  PROVE  degree(k) = Cardinality(Missing(k, {}))
<1>1. Missing(k, {}) = {e \in (DOMAIN In[k]) \X Factories : e[2] \in In[k][e[1]]}
  BY DEF Missing
<1>. QED  BY <1>1 DEF degree
----------------------------------------------------------------------------
(* Type correctness. *)

LEMMA ReleasedFinite ==
  ASSUME NEW k
  PROVE  IsFiniteSet(released(k)) /\ released(k) \subseteq Factories
<1>1. released(k) \in SUBSET Factories
  BY DEF released
<1>. QED  BY <1>1, FS_Subset, StartupAssumption

LEMMA NeedingNothing ==
  ASSUME NEW q \in SetToSeqs({k \in Factories : degree(k) = 0})
  PROVE  q \in Seq(Factories) /\ IsInjective(q)
         /\ Range(q) = {k \in Factories : degree(k) = 0}
<1>. DEFINE S == {k \in Factories : degree(k) = 0}
<1>1. S \in SUBSET Factories
  OBVIOUS
<1>2. IsFiniteSet(S)
  BY <1>1, FS_Subset, StartupAssumption
<1>. HIDE DEF S
<1>3. q \in Seq(S) /\ IsInjective(q) /\ Range(q) = S
  BY <1>2, Listing DEF S
<1>4. q \in Seq(Factories)
  BY <1>1, <1>3, SeqMonotonic
<1>. QED  BY <1>3, <1>4 DEF S

LEMMA DegreeType ==
  ASSUME In \in Wirings
  PROVE  [k \in Factories |-> degree(k)] \in [Factories -> Int]
  BY DegreeIs, MissingFinite

LEMMA StartupTypeInit == StartupInit => StartupTypeOK
<1>. SUFFICES ASSUME StartupInit PROVE StartupTypeOK
  OBVIOUS
<1>1. indegree \in [Factories -> Int]
  BY DegreeType DEF StartupInit
<1>2. queue \in Seq(Factories)
  BY NeedingNothing DEF StartupInit
<1>. QED  BY <1>1, <1>2 DEF StartupInit, StartupTypeOK, Phases

LEMMA StartupTypeRestart == StartupTypeOK /\ Starting /\ UNCHANGED In => StartupTypeOK'
<1>. SUFFICES ASSUME StartupTypeOK, Starting, UNCHANGED In PROVE StartupTypeOK'
  OBVIOUS
<1>1. indegree' \in [Factories -> Int]
  BY DegreeType DEF Starting, StartupTypeOK
<1>2. queue' \in Seq(Factories)
  BY NeedingNothing DEF Starting
<1>. QED  BY <1>1, <1>2 DEF Starting, StartupTypeOK, Phases

LEMMA LoweredType ==
  ASSUME StartupTypeOK, NEW k \in Factories, NEW j \in Factories
  PROVE  lowered(k, j) \in Int
<1>1. matches(j, k) \in Nat /\ matches(k, j) \in Nat /\ indegree[j] \in Int
  BY MatchesType DEF StartupTypeOK
<1>. QED  BY <1>1 DEF lowered

LEMMA StartupTypeStep == StartupTypeOK /\ StartupNext => StartupTypeOK'
<1>. SUFFICES ASSUME StartupTypeOK, StartupNext PROVE StartupTypeOK'
  OBVIOUS
<1>a. /\ queue \in Seq(Factories) /\ order \in Seq(Factories \cup {"monitor"})
      /\ at \in 1..(Len(order) + 1)
  BY DEF StartupTypeOK
<1>b. DOMAIN order = 1..Len(order) /\ Len(order) \in Nat
  BY <1>a
<1>1. CASE ordered
  <2>. DEFINE k == Head(queue)
  <2>1. k \in Factories /\ Tail(queue) \in Seq(Factories)
    BY <1>a, <1>1 DEF ordered
  <2>2. PICK next \in SetToSeqs(released(k)) : queue' = Tail(queue) \o next
    BY <1>1 DEF ordered
  <2>3. indegree' = [j \in Factories |-> lowered(k, j)] /\ order' = Append(order, k)
    BY <1>1 DEF ordered
  <2>. HIDE DEF k
  <2>4. next \in Seq(Factories)
    <3>1. next \in Seq(released(k))
      BY <2>2, ReleasedFinite, Listing
    <3>. QED  BY <3>1, ReleasedFinite, SeqMonotonic
  <2>5. queue' \in Seq(Factories)
    BY <2>1, <2>2, <2>4
  <2>6. indegree' \in [Factories -> Int]
    BY <2>1, <2>3, LoweredType
  <2>7. order' \in Seq(Factories \cup {"monitor"}) /\ Len(order') = Len(order) + 1
    BY <1>a, <2>1, <2>3
  <2>8. at' \in 1..(Len(order') + 1)
    BY <1>a, <1>b, <1>1, <2>7 DEF ordered
  <2>. QED  BY <1>1, <2>5, <2>6, <2>7, <2>8 DEF ordered, StartupTypeOK
<1>2. CASE orderDone \/ startDone
  BY <1>2 DEF orderDone, startDone, StartupTypeOK, Phases
<1>3. CASE resolve
  <2>1. order' \in Seq(Factories \cup {"monitor"}) /\ Len(order') = Len(order) + 1
    BY <1>a, <1>3 DEF resolve
  <2>2. at' \in 1..(Len(order') + 1)
    BY <1>a, <1>b, <1>3, <2>1 DEF resolve
  <2>3. phase' \in Phases
    BY <1>3 DEF resolve, Phases
  <2>. QED  BY <1>3, <2>1, <2>2, <2>3 DEF resolve, StartupTypeOK
<1>4. CASE configureServices \/ startAll
  <2>1. at' \in 1..(Len(order') + 1)
    BY <1>a, <1>b, <1>4 DEF configureServices, startAll
  <2>2. phase' \in Phases
    BY <1>4 DEF configureServices, startAll, Phases
  <2>. QED  BY <1>4, <2>1, <2>2 DEF configureServices, startAll, StartupTypeOK
<1>5. CASE configureDone
  <2>1. at' \in 1..(Len(order') + 1)
    BY <1>b, <1>5 DEF configureDone
  <2>. QED  BY <1>5, <2>1 DEF configureDone, StartupTypeOK, Phases
<1>. QED  BY <1>1, <1>2, <1>3, <1>4, <1>5 DEF StartupNext

LEMMA Bounds ==
  /\ MaxChanges \in Nat /\ MaxCrashes \in Nat /\ 0 \in 0..MaxChanges
  /\ None \in Content /\ Partial \in Content /\ 0..MaxChanges \subseteq Content
  BY FabricAssumption DEF Content

LEMMA LoadType ==
  ASSUME TypeOK, NEW s \in Services
  PROVE  load(s) \in 0..MaxChanges
<1>1. db[s] \in Content /\ bak[s] \in Content
  BY DEF TypeOK
<1>. QED  BY <1>1, Bounds DEF load, Content, None, Partial

LEMMA TypeStep == TypeOK /\ [Next]_vars => TypeOK'
<1>. SUFFICES ASSUME TypeOK, [Next]_vars PROVE TypeOK'
  OBVIOUS
<1>. USE DEF startupVars
<1>a. UNCHANGED startupVars => StartupTypeOK'
  BY DEF TypeOK, StartupTypeOK
<1>b. /\ live \in [Services -> 0..MaxChanges] /\ latest \in [Services -> 0..MaxChanges]
      /\ announced \in [Services -> 0..MaxChanges]
      /\ durable \in [Services -> 0..MaxChanges] /\ flushing \in [Services -> PCs]
      /\ db \in [Services -> Content] /\ bak \in [Services -> Content]
  BY DEF TypeOK
<1>1. ASSUME NEW s \in Services, change(s) PROVE TypeOK'
  <2>1. latest[s] + 1 \in 0..MaxChanges
    BY <1>b, <1>1, Bounds DEF change
  <2>2. live' \in [Services -> 0..MaxChanges] /\ latest' \in [Services -> 0..MaxChanges]
    BY <1>b, <1>1, <2>1 DEF change
  <2>3. announced' \in [Services -> 0..MaxChanges] /\ beating' \subseteq Services
    BY <1>b, <1>1, <2>1 DEF change, TypeOK
  <2>. QED  BY <1>a, <1>1, <2>2, <2>3 DEF change, TypeOK, disk, rest
<1>2. ASSUME NEW s \in Services, Heartbeat(s) PROVE TypeOK'
  BY <1>a, <1>2 DEF Heartbeat, TypeOK, disk, rest
<1>3. ASSUME NEW s \in Services, flush(s) PROVE TypeOK'
  <2>1. CASE flushRename(s)
    <3>1. flushing' \in [Services -> PCs]
      BY <1>b, <2>1 DEF flushRename, flushAt, PCs
    <3>2. db' \in [Services -> Content] /\ bak' \in [Services -> Content]
      BY <1>b, <2>1, Bounds DEF flushRename
    <3>. QED  BY <1>a, <2>1, <3>1, <3>2 DEF flushRename, TypeOK
  <2>2. CASE flushCreate(s)
    <3>1. flushing' \in [Services -> PCs]
      BY <1>b, <2>2 DEF flushCreate, flushAt, PCs
    <3>2. db' \in [Services -> Content]
      BY <1>b, <2>2, Bounds DEF flushCreate
    <3>. QED  BY <1>a, <2>2, <3>1, <3>2 DEF flushCreate, TypeOK, rest
  <2>3. CASE flushFail(s)
    <3>1. flushing' \in [Services -> PCs]
      BY <1>b, <2>3 DEF flushFail, flushAt, PCs
    <3>. QED  BY <1>a, <2>3, <3>1 DEF flushFail, TypeOK, disk
  <2>4. CASE flushEncode(s)
    <3>1. flushing' \in [Services -> PCs]
      BY <1>b, <2>4 DEF flushEncode, flushAt, PCs
    <3>2. db' \in [Services -> Content] /\ durable' \in [Services -> 0..MaxChanges]
      BY <1>b, <2>4, Bounds DEF flushEncode
    <3>. QED  BY <1>a, <2>4, <3>1, <3>2 DEF flushEncode, TypeOK
  <2>. QED  BY <1>3, <2>1, <2>2, <2>3, <2>4 DEF flush
<1>4. ASSUME NEW s \in Services, loadState(s) PROVE TypeOK'
  <2>1. live' \in [Services -> 0..MaxChanges]
    BY <1>b, <1>4, LoadType DEF loadState
  <2>. QED  BY <1>a, <1>4, <2>1 DEF loadState, TypeOK, disk
<1>5. CASE sync
  <2>1. flushing' \in [Services -> PCs]
    BY <1>b, <1>5 DEF sync, PCs
  <2>. QED  BY <1>a, <1>5, <2>1 DEF sync, TypeOK, disk, rest
<1>6. CASE startup
  BY <1>6, StartupTypeStep DEF startup, TypeOK, flushVars
<1>7. CASE loadDone
  BY <1>7 DEF loadDone, TypeOK, StartupTypeOK, Phases, flushVars
<1>8. CASE Restart
  <2>1. StartupTypeOK'
    BY <1>8, StartupTypeRestart DEF Restart, TypeOK
  <2>2. crashes' \in 0..MaxCrashes
    BY <1>8, Bounds DEF Restart, TypeOK
  <2>3. /\ live' \in [Services -> 0..MaxChanges] /\ flushing' \in [Services -> PCs]
        /\ announced' \in [Services -> 0..MaxChanges]
    BY <1>8, Bounds DEF Restart, PCs
  <2>. QED  BY <1>8, <2>1, <2>2, <2>3 DEF Restart, TypeOK, disk
<1>9. CASE UNCHANGED vars
  BY <1>a, <1>9 DEF vars, flushVars, TypeOK
<1>. QED  BY <1>1, <1>2, <1>3, <1>4, <1>5, <1>6, <1>7, <1>8, <1>9 DEF Next

LEMMA TypeInit == Init => TypeOK
<1>. SUFFICES ASSUME Init PROVE TypeOK
  OBVIOUS
<1>1. StartupTypeOK
  BY StartupTypeInit DEF Init
<1>2. 0 \in 0..MaxCrashes
  BY Bounds
<1>. QED  BY <1>1, <1>2, Bounds DEF Init, TypeOK, PCs

\* Every reachable state is well typed: the order holds factories and the
\* monitor, its loops stay inside of it, files hold what was encoded, nothing
\* or an incomplete text, and the versions stay within their bound.
THEOREM TypeCorrect == Spec => []TypeOK
  BY TypeInit, TypeStep, PTL DEF Spec
----------------------------------------------------------------------------
(* What the sequence operations do to the set of elements. *)

LEMMA RangeAppend ==
  ASSUME NEW S, NEW s \in Seq(S), NEW x \in S
  PROVE  Range(Append(s, x)) = Range(s) \cup {x}
<1>. DEFINE t == Append(s, x)
<1>1. /\ DOMAIN t = 1..(Len(s) + 1) /\ DOMAIN s = 1..Len(s) /\ Len(s) \in Nat
      /\ t[Len(s) + 1] = x /\ \A i \in 1..Len(s) : t[i] = s[i]
  OBVIOUS
<1>. HIDE DEF t
<1>2. DOMAIN t = DOMAIN s \cup {Len(s) + 1}
  BY <1>1
<1>3. Range(t) = Range(s) \cup {x}
  BY <1>1, <1>2 DEF Range
<1>. QED  BY <1>3 DEF t

LEMMA RangeTail ==
  ASSUME NEW S, NEW s \in Seq(S), s # <<>>, IsInjective(s)
  PROVE  /\ Head(s) \in Range(s) /\ IsInjective(Tail(s))
         /\ Range(Tail(s)) = Range(s) \ {Head(s)}
<1>. DEFINE t == Tail(s)
<1>1. /\ DOMAIN t = 1..(Len(s) - 1) /\ DOMAIN s = 1..Len(s) /\ Len(s) \in Nat
      /\ Head(s) = s[1] /\ 1 \in DOMAIN s
      /\ \A i \in 1..(Len(s) - 1) : t[i] = s[i + 1]
  OBVIOUS
<1>. HIDE DEF t
<1>2. IsInjective(t)
  BY <1>1 DEF IsInjective
<1>3. \A i \in DOMAIN t : t[i] \in Range(s) /\ t[i] # Head(s)
  BY <1>1 DEF IsInjective, Range
<1>4. ASSUME NEW i \in DOMAIN s, s[i] # Head(s) PROVE s[i] \in Range(t)
  <2>1. i - 1 \in DOMAIN t /\ t[i - 1] = s[i]
    BY <1>1, <1>4
  <2>. QED  BY <2>1 DEF Range
<1>. QED  BY <1>1, <1>2, <1>3, <1>4 DEF Range, t

LEMMA RangeConcat ==
  ASSUME NEW S, NEW s \in Seq(S), NEW t \in Seq(S), IsInjective(s), IsInjective(t),
         Range(s) \cap Range(t) = {}
  PROVE  Range(s \o t) = Range(s) \cup Range(t) /\ IsInjective(s \o t)
<1>. DEFINE u == s \o t
<1>1. /\ DOMAIN u = 1..(Len(s) + Len(t)) /\ DOMAIN s = 1..Len(s) /\ DOMAIN t = 1..Len(t)
      /\ Len(s) \in Nat /\ Len(t) \in Nat
      /\ \A i \in 1..(Len(s) + Len(t)) : u[i] = IF i <= Len(s) THEN s[i] ELSE t[i - Len(s)]
  OBVIOUS
<1>. HIDE DEF u
<1>2. \A i \in DOMAIN u : \/ i \in DOMAIN s /\ u[i] = s[i]
                          \/ i - Len(s) \in DOMAIN t /\ u[i] = t[i - Len(s)]
  BY <1>1
<1>3. \A i \in DOMAIN s : i \in DOMAIN u /\ u[i] = s[i]
  BY <1>1
<1>4. ASSUME NEW i \in DOMAIN t PROVE t[i] \in Range(u)
  <2>1. i + Len(s) \in DOMAIN u /\ ~(i + Len(s) <= Len(s)) /\ (i + Len(s)) - Len(s) = i
    BY <1>1
  <2>2. u[i + Len(s)] = t[i]
    BY <1>1, <2>1
  <2>. QED  BY <2>1, <2>2 DEF Range
<1>5. Range(u) = Range(s) \cup Range(t)
  BY <1>2, <1>3, <1>4 DEF Range
<1>6. ASSUME NEW i \in DOMAIN u, NEW j \in DOMAIN u, u[i] = u[j] PROVE i = j
  <2>1. CASE i \in DOMAIN s /\ u[i] = s[i] /\ j \in DOMAIN s /\ u[j] = s[j]
    BY <1>6, <2>1 DEF IsInjective
  <2>2. CASE /\ i - Len(s) \in DOMAIN t /\ u[i] = t[i - Len(s)]
             /\ j - Len(s) \in DOMAIN t /\ u[j] = t[j - Len(s)]
    <3>1. i - Len(s) = j - Len(s)
      BY <1>6, <2>2 DEF IsInjective
    <3>. QED  BY <1>1, <3>1
  <2>3. CASE i \in DOMAIN s /\ u[i] = s[i] /\ j - Len(s) \in DOMAIN t /\ u[j] = t[j - Len(s)]
    BY <1>6, <2>3 DEF Range
  <2>4. CASE j \in DOMAIN s /\ u[j] = s[j] /\ i - Len(s) \in DOMAIN t /\ u[i] = t[i - Len(s)]
    BY <1>6, <2>4 DEF Range
  <2>. QED  BY <1>2, <2>1, <2>2, <2>3, <2>4
<1>. QED  BY <1>5, <1>6 DEF IsInjective, u
----------------------------------------------------------------------------
(* The order.  While it is made, the indegree of a factory that is not in   *)
(* it counts the parameters whose factory is not in it either, and the      *)
(* queue holds exactly the factories that have none and are not in it.      *)
(* Counting down in the wrong direction of an edge touches factories that   *)
(* are in the order already, whose indegree only falls further below zero.  *)

Ordering ==
  phase \in {"order", "init"} =>
    /\ order \in Seq(Factories)
    /\ phase = "init" => queue = <<>>
    /\ IsInjective(queue) /\ Range(queue) \cap Range(order) = {}
    /\ \A k \in Range(queue) : DependsOn(k) \subseteq Range(order)
    /\ \A j \in Factories : indegree[j] <= 0 <=> j \in Range(queue) \cup Range(order)
    /\ \A j \in Factories \ Range(order) : indegree[j] = Cardinality(Missing(j, Range(order)))

LEMMA OrderingInit ==
  ASSUME StartupInit
  PROVE  Ordering /\ StartsInOrder
<1>1. /\ queue \in Seq(Factories) /\ IsInjective(queue)
      /\ Range(queue) = {k \in Factories : degree(k) = 0}
  BY NeedingNothing DEF StartupInit
<1>2. order = <<>> /\ phase = "order" /\ In \in Wirings
      /\ indegree = [k \in Factories |-> degree(k)]
  BY DEF StartupInit
<1>3. Range(order) = {} /\ DOMAIN order = {} /\ order \in Seq(Factories)
  BY <1>2 DEF Range
<1>4. \A j \in Factories : /\ indegree[j] = Cardinality(Missing(j, {}))
                           /\ Cardinality(Missing(j, {})) \in Nat
                           /\ degree(j) = 0 => Missing(j, {}) = {}
                           /\ indegree[j] = degree(j)
  BY <1>2, DegreeIs, MissingFinite
<1>5. \A k \in Range(queue) : DependsOn(k) \subseteq {}
  BY <1>1, <1>2, <1>4, MissingNothing
<1>6. \A j \in Factories : indegree[j] <= 0 <=> j \in Range(queue)
  BY <1>1, <1>4
<1>. QED  BY <1>1, <1>2, <1>3, <1>4, <1>5, <1>6 DEF Ordering, StartsInOrder

LEMMA OrderingRestart ==
  ASSUME StartupTypeOK, Starting, UNCHANGED In
  PROVE  Ordering' /\ StartsInOrder'
<1>1. /\ queue' \in Seq(Factories) /\ IsInjective(queue')
      /\ Range(queue') = {k \in Factories : degree(k) = 0}
  BY NeedingNothing DEF Starting
<1>2. order' = <<>> /\ phase' = "order" /\ In \in Wirings
      /\ indegree' = [k \in Factories |-> degree(k)]
  BY DEF Starting, StartupTypeOK
<1>3. Range(order') = {} /\ DOMAIN order' = {} /\ order' \in Seq(Factories)
  BY <1>2 DEF Range
<1>4. \A j \in Factories : /\ indegree'[j] = Cardinality(Missing(j, {}))
                           /\ Cardinality(Missing(j, {})) \in Nat
                           /\ degree(j) = 0 => Missing(j, {}) = {}
                           /\ indegree'[j] = degree(j)
  BY <1>2, DegreeIs, MissingFinite
<1>5. \A k \in Range(queue') : DependsOn(k) \subseteq {}
  BY <1>1, <1>2, <1>4, MissingNothing
<1>6. \A j \in Factories : indegree'[j] <= 0 <=> j \in Range(queue')
  BY <1>1, <1>4
<1>7. \A j, D : Missing(j, D)' = Missing(j, D')
  BY DEF Missing
<1>8. \A k : DependsOn(k)' = DependsOn(k)
  BY DEF DependsOn, matches
<1>9. Ordering'
  BY <1>1, <1>2, <1>3, <1>4, <1>5, <1>6, <1>7, <1>8 DEF Ordering, Missing
<1>. QED  BY <1>2, <1>3, <1>9 DEF StartsInOrder

\* One round of ordered.  What joins the queue misses nothing any more.
LEMMA OrderingRound ==
  ASSUME StartupTypeOK, Ordering, StartsInOrder, ordered
  PROVE  Ordering' /\ StartsInOrder'
<1>. DEFINE k == Head(queue)
            D == Range(order)
<1>1. /\ In \in Wirings /\ indegree \in [Factories -> Int]
      /\ queue \in Seq(Factories) /\ queue # <<>> /\ phase = "order" /\ phase' = "order"
      /\ In' = In /\ order' = Append(order, k)
      /\ indegree' = [j \in Factories |-> lowered(k, j)]
  BY DEF StartupTypeOK, ordered
<1>2. PICK next \in SetToSeqs(released(k)) : queue' = Tail(queue) \o next
  BY DEF ordered
<1>3. /\ order \in Seq(Factories) /\ IsInjective(queue) /\ Range(queue) \cap D = {}
      /\ \A x \in Range(queue) : DependsOn(x) \subseteq D
      /\ \A j \in Factories : indegree[j] <= 0 <=> j \in Range(queue) \cup D
      /\ \A j \in Factories \ D : indegree[j] = Cardinality(Missing(j, D))
  BY <1>1 DEF Ordering
<1>4. /\ k \in Factories /\ k \in Range(queue) /\ Tail(queue) \in Seq(Factories)
      /\ IsInjective(Tail(queue)) /\ Range(Tail(queue)) = Range(queue) \ {k}
  BY <1>1, <1>3, RangeTail
<1>5. Range(order') = D \cup {k} /\ order' \in Seq(Factories)
  BY <1>1, <1>3, <1>4, RangeAppend
<1>. HIDE DEF k, D
<1>6. k \notin D /\ DependsOn(k) \subseteq D
  BY <1>3, <1>4
<1>7. \A j \in Factories : matches(j, k) \in Nat /\ matches(k, j) \in Nat
  BY <1>1, <1>4, MatchesType
<1>8. \A j \in Factories \ D : matches(k, j) = 0
  BY <1>6, <1>7 DEF DependsOn
<1>9. \A j \in Factories \ D : lowered(k, j) = Cardinality(Missing(j, D \cup {k}))
  <2>1. \A j \in Factories :
          Cardinality(Missing(j, D \cup {k})) = Cardinality(Missing(j, D)) - matches(j, k)
    BY <1>1, <1>4, <1>6, MissingLess
  <2>2. \A j \in Factories \ D : lowered(k, j) = indegree[j] - matches(j, k)
    BY <1>1, <1>7, <1>8 DEF lowered
  <2>. QED  BY <1>3, <2>1, <2>2
<1>10. \A j \in Factories : indegree[j] <= 0 => lowered(k, j) <= 0
  BY <1>1, <1>7 DEF lowered
<1>11. next \in Seq(Factories) /\ IsInjective(next) /\ Range(next) = released(k)
  <2>1. next \in Seq(released(k)) /\ IsInjective(next) /\ Range(next) = released(k)
    BY ReleasedFinite, Listing
  <2>. QED  BY <2>1, ReleasedFinite, SeqMonotonic
<1>12. \A j \in released(k) : /\ j \in Factories /\ j \notin Range(queue) \cup D
                              /\ lowered(k, j) <= 0
  BY <1>1, <1>3 DEF released
<1>13. IsInjective(queue') /\ Range(queue') = (Range(queue) \ {k}) \cup released(k)
  <2>1. Range(Tail(queue)) \cap Range(next) = {}
    BY <1>4, <1>11, <1>12
  <2>2. /\ Range(Tail(queue) \o next) = Range(Tail(queue)) \cup Range(next)
        /\ IsInjective(Tail(queue) \o next)
    BY <1>4, <1>11, <2>1, RangeConcat
  <2>. QED  BY <1>2, <1>4, <1>11, <2>2
<1>14. Range(queue') \cap Range(order') = {}
  BY <1>3, <1>4, <1>5, <1>12, <1>13
<1>15. \A x \in Range(queue') : DependsOn(x) \subseteq Range(order')
  <2>1. ASSUME NEW x \in released(k) PROVE DependsOn(x) \subseteq D \cup {k}
    <3>1. x \in Factories \ D /\ lowered(k, x) <= 0
      BY <1>12
    <3>2. Cardinality(Missing(x, D \cup {k})) <= 0
      BY <1>9, <3>1
    <3>3. Missing(x, D \cup {k}) = {}
      BY <1>1, <3>1, <3>2, MissingFinite
    <3>. QED  BY <1>1, <3>1, <3>3, MissingNothing
  <2>. QED  BY <1>3, <1>5, <1>13, <2>1
<1>16. \A j \in Factories : indegree'[j] <= 0 <=> j \in Range(queue') \cup Range(order')
  <2>1. \A j \in Factories : indegree'[j] = lowered(k, j)
    BY <1>1
  <2>2. ASSUME NEW j \in Factories, lowered(k, j) <= 0
        PROVE  j \in Range(queue') \cup Range(order')
    BY <1>1, <1>3, <1>5, <1>13, <2>2 DEF released
  <2>. QED  BY <1>3, <1>4, <1>5, <1>10, <1>12, <1>13, <2>1, <2>2
<1>17. \A j \in Factories \ Range(order') : indegree'[j] = Cardinality(Missing(j, D \cup {k}))
  BY <1>1, <1>5, <1>9
<1>18. \A x : DependsOn(x)' = DependsOn(x)
  BY <1>1 DEF DependsOn, matches
<1>19. \A j \in Factories : Missing(j, Range(order))' = Missing(j, D \cup {k})
  BY <1>1, <1>5 DEF Missing
<1>20. Ordering'
  BY <1>1, <1>5, <1>13, <1>14, <1>15, <1>16, <1>17, <1>18, <1>19 DEF Ordering
<1>21. StartsInOrder'
  <2>1. /\ DOMAIN order = 1..Len(order) /\ DOMAIN order' = 1..(Len(order) + 1)
        /\ Len(order) \in Nat /\ order'[Len(order) + 1] = k
        /\ \A i \in DOMAIN order : order'[i] = order[i]
    BY <1>1, <1>3, <1>4
  <2>2. D = {order[j] : j \in 1..Len(order)}
    BY <2>1 DEF D, Range
  <2>3. ASSUME NEW i \in DOMAIN order', order'[i] # "monitor"
        PROVE  /\ DependsOn(order'[i]) \subseteq {order'[j] : j \in 1..(i - 1)}
               /\ \A j \in 1..(i - 1) : order'[j] # order'[i]
    <3>1. CASE i = Len(order) + 1
      <4>1. 1..(i - 1) = 1..Len(order)
        BY <2>1, <3>1
      <4>2. {order'[j] : j \in 1..(i - 1)} = D
        BY <2>1, <2>2, <4>1
      <4>. QED  BY <1>6, <2>1, <3>1, <4>1, <4>2
    <3>2. CASE i \in DOMAIN order
      <4>1. 1..(i - 1) \subseteq DOMAIN order
        BY <2>1, <3>2
      <4>2. {order'[j] : j \in 1..(i - 1)} = {order[j] : j \in 1..(i - 1)}
        BY <2>1, <4>1
      <4>. QED  BY <2>1, <2>3, <3>2, <4>1, <4>2 DEF StartsInOrder
    <3>. QED  BY <2>1, <3>1, <3>2
  <2>. QED  BY <1>1, <1>18, <2>3 DEF StartsInOrder
<1>. QED  BY <1>20, <1>21

\* resolve goes on only if every factory is in the order: in a wiring without
\* cycles, some factory outside of it would depend on none of the others
\* outside, miss nothing, and so have been in the queue.
LEMMA OrderingResolve ==
  ASSUME StartupTypeOK, Ordering, StartsInOrder, resolve
  PROVE  Ordering' /\ StartsInOrder'
<1>. DEFINE D == Range(order)
<1>1. /\ In \in Wirings /\ phase = "init" /\ In' = In
      /\ order' = Append(order, "monitor")
      /\ phase' \in IF Resolvable THEN {"configure", "stopped"} ELSE {"stopped"}
  BY DEF StartupTypeOK, resolve
<1>2. /\ order \in Seq(Factories) /\ queue = <<>>
      /\ \A j \in Factories : indegree[j] <= 0 <=> j \in Range(queue) \cup D
      /\ \A j \in Factories \ D : indegree[j] = Cardinality(Missing(j, D))
  BY <1>1 DEF Ordering
<1>3. Range(queue) = {} /\ D \subseteq Factories
  BY <1>2 DEF Range
<1>. DEFINE Out == Factories \ D
<1>4. ASSUME Resolvable PROVE Out = {}
  <2>. SUFFICES ASSUME Out # {} PROVE FALSE
    OBVIOUS
  <2>1. Out \in SUBSET Factories
    OBVIOUS
  <2>2. PICK k \in Out : DependsOn(k) \cap Out = {}
    BY <1>4, <2>1 DEF Resolvable
  <2>3. DependsOn(k) \subseteq D /\ k \in Factories
    BY <2>2 DEF DependsOn
  <2>. HIDE DEF D
  <2>4. Missing(k, D) = {}
    BY <1>1, <2>3, MissingNothing
  <2>5. Cardinality(Missing(k, D)) = 0
    BY <1>1, <2>3, <2>4, MissingFinite
  <2>6. indegree[k] = 0
    BY <1>2, <2>2, <2>5
  <2>. QED  BY <1>2, <1>3, <2>2, <2>6
<1>5. Range(order') = D \cup {"monitor"}
  <2>1. order \in Seq(Factories \cup {"monitor"})
    BY <1>2
  <2>2. "monitor" \in Factories \cup {"monitor"}
    OBVIOUS
  <2>. QED  BY <1>1, <2>1, <2>2, RangeAppend
<1>6. /\ DOMAIN order = 1..Len(order) /\ DOMAIN order' = 1..(Len(order) + 1)
      /\ Len(order) \in Nat /\ order'[Len(order) + 1] = "monitor"
      /\ Len(order') = Len(order) + 1
      /\ \A i \in DOMAIN order : order'[i] = order[i]
  BY <1>1, <1>2
<1>7. Last(order') = "monitor"
  BY <1>6 DEF Last
<1>8. \A x : DependsOn(x)' = DependsOn(x)
  BY <1>1 DEF DependsOn, matches
<1>9. ASSUME NEW i \in DOMAIN order', order'[i] # "monitor"
      PROVE  /\ DependsOn(order'[i]) \subseteq {order'[j] : j \in 1..(i - 1)}
             /\ \A j \in 1..(i - 1) : order'[j] # order'[i]
  <2>1. i \in DOMAIN order /\ 1..(i - 1) \subseteq DOMAIN order
    BY <1>6, <1>9
  <2>2. {order'[j] : j \in 1..(i - 1)} = {order[j] : j \in 1..(i - 1)}
    BY <1>6, <2>1
  <2>. QED  BY <1>6, <1>9, <2>1, <2>2 DEF StartsInOrder
<1>10. phase' \in {"configure", "load", "start", "run"} =>
         Range(order') = Factories \cup {"monitor"}
  BY <1>1, <1>3, <1>4, <1>5
<1>11. phase' \notin {"order", "init"}
  BY <1>1
<1>. QED  BY <1>7, <1>8, <1>9, <1>10, <1>11 DEF Ordering, StartsInOrder

\* The order is made once: nothing else changes it or goes back to making it.
LEMMA OrderingKept ==
  ASSUME Ordering, StartsInOrder, UNCHANGED <<In, indegree, queue, order>>,
         \/ phase' \in {phase, "stopped"}
         \/ phase = "order" /\ queue = <<>> /\ phase' = "init"
         \/ {phase, phase'} \subseteq {"configure", "load", "start", "run"}
  PROVE  Ordering' /\ StartsInOrder'
<1>1. \A x : DependsOn(x)' = DependsOn(x)
  BY DEF DependsOn, matches
<1>2. \A j \in Factories : Missing(j, Range(order))' = Missing(j, Range(order))
  BY DEF Missing
<1>3. StartsInOrder'
  BY <1>1 DEF StartsInOrder
<1>4. Ordering'
  BY <1>1, <1>2 DEF Ordering
<1>. QED  BY <1>3, <1>4

LEMMA OrderingStep ==
  TypeOK /\ Ordering /\ StartsInOrder /\ [Next]_vars => Ordering' /\ StartsInOrder'
<1>. SUFFICES ASSUME TypeOK, Ordering, StartsInOrder, [Next]_vars
             PROVE  Ordering' /\ StartsInOrder'
  OBVIOUS
<1>. USE DEF startupVars
<1>1. CASE UNCHANGED startupVars
  BY <1>1, OrderingKept
<1>2. CASE startup
  <2>1. CASE ordered
    BY <2>1, OrderingRound DEF TypeOK
  <2>2. CASE resolve
    BY <2>2, OrderingResolve DEF TypeOK
  <2>3. CASE orderDone
    BY <2>3, OrderingKept DEF orderDone
  <2>4. CASE configureServices \/ configureDone
    BY <2>4, OrderingKept DEF configureServices, configureDone
  <2>5. CASE startAll \/ startDone
    BY <2>5, OrderingKept DEF startAll, startDone
  <2>. QED  BY <1>2, <2>1, <2>2, <2>3, <2>4, <2>5 DEF startup, StartupNext
<1>3. CASE loadDone
  BY <1>3, OrderingKept DEF loadDone
<1>4. CASE Restart
  BY <1>4, OrderingRestart DEF Restart, TypeOK
<1>5. ASSUME NEW s \in Services, change(s) \/ Heartbeat(s) \/ flush(s) \/ loadState(s)
      PROVE  UNCHANGED startupVars
  BY <1>5 DEF change, Heartbeat, flush, flushRename, flushCreate, flushFail, flushEncode,
              loadState, rest
<1>6. CASE sync
  BY <1>1, <1>6 DEF sync, rest
<1>7. CASE UNCHANGED vars
  BY <1>1, <1>7 DEF vars
<1>. QED  BY <1>1, <1>2, <1>3, <1>4, <1>5, <1>6, <1>7 DEF Next

\* Whatever the factories depend on, each service is configured and started
\* once, after everything that its factory depends on, and a program that gets
\* as far as configuring has all of them in its order and the monitor last:
\* ordered counts down both directions of an edge and never lets a factory
\* into the queue too early or twice, and resolve stops every program whose
\* order is incomplete.
THEOREM ServicesStartInOrder == Spec => []StartsInOrder
<1>1. Init => Ordering /\ StartsInOrder
  BY OrderingInit DEF Init
<1>. QED  BY <1>1, OrderingStep, TypeCorrect, PTL DEF Spec
----------------------------------------------------------------------------
(* What a restart brings back.  Until the process is killed for the first  *)
(* time, the file or else its backup holds the last completed flush at      *)
(* every step of the next one that the disk does not refuse; nothing is     *)
(* flushed before Fabric.sync runs, so what is loaded after the first kill   *)
(* is that flush.                                                           *)

\* The file and the backup of s, by the step that a flush is at.
Saved(s) ==
  /\ flushing[s] \in {"none", "rename"} => db[s] \in {None, durable[s]}
  /\ flushing[s] = "create" => db[s] = None
  /\ flushing[s] = "encode" => db[s] = Partial
  /\ db[s] < 0 => bak[s] = durable[s] \/ (bak[s] = None /\ durable[s] = 0)

Disk ==
  /\ phase # "run" => \A s \in Services : flushing[s] = "none"
  /\ crashes = 0 => \A s \in Services \ refused : Saved(s)
  /\ crashes <= 1 /\ phase # "run" => \A s \in Services \ refused : load(s) = durable[s]

LEMMA SavedLoads ==
  ASSUME TypeOK, NEW s \in Services, Saved(s)
  PROVE  load(s) = durable[s]
<1>1. db[s] \in Content /\ bak[s] \in Content /\ durable[s] \in 0..MaxChanges
  BY DEF TypeOK
<1>2. flushing[s] \in PCs
  BY DEF TypeOK
<1>. QED  BY <1>1, <1>2, Bounds DEF Saved, load, Content, None, Partial, PCs

LEMMA DiskInit == Init => Disk
<1>. SUFFICES ASSUME Init PROVE Disk
  OBVIOUS
<1>. QED  BY DEF Init, Disk, Saved, load, None

\* A flush of s is a matter of s, and of a running Fabric.sync.
LEMMA FlushSaved ==
  ASSUME TypeOK, Disk, NEW s \in Services, flush(s)
  PROVE  /\ phase = "run" /\ phase' = phase /\ crashes' = crashes
         /\ crashes = 0 => \A r \in Services \ refused' : Saved(r)'
<1>1. /\ flushing \in [Services -> PCs] /\ durable \in [Services -> 0..MaxChanges]
      /\ db \in [Services -> Content] /\ bak \in [Services -> Content]
      /\ live \in [Services -> 0..MaxChanges]
  BY DEF TypeOK
<1>2. flushing[s] # "none" /\ phase' = phase /\ crashes' = crashes
  BY DEF flush, flushRename, flushCreate, flushFail, flushEncode, flushAt, rest, startupVars
<1>3. \A r \in Services \ {s} : /\ flushing'[r] = flushing[r] /\ db'[r] = db[r]
                                /\ bak'[r] = bak[r] /\ durable'[r] = durable[r]
                                /\ (r \in refused' <=> r \in refused)
  BY <1>1 DEF flush, flushRename, flushCreate, flushFail, flushEncode, flushAt, disk, rest
<1>4. phase = "run"
  BY <1>2 DEF Disk
<1>5. ASSUME crashes = 0, NEW r \in Services \ refused' PROVE Saved(r)'
  <2>2. CASE r # s
    BY <1>3, <1>5, <2>2 DEF Disk, Saved
  <2>3. CASE r = s
    <3>1. CASE flushRename(s)
      <4>1. s \notin refused
        BY <1>5, <2>3, <3>1 DEF flushRename
      <4>2. Saved(s)
        BY <1>5, <4>1 DEF Disk
      <4>3. db[s] \in {None, durable[s]} /\ flushing'[s] = "create" /\ durable' = durable
        BY <1>1, <3>1, <4>2 DEF flushRename, flushAt, Saved
      <4>4. CASE db[s] = None
        BY <1>1, <2>3, <3>1, <4>2, <4>3, <4>4 DEF flushRename, Saved, None
      <4>5. CASE db[s] # None
        <5>1. db'[s] = None /\ bak'[s] = durable[s]
          BY <1>1, <1>5, <2>3, <3>1, <4>3, <4>5 DEF flushRename
        <5>. QED  BY <2>3, <4>3, <5>1 DEF Saved, None
      <4>. QED  BY <4>4, <4>5
    <3>2. CASE flushCreate(s)
      <4>1. Saved(s)
        BY <1>5, <2>3, <3>2 DEF flushCreate, rest, Disk
      <4>. QED  BY <1>1, <2>3, <3>2, <4>1 DEF flushCreate, flushAt, Saved, None, Partial
    <3>3. CASE flushFail(s)
      <4>1. Saved(s)
        BY <1>5, <2>3, <3>3 DEF flushFail, Disk
      <4>. QED  BY <1>1, <2>3, <3>3, <4>1 DEF flushFail, flushAt, Saved, disk
    <3>4. CASE flushEncode(s)
      <4>1. db'[s] = live[s] /\ durable'[s] = live[s] /\ flushing'[s] = "none"
        BY <1>1, <1>5, <2>3, <3>4 DEF flushEncode, flushAt
      <4>2. ~(live[s] < 0)
        BY <1>1, Bounds
      <4>. QED  BY <2>3, <4>1, <4>2 DEF Saved
    <3>. QED  BY <3>1, <3>2, <3>3, <3>4 DEF flush
  <2>. QED  BY <2>2, <2>3
<1>. QED  BY <1>2, <1>4, <1>5

LEMMA DiskStep == TypeOK /\ Disk /\ [Next]_vars => Disk'
<1>. SUFFICES ASSUME TypeOK, Disk, [Next]_vars PROVE Disk'
  OBVIOUS
<1>. USE DEF startupVars
<1>a. flushing \in [Services -> PCs] /\ crashes \in Nat /\ MaxCrashes \in Nat
  BY Bounds DEF TypeOK
<1>1. ASSUME UNCHANGED <<flushing, disk, crashes, refused>>, phase' = phase \/ phase # "run"
      PROVE  Disk'
  <2>1. \A s : Saved(s)' = Saved(s) /\ load(s)' = load(s)
    BY <1>1 DEF Saved, load, disk
  <2>. QED  BY <1>1, <2>1 DEF Disk, disk
<1>2. CASE sync
  <2>1. phase = "run" /\ phase' = "run" /\ crashes' = crashes /\ UNCHANGED <<disk, refused>>
    BY <1>2 DEF sync, rest
  <2>2. \A s \in Services : flushing'[s] = flushing[s] \/ (flushing[s] = "none" /\ flushing'[s] = "rename")
    BY <1>a, <1>2 DEF sync
  <2>3. \A s \in Services : Saved(s) => Saved(s)'
    BY <2>1, <2>2 DEF Saved, disk
  <2>. QED  BY <2>1, <2>3 DEF Disk
<1>3. ASSUME NEW s \in Services, flush(s) PROVE Disk'
  BY <1>3, FlushSaved DEF Disk
<1>4. CASE Restart
  <2>1. /\ crashes' = crashes + 1 /\ UNCHANGED <<disk, refused>>
        /\ \A s \in Services : flushing'[s] = "none"
    BY <1>4 DEF Restart
  <2>2. ASSUME crashes' <= 1, NEW s \in Services \ refused PROVE load(s)' = durable'[s]
    <3>1. crashes = 0
      BY <1>a, <2>1, <2>2
    <3>2. load(s) = durable[s]
      BY <3>1, SavedLoads DEF Disk
    <3>. QED  BY <2>1, <3>2 DEF load, disk
  <2>. QED  BY <1>a, <2>1, <2>2 DEF Disk
<1>5. ASSUME NEW s \in Services, change(s) \/ Heartbeat(s) \/ loadState(s) PROVE Disk'
  BY <1>1, <1>5 DEF change, Heartbeat, loadState, rest
<1>6. CASE startup
  BY <1>1, <1>6 DEF startup, flushVars, StartupNext, ordered, orderDone, resolve,
                    configureServices, configureDone, startAll, startDone, disk
<1>7. CASE loadDone
  BY <1>1, <1>7 DEF loadDone, flushVars, disk
<1>8. CASE UNCHANGED vars
  BY <1>1, <1>8 DEF vars, flushVars, disk
<1>. QED  BY <1>2, <1>3, <1>4, <1>5, <1>6, <1>7, <1>8 DEF Next

\* A service that is loaded gets what the disk holds for it.
LEMMA LoadsFlushed ==
  ASSUME TypeOK, Disk, [Next]_vars, crashes <= 1, NEW s \in loaded' \ loaded
  PROVE  s \in refused \/ live'[s] = durable[s]
<1>. USE DEF startupVars
<1>1. \E r \in Services : loadState(r)
  BY DEF Next, change, Heartbeat, flush, flushRename, flushCreate, flushFail, flushEncode,
         sync, startup, loadDone, Restart, rest, vars, flushVars
<1>2. PICK r \in Services : loadState(r)
  BY <1>1
<1>3. s = r /\ s \in Services /\ live'[s] = load(s) /\ phase # "run"
  BY <1>2 DEF loadState, TypeOK
<1>. QED  BY <1>3 DEF Disk

\* After the first kill, wherever in a flush it fell or the flush failed to
\* create its file, a service is loaded with exactly what its last completed flush
\* wrote: load falls back on the backup that flush made of the file.  Only when
\* the disk refused the rename or a part of the file since may it be otherwise.
THEOREM FirstRestartLoadsFlushed ==
  Spec => [][crashes <= 1 => \A s \in loaded' \ loaded :
                               s \in refused \/ live'[s] = durable[s]]_vars
<1>. DEFINE Load == crashes <= 1 => \A s \in loaded' \ loaded :
                                      s \in refused \/ live'[s] = durable[s]
<1>1. TypeOK /\ Disk /\ [Next]_vars => [Load]_vars
  BY LoadsFlushed
<1>. HIDE DEF Load
<1>2. Spec => [][Load]_vars
  BY <1>1, TypeCorrect, DiskInit, DiskStep, PTL DEF Spec
<1>. QED  BY <1>2 DEF Load

\* A process that is killed at most once keeps what was flushed, except for a
\* service of which the disk refused something since; a second kill may come
\* while the backup is an incomplete file, and README says so.
THEOREM RestartKeepsFlush ==
  ASSUME MaxCrashes <= 1
  PROVE  Spec => RestartKeepsFlushed
<1>. DEFINE Keep == \A s \in loaded' \ loaded : s \in refused \/ live'[s] >= durable[s]
<1>1. ASSUME TypeOK, Disk, [Next]_vars PROVE [Keep]_vars
  <2>1. crashes <= 1
    BY <1>1, FabricAssumption DEF TypeOK
  <2>2. \A s \in loaded' \ loaded : (s \in refused \/ live'[s] = durable[s]) /\ s \in Services
    <3>1. TypeOK'
      BY <1>1, TypeStep
    <3>. QED  BY <1>1, <2>1, <3>1, LoadsFlushed DEF TypeOK
  <2>3. \A s \in Services : durable[s] \in Int
    BY <1>1, Bounds DEF TypeOK
  <2>. QED  BY <2>2, <2>3
<1>. HIDE DEF Keep
<1>2. Spec => [][Keep]_vars
  BY <1>1, TypeCorrect, DiskInit, DiskStep, PTL DEF Spec
<1>. QED  BY <1>2 DEF Keep, RestartKeepsFlushed
----------------------------------------------------------------------------
(* The part of ChangesReachDisk that is a safety property, for any number   *)
(* of kills: a change that was announced and that the disk does not have is  *)
(* in somebody's hands.                                                     *)

\* A heartbeat of s is under way, the ticker will see that s was updated, its
\* flush is running, or its last flush failed.
InHand(s) == s \in beating \cup dirty \cup failed \/ flushing[s] # "none"

\* Versions only grow; what is in somebody's hands is the newest.
Tracked(s) ==
  /\ live[s] <= latest[s] /\ durable[s] <= latest[s] /\ announced[s] <= latest[s]
  /\ db[s] <= durable[s] /\ bak[s] <= durable[s]
  /\ InHand(s) => live[s] = latest[s]
  /\ announced[s] > durable[s] => InHand(s)

Tracking ==
  /\ phase \notin {"start", "run"} => \A s \in Services : ~InHand(s)
  /\ \A s \in Services : Tracked(s)

LEMMA TrackingInit == Init => Tracking
<1>. SUFFICES ASSUME Init PROVE Tracking
  OBVIOUS
<1>1. \A s \in Services : ~InHand(s)
  BY DEF Init, InHand
<1>2. ASSUME NEW s \in Services PROVE Tracked(s)
  <2>1. live[s] = 0 /\ announced[s] = 0 /\ durable[s] = 0 /\ latest[s] = 0 /\ db[s] = -2 /\ bak[s] = -2
    BY DEF Init, None
  <2>. QED  BY <1>1, <2>1 DEF Tracked
<1>. QED  BY <1>1, <1>2 DEF Tracking

\* A step of one service, in the phases in which services run.
LEMMA OneTracked ==
  ASSUME Tracking, NEW s \in Services, phase \in {"start", "run"}, UNCHANGED phase,
         \A r \in Services \ {s} :
           /\ live'[r] = live[r] /\ announced'[r] = announced[r]
           /\ latest'[r] = latest[r] /\ durable'[r] = durable[r]
           /\ db'[r] = db[r] /\ bak'[r] = bak[r] /\ InHand(r)' = InHand(r),
         Tracked(s)'
  PROVE  Tracking'
<1>1. ASSUME NEW r \in Services PROVE Tracked(r)'
  <2>1. CASE r = s
    BY <2>1
  <2>2. CASE r # s
    BY <2>2 DEF Tracking, Tracked
  <2>. QED  BY <2>1, <2>2
<1>. QED  BY <1>1 DEF Tracking

LEMMA TrackingStep ==
  ASSUME TypeOK, Disk, Tracking, [Next]_vars
  PROVE  Tracking' /\ \A s \in Services : durable'[s] >= durable[s]
<1>. USE DEF startupVars
<1>a. /\ live \in [Services -> 0..MaxChanges] /\ latest \in [Services -> 0..MaxChanges]
      /\ announced \in [Services -> 0..MaxChanges]
      /\ durable \in [Services -> 0..MaxChanges] /\ flushing \in [Services -> PCs]
      /\ db \in [Services -> Content] /\ bak \in [Services -> Content]
      /\ MaxChanges \in Nat
  BY Bounds DEF TypeOK
<1>b. ASSUME NEW s \in Services
      PROVE  /\ live[s] \in Int /\ latest[s] \in Int /\ durable[s] \in Int
             /\ announced[s] \in Int /\ announced[s] >= 0
             /\ db[s] \in Int /\ bak[s] \in Int
             /\ live[s] >= 0 /\ durable[s] >= 0 /\ latest[s] >= 0
  BY <1>a DEF Content, None, Partial
<1>c. ASSUME UNCHANGED durable PROVE \A s \in Services : durable'[s] >= durable[s]
  BY <1>b, <1>c
<1>1. ASSUME NEW s \in Services, change(s) PROVE Tracking'
  <2>1. /\ phase \in {"start", "run"}
        /\ UNCHANGED <<phase, dirty, flushing, db, bak, durable, failed>>
        /\ live' = [live EXCEPT ![s] = latest[s] + 1]
        /\ latest' = [latest EXCEPT ![s] = latest[s] + 1]
    BY <1>1 DEF change, Started, disk, rest
  <2>2. live'[s] = latest[s] + 1 /\ latest'[s] = latest[s] + 1
    BY <1>a, <2>1
  <2>3. \/ s \in beating' /\ announced'[s] = latest[s] + 1
        \/ beating' = beating /\ announced'[s] = announced[s]
    BY <1>a, <1>1 DEF change
  <2>4. /\ \A r \in Services \ {s} : r \in beating' <=> r \in beating
        /\ \A r \in Services \ {s} : announced'[r] = announced[r]
    BY <1>a, <1>1 DEF change
  <2>5. \A r \in Services \ {s} : InHand(r)' = InHand(r)
    BY <2>1, <2>4 DEF InHand
  <2>6. Tracked(s)
    BY DEF Tracking
  <2>7. Tracked(s)'
    <3>1. CASE s \in beating' /\ announced'[s] = latest[s] + 1
      <4>1. InHand(s)'
        BY <3>1 DEF InHand
      <4>. QED  BY <1>b, <2>1, <2>2, <2>6, <3>1, <4>1 DEF Tracked
    <3>2. CASE beating' = beating /\ announced'[s] = announced[s]
      <4>1. InHand(s)' = InHand(s)
        BY <2>1, <3>2 DEF InHand
      <4>. QED  BY <1>b, <2>1, <2>2, <2>6, <3>2, <4>1 DEF Tracked
    <3>. QED  BY <2>3, <3>1, <3>2
  <2>8. \A r \in Services \ {s} : live'[r] = live[r] /\ latest'[r] = latest[r]
    BY <1>a, <2>1
  <2>. QED  BY <2>1, <2>4, <2>5, <2>7, <2>8, OneTracked
<1>2. ASSUME UNCHANGED <<live, announced, latest, db, bak, durable>>,
             \A s \in Services : InHand(s)' = InHand(s),
             phase' \in {"start", "run"} \/ phase \notin {"start", "run"}
      PROVE  Tracking'
  BY <1>2 DEF Tracking, Tracked
<1>3. ASSUME NEW s \in Services, Heartbeat(s) PROVE Tracking'
  BY <1>2, <1>3 DEF Heartbeat, InHand, disk, rest
<1>4. ASSUME sync PROVE Tracking'
  <2>1. \A s \in Services : InHand(s)' = InHand(s)
    BY <1>a, <1>4 DEF sync, InHand, rest
  <2>. QED  BY <1>2, <1>4, <2>1 DEF sync, disk, rest
<1>5. ASSUME NEW s \in Services, flush(s) PROVE Tracking' /\ durable'[s] >= durable[s]
  <2>1. phase = "run" /\ UNCHANGED <<phase, live, announced, latest, beating, dirty>>
    BY <1>5, FlushSaved DEF flush, flushRename, flushCreate, flushFail, flushEncode, rest
  <2>2. /\ flushing' = [flushing EXCEPT ![s] = flushing'[s]]
        /\ flushing[s] # "none"
    BY <1>a, <1>5 DEF flush, flushRename, flushCreate, flushFail, flushEncode, flushAt
  <2>3. ASSUME NEW r \in Services \ {s}
        PROVE  /\ db'[r] = db[r] /\ bak'[r] = bak[r] /\ durable'[r] = durable[r]
               /\ flushing'[r] = flushing[r] /\ (r \in failed' <=> r \in failed)
    BY <1>a, <1>5, <2>2
       DEF flush, flushRename, flushCreate, flushFail, flushEncode, flushAt, disk, rest
  <2>4. \A r \in Services \ {s} : InHand(r)' = InHand(r)
    BY <2>1, <2>3 DEF InHand
  <2>5. Tracked(s) /\ live[s] = latest[s]
    BY <2>2 DEF Tracking, Tracked, InHand
  <2>6. Tracked(s)' /\ durable'[s] >= durable[s]
    <3>1. CASE flushRename(s)
      <4>1. /\ durable' = durable /\ flushing'[s] = "create"
            /\ (db'[s] = db[s] /\ bak'[s] = bak[s]) \/ (db'[s] = -2 /\ bak'[s] = db[s])
        BY <1>a, <3>1 DEF flushRename, flushAt, None
      <4>2. InHand(s)'
        BY <4>1 DEF InHand
      <4>. QED  BY <1>b, <2>1, <2>5, <4>1, <4>2 DEF Tracked
    <3>2. CASE flushCreate(s)
      <4>1. durable' = durable /\ flushing'[s] = "encode" /\ db'[s] = -1 /\ bak' = bak
        BY <1>a, <3>2 DEF flushCreate, flushAt, Partial
      <4>2. InHand(s)'
        BY <4>1 DEF InHand
      <4>. QED  BY <1>b, <2>1, <2>5, <4>1, <4>2 DEF Tracked
    <3>3. CASE flushFail(s)
      <4>1. UNCHANGED <<durable, db, bak>> /\ s \in failed'
        BY <3>3 DEF flushFail, disk
      <4>2. InHand(s)'
        BY <4>1 DEF InHand
      <4>. QED  BY <1>b, <2>1, <2>5, <4>1, <4>2 DEF Tracked
    <3>4. CASE flushEncode(s)
      <4>1. /\ bak' = bak
            /\ \/ durable'[s] = live[s] /\ db'[s] = live[s]
               \/ UNCHANGED <<durable, db>> /\ s \in failed'
        BY <1>a, <3>4 DEF flushEncode
      <4>2. CASE durable'[s] = live[s] /\ db'[s] = live[s]
        BY <1>b, <2>1, <2>5, <4>1, <4>2 DEF Tracked
      <4>3. CASE UNCHANGED <<durable, db>> /\ s \in failed'
        <5>1. InHand(s)'
          BY <4>3 DEF InHand
        <5>. QED  BY <1>b, <2>1, <2>5, <4>1, <4>3, <5>1 DEF Tracked
      <4>. QED  BY <4>1, <4>2, <4>3
    <3>. QED  BY <1>5, <3>1, <3>2, <3>3, <3>4 DEF flush
  <2>. QED  BY <2>1, <2>3, <2>4, <2>6, OneTracked
<1>6. ASSUME NEW s \in Services, loadState(s) PROVE Tracking'
  <2>1. /\ phase = "load"
        /\ UNCHANGED <<phase, announced, latest, beating, dirty, failed, flushing, db, bak,
                       durable>>
        /\ live' = [live EXCEPT ![s] = load(s)]
    BY <1>6 DEF loadState, disk
  <2>2. \A r \in Services : ~InHand(r) /\ ~InHand(r)'
    BY <2>1 DEF Tracking, InHand
  <2>3. ASSUME NEW r \in Services PROVE Tracked(r)'
    <3>1. Tracked(r)
      BY DEF Tracking
    <3>2. CASE r # s
      <4>1. live'[r] = live[r]
        BY <1>a, <2>1, <3>2
      <4>. QED  BY <2>1, <2>2, <3>1, <4>1 DEF Tracked
    <3>3. CASE r = s
      <4>1. live'[r] = load(r)
        BY <1>a, <2>1, <3>3
      <4>2. load(r) <= durable[r] /\ load(r) \in Int
        BY <1>b, <3>1 DEF load, Tracked
      <4>. QED  BY <1>b, <2>1, <2>2, <3>1, <4>1, <4>2 DEF Tracked
    <3>. QED  BY <3>2, <3>3
  <2>. QED  BY <2>2, <2>3 DEF Tracking
<1>7. ASSUME startup PROVE Tracking'
  <2>1. UNCHANGED flushVars /\ (phase' \in {"start", "run"} \/ phase \notin {"start", "run"})
    BY <1>7 DEF startup, StartupNext, ordered, orderDone, resolve, configureServices,
                configureDone, startAll, startDone
  <2>2. \A s \in Services : InHand(s)' = InHand(s)
    BY <2>1 DEF flushVars, InHand
  <2>. QED  BY <1>2, <2>1, <2>2 DEF flushVars
<1>8. ASSUME loadDone PROVE Tracking'
  <2>1. UNCHANGED flushVars /\ phase' = "start"
    BY <1>8 DEF loadDone
  <2>2. \A s \in Services : InHand(s)' = InHand(s)
    BY <2>1 DEF flushVars, InHand
  <2>. QED  BY <1>2, <2>1, <2>2 DEF flushVars
<1>9. ASSUME Restart PROVE Tracking'
  <2>1. /\ UNCHANGED <<db, bak, durable, latest>>
        /\ \A s \in Services : live'[s] = 0 /\ announced'[s] = 0
        /\ \A s \in Services : ~InHand(s)'
    BY <1>9 DEF Restart, disk, InHand
  <2>2. ASSUME NEW s \in Services PROVE Tracked(s)'
    BY <1>b, <2>1 DEF Tracking, Tracked
  <2>. QED  BY <2>1, <2>2 DEF Tracking
<1>10. ASSUME UNCHANGED vars PROVE Tracking'
  <2>1. UNCHANGED flushVars /\ UNCHANGED phase
    BY <1>10 DEF vars
  <2>2. \A s \in Services : InHand(s)' = InHand(s)
    BY <2>1 DEF flushVars, InHand
  <2>. QED  BY <1>2, <2>1, <2>2 DEF flushVars
<1>11. \A s \in Services : durable'[s] >= durable[s]
  <2>1. CASE UNCHANGED durable
    BY <1>c, <2>1
  <2>2. ASSUME NEW s \in Services, flush(s) PROVE \A r \in Services : durable'[r] >= durable[r]
    <3>1. \A r \in Services \ {s} : durable'[r] = durable[r]
      BY <1>a, <2>2 DEF flush, flushRename, flushCreate, flushFail, flushEncode, disk
    <3>. QED  BY <1>5, <1>b, <2>2, <3>1
  <2>3. UNCHANGED durable \/ \E s \in Services : flush(s)
    BY DEF Next, change, Heartbeat, loadState, sync, startup, loadDone, Restart, disk, vars, flushVars
  <2>. QED  BY <2>1, <2>2, <2>3
<1>. QED  BY <1>1, <1>3, <1>4, <1>5, <1>6, <1>7, <1>8, <1>9, <1>10, <1>11 DEF Next

\* No change that a service announced falls between its heartbeat, the ticker of
\* Fabric.sync and a flush under way: one that the disk does not have is known to
\* one of them, unless its flush failed, however often the process is killed; and
\* no flush ever replaces a newer state by an older one.  A change without a
\* heartbeat is nobody's until the next heartbeat of its service.
THEOREM NoChangeIsForgotten ==
  /\ Spec => [](\A s \in Services : announced[s] > durable[s] => InHand(s))
  /\ Spec => [][\A s \in Services : durable'[s] >= durable[s]]_vars
<1>. DEFINE Known == \A s \in Services : announced[s] > durable[s] => InHand(s)
            Grows == \A s \in Services : durable'[s] >= durable[s]
<1>1. TypeOK /\ Disk /\ Tracking /\ [Next]_vars => Tracking' /\ [Grows]_vars
  BY TrackingStep
<1>2. Tracking => Known
  BY DEF Tracking, Tracked
<1>. HIDE DEF Known, Grows
<1>3. Spec => []Known
  BY <1>1, <1>2, TrackingInit, TypeCorrect, DiskInit, DiskStep, PTL DEF Spec
<1>4. Spec => [][Grows]_vars
  BY <1>1, TrackingInit, TypeCorrect, DiskInit, DiskStep, PTL DEF Spec
<1>. QED  BY <1>3, <1>4 DEF Known, Grows
=============================================================================
