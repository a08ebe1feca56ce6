---------------------------- MODULE StatsProofs ----------------------------
(***************************************************************************)
(* What one update does to one Stat.  The proofs about the probe and about *)
(* the refresher, the two packages that send updates, cite these lemmas.    *)
(***************************************************************************)
EXTENDS Stats, TLAPS

LEMMA NoStatType == NoStat \in Stat
  BY DEF NoStat, Stat, States

LEMMA KnownType ==
  ASSUME NEW st \in Stat
  PROVE  Known(st) \in Stat
  BY DEF Known, Stat, States

LEMMA SettleType ==
  ASSUME NEW st \in Stat
  PROVE  Settle(st) \in Stat
  BY DEF Settle, Stat, States, Pipeline

LEMMA CountType ==
  ASSUME NEW st \in Stat, NEW u \in Updates
  PROVE  Count(st, u) \in Stat
<1>1. CASE u = "Launched"
  BY <1>1 DEF Count, Stat, States, Launched
<1>2. CASE u = "Scheduled"
  BY <1>2 DEF Count, Stat, States
<1>3. CASE u = "Ignored"
  BY <1>3 DEF Count, Stat, States
<1>4. CASE u = "New"
  <2>1. Count(st, u) = [st EXCEPT !.Scheduled = @ - 1, !.New = @ + 1]
    BY <1>4 DEF Count
  <2>2. st.Scheduled - 1 \in Int /\ st.New + 1 \in Int
    BY DEF Stat
  <2>. QED  BY <2>1, <2>2 DEF Stat, States
<1>5. CASE u = "Probing"
  <2>1. Count(st, u) = [st EXCEPT !.New = @ - 1, !.Probing = @ + 1]
    BY <1>5 DEF Count
  <2>2. st.New - 1 \in Int /\ st.Probing + 1 \in Int
    BY DEF Stat
  <2>. QED  BY <2>1, <2>2 DEF Stat, States
<1>6. CASE u \in {"Found", "Timeout", "Blacklisted"}
  BY <1>6 DEF Count, Stat, States
<1>7. CASE u = "Finished"
  BY <1>7 DEF Count, Stat, States
<1>8. CASE u = "FinishedErr"
  BY <1>8 DEF Count, Stat, States
<1>. QED  BY <1>1, <1>2, <1>3, <1>4, <1>5, <1>6, <1>7, <1>8 DEF Updates

LEMMA UpdateType ==
  ASSUME NEW st \in Stat, NEW u \in Updates
  PROVE  handleUpdate(st, u) \in Stat
  BY KnownType, CountType, SettleType DEF handleUpdate

\* Only a launch or a finish of a source ends the run of its Stat; what is
\* reported for single items, even for items that were never counted, keeps
\* an unfinished Stat running.
LEMMA ItemKeepsRunning ==
  ASSUME NEW st \in Stat, IsRunning(st), ~st.finished,
         NEW u \in Updates \ {"Finished", "FinishedErr"}
  PROVE  IsRunning(handleUpdate(st, u)) /\ ~handleUpdate(st, u).finished
<1>1. Known(st) = st
  BY DEF Known, IsRunning
<1>2. /\ Count(st, u) \in Stat
      /\ Count(st, u).state = "running"
      /\ ~Count(st, u).finished
  <2>1. CASE u = "Launched"
    BY <2>1, CountType DEF Count, Launched
  <2>2. CASE u = "Scheduled" \/ u = "Ignored"
    BY <2>2, CountType DEF Count, Stat, IsRunning
  <2>3. CASE u = "New"
    BY <2>3, CountType DEF Count, Stat, IsRunning
  <2>4. CASE u = "Probing"
    BY <2>4, CountType DEF Count, Stat, IsRunning
  <2>5. CASE u \in {"Found", "Timeout", "Blacklisted"}
    BY <2>5, CountType DEF Count, Stat, IsRunning
  <2>. QED  BY <2>1, <2>2, <2>3, <2>4, <2>5 DEF Updates
<1>3. handleUpdate(st, u) = Count(st, u)
  BY <1>1, <1>2 DEF handleUpdate, Settle
<1>. QED  BY <1>2, <1>3 DEF IsRunning

\* How an item moves between the counters of a Stat.
ItemUpdates == {"Scheduled", "Ignored", "New", "Probing", "Found", "Timeout", "Blacklisted"}

ScheduledBy(u) == IF u = "Scheduled" THEN 1 ELSE IF u \in {"Ignored", "New"} THEN -1 ELSE 0
NewBy(u) == IF u = "New" THEN 1 ELSE IF u = "Probing" THEN -1 ELSE 0
ProbingBy(u) ==
  IF u = "Probing" THEN 1 ELSE IF u \in {"Found", "Timeout", "Blacklisted"} THEN -1 ELSE 0

\* A Stat that is running or failed counts an item and stays what it is, or
\* becomes idle when its pipeline is empty.
LEMMA ItemCounts ==
  ASSUME NEW st \in Stat, st.state \in {"running", "failed"}, NEW u \in ItemUpdates
  PROVE  LET r == handleUpdate(st, u)
         IN  /\ r \in Stat
             /\ r.Scheduled = st.Scheduled + ScheduledBy(u)
             /\ r.New = st.New + NewBy(u)
             /\ r.Probing = st.Probing + ProbingBy(u)
             /\ r.state = st.state \/ (r.state = "idle" /\ Pipeline(r) = 0)
             /\ r.finished = st.finished
             /\ ~st.finished => r.state = st.state
<1>. DEFINE c == Count(st, u)
<1>1. Known(st) = st /\ u \in Updates
  BY DEF Known, ItemUpdates, Updates
<1>2. c \in Stat
  BY <1>1, CountType
<1>4. /\ c.Scheduled = st.Scheduled + ScheduledBy(u)
      /\ c.New = st.New + NewBy(u)
      /\ c.Probing = st.Probing + ProbingBy(u)
      /\ c.state = st.state /\ c.finished = st.finished
  <2>1. CASE u = "Scheduled"
    <3>1. c = [st EXCEPT !.Scheduled = @ + 1]
      BY <2>1 DEF Count
    <3>2. ScheduledBy(u) = 1 /\ NewBy(u) = 0 /\ ProbingBy(u) = 0
      BY <2>1 DEF ScheduledBy, NewBy, ProbingBy
    <3>. HIDE DEF c
    <3>. QED  BY <3>1, <3>2 DEF Stat
  <2>2. CASE u = "Ignored"
    <3>1. c = [st EXCEPT !.Scheduled = @ - 1]
      BY <2>2 DEF Count
    <3>2. ScheduledBy(u) = -1 /\ NewBy(u) = 0 /\ ProbingBy(u) = 0
      BY <2>2 DEF ScheduledBy, NewBy, ProbingBy
    <3>. HIDE DEF c
    <3>. QED  BY <3>1, <3>2 DEF Stat
  <2>3. CASE u = "New"
    <3>1. c = [st EXCEPT !.Scheduled = @ - 1, !.New = @ + 1]
      BY <2>3 DEF Count
    <3>2. ScheduledBy(u) = -1 /\ NewBy(u) = 1 /\ ProbingBy(u) = 0
      BY <2>3 DEF ScheduledBy, NewBy, ProbingBy
    <3>. HIDE DEF c
    <3>. QED  BY <3>1, <3>2 DEF Stat
  <2>4. CASE u = "Probing"
    <3>1. c = [st EXCEPT !.New = @ - 1, !.Probing = @ + 1]
      BY <2>4 DEF Count
    <3>2. ScheduledBy(u) = 0 /\ NewBy(u) = -1 /\ ProbingBy(u) = 1
      BY <2>4 DEF ScheduledBy, NewBy, ProbingBy
    <3>. HIDE DEF c
    <3>. QED  BY <3>1, <3>2 DEF Stat
  <2>5. CASE u \in {"Found", "Timeout", "Blacklisted"}
    <3>1. c = [st EXCEPT !.Probing = @ - 1]
      BY <2>5 DEF Count
    <3>2. ScheduledBy(u) = 0 /\ NewBy(u) = 0 /\ ProbingBy(u) = -1
      BY <2>5 DEF ScheduledBy, NewBy, ProbingBy
    <3>. HIDE DEF c
    <3>. QED  BY <3>1, <3>2 DEF Stat
  <2>. QED  BY <2>1, <2>2, <2>3, <2>4, <2>5 DEF ItemUpdates
<1>5. handleUpdate(st, u) = Settle(c)
  BY <1>1 DEF handleUpdate
<1>. HIDE DEF c
<1>6. /\ Settle(c) \in Stat
      /\ Settle(c).Scheduled = c.Scheduled /\ Settle(c).New = c.New
      /\ Settle(c).Probing = c.Probing /\ Settle(c).finished = c.finished
      /\ Settle(c).state = c.state \/ (Settle(c).state = "idle" /\ Pipeline(c) = 0)
      /\ ~c.finished => Settle(c).state = c.state
  <2>1. CASE c.finished /\ c.state # "failed" /\ Pipeline(c) = 0
    <3>1. Settle(c) = [c EXCEPT !.state = "idle"]
      BY <2>1 DEF Settle
    <3>2. Settle(c) \in Stat
      BY <1>2, SettleType
    <3>. QED  BY <1>2, <2>1, <3>1, <3>2 DEF Stat
  <2>2. CASE ~(c.finished /\ c.state # "failed" /\ Pipeline(c) = 0)
    <3>1. Settle(c) = c
      BY <2>2 DEF Settle
    <3>. QED  BY <1>2, <3>1
  <2>. QED  BY <2>1, <2>2
<1>7. Pipeline(Settle(c)) = Pipeline(c)
  BY <1>6 DEF Pipeline
<1>. QED  BY <1>4, <1>5, <1>6, <1>7

\* A finish counts nothing, and a Stat becomes idle only with an empty pipeline.
LEMMA FinishCounts ==
  ASSUME NEW st \in Stat, st.state = "running", NEW u \in {"Finished", "FinishedErr"}
  PROVE  LET r == handleUpdate(st, u)
         IN  /\ r.Scheduled = st.Scheduled /\ r.New = st.New /\ r.Probing = st.Probing
             /\ \/ r.state = "running"
                \/ u = "FinishedErr" /\ r.state = "failed"
                \/ r.state = "idle" /\ Pipeline(r) = 0
<1>1. Known(st) = st
  BY DEF Known
<1>2. CASE u = "Finished"
  <2>1. handleUpdate(st, u) = Settle([st EXCEPT !.finished = TRUE])
    BY <1>1, <1>2 DEF handleUpdate, Count
  <2>. QED  BY <2>1 DEF Settle, Pipeline, Stat
<1>3. CASE u = "FinishedErr"
  <2>1. handleUpdate(st, u) = Settle([st EXCEPT !.finished = TRUE, !.state = "failed"])
    BY <1>1, <1>3 DEF handleUpdate, Count
  <2>. QED  BY <1>3, <2>1 DEF Settle, Pipeline, Stat
<1>. QED  BY <1>2, <1>3

\* A launch starts from zero.
LEMMA LaunchCounts ==
  ASSUME NEW st
  PROVE  handleUpdate(st, "Launched") = Launched
<1>1. Count(Known(st), "Launched") = Launched
  BY DEF Count
<1>2. Settle(Launched) = Launched
  BY DEF Settle, Launched
<1>. QED  BY <1>1, <1>2 DEF handleUpdate

\* A finished Stat that is left running has something in its pipeline.
LEMMA LeftRunning ==
  ASSUME NEW st \in Stat, NEW u \in Updates, IsRunning(handleUpdate(st, u)),
         handleUpdate(st, u).finished
  PROVE  Pipeline(handleUpdate(st, u)) # 0
<1>. DEFINE c == Count(Known(st), u)
<1>1. c \in Stat
  BY KnownType, CountType
<1>. HIDE DEF c
<1>2. IsRunning(Settle(c)) /\ Settle(c).finished => Pipeline(Settle(c)) # 0
  BY <1>1 DEF Settle, Stat, IsRunning
<1>. QED  BY <1>2 DEF handleUpdate, c

\* The end of a run is remembered.
LEMMA FinishIsKept ==
  ASSUME NEW st \in Stat, NEW u \in {"Finished", "FinishedErr"}
  PROVE  handleUpdate(st, u).finished
<1>. DEFINE k == Known(st)
            c == Count(k, u)
<1>1. k \in Stat
  BY KnownType
<1>2. c \in Stat
  BY <1>1, CountType DEF Updates
<1>. HIDE DEF k
<1>3. c.finished
  <2>1. CASE u = "Finished"
    <3>1. c = [k EXCEPT !.finished = TRUE]
      BY <2>1 DEF Count
    <3>. HIDE DEF c
    <3>. QED  BY <1>1, <3>1 DEF Stat
  <2>2. CASE u = "FinishedErr"
    <3>1. c = [k EXCEPT !.finished = TRUE, !.state = "failed"]
      BY <2>2 DEF Count
    <3>. HIDE DEF c
    <3>. QED  BY <1>1, <3>1 DEF Stat
  <2>. QED  BY <2>1, <2>2
<1>. HIDE DEF c
<1>4. Settle(c).finished
  BY <1>2, <1>3 DEF Settle, Stat
<1>. QED  BY <1>4 DEF handleUpdate, c, k
=============================================================================
