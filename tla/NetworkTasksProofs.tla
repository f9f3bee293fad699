--------------------------- MODULE NetworkTasksProofs ---------------------------
(***************************************************************************)
(* The task pool, the wall clock, and the firmware they are parts of, for  *)
(* any plugins, pool, socket set, queues, drivers, sleepers, epoch, delays *)
(* and width of the NTP seconds.                                           *)
(*                                                                         *)
(* The pool: no slot is leaked or lent twice.  Both queues hold each task  *)
(* once and in the state of waiting, so that a job taken from a queue is   *)
(* one more holder of a slot.                                              *)
(*                                                                         *)
(* The clock: what makes its accuracy inductive is the history of the      *)
(* reply under way, whose timestamp, once accepted, was the time at a      *)
(* moment since the request, because seconds that wrapped are rejected.    *)
(*                                                                         *)
(* The firmware: the slots and the clock keep beside everything else what  *)
(* was proved of them alone.  Whatever the sizes of the pool and of the    *)
(* socket set, it halts only when one of them is full: the stages of the   *)
(* start-up schedule order every system after those that provide what it   *)
(* claims, and a slot is refused only when the tasks that are alive have   *)
(* them all.                                                               *)
(***************************************************************************)
EXTENDS NetworkTasks, FiniteSetTheorems, TLAPS

-----------------------------------------------------------------------------
(* The task pool. *)

\* The tasks of f in state s, and that each waits once in queue q in state s.
In(f, S, s) == {x \in S : f[x] = s}

Waiting(q, f, s) ==
  /\ \A i \in 1..Len(q) : f[q[i]] = s
  /\ \A i, j \in 1..Len(q) : q[i] = q[j] => i = j

\* What SpawnTimer and SpawnConnection rely on.
Queued ==
  /\ Waiting(sleepQ, sleep, "sleeping")
  /\ Waiting(dialQ, dial, "queued")

\* The inductive invariant of ExecutorPool.
PoolInv == PoolTypeOK /\ Queued

-----------------------------------------------------------------------------
(* Lemmas about queues and counts. *)

LEMMA WaitingAppend ==
  ASSUME NEW S, NEW q \in Seq(S), NEW T, NEW f \in [S -> T], NEW s \in T, NEW x \in S,
         Waiting(q, f, s), f[x] # s
  PROVE  Waiting(Append(q, x), [f EXCEPT ![x] = s], s)
<1> DEFINE r == Append(q, x)
           g == [f EXCEPT ![x] = s]
<1>1. /\ Len(r) = Len(q) + 1 /\ r[Len(q) + 1] = x /\ Len(q) \in Nat
      /\ \A i \in 1..Len(q) : r[i] = q[i] /\ q[i] \in S
  OBVIOUS
<1>2. \A i \in 1..Len(q) : q[i] # x
  BY DEF Waiting
<1>3. \A y \in S : g[y] = IF y = x THEN s ELSE f[y]
  OBVIOUS
<1>4. \A i \in 1..Len(r) : i \in 1..Len(q) \/ i = Len(q) + 1
  BY <1>1
<1>5. \A i \in 1..Len(r) : g[r[i]] = s
  BY <1>1, <1>3, <1>4 DEF Waiting
<1>6. \A i, j \in 1..Len(r) : r[i] = r[j] => i = j
  BY <1>1, <1>2, <1>4 DEF Waiting
<1> QED
  BY <1>5, <1>6 DEF Waiting

LEMMA WaitingTail ==
  ASSUME NEW S, NEW q \in Seq(S), q # <<>>, NEW T, NEW f \in [S -> T], NEW s \in T,
         NEW t \in T, Waiting(q, f, s)
  PROVE  /\ Head(q) \in S /\ f[Head(q)] = s /\ Tail(q) \in Seq(S)
         /\ Len(Tail(q)) = Len(q) - 1 /\ Len(q) \in Nat
         /\ Waiting(Tail(q), [f EXCEPT ![Head(q)] = t], s)
<1> DEFINE r == Tail(q)
           g == [f EXCEPT ![Head(q)] = t]
<1>1. /\ Len(q) \in Nat /\ Len(q) > 0 /\ Head(q) = q[1] /\ q[1] \in S
      /\ r \in Seq(S) /\ Len(r) = Len(q) - 1
      /\ \A i \in 1..Len(r) : r[i] = q[i + 1] /\ r[i] \in S
  OBVIOUS
<1>2. \A i \in 1..Len(r) : i + 1 \in 1..Len(q) /\ i + 1 # 1
  BY <1>1
<1>3. 1 \in 1..Len(q)
  BY <1>1
<1>4. \A i \in 1..Len(r) : r[i] # Head(q)
  BY <1>1, <1>2, <1>3 DEF Waiting
<1>5. \A y \in S : y # Head(q) => g[y] = f[y]
  OBVIOUS
<1>6. \A i \in 1..Len(r) : g[r[i]] = s
  BY <1>1, <1>2, <1>4, <1>5 DEF Waiting
<1>7. \A i, j \in 1..Len(r) : r[i] = r[j] => i = j
  BY <1>1, <1>2 DEF Waiting
<1> QED
  BY <1>1, <1>3, <1>6, <1>7 DEF Waiting

\* A change of one task from a state that does not wait to another.
LEMMA WaitingOther ==
  ASSUME NEW S, NEW q \in Seq(S), NEW T, NEW f \in [S -> T], NEW s \in T,
         NEW x \in S, NEW t \in T, f[x] # s, Waiting(q, f, s)
  PROVE  Waiting(q, [f EXCEPT ![x] = t], s)
<1>1. \A i \in 1..Len(q) : q[i] \in S /\ q[i] # x
  BY DEF Waiting
<1> QED
  BY <1>1 DEF Waiting

\* Two subsets that differ in one element at most: their sizes.
LEMMA CountChange ==
  ASSUME NEW S, IsFiniteSet(S), NEW A \in SUBSET S, NEW B \in SUBSET S, NEW x \in S,
         B \ {x} = A \ {x}
  PROVE  /\ Cardinality(A) \in Nat /\ Cardinality(A) <= Cardinality(S)
         /\ Cardinality(B) = Cardinality(A) + (IF x \in B THEN 1 ELSE 0)
                                            - (IF x \in A THEN 1 ELSE 0)
         /\ x \in A => Cardinality(A) > 0
<1>1. IsFiniteSet(A) /\ Cardinality(A) \in Nat /\ Cardinality(A) <= Cardinality(S)
  BY FS_Subset, FS_CardinalityType
<1>2. x \in A => Cardinality(A) # 0
  BY <1>1, FS_EmptySet
<1>3. CASE x \in B
  <2>1. B = A \cup {x}
    BY <1>3
  <2>2. Cardinality(B) = IF x \in A THEN Cardinality(A) ELSE Cardinality(A) + 1
    BY <1>1, <2>1, FS_AddElement
  <2> QED
    BY <1>1, <1>2, <1>3, <2>2
<1>4. CASE x \notin B
  <2>1. B = A \ {x}
    BY <1>4
  <2>2. Cardinality(B) = IF x \in A THEN Cardinality(A) - 1 ELSE Cardinality(A)
    BY <1>1, <2>1, FS_RemoveElement
  <2> QED
    BY <1>1, <1>2, <1>4, <2>2
<1> QED
  BY <1>3, <1>4

-----------------------------------------------------------------------------
(* The slots. *)

\* The two parts of Holding, and how they change with one task.
LEMMA HoldingParts ==
  Holding = Cardinality(In(sleep, Sleepers, "timing")) + Cardinality(In(dial, Dials, "live"))
BY DEF Holding, In

LEMMA HoldingBound ==
  ASSUME PoolTypeOK
  PROVE  Holding \in Nat /\ Holding <= Cardinality(Sleepers) + Cardinality(Dials)
<1>1. In(sleep, Sleepers, "timing") \in SUBSET Sleepers
      /\ In(dial, Dials, "live") \in SUBSET Dials
  BY DEF In
<1>2. IsFiniteSet(Sleepers) /\ IsFiniteSet(Dials)
  BY PoolAssumption DEF PoolAssumption
<1>3. /\ Cardinality(In(sleep, Sleepers, "timing")) \in Nat
      /\ Cardinality(In(sleep, Sleepers, "timing")) <= Cardinality(Sleepers)
      /\ Cardinality(In(dial, Dials, "live")) \in Nat
      /\ Cardinality(In(dial, Dials, "live")) <= Cardinality(Dials)
      /\ Cardinality(Sleepers) \in Nat /\ Cardinality(Dials) \in Nat
  BY <1>1, <1>2, FS_Subset, FS_CardinalityType
<1> QED
  BY <1>3, HoldingParts

\* A sleeper's step from one state to another.
LEMMA SleeperMoves ==
  ASSUME PoolTypeOK, NEW s \in Sleepers,
         NEW t \in {"awake", "sleeping", "timing", "elapsed"},
         sleep' = [sleep EXCEPT ![s] = t], dial' = dial
  PROVE  /\ Holding' = Holding + (IF t = "timing" THEN 1 ELSE 0)
                               - (IF sleep[s] = "timing" THEN 1 ELSE 0)
         /\ Holding \in Nat /\ (sleep[s] = "timing" => Holding > 0)
<1> DEFINE A == In(sleep, Sleepers, "timing")
           B == In(sleep', Sleepers, "timing")
           K == In(dial, Dials, "live")
<1>1. IsFiniteSet(Sleepers) /\ IsFiniteSet(Dials)
  BY PoolAssumption DEF PoolAssumption
<1>2. /\ A \in SUBSET Sleepers /\ B \in SUBSET Sleepers /\ B \ {s} = A \ {s}
      /\ s \in A <=> sleep[s] = "timing"
      /\ s \in B <=> t = "timing"
  BY DEF In, PoolTypeOK
<1>3. Holding = Cardinality(A) + Cardinality(K)
      /\ Holding' = Cardinality(B) + Cardinality(K)
  BY DEF Holding, In
<1>4. K \in SUBSET Dials
  BY DEF In
<1> HIDE DEF A, B, K
<1>5. Cardinality(K) \in Nat
  BY <1>1, <1>4, FS_Subset, FS_CardinalityType
<1>6. /\ Cardinality(A) \in Nat
      /\ Cardinality(B) = Cardinality(A) + (IF s \in B THEN 1 ELSE 0)
                                         - (IF s \in A THEN 1 ELSE 0)
      /\ s \in A => Cardinality(A) > 0
  BY <1>1, <1>2, CountChange
<1> QED
  BY <1>2, <1>3, <1>5, <1>6

\* A dialling task's.
LEMMA DialMoves ==
  ASSUME PoolTypeOK, NEW d \in Dials, NEW t \in {"idle", "queued", "live"},
         dial' = [dial EXCEPT ![d] = t], sleep' = sleep
  PROVE  /\ Holding' = Holding + (IF t = "live" THEN 1 ELSE 0)
                               - (IF dial[d] = "live" THEN 1 ELSE 0)
         /\ Holding \in Nat /\ (dial[d] = "live" => Holding > 0)
<1> DEFINE A == In(dial, Dials, "live")
           B == In(dial', Dials, "live")
           K == In(sleep, Sleepers, "timing")
<1>1. IsFiniteSet(Dials) /\ IsFiniteSet(Sleepers)
  BY PoolAssumption DEF PoolAssumption
<1>2. /\ A \in SUBSET Dials /\ B \in SUBSET Dials /\ B \ {d} = A \ {d}
      /\ d \in A <=> dial[d] = "live"
      /\ d \in B <=> t = "live"
  BY DEF In, PoolTypeOK
<1>3. Holding = Cardinality(K) + Cardinality(A)
      /\ Holding' = Cardinality(K) + Cardinality(B)
  BY DEF Holding, In
<1>4. K \in SUBSET Sleepers
  BY DEF In
<1> HIDE DEF A, B, K
<1>5. Cardinality(K) \in Nat
  BY <1>1, <1>4, FS_Subset, FS_CardinalityType
<1>6. /\ Cardinality(A) \in Nat
      /\ Cardinality(B) = Cardinality(A) + (IF d \in B THEN 1 ELSE 0)
                                         - (IF d \in A THEN 1 ELSE 0)
      /\ d \in A => Cardinality(A) > 0
  BY <1>1, <1>2, CountChange
<1> QED
  BY <1>2, <1>3, <1>5, <1>6

\* Starting drivers: as many holders more as slots are asked for.
LEMMA StartersCount ==
  ASSUME PoolTypeOK, NEW S \in SUBSET (Drivers \ started)
  PROVE  /\ Cardinality(started) \in Nat /\ Cardinality(S) \in Nat
         /\ Cardinality(started \cup S) = Cardinality(started) + Cardinality(S)
<1>1. IsFiniteSet(Drivers) /\ started \in SUBSET Drivers /\ S \in SUBSET Drivers
  BY PoolAssumption DEF PoolAssumption, PoolTypeOK
<1>2. IsFiniteSet(started) /\ IsFiniteSet(S)
  BY <1>1, FS_Subset
<1>3. started \cap S = {}
  OBVIOUS
<1>4. Cardinality(started) \in Nat /\ Cardinality(S) \in Nat
  BY <1>2, FS_CardinalityType
<1>5. Cardinality(started \cup S)
        = Cardinality(started) + Cardinality(S) - Cardinality(started \cap S)
  BY <1>2, FS_Union
<1>6. Cardinality(started \cap S) = 0
  BY <1>3, FS_EmptySet
<1> QED
  BY <1>4, <1>5, <1>6

-----------------------------------------------------------------------------
(* The steps.  Demand is what the pool would lend if it were large enough. *)

Demand == 1 + Cardinality(started) + Holding

LEMMA DemandType == ASSUME PoolTypeOK PROVE Demand \in Nat
<1>1. started \in SUBSET Drivers /\ IsFiniteSet(Drivers)
  BY PoolAssumption DEF PoolAssumption, PoolTypeOK
<1> QED
  BY <1>1, HoldingBound, FS_Subset, FS_CardinalityType DEF Demand

LEMMA SpawnCounts ==
  ASSUME NEW n \in Nat, SpawnDrivers(n), PoolTypeOK, ~panicked, Demand' = used + n
  PROVE  /\ used' \in 1..Pool /\ panicked' \in BOOLEAN
         /\ panicked' <=> Demand' > Pool
         /\ ~panicked' => used' = Demand'
<1>1. panicked = FALSE /\ used \in Nat /\ 1 <= used /\ used <= Pool /\ Pool \in Nat
  BY PoolAssumption DEF PoolTypeOK, PoolAssumption
<1>2. CASE used + n <= Pool
  <2>1. used' = used + n /\ panicked' = FALSE
    BY <1>1, <1>2 DEF SpawnDrivers
  <2>2. ~(Demand' > Pool)
    BY <1>1, <1>2
  <2>3. used' \in 1..Pool
    BY <1>1, <1>2, <2>1
  <2> QED
    BY <2>1, <2>2, <2>3
<1>3. CASE ~(used + n <= Pool)
  <2>1. used' = used /\ panicked' = TRUE
    BY <1>1, <1>3 DEF SpawnDrivers
  <2>2. Demand' > Pool
    BY <1>1, <1>3
  <2> QED
    BY <1>1, <2>1, <2>2
<1> QED
  BY <1>2, <1>3

\* A step asks for as many slots as it adds to the demand, and returns the others.
LEMMA DriversDemand ==
  ASSUME PoolInv, ~panicked, NEW S, StartDrivers(S)
  PROVE  /\ PoolInv'
         /\ panicked' <=> Demand' > Pool
<1> USE DEF PoolInv
<1>1. /\ S \in SUBSET (Drivers \ started) /\ S # {} /\ started' = started \cup S
      /\ SpawnDrivers(Cardinality(S))
      /\ UNCHANGED <<inFrame, online, sleep, sleepQ, abandoned, dial, dialQ>>
  BY DEF StartDrivers
<1>2. Holding' = Holding /\ used = Demand /\ Demand \in Nat /\ Holding \in Nat
  BY <1>1, DemandType, HoldingBound DEF Holding, Demand, PoolTypeOK
<1>3. Cardinality(started') = Cardinality(started) + Cardinality(S)
      /\ Cardinality(started) \in Nat /\ Cardinality(S) \in Nat
  BY <1>1, StartersCount
<1>4. Demand' = used + Cardinality(S)
  BY <1>2, <1>3 DEF Demand
<1>5. Pool \in Nat /\ used \in 1..Pool
  BY PoolAssumption DEF PoolAssumption, PoolTypeOK
<1>6. /\ used' \in 1..Pool /\ panicked' \in BOOLEAN
      /\ panicked' <=> Demand' > Pool
      /\ ~panicked' => used' = Demand'
  BY <1>1, <1>3, <1>4, SpawnCounts
<1>7. started' \subseteq Drivers
  BY <1>1 DEF PoolTypeOK
<1>8. Queued'
  BY <1>1 DEF Queued, Waiting
<1> QED
  BY <1>1, <1>6, <1>7, <1>8 DEF PoolTypeOK, Demand

LEMMA TimerDemand ==
  ASSUME PoolInv, ~panicked, SpawnTimer
  PROVE  /\ PoolInv'
         /\ panicked' <=> Demand' > Pool
<1> USE DEF PoolInv
<1> DEFINE s == Head(sleepQ)
<1>1. /\ sleepQ # <<>> /\ sleepQ' = Tail(sleepQ)
      /\ sleep' = [sleep EXCEPT ![s] = "timing"] /\ SpawnDrivers(1)
      /\ UNCHANGED <<inFrame, started, online, abandoned, dial, dialQ>>
  BY DEF SpawnTimer
<1>2. /\ s \in Sleepers /\ sleep[s] = "sleeping" /\ sleepQ' \in Seq(Sleepers)
      /\ Len(sleepQ') = Len(sleepQ) - 1 /\ Len(sleepQ) \in Nat
      /\ Waiting(sleepQ', sleep', "sleeping")
  <2> DEFINE T == {"awake", "sleeping", "timing", "elapsed"}
  <2>1. /\ sleepQ \in Seq(Sleepers) /\ sleep \in [Sleepers -> T]
        /\ Waiting(sleepQ, sleep, "sleeping") /\ "sleeping" \in T /\ "timing" \in T
    BY DEF PoolTypeOK, Queued
  <2> HIDE DEF T
  <2> QED
    BY <1>1, <2>1, WaitingTail, ZenonT(60)
<1> HIDE DEF s
<1>3. Holding' = Holding + 1 /\ Holding \in Nat
  <2>1. "timing" \in {"awake", "sleeping", "timing", "elapsed"} /\ dial' = dial
    BY <1>1
  <2>2. Holding' = Holding + 1 - 0 /\ Holding \in Nat
    BY <1>1, <1>2, <2>1, SleeperMoves
  <2> QED
    BY <2>2
<1>4. used = Demand /\ Demand \in Nat /\ Pool \in Nat /\ used \in 1..Pool
  BY DemandType, PoolAssumption DEF Demand, PoolTypeOK, PoolAssumption
<1>5. Cardinality(started) \in Nat
  BY StartersCount
<1>6. Demand' = used + 1
  BY <1>1, <1>3, <1>4, <1>5 DEF Demand
<1>7. /\ used' \in 1..Pool /\ panicked' \in BOOLEAN
      /\ panicked' <=> Demand' > Pool
      /\ ~panicked' => used' = Demand'
  BY <1>1, <1>6, SpawnCounts
<1>8. Queued'
  BY <1>1, <1>2 DEF Queued, Waiting
<1>9. sleep' \in [Sleepers -> {"awake", "sleeping", "timing", "elapsed"}]
      /\ Len(sleepQ') <= SleepDepth
  BY <1>1, <1>2, PoolAssumption DEF PoolTypeOK, PoolAssumption
<1> QED
  BY <1>1, <1>2, <1>7, <1>8, <1>9 DEF PoolTypeOK, Demand

LEMMA ConnectionDemand ==
  ASSUME PoolInv, ~panicked, SpawnConnection
  PROVE  /\ PoolInv'
         /\ panicked' <=> Demand' > Pool
<1> USE DEF PoolInv
<1> DEFINE d == Head(dialQ)
<1>1. /\ dialQ # <<>> /\ dialQ' = Tail(dialQ)
      /\ dial' = [dial EXCEPT ![d] = "live"] /\ SpawnDrivers(1)
      /\ UNCHANGED <<inFrame, started, online, sleep, sleepQ, abandoned>>
  BY DEF SpawnConnection
<1>2. /\ d \in Dials /\ dial[d] = "queued" /\ dialQ' \in Seq(Dials)
      /\ Len(dialQ') = Len(dialQ) - 1 /\ Len(dialQ) \in Nat
      /\ Waiting(dialQ', dial', "queued")
  <2> DEFINE T == {"idle", "queued", "live"}
  <2>1. /\ dialQ \in Seq(Dials) /\ dial \in [Dials -> T]
        /\ Waiting(dialQ, dial, "queued") /\ "queued" \in T /\ "live" \in T
    BY DEF PoolTypeOK, Queued
  <2> HIDE DEF T
  <2> QED
    BY <1>1, <2>1, WaitingTail, ZenonT(60)
<1> HIDE DEF d
<1>3. Holding' = Holding + 1 /\ Holding \in Nat
  <2>1. "live" \in {"idle", "queued", "live"} /\ sleep' = sleep
    BY <1>1
  <2>2. Holding' = Holding + 1 - 0 /\ Holding \in Nat
    BY <1>1, <1>2, <2>1, DialMoves
  <2> QED
    BY <2>2
<1>4. used = Demand /\ Demand \in Nat /\ Pool \in Nat /\ used \in 1..Pool
  BY DemandType, PoolAssumption DEF Demand, PoolTypeOK, PoolAssumption
<1>5. Cardinality(started) \in Nat
  BY StartersCount
<1>6. Demand' = used + 1
  BY <1>1, <1>3, <1>4, <1>5 DEF Demand
<1>7. /\ used' \in 1..Pool /\ panicked' \in BOOLEAN
      /\ panicked' <=> Demand' > Pool
      /\ ~panicked' => used' = Demand'
  BY <1>1, <1>6, SpawnCounts
<1>8. Queued'
  BY <1>1, <1>2 DEF Queued, Waiting
<1>9. dial' \in [Dials -> {"idle", "queued", "live"}] /\ Len(dialQ') <= DialDepth
  BY <1>1, <1>2, PoolAssumption DEF PoolTypeOK, PoolAssumption
<1> QED
  BY <1>1, <1>2, <1>7, <1>8, <1>9 DEF PoolTypeOK, Demand

\* A task that ends returns its slot.
LEMMA EndsKeep ==
  ASSUME PoolInv, ~panicked,
         (\E s \in Sleepers : TimerEnds(s)) \/ (\E d \in Dials : ConnectionEnds(d))
  PROVE  PoolInv' /\ ~panicked'
<1> USE DEF PoolInv
<1>1. used = Demand /\ Demand \in Nat /\ used \in 1..Pool /\ Pool \in Nat
  BY DemandType, PoolAssumption DEF Demand, PoolTypeOK, PoolAssumption
<1>2. Cardinality(started) \in Nat
  BY StartersCount
<1>3. ASSUME NEW s \in Sleepers, TimerEnds(s) PROVE PoolInv' /\ ~panicked'
  <2> DEFINE t == IF s \in abandoned THEN "awake" ELSE "elapsed"
  <2>1. /\ sleep[s] = "timing" /\ sleep' = [sleep EXCEPT ![s] = t]
        /\ abandoned' = abandoned \ {s} /\ used' = used - 1
        /\ UNCHANGED <<started, sleepQ, dial, dialQ, panicked>>
        /\ UNCHANGED <<inFrame, online>>
    BY <1>3 DEF TimerEnds, Signalled
  <2>2. t \in {"awake", "elapsed"}
    OBVIOUS
  <2> HIDE DEF t
  <2>3. Holding' = Holding - 1 /\ Holding \in Nat /\ Holding > 0
    <3>1. t \in {"awake", "sleeping", "timing", "elapsed"} /\ t # "timing" /\ dial' = dial
      BY <2>1, <2>2
    <3>2. Holding' = Holding + 0 - 1 /\ Holding \in Nat /\ Holding > 0
      BY <2>1, <3>1, SleeperMoves
    <3> QED
      BY <3>2
  <2>4. Demand' = Demand - 1 /\ Demand > 1
    BY <1>2, <2>1, <2>3 DEF Demand
  <2>5. used' \in 1..Pool /\ used' = Demand'
    BY <1>1, <2>1, <2>4
  <2>6. Waiting(sleepQ', sleep', "sleeping")
    <3> DEFINE T == {"awake", "sleeping", "timing", "elapsed"}
    <3>1. /\ sleepQ \in Seq(Sleepers) /\ sleep \in [Sleepers -> T]
          /\ Waiting(sleepQ, sleep, "sleeping") /\ "sleeping" \in T /\ t \in T
          /\ sleep[s] # "sleeping"
      BY <2>1, <2>2 DEF PoolTypeOK, Queued
    <3> HIDE DEF T
    <3> QED
      BY <2>1, <3>1, WaitingOther
  <2>7. Queued'
    BY <2>1, <2>6 DEF Queued, Waiting
  <2>8. /\ sleep' \in [Sleepers -> {"awake", "sleeping", "timing", "elapsed"}]
        /\ abandoned' \subseteq Sleepers
        /\ \A x \in abandoned' : sleep'[x] \in {"sleeping", "timing"}
    BY <2>1, <2>2 DEF PoolTypeOK
  <2> QED
    BY <2>1, <2>5, <2>7, <2>8 DEF PoolTypeOK, Demand
<1>4. ASSUME NEW d \in Dials, ConnectionEnds(d) PROVE PoolInv' /\ ~panicked'
  <2>1. /\ dial[d] = "live" /\ dial' = [dial EXCEPT ![d] = "idle"]
        /\ used' = used - 1
        /\ UNCHANGED <<started, sleepQ, sleep, abandoned, dialQ, panicked>>
        /\ UNCHANGED <<inFrame, online>>
    BY <1>4 DEF ConnectionEnds
  <2>2. Holding' = Holding - 1 /\ Holding \in Nat /\ Holding > 0
    <3>1. "idle" \in {"idle", "queued", "live"} /\ sleep' = sleep
      BY <2>1
    <3>2. Holding' = Holding + 0 - 1 /\ Holding \in Nat /\ Holding > 0
      BY <2>1, <3>1, DialMoves
    <3> QED
      BY <3>2
  <2>3. Demand' = Demand - 1 /\ Demand > 1
    BY <1>2, <2>1, <2>2 DEF Demand
  <2>4. used' \in 1..Pool /\ used' = Demand'
    BY <1>1, <2>1, <2>3
  <2>5. Waiting(dialQ', dial', "queued")
    <3> DEFINE T == {"idle", "queued", "live"}
    <3>1. /\ dialQ \in Seq(Dials) /\ dial \in [Dials -> T]
          /\ Waiting(dialQ, dial, "queued") /\ "queued" \in T /\ "idle" \in T
          /\ dial[d] # "queued"
      BY <2>1 DEF PoolTypeOK, Queued
    <3> HIDE DEF T
    <3> QED
      BY <2>1, <3>1, WaitingOther
  <2>6. Queued'
    BY <2>1, <2>5 DEF Queued, Waiting
  <2> QED
    BY <2>1, <2>4, <2>6 DEF PoolTypeOK, Demand
<1> QED
  BY <1>3, <1>4

\* The steps that neither take nor return a slot.
LEMMA OthersKeep ==
  ASSUME PoolInv,
         \/ BeginFrame \/ EndFrame \/ GoOnline \/ UNCHANGED poolVars
         \/ \E s \in Sleepers : Sleep(s) \/ Wake(s) \/ Abandon(s)
         \/ \E d \in Dials : Dial(d)
  PROVE  PoolInv' /\ panicked' = panicked
<1> USE DEF PoolInv
<1>1. CASE BeginFrame \/ EndFrame \/ GoOnline \/ UNCHANGED poolVars
  <2>1. /\ UNCHANGED <<started, sleep, sleepQ, abandoned, dial, dialQ, used, panicked>>
        /\ inFrame' \in BOOLEAN /\ online' \in BOOLEAN
    BY <1>1 DEF BeginFrame, EndFrame, GoOnline, poolVars, PoolTypeOK
  <2>2. Holding' = Holding /\ Queued'
    BY <2>1 DEF Holding, Queued, Waiting
  <2> QED
    BY <2>1, <2>2 DEF PoolTypeOK
<1>2. ASSUME NEW s \in Sleepers, Sleep(s) \/ Wake(s) \/ Abandon(s)
      PROVE  PoolInv' /\ panicked' = panicked
  <2>1. UNCHANGED <<inFrame, started, online, dial, dialQ, used, panicked>>
    BY <1>2 DEF Sleep, Wake, Abandon
  <2> DEFINE T == {"awake", "sleeping", "timing", "elapsed"}
  <2>2. /\ sleepQ \in Seq(Sleepers) /\ sleep \in [Sleepers -> T]
        /\ Waiting(sleepQ, sleep, "sleeping") /\ "sleeping" \in T /\ "awake" \in T
    BY DEF PoolTypeOK, Queued
  <2>3. Waiting(dialQ', dial', "queued")
    BY <2>1 DEF Queued, Waiting
  <2>4. CASE /\ UNCHANGED <<sleep, sleepQ>> /\ abandoned' \subseteq abandoned \cup {s}
             /\ abandoned' = abandoned \/ sleep[s] \in {"sleeping", "timing"}
    <3>1. Holding' = Holding /\ Queued'
      BY <2>1, <2>4 DEF Holding, Queued, Waiting
    <3>2. /\ abandoned' \subseteq Sleepers
          /\ \A x \in abandoned' : sleep'[x] \in {"sleeping", "timing"}
      BY <2>4 DEF PoolTypeOK
    <3> QED
      BY <2>1, <2>4, <3>1, <3>2 DEF PoolTypeOK
  <2>5. CASE /\ sleep[s] = "awake" /\ Len(sleepQ) < SleepDepth
             /\ abandoned' = abandoned
             /\ sleepQ' = Append(sleepQ, s)
             /\ sleep' = [sleep EXCEPT ![s] = "sleeping"]
    <3> HIDE DEF T
    <3>1. Waiting(sleepQ', sleep', "sleeping")
      BY <2>2, <2>5, WaitingAppend
    <3>2. /\ sleepQ' \in Seq(Sleepers) /\ Len(sleepQ') = Len(sleepQ) + 1
          /\ Len(sleepQ) \in Nat /\ sleep' \in [Sleepers -> T]
      BY <2>2, <2>5
    <3>3. Holding' = Holding + 0 - 0 /\ Holding \in Nat
      BY <2>1, <2>5, SleeperMoves
    <3>4. Len(sleepQ') <= SleepDepth
      BY <2>5, <3>2, PoolAssumption DEF PoolAssumption
    <3>5. Queued' /\ Holding' = Holding
      BY <2>3, <3>1, <3>3 DEF Queued
    <3>6. \A x \in abandoned' : sleep'[x] \in {"sleeping", "timing"}
      BY <2>5 DEF PoolTypeOK
    <3> QED
      BY <2>1, <2>5, <3>2, <3>4, <3>5, <3>6 DEF PoolTypeOK, T
  <2>6. CASE /\ sleep[s] = "elapsed" /\ UNCHANGED <<sleepQ, abandoned>>
             /\ sleep' = [sleep EXCEPT ![s] = "awake"]
    <3> HIDE DEF T
    <3>1. Waiting(sleepQ', sleep', "sleeping")
      BY <2>2, <2>6, WaitingOther
    <3>2. sleep' \in [Sleepers -> T]
      BY <2>2, <2>6
    <3>3. Holding' = Holding + 0 - 0 /\ Holding \in Nat
      BY <2>1, <2>6, SleeperMoves
    <3>4. Queued' /\ Holding' = Holding
      BY <2>3, <3>1, <3>3 DEF Queued
    <3>5. \A x \in abandoned' : sleep'[x] \in {"sleeping", "timing"}
      BY <2>6 DEF PoolTypeOK
    <3> QED
      BY <2>1, <2>6, <3>2, <3>4, <3>5 DEF PoolTypeOK, T
  <2>7. CASE Abandon(s)
    <3>1. sleep[s] \in {"sleeping", "timing", "elapsed"}
      BY <2>2, <2>7 DEF Abandon
    <3> QED
      BY <2>4, <2>6, <2>7, <3>1 DEF Abandon
  <2> QED
    BY <1>2, <2>4, <2>5, <2>6, <2>7 DEF Sleep, Wake
<1>3. ASSUME NEW d \in Dials, Dial(d) PROVE PoolInv' /\ panicked' = panicked
  <2>1. /\ UNCHANGED <<inFrame, started, online, sleep, sleepQ, abandoned, used, panicked>>
        /\ dial[d] = "idle" /\ Len(dialQ) < DialDepth
        /\ dialQ' = Append(dialQ, d) /\ dial' = [dial EXCEPT ![d] = "queued"]
    BY <1>3 DEF Dial
  <2> DEFINE T == {"idle", "queued", "live"}
  <2>2. /\ dialQ \in Seq(Dials) /\ dial \in [Dials -> T]
        /\ Waiting(dialQ, dial, "queued") /\ "queued" \in T
    BY DEF PoolTypeOK, Queued
  <2> HIDE DEF T
  <2>3. Waiting(dialQ', dial', "queued")
    BY <2>1, <2>2, WaitingAppend
  <2>4. /\ dialQ' \in Seq(Dials) /\ Len(dialQ') = Len(dialQ) + 1
        /\ Len(dialQ) \in Nat /\ dial' \in [Dials -> T]
    BY <2>1, <2>2
  <2>5. Holding' = Holding + 0 - 0 /\ Holding \in Nat
    BY <2>1, DialMoves
  <2>6. Len(dialQ') <= DialDepth
    BY <2>1, <2>4, PoolAssumption DEF PoolAssumption
  <2>7. Queued' /\ Holding' = Holding
    BY <2>1, <2>3, <2>5 DEF Queued, Waiting
  <2> QED
    BY <2>1, <2>4, <2>6, <2>7 DEF PoolTypeOK, T
<1> QED
  BY <1>1, <1>2, <1>3

-----------------------------------------------------------------------------
(* The pool alone. *)

LEMMA PoolStarts == PoolInit => PoolInv
<1> SUFFICES ASSUME PoolInit PROVE PoolInv
  OBVIOUS
<1>1. In(sleep, Sleepers, "timing") = {} /\ In(dial, Dials, "live") = {}
  BY DEF PoolInit, In
<1>2. Holding = 0 + 0 /\ Cardinality(started) = 0
  BY <1>1, HoldingParts, FS_EmptySet DEF PoolInit
<1>3. Pool \in Nat /\ Pool > 0 /\ SleepDepth \in Nat /\ DialDepth \in Nat
  BY PoolAssumption DEF PoolAssumption
<1>4. /\ sleepQ \in Seq(Sleepers) /\ Len(sleepQ) = 0
      /\ dialQ \in Seq(Dials) /\ Len(dialQ) = 0
  BY DEF PoolInit
<1>5. Queued
  BY <1>4 DEF Queued, Waiting
<1>6. /\ Len(sleepQ) <= SleepDepth /\ Len(dialQ) <= DialDepth
      /\ used \in 1..Pool /\ used = 1 + Cardinality(started) + Holding
  BY <1>2, <1>3, <1>4 DEF PoolInit
<1> QED
  BY <1>4, <1>5, <1>6 DEF PoolInit, PoolInv, PoolTypeOK

\* Whatever steps the pool takes; only a demand above its size halts it.
LEMMA PoolKeeps ==
  ASSUME PoolInv, ~panicked, InFrame \/ BetweenFrames
  PROVE  PoolInv' /\ (panicked' => Demand' > Pool)
<1>1. ASSUME NEW S \in SUBSET Drivers, StartDrivers(S)
      PROVE  PoolInv' /\ (panicked' => Demand' > Pool)
  BY <1>1, DriversDemand
<1> QED
  BY <1>1, TimerDemand, ConnectionDemand, EndsKeep, OthersKeep DEF InFrame, BetweenFrames

\* spawn_driver and the tasks that end account for every slot, in any pool.
THEOREM PoolLendsExactly == PoolSpec => []PoolTypeOK
<1>1. PoolInv /\ [PoolNext]_poolVars => PoolInv'
  BY PoolKeeps, OthersKeep DEF PoolNext
<1>2. PoolInv => PoolTypeOK
  BY DEF PoolInv
<1> QED
  BY <1>1, <1>2, PoolStarts, PTL DEF PoolSpec

-----------------------------------------------------------------------------
(* The wall clock. *)

\* One rollover at most: the seconds of a packet.
LEMMA WrapOnce ==
  ASSUME NEW n \in Nat, NEW w \in Nat, 0 < w, n < 2 * w
  PROVE  n % w = IF n < w THEN n ELSE n - w
OBVIOUS

\* A time that does not run backwards stays after an anchor.
LEMMA StillAfter ==
  ASSUME NEW a \in Int, NEW u \in Nat, NEW v \in Nat, a + u >= 0, u <= v
  PROVE  a + v >= 0
OBVIOUS

\* The reply of an exchange that is still within its timeout: seconds that are
\* accepted were the true time since the request.
ReplyOfExchange ==
  /\ reply # "none" => task = "exchange"
  /\ task = "exchange" => timer <= Timeout
  /\ reply = "sent" /\ secs >= Offset => now - timer <= secs /\ secs <= now

\* The anchor is never after the time it was taken at, and at most one exchange
\* before it.
AnchorOfSync ==
  synced => anchor + uptime >= 0 /\ gap - Offset - anchor \in 0..Timeout

\* The inductive invariant of SntpClock.
ClockInv == ClockTypeOK /\ ReplyOfExchange /\ AnchorOfSync

LEMMA ClockAssumed ==
  /\ Offset \in Nat /\ Wrap \in Nat /\ Boot \in Nat /\ Timeout \in Nat
  /\ RetryDelay \in Nat /\ Resync \in Nat /\ MaxFaults \in Nat /\ MaxDrift \in Nat
  /\ 0 < Offset /\ Offset <= Boot /\ Boot < Wrap
  /\ \A h \in Horizons : h \in Nat /\ Boot <= h /\ h < Wrap + Offset
BY ClockAssumption DEF ClockAssumption

LEMMA ClockStarts == ClockInit => ClockInv
<1> SUFFICES ASSUME ClockInit PROVE ClockInv
  OBVIOUS
<1>1. /\ now \in Boot..horizon /\ 0 \in 0..MaxDrift /\ 0 \in 0..(Wrap - 1)
      /\ 0 \in 0..MaxFaults
  BY ClockAssumed DEF ClockInit
<1>2. /\ horizon \in Horizons /\ uptime \in Nat /\ timer \in Nat /\ drift \in 0..MaxDrift
      /\ secs \in 0..(Wrap - 1) /\ anchor \in Int /\ gap \in Int /\ faults \in 0..MaxFaults
  BY <1>1 DEF ClockInit
<1>3. ClockTypeOK
  BY <1>1, <1>2 DEF ClockInit, ClockTypeOK
<1>4. ReplyOfExchange /\ AnchorOfSync
  BY DEF ClockInit, ReplyOfExchange, AnchorOfSync
<1> QED
  BY <1>4, <1>3 DEF ClockInv

LEMMA FaultCounts ==
  ASSUME faults \in 0..MaxFaults, Fault PROVE faults' \in 0..MaxFaults
BY ClockAssumed DEF Fault

\* The station changes nothing the clock is made of.
LEMMA StationKeeps == ASSUME ClockInv, StationStep PROVE ClockInv'
<1>1. /\ UNCHANGED <<timeVars, anchorVars, task, timer, reply, secs>>
      /\ link' \in {"connecting", "backoff", "connected"} /\ config' \in BOOLEAN
      /\ Fault \/ UNCHANGED faults
  BY DEF StationStep, Connect, Reconnect, Disconnect, Configure, ClockInv, ClockTypeOK
<1>2. faults' \in 0..MaxFaults
  BY <1>1, FaultCounts DEF ClockInv, ClockTypeOK
<1> QED
  BY <1>1, <1>2 DEF ClockInv, ClockTypeOK, ReplyOfExchange, AnchorOfSync,
                    timeVars, anchorVars

\* A failed attempt leaves the anchor alone.
LEMMA FailureKeeps ==
  ASSUME ClockInv, Failed, Fault \/ UNCHANGED faults PROVE ClockInv'
<1>1. faults' \in 0..MaxFaults
  BY FaultCounts DEF ClockInv, ClockTypeOK
<1> QED
  BY <1>1, ClockAssumed
     DEF Failed, ClockInv, ClockTypeOK, ReplyOfExchange, AnchorOfSync,
         linkVars, timeVars, anchorVars

LEMMA SyncKeeps == ASSUME ClockInv, SyncStep PROVE ClockInv'
<1> USE DEF ClockInv
<1>1. CASE ConfigUp \/ Ask \/ NextAttempt
  BY <1>1, ClockAssumed
     DEF ConfigUp, Ask, NextAttempt, ClockTypeOK, ReplyOfExchange, AnchorOfSync,
         linkVars, timeVars, anchorVars
<1>2. CASE AskFails \/ Rejected \/ TimesOut
  <2>1. Failed /\ (Fault \/ UNCHANGED faults)
    BY <1>2 DEF AskFails, Rejected, TimesOut
  <2> QED
    BY <2>1, FailureKeeps
<1>3. CASE Answered
  <2>1. /\ reply = "sent" /\ secs >= Offset /\ task = "exchange"
        /\ anchor' = secs - Offset - uptime /\ synced' = TRUE /\ gap' = now - uptime
        /\ task' = "synced" /\ timer' = 0 /\ reply' = "none" /\ secs' = 0
        /\ UNCHANGED <<linkVars, timeVars, faults>>
    BY <1>3 DEF Answered
  <2>2. now - secs \in 0..Timeout
    BY <2>1, ClockAssumed DEF ReplyOfExchange, ClockTypeOK
  <2>3. AnchorOfSync'
    BY <2>1, <2>2, ClockAssumed DEF AnchorOfSync, ClockTypeOK, timeVars
  <2>4. ClockTypeOK'
    BY <2>1, ClockAssumed DEF ClockTypeOK, timeVars, linkVars
  <2> QED
    BY <2>1, <2>3, <2>4 DEF ReplyOfExchange
<1> QED
  BY <1>1, <1>2, <1>3 DEF SyncStep

LEMMA OutsideKeeps == ASSUME ClockInv, OutsideStep PROVE ClockInv'
<1> USE DEF ClockInv
<1>1. CASE ServerAnswers
  <2>1. /\ reply = "asked" /\ reply' = "sent" /\ secs' = now % Wrap
        /\ UNCHANGED <<linkVars, timeVars, anchorVars, task, timer, faults>>
    BY <1>1 DEF ServerAnswers
  <2>2. now \in Nat /\ now < 2 * Wrap /\ now < Wrap + Offset /\ 0 < Wrap
    BY ClockAssumed DEF ClockTypeOK
  <2>3. secs' = IF now < Wrap THEN now ELSE now - Wrap
    BY <2>1, <2>2, WrapOnce, ClockAssumed
  <2>4. secs' \in 0..(Wrap - 1) /\ (secs' >= Offset => secs' = now)
    BY <2>2, <2>3, ClockAssumed
  <2> QED
    BY <2>1, <2>2, <2>4
       DEF ClockTypeOK, ReplyOfExchange, AnchorOfSync, linkVars, timeVars, anchorVars
<1>2. CASE NetworkFails
  <2>1. /\ reply \in {"asked", "sent"} /\ reply' \in {"lost", "bad"} /\ secs' = 0
        /\ Fault \/ UNCHANGED faults
        /\ UNCHANGED <<linkVars, timeVars, anchorVars, task, timer>>
    BY <1>2 DEF NetworkFails
  <2>2. faults' \in 0..MaxFaults
    BY <2>1, FaultCounts DEF ClockTypeOK
  <2> QED
    BY <2>1, <2>2, ClockAssumed
       DEF ClockTypeOK, ReplyOfExchange, AnchorOfSync, linkVars, timeVars, anchorVars
<1>3. CASE Tick
  <2>1. /\ task = "exchange" => timer < Timeout
        /\ UNCHANGED <<linkVars, anchorVars, task, reply, secs, faults>>
    BY <1>3 DEF Tick
  <2>2. PICK d \in 0..2 :
          /\ d # 1 => task \in {"synced", "backoff"} /\ drift < MaxDrift
          /\ Pass(d)
          /\ timer' = IF task \in {"exchange", "synced", "backoff"}
                      THEN timer + d ELSE timer
    BY <1>3 DEF Tick
  <2>3. /\ horizon' = horizon /\ now' \in Boot..horizon /\ uptime' \in Nat
        /\ drift' \in 0..MaxDrift
        /\ now <= now' /\ now' <= now + 1 /\ uptime <= uptime'
    BY <2>2, ClockAssumed DEF Pass, ClockTypeOK, timeVars
  <2>4. timer' \in Nat /\ (task = "exchange" => timer' = timer + 1)
    BY <2>2 DEF ClockTypeOK
  <2>5. ClockTypeOK'
    BY <2>1, <2>3, <2>4 DEF ClockTypeOK, linkVars, anchorVars
  <2>6. ReplyOfExchange'
    <3>1. now \in Int /\ now' \in Int /\ secs \in Int /\ timer \in Int
      BY <2>3, ClockAssumed DEF ClockTypeOK
    <3>2. task = "exchange" => timer' = timer + 1 /\ timer + 1 <= Timeout
      BY <2>1, <2>4, <3>1, ClockAssumed
    <3>3. reply = "sent" => task = "exchange"
      BY DEF ReplyOfExchange
    <3> QED
      BY <2>1, <2>3, <3>1, <3>2, <3>3, ClockAssumed DEF ReplyOfExchange
  <2>7. AnchorOfSync'
    <3> SUFFICES ASSUME synced'
                 PROVE  anchor' + uptime' >= 0 /\ gap' - Offset - anchor' \in 0..Timeout
      BY DEF AnchorOfSync
    <3>1. synced /\ anchor' = anchor /\ gap' = gap
      BY <2>1 DEF anchorVars
    <3>2. anchor + uptime >= 0
      BY <3>1 DEF AnchorOfSync
    <3>3. gap - Offset - anchor \in 0..Timeout
      BY <3>1 DEF AnchorOfSync
    <3>4. anchor \in Int /\ uptime \in Nat /\ uptime' \in Nat
      BY <2>3 DEF ClockTypeOK
    <3>5. uptime <= uptime'
      BY <2>3
    <3>6. anchor + uptime' >= 0
      BY <3>2, <3>4, <3>5, StillAfter
    <3> QED
      BY <3>1, <3>3, <3>6
  <2> QED
    BY <2>5, <2>6, <2>7
<1> QED
  BY <1>1, <1>2, <1>3 DEF OutsideStep

LEMMA ClockKeeps == ASSUME ClockInv, [ClockNext]_clockVars PROVE ClockInv'
<1>1. CASE UNCHANGED clockVars
  BY <1>1 DEF ClockInv, ClockTypeOK, ReplyOfExchange, AnchorOfSync, clockVars,
              linkVars, timeVars, anchorVars
<1> QED
  BY <1>1, StationKeeps, SyncKeeps, OutsideKeeps DEF ClockNext

LEMMA AccurateFromInv == ClockInv => ClockAccurate
<1> SUFFICES ASSUME ClockInv, synced PROVE Behind \in 0..Timeout
  BY DEF ClockAccurate
<1>1. Reading = anchor + uptime
  BY DEF Reading, ClockInv, AnchorOfSync, ClockTypeOK
<1>2. Behind = gap - Offset - anchor
  BY <1>1, ClockAssumed DEF Behind, ClockInv, ClockTypeOK
<1> QED
  BY <1>2 DEF ClockInv, AnchorOfSync

\* Alone, with any network under it: what the now source serves is at most one
\* exchange behind the time and never ahead, apart from drift since the sync.
THEOREM ClockIsAccurate == ClockSpec => [](ClockTypeOK /\ ClockAccurate)
<1>1. ClockInv => ClockTypeOK /\ ClockAccurate
  BY AccurateFromInv DEF ClockInv
<1> QED
  BY <1>1, ClockStarts, ClockKeeps, PTL DEF ClockSpec

-----------------------------------------------------------------------------
(* The firmware. *)

\* What an application built with the plugins P can ever start and open.
DriversOf(P) ==
  {"sleep_driver", "connection_loop", "net_loop", "client_driver", "server_loop"}
  \cup (IF "sockets" \in P THEN {"socket_driver"} ELSE {})
  \cup (IF "alvik" \in P THEN {"alvik_driver"} ELSE {})
  \cup (IF "clock" \in P THEN {"clock_loop"} ELSE {})

SocketsOf(P) ==
  {"client", "server"} \cup (IF "mdns" \in P THEN {"mdns"} ELSE {})
                       \cup (IF "clock" \in P THEN {"clock"} ELSE {})
                       \cup (IF "sockets" \in P THEN Dials ELSE {})

\* A system that has not run finds what an earlier stage provided for it.
Provided ==
  /\ "bring_up" \notin booted => booted = {} /\ "PERIPHERALS" \in resources
  /\ "bring_up" \in booted =>
       /\ "start_wifi" \notin booted => "WIFI" \in resources
       /\ "spawn_alvik_driver" \notin booted => {"UART1", "GPIOs"} \subseteq resources
       /\ "claim_ws2812_drivers" \notin booted => {"RMT", "GPIO48"} \subseteq resources
  /\ "start_wifi" \in booted => "Stack" \in resources

\* Tasks and sockets are those of the plugins; the clock holds a socket only
\* while it waits for a reply.
Built ==
  /\ plugins \in Builds /\ booted \subseteq Present
  /\ started \subseteq DriversOf(plugins)
  /\ open \subseteq SocketsOf(plugins)
  /\ HeldSockets + Cardinality(open) <= StackSockets
  /\ \A d \in Dials : dial[d] # "idle" => "sockets" \in plugins
  /\ "clock" \in open => task = "exchange"

\* Until the start-up systems have run, the ECS does nothing else: no task sleeps
\* or dials, and the drivers they have started wait for the end of the first frame.
Calm ==
  /\ \A s \in Sleepers : sleep[s] = "awake"
  /\ \A d \in Dials : dial[d] = "idle"
  /\ started \subseteq Drivers \ {"server_loop"}

Booting ==
  ~Running => Calm /\ sleepQ = <<>> /\ dialQ = <<>> /\ (inFrame \/ started = {})

\* The inductive invariant of NetworkTasks.
NetInv == PoolInv /\ ClockInv /\ Built /\ Provided /\ Booting

-----------------------------------------------------------------------------
(* Lemmas about the plugins and the two tables. *)

LEMMA NetAssumed ==
  /\ StackSockets \in Nat /\ HeldSockets \in Nat /\ HeldSockets <= StackSockets
  /\ "client" \notin Dials /\ "clock" \notin Dials
  /\ IsFiniteSet(Drivers) /\ IsFiniteSet(Sleepers) /\ IsFiniteSet(Dials)
BY NetworkAssumption, PoolAssumption DEF NetworkAssumption, PoolAssumption

LEMMA DriversFinite ==
  ASSUME NEW P PROVE DriversOf(P) \subseteq Drivers /\ IsFiniteSet(DriversOf(P))
<1>1. DriversOf(P) \subseteq Drivers
  BY NetworkAssumption DEF NetworkAssumption, DriversOf
<1> QED
  BY <1>1, NetAssumed, FS_Subset

LEMMA SocketsFinite == ASSUME NEW P PROVE IsFiniteSet(SocketsOf(P))
<1>1. IsFiniteSet((((Dials \cup {"client"}) \cup {"clock"}) \cup {"server"}) \cup {"mdns"})
  BY NetAssumed, FS_AddElement
<1>2. SocketsOf(P) \subseteq
        (((Dials \cup {"client"}) \cup {"clock"}) \cup {"server"}) \cup {"mdns"}
  BY DEF SocketsOf
<1> QED
  BY <1>1, <1>2, FS_Subset

LEMMA OpenCount == ASSUME Built PROVE IsFiniteSet(open) /\ Cardinality(open) \in Nat
BY SocketsFinite, FS_Subset, FS_CardinalityType DEF Built

\* A socket of the build that is added to the set: it is there afterwards, or the
\* set was full.
LEMMA OpenKeeps ==
  ASSUME Built, NEW o \in SocketsOf(plugins), o \notin open, OpenSocket(o)
  PROVE  /\ open' \subseteq SocketsOf(plugins)
         /\ open' \subseteq open \cup {o}
         /\ HeldSockets + Cardinality(open') <= StackSockets
         /\ panicked' = panicked \/ (panicked' = TRUE /\ NoFreeSocket')
<1>1. /\ IsFiniteSet(open) /\ Cardinality(open) \in Nat
      /\ HeldSockets \in Nat /\ StackSockets \in Nat
      /\ HeldSockets + Cardinality(open) <= StackSockets
  BY OpenCount, NetAssumed DEF Built
<1>2. Cardinality(open \cup {o}) = Cardinality(open) + 1
  BY <1>1, FS_AddElement
<1>3. open \cup {o} \subseteq SocketsOf(plugins)
  BY DEF Built
<1>4. CASE HeldSockets + Cardinality(open) < StackSockets
  <2>1. open' = open \cup {o} /\ panicked' = panicked
    BY <1>4 DEF OpenSocket
  <2>2. HeldSockets + Cardinality(open') <= StackSockets
    BY <1>1, <1>2, <1>4, <2>1
  <2> QED
    BY <1>3, <2>1, <2>2
<1>5. CASE ~(HeldSockets + Cardinality(open) < StackSockets)
  <2>1. open' = open /\ panicked' = TRUE
    BY <1>5 DEF OpenSocket
  <2>2. HeldSockets + Cardinality(open) >= StackSockets
    BY <1>1, <1>5
  <2> QED
    BY <1>1, <2>1, <2>2 DEF Built, NoFreeSocket
<1> QED
  BY <1>4, <1>5

LEMMA CloseKeeps ==
  ASSUME Built, NEW o, open' = open \ {o}
  PROVE  /\ open' \subseteq SocketsOf(plugins)
         /\ HeldSockets + Cardinality(open') <= StackSockets
<1>1. /\ IsFiniteSet(open) /\ Cardinality(open) \in Nat
      /\ HeldSockets \in Nat /\ StackSockets \in Nat
      /\ HeldSockets + Cardinality(open) <= StackSockets
  BY OpenCount, NetAssumed DEF Built
<1>2. Cardinality(open') <= Cardinality(open) /\ Cardinality(open') \in Nat
  BY <1>1, FS_Subset, FS_CardinalityType
<1> QED
  BY <1>1, <1>2 DEF Built

\* One element more.
LEMMA OneMore ==
  ASSUME NEW A, NEW x, NEW n \in Nat, IsFiniteSet(A), Cardinality(A) <= n
  PROVE  IsFiniteSet(A \cup {x}) /\ Cardinality(A \cup {x}) <= n + 1
<1>1. Cardinality(A) \in Nat
  BY FS_CardinalityType
<1>2. /\ IsFiniteSet(A \cup {x})
      /\ Cardinality(A \cup {x}) = IF x \in A THEN Cardinality(A) ELSE Cardinality(A) + 1
  BY FS_AddElement
<1> QED
  BY <1>1, <1>2

\* The drivers of the start-up systems and the tick: eight slots.
BootFits == Calm /\ PoolTypeOK => Demand <= 8 /\ Demand \in Nat

LEMMA BootDemand == BootFits
<1> SUFFICES ASSUME Calm, PoolTypeOK PROVE Demand <= 8
  BY DemandType DEF BootFits
<1> DEFINE D2 == {"sleep_driver", "connection_loop"}
           D3 == D2 \cup {"net_loop"}
           D4 == D3 \cup {"client_driver"}
           D5 == D4 \cup {"socket_driver"}
           D6 == D5 \cup {"alvik_driver"}
           D7 == D6 \cup {"clock_loop"}
<1>1. started \subseteq D7
  BY NetworkAssumption DEF Calm, NetworkAssumption
<1>2. IsFiniteSet(D2) /\ Cardinality(D2) <= 2
  <2>1. {"sleep_driver"} \cup {"connection_loop"} = D2
    OBVIOUS
  <2>2. IsFiniteSet({"sleep_driver"}) /\ Cardinality({"sleep_driver"}) <= 1
    BY FS_Singleton
  <2>3. IsFiniteSet({"sleep_driver"} \cup {"connection_loop"})
        /\ Cardinality({"sleep_driver"} \cup {"connection_loop"}) <= 1 + 1
    BY <2>2, OneMore
  <2> QED
    BY <2>1, <2>3
<1> HIDE DEF D2
<1>3. IsFiniteSet(D3) /\ Cardinality(D3) <= 3
  <2>1. IsFiniteSet(D3) /\ Cardinality(D3) <= 2 + 1
    BY <1>2, OneMore
  <2> QED
    BY <2>1, FS_CardinalityType
<1> HIDE DEF D3
<1>4. IsFiniteSet(D4) /\ Cardinality(D4) <= 4
  <2>1. IsFiniteSet(D4) /\ Cardinality(D4) <= 3 + 1
    BY <1>3, OneMore
  <2> QED
    BY <2>1, FS_CardinalityType
<1> HIDE DEF D4
<1>5. IsFiniteSet(D5) /\ Cardinality(D5) <= 5
  <2>1. IsFiniteSet(D5) /\ Cardinality(D5) <= 4 + 1
    BY <1>4, OneMore
  <2> QED
    BY <2>1, FS_CardinalityType
<1> HIDE DEF D5
<1>6. IsFiniteSet(D6) /\ Cardinality(D6) <= 6
  <2>1. IsFiniteSet(D6) /\ Cardinality(D6) <= 5 + 1
    BY <1>5, OneMore
  <2> QED
    BY <2>1, FS_CardinalityType
<1> HIDE DEF D6
<1>7. IsFiniteSet(D7) /\ Cardinality(D7) <= 7
  <2>1. IsFiniteSet(D7) /\ Cardinality(D7) <= 6 + 1
    BY <1>6, OneMore
  <2> QED
    BY <2>1, FS_CardinalityType
<1>8. Cardinality(started) \in Nat /\ Cardinality(started) <= 7
  <2> HIDE DEF D7
  <2>1. Cardinality(started) <= Cardinality(D7) /\ IsFiniteSet(started)
    BY <1>1, <1>7, FS_Subset
  <2> QED
    BY <1>7, <2>1, FS_CardinalityType
<1>9. In(sleep, Sleepers, "timing") = {} /\ In(dial, Dials, "live") = {}
  BY DEF Calm, In
<1>10. Holding = 0
  BY <1>9, HoldingParts, FS_EmptySet
<1> QED
  BY <1>8, <1>10 DEF Demand

\* The tasks between two frames do nothing before the start-up systems have run.
LEMMA TasksRun ==
  ASSUME NetInv,
         \/ PoolStep \/ Exchange \/ ClockStep
         \/ \E o \in {"server", "mdns"} : Serves(o)
         \/ \E d \in Dials : Connects(d) \/ Disconnects(d)
  PROVE  Running
<1> SUFFICES ASSUME ~Running PROVE FALSE
  OBVIOUS
<1>1. /\ Calm /\ sleepQ = <<>> /\ dialQ = <<>> /\ (inFrame \/ started = {})
  BY DEF NetInv, Booting
<1>2. ~inFrame
  BY DEF PoolStep, GoOnline, SpawnTimer, SpawnConnection, TimerEnds, Exchange, ClockStep,
         Serves, Connects, Disconnects, ConnectionEnds
<1>3. ~PoolStep
  BY <1>1, <1>2 DEF PoolStep, GoOnline, SpawnTimer, SpawnConnection, TimerEnds, Calm
<1>4. ~Exchange /\ ~ClockStep /\ ~\E o \in {"server", "mdns"} : Serves(o)
  BY <1>1, <1>2 DEF Exchange, ClockStep, Serves
<1>5. ~\E d \in Dials : Connects(d) \/ Disconnects(d)
  BY <1>1 DEF Connects, Disconnects, ConnectionEnds, Calm
<1> QED
  BY <1>3, <1>4, <1>5

\* After start-up a demand above the pool is a panic with a reason.
LEMMA OverfullHalts ==
  ASSUME Running', panicked' => Demand' > Pool PROVE NoNeedlessPanic'
BY DEF NoNeedlessPanic, Overfull, Demand

\* Once the start-up systems have run they stay so.
LEMMA RunsOn ==
  ASSUME Running, UNCHANGED bootVars PROVE Running' /\ Booting'
BY DEF Running, Booting, Present, bootVars

\* A panic leaves the rest of the pool as it is.
LEMMA HaltKeeps ==
  ASSUME PoolInv, panicked' = panicked \/ panicked' = TRUE,
         UNCHANGED lentVars
  PROVE  PoolInv'
BY ZenonT(60) DEF PoolInv, PoolTypeOK, Queued, Waiting, Holding, lentVars
-----------------------------------------------------------------------------
(* The first frame. *)

\* The stages of the systems: bring_up first, the clock and the LEDs last.
LEMMA Ordered ==
  ASSUME NEW s \in Present, {t \in Present : Stage[t] < Stage[s]} \subseteq booted
  PROVE  /\ s # "bring_up" => "bring_up" \in booted
         /\ s \in {"spawn_clock", "claim_ws2812_drivers"} => "start_wifi" \in booted
<1>1. /\ Stage["bring_up"] = 0 /\ Stage["start_wifi"] = 1
      /\ Stage["spawn_alvik_driver"] = 1 /\ Stage["spawn_clock"] = 2
      /\ Stage["claim_ws2812_drivers"] = 2
  BY DEF Stage, Systems
<1>2. {"bring_up", "start_wifi"} \subseteq Present /\ Present \subseteq Systems
  BY DEF Present, Systems
<1>3. s \in {"bring_up", "start_wifi", "spawn_alvik_driver", "spawn_clock",
            "claim_ws2812_drivers"}
  BY <1>2 DEF Systems
<1>4. CASE s = "bring_up"
  BY <1>4
<1>5. CASE s \in {"start_wifi", "spawn_alvik_driver"}
  BY <1>1, <1>2, <1>5
<1>6. CASE s \in {"spawn_clock", "claim_ws2812_drivers"}
  BY <1>1, <1>2, <1>6
<1> QED
  BY <1>3, <1>4, <1>5, <1>6

\* What each system claims and reads, provides and starts.
LEMMA Tables ==
  /\ Claims["bring_up"] = {"PERIPHERALS"} /\ Claims["start_wifi"] = {"WIFI"}
  /\ Claims["spawn_alvik_driver"] = {"UART1", "GPIOs"} /\ Claims["spawn_clock"] = {}
  /\ Claims["claim_ws2812_drivers"] \subseteq {"RMT", "GPIO48"}
  /\ Reads["bring_up"] = {} /\ Reads["start_wifi"] = {}
  /\ Reads["spawn_alvik_driver"] = {} /\ Reads["spawn_clock"] = {"Stack"}
  /\ Reads["claim_ws2812_drivers"] = {}
  /\ Provides["bring_up"] = {"WIFI", "UART1", "GPIOs", "RMT", "GPIO48"}
  /\ Provides["start_wifi"] = {"Stack"}
BY DEF Claims, Reads, Provides, Systems

LEMMA StartsOfBuild ==
  ASSUME NEW s \in Present PROVE Starts[s] \subseteq DriversOf(plugins)
BY DEF Starts, Present, DriversOf

\* A start-up system finds what it claims, and leaves what the others claim.
LEMMA SystemFinds ==
  ASSUME NetInv, NEW s \in Present, RunSystem(s)
  PROVE  /\ Claims[s] \cup Reads[s] \subseteq resources
         /\ Provided'
<1>1. /\ s \notin booted /\ booted' = booted \cup {s}
      /\ {t \in Present : Stage[t] < Stage[s]} \subseteq booted
      /\ Claims[s] \cup Reads[s] \subseteq resources =>
           resources' = (resources \ Claims[s]) \cup Provides[s]
  BY DEF RunSystem
<1>2. /\ s # "bring_up" => "bring_up" \in booted
      /\ s \in {"spawn_clock", "claim_ws2812_drivers"} => "start_wifi" \in booted
  BY <1>1, Ordered
<1>3. s \in {"bring_up", "start_wifi", "spawn_alvik_driver", "spawn_clock",
            "claim_ws2812_drivers"}
  BY DEF Present
<1>4. Provided
  BY DEF NetInv
<1>5. Claims[s] \cup Reads[s] \subseteq resources
  BY <1>1, <1>2, <1>3, <1>4, Tables DEF Provided
<1>6. resources' = (resources \ Claims[s]) \cup Provides[s]
  BY <1>1, <1>5
<1>7. CASE s = "bring_up"
  BY <1>1, <1>4, <1>6, <1>7, Tables DEF Provided
<1>8. CASE s = "start_wifi"
  BY <1>1, <1>2, <1>4, <1>6, <1>8, Tables DEF Provided
<1>9. CASE s = "spawn_alvik_driver"
  BY <1>1, <1>2, <1>4, <1>6, <1>9, Tables DEF Provided
<1>10. CASE s = "spawn_clock"
  <2>1. Provides[s] = {}
    BY <1>10 DEF Provides, Systems
  <2> QED
    BY <1>1, <1>2, <1>4, <1>6, <1>10, <2>1, Tables DEF Provided
<1>11. CASE s = "claim_ws2812_drivers"
  BY <1>1, <1>2, <1>4, <1>6, <1>11, Tables DEF Provided
<1> QED
  BY <1>3, <1>5, <1>7, <1>8, <1>9, <1>10, <1>11

\* Drivers of the build that are started.
LEMMA StartKeeps ==
  ASSUME NetInv, ~panicked, NEW S, StartDrivers(S), S \subseteq DriversOf(plugins)
  PROVE  /\ PoolInv' /\ (panicked' => Demand' > Pool)
         /\ started' = started \cup S /\ started' \subseteq DriversOf(plugins)
         /\ UNCHANGED <<inFrame, sleep, sleepQ, dial, dialQ>>
<1>1. PoolInv' /\ (panicked' => Demand' > Pool)
  BY DriversDemand DEF NetInv
<1> QED
  BY <1>1 DEF StartDrivers, NetInv, Built

LEMMA SystemKeeps ==
  ASSUME NetInv, ~panicked, NEW s \in Present, RunSystem(s)
  PROVE  NetInv' /\ (Pool >= 8 => ~panicked')
<1>1. /\ booted' = booted \cup {s} /\ UNCHANGED <<plugins, clockVars, open>>
      /\ IF Starts[s] = {} THEN UNCHANGED poolVars ELSE StartDrivers(Starts[s])
      /\ Provided' /\ inFrame /\ s \notin booted
  BY SystemFinds DEF RunSystem
<1>2. Calm /\ sleepQ = <<>> /\ dialQ = <<>>
  BY <1>1 DEF NetInv, Booting, Running
<1>3. /\ PoolInv' /\ (panicked' => panicked \/ Demand' > Pool)
      /\ started' \subseteq started \cup Starts[s] /\ started' \subseteq DriversOf(plugins)
      /\ UNCHANGED <<inFrame, sleep, sleepQ, dial, dialQ>>
  <2>1. CASE Starts[s] = {}
    BY <1>1, <2>1, OthersKeep DEF NetInv, Built, poolVars
  <2>2. CASE Starts[s] # {}
    BY <1>1, <2>2, StartsOfBuild, StartKeeps
  <2> QED
    BY <2>1, <2>2
<1>4. Calm'
  <2>1. "server_loop" \notin Starts[s]
    BY DEF Starts, Present
  <2>2. DriversOf(plugins) \subseteq Drivers
    BY DriversFinite
  <2> QED
    BY <1>2, <1>3, <2>1, <2>2 DEF Calm
<1>5. Booting'
  BY <1>1, <1>2, <1>3, <1>4 DEF Booting
<1>6. ClockInv'
  BY <1>1, ClockKeeps DEF NetInv
<1>7. Built'
  BY <1>1, <1>3 DEF NetInv, Built, Present, clockVars
<1>8. Demand' <= 8 /\ Demand' \in Nat /\ Pool \in Nat
  <2>1. BootFits'
    BY BootDemand, PTL
  <2> QED
    BY <1>3, <1>4, <2>1, PoolAssumption DEF BootFits, PoolInv, PoolAssumption
<1>9. Pool >= 8 => ~(Demand' > Pool)
  BY <1>8
<1> QED
  BY <1>1, <1>3, <1>5, <1>6, <1>7, <1>9 DEF NetInv

-----------------------------------------------------------------------------
(* Every frame, and the tasks between two. *)

LEMMA EcsKeeps ==
  ASSUME NetInv, ~panicked, EcsStep PROVE NetInv' /\ NoNeedlessPanic'
<1>1. UNCHANGED <<clockVars, bootVars, open>> /\ Running' /\ Booting'
  BY RunsOn DEF EcsStep
<1>2. ClockInv' /\ Provided'
  BY <1>1, ClockKeeps DEF NetInv, Provided, bootVars
<1>3. CASE StartDrivers({"server_loop"})
  <2>1. {"server_loop"} \subseteq DriversOf(plugins)
    BY DEF DriversOf
  <2>2. /\ PoolInv' /\ started' \subseteq DriversOf(plugins) /\ dial' = dial
        /\ panicked' => Demand' > Pool
    BY <1>3, <2>1, StartKeeps
  <2>3. Built'
    BY <1>1, <2>2 DEF NetInv, Built, Present, bootVars, clockVars
  <2> QED
    BY <1>1, <1>2, <2>2, <2>3, OverfullHalts DEF NetInv
<1>4. ASSUME "sockets" \in plugins,
             \/ \E s \in Sleepers : Sleep(s) \/ Wake(s) \/ Abandon(s)
             \/ \E d \in Dials : Dial(d)
      PROVE  NetInv' /\ NoNeedlessPanic'
  <2>1. PoolInv' /\ panicked' = panicked
    BY <1>4, OthersKeep DEF NetInv
  <2>2. started' = started
    BY <1>4 DEF Sleep, Wake, Abandon, Dial
  <2>3. Built'
    BY <1>1, <1>4, <2>2 DEF NetInv, Built, Present, bootVars, clockVars
  <2> QED
    BY <1>1, <1>2, <2>1, <2>3 DEF NetInv, NoNeedlessPanic
<1> QED
  BY <1>3, <1>4 DEF EcsStep

LEMMA FrameKeeps == ASSUME NetInv, ~panicked, FrameStep PROVE NetInv' /\ ~panicked'
<1>1. /\ UNCHANGED <<clockVars, bootVars, open>>
      /\ BeginFrame \/ (Running /\ EndFrame)
  BY DEF FrameStep
<1>2. ClockInv' /\ Provided'
  BY <1>1, ClockKeeps DEF NetInv, Provided, bootVars
<1>3. PoolInv' /\ panicked' = panicked
  BY <1>1, OthersKeep DEF NetInv
<1>4. UNCHANGED <<started, sleep, sleepQ, dial, dialQ>>
  BY <1>1 DEF BeginFrame, EndFrame
<1>5. Built'
  BY <1>1, <1>4 DEF NetInv, Built, Present, bootVars, clockVars
<1>6. Booting'
  <2>1. CASE Running
    BY <1>1, <2>1, RunsOn
  <2>2. CASE ~Running
    <3>1. inFrame'
      BY <1>1, <2>2 DEF BeginFrame
    <3> QED
      BY <1>4, <2>2, <3>1 DEF NetInv, Booting, Calm
  <2> QED
    BY <2>1, <2>2
<1> QED
  BY <1>2, <1>3, <1>5, <1>6 DEF NetInv

LEMMA PoolStepKeeps ==
  ASSUME NetInv, ~panicked, PoolStep PROVE NetInv' /\ NoNeedlessPanic'
<1>1. UNCHANGED <<clockVars, bootVars, open>>
      /\ (GoOnline \/ SpawnTimer \/ SpawnConnection \/ \E s \in Sleepers : TimerEnds(s))
  BY DEF PoolStep
<1>2. ClockInv' /\ Provided'
  BY <1>1, ClockKeeps DEF NetInv, Provided, bootVars
<1>3. PoolInv' /\ (panicked' => Demand' > Pool)
  BY <1>1, PoolKeeps DEF NetInv, BetweenFrames
<1>4. started' = started
  BY <1>1 DEF GoOnline, SpawnTimer, SpawnConnection, TimerEnds
<1>5. \A d \in Dials : dial'[d] # "idle" => dial[d] # "idle"
  <2>1. CASE SpawnConnection
    <3>1. Head(dialQ) \in Dials /\ dial[Head(dialQ)] = "queued"
      <4>1. dialQ \in Seq(Dials) /\ dialQ # <<>> /\ Waiting(dialQ, dial, "queued")
        BY <2>1 DEF SpawnConnection, NetInv, PoolInv, PoolTypeOK, Queued
      <4>2. Head(dialQ) = dialQ[1] /\ 1 \in 1..Len(dialQ) /\ Head(dialQ) \in Dials
        BY <4>1
      <4> QED
        BY <4>1, <4>2 DEF Waiting
    <3> QED
      BY <2>1, <3>1 DEF SpawnConnection, NetInv, PoolInv, PoolTypeOK
  <2>2. CASE dial' = dial
    BY <2>2
  <2> QED
    BY <1>1, <2>1, <2>2 DEF GoOnline, SpawnTimer, TimerEnds
<1>6. Built'
  BY <1>1, <1>4, <1>5 DEF NetInv, Built, Present, bootVars, clockVars
<1>7. Running' /\ Booting'
  BY <1>1, TasksRun, RunsOn
<1> QED
  BY <1>2, <1>3, <1>6, <1>7, OverfullHalts DEF NetInv

LEMMA SocketsKeep ==
  ASSUME NetInv, ~panicked,
         \/ Exchange \/ \E o \in {"server", "mdns"} : Serves(o)
         \/ \E d \in Dials : Connects(d) \/ Disconnects(d)
  PROVE  NetInv' /\ NoNeedlessPanic'
<1>1. UNCHANGED <<clockVars, bootVars>> /\ started' = started
  BY DEF Exchange, Serves, Connects, Disconnects, ConnectionEnds, lentVars
<1>2. Running' /\ Booting'
  BY <1>1, TasksRun, RunsOn
<1>3. ClockInv' /\ Provided' /\ Built
  BY <1>1, ClockKeeps DEF NetInv, Provided, bootVars
<1>4. ASSUME NEW o \in SocketsOf(plugins), o # "clock", o \notin open, OpenSocket(o),
             UNCHANGED lentVars
      PROVE  NetInv' /\ NoNeedlessPanic'
  <2>1. /\ open' \subseteq SocketsOf(plugins) /\ open' \subseteq open \cup {o}
        /\ HeldSockets + Cardinality(open') <= StackSockets
        /\ panicked' = panicked \/ (panicked' = TRUE /\ NoFreeSocket')
    BY <1>3, <1>4, OpenKeeps
  <2>2. PoolInv'
    BY <1>4, <2>1, HaltKeeps DEF NetInv
  <2>3. Built'
    BY <1>1, <1>3, <1>4, <2>1 DEF Built, Present, bootVars, clockVars, lentVars
  <2> QED
    BY <1>3, <1>2, <2>1, <2>2, <2>3 DEF NetInv, NoNeedlessPanic
<1>5. ASSUME NEW d \in Dials, Connects(d) PROVE NetInv' /\ NoNeedlessPanic'
  <2>1. d \in SocketsOf(plugins) /\ d # "clock" /\ d \notin open
    BY <1>3, <1>5, NetAssumed DEF Connects, Built, SocketsOf
  <2> QED
    BY <1>4, <1>5, <2>1 DEF Connects
<1>6. ASSUME NEW o \in {"server", "mdns"}, Serves(o) PROVE NetInv' /\ NoNeedlessPanic'
  <2>1. o \in SocketsOf(plugins) /\ o # "clock" /\ o \notin open
    BY <1>6 DEF Serves, SocketsOf
  <2> QED
    BY <1>4, <1>6, <2>1 DEF Serves
<1>7. CASE Exchange /\ "client" \notin open
  <2>1. "client" \in SocketsOf(plugins)
    BY DEF SocketsOf
  <2> QED
    BY <1>4, <1>7, <2>1 DEF Exchange
<1>8. ASSUME NEW o, open' = open \ {o}, PoolInv', ~panicked',
             \A d \in Dials : dial'[d] # "idle" => dial[d] # "idle"
      PROVE  NetInv' /\ NoNeedlessPanic'
  <2>1. open' \subseteq SocketsOf(plugins)
        /\ HeldSockets + Cardinality(open') <= StackSockets
    BY <1>3, <1>8, CloseKeeps
  <2>2. Built'
    BY <1>1, <1>3, <1>8, <2>1 DEF Built, Present, bootVars, clockVars
  <2> QED
    BY <1>3, <1>8, <1>2, <2>2 DEF NetInv, NoNeedlessPanic
<1>9. CASE Exchange /\ "client" \in open
  <2>1. /\ open' = open \ {"client"} /\ dial' = dial /\ panicked' = panicked
        /\ UNCHANGED lentVars
    BY <1>9 DEF Exchange, lentVars
  <2>2. PoolInv'
    BY <2>1, HaltKeeps DEF NetInv
  <2> QED
    BY <1>8, <2>1, <2>2
<1>10. ASSUME NEW d \in Dials, Disconnects(d) PROVE NetInv' /\ NoNeedlessPanic'
  <2>1. ConnectionEnds(d) /\ open' = open \ {d}
    BY <1>10 DEF Disconnects
  <2>2. PoolInv' /\ ~panicked'
    BY <2>1, EndsKeep DEF NetInv
  <2>3. \A e \in Dials : dial'[e] # "idle" => dial[e] # "idle"
    BY <2>1 DEF ConnectionEnds, NetInv, PoolInv, PoolTypeOK
  <2> QED
    BY <1>8, <2>1, <2>2, <2>3
<1> QED
  BY <1>5, <1>7, <1>9, <1>10, <1>6

LEMMA ClockStepKeeps ==
  ASSUME NetInv, ~panicked, ClockStep PROVE NetInv' /\ NoNeedlessPanic'
<1>1. /\ "clock_loop" \in started /\ SyncStep /\ UNCHANGED bootVars
      /\ UNCHANGED lentVars /\ UNCHANGED <<started, dial>>
      /\ IF task' = "exchange"
         THEN OpenSocket("clock")
         ELSE open' = open \ {"clock"} /\ UNCHANGED panicked
  BY DEF ClockStep, lentVars
<1>2. ClockInv' /\ Provided' /\ Built
  BY <1>1, SyncKeeps DEF NetInv, Provided, bootVars
<1>3. Running' /\ Booting'
  BY <1>1, TasksRun, RunsOn
<1>4. "clock" \in SocketsOf(plugins)
  <2>1. "clock" \in plugins
    BY <1>1, <1>2 DEF Built, DriversOf
  <2> QED
    BY <2>1 DEF SocketsOf
<1>5. CASE task' = "exchange"
  <2>1. "clock" \notin open
    BY <1>1, <1>2, <1>5
       DEF SyncStep, ConfigUp, Ask, AskFails, Answered, Rejected, TimesOut,
           NextAttempt, Failed, Built
  <2>2. /\ open' \subseteq SocketsOf(plugins)
        /\ HeldSockets + Cardinality(open') <= StackSockets
        /\ panicked' = panicked \/ (panicked' = TRUE /\ NoFreeSocket')
    BY <1>1, <1>2, <1>4, <1>5, <2>1, OpenKeeps
  <2>3. PoolInv'
    BY <1>1, <2>2, HaltKeeps DEF NetInv
  <2>4. Built'
    BY <1>1, <1>2, <1>5, <2>2 DEF Built, Present, bootVars
  <2> QED
    BY <1>2, <1>3, <2>2, <2>3, <2>4 DEF NetInv, NoNeedlessPanic
<1>6. CASE task' # "exchange"
  <2>1. open' = open \ {"clock"} /\ panicked' = panicked
    BY <1>1, <1>6
  <2>2. /\ open' \subseteq SocketsOf(plugins)
        /\ HeldSockets + Cardinality(open') <= StackSockets
    BY <1>2, <2>1, CloseKeeps
  <2>3. PoolInv'
    BY <1>1, <2>1, HaltKeeps DEF NetInv
  <2>4. Built'
    BY <1>1, <1>2, <2>1, <2>2 DEF Built, Present, bootVars
  <2> QED
    BY <1>2, <1>3, <2>1, <2>3, <2>4 DEF NetInv, NoNeedlessPanic
<1> QED
  BY <1>5, <1>6

LEMMA OutsideStepKeeps ==
  ASSUME NetInv, LinkStep \/ Outside \/ UNCHANGED allVars
  PROVE  NetInv' /\ (~panicked => ~panicked') /\ (NoNeedlessPanic => NoNeedlessPanic')
<1>1. /\ UNCHANGED <<poolVars, bootVars, open>>
      /\ StationStep \/ OutsideStep \/ UNCHANGED clockVars
  BY DEF LinkStep, Outside, allVars
<1>2. ClockInv' /\ task' = task
  <2>1. ClockInv'
    BY <1>1, StationKeeps, OutsideKeeps, ClockKeeps DEF NetInv
  <2>2. task' = task
    BY <1>1 DEF StationStep, Connect, Reconnect, Disconnect, Configure,
                OutsideStep, ServerAnswers, NetworkFails, Tick, clockVars
  <2> QED
    BY <2>1, <2>2
<1>3. PoolInv' /\ panicked' = panicked
  BY <1>1, OthersKeep DEF NetInv
<1>4. Built' /\ Provided' /\ Booting'
  BY <1>1, <1>2
     DEF NetInv, Built, Provided, Booting, Calm, Running, Present, poolVars, bootVars
<1>5. NoNeedlessPanic => NoNeedlessPanic'
  BY <1>1, <1>3
     DEF NoNeedlessPanic, Running, Overfull, NoFreeSocket, Holding, Present, poolVars, bootVars
<1> QED
  BY <1>2, <1>3, <1>4, <1>5 DEF NetInv

LEMMA NetStarts == NetInit => NetInv /\ ~panicked
<1> SUFFICES ASSUME NetInit PROVE NetInv /\ ~panicked
  OBVIOUS
<1>1. PoolInv /\ ClockInv /\ ~panicked
  BY PoolStarts, ClockStarts DEF NetInit, PoolInit
<1>2. HeldSockets + Cardinality(open) <= StackSockets
  <2>1. Cardinality(open) = 0
    BY FS_EmptySet DEF NetInit
  <2> QED
    BY <2>1, NetAssumed
<1>3. Built /\ Provided /\ Booting
  BY <1>2 DEF NetInit, PoolInit, Built, Provided, Booting, Calm
<1> QED
  BY <1>1, <1>3 DEF NetInv

LEMMA NetKeeps ==
  ASSUME NetInv, [NetNext]_allVars
  PROVE  NetInv' /\ (Pool >= 8 /\ NoNeedlessPanic => NoNeedlessPanic')
<1>1. CASE UNCHANGED allVars
  BY <1>1, OutsideStepKeeps
<1>2. CASE NetNext
  <2>1. ~panicked
    BY <1>2 DEF NetNext
  <2>2. CASE \E s \in Present : RunSystem(s)
    BY <2>1, <2>2, SystemKeeps DEF NoNeedlessPanic
  <2>3. CASE FrameStep
    BY <2>1, <2>3, FrameKeeps DEF NoNeedlessPanic
  <2> QED
    BY <1>2, <2>1, <2>2, <2>3, EcsKeeps, PoolStepKeeps, SocketsKeep,
       ClockStepKeeps, OutsideStepKeeps DEF NetNext, AsyncStep
<1> QED
  BY <1>1, <1>2

-----------------------------------------------------------------------------
(* Theorems. *)

LEMMA NetAlways == NetSpec => []NetInv
<1>1. NetInv /\ [NetNext]_allVars => NetInv'
  BY NetKeeps
<1>2. NetInit => NetInv
  BY NetStarts
<1> QED
  BY <1>1, <1>2, PTL DEF NetSpec

\* Types, and no slot of the pool and no socket of the stack is leaked or lent
\* beyond the tables, whatever their sizes.
THEOREM NetTypeCorrect == NetSpec => []NetTypeOK
<1>1. NetInv => NetTypeOK
  BY DEF NetInv, PoolInv, ClockInv, Built, NetTypeOK, SocketsOf
<1> QED
  BY <1>1, NetAlways, PTL

\* The clock stays within one exchange of the time beside everything else.
THEOREM NetClockAccurate == NetSpec => []ClockAccurate
<1>1. NetInv => ClockAccurate
  BY AccurateFromInv DEF NetInv
<1> QED
  BY <1>1, NetAlways, PTL

\* For tables of any size, with a slot for each driver of the start-up systems: no
\* start-up system panics, and afterwards spawn_driver and the socket set panic only
\* when the tasks that are alive hold every slot, or every socket is open.
THEOREM FirmwareHaltsOnlyWhenFull ==
  ASSUME Pool >= 8 PROVE NetSpec => []NoNeedlessPanic
<1>1. NetInit => NetInv /\ NoNeedlessPanic
  BY NetStarts DEF NoNeedlessPanic
<1>2. NetInv /\ NoNeedlessPanic /\ [NetNext]_allVars => NetInv' /\ NoNeedlessPanic'
  BY NetKeeps
<1> QED
  BY <1>1, <1>2, PTL DEF NetSpec
=============================================================================
