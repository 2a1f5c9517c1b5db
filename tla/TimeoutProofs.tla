---------------------------- MODULE TimeoutProofs ----------------------------
(***************************************************************************)
(* What holds of the timeout policy for every set of jobs, every budget    *)
(* and every grace period.                                                 *)
(*                                                                         *)
(* TimeoutTypeOK says that an entry waits for the kill exactly when its    *)
(* job was told to stop.  To be kept by Admit that needs a job that is not *)
(* tracked yet to be untold, and to give GraceIsGiven it needs the entry   *)
(* to hold the time it was told plus the grace: TimeInv adds both.         *)
(***************************************************************************)
EXTENDS TimeoutPolicy, FiniteSetTheorems, Induction, TLAPS

\* Only a job that is or was tracked has been told.
ToldWereTracked ==
  \A j \in Jobs : told[j] # Never => j \in DOMAIN tracking \cup finished

\* The kill deadline is kept in the entry, counted from when the job was told.
GraceInEntry ==
  \A j \in DOMAIN tracking :
    tracking[j].state = "WaitingForKillGrace" =>
      tracking[j].due = told[j] + Ticks(Grace)

TimeInv ==
  /\ TimeoutTypeOK
  /\ IsFiniteSet(DOMAIN tracking)
  /\ ToldWereTracked
  /\ GraceInEntry

-----------------------------------------------------------------------------
(***************************************************************************)
(* The least of the milliseconds left.                                     *)
(***************************************************************************)

LEMMA TicksType == \A ms \in Nat : Ticks(ms) \in Nat
  BY TimesAssumption DEF Ticks

\* "as i32" gives an integer, and the number itself below 2^31.
LEMMA AsI32Facts ==
  ASSUME NEW n \in Nat
  PROVE  AsI32(n) \in Int /\ (n < Half => AsI32(n) = n)
  <1>1. (n + Half) % (2 * Half) \in Int
    BY TimesAssumption
  <1>2. n < Half => (n + Half) % (2 * Half) = n + Half
    BY TimesAssumption
  <1> QED
    BY <1>1, <1>2, TimesAssumption DEF AsI32

\* The milliseconds to a deadline, rounded down.
LEMMA WholeMs ==
  ASSUME NEW d \in Nat
  PROVE  /\ d \div TicksPerMs \in Nat
         /\ Ticks(d \div TicksPerMs) <= d
         /\ d < Ticks(Half) => d \div TicksPerMs < Half
  BY TimesAssumption DEF Ticks

\* What an entry contributes: it never leads past the entry's deadline.
LEMMA MsLeftFacts ==
  ASSUME TimeoutTypeOK, NEW j \in DOMAIN tracking
  PROVE  /\ MsLeft(j) \in Int
         /\ tracking[j].due - clock < Ticks(Half) =>
              /\ MsLeft(j) >= 0
              /\ clock + Ticks(MsLeft(j)) <=
                   (IF tracking[j].due > clock THEN tracking[j].due ELSE clock)
  <1>1. clock \in Nat /\ tracking[j].due \in Nat
    BY DEF TimeoutTypeOK, Entry
  <1> DEFINE d == tracking[j].due - clock
  <1>2. CASE tracking[j].due > clock
    <2>1. d \in Nat
      BY <1>1, <1>2
    <2> HIDE DEF d
    <2>2. /\ d \div TicksPerMs \in Nat
          /\ Ticks(d \div TicksPerMs) <= d
          /\ d < Ticks(Half) => d \div TicksPerMs < Half
      BY <2>1, WholeMs
    <2>3. MsLeft(j) = AsI32(d \div TicksPerMs)
      BY <1>2 DEF MsLeft, d
    <2>4. MsLeft(j) \in Int /\ (d < Ticks(Half) => MsLeft(j) = d \div TicksPerMs)
      BY <2>2, <2>3, AsI32Facts
    <2>5. d < Ticks(Half) => MsLeft(j) >= 0 /\ Ticks(MsLeft(j)) <= d
      BY <2>2, <2>4
    <2>6. Ticks(MsLeft(j)) \in Int
      BY <2>4, TimesAssumption DEF Ticks
    <2> QED
      BY <1>1, <1>2, <2>4, <2>5, <2>6 DEF d
  <1>3. CASE ~(tracking[j].due > clock)
    <2>1. MsLeft(j) = 0 /\ Ticks(0) = 0
      BY <1>3, TimesAssumption DEF MsLeft, Ticks
    <2> QED
      BY <1>1, <1>3, <2>1
  <1> QED
    BY <1>2, <1>3

\* The loop over the entries has a result after each turn.
LEMMA TurnsExist ==
  ASSUME NEW n \in Nat, NEW ms \in [1..n -> Int]
  PROVE  \E min \in [0..n -> Int] :
           /\ min[0] = -1
           /\ \A i \in 1..n : min[i] = Smaller(min[i - 1], ms[i])
  <1> DEFINE turn == [i \in 1..n |-> [min \in Int |-> Smaller(min, ms[i])]]
  <1>1. turn \in [1..n -> [Int -> Int]]
    BY DEF Smaller
  <1>2. \A i \in 1..n, min \in Int : turn[i][min] = Smaller(min, ms[i])
    OBVIOUS
  <1> DEFINE none == -1
  <1>3. none \in Int
    OBVIOUS
  <1> HIDE DEF turn, none
  <1>4. PICK min : IsRun(min, Int, none, n, turn)
    BY <1>1, <1>3, LoopRuns, Zenon
  <1>5. \A i \in 1..n : min[i - 1] \in Int
    BY <1>4 DEF IsRun
  <1> QED
    BY <1>2, <1>4, <1>5, SMTT(30) DEF IsRun, none

\* ComputeTimeout is the least of what the entries contribute, and none at all
\* when there are none, in whatever order they are looked at.
LEMMA LeastMsLeft ==
  ASSUME TimeInv, NEW order \in Orders(DOMAIN tracking)
  PROVE  /\ ComputeTimeout(order) \in Int
         /\ DOMAIN tracking = {} => ComputeTimeout(order) = -1
         /\ (DOMAIN tracking # {} /\ \A j \in DOMAIN tracking : MsLeft(j) >= 0) =>
              /\ ComputeTimeout(order) >= 0
              /\ \A j \in DOMAIN tracking : ComputeTimeout(order) <= MsLeft(j)
  <1> DEFINE n == Cardinality(DOMAIN tracking)
             ms == [i \in 1..n |-> MsLeft(order[i])]
  <1>1. n \in Nat /\ (n = 0 <=> DOMAIN tracking = {})
    BY FS_CardinalityType, FS_EmptySet DEF TimeInv
  <1> HIDE DEF n
  <1>2. /\ order \in [1..n -> DOMAIN tracking]
        /\ order \in Injection(1..n, DOMAIN tracking)
    BY DEF Orders, n, Injection, IsInjective
  <1>3. Cardinality(1..n) = n /\ DOMAIN order = 1..n
    BY <1>1, <1>2, FS_Interval
  <1>4. \A j \in DOMAIN tracking : \E i \in 1..n : order[i] = j
    <2>1. order \in Surjection(1..n, DOMAIN tracking)
      BY <1>2, <1>3, FS_Injection DEF TimeInv, n
    <2> QED
      BY <2>1 DEF Surjection
  <1>5. ms \in [1..n -> Int]
    BY <1>2, MsLeftFacts DEF TimeInv
  <1> DEFINE Turns(min) ==
               min = [i \in 0..n |-> IF i = 0 THEN -1
                                     ELSE Smaller(min[i - 1], MsLeft(order[i]))]
             least == CHOOSE min : Turns(min)
  <1>6. Turns(least)
    <2>1. PICK min \in [0..n -> Int] :
            /\ min[0] = -1
            /\ \A i \in 1..n : min[i] = Smaller(min[i - 1], ms[i])
      BY <1>1, <1>5, TurnsExist
    <2>2. \A i \in 0..n : min[i] = IF i = 0 THEN -1
                                   ELSE Smaller(min[i - 1], MsLeft(order[i]))
      BY <1>1, <2>1
    <2>3. Turns(min)
      BY <2>2
    <2> QED
      BY <2>3, Zenon
  <1>7. ComputeTimeout(order) = least[n]
    BY <1>3, Zenon DEF ComputeTimeout
  <1> HIDE DEF least
  <1>8. /\ least[0] = -1
        /\ \A i \in 1..n : least[i] = Smaller(least[i - 1], MsLeft(order[i]))
    BY <1>1, <1>6
  <1> DEFINE Bounds(i) ==
               (i > 0 /\ \A j \in DOMAIN tracking : MsLeft(j) >= 0) =>
                 /\ least[i] >= 0
                 /\ \A k \in 1..i : least[i] <= MsLeft(order[k])
             T == {i \in Nat : i <= n => least[i] \in Int /\ Bounds(i)}
  <1>9. n \in T
    <2>1. 0 \in T
      BY <1>8
    <2>2. ASSUME NEW i \in Nat, i \in T PROVE i + 1 \in T
      <3> SUFFICES ASSUME i + 1 <= n
                   PROVE  least[i + 1] \in Int /\ Bounds(i + 1)
        <4> HIDE DEF Bounds
        <4> QED
          OBVIOUS
      <3>1. least[i] \in Int /\ Bounds(i)
        <4> HIDE DEF Bounds
        <4> QED
          BY <1>1, <2>2
      <3>2. least[i + 1] = Smaller(least[i], MsLeft(order[i + 1]))
        BY <1>1, <1>8
      <3>3. MsLeft(order[i + 1]) = ms[i + 1] /\ ms[i + 1] \in Int
        BY <1>1, <1>5
      <3>4. \A k \in 1..i : MsLeft(order[k]) = ms[k] /\ ms[k] \in Int
        BY <1>1, <1>5
      <3>5. order[i + 1] \in DOMAIN tracking
        BY <1>1, <1>2
      <3>6. CASE i = 0
        BY <1>8, <3>2, <3>3, <3>5, <3>6 DEF Smaller
      <3>7. CASE i > 0
        <4>1. least[i + 1] \in Int
          BY <3>1, <3>2, <3>3 DEF Smaller
        <4>2. ASSUME \A j \in DOMAIN tracking : MsLeft(j) >= 0
              PROVE  /\ least[i + 1] >= 0
                     /\ \A k \in 1..(i + 1) : least[i + 1] <= MsLeft(order[k])
          <5>1. /\ least[i] >= 0
                /\ \A k \in 1..i : least[i] <= ms[k]
            BY <3>1, <3>4, <3>7, <4>2
          <5>2. ms[i + 1] >= 0
            BY <3>3, <3>5, <4>2
          <5>3. /\ least[i + 1] >= 0
                /\ least[i + 1] <= ms[i + 1] /\ least[i + 1] <= least[i]
            BY <3>1, <3>2, <3>3, <5>1, <5>2 DEF Smaller
          <5> HIDE DEF ms
          <5>4. \A k \in 1..i : least[i + 1] <= ms[k]
            BY <3>1, <3>4, <4>1, <5>1, <5>3
          <5> QED
            BY <3>3, <3>4, <5>3, <5>4
        <4> QED
          BY <4>1, <4>2
      <3> QED
        BY <3>6, <3>7
    <2> HIDE DEF T
    <2> QED
      BY <1>1, <2>1, <2>2, SetInduction
  <1>10. least[n] \in Int /\ Bounds(n)
    BY <1>1, <1>9
  <1> QED
    BY <1>1, <1>4, <1>7, <1>8, <1>10

-----------------------------------------------------------------------------
(***************************************************************************)
(* TimeInv and SleepsUntilFirstDeadline are kept by every step.            *)
(***************************************************************************)

FullInv == TimeInv /\ SleepsUntilFirstDeadline

LEMMA InitFullInv == Init => FullInv
  <1> SUFFICES ASSUME Init PROVE FullInv
    OBVIOUS
  <1>1. DOMAIN tracking = {}
    BY DEF Init, EmptyMap
  <1> QED
    BY <1>1, TimesAssumption, FS_EmptySet
    DEF Init, FullInv, TimeInv, TimeoutTypeOK, ToldWereTracked, GraceInEntry,
        SleepsUntilFirstDeadline, Never

LEMMA AdmitStep ==
  ASSUME FullInv, NEW j \in Jobs, Admit(j) PROVE FullInv'
  <1> DEFINE new(ms) == [state |-> "WaitingForDeadline", due |-> clock + Ticks(ms)]
  <1>1. PICK ms \in Budgets : tracking' = Insert(tracking, j, new(ms))
    BY DEF Admit
  <1>2. new(ms) \in Entry
    BY TicksType, TimesAssumption
    DEF FullInv, TimeInv, TimeoutTypeOK, Entry
  <1>3. /\ DOMAIN tracking' = DOMAIN tracking \cup {j}
        /\ tracking'[j] = new(ms)
        /\ \A k \in DOMAIN tracking : tracking'[k] = tracking[k]
    BY <1>1 DEF Insert, Admit
  <1>4. told[j] = Never
    BY DEF Admit, FullInv, TimeInv, ToldWereTracked
  <1>5. TimeoutTypeOK'
    BY <1>2, <1>3, <1>4 DEF Admit, FullInv, TimeInv, TimeoutTypeOK
  <1>6. IsFiniteSet(DOMAIN tracking')
    BY <1>3, FS_AddElement DEF FullInv, TimeInv
  <1>7. ToldWereTracked' /\ GraceInEntry'
    BY <1>3 DEF Admit, FullInv, TimeInv, ToldWereTracked, GraceInEntry
  <1> QED
    BY <1>5, <1>6, <1>7 DEF Admit, FullInv, TimeInv, SleepsUntilFirstDeadline

LEMMA FinishStep ==
  ASSUME FullInv, NEW j \in Jobs, Finish(j) PROVE FullInv'
  <1>1. /\ DOMAIN tracking' = DOMAIN tracking \ {j}
        /\ \A k \in DOMAIN tracking' : tracking'[k] = tracking[k]
    BY DEF Finish, Untrack, Delete, Restrict
  <1>2. TimeoutTypeOK'
    BY <1>1 DEF Finish, FullInv, TimeInv, TimeoutTypeOK
  <1>3. IsFiniteSet(DOMAIN tracking')
    BY <1>1, FS_RemoveElement DEF FullInv, TimeInv
  <1>4. ToldWereTracked' /\ GraceInEntry'
    BY <1>1 DEF Finish, FullInv, TimeInv, ToldWereTracked, GraceInEntry
  <1> QED
    BY <1>2, <1>3, <1>4 DEF Finish, FullInv, TimeInv, SleepsUntilFirstDeadline

\* The time the loop sleeps, from what compute_timeout_ms returned.
LEMMA SleepStep == ASSUME FullInv, Sleep PROVE FullInv'
  <1>1. PICK order \in Orders(DOMAIN tracking) :
          wake' = IF ComputeTimeout(order) < 0 THEN Never
                  ELSE clock + Ticks(ComputeTimeout(order))
    BY Zenon DEF Sleep
  <1> DEFINE ms == ComputeTimeout(order)
  <1>2. /\ ms \in Int
        /\ DOMAIN tracking = {} => ms = -1
        /\ (DOMAIN tracking # {} /\ \A j \in DOMAIN tracking : MsLeft(j) >= 0) =>
             /\ ms >= 0
             /\ \A j \in DOMAIN tracking : ms <= MsLeft(j)
    BY LeastMsLeft DEF FullInv
  <1> HIDE DEF ms
  <1>3. wake' = IF ms < 0 THEN Never ELSE clock + Ticks(ms)
    BY <1>1 DEF ms
  <1>4. clock \in Nat /\ (ms >= 0 => Ticks(ms) \in Nat)
    BY <1>2, TicksType DEF FullInv, TimeInv, TimeoutTypeOK
  <1>5. TimeInv'
    <2>1. wake' \in Nat \cup {Never}
      BY <1>2, <1>3, <1>4
    <2>2. /\ at' = "asleep" /\ slept' = clock
          /\ UNCHANGED <<clock, tracking, told, finished>>
      BY DEF Sleep
    <2> QED
      BY <2>1, <2>2
      DEF FullInv, TimeInv, TimeoutTypeOK, ToldWereTracked, GraceInEntry
  <1>6. SleepsUntilFirstDeadline'
    <2> SUFFICES ASSUME AllShort'
                 PROVE  /\ wake' = Never <=> DOMAIN tracking = {}
                        /\ \A j \in DOMAIN tracking :
                             wake' <= (IF tracking[j].due > clock
                                       THEN tracking[j].due ELSE clock)
      BY DEF Sleep, SleepsUntilFirstDeadline
    <2>1. \A j \in DOMAIN tracking :
            /\ MsLeft(j) \in Int /\ MsLeft(j) >= 0
            /\ clock + Ticks(MsLeft(j)) <=
                 (IF tracking[j].due > clock THEN tracking[j].due ELSE clock)
      BY MsLeftFacts DEF Sleep, AllShort, FullInv, TimeInv
    <2>2. CASE DOMAIN tracking = {}
      BY <1>2, <1>3, <2>2
    <2>3. CASE DOMAIN tracking # {}
      <3>1. ms >= 0 /\ \A j \in DOMAIN tracking : ms <= MsLeft(j)
        BY <1>2, <2>1, <2>3
      <3>2. wake' = clock + Ticks(ms) /\ wake' # Never
        BY <1>2, <1>3, <1>4, <3>1 DEF Never
      <3>3. \A j \in DOMAIN tracking : Ticks(ms) <= Ticks(MsLeft(j))
        BY <1>2, <2>1, <3>1, TimesAssumption DEF Ticks
      <3>4. \A j \in DOMAIN tracking :
              Ticks(MsLeft(j)) \in Int /\ tracking[j].due \in Nat
        BY <2>1, TicksType DEF FullInv, TimeInv, TimeoutTypeOK, Entry
      <3> QED
        BY <1>4, <2>1, <2>3, <3>1, <3>2, <3>3, <3>4
    <2> QED
      BY <2>2, <2>3
  <1> QED
    BY <1>5, <1>6 DEF FullInv

\* Who is told now was not told before, and its entry holds the grace period.
LEMMA HandleEventStep == ASSUME FullInv, HandleEvent PROVE FullInv'
  <1>1. /\ DOMAIN tracking' = DOMAIN tracking
        /\ \A j \in DOMAIN tracking : tracking'[j] = Advance(j)
    BY DEF HandleEvent
  <1>2. \A j \in Jobs :
          told'[j] = IF j \in DOMAIN tracking /\ Due(j, "WaitingForDeadline")
                     THEN clock ELSE told[j]
    BY DEF HandleEvent
  <1>3. clock \in 0..MaxClock /\ clock # Never /\ Ticks(Grace) \in Nat
    BY TicksType, TimesAssumption DEF FullInv, TimeInv, TimeoutTypeOK, Never
  <1>4. \A j \in DOMAIN tracking :
          /\ Advance(j) \in Entry
          /\ Advance(j).state = "WaitingForKillGrace" <=> told'[j] # Never
          /\ Advance(j).state = "WaitingForKillGrace" =>
               Advance(j).due = told'[j] + Ticks(Grace)
    BY <1>2, <1>3
    DEF Advance, Due, GraceEnd, FullInv, TimeInv, TimeoutTypeOK, Entry,
        GraceInEntry
  <1>5. told' \in [Jobs -> 0..MaxClock \cup {Never}]
    BY <1>3 DEF HandleEvent, FullInv, TimeInv, TimeoutTypeOK
  <1>6. TimeoutTypeOK'
    BY <1>1, <1>4, <1>5 DEF HandleEvent, FullInv, TimeInv, TimeoutTypeOK
  <1>7. ToldWereTracked' /\ GraceInEntry'
    BY <1>1, <1>2, <1>4
    DEF HandleEvent, FullInv, TimeInv, ToldWereTracked, GraceInEntry
  <1> QED
    BY <1>1, <1>6, <1>7 DEF HandleEvent, FullInv, TimeInv,
                            SleepsUntilFirstDeadline

\* Steps that change neither the entries nor what was told.
LEMMA ClockStep ==
  ASSUME FullInv, Tick \/ WakeUp \/ Event \/ UNCHANGED vars PROVE FullInv'
  <1>1. /\ UNCHANGED <<tracking, slept, wake, told, finished>>
        /\ clock' \in 0..MaxClock
        /\ at' = at \/ at' = "woken"
    BY TimesAssumption DEF Tick, WakeUp, Event, vars, FullInv, TimeInv, TimeoutTypeOK
  <1> QED
    BY <1>1 DEF FullInv, TimeInv, TimeoutTypeOK, ToldWereTracked, GraceInEntry,
                SleepsUntilFirstDeadline, AllShort

LEMMA NextFullInv == FullInv /\ [Next]_vars => FullInv'
  BY AdmitStep, FinishStep, SleepStep, HandleEventStep, ClockStep DEF Next

-----------------------------------------------------------------------------
(***************************************************************************)
(* The theorems.                                                           *)
(***************************************************************************)

LEMMA FullInvAlways == Spec => []FullInv
  BY InitFullInv, NextFullInv, PTL DEF Spec

\* Whatever the budgets, the entries are well formed, a job that finished is
\* tracked no more, and an entry waits for the kill exactly when its job was
\* told to stop (policy.rs:5-15, 54-80).
THEOREM TimeoutTypeCorrect == Spec => []TimeoutTypeOK
  <1>1. FullInv => TimeoutTypeOK
    BY DEF FullInv, TimeInv
  <1> QED
    BY <1>1, FullInvAlways, PTL

\* For any number of jobs, in whatever order the HashMap is gone through, the
\* loop sleeps past no deadline, as long as no deadline is 2^31 milliseconds
\* away (policy.rs:32-52).
THEOREM SleepCorrect == Spec => []SleepsUntilFirstDeadline
  <1>1. FullInv => SleepsUntilFirstDeadline
    BY DEF FullInv
  <1> QED
    BY <1>1, FullInvAlways, PTL

\* The kill deadline is reached a whole grace period after the job was told to
\* stop, and nothing is emitted about a job that finished (policy.rs:86-103).
THEOREM GraceIsGivenCorrect == Spec => GraceIsGiven
  <1> DEFINE Given ==
               emitted = {} =>
                 \A e \in emitted' :
                   /\ e[2] \notin finished
                   /\ e[1] = "KillDeadlineReached" =>
                        told[e[2]] # Never /\ clock >= told[e[2]] + Ticks(Grace)
  <1>1. FullInv /\ [Next]_vars => [Given]_vars
    <2> SUFFICES ASSUME FullInv, Next PROVE Given
      OBVIOUS
    <2>1. CASE HandleEvent
      <3>1. \A j \in DOMAIN tracking : j \notin finished
        BY DEF FullInv, TimeInv, TimeoutTypeOK
      <3>2. \A j \in DOMAIN tracking :
              Due(j, "WaitingForKillGrace") =>
                told[j] # Never /\ clock >= told[j] + Ticks(Grace)
        BY DEF Due, FullInv, TimeInv, TimeoutTypeOK, GraceInEntry
      <3> QED
        BY <2>1, <3>1, <3>2 DEF HandleEvent
    <2>2. CASE ~HandleEvent
      <3>1. emitted' = emitted \/ emitted' = {}
        BY <2>2 DEF Next, Tick, Admit, Finish, Sleep, WakeUp, Event
      <3> QED
        BY <3>1
    <2> QED
      BY <2>1, <2>2
  <1>2. GraceIsGiven <=> [][Given]_vars
    BY DEF GraceIsGiven
  <1> QED
    BY <1>1, <1>2, FullInvAlways, PTL DEF Spec

\* A job is told once that its time is up (policy.rs:86-96).
THEOREM ToldOnceCorrect == Spec => ToldOnce
  <1> DEFINE Once == \A j \in Jobs : told[j] # Never => told'[j] = told[j]
  <1>1. FullInv /\ [Next]_vars => [Once]_vars
    <2> SUFFICES ASSUME FullInv, Next PROVE Once
      OBVIOUS
    <2>1. CASE HandleEvent
      <3>1. \A j \in DOMAIN tracking :
              Due(j, "WaitingForDeadline") => told[j] = Never
        BY DEF Due, FullInv, TimeInv, TimeoutTypeOK
      <3> QED
        BY <2>1, <3>1 DEF HandleEvent
    <2>2. CASE ~HandleEvent
      BY <2>2 DEF Next, Tick, Admit, Finish, Sleep, WakeUp, Event
    <2> QED
      BY <2>1, <2>2
  <1>2. ToldOnce <=> [][Once]_vars
    BY DEF ToldOnce
  <1> QED
    BY <1>1, <1>2, FullInvAlways, PTL DEF Spec

=============================================================================
