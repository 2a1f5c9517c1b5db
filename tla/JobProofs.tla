----------------------------- MODULE JobProofs -----------------------------
(***************************************************************************)
(* Jobs, slots, children and results over the whole life of a job, for     *)
(* every value of the constants.                                           *)
(*                                                                         *)
(* Four inductive invariants on top of HandleInv:                          *)
(*   StartInv  a job is started once, and its child is its own;            *)
(*   TruthInv  the first result of a job that waits is its child's;        *)
(*   SlotInv   a job finishes once (where the host polls first);           *)
(*   LifeInv   a job that was killed had been told to stop (where clients  *)
(*             can only ask for a stop).                                   *)
(* Each says which actions are never in the queue together, or never in    *)
(* this order: a turn of the loop trusts what earlier turns of the same    *)
(* iteration left behind it.                                               *)
(***************************************************************************)
EXTENDS ExecutionCoreProofs, FiniteSetTheorems

Items(q) == {q[i] : i \in 1..Len(q)}
Waiting == Items(queue)
Rest == Items(Tail(queue))

\* No action of q is followed by another it makes a bad pair with.
NoPair(q, bad) ==
  \A i, k \in 1..Len(q) : i < k => <<q[i], q[k]>> \notin bad

-----------------------------------------------------------------------------
(***************************************************************************)
(* The invariants.                                                         *)
(***************************************************************************)

StartTypes == {"Submit", "Admitted", "StartProcess"}

TwoStarts ==
  {p \in Action \X Action :
     /\ p[1].type \in StartTypes /\ p[2].type \in StartTypes
     /\ p[1].id = p[2].id}

\* A job on its way is new, and one that is to be started has no child yet.
OnItsWay(a) ==
  /\ a.id < next_id
  /\ ~HasChild(a.id)
  /\ a.type # "StartProcess" =>
       a.id \notin DOMAIN jobs \cup DOMAIN lifecycle \cup DOMAIN tracking
  /\ a.type = "StartProcess" =>
       /\ a.id \in DOMAIN jobs /\ jobs[a.id].process = NoHandle
       /\ a.id \in DOMAIN lifecycle /\ lifecycle[a.id] = "Admitted"

StartInv ==
  /\ NoPair(queue, TwoStarts)
  /\ \A a \in Waiting : a.type \in StartTypes => OnItsWay(a)
  /\ \A a \in Waiting :
       a.type \in {"Finished", "SignalProcess"} => HasChild(a.id)
  /\ \A id \in DOMAIN jobs \cup DOMAIN lifecycle \cup DOMAIN tracking : id < next_id
  /\ NoHandle \notin DOMAIN processes
  /\ \A h \in DOMAIN processes :
       /\ processes[h].job < next_id
       /\ processes[h].job \in DOMAIN jobs => jobs[processes[h].job].process = h
  /\ \A id \in DOMAIN lifecycle : lifecycle[id] = "Finished" => ~HasChild(id)

Child(id) == processes[jobs[id].process]

Ended(id) == HasProcess(id) /\ Child(id).state = "reaped"

IsResult(a, id) == a.type = "Finished" /\ a.id = id

\* A false result of a live job with the true one behind it.
UntrueFirst ==
  {p \in Action \X Action :
     /\ p[1].type = "Finished" /\ IsResult(p[2], p[1].id)
     /\ p[1].id \in DOMAIN jobs
     /\ p[1].result.status # Child(p[1].id).status
     /\ p[2].result.status = Child(p[1].id).status}

\* What waits to be reported of a live job is the end of its child or the 0
\* of another wait on it, and the first to be reported is the end.
TruthInv ==
  /\ \A a \in Waiting : (a.type = "Finished" /\ a.id \in DOMAIN jobs) =>
       /\ Ended(a.id)
       /\ a.result.status \in {0, Child(a.id).status}
       /\ a.result.timed_out => Child(a.id).sig # "none"
  /\ \A id \in DOMAIN jobs : Ended(id) =>
       \E a \in Waiting :
         IsResult(a, id) /\ a.result.status = Child(id).status
  /\ NoPair(queue, UntrueFirst)
  /\ \A id \in DOMAIN jobs : jobs[id].timed_out =>
       HasProcess(id) /\ Child(id).sig # "none"
  /\ \A h \in DOMAIN processes :
       processes[h].state # "reaped" => processes[h].job \in DOMAIN jobs
  /\ ResultsAreTrue

\* The polls come before everything else, a job is polled once and finishes
\* once, and none is polled or signalled while its result waits.
SlotClash ==
  {p \in Action \X Action :
     \/ p[1].type # "PollProcess" /\ p[2].type = "PollProcess"
     \/ p[1].type = "PollProcess" /\ p[2].type = "SignalProcess"
     \/ /\ p[1].id = p[2].id
        /\ \/ p[1].type = "PollProcess" /\ p[2].type = "PollProcess"
           \/ p[1].type \in {"PollProcess", "SignalProcess", "Finished"}
              /\ p[2].type = "Finished"}

SlotInv ==
  /\ NoPair(queue, SlotClash)
  /\ \A a \in Waiting : a.type = "Finished" => a.id \in DOMAIN jobs
  /\ SlotAccounting

EarlyTypes == {"PollProcess", "Submit", "Control", "Query", "RemoveInterest"}
EventTypes ==
  EarlyTypes \cup {"PerformIo", "TimeoutReached", "KillDeadlineReached"}

Kills(a) == a.type = "SignalProcess" /\ a.signal = "ForceKill"
Stops(a) == a.type = "SignalProcess" /\ a.signal = "GracefulStop"

LifeClash ==
  {p \in Action \X Action :
     /\ p[1].id = p[2].id
     /\ \/ /\ p[1].type = "KillDeadlineReached" \/ Kills(p[1])
           /\ p[2].type \in {"Control", "TimeoutReached"}
        \/ p[1].type \in {"Control", "TimeoutReached"} /\ Kills(p[2])
        \/ Kills(p[1]) /\ Stops(p[2])}

InGrace(id) == id \in DOMAIN tracking /\ tracking[id] = "WaitingForKillGrace"

\* The deadline has passed: the job is not on its way any more.
Late(id) ==
  \/ InGrace(id)
  \/ \E a \in Waiting :
       a.id = id /\ a.type \in {"TimeoutReached", "KillDeadlineReached"}

KillNear(id) ==
  \/ InGrace(id)
  \/ \E a \in Waiting : a.id = id /\ (a.type = "KillDeadlineReached" \/ Kills(a))

Stopped(id) ==
  \/ jobs[id].timed_out
  \/ \E a \in Waiting : a.id = id /\ (a.type = "TimeoutReached" \/ Stops(a))

LifeInv ==
  /\ phase = "requests" => \A a \in Waiting : a.type \in EarlyTypes
  /\ phase = "events" => \A a \in Waiting : a.type \in EventTypes
  /\ NoPair(queue, LifeClash)
  /\ \A a \in Waiting : a.type = "Control" => a.signal = "GracefulStop"
  /\ \A id \in JobIds : Late(id) =>
       ~\E a \in Waiting : a.id = id /\ a.type \in StartTypes
  /\ \A a \in Waiting :
       (a.type \in {"TimeoutReached", "KillDeadlineReached"}
          /\ a.id \in DOMAIN tracking) => InGrace(a.id)
  /\ \A id \in JobIds : KillNear(id) /\ HasProcess(id) => Stopped(id)
  /\ \A id \in DOMAIN jobs \cap DOMAIN lifecycle : lifecycle[id] = "Killed" =>
       /\ jobs[id].timed_out
       /\ ~\E a \in Waiting : a.id = id /\ Stops(a)
-----------------------------------------------------------------------------
(***************************************************************************)
(* The queue.                                                              *)
(***************************************************************************)

\* What is in a queue that two queues were joined to.
LEMMA JoinItems ==
  ASSUME NEW S, NEW q \in Seq(S), NEW r \in Seq(S)
  PROVE  Items(q \o r) = Items(q) \cup Items(r)
  <1> DEFINE m == Len(q)
             n == Len(r)
             j == q \o r
  <1>1. m \in Nat /\ n \in Nat /\ Len(j) = m + n
    BY ConcatProperties
  <1>2. /\ \A i \in 1..m : j[i] = q[i]
        /\ \A i \in 1..n : j[m + i] = r[i]
    BY ConcatProperties
  <1> HIDE DEF m, n, j
  <1>3. ASSUME NEW x \in Items(j) PROVE x \in Items(q) \cup Items(r)
    <2>1. PICK i \in 1..(m + n) : x = j[i]
      BY <1>1, <1>3 DEF Items
    <2>2. CASE i \in 1..m
      BY <1>2, <2>1, <2>2 DEF Items, m
    <2>3. CASE i \notin 1..m
      <3>1. i - m \in 1..n /\ i = m + (i - m)
        BY <1>1, <2>1, <2>3
      <3> QED
        BY <1>2, <2>1, <3>1 DEF Items, n
    <2> QED
      BY <2>2, <2>3
  <1>4. \A i \in 1..m : i \in 1..(m + n)
    BY <1>1
  <1>5. \A i \in 1..n : m + i \in 1..(m + n)
    BY <1>1
  <1>6. ASSUME NEW x \in Items(q) PROVE x \in Items(j)
    <2>1. PICK i \in 1..m : x = q[i]
      BY <1>6 DEF Items, m
    <2> QED
      BY <1>1, <1>2, <1>4, <2>1 DEF Items
  <1>7. ASSUME NEW x \in Items(r) PROVE x \in Items(j)
    <2>1. PICK i \in 1..n : x = r[i]
      BY <1>7 DEF Items, n
    <2> QED
      BY <1>1, <1>2, <1>5, <2>1 DEF Items
  <1> QED
    BY <1>3, <1>6, <1>7 DEF j

\* The actions the handlers emit at most three at a time.
LEMMA ItemsOf ==
  /\ Items(<<>>) = {}
  /\ \A a : Items(<<a>>) = {a}
  /\ \A a, b : Items(<<a, b>>) = {a, b}
  /\ \A a, b, c : Items(<<a, b, c>>) = {a, b, c}
  <1>1. Items(<<>>) = {}
    BY DEF Items
  <1>2. \A a : Items(<<a>>) = {a}
    BY DEF Items
  <1>3. ASSUME NEW a, NEW b PROVE Items(<<a, b>>) = {a, b}
    <2>1. Len(<<a, b>>) = 2 /\ 1..2 = {1, 2}
      OBVIOUS
    <2> QED
      BY <2>1 DEF Items
  <1>4. ASSUME NEW a, NEW b, NEW c PROVE Items(<<a, b, c>>) = {a, b, c}
    <2>1. Len(<<a, b, c>>) = 3 /\ 1..3 = {1, 2, 3}
      OBVIOUS
    <2> QED
      BY <2>1 DEF Items
  <1> QED
    BY <1>1, <1>2, <1>3, <1>4

LEMMA ItemsType ==
  ASSUME NEW S, NEW q \in Seq(S) PROVE Items(q) \subseteq S
  BY DEF Items

LEMMA HeadItems ==
  ASSUME NEW S, NEW q \in Seq(S), q # <<>>
  PROVE  Items(q) = {Head(q)} \cup Items(Tail(q))
  <1>1. /\ Head(q) \in S /\ Tail(q) \in Seq(S)
        /\ q = <<Head(q)>> \o Tail(q)
    <2>1. Head(q) \in S /\ Tail(q) \in Seq(S)
      BY HeadTailProperties
    <2>2. q = <<Head(q)>> \o Tail(q)
      OBVIOUS
    <2> QED
      BY <2>1, <2>2
  <1>2. <<Head(q)>> \in Seq(S)
    BY <1>1
  <1>3. Items(<<Head(q)>> \o Tail(q)) = Items(<<Head(q)>>) \cup Items(Tail(q))
    BY <1>1, <1>2, JoinItems, ZenonT(60)
  <1> QED
    BY <1>1, <1>3, ItemsOf, Zenon

\* No action clashes with the ones behind it.
LEMMA HeadPairs ==
  ASSUME NEW S, NEW q \in Seq(S), q # <<>>, NEW bad, NoPair(q, bad)
  PROVE  /\ \A b \in Items(Tail(q)) : <<Head(q), b>> \notin bad
         /\ NoPair(Tail(q), bad)
  <1> DEFINE n == Len(q)
             t == Tail(q)
  <1>1. /\ n \in Nat \ {0} /\ Len(t) = n - 1
        /\ \A i \in 1..(n - 1) : t[i] = q[i + 1]
        /\ Head(q) = q[1]
    BY HeadTailProperties
  <1>2. \A i, k \in 1..n : i < k => <<q[i], q[k]>> \notin bad
    BY DEF NoPair
  <1> HIDE DEF n, t
  <1>3. \A i \in 1..(n - 1) : i + 1 \in 1..n /\ 1 \in 1..n /\ 1 < i + 1
    BY <1>1
  <1>4. \A b \in Items(t) : <<Head(q), b>> \notin bad
    BY <1>1, <1>2, <1>3 DEF Items
  <1>5. \A i, k \in 1..(n - 1) : i < k => <<t[i], t[k]>> \notin bad
    <2> SUFFICES ASSUME NEW i \in 1..(n - 1), NEW k \in 1..(n - 1), i < k
                 PROVE  <<t[i], t[k]>> \notin bad
      OBVIOUS
    <2>1. i + 1 \in 1..n /\ k + 1 \in 1..n /\ i + 1 < k + 1
      BY <1>1
    <2>2. <<q[i + 1], q[k + 1]>> \notin bad
      BY <1>2, <2>1
    <2> QED
      BY <1>1, <2>2
  <1>6. NoPair(t, bad)
    BY <1>1, <1>5 DEF NoPair
  <1> QED
    BY <1>4, <1>6 DEF t

\* The pairs of two queues that were joined.
LEMMA JoinPairs ==
  ASSUME NEW S, NEW q \in Seq(S), NEW r \in Seq(S), NEW bad,
         NoPair(q, bad), NoPair(r, bad),
         \A a \in Items(q), b \in Items(r) : <<a, b>> \notin bad
  PROVE  NoPair(q \o r, bad)
  <1> DEFINE m == Len(q)
             n == Len(r)
             j == q \o r
  <1>1. m \in Nat /\ n \in Nat /\ Len(j) = m + n
    BY ConcatProperties
  <1>2. /\ \A i \in 1..m : j[i] = q[i]
        /\ \A i \in 1..n : j[m + i] = r[i]
    BY ConcatProperties
  <1>3. /\ \A i, k \in 1..m : i < k => <<q[i], q[k]>> \notin bad
        /\ \A i, k \in 1..n : i < k => <<r[i], r[k]>> \notin bad
        /\ \A i \in 1..m, k \in 1..n : <<q[i], r[k]>> \notin bad
    BY DEF NoPair, Items
  <1> HIDE DEF m, n, j
  <1>4. ASSUME NEW i \in 1..(m + n), NEW k \in 1..(m + n), i < k
        PROVE  <<j[i], j[k]>> \notin bad
    <2>1. CASE k <= m
      <3>1. i \in 1..m /\ k \in 1..m
        BY <1>1, <1>4, <2>1
      <3> QED
        BY <1>2, <1>3, <1>4, <3>1
    <2>2. CASE i > m
      <3>1. /\ i - m \in 1..n /\ k - m \in 1..n /\ i - m < k - m
            /\ i = m + (i - m) /\ k = m + (k - m)
        BY <1>1, <1>4, <2>2
      <3> QED
        BY <1>2, <1>3, <3>1
    <2>3. CASE i <= m /\ k > m
      <3>1. i \in 1..m /\ k - m \in 1..n /\ k = m + (k - m)
        BY <1>1, <1>4, <2>3
      <3> QED
        BY <1>2, <1>3, <3>1
    <2> QED
      BY <1>1, <2>1, <2>2, <2>3
  <1> QED
    BY <1>1, <1>4 DEF NoPair, j
\* Fewer bad pairs.
LEMMA FewerPairs ==
  ASSUME NEW q, NEW bad, NEW worse, NoPair(q, worse),
         \A a, b \in Items(q) : <<a, b>> \in bad => <<a, b>> \in worse
  PROVE  NoPair(q, bad)
  BY DEF NoPair, Items

\* One action makes no pair.
LEMMA ShortPairs ==
  ASSUME NEW bad
  PROVE  /\ NoPair(<<>>, bad)
         /\ \A a : NoPair(<<a>>, bad)
         /\ \A a, b : <<a, b>> \notin bad => NoPair(<<a, b>>, bad)
  <1>1. NoPair(<<>>, bad)
    BY DEF NoPair
  <1>2. \A a : NoPair(<<a>>, bad)
    BY DEF NoPair
  <1>3. ASSUME NEW a, NEW b, <<a, b>> \notin bad PROVE NoPair(<<a, b>>, bad)
    <2>1. Len(<<a, b>>) = 2 /\ 1..2 = {1, 2}
      OBVIOUS
    <2> QED
      BY <1>3, <2>1 DEF NoPair
  <1> QED
    BY <1>1, <1>2, <1>3

\* The queue grows by the actions, in the outer loop or in a turn that takes
\* no result.
Grows(actions) ==
  /\ actions \in Seq(Action)
  /\ \/ queue # <<>> /\ Head(queue).type # "Finished" /\ Emit(actions)
     \/ queue' = queue \o actions

\* A turn takes the head away.
LEMMA TurnItems ==
  ASSUME QueueOK, queue # <<>>, NEW actions \in Seq(Action), Emit(actions)
  PROVE  /\ Waiting \subseteq Action
         /\ Items(actions) \subseteq Action
         /\ Waiting = {Head(queue)} \cup Rest
         /\ Waiting' = Rest \cup Items(actions)
  <1>1. queue \in Seq(Action) /\ Tail(queue) \in Seq(Action)
    BY HeadTailProperties DEF QueueOK
  <1>2. Items(queue) = {Head(queue)} \cup Items(Tail(queue))
    BY <1>1, HeadItems
  <1>3. Items(queue') = Items(Tail(queue)) \cup Items(actions)
    <2>1. queue' = Tail(queue) \o actions
      BY DEF Emit
    <2>2. Items(Tail(queue) \o actions) = Items(Tail(queue)) \cup Items(actions)
      BY <1>1, JoinItems, ZenonT(60)
    <2> QED
      BY <2>1, <2>2
  <1>4. Items(queue) \subseteq Action /\ Items(actions) \subseteq Action
    BY <1>1, ItemsType
  <1> QED
    BY <1>2, <1>3, <1>4 DEF Waiting, Rest

LEMMA GrowsItems ==
  ASSUME QueueOK, NEW actions, Grows(actions)
  PROVE  /\ Waiting \subseteq Action
         /\ Items(actions) \subseteq Action
         /\ Waiting' \subseteq Waiting \cup Items(actions)
         /\ Items(actions) \subseteq Waiting'
         /\ \A a \in Waiting : a.type = "Finished" => a \in Waiting'
  <1>1. CASE queue # <<>> /\ Head(queue).type # "Finished" /\ Emit(actions)
    BY <1>1, TurnItems DEF Grows
  <1>2. CASE queue' = queue \o actions
    <2>1. Items(queue') = Items(queue) \cup Items(actions)
      BY <1>2, JoinItems DEF Grows, QueueOK
    <2>2. Items(queue) \subseteq Action /\ Items(actions) \subseteq Action
      BY ItemsType DEF Grows, QueueOK
    <2> QED
      BY <2>1, <2>2 DEF Waiting
  <1> QED
    BY <1>1, <1>2 DEF Grows

LEMMA TurnPairs ==
  ASSUME QueueOK, queue # <<>>, NEW actions \in Seq(Action), Emit(actions),
         NEW bad, NoPair(queue, bad), NoPair(actions, bad),
         \A a \in Rest, b \in Items(actions) : <<a, b>> \notin bad
  PROVE  NoPair(queue', bad)
  <1>1. queue \in Seq(Action) /\ Tail(queue) \in Seq(Action)
    BY HeadTailProperties DEF QueueOK
  <1>2. NoPair(Tail(queue), bad)
    BY <1>1, HeadPairs
  <1>3. NoPair(Tail(queue) \o actions, bad)
    BY <1>1, <1>2, JoinPairs DEF Rest
  <1> QED
    BY <1>3 DEF Emit

LEMMA GrowsPairs ==
  ASSUME QueueOK, NEW actions, Grows(actions),
         NEW bad, NoPair(queue, bad), NoPair(actions, bad),
         \A a \in Waiting, b \in Items(actions) : <<a, b>> \notin bad
  PROVE  NoPair(queue', bad)
  <1>1. CASE queue # <<>> /\ Emit(actions)
    <2>1. Rest \subseteq Waiting
      BY <1>1, TurnItems DEF Grows
    <2> QED
      BY <1>1, <2>1, TurnPairs DEF Grows
  <1>2. CASE queue' = queue \o actions
    <2>1. NoPair(queue \o actions, bad)
      BY JoinPairs DEF Grows, QueueOK, Waiting
    <2> QED
      BY <1>2, <2>1
  <1> QED
    BY <1>1, <1>2 DEF Grows

\* What the head of the queue meets behind it.
LEMMA HeadClash ==
  ASSUME QueueOK, queue # <<>>, NEW bad, NoPair(queue, bad)
  PROVE  \A b \in Rest : <<Head(queue), b>> \notin bad
  BY HeadPairs DEF QueueOK, Rest

\* The actions of a type still wait: submissions to be judged, or admitted jobs
\* to be made.
Stay(type) == \A a \in Waiting : a.type = type => a \in Waiting'

LEMMA Staying ==
  ASSUME QueueOK, NEW actions \in Seq(Action), NEW type,
         \/ queue # <<>> /\ Head(queue).type # type /\ Emit(actions)
         \/ queue' = queue \o actions
  PROVE  Stay(type)
  <1>1. CASE queue # <<>> /\ Head(queue).type # type /\ Emit(actions)
    BY <1>1, TurnItems DEF Stay
  <1>2. CASE queue' = queue \o actions
    <2>1. Items(queue') = Items(queue) \cup Items(actions)
      BY <1>2, JoinItems DEF QueueOK
    <2> QED
      BY <2>1 DEF Waiting, Stay
  <1> QED
    BY <1>1, <1>2

-----------------------------------------------------------------------------
(***************************************************************************)
(* What the steps that only move actions about put into the queue.         *)
(***************************************************************************)

QuietTypes ==
  {"Rejected", "Started", "Controlled", "Control", "Query", "QueryResult",
   "RegisterInterest", "RemoveInterest", "PerformIo", "TimeoutReached",
   "KillDeadlineReached"}

\* The jobs, their children and their slots stay; results may be taken away.
Kept ==
  /\ UNCHANGED <<next_id, jobs, lifecycle, active_jobs, processes>>
  /\ DOMAIN tracking' = DOMAIN tracking
  /\ \A i \in DOMAIN results' : \E k \in DOMAIN results : results'[i] = results[k]

\* A turn or a request whose actions are neither starts nor ends nor signals.
QuietStep ==
  /\ Kept
  /\ Stay("Admitted")
  /\ Stay("Submit") \/ (HandleSubmit /\ AtLimit)
  /\ \E actions : /\ Grows(actions)
                  /\ \A b \in Items(actions) : b.type \in QuietTypes

LEMMA QuietActions ==
  ASSUME NEW id \in JobIds
  PROVE  /\ \A a \in Action : a.type \in QuietTypes =>
              /\ <<a>> \in Seq(Action)
              /\ \A b \in Items(<<a>>) : b.type \in QuietTypes
         /\ \A b \in Items(<<>>) : b.type \in QuietTypes
         /\ <<>> \in Seq(Action)
  BY ItemsOf, EmptySeq

LEMMA QuietRequests ==
  ASSUME HandleInv, Requests, \A timeout \in Timeouts : ~RequestSubmit(timeout),
         \A id \in JobIds : ~RequestPoll(id)
  PROVE  QuietStep
  <1>1. ASSUME NEW action \in Action, action.type \in QuietTypes,
               RequestOther(action)
        PROVE  QuietStep
    <2>1. queue' = queue \o <<action>> /\ queue \in Seq(Action)
      BY <1>1, AppendIsConcat DEF RequestOther, AddRequest, HandleInv, TypeOK
    <2>2. Grows(<<action>>) /\ \A b \in Items(<<action>>) : b.type \in QuietTypes
      BY <1>1, <2>1, ItemsOf DEF Grows
    <2>3. Kept
      BY <1>1 DEF RequestOther, Kept, stateVars, policyVars, executorVars
    <2>4. Stay("Admitted") /\ Stay("Submit")
      <3>1. <<action>> \in Seq(Action) /\ QueueOK
        BY <1>1, <2>1 DEF QueueOK
      <3> QED
        BY <2>1, <3>1, Staying
    <2> QED
      BY <2>2, <2>3, <2>4 DEF QuietStep
  <1>2. \A id \in JobIds, signal \in ControlSignals :
          RequestControl(id, signal) => QuietStep
    BY <1>1, Constructors, InputsAssumption
    DEF RequestControl, Signal, QuietTypes
  <1>3. \A id \in JobIds : RequestQuery(id) => QuietStep
    BY <1>1, Constructors DEF RequestQuery, SimpleTypes, Simple, QuietTypes
  <1>4. \A id \in JobIds, stream \in Streams :
          RequestRemoveInterest(id, stream) => QuietStep
    BY <1>1, Constructors DEF RequestRemoveInterest, Interest, QuietTypes
  <1> QED
    BY <1>2, <1>3, <1>4 DEF Requests

LEMMA QuietEvents ==
  ASSUME HandleInv,
         \/ \E fd \in Fds : FdReady(fd)
         \/ \E id \in JobIds : TimeoutFires(id)
         \/ BeginDrain
         \/ EndIteration
         \/ UNCHANGED coreVars
  PROVE  QuietStep
  <1>1. \A fd \in Fds : FdReady(fd) => QuietStep
    <2> SUFFICES ASSUME NEW fd \in Fds, FdReady(fd) PROVE QuietStep
      OBVIOUS
    <2> DEFINE a == Simple("PerformIo", fd_map[fd])
    <2>1. a \in Action /\ a.type \in QuietTypes
      BY Constructors
      DEF FdReady, HandleInv, TypeOK, SimpleTypes, Simple, QuietTypes
    <2>2. queue' = queue \o <<a>>
      BY DEF FdReady, AddEventActions
    <2>3. Kept
      BY DEF FdReady, Kept, stateVars, policyVars, executorVars
    <2> HIDE DEF a
    <2>4. Grows(<<a>>) /\ \A b \in Items(<<a>>) : b.type \in QuietTypes
      BY <2>1, <2>2, ItemsOf DEF Grows
    <2>5. Stay("Admitted") /\ Stay("Submit")
      <3>1. <<a>> \in Seq(Action) /\ QueueOK
        BY <2>1, TypeParts DEF HandleInv
      <3> QED
        BY <2>1, <2>2, <3>1, Staying
    <2> QED
      BY <2>3, <2>4, <2>5 DEF QuietStep
  <1>2. \A id \in JobIds : TimeoutFires(id) => QuietStep
    <2> SUFFICES ASSUME NEW id \in JobIds, TimeoutFires(id) PROVE QuietStep
      OBVIOUS
    <2>1. PICK a \in {Simple("TimeoutReached", id),
                      Simple("KillDeadlineReached", id)} : queue' = queue \o <<a>>
      BY DEF TimeoutFires, AddEventActions
    <2>2. a \in Action /\ a.type \in QuietTypes
      <3>1. /\ Simple("TimeoutReached", id) \in Action
            /\ Simple("KillDeadlineReached", id) \in Action
        BY Constructors DEF SimpleTypes
      <3>2. a.type \in {"TimeoutReached", "KillDeadlineReached"}
        BY DEF Simple
      <3> QED
        BY <3>1, <3>2 DEF QuietTypes
    <2>3. Kept
      BY DEF TimeoutFires, Kept, stateVars, executorVars
    <2>4. Grows(<<a>>) /\ \A b \in Items(<<a>>) : b.type \in QuietTypes
      BY <2>1, <2>2, ItemsOf DEF Grows
    <2>5. Stay("Admitted") /\ Stay("Submit")
      <3>1. <<a>> \in Seq(Action) /\ QueueOK
        BY <2>2, TypeParts DEF HandleInv
      <3> QED
        BY <2>1, <2>2, <3>1, Staying
    <2> QED
      BY <2>3, <2>4, <2>5 DEF QuietStep
  <1>3. CASE BeginDrain \/ EndIteration \/ UNCHANGED coreVars
    <2>1. queue' = queue /\ queue \in Seq(Action)
      BY <1>3 DEF BeginDrain, EndIteration, coreVars, HandleInv, TypeOK
    <2>2. queue' = queue \o <<>>
      BY <2>1
    <2>3. Kept
      BY <1>3 DEF BeginDrain, EndIteration, coreVars, Kept, stateVars,
                  policyVars, executorVars
    <2>4. Grows(<<>>) /\ \A b \in Items(<<>>) : b.type \in QuietTypes
      BY <2>2, ItemsOf, EmptySeq DEF Grows
    <2>5. Stay("Admitted") /\ Stay("Submit")
      BY <2>1 DEF Stay, Waiting
    <2> QED
      BY <2>3, <2>4, <2>5 DEF QuietStep
  <1> QED
    BY <1>1, <1>2, <1>3

\* A turn that emits nothing.
LEMMA SilentTurn ==
  ASSUME QueueOK, queue # <<>>,
         Head(queue).type \notin {"Finished", "Admitted", "Submit"},
         Emit(<<>>), Kept
  PROVE  QuietStep
  <1>1. Stay("Admitted") /\ Stay("Submit")
    BY EmptySeq, Staying
  <1> QED
    BY <1>1, ItemsOf, EmptySeq DEF QuietStep, Grows

\* A turn that emits one action.
LEMMA QuietTurn ==
  ASSUME QueueOK, queue # <<>>,
         Head(queue).type \notin {"Finished", "Admitted"},
         Head(queue).type = "Submit" => HandleSubmit /\ AtLimit,
         NEW a \in Action, a.type \in QuietTypes, Emit(<<a>>), Kept
  PROVE  QuietStep
  <1>1. Grows(<<a>>) /\ \A b \in Items(<<a>>) : b.type \in QuietTypes
    BY ItemsOf DEF Grows
  <1>2. Stay("Admitted")
    BY <1>1, Staying DEF Grows
  <1>3. Head(queue).type # "Submit" => Stay("Submit")
    BY <1>1, Staying DEF Grows
  <1> QED
    BY <1>1, <1>2, <1>3 DEF QuietStep

LEMMA QuietTurns ==
  ASSUME HandleInv,
         \/ HandleRegisterInterest \/ HandleRemoveInterest \/ HandlePerformIo
         \/ HandleQuery \/ HandleNotice
         \/ HandleSubmit /\ AtLimit
  PROVE  QuietStep
  <1>1. CASE HandleRegisterInterest \/ HandleRemoveInterest \/ HandlePerformIo
    BY <1>1, SilentTurn, TypeParts
    DEF HandleInv, HandleRegisterInterest, HandleRemoveInterest, HandlePerformIo, Popped,
        loopVars, stateVars, policyVars, Kept
  <1>2. CASE HandleNotice
    BY <1>2, SilentTurn, TypeParts
    DEF HandleInv, HandleNotice, Popped, loopVars, stateVars, policyVars, executorVars, Kept
  <1>3. CASE HandleQuery
    <2> DEFINE a == [type |-> "QueryResult", id |-> HeadId,
                     found |-> HasResult(HeadId)]
    <2>1. /\ QueueOK /\ queue # <<>> /\ HeadId \in JobIds
          /\ Head(queue).type \notin {"Finished", "Admitted", "Submit"}
      BY <1>3, HeadType, TypeParts DEF HandleQuery, HandleInv, Popped
    <2>2. HasResult(HeadId) \in BOOLEAN
      BY DEF HasResult
    <2>3. a \in Action
      BY <2>1, <2>2, Constructors, Zenon
    <2>4. a.type \in QuietTypes /\ Emit(<<a>>)
      BY <1>3 DEF HandleQuery, QuietTypes
    <2>5. Kept
      <3> DEFINE S == Range(results)
      <3>1. results \in Seq(S)
        BY DEF HandleInv, TypeOK, Range
      <3> HIDE DEF S
      <3>2. results' \in Seq(S)
        BY <1>3, <3>1, OtherResultsType DEF HandleQuery
      <3>3. \A i \in DOMAIN results' : results'[i] \in S
        BY <3>2
      <3>4. \A i \in DOMAIN results' :
              \E k \in DOMAIN results : results'[i] = results[k]
        BY <3>3 DEF S, Range
      <3> QED
        BY <1>3, <3>4 DEF HandleQuery, Popped, loopVars, policyVars, executorVars,
                    Kept
    <2> HIDE DEF a
    <2> QED
      BY <2>1, <2>3, <2>4, <2>5, QuietTurn
  <1>4. CASE HandleSubmit /\ AtLimit
    <2>1. /\ QueueOK /\ queue # <<>> /\ HeadId \in JobIds
          /\ Head(queue).type \notin {"Finished", "Admitted"}
      BY <1>4, HeadType, TypeParts DEF HandleSubmit, HandleInv, Popped
    <2>2. /\ Simple("Rejected", HeadId) \in Action
          /\ Simple("Rejected", HeadId).type \in QuietTypes
      BY <2>1, Constructors DEF SimpleTypes, Simple, QuietTypes
    <2>3. Emit(<<Simple("Rejected", HeadId)>>)
      BY <1>4 DEF HandleSubmit
    <2>4. Kept
      BY <1>4 DEF HandleSubmit, Popped, loopVars, stateVars, executorVars, Kept
    <2> QED
      BY <1>4, <2>1, <2>2, <2>3, <2>4, QuietTurn
  <1> QED
    BY <1>1, <1>2, <1>3, <1>4

\* The signal a turn asks for: only a request for it or the end of the grace
\* period asks for a kill.
Asked(signal) ==
  \/ Head(queue).type = "Control" /\ signal = Head(queue).signal
  \/ Head(queue).type = "TimeoutReached" /\ signal = "GracefulStop"
  \/ Head(queue).type = "KillDeadlineReached" /\ signal = "ForceKill"

Order(signal) == Signal("SignalProcess", HeadId, signal)

\* A turn that asks for a signal: the job has a child and was not told to
\* stop.
SignalStep ==
  /\ Kept
  /\ Popped({"Control", "TimeoutReached", "KillDeadlineReached"})
  /\ MaySignal(HeadId)
  /\ \E signal \in Signals :
       /\ Asked(signal)
       /\ \/ Emit(<<Order(signal)>>)
          \/ Emit(<<Order(signal), Simple("Controlled", HeadId)>>)

LEMMA AskingTurns ==
  ASSUME HandleInv,
         HandleControl \/ HandleTimeoutReached \/ HandleKillDeadlineReached
  PROVE  (QuietStep /\ ~MaySignal(HeadId)) \/ SignalStep
  <1>1. /\ QueueOK /\ queue # <<>> /\ Head(queue) \in Action
        /\ Head(queue).type \notin {"Finished", "Admitted", "Submit"}
        /\ Popped({"Control", "TimeoutReached", "KillDeadlineReached"})
        /\ HandleControl => Popped({"Control"})
        /\ HandleTimeoutReached => Popped({"TimeoutReached"})
        /\ HandleKillDeadlineReached => Popped({"KillDeadlineReached"})
    <2>1. /\ queue # <<>>
          /\ Popped({"Control", "TimeoutReached", "KillDeadlineReached"})
      BY DEF HandleControl, HandleTimeoutReached, HandleKillDeadlineReached,
             Popped
    <2> QED
      BY <2>1, HeadType, TypeParts
      DEF HandleControl, HandleTimeoutReached, HandleKillDeadlineReached,
          HandleInv
  <1>2. Kept
    BY DEF HandleControl, HandleTimeoutReached, HandleKillDeadlineReached,
           Popped, loopVars, stateVars, policyVars, executorVars, Kept
  <1>3. CASE ~MaySignal(HeadId)
    <2>1. Emit(<<>>)
      BY <1>3
      DEF HandleControl, HandleTimeoutReached, HandleKillDeadlineReached
    <2> QED
      BY <1>1, <1>2, <1>3, <2>1, SilentTurn
  <1>4. CASE MaySignal(HeadId) /\ HandleControl
    <2>1. Head(queue).type = "Control" /\ Head(queue).signal \in Signals
      BY <1>1, <1>4, Carried DEF Popped
    <2>2. Emit(<<Order(Head(queue).signal), Simple("Controlled", HeadId)>>)
      BY <1>4 DEF HandleControl, ControlActions, HeadId, Order
    <2> QED
      BY <1>1, <1>2, <1>4, <2>1, <2>2 DEF SignalStep, Asked
  <1>5. CASE MaySignal(HeadId) /\ HandleTimeoutReached
    <2>1. Emit(<<Order("GracefulStop")>>)
      BY <1>5 DEF HandleTimeoutReached, Order
    <2>2. Head(queue).type = "TimeoutReached" /\ "GracefulStop" \in Signals
      BY <1>1, <1>5 DEF Popped, Signals
    <2> QED
      BY <1>1, <1>2, <1>5, <2>1, <2>2 DEF SignalStep, Asked
  <1>6. CASE MaySignal(HeadId) /\ HandleKillDeadlineReached
    <2>1. Emit(<<Order("ForceKill")>>)
      BY <1>6 DEF HandleKillDeadlineReached, Order
    <2>2. Head(queue).type = "KillDeadlineReached" /\ "ForceKill" \in Signals
      BY <1>1, <1>6 DEF Popped, Signals
    <2> QED
      BY <1>1, <1>2, <1>6, <2>1, <2>2 DEF SignalStep, Asked
  <1> QED
    BY <1>3, <1>4, <1>5, <1>6

\* What a quiet step leaves in the queue.
LEMMA QuietItems ==
  ASSUME HandleInv, QuietStep
  PROVE  /\ Waiting' \subseteq Action
         /\ \A a \in Waiting' : a \in Waiting \/ a.type \in QuietTypes
         /\ \A a \in Waiting : a.type = "Finished" => a \in Waiting'
  <1>1. PICK actions : /\ Grows(actions)
                       /\ \A b \in Items(actions) : b.type \in QuietTypes
    BY DEF QuietStep
  <1> QED
    BY <1>1, GrowsItems, TypeParts DEF HandleInv

LEMMA QuietPairs ==
  ASSUME HandleInv, QuietStep, NEW bad, NoPair(queue, bad),
         \A a, b \in Action : b.type \in QuietTypes => <<a, b>> \notin bad
  PROVE  NoPair(queue', bad)
  <1>1. PICK actions : /\ Grows(actions)
                       /\ \A b \in Items(actions) : b.type \in QuietTypes
    BY DEF QuietStep
  <1>2. QueueOK
    BY TypeParts DEF HandleInv
  <1>3. Waiting \subseteq Action /\ Items(actions) \subseteq Action
    BY <1>1, <1>2, GrowsItems
  <1>4. NoPair(actions, bad)
    BY <1>1, <1>3 DEF NoPair, Items
  <1>5. \A a \in Waiting, b \in Items(actions) : <<a, b>> \notin bad
    BY <1>1, <1>3
  <1> QED
    BY <1>1, <1>2, <1>4, <1>5, GrowsPairs

\* What a turn that asks for a signal leaves in the queue.
LEMMA SignalItems ==
  ASSUME HandleInv, SignalStep
  PROVE  /\ QueueOK /\ queue # <<>>
         /\ HeadId \in JobIds /\ HasProcess(HeadId)
         /\ Waiting \subseteq Action /\ Waiting' \subseteq Action
         /\ Waiting = {Head(queue)} \cup Rest
         /\ Rest \subseteq Waiting'
         /\ \E signal \in Signals :
              /\ Asked(signal)
              /\ Order(signal) \in Waiting'
              /\ \A a \in Waiting' : \/ a \in Rest
                                     \/ a = Order(signal)
                                     \/ a.type = "Controlled"
  <1>1. QueueOK /\ queue # <<>> /\ HeadId \in JobIds
    BY HeadType, TypeParts DEF SignalStep, HandleInv
  <1>2. HasProcess(HeadId)
    BY DEF SignalStep, MaySignal
  <1> DEFINE c == Simple("Controlled", HeadId)
  <1>3. PICK signal \in Signals :
          /\ Asked(signal)
          /\ Emit(<<Order(signal)>>) \/ Emit(<<Order(signal), c>>)
    BY DEF SignalStep
  <1>4. Order(signal) \in Action /\ c \in Action /\ c.type = "Controlled"
    BY <1>1, Constructors DEF Order, SimpleTypes, Simple
  <1>5. \E actions \in Seq(Action) :
          /\ Emit(actions)
          /\ Items(actions) = {Order(signal)} \/ Items(actions) = {Order(signal), c}
    <2> HIDE DEF c
    <2>1. /\ <<Order(signal)>> \in Seq(Action)
          /\ <<Order(signal), c>> \in Seq(Action)
      BY <1>4
    <2>2. /\ Items(<<Order(signal)>>) = {Order(signal)}
          /\ Items(<<Order(signal), c>>) = {Order(signal), c}
      BY ItemsOf
    <2> QED
      BY <1>3, <2>1, <2>2, Zenon
  <1>6. PICK actions \in Seq(Action) :
          /\ Emit(actions)
          /\ Items(actions) = {Order(signal)} \/ Items(actions) = {Order(signal), c}
    BY <1>5
  <1>7. /\ Waiting \subseteq Action
        /\ Items(actions) \subseteq Action
        /\ Waiting = {Head(queue)} \cup Rest
        /\ Waiting' = Rest \cup Items(actions)
    BY <1>1, <1>6, TurnItems
  <1> HIDE DEF c
  <1>8. \A a \in Waiting' : \/ a \in Rest
                            \/ a = Order(signal)
                            \/ a.type = "Controlled"
    BY <1>4, <1>6, <1>7
  <1>9. Order(signal) \in Waiting' /\ Waiting' \subseteq Action /\ Rest \subseteq Waiting'
    BY <1>6, <1>7
  <1> QED
    BY <1>1, <1>2, <1>3, <1>7, <1>8, <1>9

LEMMA SignalPairs ==
  ASSUME HandleInv, SignalStep, NEW bad, NoPair(queue, bad),
         \A a, b \in Action : b.type = "Controlled" => <<a, b>> \notin bad,
         \A a \in Rest, signal \in Signals :
           Asked(signal) => <<a, Order(signal)>> \notin bad
  PROVE  NoPair(queue', bad)
  <1>1. QueueOK /\ queue # <<>> /\ HeadId \in JobIds
    BY HeadType, TypeParts DEF SignalStep, HandleInv
  <1> DEFINE c == Simple("Controlled", HeadId)
  <1>2. PICK signal \in Signals :
          /\ Asked(signal)
          /\ Emit(<<Order(signal)>>) \/ Emit(<<Order(signal), c>>)
    BY DEF SignalStep
  <1>3. Order(signal) \in Action /\ c \in Action /\ c.type = "Controlled"
    BY <1>1, Constructors DEF Order, SimpleTypes, Simple
  <1> HIDE DEF c
  <1>4. /\ <<Order(signal)>> \in Seq(Action)
        /\ <<Order(signal), c>> \in Seq(Action)
    BY <1>3
  <1>5. Rest \subseteq Action
    BY <1>1, <1>2, <1>4, TurnItems
  <1>6. /\ NoPair(<<Order(signal)>>, bad)
        /\ NoPair(<<Order(signal), c>>, bad)
    BY <1>3, ShortPairs
  <1>7. /\ \A a \in Rest, b \in Items(<<Order(signal)>>) : <<a, b>> \notin bad
        /\ \A a \in Rest, b \in Items(<<Order(signal), c>>) : <<a, b>> \notin bad
    BY <1>2, <1>3, <1>5, ItemsOf
  <1>8. CASE Emit(<<Order(signal)>>)
    BY <1>1, <1>4, <1>6, <1>7, <1>8, TurnPairs
  <1>9. CASE Emit(<<Order(signal), c>>)
    BY <1>1, <1>4, <1>6, <1>7, <1>9, TurnPairs
  <1> QED
    BY <1>2, <1>8, <1>9
\* What a new submission, its admission, its job and its failed start put into
\* the queue.
Submission(timeout) == [type |-> "Submit", id |-> next_id, timeout |-> timeout]
Admission == [Head(queue) EXCEPT !.type = "Admitted"]
Start == Simple("StartProcess", HeadId)
Refusal == Simple("Rejected", HeadId)

\* One action and a turn that takes no result make a queue that grows.
LEMMA OneMore ==
  ASSUME NEW a \in Action,
         \/ queue # <<>> /\ Head(queue).type # "Finished" /\ Emit(<<a>>)
         \/ QueueOK /\ queue' = Append(queue, a)
  PROVE  Grows(<<a>>) /\ Items(<<a>>) = {a}
  <1>1. <<a>> \in Seq(Action) /\ Items(<<a>>) = {a}
    BY ItemsOf
  <1>2. QueueOK => Append(queue, a) = queue \o <<a>>
    BY AppendIsConcat DEF QueueOK
  <1> QED
    BY <1>1, <1>2 DEF Grows

LEMMA SubmitEffect ==
  ASSUME HandleInv, NEW timeout \in Timeouts, RequestSubmit(timeout)
  PROVE  /\ next_id \in JobIds /\ next_id' = next_id + 1
         /\ Submission(timeout) \in Action
         /\ Submission(timeout).type = "Submit"
         /\ Submission(timeout).id = next_id
         /\ Grows(<<Submission(timeout)>>)
         /\ Items(<<Submission(timeout)>>) = {Submission(timeout)}
         /\ phase = "requests"
         /\ UNCHANGED <<phase, jobs, lifecycle, results, active_jobs, tracking,
                        processes>>
  <1>1. /\ next_id \in JobIds /\ next_id' = next_id + 1
        /\ queue' = Append(queue, Submission(timeout))
        /\ phase = "requests"
        /\ UNCHANGED <<phase, jobs, lifecycle, results, active_jobs, tracking,
                       processes>>
    BY MaxSubmitsAssumption
    DEF RequestSubmit, AddRequest, HandleInv, TypeOK, JobIds, Submission,
        stateVars, policyVars, executorVars
  <1>2. /\ Submission(timeout) \in Action
        /\ Submission(timeout).type = "Submit"
        /\ Submission(timeout).id = next_id
    BY <1>1, Constructors, InputsAssumption DEF Submission
  <1> QED
    BY <1>1, <1>2, OneMore, TypeParts DEF HandleInv

LEMMA AdmitEffect ==
  ASSUME HandleInv, HandleSubmit, ~AtLimit
  PROVE  /\ QueueOK /\ queue # <<>> /\ phase = "drain"
         /\ Head(queue) \in Action /\ Head(queue).type = "Submit"
         /\ HeadId \in JobIds
         /\ Admission \in Action
         /\ Admission.type = "Admitted" /\ Admission.id = HeadId
         /\ Grows(<<Admission>>) /\ Items(<<Admission>>) = {Admission}
         /\ Waiting = {Head(queue)} \cup Rest
         /\ Waiting' = Rest \cup {Admission}
         /\ active_jobs' = active_jobs + 1
         /\ UNCHANGED <<phase, next_id, jobs, lifecycle, results, tracking,
                        processes>>
  <1>1. /\ QueueOK /\ queue # <<>> /\ phase = "drain" /\ HeadId \in JobIds
        /\ Head(queue) \in Action /\ Head(queue).type = "Submit"
    BY HeadType, TypeParts DEF HandleSubmit, HandleInv, Popped
  <1>2. /\ Admission \in Action
        /\ Admission.type = "Admitted" /\ Admission.id = HeadId
    BY <1>1, Carried DEF Action, Admission, HeadId
  <1>3. /\ Emit(<<Admission>>)
        /\ active_jobs' = active_jobs + 1
        /\ UNCHANGED <<phase, next_id, jobs, lifecycle, results, tracking,
                       processes>>
    BY DEF HandleSubmit, Popped, loopVars, stateVars, executorVars, Admission
  <1>4. Grows(<<Admission>>) /\ Items(<<Admission>>) = {Admission}
    BY <1>1, <1>2, <1>3, OneMore
  <1> QED
    BY <1>1, <1>2, <1>3, <1>4, TurnItems DEF Grows

LEMMA AdmittedEffect ==
  ASSUME HandleInv, HandleAdmitted
  PROVE  /\ QueueOK /\ queue # <<>> /\ phase = "drain"
         /\ Head(queue) \in Action /\ Head(queue).type = "Admitted"
         /\ HeadId \in JobIds
         /\ Start \in Action
         /\ Start.type = "StartProcess" /\ Start.id = HeadId
         /\ Grows(<<Start>>) /\ Items(<<Start>>) = {Start}
         /\ Waiting = {Head(queue)} \cup Rest
         /\ Waiting' = Rest \cup {Start}
         /\ DOMAIN jobs' = DOMAIN jobs \cup {HeadId}
         /\ jobs'[HeadId].process = NoHandle
         /\ jobs'[HeadId].timed_out = FALSE
         /\ \A id \in DOMAIN jobs : id # HeadId => jobs'[id] = jobs[id]
         /\ DOMAIN lifecycle' = DOMAIN lifecycle \cup {HeadId}
         /\ lifecycle'[HeadId] = "Admitted"
         /\ \A id \in DOMAIN lifecycle :
              id # HeadId => lifecycle'[id] = lifecycle[id]
         /\ DOMAIN tracking \subseteq DOMAIN tracking'
         /\ DOMAIN tracking' \subseteq DOMAIN tracking \cup {HeadId}
         /\ \A id \in DOMAIN tracking :
              id # HeadId => tracking'[id] = tracking[id]
         /\ HeadId \in DOMAIN tracking' =>
              \/ tracking'[HeadId] = "WaitingForDeadline"
              \/ HeadId \in DOMAIN tracking
         /\ UNCHANGED <<phase, next_id, results, active_jobs, processes>>
  <1>1. /\ QueueOK /\ queue # <<>> /\ phase = "drain" /\ HeadId \in JobIds
        /\ Head(queue) \in Action /\ Head(queue).type = "Admitted"
    BY HeadType, TypeParts DEF HandleAdmitted, HandleInv, Popped
  <1>2. /\ Start \in Action
        /\ Start.type = "StartProcess" /\ Start.id = HeadId
    BY <1>1, Constructors DEF SimpleTypes, Simple, Start
  <1>3. /\ Emit(<<Start>>)
        /\ UNCHANGED <<phase, next_id, results, active_jobs, processes>>
    BY DEF HandleAdmitted, Popped, loopVars, executorVars, Start
  <1>4. Grows(<<Start>>) /\ Items(<<Start>>) = {Start}
    BY <1>1, <1>2, <1>3, OneMore
  <1>5. /\ Waiting = {Head(queue)} \cup Rest
        /\ Waiting' = Rest \cup {Start}
    BY <1>1, <1>3, <1>4, TurnItems DEF Grows
  <1>6. /\ DOMAIN jobs' = DOMAIN jobs \cup {HeadId}
        /\ jobs'[HeadId].process = NoHandle
        /\ jobs'[HeadId].timed_out = FALSE
        /\ \A id \in DOMAIN jobs : id # HeadId => jobs'[id] = jobs[id]
    BY DEF HandleAdmitted, Insert
  <1>7. /\ DOMAIN lifecycle' = DOMAIN lifecycle \cup {HeadId}
        /\ lifecycle'[HeadId] = "Admitted"
        /\ \A id \in DOMAIN lifecycle :
             id # HeadId => lifecycle'[id] = lifecycle[id]
    BY DEF HandleAdmitted, Insert
  <1>8. /\ DOMAIN tracking \subseteq DOMAIN tracking'
        /\ DOMAIN tracking' \subseteq DOMAIN tracking \cup {HeadId}
        /\ \A id \in DOMAIN tracking :
             id # HeadId => tracking'[id] = tracking[id]
        /\ HeadId \in DOMAIN tracking' =>
             \/ tracking'[HeadId] = "WaitingForDeadline"
             \/ HeadId \in DOMAIN tracking
    BY DEF HandleAdmitted, Insert
  <1> QED
    BY <1>1, <1>2, <1>3, <1>4, <1>5, <1>6, <1>7, <1>8

LEMMA RefusalEffect ==
  ASSUME HandleInv, HandleStartProcess, SpawnFails(HeadId)
  PROVE  /\ QueueOK /\ queue # <<>> /\ phase = "drain"
         /\ Head(queue) \in Action /\ Head(queue).type = "StartProcess"
         /\ Refusal \in Action /\ Refusal.type = "Rejected"
         /\ Grows(<<Refusal>>) /\ Items(<<Refusal>>) = {Refusal}
         /\ Emit(<<Refusal>>)
         /\ lifecycle' = Insert(lifecycle, HeadId, "Finished")
         /\ UNCHANGED <<phase, next_id, jobs, results, active_jobs, tracking,
                        processes>>
  <1>1. /\ QueueOK /\ queue # <<>> /\ phase = "drain" /\ HeadId \in JobIds
        /\ Head(queue) \in Action /\ Head(queue).type = "StartProcess"
    BY HeadType, TypeParts DEF HandleStartProcess, HandleInv, Popped
  <1>2. Refusal \in Action /\ Refusal.type = "Rejected"
    BY <1>1, Constructors DEF SimpleTypes, Simple, Refusal
  <1>3. /\ Emit(<<Refusal>>)
        /\ lifecycle' = Insert(lifecycle, HeadId, "Finished")
        /\ UNCHANGED <<phase, next_id, jobs, results, active_jobs, tracking,
                       processes>>
    BY DEF HandleStartProcess, SpawnFails, Popped, loopVars, policyVars, Refusal
  <1> QED
    BY <1>1, <1>2, <1>3, OneMore

-----------------------------------------------------------------------------
(***************************************************************************)
(* StartInv: a job is started once.                                        *)
(***************************************************************************)

LEMMA TwoStartsPair ==
  ASSUME NEW a \in Action, NEW b \in Action
  PROVE  <<a, b>> \in TwoStarts <=>
           a.type \in StartTypes /\ b.type \in StartTypes /\ a.id = b.id
  BY DEF TwoStarts

\* A job with a child has it in its handle.
LEMMA ChildHandle ==
  ASSUME HandleInv, StartInv, NEW id \in DOMAIN jobs
  PROVE  HasChild(id) <=> HasProcess(id)
  BY ChildOfJob DEF StartInv, HasChild, HasProcess

\* A step that starts nothing and ends no job without a child.
LEMMA StartKept ==
  ASSUME HandleInv, StartInv,
         NoPair(queue', TwoStarts),
         \A a \in Waiting' :
           \/ a \in Waiting
           \/ /\ a.type \notin StartTypes
              /\ a.type \in {"Finished", "SignalProcess"} => HasChild(a.id),
         next_id' = next_id,
         DOMAIN jobs' \subseteq DOMAIN jobs,
         \A id \in DOMAIN jobs \ DOMAIN jobs' : HasChild(id),
         \A id \in DOMAIN jobs' : jobs'[id].process = jobs[id].process,
         DOMAIN tracking' \subseteq DOMAIN tracking,
         DOMAIN lifecycle \subseteq DOMAIN lifecycle',
         \A id \in DOMAIN lifecycle' :
           \/ id \in DOMAIN lifecycle /\ lifecycle'[id] = lifecycle[id]
           \/ /\ id \in DOMAIN jobs /\ HasChild(id)
              /\ lifecycle'[id] # "Finished",
         DOMAIN processes' = DOMAIN processes,
         \A h \in DOMAIN processes : processes'[h].job = processes[h].job
  PROVE  StartInv'
  <1>1. \A id : HasChild(id)' <=> HasChild(id)
    BY DEF HasChild
  <1>2. \A a \in Waiting' : a.type \in StartTypes => OnItsWay(a)'
    <2> SUFFICES ASSUME NEW a \in Waiting', a.type \in StartTypes
                 PROVE  OnItsWay(a)'
      OBVIOUS
    <2>1. a \in Waiting /\ OnItsWay(a)
      BY DEF StartInv
    <2>2. a.id < next_id' /\ ~HasChild(a.id)'
      BY <1>1, <2>1 DEF OnItsWay
    <2>3. a.type # "StartProcess" =>
            a.id \notin DOMAIN jobs' \cup DOMAIN lifecycle' \cup DOMAIN tracking'
      BY <2>1 DEF OnItsWay
    <2>4. a.type = "StartProcess" =>
            /\ a.id \in DOMAIN jobs' /\ jobs'[a.id].process = NoHandle
            /\ a.id \in DOMAIN lifecycle' /\ lifecycle'[a.id] = "Admitted"
      BY <2>1 DEF OnItsWay
    <2> QED
      BY <2>2, <2>3, <2>4 DEF OnItsWay
  <1>3. \A a \in Waiting' :
          a.type \in {"Finished", "SignalProcess"} => HasChild(a.id)'
    BY <1>1 DEF StartInv
  <1>4. \A id \in DOMAIN jobs' \cup DOMAIN lifecycle' \cup DOMAIN tracking' :
          id < next_id'
    BY DEF StartInv
  <1>5. NoHandle \notin DOMAIN processes'
    BY DEF StartInv
  <1>6. \A h \in DOMAIN processes' :
          /\ processes'[h].job < next_id'
          /\ processes'[h].job \in DOMAIN jobs' =>
               jobs'[processes'[h].job].process = h
    BY DEF StartInv
  <1>7. \A id \in DOMAIN lifecycle' :
          lifecycle'[id] = "Finished" => ~HasChild(id)'
    BY <1>1 DEF StartInv
  <1> QED
    BY <1>2, <1>3, <1>4, <1>5, <1>6, <1>7 DEF StartInv
\* Queues that grow by actions that start nothing.
LEMMA StartPairs ==
  ASSUME QueueOK, NEW actions \in Seq(Action),
         Grows(actions) \/ (queue # <<>> /\ Emit(actions)),
         NoPair(queue, TwoStarts),
         \A b \in Items(actions) : b.type \notin StartTypes
  PROVE  NoPair(queue', TwoStarts)
  <1>1. Items(actions) \subseteq Action
    BY ItemsType
  <1>2. NoPair(actions, TwoStarts)
    BY <1>1, TwoStartsPair DEF NoPair, Items
  <1>3. CASE Grows(actions)
    <2>1. Waiting \subseteq Action
      BY <1>3, GrowsItems
    <2>2. \A a \in Waiting, b \in Items(actions) : <<a, b>> \notin TwoStarts
      BY <1>1, <2>1, TwoStartsPair
    <2> QED
      BY <1>2, <1>3, <2>2, GrowsPairs
  <1>4. CASE queue # <<>> /\ Emit(actions)
    <2>1. Rest \subseteq Action
      BY <1>4, TurnItems
    <2>2. \A a \in Rest, b \in Items(actions) : <<a, b>> \notin TwoStarts
      BY <1>1, <2>1, TwoStartsPair
    <2> QED
      BY <1>2, <1>4, <2>2, TurnPairs
  <1> QED
    BY <1>3, <1>4

LEMMA QuietStarts == ASSUME HandleInv, StartInv, QuietStep PROVE StartInv'
  <1>1. /\ \A a \in Waiting' : a \in Waiting \/ a.type \in QuietTypes
        /\ \A a \in Waiting' : a.type \in QuietTypes =>
             /\ a.type \notin StartTypes
             /\ a.type \notin {"Finished", "SignalProcess"}
    BY QuietItems DEF QuietTypes, StartTypes
  <1>2. NoPair(queue', TwoStarts)
    <2>1. \A a, b \in Action : b.type \in QuietTypes => <<a, b>> \notin TwoStarts
      BY TwoStartsPair DEF QuietTypes, StartTypes
    <2> QED
      BY <2>1, QuietPairs DEF StartInv
  <1> QED
    BY <1>1, <1>2, StartKept DEF QuietStep, Kept

LEMMA SignalStarts == ASSUME HandleInv, StartInv, SignalStep PROVE StartInv'
  <1>1. PICK signal \in Signals :
          \A a \in Waiting' : \/ a \in Rest
                              \/ a = Order(signal)
                              \/ a.type = "Controlled"
    BY SignalItems
  <1>2. /\ HeadId \in JobIds /\ HasProcess(HeadId) /\ HasChild(HeadId)
        /\ Rest \subseteq Waiting
    BY SignalItems, ChildHandle DEF HasProcess
  <1>3. \A s : /\ Order(s).type = "SignalProcess"
               /\ Order(s).id = HeadId
    BY DEF Order, Signal
  <1>4. \A a \in Waiting' :
          \/ a \in Waiting
          \/ /\ a.type \notin StartTypes
             /\ a.type \in {"Finished", "SignalProcess"} => HasChild(a.id)
    BY <1>1, <1>2, <1>3 DEF StartTypes
  <1>5. NoPair(queue', TwoStarts)
    <2>1. \A s \in Signals : Order(s) \in Action
      BY <1>2, Constructors DEF Order
    <2>2. Rest \subseteq Action
      BY SignalItems
    <2>3. \A a, b \in Action : b.type = "Controlled" => <<a, b>> \notin TwoStarts
      BY TwoStartsPair DEF StartTypes
    <2>4. \A a \in Rest, s \in Signals : <<a, Order(s)>> \notin TwoStarts
      BY <1>3, <2>1, <2>2, TwoStartsPair DEF StartTypes
    <2> QED
      BY <2>3, <2>4, SignalPairs DEF StartInv
  <1> QED
    BY <1>4, <1>5, StartKept DEF SignalStep, Kept

\* A request to poll joins the batch.
LEMMA PollRequested ==
  ASSUME HandleInv, NEW id \in JobIds, RequestPoll(id)
  PROVE  /\ Kept
         /\ Grows(<<Simple("PollProcess", id)>>)
         /\ Items(<<Simple("PollProcess", id)>>) = {Simple("PollProcess", id)}
         /\ Simple("PollProcess", id) \in Action
         /\ Simple("PollProcess", id).type = "PollProcess"
         /\ Simple("PollProcess", id).id = id
  <1> DEFINE a == Simple("PollProcess", id)
  <1>1. a \in Action /\ a.type = "PollProcess" /\ a.id = id
    BY Constructors DEF SimpleTypes, Simple
  <1>2. queue' = queue \o <<a>>
    <2>1. queue' = Append(queue, a) /\ queue \in Seq(Action)
      BY DEF RequestPoll, RequestOther, AddRequest, HandleInv, TypeOK
    <2> HIDE DEF a
    <2> QED
      BY <1>1, <2>1, AppendIsConcat
  <1>3. Kept
    BY DEF RequestPoll, RequestOther, Kept, stateVars, policyVars, executorVars
  <1> HIDE DEF a
  <1>4. Grows(<<a>>) /\ Items(<<a>>) = {a}
    BY <1>1, <1>2, ItemsOf DEF Grows
  <1> QED
    BY <1>1, <1>3, <1>4 DEF a

LEMMA PollRequestStarts ==
  ASSUME HandleInv, StartInv, NEW id \in JobIds, RequestPoll(id)
  PROVE  StartInv'
  <1> DEFINE a == Simple("PollProcess", id)
  <1>1. /\ Kept /\ Grows(<<a>>) /\ Items(<<a>>) = {a}
        /\ a.type = "PollProcess" /\ QueueOK
    BY PollRequested, TypeParts DEF HandleInv
  <1> DEFINE actions == <<a>>
  <1> HIDE DEF a, actions
  <1>2. NoPair(queue', TwoStarts)
    <2>1. \A b \in Items(actions) : b.type \notin StartTypes
      BY <1>1 DEF StartTypes, actions
    <2>2. Grows(actions) /\ actions \in Seq(Action)
      BY <1>1 DEF Grows, actions
    <2> QED
      BY <1>1, <2>1, <2>2, StartPairs DEF StartInv
  <1>3. \A b \in Waiting' : b \in Waiting \/ b = a
    BY <1>1, GrowsItems
  <1>4. \A b \in Waiting' :
          \/ b \in Waiting
          \/ /\ b.type \notin StartTypes
             /\ b.type \in {"Finished", "SignalProcess"} => HasChild(b.id)
    BY <1>1, <1>3 DEF StartTypes
  <1> QED
    BY <1>1, <1>2, <1>4, StartKept DEF Kept
\* A new job's id was never used.
LEMMA SubmitStarts ==
  ASSUME HandleInv, StartInv, NEW timeout \in Timeouts, RequestSubmit(timeout)
  PROVE  StartInv'
  <1> DEFINE a == Submission(timeout)
             new == <<a>>
  <1>1. /\ next_id \in JobIds /\ next_id \in Nat /\ next_id' = next_id + 1
        /\ JobIds \subseteq Nat
    <2>1. next_id \in JobIds /\ next_id' = next_id + 1
      BY SubmitEffect
    <2>2. JobIds \subseteq Nat
      BY DEF JobIds
    <2> QED
      BY <2>1, <2>2
  <1>2. a \in Action /\ a.type = "Submit" /\ a.id = next_id
    BY SubmitEffect
  <1>3. UNCHANGED <<jobs, lifecycle, tracking, processes>>
    BY SubmitEffect
  <1>4. Grows(new) /\ Items(new) = {a}
    BY SubmitEffect
  <1> HIDE DEF a, new
  <1>5. /\ Waiting \subseteq Action
        /\ \A b \in Waiting' : b \in Waiting \/ b = a
    BY <1>4, GrowsItems, TypeParts DEF HandleInv
  <1>6. \A id : HasChild(id)' <=> HasChild(id)
    BY <1>3 DEF HasChild
  <1>7. \A b \in Waiting : b.type \in StartTypes => b.id < next_id
    BY DEF StartInv, OnItsWay
  <1>8. NoPair(queue', TwoStarts)
    <2>1. \A b \in Waiting : <<b, a>> \notin TwoStarts
      BY <1>1, <1>2, <1>5, <1>7, TwoStartsPair
    <2>2. NoPair(new, TwoStarts)
      BY ShortPairs DEF new
    <2> QED
      BY <1>4, <2>1, <2>2, GrowsPairs, TypeParts DEF StartInv, HandleInv
  <1>9. /\ next_id \notin DOMAIN jobs \cup DOMAIN lifecycle \cup DOMAIN tracking
        /\ ~HasChild(next_id)
    BY <1>1 DEF StartInv, HasChild
  <1>10. \A id \in JobIds : id < next_id => id < next_id'
    BY <1>1
  <1>11. \A b \in Waiting' : b.type \in StartTypes => OnItsWay(b)'
    <2> SUFFICES ASSUME NEW b \in Waiting', b.type \in StartTypes
                 PROVE  OnItsWay(b)'
      OBVIOUS
    <2>1. CASE b = a
      BY <1>1, <1>2, <1>3, <1>6, <1>9, <2>1 DEF OnItsWay
    <2>2. CASE b \in Waiting
      <3>1. OnItsWay(b) /\ b.id \in JobIds
        BY <1>5, <2>2, Carried DEF StartInv
      <3> QED
        BY <1>3, <1>6, <1>10, <3>1 DEF OnItsWay
    <2> QED
      BY <1>5, <2>1, <2>2
  <1>12. \A b \in Waiting' :
           b.type \in {"Finished", "SignalProcess"} => HasChild(b.id)'
    BY <1>2, <1>5, <1>6 DEF StartInv
  <1>13. \A id \in DOMAIN jobs' \cup DOMAIN lifecycle' \cup DOMAIN tracking' :
           id < next_id'
    BY <1>3, <1>10 DEF StartInv, HandleInv, TypeOK
  <1>14. \A h \in DOMAIN processes' :
           /\ processes'[h].job < next_id'
           /\ processes'[h].job \in DOMAIN jobs' =>
                jobs'[processes'[h].job].process = h
    <2>1. \A h \in DOMAIN processes : processes[h].job \in JobIds
      BY DEF HandleInv, TypeOK, Process
    <2> QED
      BY <1>3, <1>10, <2>1 DEF StartInv
  <1> QED
    BY <1>3, <1>6, <1>8, <1>11, <1>12, <1>13, <1>14 DEF StartInv

\* Admission passes the start on.
LEMMA AdmitStarts ==
  ASSUME HandleInv, StartInv, HandleSubmit, ~AtLimit PROVE StartInv'
  <1> DEFINE h == Head(queue)
             a == Admission
             new == <<a>>
  <1>1. /\ QueueOK /\ queue # <<>> /\ h \in Action /\ h.type = "Submit"
        /\ h.id = HeadId
    BY AdmitEffect DEF HeadId
  <1>2. a \in Action /\ a.type = "Admitted" /\ a.id = h.id
    BY <1>1, AdmitEffect
  <1>3. UNCHANGED <<jobs, lifecycle, tracking, processes, next_id>>
    BY AdmitEffect
  <1>4. Grows(new) /\ Items(new) = {a} /\ NoPair(new, TwoStarts)
    BY AdmitEffect, ShortPairs
  <1>5. /\ Waiting \subseteq Action
        /\ Waiting = {h} \cup Rest
        /\ Waiting' = Rest \cup {a}
    BY <1>1, <1>4, AdmitEffect, GrowsItems
  <1>6. Emit(new)
    BY DEF HandleSubmit, Admission
  <1> HIDE DEF h, a, new
  <1>7. NoPair(queue', TwoStarts)
    <2>1. \A b \in Rest : <<h, b>> \notin TwoStarts
      BY <1>1, HeadClash DEF StartInv, h
    <2>2. \A b \in Rest : <<b, a>> \notin TwoStarts
      BY <1>1, <1>2, <1>5, <2>1, TwoStartsPair DEF StartTypes
    <2> QED
      BY <1>1, <1>4, <1>6, <2>2, TurnPairs DEF StartInv, Grows
  <1>8. \A id : HasChild(id)' <=> HasChild(id)
    BY <1>3 DEF HasChild
  <1>9. \A b \in Waiting' : b.type \in StartTypes => OnItsWay(b)'
    <2>1. OnItsWay(h) /\ h.type # "StartProcess"
      BY <1>1, <1>5 DEF StartInv, StartTypes
    <2>2. OnItsWay(a)
      BY <1>2, <2>1 DEF OnItsWay
    <2>3. \A b \in Waiting' : b.type \in StartTypes => OnItsWay(b)
      BY <1>5, <2>2 DEF StartInv
    <2> QED
      BY <1>3, <1>8, <2>3 DEF OnItsWay
  <1>10. \A b \in Waiting' :
          b.type \in {"Finished", "SignalProcess"} => HasChild(b.id)'
    BY <1>2, <1>5, <1>8 DEF StartInv
  <1> QED
    BY <1>3, <1>7, <1>8, <1>9, <1>10 DEF StartInv

\* The job is made, and its start is the only one of it that waits.
LEMMA AdmittedStarts ==
  ASSUME HandleInv, StartInv, HandleAdmitted PROVE StartInv'
  <1> DEFINE h == Head(queue)
             a == Start
             new == <<a>>
  <1>1. /\ QueueOK /\ queue # <<>> /\ h \in Action /\ h.type = "Admitted"
        /\ h.id = HeadId /\ HeadId \in JobIds
    BY AdmittedEffect DEF HeadId
  <1>2. a \in Action /\ a.type = "StartProcess" /\ a.id = HeadId
    BY AdmittedEffect
  <1>3. /\ processes' = processes /\ next_id' = next_id
        /\ DOMAIN jobs' = DOMAIN jobs \cup {HeadId}
        /\ jobs'[HeadId].process = NoHandle
        /\ \A id \in DOMAIN jobs : id # HeadId => jobs'[id] = jobs[id]
        /\ DOMAIN lifecycle' = DOMAIN lifecycle \cup {HeadId}
        /\ lifecycle'[HeadId] = "Admitted"
        /\ \A id \in DOMAIN lifecycle :
             id # HeadId => lifecycle'[id] = lifecycle[id]
        /\ DOMAIN tracking' \subseteq DOMAIN tracking \cup {HeadId}
    BY AdmittedEffect
  <1>4. Grows(new) /\ Items(new) = {a} /\ NoPair(new, TwoStarts)
    BY AdmittedEffect, ShortPairs
  <1>5. /\ Waiting \subseteq Action
        /\ Waiting = {h} \cup Rest
        /\ Waiting' = Rest \cup {a}
    BY <1>1, <1>4, AdmittedEffect, GrowsItems
  <1>6. Emit(new)
    BY DEF HandleAdmitted, Start
  <1> HIDE DEF h, a, new
  <1>7. \A b \in Rest : b.type \in StartTypes => b.id # HeadId
    <2>1. \A b \in Rest : <<h, b>> \notin TwoStarts
      BY <1>1, HeadClash DEF StartInv, h
    <2> QED
      BY <1>1, <1>5, <2>1, TwoStartsPair DEF StartTypes
  <1>8. NoPair(queue', TwoStarts)
    <2>1. \A b \in Rest : <<b, a>> \notin TwoStarts
      BY <1>2, <1>5, <1>7, TwoStartsPair DEF StartTypes
    <2> QED
      BY <1>1, <1>4, <1>6, <2>1, TurnPairs DEF StartInv, Grows
  <1>9. \A id : HasChild(id)' <=> HasChild(id)
    BY <1>3 DEF HasChild
  <1>10. OnItsWay(h) /\ ~HasChild(HeadId) /\ HeadId < next_id
    BY <1>1, <1>5 DEF StartInv, StartTypes, OnItsWay
  <1>11. \A b \in Waiting' : b.type \in StartTypes => OnItsWay(b)'
    <2>1. ASSUME NEW b, b = a PROVE OnItsWay(b)'
      BY <1>2, <1>3, <1>9, <1>10, <2>1 DEF OnItsWay
    <2>2. ASSUME NEW b \in Rest, b.type \in StartTypes PROVE OnItsWay(b)'
      <3>1. OnItsWay(b) /\ b.id # HeadId
        BY <1>5, <1>7, <2>2 DEF StartInv
      <3> QED
        BY <1>3, <1>9, <3>1 DEF OnItsWay
    <2> QED
      BY <1>5, <2>1, <2>2
  <1>12. \A b \in Waiting' :
           b.type \in {"Finished", "SignalProcess"} => HasChild(b.id)'
    BY <1>2, <1>5, <1>9 DEF StartInv
  <1>13. \A g \in DOMAIN processes' :
           /\ processes'[g].job < next_id'
           /\ processes'[g].job \in DOMAIN jobs' =>
                jobs'[processes'[g].job].process = g
    BY <1>3, <1>10 DEF StartInv, HasChild
  <1>14. \A id \in DOMAIN lifecycle' :
           lifecycle'[id] = "Finished" => ~HasChild(id)'
    BY <1>3, <1>9 DEF StartInv
  <1>15. \A id \in DOMAIN jobs' \cup DOMAIN lifecycle' \cup DOMAIN tracking' :
           id < next_id'
    BY <1>3, <1>10 DEF StartInv
  <1> QED
    BY <1>3, <1>8, <1>11, <1>12, <1>13, <1>14, <1>15 DEF StartInv
\* What a start announces.
LEMMA StartedItems ==
  ASSUME NEW id \in JobIds
  PROVE  /\ StartedActions(id) \in Seq(Action)
         /\ \A b \in Items(StartedActions(id)) :
              b.type \in {"Started", "RegisterInterest"} /\ b.id = id
  <1> DEFINE s == <<Simple("Started", id)>>
             w1 == Interest("RegisterInterest", id, "Stdout")
             w2 == Interest("RegisterInterest", id, "Stderr")
             w3 == Interest("RegisterInterest", id, "Stdin")
             w == <<w1, w2, w3>>
  <1>1. /\ s \in Seq(Action) /\ w \in Seq(Action) /\ <<>> \in Seq(Action)
    <2>1. /\ Simple("Started", id) \in Action
          /\ w1 \in Action /\ w2 \in Action /\ w3 \in Action
      BY Constructors DEF SimpleTypes, Streams
    <2> HIDE DEF w1, w2, w3
    <2> QED
      BY <2>1, EmptySeq
  <1>2. \A b \in Items(w) : b.type = "RegisterInterest" /\ b.id = id
    <2>1. /\ w1.type = "RegisterInterest" /\ w2.type = "RegisterInterest"
          /\ w3.type = "RegisterInterest"
          /\ w1.id = id /\ w2.id = id /\ w3.id = id
      BY DEF Interest
    <2> HIDE DEF w1, w2, w3
    <2> QED
      BY <2>1, ItemsOf
  <1>3. \A b \in Items(s) : b.type = "Started" /\ b.id = id
    BY ItemsOf DEF Simple
  <1>4. Items(<<>>) = {}
    BY ItemsOf
  <1>5. StartedActions(id) = s \o w \/ StartedActions(id) = <<>> \o w
    BY DEF StartedActions
  <1> HIDE DEF s, w
  <1>6. /\ Items(s \o w) = Items(s) \cup Items(w)
        /\ Items(<<>> \o w) = Items(<<>>) \cup Items(w)
    BY <1>1, JoinItems, ZenonT(60)
  <1>7. \A b \in Items(StartedActions(id)) :
          b.type \in {"Started", "RegisterInterest"} /\ b.id = id
    BY <1>2, <1>3, <1>4, <1>5, <1>6
  <1> QED
    BY <1>7, StartedType

\* What waits when a job is started: nothing else of the job that starts.
LEMMA StartTurn ==
  ASSUME HandleInv, StartInv, HandleStartProcess
  PROVE  /\ QueueOK /\ queue # <<>> /\ HeadId \in JobIds
         /\ Head(queue) \in Action /\ Head(queue).type = "StartProcess"
         /\ Waiting \subseteq Action
         /\ Waiting = {Head(queue)} \cup Rest
         /\ \A b \in Rest : b.type \in StartTypes => b.id # HeadId
         /\ HeadId \in DOMAIN jobs /\ jobs[HeadId].process = NoHandle
         /\ HeadId \in DOMAIN lifecycle /\ lifecycle[HeadId] = "Admitted"
         /\ HeadId < next_id /\ ~HasChild(HeadId)
  <1>1. /\ QueueOK /\ queue # <<>> /\ HeadId \in JobIds
        /\ Head(queue) \in Action /\ Head(queue).type = "StartProcess"
        /\ <<>> \in Seq(Action)
    BY HeadType, TypeParts DEF HandleStartProcess, HandleInv, Popped
  <1>2. /\ Waiting \subseteq Action
        /\ Waiting = {Head(queue)} \cup Rest
    <2>1. queue \in Seq(Action)
      BY <1>1 DEF QueueOK
    <2> QED
      BY <1>1, <2>1, HeadItems, ItemsType DEF Waiting, Rest
  <1>3. \A b \in Rest : b.type \in StartTypes => b.id # HeadId
    <2>1. \A b \in Rest : <<Head(queue), b>> \notin TwoStarts
      BY <1>1, HeadClash DEF StartInv
    <2> QED
      BY <1>1, <1>2, <2>1, TwoStartsPair DEF StartTypes, HeadId
  <1>4. OnItsWay(Head(queue))
    BY <1>1, <1>2 DEF StartInv, StartTypes
  <1> QED
    BY <1>1, <1>2, <1>3, <1>4 DEF OnItsWay, HeadId

\* The job's new child is in its handle, and nothing else changes.
LEMMA SpawnEffect ==
  ASSUME HandleInv, StartInv, HandleStartProcess, SpawnSucceeds(HeadId)
  PROVE  /\ next_handle \notin DOMAIN processes
         /\ next_handle # NoHandle
         /\ DOMAIN processes' = DOMAIN processes \cup {next_handle}
         /\ processes'[next_handle] = [job |-> HeadId, state |-> "running",
                                       status |-> 0, sig |-> "none"]
         /\ \A h \in DOMAIN processes : processes'[h] = processes[h]
         /\ DOMAIN jobs' = DOMAIN jobs
         /\ jobs'[HeadId].process = next_handle
         /\ jobs'[HeadId].timed_out = jobs[HeadId].timed_out
         /\ \A id \in DOMAIN jobs : id # HeadId => jobs'[id] = jobs[id]
         /\ lifecycle' = Insert(lifecycle, HeadId, "Running")
         /\ UNCHANGED <<next_id, results, active_jobs, tracking>>
         /\ Emit(StartedActions(HeadId))
  <1>1. /\ HeadId \in DOMAIN jobs /\ jobs[HeadId] \in JobState
    BY StartTurn DEF HandleInv, TypeOK
  <1>2. next_handle \notin DOMAIN processes /\ next_handle # NoHandle
    BY DEF HandleInv, HandlesFresh, TypeOK, NoHandle
  <1> DEFINE child == [job |-> HeadId, state |-> "running", status |-> 0,
                       sig |-> "none"]
  <1>3. /\ processes' = Insert(processes, next_handle, child)
        /\ NoteStarted(HeadId, next_handle, next_handle + 1)
        /\ Emit(StartedActions(HeadId))
    BY Zenon DEF SpawnSucceeds
  <1> HIDE DEF child
  <1>4. /\ DOMAIN processes' = DOMAIN processes \cup {next_handle}
        /\ processes'[next_handle] = child
        /\ \A h \in DOMAIN processes : processes'[h] = processes[h]
    BY <1>2, <1>3 DEF Insert
  <1>5. /\ jobs' = [jobs EXCEPT ![HeadId].process = next_handle,
                                ![HeadId].io = next_handle + 1]
        /\ lifecycle' = Insert(lifecycle, HeadId, "Running")
    BY <1>1, <1>3 DEF NoteStarted
  <1>6. /\ DOMAIN jobs' = DOMAIN jobs
        /\ jobs'[HeadId].process = next_handle
        /\ jobs'[HeadId].timed_out = jobs[HeadId].timed_out
        /\ \A id \in DOMAIN jobs : id # HeadId => jobs'[id] = jobs[id]
    BY <1>1, <1>5 DEF JobState
  <1>7. UNCHANGED <<next_id, results, active_jobs, tracking>>
    BY DEF HandleStartProcess, Popped, loopVars, policyVars
  <1> QED
    BY <1>2, <1>3, <1>4, <1>5, <1>6, <1>7 DEF child

\* The queue after a turn whose actions start nothing.
LEMMA PastStarts ==
  ASSUME QueueOK, queue # <<>>, NEW actions \in Seq(Action), Emit(actions),
         NoPair(queue, TwoStarts),
         \A b \in Items(actions) :
           b.type \notin StartTypes \cup {"Finished", "SignalProcess"}
  PROVE  /\ NoPair(queue', TwoStarts)
         /\ \A b \in Waiting' :
              \/ b \in Rest
              \/ b.type \notin StartTypes \cup {"Finished", "SignalProcess"}
  BY TurnItems, StartPairs

LEMMA SpawnStarts ==
  ASSUME HandleInv, StartInv, HandleStartProcess, SpawnSucceeds(HeadId)
  PROVE  StartInv'
  <1>1. /\ QueueOK /\ queue # <<>> /\ HeadId \in JobIds
        /\ Rest \subseteq Waiting
        /\ \A b \in Rest : b.type \in StartTypes => b.id # HeadId
        /\ HeadId \in DOMAIN jobs /\ HeadId \in DOMAIN lifecycle
        /\ HeadId < next_id /\ ~HasChild(HeadId)
    BY StartTurn
  <1> DEFINE new == StartedActions(HeadId)
  <1>2. /\ new \in Seq(Action) /\ Emit(new)
        /\ \A b \in Items(new) : b.type \in {"Started", "RegisterInterest"}
    BY <1>1, StartedItems, SpawnEffect
  <1> HIDE DEF new
  <1>3. /\ NoPair(queue', TwoStarts)
        /\ \A b \in Waiting' :
             \/ b \in Rest
             \/ b.type \notin StartTypes \cup {"Finished", "SignalProcess"}
    BY <1>1, <1>2, PastStarts DEF StartInv, StartTypes
  <1>4. /\ next_handle \notin DOMAIN processes
        /\ next_handle # NoHandle
        /\ DOMAIN processes' = DOMAIN processes \cup {next_handle}
        /\ processes'[next_handle].job = HeadId
        /\ \A h \in DOMAIN processes : processes'[h] = processes[h]
        /\ DOMAIN jobs' = DOMAIN jobs
        /\ jobs'[HeadId].process = next_handle
        /\ \A id \in DOMAIN jobs : id # HeadId => jobs'[id] = jobs[id]
        /\ next_id' = next_id /\ tracking' = tracking
    BY SpawnEffect
  <1>5. /\ DOMAIN lifecycle' = DOMAIN lifecycle
        /\ lifecycle'[HeadId] = "Running"
        /\ \A id \in DOMAIN lifecycle :
             id # HeadId => lifecycle'[id] = lifecycle[id]
    BY <1>1, SpawnEffect DEF Insert
  <1>6. \A id : HasChild(id)' <=> HasChild(id) \/ id = HeadId
    BY <1>4 DEF HasChild
  <1>7. \A b \in Waiting' : b.type \in StartTypes => OnItsWay(b)'
    <2> SUFFICES ASSUME NEW b \in Waiting', b.type \in StartTypes
                 PROVE  OnItsWay(b)'
      OBVIOUS
    <2>1. b \in Rest /\ b.id # HeadId /\ OnItsWay(b)
      BY <1>1, <1>3 DEF StartInv
    <2> QED
      BY <1>4, <1>5, <1>6, <2>1 DEF OnItsWay
  <1>8. \A b \in Waiting' :
          b.type \in {"Finished", "SignalProcess"} => HasChild(b.id)'
    BY <1>1, <1>3, <1>6 DEF StartInv
  <1>9. \A h \in DOMAIN processes' :
          /\ processes'[h].job < next_id'
          /\ processes'[h].job \in DOMAIN jobs' =>
               jobs'[processes'[h].job].process = h
    BY <1>1, <1>4 DEF StartInv, HasChild
  <1>10. \A id \in DOMAIN lifecycle' :
           lifecycle'[id] = "Finished" => ~HasChild(id)'
    BY <1>5, <1>6 DEF StartInv
  <1>11. /\ \A id \in DOMAIN jobs' \cup DOMAIN lifecycle' \cup DOMAIN tracking' :
              id < next_id'
         /\ NoHandle \notin DOMAIN processes'
    BY <1>4, <1>5 DEF StartInv
  <1> QED
    BY <1>3, <1>7, <1>8, <1>9, <1>10, <1>11 DEF StartInv

LEMMA SpawnFailsStarts ==
  ASSUME HandleInv, StartInv, HandleStartProcess, SpawnFails(HeadId)
  PROVE  StartInv'
  <1>1. /\ QueueOK /\ queue # <<>> /\ HeadId \in JobIds
        /\ Rest \subseteq Waiting
        /\ \A b \in Rest : b.type \in StartTypes => b.id # HeadId
        /\ HeadId \in DOMAIN jobs /\ HeadId \in DOMAIN lifecycle
        /\ HeadId < next_id /\ ~HasChild(HeadId)
    BY StartTurn
  <1> DEFINE a == Refusal
             new == <<a>>
  <1>2. a.type = "Rejected"
    BY RefusalEffect
  <1>3. /\ UNCHANGED <<jobs, processes, tracking, next_id>>
        /\ Emit(new)
        /\ DOMAIN lifecycle' = DOMAIN lifecycle
        /\ \A id \in DOMAIN lifecycle :
             id # HeadId => lifecycle'[id] = lifecycle[id]
    BY <1>1, RefusalEffect DEF Insert
  <1>4. new \in Seq(Action) /\ Items(new) = {a}
    BY RefusalEffect DEF Grows
  <1> HIDE DEF a, new
  <1>5. /\ NoPair(queue', TwoStarts)
        /\ \A b \in Waiting' :
             \/ b \in Rest
             \/ b.type \notin StartTypes \cup {"Finished", "SignalProcess"}
    BY <1>1, <1>2, <1>3, <1>4, PastStarts DEF StartInv, StartTypes
  <1>6. \A id : HasChild(id)' <=> HasChild(id)
    BY <1>3 DEF HasChild
  <1>7. \A b \in Waiting' : b.type \in StartTypes => OnItsWay(b)'
    <2> SUFFICES ASSUME NEW b \in Waiting', b.type \in StartTypes
                 PROVE  OnItsWay(b)'
      OBVIOUS
    <2>1. b \in Rest /\ b.id # HeadId /\ OnItsWay(b)
      BY <1>1, <1>5 DEF StartInv
    <2> QED
      BY <1>3, <1>6, <2>1 DEF OnItsWay
  <1>8. \A b \in Waiting' :
          b.type \in {"Finished", "SignalProcess"} => HasChild(b.id)'
    BY <1>1, <1>5, <1>6 DEF StartInv
  <1>9. \A id \in DOMAIN lifecycle' :
          lifecycle'[id] = "Finished" => ~HasChild(id)'
    BY <1>1, <1>3, <1>6 DEF StartInv
  <1> QED
    BY <1>3, <1>5, <1>7, <1>8, <1>9 DEF StartInv
\* A signal reaches the child of a live job, and the job is marked; a job that
\* is gone is left alone.
LEMMA SignalEffect ==
  ASSUME HandleInv, StartInv, HandleSignalProcess
  PROVE  /\ QueueOK /\ queue # <<>> /\ HeadId \in JobIds
         /\ Head(queue) \in Action /\ Head(queue).type = "SignalProcess"
         /\ Head(queue).signal \in Signals
         /\ HasChild(HeadId)
         /\ Waiting \subseteq Action
         /\ Waiting = {Head(queue)} \cup Rest
         /\ Emit(<<>>) /\ Waiting' = Rest
         /\ DOMAIN jobs' = DOMAIN jobs
         /\ \A id \in DOMAIN jobs :
              /\ jobs'[id].process = jobs[id].process
              /\ id # HeadId => jobs'[id] = jobs[id]
              /\ id = HeadId =>
                   /\ HasProcess(id)
                   /\ jobs'[id].timed_out = (\/ jobs[id].timed_out
                                             \/ Head(queue).signal = "GracefulStop")
         /\ DOMAIN processes' = DOMAIN processes
         /\ \A h \in DOMAIN processes :
              /\ processes'[h].job = processes[h].job
              /\ processes'[h].state = processes[h].state
              /\ processes'[h].status = processes[h].status
              /\ processes[h].sig # "none" => processes'[h].sig # "none"
              /\ ~(HeadId \in DOMAIN jobs /\ h = jobs[HeadId].process) =>
                   processes'[h] = processes[h]
              /\ (HeadId \in DOMAIN jobs /\ h = jobs[HeadId].process) =>
                   processes'[h].sig # "none"
         /\ UNCHANGED <<next_id, results, active_jobs, tracking>>
         /\ HeadId \notin DOMAIN jobs => UNCHANGED <<jobs, lifecycle, processes>>
         /\ HeadId \in DOMAIN jobs =>
              lifecycle' = Insert(lifecycle, HeadId,
                             IF Head(queue).signal = "GracefulStop"
                             THEN "Terminating" ELSE "Killed")
  <1>1. /\ QueueOK /\ queue # <<>> /\ HeadId \in JobIds
        /\ Head(queue) \in Action /\ Head(queue).type = "SignalProcess"
        /\ Head(queue).signal \in Signals /\ <<>> \in Seq(Action)
    BY HeadType, TypeParts, Carried DEF HandleSignalProcess, HandleInv
  <1>2. /\ Waiting \subseteq Action
        /\ Waiting = {Head(queue)} \cup Rest
        /\ Emit(<<>>) /\ Waiting' = Rest
    <2>1. Emit(<<>>)
      BY DEF HandleSignalProcess
    <2> QED
      BY <1>1, <2>1, TurnItems, ItemsOf
  <1>3. HasChild(HeadId)
    BY <1>1, <1>2 DEF StartInv, HeadId
  <1>4. UNCHANGED <<next_id, results, active_jobs, tracking>>
    BY DEF HandleSignalProcess, Popped, loopVars, policyVars
  <1>5. HeadId \in DOMAIN jobs <=> HasProcess(HeadId)
    BY <1>3, ChildHandle DEF HasProcess
  <1>6. CASE HeadId \notin DOMAIN jobs
    <2>1. UNCHANGED <<jobs, lifecycle, processes>>
      BY <1>5, <1>6 DEF HandleSignalProcess
    <2> QED
      BY <1>1, <1>2, <1>3, <1>4, <1>6, <2>1
  <1>7. CASE HeadId \in DOMAIN jobs
    <2> DEFINE p == jobs[HeadId].process
               sig == IF Head(queue).signal = "ForceKill" \/ processes[p].sig = "kill"
                      THEN "kill" ELSE "term"
    <2>1. p \in DOMAIN processes /\ processes[p] \in Process
      BY <1>5, <1>7, ChildOfJob
    <2>2. processes' = [processes EXCEPT ![p].sig = sig]
      BY <1>5, <1>7 DEF HandleSignalProcess, KillProcess
    <2>3. sig # "none"
      OBVIOUS
    <2> HIDE DEF sig, p
    <2>4. /\ DOMAIN processes' = DOMAIN processes
          /\ \A h \in DOMAIN processes :
               /\ h # p => processes'[h] = processes[h]
               /\ processes'[h].job = processes[h].job
               /\ processes'[h].state = processes[h].state
               /\ processes'[h].status = processes[h].status
               /\ h = p => processes'[h].sig # "none"
      BY <2>1, <2>2, <2>3, ChildType DEF Process
    <2>5. jobs[HeadId] \in JobState
      BY <1>7 DEF HandleInv, TypeOK
    <2>6. /\ jobs' = IF Head(queue).signal = "GracefulStop"
                     THEN [jobs EXCEPT ![HeadId].timed_out = TRUE] ELSE jobs
          /\ lifecycle' = Insert(lifecycle, HeadId,
                            IF Head(queue).signal = "GracefulStop"
                            THEN "Terminating" ELSE "Killed")
      BY <1>7 DEF HandleSignalProcess, NoteSignal
    <2>7. DOMAIN jobs' = DOMAIN jobs
      BY <2>6
    <2>8. /\ \A id \in DOMAIN jobs : id # HeadId => jobs'[id] = jobs[id]
          /\ jobs'[HeadId].process = jobs[HeadId].process
      BY <1>7, <2>5, <2>6 DEF JobState
    <2>9. jobs'[HeadId].timed_out = (\/ jobs[HeadId].timed_out
                                     \/ Head(queue).signal = "GracefulStop")
      <3>1. jobs[HeadId].timed_out \in BOOLEAN
        BY <2>5 DEF JobState
      <3>2. CASE Head(queue).signal = "GracefulStop"
        <4>1. jobs'[HeadId].timed_out = TRUE
          BY <1>7, <2>5, <2>6, <3>2 DEF JobState
        <4> QED
          BY <3>2, <4>1
      <3>3. CASE Head(queue).signal # "GracefulStop"
        BY <2>6, <3>1, <3>3
      <3> QED
        BY <3>2, <3>3
    <2>10. \A id \in DOMAIN jobs :
             /\ jobs'[id].process = jobs[id].process
             /\ id # HeadId => jobs'[id] = jobs[id]
             /\ id = HeadId =>
                  /\ HasProcess(id)
                  /\ jobs'[id].timed_out =
                       (\/ jobs[id].timed_out
                        \/ Head(queue).signal = "GracefulStop")
      BY <1>5, <1>7, <2>8, <2>9, Zenon
    <2>11. \A h \in DOMAIN processes :
             /\ processes'[h].job = processes[h].job
             /\ processes'[h].state = processes[h].state
             /\ processes'[h].status = processes[h].status
             /\ processes[h].sig # "none" => processes'[h].sig # "none"
             /\ ~(HeadId \in DOMAIN jobs /\ h = jobs[HeadId].process) =>
                  processes'[h] = processes[h]
             /\ (HeadId \in DOMAIN jobs /\ h = jobs[HeadId].process) =>
                  processes'[h].sig # "none"
      BY <1>7, <2>4, Zenon DEF p
    <2> QED
      BY <1>1, <1>2, <1>3, <1>4, <1>7, <2>4, <2>6, <2>7, <2>10, <2>11, Zenon
  <1> QED
    BY <1>6, <1>7

LEMMA SignalledStarts ==
  ASSUME HandleInv, StartInv, HandleSignalProcess PROVE StartInv'
  <1>1. NoPair(queue', TwoStarts) /\ Waiting' \subseteq Waiting
    <2>1. QueueOK /\ queue # <<>> /\ Emit(<<>>) /\ Waiting' \subseteq Waiting
      BY SignalEffect
    <2>2. <<>> \in Seq(Action) /\ Items(<<>>) = {}
      BY EmptySeq, ItemsOf
    <2> QED
      BY <2>1, <2>2, PastStarts DEF StartInv
  <1>2. /\ DOMAIN lifecycle \subseteq DOMAIN lifecycle'
        /\ \A id \in DOMAIN lifecycle' :
             \/ id \in DOMAIN lifecycle /\ lifecycle'[id] = lifecycle[id]
             \/ /\ id \in DOMAIN jobs /\ HasChild(id)
                /\ lifecycle'[id] # "Finished"
    BY SignalEffect DEF Insert
  <1>3. /\ DOMAIN jobs' = DOMAIN jobs
        /\ \A id \in DOMAIN jobs : jobs'[id].process = jobs[id].process
        /\ DOMAIN processes' = DOMAIN processes
        /\ \A h \in DOMAIN processes : processes'[h].job = processes[h].job
        /\ next_id' = next_id /\ tracking' = tracking
    BY SignalEffect
  <1> QED
    BY <1>1, <1>2, <1>3, StartKept
\* A poll of a child that has ended reaps it and reports it.
Exit ==
  [type |-> "Finished", id |-> HeadId,
   result |-> [status |-> WaitStatus(jobs[HeadId].process),
               timed_out |-> jobs[HeadId].timed_out]]

PollEnds ==
  /\ Popped({"PollProcess"})
  /\ HasProcess(HeadId)
  /\ Child(HeadId).state # "running"
  /\ processes' = [processes EXCEPT ![jobs[HeadId].process].state = "reaped"]
  /\ Emit(<<Exit>>)
  /\ UNCHANGED <<next_id, jobs, lifecycle, results, active_jobs, tracking>>

LEMMA PollTurns ==
  ASSUME HandleInv, HandlePollProcess PROVE QuietStep \/ PollEnds
  <1>1. /\ QueueOK /\ queue # <<>>
        /\ Head(queue).type \notin {"Finished", "Admitted", "Submit"}
    BY TypeParts DEF HandleInv, HandlePollProcess, Popped
  <1>2. UNCHANGED <<next_id, jobs, lifecycle, results, active_jobs, tracking>>
    BY DEF HandlePollProcess, Popped, loopVars, stateVars, policyVars
  <1>3. CASE Emit(<<>>) /\ UNCHANGED processes
    <2>1. Kept
      BY <1>2, <1>3 DEF Kept
    <2> QED
      BY <1>1, <1>3, <2>1, SilentTurn
  <1>4. CASE ~(Emit(<<>>) /\ UNCHANGED processes)
    <2>1. HasProcess(HeadId) /\ Poll(HeadId, jobs[HeadId].process)
      BY <1>4 DEF HandlePollProcess
    <2> QED
      BY <1>2, <1>4, <2>1
      DEF HandlePollProcess, Poll, PollEnds, Child, Exit, ExitedActions
  <1> QED
    BY <1>3, <1>4

LEMMA PollEffect ==
  ASSUME HandleInv, PollEnds
  PROVE  /\ QueueOK /\ queue # <<>> /\ HeadId \in DOMAIN jobs
         /\ Head(queue) \in Action /\ Head(queue).type = "PollProcess"
         /\ Exit \in Action
         /\ Waiting \subseteq Action
         /\ Waiting = {Head(queue)} \cup Rest
         /\ Waiting' = Rest \cup {Exit}
         /\ jobs[HeadId].process \in DOMAIN processes
         /\ Child(HeadId).job = HeadId
         /\ DOMAIN processes' = DOMAIN processes
         /\ processes'[jobs[HeadId].process].state = "reaped"
         /\ \A h \in DOMAIN processes :
              /\ processes'[h].job = processes[h].job
              /\ processes'[h].status = processes[h].status
              /\ processes'[h].sig = processes[h].sig
              /\ h # jobs[HeadId].process => processes'[h] = processes[h]
         /\ UNCHANGED <<next_id, jobs, lifecycle, results, active_jobs, tracking>>
  <1> DEFINE p == jobs[HeadId].process
  <1>1. /\ QueueOK /\ queue # <<>> /\ HeadId \in JobIds
        /\ Head(queue) \in Action /\ Head(queue).type = "PollProcess"
    BY HeadType, TypeParts DEF PollEnds, HandleInv, Popped
  <1>2. /\ HeadId \in DOMAIN jobs
        /\ p \in DOMAIN processes /\ processes[p].job = HeadId
        /\ processes[p] \in Process
        /\ jobs[HeadId].timed_out \in BOOLEAN
    BY ChildOfJob DEF PollEnds, HasProcess, HandleInv, TypeOK, JobState
  <1>3. Exit \in Action
    <2>1. WaitStatus(p) \in Statuses
      BY <1>2 DEF WaitStatus, Process, Statuses
    <2> HIDE DEF p
    <2>2. [status |-> WaitStatus(p), timed_out |-> jobs[HeadId].timed_out]
            \in ExecResult
      BY <1>2, <2>1 DEF ExecResult
    <2> QED
      BY <1>1, <2>2, Constructors DEF Exit, p
  <1>4. /\ Waiting \subseteq Action
        /\ Waiting = {Head(queue)} \cup Rest
        /\ Waiting' = Rest \cup {Exit}
    <2>1. <<Exit>> \in Seq(Action) /\ Items(<<Exit>>) = {Exit} /\ Emit(<<Exit>>)
      BY <1>3, ItemsOf DEF PollEnds
    <2> QED
      BY <1>1, <2>1, TurnItems
  <1>5. /\ DOMAIN processes' = DOMAIN processes
        /\ processes'[p].state = "reaped"
        /\ \A h \in DOMAIN processes :
             /\ processes'[h].job = processes[h].job
             /\ processes'[h].status = processes[h].status
             /\ processes'[h].sig = processes[h].sig
             /\ h # p => processes'[h] = processes[h]
    BY <1>2, ChildType DEF PollEnds, Process
  <1>6. UNCHANGED <<next_id, jobs, lifecycle, results, active_jobs, tracking>>
    BY DEF PollEnds
  <1> QED
    BY <1>1, <1>2, <1>3, <1>4, <1>5, <1>6 DEF Child

LEMMA PolledStarts ==
  ASSUME HandleInv, StartInv, PollEnds PROVE StartInv'
  <1> DEFINE new == <<Exit>>
  <1>1. /\ QueueOK /\ queue # <<>> /\ Emit(new)
        /\ new \in Seq(Action) /\ Items(new) = {Exit}
        /\ Exit.type = "Finished" /\ Exit.id = HeadId
        /\ HasChild(HeadId)
    BY PollEffect, ItemsOf, ChildHandle DEF PollEnds, Exit
  <1> HIDE DEF new
  <1>2. NoPair(queue', TwoStarts)
    BY <1>1, StartPairs DEF StartInv, StartTypes
  <1>3. \A a \in Waiting' :
          \/ a \in Waiting
          \/ /\ a.type \notin StartTypes
             /\ a.type \in {"Finished", "SignalProcess"} => HasChild(a.id)
    BY <1>1, PollEffect DEF StartTypes
  <1> QED
    BY <1>2, <1>3, PollEffect, StartKept

\* A result retires its job, when there is one left.
LEMMA FinishedEffect ==
  ASSUME HandleInv, HandleFinished
  PROVE  /\ QueueOK /\ queue # <<>> /\ HeadId \in JobIds
         /\ Head(queue) \in Action /\ Head(queue).type = "Finished"
         /\ Waiting \subseteq Action
         /\ Waiting = {Head(queue)} \cup Rest
         /\ Emit(<<>>) /\ Waiting' = Rest
         /\ DOMAIN jobs' = DOMAIN jobs \ {HeadId}
         /\ \A id \in DOMAIN jobs' : jobs'[id] = jobs[id]
         /\ DOMAIN tracking' = DOMAIN tracking \ {HeadId}
         /\ \A id \in DOMAIN tracking' : tracking'[id] = tracking[id]
         /\ active_jobs' = ReleaseSlot
         /\ UNCHANGED <<next_id, lifecycle, processes>>
  <1>1. /\ QueueOK /\ queue # <<>> /\ HeadId \in JobIds
        /\ Head(queue) \in Action /\ Head(queue).type = "Finished"
        /\ <<>> \in Seq(Action)
    BY HeadType, TypeParts DEF HandleFinished, HandleInv, Popped
  <1>2. /\ Waiting \subseteq Action
        /\ Waiting = {Head(queue)} \cup Rest
        /\ Emit(<<>>) /\ Waiting' = Rest
    <2>1. Emit(<<>>)
      BY DEF HandleFinished
    <2> QED
      BY <1>1, <2>1, TurnItems, ItemsOf
  <1>3. /\ DOMAIN jobs' = DOMAIN jobs \ {HeadId}
        /\ \A id \in DOMAIN jobs' : jobs'[id] = jobs[id]
    <2>1. \/ jobs' = Delete(jobs, HeadId)
          \/ HeadId \notin DOMAIN jobs /\ jobs' = jobs
      BY DEF HandleFinished, StoreResult
    <2>2. CASE jobs' = Delete(jobs, HeadId)
      BY <2>2, DeleteFacts
    <2>3. CASE HeadId \notin DOMAIN jobs /\ jobs' = jobs
      BY <2>3
    <2> QED
      BY <2>1, <2>2, <2>3
  <1>4. /\ DOMAIN tracking' = DOMAIN tracking \ {HeadId}
        /\ \A id \in DOMAIN tracking' : tracking'[id] = tracking[id]
    BY DeleteFacts DEF HandleFinished
  <1>5. active_jobs' = ReleaseSlot /\ UNCHANGED <<next_id, lifecycle, processes>>
    BY DEF HandleFinished, Popped, loopVars, executorVars
  <1> QED
    BY <1>1, <1>2, <1>3, <1>4, <1>5

LEMMA FinishedStarts ==
  ASSUME HandleInv, StartInv, HandleFinished PROVE StartInv'
  <1>1. NoPair(queue', TwoStarts) /\ Waiting' \subseteq Waiting
    <2>1. QueueOK /\ queue # <<>> /\ Emit(<<>>) /\ Waiting' \subseteq Waiting
      BY FinishedEffect
    <2>2. <<>> \in Seq(Action) /\ Items(<<>>) = {}
      BY EmptySeq, ItemsOf
    <2> QED
      BY <2>1, <2>2, PastStarts DEF StartInv
  <1>2. HasChild(HeadId)
    BY FinishedEffect DEF StartInv, HeadId
  <1>3. /\ DOMAIN jobs' \subseteq DOMAIN jobs
        /\ \A id \in DOMAIN jobs \ DOMAIN jobs' : HasChild(id)
        /\ \A id \in DOMAIN jobs' : jobs'[id] = jobs[id]
        /\ DOMAIN tracking' \subseteq DOMAIN tracking
        /\ UNCHANGED <<next_id, lifecycle, processes>>
    BY <1>2, FinishedEffect
  <1> QED
    BY <1>1, <1>3, StartKept

\* A child ends: it keeps its job and its signal.
LEMMA ExitEffect ==
  ASSUME HandleInv, NEW h, ChildExits(h)
  PROVE  /\ h \in DOMAIN processes /\ processes[h].state = "running"
         /\ DOMAIN processes' = DOMAIN processes
         /\ processes'[h].state = "zombie"
         /\ \A g \in DOMAIN processes :
              /\ processes'[g].job = processes[g].job
              /\ processes'[g].sig = processes[g].sig
              /\ g # h => processes'[g] = processes[g]
         /\ UNCHANGED <<queue, next_id, jobs, lifecycle, results, active_jobs,
                        tracking>>
  <1>1. PICK status \in EndStatuses :
          processes' = [processes EXCEPT ![h].state = "zombie",
                                         ![h].status = status]
    BY DEF ChildExits
  <1>2. /\ h \in DOMAIN processes /\ processes[h].state = "running"
        /\ processes[h] \in Process
    BY ChildType DEF ChildExits
  <1>3. /\ DOMAIN processes' = DOMAIN processes
        /\ processes'[h].state = "zombie"
        /\ \A g \in DOMAIN processes :
             /\ processes'[g].job = processes[g].job
             /\ processes'[g].sig = processes[g].sig
             /\ g # h => processes'[g] = processes[g]
    BY <1>1, <1>2 DEF Process
  <1> QED
    BY <1>2, <1>3 DEF ChildExits, stateVars, policyVars

LEMMA ExitStarts ==
  ASSUME HandleInv, StartInv, NEW h, ChildExits(h) PROVE StartInv'
  <1>1. queue' = queue
    BY ExitEffect
  <1>2. NoPair(queue', TwoStarts) /\ Waiting' = Waiting
    BY <1>1 DEF StartInv, Waiting
  <1> QED
    BY <1>2, ExitEffect, StartKept

\* The steps, by what they do to the jobs and to the queue.
LEMMA StepCases ==
  ASSUME HandleInv, [CoreNext]_coreVars
  PROVE  \/ QuietStep
         \/ SignalStep
         \/ \E timeout \in Timeouts : RequestSubmit(timeout)
         \/ \E id \in JobIds : RequestPoll(id)
         \/ HandleSubmit /\ ~AtLimit
         \/ HandleAdmitted
         \/ HandleStartProcess /\ SpawnSucceeds(HeadId)
         \/ HandleStartProcess /\ SpawnFails(HeadId)
         \/ HandleSignalProcess
         \/ PollEnds
         \/ HandleFinished
         \/ \E h \in DOMAIN processes : ChildExits(h)
  <1>1. CASE Requests
    BY <1>1, QuietRequests
  <1>2. CASE Loop
    <2>1. CASE Drain
      BY <2>1, QuietTurns, AskingTurns, PollTurns DEF Drain, HandleStartProcess
    <2>2. CASE ~Drain
      BY <1>2, <2>2, QuietEvents DEF Loop
    <2> QED
      BY <2>1, <2>2
  <1>3. CASE Children
    BY <1>3 DEF Children
  <1>4. CASE UNCHANGED coreVars
    BY <1>4, QuietEvents
  <1> QED
    BY <1>1, <1>2, <1>3, <1>4 DEF CoreNext

LEMMA NextStartInv ==
  ASSUME HandleInv, StartInv, [CoreNext]_coreVars PROVE StartInv'
  BY StepCases, QuietStarts, SignalStarts, SubmitStarts, PollRequestStarts,
     AdmitStarts, AdmittedStarts, SpawnStarts, SpawnFailsStarts,
     SignalledStarts, PolledStarts, FinishedStarts, ExitStarts

LEMMA InitStartInv == CoreInit => StartInv
  <1> SUFFICES ASSUME CoreInit PROVE StartInv
    OBVIOUS
  <1>1. /\ DOMAIN jobs = {} /\ DOMAIN lifecycle = {} /\ DOMAIN tracking = {}
        /\ DOMAIN processes = {}
    BY DEF CoreInit, EmptyMap
  <1>2. Waiting = {} /\ NoPair(queue, TwoStarts)
    <2>1. queue = <<>>
      BY DEF CoreInit
    <2> QED
      BY <2>1, ItemsOf, ShortPairs DEF Waiting
  <1> QED
    BY <1>1, <1>2 DEF StartInv
-----------------------------------------------------------------------------
(***************************************************************************)
(* TruthInv: the result stored is the end of the job's child.              *)
(***************************************************************************)

LEMMA UntruePair ==
  ASSUME NEW a \in Action, NEW b \in Action
  PROVE  <<a, b>> \in UntrueFirst <=>
           /\ a.type = "Finished" /\ b.type = "Finished" /\ b.id = a.id
           /\ a.id \in DOMAIN jobs
           /\ a.result.status # Child(a.id).status
           /\ b.result.status = Child(a.id).status
  BY DEF UntrueFirst, IsResult

LEMMA UntruePairNext ==
  ASSUME NEW a \in Action, NEW b \in Action
  PROVE  <<a, b>> \in UntrueFirst' <=>
           /\ a.type = "Finished" /\ b.type = "Finished" /\ b.id = a.id
           /\ a.id \in DOMAIN jobs'
           /\ a.result.status # Child(a.id)'.status
           /\ b.result.status = Child(a.id)'.status
  BY DEF UntrueFirst, IsResult

\* Jobs come without a child, and a reaped child stays as it is.
ChildrenKept ==
  /\ DOMAIN jobs \subseteq DOMAIN jobs'
  /\ \A id \in DOMAIN jobs' \ DOMAIN jobs :
       ~HasChild(id) /\ jobs'[id].process = NoHandle /\ ~jobs'[id].timed_out
  /\ \A id \in DOMAIN jobs :
       \/ jobs'[id].process = jobs[id].process
       \/ /\ ~HasProcess(id)
          /\ jobs'[id].process \in DOMAIN processes'
          /\ processes'[jobs'[id].process].state # "reaped"
  /\ \A id \in DOMAIN jobs : jobs'[id].timed_out =>
       \/ jobs[id].timed_out
       \/ HasProcess(id) /\ processes'[jobs[id].process].sig # "none"
  /\ DOMAIN processes \subseteq DOMAIN processes'
  /\ \A h \in DOMAIN processes :
       /\ processes'[h].job = processes[h].job
       /\ processes'[h].state = "reaped" <=> processes[h].state = "reaped"
       /\ processes[h].state = "reaped" =>
            processes'[h].status = processes[h].status
       /\ processes[h].sig # "none" => processes'[h].sig # "none"
  /\ \A h \in DOMAIN processes' \ DOMAIN processes :
       processes'[h].job \in DOMAIN jobs'
  /\ \A i \in DOMAIN results' : \E k \in DOMAIN results : results'[i] = results[k]

\* A job whose child was reaped keeps the child and its status.
LEMMA EndedStays ==
  ASSUME HandleInv, ChildrenKept, NEW id \in DOMAIN jobs, Ended(id)
  PROVE  /\ id \in DOMAIN jobs'
         /\ jobs'[id].process = jobs[id].process
         /\ Ended(id)'
         /\ Child(id)'.status = Child(id).status
         /\ Child(id).sig # "none" => Child(id)'.sig # "none"
  BY ChildOfJob DEF ChildrenKept, Ended, Child, HasProcess

\* A step that reports nothing.
LEMMA TruthKept ==
  ASSUME HandleInv, StartInv, TruthInv, ChildrenKept,
         NoPair(queue', UntrueFirst),
         Waiting' \subseteq Action,
         \A a \in Waiting' : a.type = "Finished" => a \in Waiting,
         \A a \in Waiting : a.type = "Finished" => a \in Waiting'
  PROVE  TruthInv'
  <1>1. ASSUME NEW a \in Waiting', a.type = "Finished", a.id \in DOMAIN jobs'
        PROVE  a \in Waiting /\ a.id \in DOMAIN jobs /\ Ended(a.id)
    BY <1>1 DEF StartInv, ChildrenKept, TruthInv
  <1>2. \A a \in Waiting' : (a.type = "Finished" /\ a.id \in DOMAIN jobs') =>
          /\ Ended(a.id)'
          /\ a.result.status \in {0, Child(a.id)'.status}
          /\ a.result.timed_out => Child(a.id)'.sig # "none"
    BY <1>1, EndedStays DEF TruthInv
  <1>3. \A id \in DOMAIN jobs' : Ended(id)' =>
          \E a \in Waiting' :
            IsResult(a, id) /\ a.result.status = Child(id)'.status
    <2> SUFFICES ASSUME NEW id \in DOMAIN jobs', Ended(id)'
                 PROVE  \E a \in Waiting' :
                          IsResult(a, id) /\ a.result.status = Child(id)'.status
      OBVIOUS
    <2>1. id \in DOMAIN jobs /\ jobs'[id].process = jobs[id].process
      BY DEF ChildrenKept, Ended, HasProcess, Child
    <2>2. Ended(id)
      BY <2>1, ChildOfJob DEF ChildrenKept, Ended, HasProcess, Child
    <2>3. PICK a \in Waiting :
            IsResult(a, id) /\ a.result.status = Child(id).status
      BY <2>1, <2>2 DEF TruthInv
    <2> QED
      BY <2>1, <2>2, <2>3, EndedStays DEF IsResult
  <1>4. NoPair(queue', UntrueFirst')
    <2>1. ASSUME NEW a \in Waiting', NEW b \in Waiting',
                 <<a, b>> \in UntrueFirst'
          PROVE  <<a, b>> \in UntrueFirst
      <3>1. /\ a.type = "Finished" /\ b.type = "Finished" /\ b.id = a.id
            /\ a.id \in DOMAIN jobs'
            /\ a.result.status # Child(a.id)'.status
            /\ b.result.status = Child(a.id)'.status
        BY <2>1, UntruePairNext
      <3>2. a.id \in DOMAIN jobs /\ Ended(a.id)
        BY <1>1, <3>1
      <3>3. Child(a.id)'.status = Child(a.id).status
        BY <3>2, EndedStays
      <3> QED
        BY <3>1, <3>2, <3>3, UntruePair
    <2> QED
      BY <2>1, FewerPairs DEF Waiting
  <1>5. \A id \in DOMAIN jobs' : jobs'[id].timed_out =>
          HasProcess(id)' /\ Child(id)'.sig # "none"
    <2> SUFFICES ASSUME NEW id \in DOMAIN jobs', jobs'[id].timed_out
                 PROVE  HasProcess(id)' /\ Child(id)'.sig # "none"
      OBVIOUS
    <2>1. id \in DOMAIN jobs
      BY DEF ChildrenKept
    <2>2. HasProcess(id) /\ processes'[jobs[id].process].sig # "none"
      BY <2>1, ChildOfJob DEF ChildrenKept, TruthInv, Child
    <2> QED
      BY <2>1, <2>2 DEF ChildrenKept, HasProcess, Child
  <1>6. \A h \in DOMAIN processes' :
          processes'[h].state # "reaped" => processes'[h].job \in DOMAIN jobs'
    BY DEF ChildrenKept, TruthInv
  <1>7. ResultsAreTrue'
    <2> SUFFICES ASSUME NEW i \in DOMAIN results'
                 PROVE  /\ results'[i].id \notin DOMAIN jobs'
                        /\ \E h \in DOMAIN processes' :
                             /\ processes'[h].job = results'[i].id
                             /\ processes'[h].state = "reaped"
                             /\ processes'[h].status = results'[i].result.status
                             /\ results'[i].result.timed_out =>
                                  processes'[h].sig # "none"
      BY DEF ResultsAreTrue
    <2>1. PICK k \in DOMAIN results : results'[i] = results[k]
      BY DEF ChildrenKept
    <2>2. results[k].id \notin DOMAIN jobs
      BY DEF TruthInv, ResultsAreTrue
    <2>3. PICK h \in DOMAIN processes :
            /\ processes[h].job = results[k].id
            /\ processes[h].state = "reaped"
            /\ processes[h].status = results[k].result.status
            /\ results[k].result.timed_out => processes[h].sig # "none"
      BY DEF TruthInv, ResultsAreTrue
    <2>4. HasChild(results[k].id)
      BY <2>3 DEF HasChild
    <2> QED
      BY <2>1, <2>2, <2>3, <2>4 DEF ChildrenKept
  <1> QED
    BY <1>2, <1>3, <1>4, <1>5, <1>6, <1>7 DEF TruthInv

\* Queues that grow by actions that report nothing.
LEMMA NoReportPairs ==
  ASSUME QueueOK, NEW actions \in Seq(Action),
         Grows(actions) \/ (queue # <<>> /\ Emit(actions)),
         NoPair(queue, UntrueFirst),
         \A b \in Items(actions) : b.type # "Finished"
  PROVE  NoPair(queue', UntrueFirst)
  <1>1. Items(actions) \subseteq Action
    BY ItemsType
  <1>2. NoPair(actions, UntrueFirst)
    BY <1>1, UntruePair DEF NoPair, Items
  <1>3. CASE Grows(actions)
    <2>1. Waiting \subseteq Action
      BY <1>3, GrowsItems
    <2>2. \A a \in Waiting, b \in Items(actions) : <<a, b>> \notin UntrueFirst
      BY <1>1, <2>1, UntruePair
    <2> QED
      BY <1>2, <1>3, <2>2, GrowsPairs
  <1>4. CASE queue # <<>> /\ Emit(actions)
    <2>1. Rest \subseteq Action
      BY <1>4, TurnItems
    <2>2. \A a \in Rest, b \in Items(actions) : <<a, b>> \notin UntrueFirst
      BY <1>1, <2>1, UntruePair
    <2> QED
      BY <1>2, <1>4, <2>2, TurnPairs
  <1> QED
    BY <1>3, <1>4
LEMMA TruthGrows ==
  ASSUME HandleInv, StartInv, TruthInv, ChildrenKept, NEW actions,
         Grows(actions), \A b \in Items(actions) : b.type # "Finished"
  PROVE  TruthInv'
  <1>1. QueueOK /\ actions \in Seq(Action)
    BY TypeParts DEF HandleInv, Grows
  <1>2. NoPair(queue', UntrueFirst)
    BY <1>1, NoReportPairs DEF TruthInv
  <1>3. /\ Waiting' \subseteq Action
        /\ \A a \in Waiting' : a.type = "Finished" => a \in Waiting
        /\ \A a \in Waiting : a.type = "Finished" => a \in Waiting'
    BY <1>1, GrowsItems
  <1> QED
    BY <1>2, <1>3, TruthKept

LEMMA KeptChildren == Kept => ChildrenKept
  BY DEF Kept, ChildrenKept

LEMMA QuietTruth ==
  ASSUME HandleInv, StartInv, TruthInv, QuietStep PROVE TruthInv'
  <1>1. PICK actions : /\ Grows(actions)
                       /\ \A b \in Items(actions) : b.type \in QuietTypes
    BY DEF QuietStep
  <1>2. \A b \in Items(actions) : b.type # "Finished"
    BY <1>1 DEF QuietTypes
  <1> QED
    BY <1>1, <1>2, KeptChildren, TruthGrows DEF QuietStep

LEMMA SignalTruth ==
  ASSUME HandleInv, StartInv, TruthInv, SignalStep PROVE TruthInv'
  <1>1. PICK signal \in Signals :
          \A a \in Waiting' : \/ a \in Rest
                              \/ a = Order(signal)
                              \/ a.type = "Controlled"
    BY SignalItems
  <1>2. /\ HeadId \in JobIds
        /\ Waiting \subseteq Action /\ Waiting' \subseteq Action
        /\ Waiting = {Head(queue)} \cup Rest
        /\ Rest \subseteq Waiting'
    BY SignalItems
  <1>3. Head(queue).type # "Finished"
    BY DEF SignalStep, Popped
  <1>4. \A s \in Signals : Order(s) \in Action /\ Order(s).type = "SignalProcess"
    BY <1>2, Constructors DEF Order, Signal
  <1>5. /\ \A a \in Waiting' : a.type = "Finished" => a \in Waiting
        /\ \A a \in Waiting : a.type = "Finished" => a \in Waiting'
    BY <1>1, <1>2, <1>3, <1>4
  <1>6. NoPair(queue', UntrueFirst)
    <2>1. \A a, b \in Action : b.type = "Controlled" => <<a, b>> \notin UntrueFirst
      BY UntruePair
    <2>2. \A a \in Rest, s \in Signals : <<a, Order(s)>> \notin UntrueFirst
      BY <1>2, <1>4, UntruePair
    <2> QED
      BY <2>1, <2>2, SignalPairs DEF TruthInv
  <1> QED
    BY <1>2, <1>5, <1>6, KeptChildren, TruthKept DEF SignalStep

LEMMA SubmitTruth ==
  ASSUME HandleInv, StartInv, TruthInv, NEW timeout \in Timeouts,
         RequestSubmit(timeout)
  PROVE  TruthInv'
  <1> DEFINE a == Submission(timeout)
             new == <<a>>
  <1>1. Grows(new) /\ Items(new) = {a} /\ a.type = "Submit"
    BY SubmitEffect
  <1>2. ChildrenKept
    BY SubmitEffect DEF ChildrenKept
  <1> HIDE DEF a, new
  <1> QED
    BY <1>1, <1>2, TruthGrows

LEMMA PollRequestTruth ==
  ASSUME HandleInv, StartInv, TruthInv, NEW id \in JobIds, RequestPoll(id)
  PROVE  TruthInv'
  <1> DEFINE a == Simple("PollProcess", id)
             new == <<a>>
  <1>1. Grows(new) /\ Items(new) = {a} /\ a.type = "PollProcess" /\ Kept
    BY PollRequested
  <1> HIDE DEF a, new
  <1> QED
    BY <1>1, KeptChildren, TruthGrows

LEMMA AdmitTruth ==
  ASSUME HandleInv, StartInv, TruthInv, HandleSubmit, ~AtLimit PROVE TruthInv'
  <1> DEFINE new == <<Admission>>
  <1>1. Grows(new) /\ Items(new) = {Admission} /\ Admission.type = "Admitted"
    BY AdmitEffect
  <1>2. ChildrenKept
    BY AdmitEffect DEF ChildrenKept
  <1> HIDE DEF new
  <1> QED
    BY <1>1, <1>2, TruthGrows

LEMMA AdmittedTruth ==
  ASSUME HandleInv, StartInv, TruthInv, HandleAdmitted PROVE TruthInv'
  <1> DEFINE new == <<Start>>
  <1>1. Grows(new) /\ Items(new) = {Start} /\ Start.type = "StartProcess"
    BY AdmittedEffect
  <1>2. OnItsWay(Head(queue)) /\ Head(queue).id = HeadId
        /\ Head(queue).type # "StartProcess"
    BY AdmittedEffect DEF StartInv, StartTypes, HeadId
  <1>3. HeadId \notin DOMAIN jobs /\ ~HasChild(HeadId)
    BY <1>2 DEF OnItsWay
  <1>4. ChildrenKept
    BY <1>3, AdmittedEffect DEF ChildrenKept
  <1> HIDE DEF new
  <1> QED
    BY <1>1, <1>4, TruthGrows

LEMMA SpawnTruth ==
  ASSUME HandleInv, StartInv, TruthInv, HandleStartProcess,
         SpawnSucceeds(HeadId)
  PROVE  TruthInv'
  <1> DEFINE new == StartedActions(HeadId)
  <1>1. /\ HeadId \in JobIds /\ queue # <<>>
        /\ Head(queue).type = "StartProcess"
        /\ HeadId \in DOMAIN jobs /\ jobs[HeadId].process = NoHandle
    BY StartTurn
  <1>2. /\ Grows(new)
        /\ \A b \in Items(new) : b.type \in {"Started", "RegisterInterest"}
    BY <1>1, StartedItems, SpawnEffect DEF Grows
  <1>3. ChildrenKept
    <2>1. ~HasProcess(HeadId)
      BY <1>1 DEF HasProcess
    <2> QED
      BY <1>1, <2>1, SpawnEffect DEF ChildrenKept
  <1> HIDE DEF new
  <1> QED
    BY <1>2, <1>3, TruthGrows

LEMMA RefusalTruth ==
  ASSUME HandleInv, StartInv, TruthInv, HandleStartProcess, SpawnFails(HeadId)
  PROVE  TruthInv'
  <1> DEFINE new == <<Refusal>>
  <1>1. Grows(new) /\ Items(new) = {Refusal} /\ Refusal.type = "Rejected"
    BY RefusalEffect
  <1>2. ChildrenKept
    BY RefusalEffect DEF ChildrenKept
  <1> HIDE DEF new
  <1> QED
    BY <1>1, <1>2, TruthGrows

LEMMA SignalledTruth ==
  ASSUME HandleInv, StartInv, TruthInv, HandleSignalProcess PROVE TruthInv'
  <1>1. Grows(<<>>) /\ Items(<<>>) = {}
    BY SignalEffect, EmptySeq, ItemsOf DEF Grows
  <1>2. ChildrenKept
    <2>1. \A id \in DOMAIN jobs : jobs'[id].timed_out =>
            \/ jobs[id].timed_out
            \/ HasProcess(id) /\ processes'[jobs[id].process].sig # "none"
      BY SignalEffect, ChildOfJob
    <2> QED
      BY <2>1, SignalEffect DEF ChildrenKept
  <1> QED
    BY <1>1, <1>2, TruthGrows

LEMMA ExitTruth ==
  ASSUME HandleInv, StartInv, TruthInv, NEW h, ChildExits(h) PROVE TruthInv'
  <1>1. queue' = queue
    BY ExitEffect
  <1>2. /\ NoPair(queue', UntrueFirst)
        /\ Waiting' = Waiting /\ Waiting \subseteq Action
    BY <1>1, ItemsType DEF TruthInv, Waiting, HandleInv, TypeOK
  <1>3. ChildrenKept
    BY ExitEffect DEF ChildrenKept
  <1> QED
    BY <1>2, <1>3, TruthKept
\* The report of a poll is the child's end, or the 0 of a wait on a child
\* whose end waits already.
LEMMA PolledTruth ==
  ASSUME HandleInv, StartInv, TruthInv, PollEnds PROVE TruthInv'
  <1> DEFINE p == jobs[HeadId].process
             new == <<Exit>>
  <1>1. /\ QueueOK /\ queue # <<>> /\ HeadId \in DOMAIN jobs
        /\ Head(queue).type = "PollProcess"
        /\ Exit \in Action /\ Waiting \subseteq Action
        /\ Waiting = {Head(queue)} \cup Rest
        /\ Waiting' = Rest \cup {Exit}
        /\ p \in DOMAIN processes /\ processes[p].job = HeadId
        /\ DOMAIN processes' = DOMAIN processes
        /\ processes'[p].state = "reaped"
        /\ \A h \in DOMAIN processes :
             /\ processes'[h].job = processes[h].job
             /\ processes'[h].status = processes[h].status
             /\ processes'[h].sig = processes[h].sig
             /\ h # p => processes'[h] = processes[h]
        /\ UNCHANGED <<jobs, results>>
    BY PollEffect DEF Child
  <1>2. /\ Exit.type = "Finished" /\ Exit.id = HeadId
        /\ Exit.result.status = WaitStatus(p)
        /\ Exit.result.timed_out = jobs[HeadId].timed_out
    BY DEF Exit
  <1>3. /\ HasProcess(HeadId) /\ processes[p].state # "running"
        /\ processes[p].state \in {"running", "zombie", "reaped"}
        /\ Emit(new)
    BY <1>1, ChildType DEF PollEnds, Child, Process
  <1>4. \/ processes[p].state = "zombie" /\ WaitStatus(p) = processes[p].status
        \/ processes[p].state = "reaped" /\ WaitStatus(p) = 0
    BY <1>3 DEF WaitStatus
  <1>5. ASSUME NEW id \in DOMAIN jobs, HasProcess(id)
        PROVE  /\ jobs[id].process \in DOMAIN processes
               /\ HasProcess(id)'
               /\ Child(id)'.status = Child(id).status
               /\ Child(id)'.sig = Child(id).sig
               /\ Ended(id) => Ended(id)'
               /\ Ended(id)' => Ended(id) \/ id = HeadId
               /\ id = HeadId => Ended(id)'
    <2>1. /\ jobs[id].process \in DOMAIN processes
          /\ processes[jobs[id].process].job = id
      BY <1>5, ChildOfJob
    <2>2. id # HeadId => jobs[id].process # p
      BY <1>1, <2>1
    <2> HIDE DEF p
    <2> QED
      BY <1>1, <1>5, <2>1, <2>2 DEF HasProcess, Child, Ended, p
  <1> HIDE DEF p
  <1>6. ASSUME NEW a \in Waiting', a.type = "Finished", a.id \in DOMAIN jobs'
        PROVE  /\ Ended(a.id)'
               /\ a.result.status \in {0, Child(a.id)'.status}
               /\ a.result.timed_out => Child(a.id)'.sig # "none"
    <2>1. CASE a \in Rest
      <3>1. /\ a.id \in DOMAIN jobs /\ Ended(a.id)
            /\ a.result.status \in {0, Child(a.id).status}
            /\ a.result.timed_out => Child(a.id).sig # "none"
        BY <1>1, <1>6, <2>1 DEF TruthInv
      <3> QED
        BY <1>5, <3>1 DEF Ended
    <2>2. CASE a = Exit
      <3>1. a.id = HeadId /\ a.result.status \in {0, Child(HeadId).status}
        BY <1>2, <1>4, <2>2 DEF Child, p
      <3>2. a.result.timed_out => Child(HeadId).sig # "none"
        BY <1>1, <1>2, <2>2 DEF TruthInv
      <3> QED
        BY <1>1, <1>3, <1>5, <3>1, <3>2
    <2> QED
      BY <1>1, <2>1, <2>2
  <1>7. ASSUME NEW id \in DOMAIN jobs', Ended(id)'
        PROVE  \E a \in Waiting' :
                 IsResult(a, id) /\ a.result.status = Child(id)'.status
    <2>1. id \in DOMAIN jobs /\ HasProcess(id)
      BY <1>1, <1>7 DEF Ended, HasProcess
    <2>2. CASE Ended(id)
      <3>1. PICK a \in Waiting :
              IsResult(a, id) /\ a.result.status = Child(id).status
        BY <2>1, <2>2 DEF TruthInv
      <3>2. a \in Rest
        BY <1>1, <3>1 DEF IsResult
      <3> QED
        BY <1>1, <1>5, <2>1, <3>1, <3>2
    <2>3. CASE id = HeadId /\ ~Ended(HeadId)
      <3>1. Exit.result.status = Child(HeadId).status
        BY <1>2, <1>3, <1>4, <2>3 DEF Ended, Child, p
      <3> QED
        BY <1>1, <1>2, <1>5, <2>1, <2>3, <3>1 DEF IsResult
    <2> QED
      BY <1>5, <1>7, <2>1, <2>2, <2>3
  <1>8. NoPair(queue', UntrueFirst)
    <2>1. \A a \in Rest : <<a, Exit>> \notin UntrueFirst
      <3> SUFFICES ASSUME NEW a \in Rest, <<a, Exit>> \in UntrueFirst
                   PROVE  FALSE
        OBVIOUS
      <3>1. /\ a.type = "Finished" /\ a.id = HeadId
            /\ a.result.status # Child(HeadId).status
            /\ Exit.result.status = Child(HeadId).status
        BY <1>1, <1>2, UntruePair
      <3>2. /\ Ended(HeadId)
            /\ a.result.status \in {0, Child(HeadId).status}
        BY <1>1, <3>1 DEF TruthInv
      <3>3. WaitStatus(p) = 0
        BY <1>4, <3>2 DEF Ended, Child, p
      <3> QED
        BY <1>2, <3>1, <3>2, <3>3
    <2>2. new \in Seq(Action) /\ Items(new) = {Exit} /\ NoPair(new, UntrueFirst)
      <3>1. new \in Seq(Action) /\ Items(new) = {Exit}
        BY <1>1, ItemsOf
      <3>2. NoPair(new, UntrueFirst)
        BY ShortPairs
      <3> QED
        BY <3>1, <3>2
    <2> HIDE DEF new
    <2> QED
      BY <1>1, <1>3, <2>1, <2>2, TurnPairs DEF TruthInv
  <1>9. NoPair(queue', UntrueFirst')
    <2>1. ASSUME NEW a \in Waiting', NEW b \in Waiting',
                 <<a, b>> \in UntrueFirst'
          PROVE  <<a, b>> \in UntrueFirst
      <3>1. a \in Action /\ b \in Action
        BY <1>1
      <3>2. /\ a.type = "Finished" /\ b.type = "Finished" /\ b.id = a.id
            /\ a.id \in DOMAIN jobs'
            /\ a.result.status # Child(a.id)'.status
            /\ b.result.status = Child(a.id)'.status
        BY <2>1, <3>1, UntruePairNext
      <3>3. a.id \in DOMAIN jobs /\ HasProcess(a.id)
        BY <1>1, <1>6, <3>2 DEF Ended, HasProcess
      <3>4. Child(a.id)'.status = Child(a.id).status
        BY <1>5, <3>3
      <3> QED
        BY <3>1, <3>2, <3>3, <3>4, UntruePair
    <2> QED
      BY <1>8, <2>1, FewerPairs DEF Waiting
  <1>10. \A id \in DOMAIN jobs' : jobs'[id].timed_out =>
           HasProcess(id)' /\ Child(id)'.sig # "none"
    BY <1>1, <1>5 DEF TruthInv
  <1>11. \A h \in DOMAIN processes' :
           processes'[h].state # "reaped" => processes'[h].job \in DOMAIN jobs'
    BY <1>1 DEF TruthInv
  <1>12. ResultsAreTrue'
    <2>1. ResultsAreTrue
      BY DEF TruthInv
    <2>2. \A h \in DOMAIN processes : processes[h].state = "reaped" =>
            processes'[h].state = "reaped"
      BY <1>1
    <2> QED
      BY <1>1, <2>1, <2>2 DEF ResultsAreTrue
  <1> QED
    BY <1>6, <1>7, <1>9, <1>10, <1>11, <1>12 DEF TruthInv

\* The result at the head is the first of its job.
LEMMA HeadIsTrue ==
  ASSUME HandleInv, StartInv, TruthInv, HandleFinished, HeadId \in DOMAIN jobs
  PROVE  /\ Ended(HeadId)
         /\ Head(queue).result.status = Child(HeadId).status
         /\ Head(queue).result.timed_out => Child(HeadId).sig # "none"
  <1>1. /\ QueueOK /\ queue # <<>>
        /\ Head(queue) \in Action /\ Head(queue).type = "Finished"
        /\ Head(queue).id = HeadId
        /\ Waiting \subseteq Action /\ Waiting = {Head(queue)} \cup Rest
    BY FinishedEffect DEF HeadId
  <1>2. /\ Ended(HeadId)
        /\ Head(queue).result.timed_out => Child(HeadId).sig # "none"
    BY <1>1 DEF TruthInv
  <1>3. PICK b \in Waiting :
          IsResult(b, HeadId) /\ b.result.status = Child(HeadId).status
    BY <1>2 DEF TruthInv
  <1>4. CASE b \in Rest
    <2>1. <<Head(queue), b>> \notin UntrueFirst
      BY <1>1, <1>4, HeadClash DEF TruthInv
    <2>2. Head(queue).result.status = Child(HeadId).status
      BY <1>1, <1>3, <1>4, <2>1, UntruePair DEF IsResult
    <2> QED
      BY <1>2, <2>2
  <1> QED
    BY <1>1, <1>2, <1>3, <1>4

LEMMA FinishedTruth ==
  ASSUME HandleInv, StartInv, TruthInv, HandleFinished PROVE TruthInv'
  <1>1. /\ QueueOK /\ queue # <<>> /\ HeadId \in JobIds
        /\ Head(queue).type = "Finished" /\ Head(queue).id = HeadId
        /\ Waiting \subseteq Action
        /\ Waiting = {Head(queue)} \cup Rest
        /\ Emit(<<>>) /\ Waiting' = Rest
        /\ DOMAIN jobs' = DOMAIN jobs \ {HeadId}
        /\ \A id \in DOMAIN jobs' : jobs'[id] = jobs[id]
        /\ processes' = processes
    BY FinishedEffect DEF HeadId
  <1>2. \A id \in DOMAIN jobs' : /\ id \in DOMAIN jobs /\ id # HeadId
                                 /\ HasProcess(id)' <=> HasProcess(id)
                                 /\ Child(id)' = Child(id)
                                 /\ Ended(id)' <=> Ended(id)
    BY <1>1 DEF HasProcess, Child, Ended
  <1>3. \A a \in Waiting' : (a.type = "Finished" /\ a.id \in DOMAIN jobs') =>
          /\ Ended(a.id)'
          /\ a.result.status \in {0, Child(a.id)'.status}
          /\ a.result.timed_out => Child(a.id)'.sig # "none"
    BY <1>1, <1>2 DEF TruthInv
  <1>4. \A id \in DOMAIN jobs' : Ended(id)' =>
          \E a \in Waiting' :
            IsResult(a, id) /\ a.result.status = Child(id)'.status
    BY <1>1, <1>2 DEF TruthInv, IsResult
  <1>5. NoPair(queue', UntrueFirst')
    <2>1. NoPair(queue', UntrueFirst)
      BY <1>1, NoReportPairs, EmptySeq, ItemsOf DEF TruthInv
    <2>2. ASSUME NEW a \in Waiting', NEW b \in Waiting',
                 <<a, b>> \in UntrueFirst'
          PROVE  <<a, b>> \in UntrueFirst
      <3>1. a \in Action /\ b \in Action
        BY <1>1
      <3> QED
        BY <1>2, <2>2, <3>1, UntruePair, UntruePairNext
    <2> QED
      BY <2>1, <2>2, FewerPairs DEF Waiting
  <1>6. \A id \in DOMAIN jobs' : jobs'[id].timed_out =>
          HasProcess(id)' /\ Child(id)'.sig # "none"
    BY <1>1, <1>2 DEF TruthInv
  <1>7. \A h \in DOMAIN processes' :
          processes'[h].state # "reaped" => processes'[h].job \in DOMAIN jobs'
    <2> SUFFICES ASSUME NEW h \in DOMAIN processes,
                        processes[h].state # "reaped"
                 PROVE  processes[h].job \in DOMAIN jobs'
      BY <1>1
    <2>1. processes[h].job \in DOMAIN jobs
      BY DEF TruthInv
    <2>2. CASE processes[h].job = HeadId
      <3>1. jobs[HeadId].process = h /\ HeadId \in DOMAIN jobs
        BY <2>1, <2>2 DEF StartInv
      <3> QED
        BY <3>1, HeadIsTrue DEF Ended, Child
    <2> QED
      BY <1>1, <2>1, <2>2
  <1>8. ResultsAreTrue'
    <2> DEFINE S == Range(results)
               R == [id |-> HeadId, result |-> Head(queue).result]
               IsTrue(r) ==
                 /\ r.id \notin DOMAIN jobs'
                 /\ \E h \in DOMAIN processes :
                      /\ processes[h].job = r.id
                      /\ processes[h].state = "reaped"
                      /\ processes[h].status = r.result.status
                      /\ r.result.timed_out => processes[h].sig # "none"
    <2>1. \A r \in S : IsTrue(r)
      BY <1>1 DEF TruthInv, ResultsAreTrue, Range
    <2>2. HeadId \in DOMAIN jobs => IsTrue(R)
      <3> SUFFICES ASSUME HeadId \in DOMAIN jobs PROVE IsTrue(R)
        OBVIOUS
      <3>1. /\ Child(HeadId).state = "reaped" /\ HasProcess(HeadId)
            /\ Head(queue).result.status = Child(HeadId).status
            /\ Head(queue).result.timed_out => Child(HeadId).sig # "none"
        BY HeadIsTrue DEF Ended
      <3>2. /\ jobs[HeadId].process \in DOMAIN processes
            /\ Child(HeadId).job = HeadId
        BY <3>1, ChildOfJob DEF Child
      <3> QED
        BY <1>1, <3>1, <3>2 DEF Child
    <2> HIDE DEF S, R, IsTrue
    <2>3. results \in Seq(S)
      BY DEF HandleInv, TypeOK, Range, S
    <2>4. \/ results' \in Seq(S)
          \/ HeadId \in DOMAIN jobs /\ results' \in Seq(S \cup {R})
      BY <2>3, StoreResultType DEF HandleFinished, R
    <2>5. \A i \in DOMAIN results' : IsTrue(results'[i])
      BY <2>1, <2>2, <2>4
    <2> QED
      BY <1>1, <2>5 DEF ResultsAreTrue, IsTrue
  <1> QED
    BY <1>3, <1>4, <1>5, <1>6, <1>7, <1>8 DEF TruthInv

LEMMA NextTruthInv ==
  ASSUME HandleInv, StartInv, TruthInv, [CoreNext]_coreVars PROVE TruthInv'
  BY StepCases, QuietTruth, SignalTruth, SubmitTruth, PollRequestTruth,
     AdmitTruth, AdmittedTruth, SpawnTruth, RefusalTruth, SignalledTruth,
     PolledTruth, FinishedTruth, ExitTruth

LEMMA InitTruthInv == CoreInit => TruthInv
  <1> SUFFICES ASSUME CoreInit PROVE TruthInv
    OBVIOUS
  <1>1. DOMAIN jobs = {} /\ DOMAIN processes = {} /\ results = <<>>
    BY DEF CoreInit, EmptyMap
  <1>2. Waiting = {} /\ NoPair(queue, UntrueFirst)
    <2>1. queue = <<>>
      BY DEF CoreInit
    <2> QED
      BY <2>1, ItemsOf, ShortPairs DEF Waiting
  <1> QED
    BY <1>1, <1>2 DEF TruthInv, ResultsAreTrue

\* A stored result is that of a job that is gone, and its status the one the
\* job's child ended with, whether or not the host polls a child twice: the 0
\* of a second wait is always behind the true status in the queue and finds
\* no job (spawn/mod.rs:298, result.rs:10-36).
THEOREM ResultsCorrect == CoreSpec => []ResultsAreTrue
  <1>1. CoreInit => HandleInv /\ StartInv /\ TruthInv
    BY InitHandleInv, InitStartInv, InitTruthInv
  <1>2. /\ HandleInv /\ StartInv /\ TruthInv
        /\ [CoreNext]_coreVars
        => (HandleInv /\ StartInv /\ TruthInv)'
    BY NextHandleInv, NextStartInv, NextTruthInv
  <1>3. HandleInv /\ StartInv /\ TruthInv => ResultsAreTrue
    BY DEF TruthInv
  <1> QED
    BY <1>1, <1>2, <1>3, PTL DEF CoreSpec

-----------------------------------------------------------------------------
(***************************************************************************)
(* SlotInv: a job gives its admission slot back once.                      *)
(***************************************************************************)

\* The job is admitted and has not finished.
Held(id) ==
  \/ id \in DOMAIN jobs
  \/ \E a \in Waiting : a.type = "Admitted" /\ a.id = id

LEMMA SlotClashPair ==
  ASSUME NEW a \in Action, NEW b \in Action
  PROVE  <<a, b>> \in SlotClash <=>
           \/ a.type # "PollProcess" /\ b.type = "PollProcess"
           \/ a.type = "PollProcess" /\ b.type = "SignalProcess"
           \/ /\ a.id = b.id
              /\ \/ a.type = "PollProcess" /\ b.type = "PollProcess"
                 \/ a.type \in {"PollProcess", "SignalProcess", "Finished"}
                    /\ b.type = "Finished"
  BY DEF SlotClash

LEMMA QueuedItems ==
  ASSUME NEW q \in Seq(Action), NEW type, NEW id
  PROVE  (\E i \in DOMAIN q : q[i].type = type /\ q[i].id = id)
           <=> (\E a \in Items(q) : a.type = type /\ a.id = id)
  <1>1. DOMAIN q = 1..Len(q)
    OBVIOUS
  <1> QED
    BY <1>1 DEF Items

\* An action of the type is in the queue for the job.
WaitsAs(type, id) == \E a \in Waiting : a.type = type /\ a.id = id

LEMMA QueuedWaits ==
  /\ HandleInv => \A type, id : Queued(type, id) <=> WaitsAs(type, id)
  /\ HandleInv' => \A type, id : Queued(type, id)' <=> WaitsAs(type, id)'
  <1>1. ASSUME HandleInv
        PROVE  \A type, id : Queued(type, id) <=> WaitsAs(type, id)
    <2>1. queue \in Seq(Action)
      BY <1>1 DEF HandleInv, TypeOK
    <2> QED
      BY <2>1, QueuedItems, ZenonT(60) DEF Queued, WaitsAs, Waiting
  <1>2. ASSUME HandleInv'
        PROVE  \A type, id : Queued(type, id)' <=> WaitsAs(type, id)'
    <2>1. queue' \in Seq(Action)
      BY <1>2 DEF HandleInv, TypeOK
    <2> QED
      BY <2>1, QueuedItems, ZenonT(60) DEF Queued, WaitsAs, Waiting
  <1> QED
    BY <1>1, <1>2

\* The jobs the count stands for.
LEMMA SlotsAreHeld ==
  /\ HandleInv =>
       /\ IsFiniteSet({id \in JobIds : Held(id)})
       /\ SlotAccounting <=> active_jobs = Cardinality({id \in JobIds : Held(id)})
  /\ HandleInv' =>
       /\ IsFiniteSet({id \in JobIds : Held(id)'})
       /\ SlotAccounting' <=>
            active_jobs' = Cardinality({id \in JobIds : Held(id)'})
  <1>1. IsFiniteSet(JobIds)
    BY MaxSubmitsAssumption, FS_Interval DEF JobIds
  <1>2. /\ IsFiniteSet({id \in JobIds : Held(id)})
        /\ IsFiniteSet({id \in JobIds : Held(id)'})
    BY <1>1, FS_Subset
  <1>3. ASSUME HandleInv
        PROVE  DOMAIN jobs \cup {id \in JobIds : Queued("Admitted", id)}
                 = {id \in JobIds : Held(id)}
    <2>1. DOMAIN jobs \subseteq JobIds /\ queue \in Seq(Action)
      BY <1>3 DEF HandleInv, TypeOK
    <2>2. \A id : Queued("Admitted", id) <=>
            \E a \in Waiting : a.type = "Admitted" /\ a.id = id
      BY <2>1, QueuedItems, ZenonT(60) DEF Queued, Waiting
    <2> QED
      BY <2>1, <2>2 DEF Held
  <1>4. ASSUME HandleInv'
        PROVE  DOMAIN jobs' \cup {id \in JobIds : Queued("Admitted", id)'}
                 = {id \in JobIds : Held(id)'}
    <2>1. DOMAIN jobs' \subseteq JobIds /\ queue' \in Seq(Action)
      BY <1>4 DEF HandleInv, TypeOK
    <2>2. \A id : Queued("Admitted", id)' <=>
            \E a \in Waiting' : a.type = "Admitted" /\ a.id = id
      BY <2>1, QueuedItems, ZenonT(60) DEF Queued, Waiting
    <2> QED
      BY <2>1, <2>2 DEF Held
  <1> QED
    BY <1>2, <1>3, <1>4 DEF SlotAccounting

LEMMA HeldSame ==
  ASSUME HandleInv, HandleInv', SlotAccounting,
         \A id \in JobIds : Held(id)' <=> Held(id),
         active_jobs' = active_jobs
  PROVE  SlotAccounting'
  <1>1. {id \in JobIds : Held(id)'} = {id \in JobIds : Held(id)}
    OBVIOUS
  <1> QED
    BY <1>1, SlotsAreHeld

LEMMA HeldMore ==
  ASSUME HandleInv, HandleInv', SlotAccounting,
         NEW new \in JobIds, ~Held(new),
         \A id \in JobIds : Held(id)' <=> Held(id) \/ id = new,
         active_jobs' = active_jobs + 1
  PROVE  SlotAccounting'
  <1> DEFINE S == {id \in JobIds : Held(id)}
  <1>1. {id \in JobIds : Held(id)'} = S \cup {new}
    OBVIOUS
  <1>2. IsFiniteSet(S) /\ active_jobs = Cardinality(S) /\ new \notin S
    BY SlotsAreHeld
  <1> HIDE DEF S
  <1>3. Cardinality(S \cup {new}) = Cardinality(S) + 1
    BY <1>2, FS_AddElement
  <1> QED
    BY <1>1, <1>2, <1>3, SlotsAreHeld

LEMMA HeldLess ==
  ASSUME HandleInv, HandleInv', SlotAccounting,
         NEW old \in JobIds, Held(old),
         \A id \in JobIds : Held(id)' <=> Held(id) /\ id # old,
         active_jobs' = ReleaseSlot
  PROVE  SlotAccounting'
  <1> DEFINE S == {id \in JobIds : Held(id)}
  <1>1. {id \in JobIds : Held(id)'} = S \ {old}
    OBVIOUS
  <1>2. IsFiniteSet(S) /\ active_jobs = Cardinality(S) /\ old \in S
    BY SlotsAreHeld
  <1> HIDE DEF S
  <1>3. Cardinality(S \ {old}) = Cardinality(S) - 1
    BY <1>2, FS_RemoveElement
  <1>4. Cardinality(S) \in Nat /\ Cardinality(S) # 0
    BY <1>2, FS_CardinalityType, FS_EmptySet
  <1>5. active_jobs' = active_jobs - 1
    BY <1>2, <1>4 DEF ReleaseSlot
  <1> QED
    BY <1>1, <1>2, <1>3, <1>5, SlotsAreHeld

\* Actions that make no clash behind any other.
CalmTypes ==
  QuietTypes \cup {"Submit", "Admitted", "StartProcess"}

LEMMA CalmClash ==
  \A a, b \in Action : b.type \in CalmTypes => <<a, b>> \notin SlotClash
  BY SlotClashPair DEF CalmTypes, QuietTypes

\* A step that keeps the jobs and the count and reports nothing.
LEMMA SlotsKept ==
  ASSUME HandleInv, HandleInv', SlotInv,
         NoPair(queue', SlotClash),
         DOMAIN jobs' = DOMAIN jobs, active_jobs' = active_jobs,
         Stay("Admitted"),
         \A a \in Waiting' :
           a.type \in {"Admitted", "Finished"} =>
             a \in Waiting \/ (a.type = "Finished" /\ a.id \in DOMAIN jobs)
  PROVE  SlotInv'
  <1>1. \A a \in Waiting' : a.type = "Finished" => a.id \in DOMAIN jobs'
    BY DEF SlotInv
  <1>2. \A id \in JobIds : Held(id)' <=> Held(id)
    BY DEF Held, Stay
  <1>3. SlotAccounting'
    BY <1>2, HeldSame DEF SlotInv
  <1>4. SlotClash' = SlotClash
    BY DEF SlotClash
  <1> QED
    BY <1>1, <1>3, <1>4 DEF SlotInv

\* A turn that takes no admission and puts calm actions into the queue.
LEMMA CalmTurn ==
  ASSUME HandleInv, HandleInv', SlotInv, queue # <<>>,
         Head(queue).type # "Admitted",
         NEW actions \in Seq(Action), Emit(actions),
         \A b \in Items(actions) : b.type \in CalmTypes \ {"Admitted"},
         DOMAIN jobs' = DOMAIN jobs, active_jobs' = active_jobs
  PROVE  SlotInv'
  <1>1. QueueOK
    BY TypeParts DEF HandleInv
  <1>2. /\ Waiting \subseteq Action /\ Items(actions) \subseteq Action
        /\ Waiting = {Head(queue)} \cup Rest
        /\ Waiting' = Rest \cup Items(actions)
    BY <1>1, TurnItems
  <1>3. NoPair(queue', SlotClash)
    <2>1. NoPair(actions, SlotClash)
      BY <1>2, CalmClash DEF NoPair, Items
    <2>2. \A a \in Rest, b \in Items(actions) : <<a, b>> \notin SlotClash
      BY <1>2, CalmClash
    <2> QED
      BY <1>1, <2>1, <2>2, TurnPairs DEF SlotInv
  <1>4. Stay("Admitted")
    BY <1>1, Staying
  <1>5. \A a \in Waiting' :
          a.type \in {"Admitted", "Finished"} => a \in Waiting
    BY <1>2 DEF CalmTypes, QuietTypes
  <1> QED
    BY <1>3, <1>4, <1>5, SlotsKept

LEMMA QuietSlots ==
  ASSUME HandleInv, HandleInv', SlotInv, QuietStep PROVE SlotInv'
  <1>1. NoPair(queue', SlotClash)
    <2>1. \A a, b \in Action : b.type \in QuietTypes => <<a, b>> \notin SlotClash
      BY CalmClash DEF CalmTypes
    <2> QED
      BY <2>1, QuietPairs DEF SlotInv
  <1>2. \A a \in Waiting' :
          a.type \in {"Admitted", "Finished"} => a \in Waiting
    BY QuietItems DEF QuietTypes
  <1>3. Stay("Admitted") /\ DOMAIN jobs' = DOMAIN jobs /\ active_jobs' = active_jobs
    BY DEF QuietStep, Kept
  <1> QED
    BY <1>1, <1>2, <1>3, SlotsKept

\* No poll waits behind a turn that asks for a signal.
LEMMA SignalSlots ==
  ASSUME HandleInv, HandleInv', SlotInv, SignalStep PROVE SlotInv'
  <1>1. /\ QueueOK /\ queue # <<>> /\ HeadId \in JobIds
        /\ Waiting \subseteq Action /\ Waiting = {Head(queue)} \cup Rest
        /\ Rest \subseteq Waiting'
    BY SignalItems
  <1>2. Head(queue).type \in {"Control", "TimeoutReached", "KillDeadlineReached"}
    BY DEF SignalStep, Popped
  <1>3. \A s \in Signals : /\ Order(s) \in Action
                           /\ Order(s).type = "SignalProcess"
    BY <1>1, Constructors DEF Order, Signal
  <1>4. NoPair(queue', SlotClash)
    <2>1. \A b \in Rest : b.type # "PollProcess"
      <3>1. \A b \in Rest : <<Head(queue), b>> \notin SlotClash
        BY <1>1, HeadClash DEF SlotInv
      <3> QED
        BY <1>1, <1>2, <3>1, SlotClashPair
    <2>2. \A a \in Rest, s \in Signals :
            Asked(s) => <<a, Order(s)>> \notin SlotClash
      BY <1>1, <1>3, <2>1, SlotClashPair
    <2>3. \A a, b \in Action : b.type = "Controlled" => <<a, b>> \notin SlotClash
      BY CalmClash DEF CalmTypes, QuietTypes
    <2> QED
      BY <2>2, <2>3, SignalPairs DEF SlotInv
  <1>5. Stay("Admitted")
    BY <1>1, <1>2 DEF Stay
  <1>6. \A a \in Waiting' :
          a.type \in {"Admitted", "Finished"} => a \in Waiting
    <2>1. PICK signal \in Signals :
            \A a \in Waiting' : \/ a \in Rest
                                \/ a = Order(signal)
                                \/ a.type = "Controlled"
      BY SignalItems
    <2> QED
      BY <1>1, <1>3, <2>1
  <1>7. DOMAIN jobs' = DOMAIN jobs /\ active_jobs' = active_jobs
    BY DEF SignalStep, Kept
  <1> QED
    BY <1>4, <1>5, <1>6, <1>7, SlotsKept

\* A request joins the queue of an iteration.
LEMMA RequestSlots ==
  ASSUME HandleInv, HandleInv', SlotInv,
         NEW a \in Action, queue' = Append(queue, a),
         a.type \notin {"Admitted", "Finished"},
         \A b \in Waiting : <<b, a>> \notin SlotClash,
         DOMAIN jobs' = DOMAIN jobs, active_jobs' = active_jobs
  PROVE  SlotInv'
  <1> DEFINE new == <<a>>
  <1>1. /\ QueueOK /\ new \in Seq(Action) /\ Items(new) = {a}
        /\ queue' = queue \o new /\ NoPair(new, SlotClash)
    <2>1. QueueOK /\ new \in Seq(Action)
      BY TypeParts DEF HandleInv
    <2>2. queue' = queue \o new
      BY AppendIsConcat DEF QueueOK, HandleInv, TypeOK
    <2>3. Items(new) = {a}
      BY ItemsOf
    <2> QED
      BY <2>1, <2>2, <2>3, ShortPairs
  <1> HIDE DEF new
  <1>2. Grows(new)
    BY <1>1 DEF Grows
  <1>3. NoPair(queue', SlotClash)
    BY <1>1, <1>2, GrowsPairs DEF SlotInv
  <1>4. Stay("Admitted")
    BY <1>1, Staying
  <1>5. \A b \in Waiting' :
          b.type \in {"Admitted", "Finished"} => b \in Waiting
    BY <1>1, <1>2, GrowsItems
  <1> QED
    BY <1>3, <1>4, <1>5, SlotsKept

LEMMA SubmitSlots ==
  ASSUME HandleInv, HandleInv', SlotInv, NEW timeout \in Timeouts,
         RequestSubmit(timeout)
  PROVE  SlotInv'
  <1> DEFINE a == Submission(timeout)
  <1>1. /\ a \in Action /\ a.type = "Submit"
        /\ UNCHANGED <<jobs, active_jobs>>
    BY SubmitEffect
  <1>2. queue' = Append(queue, a)
    BY DEF RequestSubmit, AddRequest, Submission
  <1> HIDE DEF a
  <1>3. \A b \in Waiting : <<b, a>> \notin SlotClash
    <2>1. Waiting \subseteq Action
      BY ItemsType DEF Waiting, HandleInv, TypeOK
    <2> QED
      BY <1>1, <2>1, CalmClash DEF CalmTypes
  <1> QED
    BY <1>1, <1>2, <1>3, RequestSlots

\* A host that polls first polls a job once, before everything else.
LEMMA PollRequestSlots ==
  ASSUME HandleInv, HandleInv', SlotInv, Polls # "any", NEW id \in JobIds,
         RequestPoll(id)
  PROVE  SlotInv'
  <1> DEFINE a == Simple("PollProcess", id)
  <1>1. /\ Kept /\ a \in Action /\ a.type = "PollProcess" /\ a.id = id
    BY PollRequested
  <1>2. queue' = Append(queue, a)
    BY DEF RequestPoll, RequestOther, AddRequest
  <1> HIDE DEF a
  <1>3. \A b \in Waiting : <<b, a>> \notin SlotClash
    <2>1. Waiting \subseteq Action /\ DOMAIN queue = 1..Len(queue)
      BY ItemsType DEF Waiting, HandleInv, TypeOK
    <2>2. \A b \in Waiting : b.type = "PollProcess" /\ b.id # id
      BY <2>1 DEF RequestPoll, Waiting, Items
    <2> QED
      BY <1>1, <2>1, <2>2, SlotClashPair
  <1> QED
    BY <1>1, <1>2, <1>3, RequestSlots DEF Kept

\* The slot of a job that is admitted was not taken before.
LEMMA AdmitSlots ==
  ASSUME HandleInv, HandleInv', StartInv, SlotInv, HandleSubmit, ~AtLimit
  PROVE  SlotInv'
  <1> DEFINE a == Admission
             new == <<a>>
  <1>1. /\ QueueOK /\ queue # <<>> /\ HeadId \in JobIds
        /\ Head(queue) \in Action /\ Head(queue).type = "Submit"
        /\ Head(queue).id = HeadId
        /\ a \in Action /\ a.type = "Admitted" /\ a.id = HeadId
        /\ Waiting = {Head(queue)} \cup Rest
        /\ Waiting' = Rest \cup {a}
        /\ active_jobs' = active_jobs + 1 /\ jobs' = jobs
    BY AdmitEffect DEF HeadId
  <1>2. /\ Grows(new) /\ Items(new) = {a} /\ NoPair(new, SlotClash)
        /\ Waiting \subseteq Action
    BY <1>1, AdmitEffect, ShortPairs, GrowsItems
  <1> HIDE DEF a, new
  <1>3. NoPair(queue', SlotClash)
    <2>1. \A b \in Waiting : <<b, a>> \notin SlotClash
      BY <1>1, <1>2, CalmClash DEF CalmTypes
    <2> QED
      BY <1>1, <1>2, <2>1, GrowsPairs DEF SlotInv
  <1>4. ~Held(HeadId)
    <2>1. \A b \in Rest : <<Head(queue), b>> \notin TwoStarts
      BY <1>1, HeadClash DEF StartInv
    <2>2. OnItsWay(Head(queue))
      BY <1>1 DEF StartInv, StartTypes
    <2> QED
      BY <1>1, <1>2, <2>1, <2>2, TwoStartsPair
      DEF Held, OnItsWay, StartTypes
  <1>5. \A id \in JobIds : Held(id)' <=> Held(id) \/ id = HeadId
    BY <1>1 DEF Held
  <1>6. SlotAccounting'
    <2>1. PICK old : old = HeadId
      OBVIOUS
    <2>2. /\ old \in JobIds /\ ~Held(old)
          /\ \A i \in JobIds : Held(i)' <=> Held(i) \/ i = old
      BY <1>1, <1>4, <1>5, <2>1
    <2> QED
      BY <1>1, <2>2, HeldMore DEF SlotInv
  <1>7. \A b \in Waiting' : b.type = "Finished" => b.id \in DOMAIN jobs'
    BY <1>1 DEF SlotInv
  <1>8. SlotClash' = SlotClash
    BY DEF SlotClash
  <1> QED
    BY <1>3, <1>6, <1>7, <1>8 DEF SlotInv

\* The job that is made takes the place of its admission.
LEMMA AdmittedSlots ==
  ASSUME HandleInv, HandleInv', StartInv, SlotInv, HandleAdmitted
  PROVE  SlotInv'
  <1> DEFINE a == Start
             new == <<a>>
  <1>1. /\ QueueOK /\ queue # <<>> /\ HeadId \in JobIds
        /\ Head(queue) \in Action /\ Head(queue).type = "Admitted"
        /\ Head(queue).id = HeadId
        /\ a \in Action /\ a.type = "StartProcess"
        /\ Waiting = {Head(queue)} \cup Rest
        /\ Waiting' = Rest \cup {a}
        /\ DOMAIN jobs' = DOMAIN jobs \cup {HeadId}
        /\ active_jobs' = active_jobs
    BY AdmittedEffect DEF HeadId
  <1>2. /\ Grows(new) /\ Items(new) = {a} /\ NoPair(new, SlotClash)
        /\ Waiting \subseteq Action
    BY <1>1, AdmittedEffect, ShortPairs, GrowsItems
  <1> HIDE DEF a, new
  <1>3. NoPair(queue', SlotClash)
    <2>1. \A b \in Waiting : <<b, a>> \notin SlotClash
      BY <1>1, <1>2, CalmClash DEF CalmTypes
    <2> QED
      BY <1>1, <1>2, <2>1, GrowsPairs DEF SlotInv
  <1>4. \A id \in JobIds : Held(id)' <=> Held(id)
    BY <1>1 DEF Held
  <1>5. SlotAccounting'
    BY <1>1, <1>4, HeldSame DEF SlotInv
  <1>6. \A b \in Waiting' : b.type = "Finished" => b.id \in DOMAIN jobs'
    BY <1>1 DEF SlotInv
  <1>7. SlotClash' = SlotClash
    BY DEF SlotClash
  <1> QED
    BY <1>3, <1>5, <1>6, <1>7 DEF SlotInv

LEMMA StartSlots ==
  ASSUME HandleInv, HandleInv', StartInv, SlotInv, HandleStartProcess
  PROVE  SlotInv'
  <1>1. /\ QueueOK /\ queue # <<>> /\ HeadId \in JobIds
        /\ Head(queue).type # "Admitted"
    BY StartTurn
  <1>2. CASE SpawnSucceeds(HeadId)
    <2>1. /\ Emit(StartedActions(HeadId))
          /\ DOMAIN jobs' = DOMAIN jobs /\ active_jobs' = active_jobs
      BY <1>2, SpawnEffect
    <2>2. PICK actions : actions = StartedActions(HeadId)
      OBVIOUS
    <2>3. /\ actions \in Seq(Action) /\ Emit(actions)
          /\ \A b \in Items(actions) : b.type \in {"Started", "RegisterInterest"}
      BY <1>1, <2>1, <2>2, StartedItems
    <2>4. \A b \in Items(actions) : b.type \in CalmTypes \ {"Admitted"}
      BY <2>3 DEF CalmTypes, QuietTypes
    <2> QED
      BY <1>1, <2>1, <2>3, <2>4, CalmTurn
  <1>3. CASE SpawnFails(HeadId)
    <2>1. /\ Emit(<<Refusal>>) /\ Refusal \in Action /\ Refusal.type = "Rejected"
          /\ Items(<<Refusal>>) = {Refusal}
          /\ DOMAIN jobs' = DOMAIN jobs /\ active_jobs' = active_jobs
      BY <1>3, RefusalEffect
    <2>2. PICK actions : actions = <<Refusal>>
      OBVIOUS
    <2>3. PICK refusal : refusal = Refusal
      OBVIOUS
    <2>4. /\ actions \in Seq(Action) /\ Emit(actions)
          /\ \A b \in Items(actions) : b.type = "Rejected"
      <3>1. actions \in Seq(Action)
        BY <2>1, <2>2, <2>3
      <3> QED
        BY <2>1, <2>2, <3>1
    <2>5. \A b \in Items(actions) : b.type \in CalmTypes \ {"Admitted"}
      BY <2>4 DEF CalmTypes, QuietTypes
    <2> QED
      BY <1>1, <2>1, <2>4, <2>5, CalmTurn
  <1> QED
    BY <1>2, <1>3 DEF HandleStartProcess

LEMMA SignalledSlots ==
  ASSUME HandleInv, HandleInv', StartInv, SlotInv, HandleSignalProcess
  PROVE  SlotInv'
  <1>1. /\ queue # <<>> /\ Head(queue).type # "Admitted" /\ Emit(<<>>)
        /\ DOMAIN jobs' = DOMAIN jobs /\ active_jobs' = active_jobs
    BY SignalEffect
  <1>2. <<>> \in Seq(Action) /\ Items(<<>>) = {}
    BY EmptySeq, ItemsOf
  <1> QED
    BY <1>1, <1>2, CalmTurn

\* Behind a poll no report of the same job waits, no other poll of it and no
\* signal.
LEMMA PolledSlots ==
  ASSUME HandleInv, HandleInv', SlotInv, PollEnds PROVE SlotInv'
  <1> DEFINE a == Exit
             new == <<a>>
  <1>1. /\ QueueOK /\ queue # <<>> /\ HeadId \in DOMAIN jobs
        /\ Head(queue) \in Action /\ Head(queue).type = "PollProcess"
        /\ Head(queue).id = HeadId
        /\ a \in Action
        /\ Waiting \subseteq Action
        /\ Waiting = {Head(queue)} \cup Rest
        /\ Waiting' = Rest \cup {a}
        /\ jobs' = jobs /\ active_jobs' = active_jobs
    BY PollEffect DEF HeadId
  <1>2. a.type = "Finished" /\ a.id = HeadId /\ Emit(new)
    BY DEF PollEnds, Exit
  <1>3. Items(new) = {a} /\ NoPair(new, SlotClash)
    BY ItemsOf, ShortPairs
  <1> HIDE DEF a
  <1>4. new \in Seq(Action)
    BY <1>1
  <1> HIDE DEF new
  <1>5. NoPair(queue', SlotClash)
    <2>1. \A b \in Rest : <<Head(queue), b>> \notin SlotClash
      BY <1>1, HeadClash DEF SlotInv
    <2>2. \A b \in Rest : <<b, a>> \notin SlotClash
      BY <1>1, <1>2, <2>1, SlotClashPair
    <2> QED
      BY <1>1, <1>2, <1>3, <1>4, <2>2, TurnPairs DEF SlotInv
  <1>6. Stay("Admitted")
    BY <1>1 DEF Stay
  <1>7. \A b \in Waiting' :
          b.type \in {"Admitted", "Finished"} =>
            b \in Waiting \/ (b.type = "Finished" /\ b.id \in DOMAIN jobs)
    BY <1>1, <1>2
  <1> QED
    BY <1>1, <1>5, <1>6, <1>7, SlotsKept

\* The report that is handled is the only one of its job.
LEMMA FinishedSlots ==
  ASSUME HandleInv, HandleInv', StartInv, SlotInv, HandleFinished
  PROVE  SlotInv'
  <1>1. /\ QueueOK /\ queue # <<>> /\ HeadId \in JobIds
        /\ Head(queue) \in Action /\ Head(queue).type = "Finished"
        /\ Head(queue).id = HeadId
        /\ Waiting \subseteq Action
        /\ Waiting = {Head(queue)} \cup Rest
        /\ Emit(<<>>) /\ Waiting' = Rest
        /\ DOMAIN jobs' = DOMAIN jobs \ {HeadId}
        /\ active_jobs' = ReleaseSlot
    BY FinishedEffect DEF HeadId
  <1>2. NoPair(queue', SlotClash)
    <2>1. <<>> \in Seq(Action) /\ Items(<<>>) = {} /\ NoPair(<<>>, SlotClash)
      BY EmptySeq, ItemsOf, ShortPairs
    <2> QED
      BY <1>1, <2>1, TurnPairs DEF SlotInv
  <1>3. \A b \in Waiting' : b.type = "Finished" => b.id \in DOMAIN jobs'
    <2>1. \A b \in Rest : <<Head(queue), b>> \notin SlotClash
      BY <1>1, HeadClash DEF SlotInv
    <2>2. \A b \in Rest : b.type = "Finished" => b.id # HeadId
      BY <1>1, <2>1, SlotClashPair
    <2> QED
      BY <1>1, <2>2 DEF SlotInv
  <1>4. HeadId \in DOMAIN jobs /\ Held(HeadId)
    BY <1>1 DEF SlotInv, Held
  <1>5. \A b \in Waiting : b.type = "Admitted" => b.id # HeadId
    BY <1>1 DEF StartInv, StartTypes, OnItsWay
  <1>6. \A id \in JobIds : Held(id)' <=> Held(id) /\ id # HeadId
    BY <1>1, <1>5 DEF Held
  <1>7. SlotAccounting'
    <2>1. PICK old : old = HeadId
      OBVIOUS
    <2>2. /\ old \in JobIds /\ Held(old)
          /\ \A i \in JobIds : Held(i)' <=> Held(i) /\ i # old
      BY <1>1, <1>4, <1>6, <2>1
    <2> QED
      BY <1>1, <2>2, HeldLess DEF SlotInv
  <1>8. SlotClash' = SlotClash
    BY DEF SlotClash
  <1> QED
    BY <1>2, <1>3, <1>7, <1>8 DEF SlotInv

LEMMA ExitSlots ==
  ASSUME HandleInv, HandleInv', SlotInv, NEW h, ChildExits(h) PROVE SlotInv'
  <1>1. UNCHANGED <<queue, jobs, active_jobs>>
    BY ExitEffect
  <1>2. NoPair(queue', SlotClash) /\ Stay("Admitted") /\ Waiting' = Waiting
    BY <1>1 DEF SlotInv, Stay, Waiting
  <1> QED
    BY <1>1, <1>2, SlotsKept

LEMMA NextSlotInv ==
  ASSUME HandleInv, StartInv, SlotInv, [CoreNext]_coreVars, Polls # "any"
  PROVE  SlotInv'
  <1>1. HandleInv'
    BY NextHandleInv
  <1> QED
    BY <1>1, StepCases, QuietSlots, SignalSlots, SubmitSlots,
       PollRequestSlots, AdmitSlots, AdmittedSlots, StartSlots,
       SignalledSlots, PolledSlots, FinishedSlots, ExitSlots

LEMMA InitSlotInv == CoreInit => SlotInv
  <1> SUFFICES ASSUME CoreInit PROVE SlotInv
    OBVIOUS
  <1>1. DOMAIN jobs = {} /\ active_jobs = 0
    BY DEF CoreInit, EmptyMap
  <1>2. Waiting = {} /\ NoPair(queue, SlotClash)
    <2>1. queue = <<>>
      BY DEF CoreInit
    <2> QED
      BY <2>1, ItemsOf, ShortPairs DEF Waiting
  <1>3. {id \in JobIds : Held(id)} = {}
    BY <1>1, <1>2 DEF Held
  <1>4. SlotAccounting
    BY <1>1, <1>3, InitHandleInv, SlotsAreHeld, FS_EmptySet
  <1> QED
    BY <1>2, <1>4 DEF SlotInv

\* Where the host polls before everything else, or not at all as the one in
\* lib.rs, the admission count is the number of jobs that were admitted and
\* have not finished: every Finished finds its job, so no slot is given back
\* twice and none is lost (policy.rs:126-140, result.rs:22-36).
THEOREM SlotsCorrect ==
  ASSUME Polls # "any" PROVE CoreSpec => []SlotAccounting
  <1>1. CoreInit => HandleInv /\ StartInv /\ SlotInv
    BY InitHandleInv, InitStartInv, InitSlotInv
  <1>2. /\ HandleInv /\ StartInv /\ SlotInv
        /\ [CoreNext]_coreVars
        => (HandleInv /\ StartInv /\ SlotInv)'
    BY NextHandleInv, NextStartInv, NextSlotInv
  <1>3. HandleInv /\ StartInv /\ SlotInv => SlotAccounting
    BY DEF SlotInv
  <1> QED
    BY <1>1, <1>2, <1>3, PTL DEF CoreSpec

\* A child that was not reaped is its job's, and the job has a slot.
LEMMA ChildrenHaveSlots ==
  ASSUME HandleInv, StartInv, TruthInv, SlotInv PROVE LiveChildrenBounded
  <1> DEFINE Live == {h \in DOMAIN processes : processes[h].state # "reaped"}
             Slot == {id \in JobIds : Held(id)}
             owner == [h \in Live |-> processes[h].job]
  <1>1. \A h \in Live : /\ processes[h].job \in Slot
                        /\ jobs[processes[h].job].process = h
    BY DEF TruthInv, StartInv, Held, HandleInv, TypeOK
  <1>2. owner \in Injection(Live, Slot)
    <2>1. owner \in [Live -> Slot]
      BY <1>1
    <2>2. \A g, h \in Live : owner[g] = owner[h] => g = h
      BY <1>1
    <2> QED
      BY <2>1, <2>2 DEF Injection, IsInjective
  <1>3. IsFiniteSet(Slot) /\ active_jobs = Cardinality(Slot)
    BY SlotsAreHeld DEF SlotInv
  <1> HIDE DEF Live, Slot, owner
  <1>4. IsFiniteSet(Live) /\ Cardinality(Live) <= Cardinality(Slot)
    BY <1>2, <1>3, FS_Injection
  <1>5. Cardinality(Live) \in Nat
    BY <1>4, FS_CardinalityType
  <1>6. active_jobs <= MaxJobs /\ active_jobs \in Nat /\ MaxJobs \in Nat
    BY MaxJobsAssumption DEF HandleInv, TypeOK
  <1>7. Cardinality(Live) <= MaxJobs
    BY <1>3, <1>4, <1>5, <1>6
  <1> QED
    BY <1>7 DEF LiveChildrenBounded, Live

\* The limit of the admission control holds for the processes of the kernel:
\* never more than max_jobs children are running or waiting to be reaped,
\* though the slot is taken two actions before the spawn and given back one
\* after the wait (policy.rs:126-140, spawn/mod.rs:290-300).
THEOREM LiveChildrenCorrect ==
  ASSUME Polls # "any" PROVE CoreSpec => []LiveChildrenBounded
  <1>1. CoreInit => HandleInv /\ StartInv /\ TruthInv /\ SlotInv
    BY InitHandleInv, InitStartInv, InitTruthInv, InitSlotInv
  <1>2. /\ HandleInv /\ StartInv /\ TruthInv /\ SlotInv
        /\ [CoreNext]_coreVars
        => (HandleInv /\ StartInv /\ TruthInv /\ SlotInv)'
    BY NextHandleInv, NextStartInv, NextTruthInv, NextSlotInv
  <1>3. HandleInv /\ StartInv /\ TruthInv /\ SlotInv => LiveChildrenBounded
    BY ChildrenHaveSlots
  <1> QED
    BY <1>1, <1>2, <1>3, PTL DEF CoreSpec

\* Neither a signal nor a poll of a job waits in front of its report.
LEMMA HeadNotEnded ==
  ASSUME HandleInv, TruthInv, SlotInv, queue # <<>>,
         Head(queue).type \in {"SignalProcess", "PollProcess"},
         HeadId \in DOMAIN jobs
  PROVE  ~Ended(HeadId)
  <1> SUFFICES ASSUME Ended(HeadId) PROVE FALSE
    OBVIOUS
  <1>1. PICK a \in Waiting : IsResult(a, HeadId)
    BY DEF TruthInv
  <1>2. /\ Waiting \subseteq Action /\ QueueOK
        /\ Waiting = {Head(queue)} \cup Rest
    BY HeadItems, ItemsType, TypeParts DEF HandleInv, TypeOK, Waiting, Rest
  <1>3. a \in Rest /\ a.type = "Finished" /\ a.id = Head(queue).id
    BY <1>1, <1>2 DEF IsResult, HeadId
  <1>4. <<Head(queue), a>> \notin SlotClash
    BY <1>2, <1>3, HeadClash DEF SlotInv
  <1> QED
    BY <1>2, <1>3, <1>4, SlotClashPair

ReapedStay ==
  \A h \in DOMAIN processes :
    processes[h].state = "reaped" => processes'[h] = processes[h]

LEMMA StepReapedStay ==
  ASSUME HandleInv, StartInv, TruthInv, SlotInv, [CoreNext]_coreVars
  PROVE  ReapedStay
  <1>1. CASE processes' = processes
    BY <1>1 DEF ReapedStay
  <1>2. CASE QuietStep \/ SignalStep
    BY <1>1, <1>2 DEF QuietStep, SignalStep, Kept
  <1>3. CASE \/ \E timeout \in Timeouts : RequestSubmit(timeout)
             \/ \E id \in JobIds : RequestPoll(id)
    BY <1>1, <1>3, SubmitEffect, PollRequested DEF Kept
  <1>4. CASE (HandleSubmit /\ ~AtLimit) \/ HandleAdmitted
    BY <1>1, <1>4, AdmitEffect, AdmittedEffect
  <1>5. CASE HandleStartProcess /\ SpawnSucceeds(HeadId)
    BY <1>5, SpawnEffect DEF ReapedStay
  <1>6. CASE HandleStartProcess /\ SpawnFails(HeadId)
    BY <1>1, <1>6, RefusalEffect
  <1>7. CASE HandleSignalProcess
    <2>1. /\ queue # <<>> /\ Head(queue).type = "SignalProcess"
          /\ HeadId \in DOMAIN jobs => HasProcess(HeadId)
          /\ \A h \in DOMAIN processes :
               ~(HeadId \in DOMAIN jobs /\ h = jobs[HeadId].process) =>
                 processes'[h] = processes[h]
      BY <1>7, SignalEffect
    <2>2. HeadId \in DOMAIN jobs => Child(HeadId).state # "reaped"
      BY <2>1, HeadNotEnded DEF Ended
    <2> QED
      BY <2>1, <2>2 DEF ReapedStay, Child
  <1>8. CASE PollEnds
    <2>1. /\ queue # <<>> /\ Head(queue).type = "PollProcess"
          /\ HeadId \in DOMAIN jobs /\ HasProcess(HeadId)
          /\ \A h \in DOMAIN processes :
               h # jobs[HeadId].process => processes'[h] = processes[h]
      BY <1>8, PollEffect DEF PollEnds
    <2>2. Child(HeadId).state # "reaped"
      BY <2>1, HeadNotEnded DEF Ended
    <2> QED
      BY <2>1, <2>2 DEF ReapedStay, Child
  <1>9. CASE HandleFinished
    BY <1>1, <1>9, FinishedEffect
  <1>10. CASE \E h \in DOMAIN processes : ChildExits(h)
    BY <1>10, ExitEffect DEF ReapedStay
  <1> QED
    BY StepCases, <1>2, <1>3, <1>4, <1>5, <1>6, <1>7, <1>8, <1>9, <1>10

\* A child that was reaped is never signalled and never waited for again: its
\* pid may be another process's by now (spawn/mod.rs:290-300, 319-327).
THEOREM ReapedCorrect ==
  ASSUME Polls # "any" PROVE CoreSpec => ReapedLeftAlone
  <1>1. CoreInit => HandleInv /\ StartInv /\ TruthInv /\ SlotInv
    BY InitHandleInv, InitStartInv, InitTruthInv, InitSlotInv
  <1>2. /\ HandleInv /\ StartInv /\ TruthInv /\ SlotInv
        /\ [CoreNext]_coreVars
        => (HandleInv /\ StartInv /\ TruthInv /\ SlotInv)'
    BY NextHandleInv, NextStartInv, NextTruthInv, NextSlotInv
  <1>3. /\ HandleInv /\ StartInv /\ TruthInv /\ SlotInv
        /\ [CoreNext]_coreVars
        => [ReapedStay]_coreVars
    BY StepReapedStay
  <1>4. CoreSpec => [][ReapedStay]_coreVars
    BY <1>1, <1>2, <1>3, PTL DEF CoreSpec
  <1> QED
    BY <1>4 DEF ReapedLeftAlone, ReapedStay

-----------------------------------------------------------------------------
(***************************************************************************)
(* LifeInv: the lifecycle of a job never goes back.                        *)
(***************************************************************************)

\* The actions a stop or a kill of a job comes from.
StopTypes == {"Control", "TimeoutReached", "KillDeadlineReached", "SignalProcess"}

LEMMA LifeClashPair ==
  ASSUME NEW a \in Action, NEW b \in Action
  PROVE  <<a, b>> \in LifeClash <=>
           /\ a.id = b.id
           /\ \/ /\ a.type = "KillDeadlineReached" \/ Kills(a)
                 /\ b.type \in {"Control", "TimeoutReached"}
              \/ a.type \in {"Control", "TimeoutReached"} /\ Kills(b)
              \/ Kills(a) /\ Stops(b)
  BY DEF LifeClash

LEMMA LifeClashTypes ==
  \A a, b \in Action : b.type \notin StopTypes => <<a, b>> \notin LifeClash
  BY LifeClashPair DEF StopTypes, Kills, Stops

\* A turn that asks for no signal.  A job that gets a child in it is not about
\* to be killed, one that was told to stop stays so, and one that is killed
\* was told to stop.
LEMMA LifeTurn ==
  ASSUME HandleInv, LifeInv, queue # <<>>, phase = "drain", phase' = phase,
         NEW actions \in Seq(Action), Emit(actions),
         \A b \in Items(actions) : b.type \notin StopTypes,
         \A b \in Items(actions) :
           b.type \in StartTypes =>
             Head(queue).type \in StartTypes /\ b.id = HeadId,
         \A id \in DOMAIN tracking' :
           \/ id \in DOMAIN tracking /\ tracking'[id] = tracking[id]
           \/ ~Late(id) /\ tracking'[id] = "WaitingForDeadline",
         \A id \in JobIds :
           HasProcess(id)' => HasProcess(id) \/ ~KillNear(id),
         \A id \in JobIds :
           HasProcess(id) /\ HasProcess(id)' /\ Stopped(id) => Stopped(id)',
         \A id \in DOMAIN jobs' \cap DOMAIN lifecycle' :
           lifecycle'[id] = "Killed" =>
             \/ /\ id \in DOMAIN jobs \cap DOMAIN lifecycle
                /\ lifecycle[id] = "Killed"
                /\ jobs[id].timed_out => jobs'[id].timed_out
             \/ /\ jobs'[id].timed_out
                /\ ~\E a \in Rest : a.id = id /\ Stops(a)
  PROVE  LifeInv'
  <1>1. /\ QueueOK
        /\ Waiting \subseteq Action /\ Items(actions) \subseteq Action
        /\ Waiting = {Head(queue)} \cup Rest
        /\ Waiting' = Rest \cup Items(actions)
    BY TurnItems, TypeParts DEF HandleInv
  <1>2. NoPair(queue', LifeClash)
    <2>1. NoPair(actions, LifeClash)
      BY <1>1, LifeClashTypes DEF NoPair, Items
    <2>2. \A a \in Rest, b \in Items(actions) : <<a, b>> \notin LifeClash
      BY <1>1, LifeClashTypes
    <2> QED
      BY <1>1, <2>1, <2>2, TurnPairs DEF LifeInv
  <1>3. \A a \in Waiting' : a.type \in StopTypes => a \in Rest /\ a \in Waiting
    BY <1>1
  <1>4. \A id \in JobIds : Late(id)' => Late(id)
    BY <1>3 DEF Late, InGrace, StopTypes
  <1>5. \A id \in JobIds : KillNear(id)' => KillNear(id)
    BY <1>3 DEF KillNear, InGrace, StopTypes, Kills
  <1>6. \A id \in JobIds : Late(id)' =>
          ~\E a \in Waiting' : a.id = id /\ a.type \in StartTypes
    <2>1. \A a \in Waiting' : a.type \in StartTypes =>
            \E b \in Waiting : b.id = a.id /\ b.type \in StartTypes
      BY <1>1 DEF HeadId
    <2> QED
      BY <1>4, <2>1 DEF LifeInv
  <1>7. \A a \in Waiting' : a.type = "Control" => a.signal = "GracefulStop"
    BY <1>3 DEF LifeInv, StopTypes
  <1>8. \A a \in Waiting' :
          (a.type \in {"TimeoutReached", "KillDeadlineReached"}
             /\ a.id \in DOMAIN tracking') => InGrace(a.id)'
    <2> SUFFICES ASSUME NEW a \in Waiting',
                        a.type \in {"TimeoutReached", "KillDeadlineReached"},
                        a.id \in DOMAIN tracking'
                 PROVE  InGrace(a.id)'
      OBVIOUS
    <2>1. a \in Waiting /\ Late(a.id)
      BY <1>3 DEF StopTypes, Late
    <2> QED
      BY <2>1 DEF LifeInv, InGrace
  <1>9. \A id \in JobIds : KillNear(id)' /\ HasProcess(id)' => Stopped(id)'
    BY <1>5 DEF LifeInv
  <1>10. \A id \in DOMAIN jobs' \cap DOMAIN lifecycle' :
           lifecycle'[id] = "Killed" =>
             /\ jobs'[id].timed_out
             /\ ~\E a \in Waiting' : a.id = id /\ Stops(a)
    BY <1>3 DEF LifeInv, StopTypes, Stops
  <1> QED
    BY <1>2, <1>6, <1>7, <1>8, <1>9, <1>10 DEF LifeInv, LifeClash, Kills, Stops

\* A turn that leaves the jobs alone.
LEMMA IdleTurn ==
  ASSUME HandleInv, LifeInv, queue # <<>>, phase = "drain", phase' = phase,
         NEW actions \in Seq(Action), Emit(actions),
         \A b \in Items(actions) : b.type \notin StopTypes,
         \A b \in Items(actions) :
           b.type \in StartTypes =>
             Head(queue).type \in StartTypes /\ b.id = HeadId,
         Head(queue).type \in {"TimeoutReached", "SignalProcess"} =>
           ~HasProcess(HeadId) \/ jobs[HeadId].timed_out,
         UNCHANGED <<jobs, lifecycle, tracking>>
  PROVE  LifeInv'
  <1>1. /\ Waiting = {Head(queue)} \cup Rest
        /\ Waiting' = Rest \cup Items(actions)
    BY TurnItems, TypeParts DEF HandleInv
  <1>2. \A id \in JobIds : HasProcess(id)' <=> HasProcess(id)
    BY DEF HasProcess
  <1>3. \A id \in JobIds :
          HasProcess(id) /\ HasProcess(id)' /\ Stopped(id) => Stopped(id)'
    BY <1>1 DEF Stopped, Stops, HeadId
  <1> QED
    BY <1>2, <1>3, LifeTurn

\* The turns of requests and events that ask for nothing more.
LEMMA IdleLife ==
  ASSUME HandleInv, LifeInv,
         \/ HandleRegisterInterest \/ HandleRemoveInterest \/ HandlePerformIo
         \/ HandleQuery \/ HandleNotice \/ HandlePollProcess
         \/ HandleSubmit
  PROVE  LifeInv'
  <1>1. /\ QueueOK /\ queue # <<>> /\ phase = "drain" /\ phase' = phase
        /\ HeadId \in JobIds
        /\ Head(queue).type \notin {"TimeoutReached", "SignalProcess"}
        /\ UNCHANGED <<jobs, lifecycle, tracking>>
    <2>1. /\ queue # <<>> /\ phase = "drain" /\ phase' = phase
          /\ Head(queue).type \notin {"TimeoutReached", "SignalProcess"}
          /\ UNCHANGED <<jobs, lifecycle, tracking>>
      BY DEF HandleRegisterInterest, HandleRemoveInterest, HandlePerformIo,
             HandleQuery, HandleNotice, HandlePollProcess, HandleSubmit, Popped,
             loopVars, stateVars, policyVars
    <2>2. QueueOK
      BY TypeParts DEF HandleInv
    <2>3. HeadId \in JobIds
      BY <2>1, <2>2, Carried, HeadTailProperties DEF QueueOK, HeadId
    <2> QED
      BY <2>1, <2>2, <2>3
  <1>2. CASE Emit(<<>>)
    BY <1>1, <1>2, IdleTurn, EmptySeq, ItemsOf
  <1>3. ASSUME NEW a \in Action, Emit(<<a>>), a.type \notin StopTypes,
               a.type \in StartTypes =>
                 Head(queue).type \in StartTypes /\ a.id = HeadId
        PROVE  LifeInv'
    <2>1. <<a>> \in Seq(Action) /\ Items(<<a>>) = {a}
      BY ItemsOf
    <2> DEFINE new == <<a>>
    <2>2. new \in Seq(Action) /\ Items(new) = {a} /\ Emit(new)
      BY <1>3, <2>1
    <2> HIDE DEF new
    <2> QED
      BY <1>1, <1>3, <2>2, IdleTurn
  <1>4. CASE HandleRegisterInterest \/ HandleRemoveInterest \/ HandlePerformIo
             \/ HandleNotice
    BY <1>2, <1>4
    DEF HandleRegisterInterest, HandleRemoveInterest, HandlePerformIo,
        HandleNotice
  <1>5. CASE HandleQuery
    <2> DEFINE a == [type |-> "QueryResult", id |-> HeadId,
                     found |-> HasResult(HeadId)]
    <2>1. HasResult(HeadId) \in BOOLEAN
      BY DEF HasResult
    <2>2. a \in Action
      BY <1>1, <2>1, Constructors, Zenon
    <2>3. a.type = "QueryResult" /\ Emit(<<a>>)
      BY <1>5 DEF HandleQuery
    <2> HIDE DEF a
    <2> QED
      BY <1>3, <2>2, <2>3 DEF StopTypes, StartTypes
  <1>6. CASE HandlePollProcess
    <2>1. CASE ~Emit(<<>>)
      <3>1. HasProcess(HeadId) /\ Poll(HeadId, jobs[HeadId].process)
        BY <1>6, <2>1 DEF HandlePollProcess
      <3>2. PollEnds
        BY <1>1, <1>6, <2>1, <3>1
        DEF HandlePollProcess, Poll, PollEnds, Child, Exit, ExitedActions,
            Popped, loopVars, stateVars, policyVars
      <3>3. Exit \in Action /\ Emit(<<Exit>>) /\ Exit.type = "Finished"
        BY <3>2, PollEffect DEF PollEnds, Exit
      <3>4. PICK a : a = Exit
        OBVIOUS
      <3> QED
        BY <1>3, <3>3, <3>4 DEF StopTypes, StartTypes
    <2> QED
      BY <1>2, <2>1
  <1>7. CASE HandleSubmit /\ AtLimit
    <2>1. /\ Simple("Rejected", HeadId) \in Action
          /\ Simple("Rejected", HeadId).type = "Rejected"
      BY <1>1, Constructors DEF SimpleTypes, Simple
    <2>2. Emit(<<Simple("Rejected", HeadId)>>)
      BY <1>7 DEF HandleSubmit
    <2> QED
      BY <1>3, <2>1, <2>2 DEF StopTypes, StartTypes
  <1>8. CASE HandleSubmit /\ ~AtLimit
    <2>1. /\ Admission \in Action /\ Admission.type = "Admitted"
          /\ Admission.id = HeadId /\ Head(queue).type = "Submit"
      BY <1>8, AdmitEffect
    <2>2. Emit(<<Admission>>)
      BY <1>8 DEF HandleSubmit, Admission
    <2>3. PICK a : a = Admission
      OBVIOUS
    <2> QED
      BY <1>3, <2>1, <2>2, <2>3 DEF StopTypes, StartTypes
  <1> QED
    BY <1>4, <1>5, <1>6, <1>7, <1>8

\* The new job has no past: nothing of its id waits but its admission.
LEMMA AdmittedLife ==
  ASSUME HandleInv, StartInv, LifeInv, HandleAdmitted PROVE LifeInv'
  <1>1. /\ QueueOK /\ queue # <<>> /\ phase = "drain" /\ phase' = phase
        /\ HeadId \in JobIds /\ Head(queue).id = HeadId
        /\ Head(queue).type = "Admitted"
        /\ Start \in Action /\ Start.type = "StartProcess" /\ Start.id = HeadId
        /\ Waiting = {Head(queue)} \cup Rest
        /\ Rest \subseteq Waiting'
        /\ DOMAIN jobs' = DOMAIN jobs \cup {HeadId}
        /\ jobs'[HeadId].process = NoHandle
        /\ \A id \in DOMAIN jobs : id # HeadId => jobs'[id] = jobs[id]
        /\ DOMAIN lifecycle' = DOMAIN lifecycle \cup {HeadId}
        /\ lifecycle'[HeadId] = "Admitted"
        /\ \A id \in DOMAIN lifecycle :
             id # HeadId => lifecycle'[id] = lifecycle[id]
        /\ DOMAIN tracking' \subseteq DOMAIN tracking \cup {HeadId}
        /\ \A id \in DOMAIN tracking :
             id # HeadId => tracking'[id] = tracking[id]
        /\ HeadId \in DOMAIN tracking' =>
             \/ tracking'[HeadId] = "WaitingForDeadline"
             \/ HeadId \in DOMAIN tracking
    BY AdmittedEffect DEF HeadId
  <1> DEFINE new == <<Start>>
  <1>2. new \in Seq(Action) /\ Emit(new) /\ Items(new) = {Start}
    <2>1. Emit(<<Start>>)
      BY DEF HandleAdmitted, Start
    <2>2. <<Start>> \in Seq(Action)
      BY AdmittedEffect DEF Grows
    <2> QED
      BY <2>1, <2>2, ItemsOf
  <1> HIDE DEF new
  <1>3. ~Late(HeadId) /\ HeadId \notin DOMAIN tracking
    BY <1>1 DEF LifeInv, StartInv, StartTypes, OnItsWay
  <1>4. \A b \in Items(new) :
          /\ b.type \notin StopTypes
          /\ b.type \in StartTypes =>
               Head(queue).type \in StartTypes /\ b.id = HeadId
    BY <1>1, <1>2 DEF StopTypes, StartTypes
  <1>5. \A id \in DOMAIN tracking' :
          \/ id \in DOMAIN tracking /\ tracking'[id] = tracking[id]
          \/ ~Late(id) /\ tracking'[id] = "WaitingForDeadline"
    BY <1>1, <1>3
  <1>6. \A id \in JobIds :
          /\ HasProcess(id)' => HasProcess(id)
          /\ HasProcess(id)' /\ Stopped(id) => Stopped(id)'
    BY <1>1 DEF HasProcess, Stopped, Stops
  <1>7. \A id \in DOMAIN jobs' \cap DOMAIN lifecycle' :
          lifecycle'[id] = "Killed" =>
            /\ id \in DOMAIN jobs \cap DOMAIN lifecycle
            /\ lifecycle[id] = "Killed"
            /\ jobs[id].timed_out => jobs'[id].timed_out
    BY <1>1
  <1> QED
    BY <1>1, <1>2, <1>4, <1>5, <1>6, <1>7, LifeTurn

\* No deadline of a job that starts has passed, and no signal waits for it.
LEMMA SpawnLife ==
  ASSUME HandleInv, StartInv, LifeInv, HandleStartProcess,
         SpawnSucceeds(HeadId)
  PROVE  LifeInv'
  <1>1. /\ queue # <<>> /\ HeadId \in JobIds /\ Head(queue).id = HeadId
        /\ Head(queue).type = "StartProcess"
        /\ Waiting = {Head(queue)} \cup Rest
        /\ Waiting \subseteq Action
        /\ HeadId \in DOMAIN jobs /\ ~HasChild(HeadId)
        /\ phase = "drain" /\ phase' = phase
    BY StartTurn DEF HeadId, HandleStartProcess, Popped, loopVars
  <1>2. /\ DOMAIN jobs' = DOMAIN jobs
        /\ jobs'[HeadId].timed_out = jobs[HeadId].timed_out
        /\ \A id \in DOMAIN jobs : id # HeadId => jobs'[id] = jobs[id]
        /\ lifecycle' = Insert(lifecycle, HeadId, "Running")
        /\ tracking' = tracking
    BY SpawnEffect
  <1>3. PICK actions \in Seq(Action) :
          /\ Emit(actions)
          /\ \A b \in Items(actions) :
               b.type \in {"Started", "RegisterInterest"}
    BY <1>1, SpawnEffect, StartedItems
  <1>4. Rest \subseteq Waiting'
    BY <1>1, <1>3, TurnItems, TypeParts DEF HandleInv
  <1>5. ~KillNear(HeadId)
    <2>1. ~Late(HeadId)
      BY <1>1 DEF LifeInv, StartTypes
    <2>2. \A a \in Waiting : a.type = "SignalProcess" => a.id # HeadId
      BY <1>1 DEF StartInv
    <2> QED
      BY <2>1, <2>2 DEF KillNear, Late, Kills
  <1>6. \A b \in Items(actions) :
          b.type \notin StopTypes /\ b.type \notin StartTypes
    BY <1>3 DEF StopTypes, StartTypes
  <1>7. \A id \in JobIds :
          /\ HasProcess(id)' => HasProcess(id) \/ ~KillNear(id)
          /\ HasProcess(id) /\ HasProcess(id)' /\ Stopped(id) => Stopped(id)'
    BY <1>1, <1>2, <1>4, <1>5 DEF HasProcess, Stopped, Stops
  <1>8. \A id \in DOMAIN jobs' \cap DOMAIN lifecycle' :
          lifecycle'[id] = "Killed" =>
            /\ id \in DOMAIN jobs \cap DOMAIN lifecycle
            /\ lifecycle[id] = "Killed"
            /\ jobs[id].timed_out => jobs'[id].timed_out
    BY <1>2 DEF Insert
  <1> QED
    BY <1>1, <1>2, <1>3, <1>6, <1>7, <1>8, LifeTurn

LEMMA RefusalLife ==
  ASSUME HandleInv, StartInv, LifeInv, HandleStartProcess, SpawnFails(HeadId)
  PROVE  LifeInv'
  <1>1. /\ queue # <<>> /\ Head(queue).type = "StartProcess"
        /\ HeadId \in JobIds
        /\ Waiting = {Head(queue)} \cup Rest
        /\ phase = "drain" /\ phase' = phase
    BY StartTurn DEF HandleStartProcess, Popped, loopVars
  <1>2. /\ Emit(<<Refusal>>) /\ Refusal \in Action /\ Refusal.type = "Rejected"
        /\ Items(<<Refusal>>) = {Refusal}
        /\ lifecycle' = Insert(lifecycle, HeadId, "Finished")
        /\ jobs' = jobs /\ tracking' = tracking
    BY RefusalEffect
  <1> DEFINE new == <<Refusal>>
  <1>3. new \in Seq(Action) /\ Emit(new) /\ Items(new) = {Refusal}
    <2>1. PICK a : a = Refusal
      OBVIOUS
    <2> QED
      BY <1>2, <2>1
  <1> HIDE DEF new
  <1>4. Rest \subseteq Waiting'
    BY <1>1, <1>3, TurnItems, TypeParts DEF HandleInv
  <1>5. \A id \in JobIds :
          /\ HasProcess(id)' => HasProcess(id)
          /\ HasProcess(id) /\ Stopped(id) => Stopped(id)'
    BY <1>1, <1>2, <1>4 DEF HasProcess, Stopped, Stops
  <1>6. \A id \in DOMAIN jobs' \cap DOMAIN lifecycle' :
          lifecycle'[id] = "Killed" =>
            /\ id \in DOMAIN jobs \cap DOMAIN lifecycle
            /\ lifecycle[id] = "Killed"
            /\ jobs[id].timed_out => jobs'[id].timed_out
    BY <1>2 DEF Insert
  <1>7. \A b \in Items(new) : b.type \notin StopTypes /\ b.type \notin StartTypes
    BY <1>2, <1>3 DEF StopTypes, StartTypes
  <1> QED
    BY <1>1, <1>2, <1>3, <1>5, <1>6, <1>7, LifeTurn

\* A kill finds its job told to stop, and no order to stop behind it.
LEMMA KillFindsStop ==
  ASSUME HandleInv, StartInv, LifeInv, HandleSignalProcess,
         HeadId \in DOMAIN jobs, Head(queue).signal # "GracefulStop"
  PROVE  /\ jobs[HeadId].timed_out
         /\ ~\E a \in Rest : a.id = HeadId /\ Stops(a)
  <1>1. /\ QueueOK /\ queue # <<>> /\ HeadId \in JobIds
        /\ Head(queue) \in Action /\ Head(queue).type = "SignalProcess"
        /\ Head(queue).id = HeadId
        /\ Head(queue).signal \in Signals
        /\ Waiting \subseteq Action
        /\ Waiting = {Head(queue)} \cup Rest
        /\ HasProcess(HeadId)
    BY SignalEffect DEF HeadId
  <1>2. Kills(Head(queue))
    BY <1>1 DEF Kills, Signals
  <1>3. Stopped(HeadId)
    BY <1>1, <1>2 DEF LifeInv, KillNear
  <1>4. \A a \in Rest : <<Head(queue), a>> \notin LifeClash
    BY <1>1, HeadClash DEF LifeInv
  <1>5. ~\E a \in Rest : a.id = HeadId /\ (a.type = "TimeoutReached" \/ Stops(a))
    BY <1>1, <1>2, <1>4, LifeClashPair
  <1>6. ~Stops(Head(queue)) /\ Head(queue).type # "TimeoutReached"
    BY <1>1 DEF Stops
  <1> QED
    BY <1>1, <1>3, <1>5, <1>6 DEF Stopped

LEMMA SignalledLife ==
  ASSUME HandleInv, StartInv, LifeInv, HandleSignalProcess PROVE LifeInv'
  <1>1. /\ QueueOK /\ queue # <<>> /\ HeadId \in JobIds
        /\ Head(queue) \in Action /\ Head(queue).type = "SignalProcess"
        /\ Head(queue).id = HeadId
        /\ Head(queue).signal \in Signals
        /\ Waiting \subseteq Action
        /\ Waiting = {Head(queue)} \cup Rest
        /\ Emit(<<>>) /\ Waiting' = Rest
        /\ DOMAIN jobs' = DOMAIN jobs
        /\ \A id \in DOMAIN jobs :
             /\ jobs'[id].process = jobs[id].process
             /\ id # HeadId => jobs'[id] = jobs[id]
             /\ id = HeadId =>
                  /\ HasProcess(id)
                  /\ jobs'[id].timed_out = (\/ jobs[id].timed_out
                                            \/ Head(queue).signal = "GracefulStop")
        /\ HeadId \notin DOMAIN jobs => UNCHANGED <<jobs, lifecycle>>
        /\ HeadId \in DOMAIN jobs =>
             lifecycle' = Insert(lifecycle, HeadId,
                            IF Head(queue).signal = "GracefulStop"
                            THEN "Terminating" ELSE "Killed")
        /\ tracking' = tracking
    BY SignalEffect DEF HeadId
  <1>2. phase = "drain" /\ phase' = phase
    BY DEF HandleSignalProcess, Popped, loopVars
  <1>3. <<>> \in Seq(Action) /\ Items(<<>>) = {}
    BY EmptySeq, ItemsOf
  <1>4. \A id \in JobIds :
          /\ HasProcess(id)' => HasProcess(id)
          /\ HasProcess(id) /\ Stopped(id) => Stopped(id)'
    <2>1. \A id \in JobIds : HasProcess(id)' => HasProcess(id)
      BY <1>1 DEF HasProcess
    <2>2. ASSUME NEW id \in JobIds, HasProcess(id), Stopped(id)
          PROVE  Stopped(id)'
      <3>1. id \in DOMAIN jobs /\ id \in DOMAIN jobs'
        BY <1>1, <2>2 DEF HasProcess
      <3>2. CASE jobs[id].timed_out
        BY <1>1, <3>1, <3>2 DEF Stopped
      <3>3. CASE \E a \in Waiting : a.id = id /\ (a.type = "TimeoutReached" \/ Stops(a))
        BY <1>1, <3>1, <3>3 DEF Stopped, Stops
      <3> QED
        BY <2>2, <3>2, <3>3 DEF Stopped
    <2> QED
      BY <2>1, <2>2
  <1>5. ASSUME HeadId \in DOMAIN jobs, Head(queue).signal # "GracefulStop"
        PROVE  /\ jobs'[HeadId].timed_out
               /\ ~\E a \in Rest : a.id = HeadId /\ Stops(a)
    BY <1>1, <1>5, KillFindsStop
  <1>6. \A id \in DOMAIN jobs' \cap DOMAIN lifecycle' :
          lifecycle'[id] = "Killed" =>
            \/ /\ id \in DOMAIN jobs \cap DOMAIN lifecycle
               /\ lifecycle[id] = "Killed"
               /\ jobs[id].timed_out => jobs'[id].timed_out
            \/ /\ jobs'[id].timed_out
               /\ ~\E a \in Rest : a.id = id /\ Stops(a)
    <2> SUFFICES ASSUME NEW id \in DOMAIN jobs' \cap DOMAIN lifecycle',
                        lifecycle'[id] = "Killed"
                 PROVE  \/ /\ id \in DOMAIN jobs \cap DOMAIN lifecycle
                           /\ lifecycle[id] = "Killed"
                           /\ jobs[id].timed_out => jobs'[id].timed_out
                        \/ /\ jobs'[id].timed_out
                           /\ ~\E a \in Rest : a.id = id /\ Stops(a)
      OBVIOUS
    <2>1. CASE id # HeadId
      BY <1>1, <2>1, ZenonT(60) DEF Insert
    <2>2. CASE id = HeadId
      <3>1. HeadId \in DOMAIN jobs /\ Head(queue).signal # "GracefulStop"
        BY <1>1, <2>2 DEF Insert
      <3> QED
        BY <1>5, <2>2, <3>1
    <2> QED
      BY <2>1, <2>2
  <1> QED
    BY <1>1, <1>2, <1>3, <1>4, <1>6, LifeTurn

LEMMA FinishedLife ==
  ASSUME HandleInv, LifeInv, HandleFinished PROVE LifeInv'
  <1>1. /\ queue # <<>> /\ HeadId \in JobIds
        /\ Head(queue).type = "Finished"
        /\ Waiting = {Head(queue)} \cup Rest
        /\ Emit(<<>>) /\ Waiting' = Rest
        /\ DOMAIN jobs' = DOMAIN jobs \ {HeadId}
        /\ \A id \in DOMAIN jobs' : jobs'[id] = jobs[id]
        /\ DOMAIN tracking' = DOMAIN tracking \ {HeadId}
        /\ \A id \in DOMAIN tracking' : tracking'[id] = tracking[id]
        /\ lifecycle' = lifecycle
    BY FinishedEffect
  <1>2. phase = "drain" /\ phase' = phase
    BY DEF HandleFinished, Popped, loopVars
  <1>3. <<>> \in Seq(Action) /\ Items(<<>>) = {}
    BY EmptySeq, ItemsOf
  <1>4. \A id \in JobIds :
          /\ HasProcess(id)' => HasProcess(id)
          /\ HasProcess(id)' /\ Stopped(id) => Stopped(id)'
    BY <1>1 DEF HasProcess, Stopped, Stops
  <1> QED
    BY <1>1, <1>2, <1>3, <1>4, LifeTurn

\* A stop or a deadline that finds nothing to signal.
LEMMA UnaskedLife ==
  ASSUME HandleInv, LifeInv, ~MaySignal(HeadId),
         HandleControl \/ HandleTimeoutReached \/ HandleKillDeadlineReached
  PROVE  LifeInv'
  <1>1. /\ queue # <<>> /\ phase = "drain" /\ phase' = phase
        /\ Head(queue).type # "SignalProcess"
        /\ Emit(<<>>)
        /\ UNCHANGED <<jobs, lifecycle, tracking>>
    BY DEF HandleControl, HandleTimeoutReached, HandleKillDeadlineReached,
           Popped, loopVars, stateVars, policyVars
  <1>2. ~HasProcess(HeadId) \/ jobs[HeadId].timed_out
    BY DEF MaySignal
  <1>3. <<>> \in Seq(Action) /\ Items(<<>>) = {}
    BY EmptySeq, ItemsOf
  <1> QED
    BY <1>1, <1>2, <1>3, IdleTurn

\* A turn that asks for a signal: behind a request to stop no kill of the job
\* waits, and behind the end of its grace period no request to stop.
LEMMA AskedLife ==
  ASSUME HandleInv, LifeInv, SignalStep, tracking' = tracking PROVE LifeInv'
  <1>1. /\ QueueOK /\ queue # <<>>
        /\ HeadId \in JobIds /\ HasProcess(HeadId)
        /\ Waiting \subseteq Action /\ Waiting' \subseteq Action
        /\ Waiting = {Head(queue)} \cup Rest
        /\ Rest \subseteq Waiting'
    BY SignalItems
  <1>2. PICK signal \in Signals :
          /\ Asked(signal)
          /\ Order(signal) \in Waiting'
          /\ \A a \in Waiting' : \/ a \in Rest
                                 \/ a = Order(signal)
                                 \/ a.type = "Controlled"
    BY SignalItems
  <1>3. PICK order \in Action : order = Order(signal)
    BY <1>1, Constructors DEF Order
  <1>4. /\ order.type = "SignalProcess" /\ order.id = HeadId
        /\ order.signal = signal
    BY <1>3 DEF Order, Signal
  <1>5. /\ phase = "drain" /\ phase' = "drain"
        /\ ~jobs[HeadId].timed_out
        /\ Head(queue).id = HeadId
        /\ Head(queue).type \in {"Control", "TimeoutReached", "KillDeadlineReached"}
        /\ UNCHANGED <<jobs, lifecycle, tracking>>
    BY DEF SignalStep, Popped, loopVars, MaySignal, Kept, HeadId
  <1>6. /\ Head(queue).type \in {"Control", "TimeoutReached"}
             <=> signal = "GracefulStop"
        /\ Head(queue).type = "KillDeadlineReached" <=> signal = "ForceKill"
    BY <1>1, <1>2, <1>5 DEF Asked, LifeInv, Signals
  <1>7. NoPair(queue', LifeClash)
    <2>1. \A b \in Rest : <<Head(queue), b>> \notin LifeClash
      BY <1>1, HeadClash DEF LifeInv
    <2>2. \A s \in Signals : Asked(s) => s = signal
      BY <1>1, <1>2, <1>5 DEF Asked, Signals
    <2>3. \A a \in Rest : <<a, order>> \notin LifeClash
      <3> SUFFICES ASSUME NEW a \in Rest, <<a, order>> \in LifeClash PROVE FALSE
        OBVIOUS
      <3>1. /\ a \in Action /\ Head(queue) \in Action
            /\ a.id = HeadId
        BY <1>1, <1>4, LifeClashPair
      <3>2. <<Head(queue), a>> \notin LifeClash
        BY <2>1
      <3>3. CASE signal = "GracefulStop"
        BY <1>1, <1>4, <1>5, <1>6, <3>1, <3>2, <3>3, LifeClashPair
        DEF Kills, Stops
      <3>4. CASE signal = "ForceKill"
        BY <1>1, <1>4, <1>5, <1>6, <3>1, <3>2, <3>4, LifeClashPair
        DEF Kills, Stops
      <3> QED
        BY <3>3, <3>4 DEF Signals
    <2>4. \A a \in Rest, s \in Signals :
            Asked(s) => <<a, Order(s)>> \notin LifeClash
      BY <1>3, <2>2, <2>3
    <2>5. \A a, b \in Action : b.type = "Controlled" => <<a, b>> \notin LifeClash
      BY LifeClashTypes DEF StopTypes
    <2> QED
      BY <2>4, <2>5, SignalPairs DEF LifeInv
  <1>8. \A a \in Waiting' :
          \/ a \in Rest /\ a \in Waiting
          \/ a = order
          \/ a.type = "Controlled"
    BY <1>1, <1>2, <1>3
  <1>9. \A id \in JobIds : Late(id)' =>
          Late(id) /\ ~\E a \in Waiting' : a.id = id /\ a.type \in StartTypes
    BY <1>4, <1>5, <1>8 DEF LifeInv, Late, InGrace, StartTypes
  <1>10. \A a \in Waiting' :
           (a.type \in {"TimeoutReached", "KillDeadlineReached"}
              /\ a.id \in DOMAIN tracking') => InGrace(a.id)'
    BY <1>4, <1>5, <1>8 DEF LifeInv, InGrace
  <1>11. \A id \in JobIds : KillNear(id)' => KillNear(id)
    <2> SUFFICES ASSUME NEW id \in JobIds, KillNear(id)' PROVE KillNear(id)
      OBVIOUS
    <2>1. CASE InGrace(id)'
      BY <1>5, <2>1 DEF InGrace, KillNear
    <2>2. CASE \E a \in Waiting' :
                 a.id = id /\ (a.type = "KillDeadlineReached" \/ Kills(a))
      BY <1>1, <1>4, <1>5, <1>6, <1>8, <2>2 DEF KillNear, Kills
    <2> QED
      BY <2>1, <2>2 DEF KillNear
  <1>12. ASSUME NEW id \in JobIds, Stopped(id) PROVE Stopped(id)'
    <2>1. CASE id = HeadId /\ signal = "GracefulStop"
      BY <1>2, <1>3, <1>4, <2>1 DEF Stopped, Stops
    <2>2. CASE id # HeadId \/ signal # "GracefulStop"
      BY <1>1, <1>5, <1>6, <1>12, <2>2 DEF Stopped, Stops
    <2> QED
      BY <2>1, <2>2
  <1>13. \A id \in JobIds : KillNear(id)' /\ HasProcess(id)' => Stopped(id)'
    BY <1>5, <1>11, <1>12 DEF LifeInv, HasProcess
  <1>14. \A id \in DOMAIN jobs' \cap DOMAIN lifecycle' :
           lifecycle'[id] = "Killed" =>
             /\ jobs'[id].timed_out
             /\ ~\E a \in Waiting' : a.id = id /\ Stops(a)
    BY <1>4, <1>5, <1>8 DEF LifeInv, Stops
  <1>15. \A a \in Waiting' : a.type = "Control" => a.signal = "GracefulStop"
    BY <1>4, <1>8 DEF LifeInv
  <1> QED
    BY <1>5, <1>7, <1>9, <1>10, <1>13, <1>14, <1>15
    DEF LifeInv, LifeClash, Kills, Stops

\* The queue of an iteration and one action more.
LEMMA JoinOne ==
  ASSUME HandleInv, NEW a \in Action,
         queue' = Append(queue, a) \/ queue' = queue \o <<a>>
  PROVE  /\ Waiting \subseteq Action
         /\ Waiting' = Waiting \cup {a}
         /\ (\A b \in Waiting : <<b, a>> \notin LifeClash) /\ NoPair(queue, LifeClash)
              => NoPair(queue', LifeClash)
  <1> DEFINE new == <<a>>
  <1>1. /\ queue \in Seq(Action) /\ new \in Seq(Action) /\ Items(new) = {a}
        /\ queue' = queue \o new /\ NoPair(new, LifeClash)
    <2>1. queue \in Seq(Action) /\ new \in Seq(Action)
      BY DEF HandleInv, TypeOK
    <2>2. queue' = queue \o new
      BY <2>1, AppendIsConcat
    <2>3. Items(new) = {a}
      BY ItemsOf
    <2> QED
      BY <2>1, <2>2, <2>3, ShortPairs
  <1> HIDE DEF new
  <1>2. Items(queue \o new) = Items(queue) \cup {a}
    BY <1>1, JoinItems
  <1>3. (\A b \in Waiting : <<b, a>> \notin LifeClash) /\ NoPair(queue, LifeClash)
          => NoPair(queue \o new, LifeClash)
    BY <1>1, JoinPairs DEF Waiting
  <1> QED
    BY <1>1, <1>2, <1>3, ItemsType DEF Waiting

\* A request comes before the events of its iteration.
LEMMA RequestLife ==
  ASSUME HandleInv, StartInv, LifeInv, phase = "requests", phase' = phase,
         NEW a \in Action, queue' = Append(queue, a), a.type \in EarlyTypes,
         a.type = "Control" => a.signal = "GracefulStop",
         a.type = "Submit" => a.id = next_id,
         UNCHANGED <<jobs, lifecycle, tracking>>
  PROVE  LifeInv'
  <1>1. Waiting \subseteq Action /\ Waiting' = Waiting \cup {a}
    BY JoinOne
  <1>2. \A b \in Waiting : b.type \in EarlyTypes
    BY DEF LifeInv
  <1>3. NoPair(queue', LifeClash)
    <2>1. \A b \in Waiting : <<b, a>> \notin LifeClash
      BY <1>1, <1>2, LifeClashPair DEF EarlyTypes, Kills
    <2> QED
      BY <2>1, JoinOne DEF LifeInv
  <1>4. \A id \in JobIds : Late(id)' =>
          ~\E b \in Waiting' : b.id = id /\ b.type \in StartTypes
    <2> SUFFICES ASSUME NEW id \in JobIds, Late(id)'
                 PROVE  ~\E b \in Waiting' : b.id = id /\ b.type \in StartTypes
      OBVIOUS
    <2>1. Late(id) /\ InGrace(id)
      BY <1>1, <1>2 DEF Late, InGrace, EarlyTypes
    <2>2. ~(id < id)
      BY DEF JobIds
    <2>3. id # next_id
      BY <2>1, <2>2 DEF InGrace, StartInv
    <2> QED
      BY <1>1, <2>1, <2>3 DEF LifeInv, EarlyTypes, StartTypes
  <1>5. \A b \in Waiting' :
          (b.type \in {"TimeoutReached", "KillDeadlineReached"}
             /\ b.id \in DOMAIN tracking') => InGrace(b.id)'
    BY <1>1 DEF LifeInv, InGrace, EarlyTypes
  <1>6. \A id \in JobIds : KillNear(id)' /\ HasProcess(id)' => Stopped(id)'
    <2>1. \A id \in JobIds : KillNear(id)' => KillNear(id)
      BY <1>1 DEF KillNear, InGrace, EarlyTypes, Kills
    <2>2. \A id \in JobIds : Stopped(id) => Stopped(id)'
      BY <1>1 DEF Stopped, Stops
    <2> QED
      BY <2>1, <2>2 DEF LifeInv, HasProcess
  <1>7. \A id \in DOMAIN jobs' \cap DOMAIN lifecycle' :
          lifecycle'[id] = "Killed" =>
            /\ jobs'[id].timed_out
            /\ ~\E b \in Waiting' : b.id = id /\ Stops(b)
    BY <1>1 DEF LifeInv, Stops, EarlyTypes
  <1>8. /\ \A b \in Waiting' : b.type \in EarlyTypes
        /\ \A b \in Waiting' : b.type = "Control" => b.signal = "GracefulStop"
    BY <1>1 DEF LifeInv
  <1> QED
    BY <1>3, <1>4, <1>5, <1>6, <1>7, <1>8 DEF LifeInv, LifeClash, Kills, Stops

LEMMA RequestsLife ==
  ASSUME HandleInv, StartInv, LifeInv, Requests,
         ControlSignals \subseteq {"GracefulStop"}
  PROVE  LifeInv'
  <1>1. ASSUME NEW timeout \in Timeouts, RequestSubmit(timeout) PROVE LifeInv'
    <2>1. /\ Submission(timeout) \in Action
          /\ Submission(timeout).type = "Submit"
          /\ Submission(timeout).id = next_id
          /\ phase = "requests"
          /\ UNCHANGED <<phase, jobs, lifecycle, tracking>>
      BY <1>1, SubmitEffect
    <2>2. queue' = Append(queue, Submission(timeout))
      BY <1>1 DEF RequestSubmit, AddRequest, Submission
    <2>3. PICK a : a = Submission(timeout)
      OBVIOUS
    <2> QED
      BY <2>1, <2>2, <2>3, RequestLife DEF EarlyTypes
  <1>2. ASSUME NEW a \in Action, a.type \in EarlyTypes \ {"Submit"},
               a.type = "Control" => a.signal = "GracefulStop",
               RequestOther(a)
        PROVE  LifeInv'
    BY <1>2, RequestLife
    DEF RequestOther, AddRequest, stateVars, policyVars
  <1>3. \A id \in JobIds, signal \in ControlSignals :
          RequestControl(id, signal) => LifeInv'
    BY <1>2, Constructors, InputsAssumption
    DEF RequestControl, Signal, EarlyTypes
  <1>4. \A id \in JobIds : RequestQuery(id) => LifeInv'
    BY <1>2, Constructors DEF RequestQuery, SimpleTypes, Simple, EarlyTypes
  <1>5. \A id \in JobIds, stream \in Streams :
          RequestRemoveInterest(id, stream) => LifeInv'
    BY <1>2, Constructors DEF RequestRemoveInterest, Interest, EarlyTypes
  <1>6. \A id \in JobIds : RequestPoll(id) => LifeInv'
    BY <1>2, Constructors DEF RequestPoll, SimpleTypes, Simple, EarlyTypes
  <1> QED
    BY <1>1, <1>3, <1>4, <1>5, <1>6 DEF Requests

\* What an event adds to the batch.
LEMMA EventJoins ==
  ASSUME HandleInv, LifeInv, NEW a \in Action, AddEventActions(<<a>>)
  PROVE  /\ phase' = "events"
         /\ Waiting \subseteq Action
         /\ Waiting' = Waiting \cup {a}
         /\ \A b \in Waiting : b.type \in EventTypes
         /\ (\A b \in Waiting : <<b, a>> \notin LifeClash) =>
              NoPair(queue', LifeClash)
  <1>1. phase' = "events" /\ queue' = queue \o <<a>>
    BY DEF AddEventActions
  <1>2. \A b \in Waiting : b.type \in EventTypes
    BY DEF AddEventActions, Collecting, LifeInv, EventTypes
  <1> QED
    BY <1>1, <1>2, JoinOne DEF LifeInv

LEMMA FdReadyLife ==
  ASSUME HandleInv, LifeInv, NEW fd \in Fds, FdReady(fd) PROVE LifeInv'
  <1> DEFINE a == Simple("PerformIo", fd_map[fd])
  <1>1. a \in Action /\ a.type = "PerformIo"
    BY Constructors DEF FdReady, HandleInv, TypeOK, SimpleTypes, Simple
  <1>2. AddEventActions(<<a>>) /\ UNCHANGED <<jobs, lifecycle, tracking>>
    BY DEF FdReady, stateVars, policyVars
  <1> HIDE DEF a
  <1>3. /\ phase' = "events"
        /\ Waiting \subseteq Action
        /\ Waiting' = Waiting \cup {a}
        /\ \A b \in Waiting' : b.type \in EventTypes
    BY <1>1, <1>2, EventJoins DEF EventTypes
  <1>4. NoPair(queue', LifeClash)
    BY <1>1, <1>2, EventJoins, LifeClashTypes DEF StopTypes
  <1>5. \A id \in JobIds :
          /\ Late(id)' <=> Late(id)
          /\ KillNear(id)' <=> KillNear(id)
          /\ Stopped(id)' <=> Stopped(id)
    BY <1>1, <1>2, <1>3 DEF Late, KillNear, Stopped, InGrace, Kills, Stops
  <1>6. \A id \in JobIds : Late(id)' =>
          ~\E b \in Waiting' : b.id = id /\ b.type \in StartTypes
    BY <1>1, <1>3, <1>5 DEF LifeInv, StartTypes
  <1>7. \A b \in Waiting' :
          (b.type \in {"TimeoutReached", "KillDeadlineReached"}
             /\ b.id \in DOMAIN tracking') => InGrace(b.id)'
    BY <1>1, <1>2, <1>3 DEF LifeInv, InGrace
  <1>8. \A id \in JobIds : KillNear(id)' /\ HasProcess(id)' => Stopped(id)'
    BY <1>2, <1>5 DEF LifeInv, HasProcess
  <1>9. \A id \in DOMAIN jobs' \cap DOMAIN lifecycle' :
          lifecycle'[id] = "Killed" =>
            /\ jobs'[id].timed_out
            /\ ~\E b \in Waiting' : b.id = id /\ Stops(b)
    BY <1>1, <1>2, <1>3 DEF LifeInv, Stops
  <1>10. \A b \in Waiting' : b.type = "Control" => b.signal = "GracefulStop"
    BY <1>1, <1>3 DEF LifeInv
  <1> QED
    BY <1>3, <1>4, <1>6, <1>7, <1>8, <1>9, <1>10
    DEF LifeInv, LifeClash, Kills, Stops

\* A deadline passes: its job has been made, and no kill of it waits.
LEMMA DeadlineLife ==
  ASSUME HandleInv, StartInv, LifeInv, NEW id \in JobIds, TimeoutFires(id),
         tracking[id] = "WaitingForDeadline"
  PROVE  LifeInv'
  <1> DEFINE a == Simple("TimeoutReached", id)
  <1>1. a \in Action /\ a.type = "TimeoutReached" /\ a.id = id
    BY Constructors DEF SimpleTypes, Simple
  <1>2. /\ AddEventActions(<<a>>) /\ UNCHANGED <<jobs, lifecycle>>
        /\ id \in DOMAIN tracking
        /\ tracking' = [tracking EXCEPT ![id] = "WaitingForKillGrace"]
    BY DEF TimeoutFires, stateVars
  <1> HIDE DEF a
  <1>3. /\ phase' = "events"
        /\ Waiting \subseteq Action
        /\ Waiting' = Waiting \cup {a}
        /\ \A b \in Waiting : b.type \in EventTypes
    BY <1>1, <1>2, EventJoins
  <1>4. ~InGrace(id) /\ InGrace(id)'
    BY <1>2 DEF InGrace
  <1>5. \A k \in JobIds : k # id => (InGrace(k)' <=> InGrace(k))
    BY <1>2 DEF InGrace
  <1>6. \A b \in Waiting :
          b.type \in {"TimeoutReached", "KillDeadlineReached"} => b.id # id
    BY <1>2, <1>4 DEF LifeInv
  <1>7. NoPair(queue', LifeClash)
    <2>1. \A b \in Waiting : <<b, a>> \notin LifeClash
      BY <1>1, <1>3, <1>6, LifeClashPair DEF EventTypes, EarlyTypes, Kills
    <2> QED
      BY <1>1, <1>2, <2>1, EventJoins
  <1>8. \A k \in JobIds : Late(k)' =>
          ~\E b \in Waiting' : b.id = k /\ b.type \in StartTypes
    <2> SUFFICES ASSUME NEW k \in JobIds, Late(k)'
                 PROVE  ~\E b \in Waiting : b.id = k /\ b.type \in StartTypes
      BY <1>1, <1>3 DEF StartTypes
    <2>1. CASE k = id
      BY <1>2, <1>3, <2>1
      DEF StartInv, OnItsWay, EventTypes, EarlyTypes, StartTypes
    <2>2. CASE k # id
      <3>1. Late(k)
        BY <1>1, <1>3, <1>5, <2>2 DEF Late
      <3> QED
        BY <3>1 DEF LifeInv
    <2> QED
      BY <2>1, <2>2
  <1>9. \A b \in Waiting' :
          (b.type \in {"TimeoutReached", "KillDeadlineReached"}
             /\ b.id \in DOMAIN tracking') => InGrace(b.id)'
    <2>1. \A b \in Waiting : b.id \in JobIds
      BY <1>3, Carried
    <2> QED
      BY <1>1, <1>2, <1>3, <1>4, <1>5, <1>6, <2>1 DEF LifeInv
  <1>10. \A k \in JobIds : KillNear(k)' /\ HasProcess(k)' => Stopped(k)'
    <2> SUFFICES ASSUME NEW k \in JobIds, KillNear(k)', HasProcess(k)'
                 PROVE  Stopped(k)'
      OBVIOUS
    <2>1. CASE k = id
      BY <1>1, <1>3, <2>1 DEF Stopped
    <2>2. CASE k # id
      <3>1. KillNear(k) /\ HasProcess(k)
        BY <1>1, <1>2, <1>3, <1>5, <2>2 DEF KillNear, HasProcess, Kills
      <3>2. Stopped(k)
        BY <3>1 DEF LifeInv
      <3> QED
        BY <1>2, <1>3, <3>2 DEF Stopped, Stops
    <2> QED
      BY <2>1, <2>2
  <1>11. \A k \in DOMAIN jobs' \cap DOMAIN lifecycle' :
           lifecycle'[k] = "Killed" =>
             /\ jobs'[k].timed_out
             /\ ~\E b \in Waiting' : b.id = k /\ Stops(b)
    BY <1>1, <1>2, <1>3 DEF LifeInv, Stops
  <1>12. /\ \A b \in Waiting' : b.type = "Control" => b.signal = "GracefulStop"
         /\ \A b \in Waiting' : b.type \in EventTypes
    BY <1>1, <1>3 DEF LifeInv, EventTypes
  <1> QED
    BY <1>3, <1>7, <1>8, <1>9, <1>10, <1>11, <1>12
    DEF LifeInv, LifeClash, Kills, Stops

\* The grace period is over.
LEMMA GraceLife ==
  ASSUME HandleInv, LifeInv, NEW id \in JobIds, TimeoutFires(id),
         tracking[id] # "WaitingForDeadline"
  PROVE  LifeInv'
  <1> DEFINE a == Simple("KillDeadlineReached", id)
  <1>1. a \in Action /\ a.type = "KillDeadlineReached" /\ a.id = id
    BY Constructors DEF SimpleTypes, Simple
  <1>2. /\ AddEventActions(<<a>>) /\ UNCHANGED <<jobs, lifecycle, tracking>>
        /\ InGrace(id)
    BY DEF TimeoutFires, stateVars, InGrace
  <1> HIDE DEF a
  <1>3. /\ phase' = "events"
        /\ Waiting \subseteq Action
        /\ Waiting' = Waiting \cup {a}
        /\ \A b \in Waiting' : b.type \in EventTypes
    BY <1>1, <1>2, EventJoins DEF EventTypes
  <1>4. NoPair(queue', LifeClash)
    <2>1. \A b \in Waiting : <<b, a>> \notin LifeClash
      BY <1>1, <1>3, LifeClashPair DEF Kills, Stops
    <2> QED
      BY <1>1, <1>2, <2>1, EventJoins
  <1>5. \A k \in JobIds :
          /\ Late(k)' => Late(k)
          /\ KillNear(k)' => KillNear(k)
          /\ Stopped(k) => Stopped(k)'
          /\ InGrace(k)' <=> InGrace(k)
    BY <1>1, <1>2, <1>3 DEF Late, KillNear, Stopped, InGrace, Kills, Stops
  <1>6. \A k \in JobIds : Late(k)' =>
          ~\E b \in Waiting' : b.id = k /\ b.type \in StartTypes
    BY <1>1, <1>3, <1>5 DEF LifeInv, StartTypes
  <1>7. \A b \in Waiting' :
          (b.type \in {"TimeoutReached", "KillDeadlineReached"}
             /\ b.id \in DOMAIN tracking') => InGrace(b.id)'
    BY <1>1, <1>2, <1>3 DEF LifeInv, InGrace
  <1>8. \A k \in JobIds : KillNear(k)' /\ HasProcess(k)' => Stopped(k)'
    BY <1>2, <1>5 DEF LifeInv, HasProcess
  <1>9. \A k \in DOMAIN jobs' \cap DOMAIN lifecycle' :
          lifecycle'[k] = "Killed" =>
            /\ jobs'[k].timed_out
            /\ ~\E b \in Waiting' : b.id = k /\ Stops(b)
    BY <1>1, <1>2, <1>3 DEF LifeInv, Stops
  <1>10. \A b \in Waiting' : b.type = "Control" => b.signal = "GracefulStop"
    BY <1>1, <1>3 DEF LifeInv
  <1> QED
    BY <1>3, <1>4, <1>6, <1>7, <1>8, <1>9, <1>10
    DEF LifeInv, LifeClash, Kills, Stops

\* The queue stays: the drain begins or ends, or a child exits.
LEMMA StillLife ==
  ASSUME LifeInv, UNCHANGED <<queue, jobs, lifecycle, tracking>>,
         phase' = phase \/ phase' = "drain" \/ (phase' = "requests" /\ queue = <<>>)
  PROVE  LifeInv'
  <1>1. Waiting' = Waiting /\ (queue = <<>> => Waiting = {})
    BY ItemsOf DEF Waiting
  <1>2. NoPair(queue', LifeClash)
    BY DEF LifeInv
  <1>3. \A id \in JobIds :
          /\ Late(id)' <=> Late(id)
          /\ KillNear(id)' <=> KillNear(id)
          /\ Stopped(id)' <=> Stopped(id)
          /\ HasProcess(id)' <=> HasProcess(id)
    BY <1>1 DEF Late, KillNear, Stopped, InGrace, HasProcess
  <1>4. \A id : InGrace(id)' <=> InGrace(id)
    BY DEF InGrace
  <1>5. /\ phase' = "requests" => \A a \in Waiting' : a.type \in EarlyTypes
        /\ phase' = "events" => \A a \in Waiting' : a.type \in EventTypes
    BY <1>1 DEF LifeInv
  <1>6. \A id \in JobIds : KillNear(id)' /\ HasProcess(id)' => Stopped(id)'
    BY <1>3 DEF LifeInv
  <1>7. \A id \in JobIds : Late(id)' =>
          ~\E a \in Waiting' : a.id = id /\ a.type \in StartTypes
    BY <1>1, <1>3 DEF LifeInv
  <1>8. \A a \in Waiting' :
          (a.type \in {"TimeoutReached", "KillDeadlineReached"}
             /\ a.id \in DOMAIN tracking') => InGrace(a.id)'
    BY <1>1, <1>4 DEF LifeInv
  <1>9. \A id \in DOMAIN jobs' \cap DOMAIN lifecycle' :
          lifecycle'[id] = "Killed" =>
            /\ jobs'[id].timed_out
            /\ ~\E a \in Waiting' : a.id = id /\ Stops(a)
    BY <1>1 DEF LifeInv
  <1>10. \A a \in Waiting' : a.type = "Control" => a.signal = "GracefulStop"
    BY <1>1 DEF LifeInv
  <1> QED
    BY <1>2, <1>5, <1>6, <1>7, <1>8, <1>9, <1>10
    DEF LifeInv, LifeClash, Kills, Stops

LEMMA DrainLife ==
  ASSUME HandleInv, StartInv, LifeInv, Drain PROVE LifeInv'
  <1>1. CASE \/ HandleControl \/ HandleTimeoutReached
             \/ HandleKillDeadlineReached
    <2>1. tracking' = tracking
      BY <1>1
      DEF HandleControl, HandleTimeoutReached, HandleKillDeadlineReached,
          policyVars
    <2> QED
      BY <1>1, <2>1, AskingTurns, UnaskedLife, AskedLife
  <1> QED
    BY <1>1, IdleLife, AdmittedLife, SpawnLife, RefusalLife, SignalledLife,
       FinishedLife DEF Drain, HandleStartProcess

LEMMA NextLifeInv ==
  ASSUME HandleInv, StartInv, LifeInv, [CoreNext]_coreVars,
         ControlSignals \subseteq {"GracefulStop"}
  PROVE  LifeInv'
  <1>1. CASE Requests
    BY <1>1, RequestsLife
  <1>2. CASE Loop
    <2>1. CASE \E fd \in Fds : FdReady(fd)
      BY <2>1, FdReadyLife
    <2>2. CASE \E id \in JobIds : TimeoutFires(id)
      BY <2>2, DeadlineLife, GraceLife
    <2>3. CASE BeginDrain \/ EndIteration
      BY <2>3, StillLife DEF BeginDrain, EndIteration, stateVars, policyVars
    <2>4. CASE Drain
      BY <2>4, DrainLife
    <2> QED
      BY <1>2, <2>1, <2>2, <2>3, <2>4 DEF Loop
  <1>3. CASE Children
    BY <1>3, StillLife DEF Children, ChildExits, stateVars, policyVars
  <1>4. CASE UNCHANGED coreVars
    BY <1>4, StillLife DEF coreVars, stateVars, policyVars
  <1> QED
    BY <1>1, <1>2, <1>3, <1>4 DEF CoreNext

LEMMA InitLifeInv == CoreInit => LifeInv
  <1> SUFFICES ASSUME CoreInit PROVE LifeInv
    OBVIOUS
  <1>1. DOMAIN jobs = {} /\ DOMAIN tracking = {} /\ queue = <<>>
    BY DEF CoreInit, EmptyMap
  <1>2. Waiting = {} /\ NoPair(queue, LifeClash)
    BY <1>1, ItemsOf, ShortPairs DEF Waiting
  <1>3. \A id \in JobIds : ~Late(id) /\ ~KillNear(id)
    BY <1>1, <1>2 DEF Late, KillNear, InGrace
  <1> QED
    BY <1>1, <1>2, <1>3 DEF LifeInv

RanksRise == \A id \in JobIds : Rank(id) <= Rank(id)'

\* The lifecycle table changes at one entry, to a stage that is not earlier.
LEMMA OneStage ==
  ASSUME HandleInv, NEW id \in JobIds, NEW stage \in Lifecycles,
         lifecycle' = Insert(lifecycle, id, stage),
         \/ id \notin DOMAIN lifecycle
         \/ lifecycle[id] = stage
         \/ lifecycle[id] = "Admitted"
         \/ stage = "Terminating" /\ lifecycle[id] = "Running"
         \/ stage = "Killed" /\ lifecycle[id] # "Finished"
  PROVE  RanksRise
  <1> SUFFICES ASSUME NEW k \in JobIds PROVE Rank(k) <= Rank(k)'
    BY DEF RanksRise
  <1>1. k \in DOMAIN lifecycle => lifecycle[k] \in Lifecycles
    BY DEF HandleInv, TypeOK
  <1>2. CASE k = id
    BY <1>1, <1>2 DEF Rank, Insert, Lifecycles
  <1>3. CASE k # id
    BY <1>1, <1>3 DEF Rank, Insert, Lifecycles
  <1> QED
    BY <1>2, <1>3

LEMMA StepRanksRise ==
  ASSUME HandleInv, StartInv, LifeInv, [CoreNext]_coreVars
  PROVE  RanksRise
  <1>1. CASE lifecycle' = lifecycle
    <2> SUFFICES ASSUME NEW k \in JobIds PROVE Rank(k) <= Rank(k)'
      BY DEF RanksRise
    <2>1. k \in DOMAIN lifecycle => lifecycle[k] \in Lifecycles
      BY DEF HandleInv, TypeOK
    <2> QED
      BY <1>1, <2>1 DEF Rank, Lifecycles
  <1>2. CASE HandleAdmitted
    <2>1. HeadId \in JobIds /\ HeadId \notin DOMAIN lifecycle
      BY <1>2, AdmittedEffect DEF StartInv, StartTypes, OnItsWay, HeadId
    <2>2. lifecycle' = Insert(lifecycle, HeadId, "Admitted")
      BY <1>2 DEF HandleAdmitted
    <2>3. PICK id \in JobIds : id = HeadId
      BY <2>1
    <2> QED
      BY <2>1, <2>2, <2>3, OneStage DEF Lifecycles
  <1>3. CASE HandleStartProcess
    <2>1. HeadId \in JobIds /\ lifecycle[HeadId] = "Admitted"
      BY <1>3, StartTurn
    <2>2. PICK stage \in {"Running", "Finished"} :
            lifecycle' = Insert(lifecycle, HeadId, stage)
      BY <1>3, SpawnEffect, RefusalEffect DEF HandleStartProcess
    <2>3. PICK id \in JobIds : id = HeadId
      BY <2>1
    <2> QED
      BY <2>1, <2>2, <2>3, OneStage DEF Lifecycles
  <1>4. CASE HandleSignalProcess /\ HeadId \in DOMAIN jobs
    <2>1. /\ HeadId \in JobIds /\ HasChild(HeadId)
          /\ Head(queue) \in Waiting /\ Head(queue).type = "SignalProcess"
          /\ Head(queue).signal \in Signals /\ Head(queue).id = HeadId
      BY <1>4, SignalEffect DEF HeadId
    <2>2. HeadId \in DOMAIN lifecycle => lifecycle[HeadId] # "Finished"
      BY <2>1 DEF StartInv
    <2>3. HeadId \in DOMAIN lifecycle => lifecycle[HeadId] \in Lifecycles
      BY DEF HandleInv, TypeOK
    <2>4. PICK id \in JobIds : id = HeadId
      BY <2>1
    <2>5. CASE Head(queue).signal = "GracefulStop"
      <3>1. lifecycle' = Insert(lifecycle, id, "Terminating")
        BY <1>4, <2>4, <2>5, SignalEffect
      <3>2. HeadId \in DOMAIN lifecycle => lifecycle[HeadId] # "Killed"
        BY <1>4, <2>1, <2>5 DEF LifeInv, Stops
      <3> QED
        BY <2>2, <2>3, <2>4, <3>1, <3>2, OneStage DEF Lifecycles
    <2>6. CASE Head(queue).signal # "GracefulStop"
      <3>1. lifecycle' = Insert(lifecycle, id, "Killed")
        BY <1>4, <2>4, <2>6, SignalEffect
      <3> QED
        BY <2>2, <2>4, <3>1, OneStage DEF Lifecycles
    <2> QED
      BY <2>5, <2>6
  <1>5. CASE HandleSignalProcess /\ HeadId \notin DOMAIN jobs
    BY <1>1, <1>5, SignalEffect
  <1>6. CASE \/ QuietStep \/ SignalStep
             \/ \E id \in JobIds : RequestPoll(id)
    BY <1>1, <1>6, PollRequested DEF QuietStep, SignalStep, Kept
  <1>7. CASE \/ \E timeout \in Timeouts : RequestSubmit(timeout)
             \/ HandleSubmit /\ ~AtLimit
             \/ PollEnds \/ HandleFinished
             \/ \E h \in DOMAIN processes : ChildExits(h)
    BY <1>1, <1>7, SubmitEffect, AdmitEffect, PollEffect, FinishedEffect,
       ExitEffect
  <1> QED
    BY StepCases, <1>2, <1>3, <1>4, <1>5, <1>6, <1>7

\* Where clients can ask for a stop and never for a kill, which is all Router
\* lets them do, no step takes a job's lifecycle back: a stop that was queued
\* before a kill is handled before it, whatever deadlines pass and whichever
\* requests come in the same iteration (lifecycle.rs:20-48).
THEOREM LifecycleCorrect ==
  ASSUME ControlSignals \subseteq {"GracefulStop"}
  PROVE  CoreSpec => LifecycleForward
  <1>1. CoreInit => HandleInv /\ StartInv /\ LifeInv
    BY InitHandleInv, InitStartInv, InitLifeInv
  <1>2. /\ HandleInv /\ StartInv /\ LifeInv
        /\ [CoreNext]_coreVars
        => (HandleInv /\ StartInv /\ LifeInv)'
    BY NextHandleInv, NextStartInv, NextLifeInv
  <1>3. /\ HandleInv /\ StartInv /\ LifeInv
        /\ [CoreNext]_coreVars
        => [RanksRise]_coreVars
    BY StepRanksRise
  <1>4. CoreSpec => [][RanksRise]_coreVars
    BY <1>1, <1>2, <1>3, PTL DEF CoreSpec
  <1> QED
    BY <1>4 DEF LifecycleForward, RanksRise

=============================================================================
