------------------------ MODULE ExecutionCoreProofs ------------------------
(***************************************************************************)
(* What holds of the action loop for every value of the constants.         *)
(*                                                                         *)
(* Type correctness is not inductive by itself: an effect looks a handle   *)
(* up in the executor's tables, so it needs the handles of the jobs to be  *)
(* there (OwnHandles), and that needs a new handle to differ from every    *)
(* one in use (HandlesFresh).  The three together are.                     *)
(***************************************************************************)
EXTENDS ExecutionCore, SequenceTheorems, TLAPS

\* Handles in use were generated earlier.
HandlesFresh ==
  /\ \A h \in DOMAIN processes : h < next_handle
  /\ \A io \in DOMAIN drains : io < next_handle

HandleInv == TypeOK /\ HandlesFresh /\ OwnHandles

\* The parts of TypeOK.
QueueOK == queue \in Seq(Action)
LoopOK ==
  /\ phase \in {"requests", "events", "drain"}
  /\ next_id \in 1..(MaxSubmits + 1)
StateOK ==
  /\ DOMAIN jobs \subseteq JobIds
  /\ \A id \in DOMAIN jobs : jobs[id] \in JobState
  /\ DOMAIN lifecycle \subseteq JobIds
  /\ \A id \in DOMAIN lifecycle : lifecycle[id] \in Lifecycles
  /\ results \in Seq([id : JobIds, result : ExecResult])
PolicyOK ==
  /\ active_jobs \in 0..MaxJobs
  /\ DOMAIN tracking \subseteq JobIds
  /\ \A id \in DOMAIN tracking :
       tracking[id] \in {"WaitingForDeadline", "WaitingForKillGrace"}
HandlesOK ==
  /\ next_handle \in Nat \ {0}
  /\ DOMAIN processes \subseteq Nat
  /\ \A h \in DOMAIN processes : processes[h] \in Process
  /\ DOMAIN drains \subseteq Nat
  /\ \A io \in DOMAIN drains :
       /\ DOMAIN drains[io] = {"job", "slots"}
       /\ drains[io].job \in JobIds
       /\ DOMAIN Slots(io) \subseteq Captured
       /\ \A s \in DOMAIN Slots(io) : Slots(io)[s] \in Fds
WatchOK ==
  /\ DOMAIN fd_map \subseteq Fds
  /\ \A fd \in DOMAIN fd_map : fd_map[fd] \in JobIds
  /\ epoll \subseteq Fds

LEMMA TypeParts ==
  TypeOK <=> QueueOK /\ LoopOK /\ StateOK /\ PolicyOK /\ HandlesOK /\ WatchOK
  BY DEF TypeOK, QueueOK, LoopOK, StateOK, PolicyOK, HandlesOK, WatchOK

-----------------------------------------------------------------------------
(***************************************************************************)
(* Maps.                                                                   *)
(***************************************************************************)

\* Delete takes one key out and leaves the others alone (HashMap::remove).
LEMMA DeleteFacts ==
  ASSUME NEW f, NEW k
  PROVE  /\ DOMAIN Delete(f, k) = DOMAIN f \ {k}
         /\ \A x \in DOMAIN f \ {k} : Delete(f, k)[x] = f[x]
  BY DEF Delete, Restrict

-----------------------------------------------------------------------------
(***************************************************************************)
(* Actions and the queue.                                                  *)
(***************************************************************************)

SimpleTypes ==
  {"Rejected", "Started", "Controlled", "StartProcess", "PollProcess",
   "PerformIo", "Query", "TimeoutReached", "KillDeadlineReached"}

\* The actions the handlers build are actions.
LEMMA Constructors ==
  ASSUME NEW id \in JobIds
  PROVE  /\ \A type \in SimpleTypes : Simple(type, id) \in Action
         /\ \A type \in {"Control", "SignalProcess"}, signal \in Signals :
              Signal(type, id, signal) \in Action
         /\ \A type \in {"RegisterInterest", "RemoveInterest"},
               stream \in Streams : Interest(type, id, stream) \in Action
         /\ \A result \in ExecResult :
              [type |-> "Finished", id |-> id, result |-> result] \in Action
         /\ \A found \in BOOLEAN :
              [type |-> "QueryResult", id |-> id, found |-> found] \in Action
         /\ \A timeout \in BOOLEAN :
              [type |-> "Submit", id |-> id, timeout |-> timeout] \in Action
  <1>1. \A type \in SimpleTypes : Simple(type, id) \in Action
    BY DEF SimpleTypes, Simple, Action
  <1>2. \A type \in {"Control", "SignalProcess"}, signal \in Signals :
          Signal(type, id, signal) \in Action
    BY DEF Signal, Action
  <1>3. \A type \in {"RegisterInterest", "RemoveInterest"}, stream \in Streams :
          Interest(type, id, stream) \in Action
    BY DEF Interest, Action
  <1>4. \A result \in ExecResult :
          [type |-> "Finished", id |-> id, result |-> result] \in Action
    BY DEF Action
  <1>5. \A found \in BOOLEAN :
          [type |-> "QueryResult", id |-> id, found |-> found] \in Action
    BY DEF Action
  <1>6. \A timeout \in BOOLEAN :
          [type |-> "Submit", id |-> id, timeout |-> timeout] \in Action
    BY DEF Action
  <1> QED
    BY <1>1, <1>2, <1>3, <1>4, <1>5, <1>6

\* What an action carries, by its type.
LEMMA Carried ==
  ASSUME NEW a \in Action
  PROVE  /\ a.id \in JobIds
         /\ a.type = "Submit" =>
              /\ a.timeout \in BOOLEAN
              /\ [a EXCEPT !.type = "Admitted"] \in Action
         /\ a.type \in {"Control", "SignalProcess"} => a.signal \in Signals
         /\ a.type \in {"RegisterInterest", "RemoveInterest"} =>
              a.stream \in Streams
         /\ a.type = "Finished" => a.result \in ExecResult
  BY DEF Action

\* The queue after a turn of the inner loop.
LEMMA EmitType ==
  ASSUME QueueOK, queue # <<>>, NEW actions \in Seq(Action), Emit(actions)
  PROVE  QueueOK'
  BY HeadTailProperties, ConcatProperties DEF QueueOK, Emit

\* The action at the head of the queue.
LEMMA HeadType ==
  ASSUME QueueOK, NEW types, Popped(types)
  PROVE  /\ queue # <<>>
         /\ Head(queue) \in Action
         /\ Head(queue).type \in types
         /\ HeadId \in JobIds
         /\ <<>> \in Seq(Action)
  <1>1. queue # <<>> /\ Head(queue).type \in types
    BY DEF Popped
  <1>2. Head(queue) \in Action
    BY <1>1, HeadTailProperties DEF QueueOK
  <1> QED
    BY <1>1, <1>2, Carried, EmptySeq DEF HeadId

-----------------------------------------------------------------------------
(***************************************************************************)
(* The initial states.                                                     *)
(***************************************************************************)

LEMMA InitHandleInv == CoreInit => HandleInv
  <1> SUFFICES ASSUME CoreInit PROVE HandleInv
    OBVIOUS
  <1>1. /\ DOMAIN jobs = {} /\ DOMAIN lifecycle = {} /\ DOMAIN tracking = {}
        /\ DOMAIN processes = {} /\ DOMAIN drains = {} /\ DOMAIN fd_map = {}
    BY DEF CoreInit, EmptyMap
  <1>2. TypeOK
    BY <1>1, MaxJobsAssumption, MaxSubmitsAssumption DEF CoreInit, TypeOK
  <1> QED
    BY <1>1, <1>2 DEF HandleInv, HandlesFresh, OwnHandles

-----------------------------------------------------------------------------
(***************************************************************************)
(* Steps of the outer loop and of the children.                            *)
(***************************************************************************)

\* A step that leaves jobs and the handle tables alone keeps OwnHandles and
\* HandlesFresh.
LEMMA HandlesUntouched ==
  ASSUME HandleInv, UNCHANGED <<jobs, processes, drains, next_handle>>
  PROVE  HandlesFresh' /\ OwnHandles'
  BY DEF HandleInv, HandlesFresh, OwnHandles, HasProcess, HasIo

LEMMA AddRequestType ==
  ASSUME QueueOK, NEW action \in Action, AddRequest(action)
  PROVE  QueueOK' /\ phase' = phase
  BY DEF QueueOK, AddRequest

LEMMA RequestsStep == ASSUME HandleInv, Requests PROVE HandleInv'
  <1> USE DEF HandleInv
  <1>1. \A timeout \in Timeouts : RequestSubmit(timeout) => HandleInv'
    <2> SUFFICES ASSUME NEW timeout \in Timeouts, RequestSubmit(timeout)
                 PROVE  HandleInv'
      OBVIOUS
    <2>1. next_id \in JobIds /\ next_id' \in 1..(MaxSubmits + 1)
      BY MaxSubmitsAssumption DEF RequestSubmit, TypeOK, JobIds
    <2>2. QueueOK' /\ phase' = phase
      BY <2>1, TypeParts, Constructors, AddRequestType, InputsAssumption
      DEF RequestSubmit
    <2>3. TypeOK'
      BY <2>1, <2>2 DEF RequestSubmit, TypeOK, QueueOK, stateVars, policyVars,
                        executorVars, Slots
    <2> QED
      BY <2>3, HandlesUntouched DEF RequestSubmit, stateVars, executorVars
  <1>2. ASSUME NEW action \in Action, RequestOther(action) PROVE HandleInv'
    <2>1. QueueOK' /\ phase' = phase
      BY <1>2, TypeParts, AddRequestType DEF RequestOther
    <2>2. TypeOK'
      BY <1>2, <2>1 DEF RequestOther, TypeOK, QueueOK, stateVars, policyVars,
                        executorVars, Slots
    <2> QED
      BY <1>2, <2>2, HandlesUntouched DEF RequestOther, stateVars, executorVars
  <1>3. \A id \in JobIds, signal \in ControlSignals :
          RequestControl(id, signal) => HandleInv'
    BY <1>2, Constructors, InputsAssumption DEF RequestControl
  <1>4. \A id \in JobIds : RequestQuery(id) => HandleInv'
    BY <1>2, Constructors DEF RequestQuery, SimpleTypes
  <1>5. \A id \in JobIds, stream \in Streams :
          RequestRemoveInterest(id, stream) => HandleInv'
    BY <1>2, Constructors DEF RequestRemoveInterest
  <1>6. \A id \in JobIds : RequestPoll(id) => HandleInv'
    BY <1>2, Constructors DEF RequestPoll, SimpleTypes
  <1> QED
    BY <1>1, <1>3, <1>4, <1>5, <1>6 DEF Requests

LEMMA AddEventType ==
  ASSUME QueueOK, NEW actions \in Seq(Action), AddEventActions(actions)
  PROVE  QueueOK' /\ phase' = "events"
  BY ConcatProperties DEF QueueOK, AddEventActions

LEMMA FdReadyStep ==
  ASSUME HandleInv, NEW fd \in Fds, FdReady(fd) PROVE HandleInv'
  <1>1. <<Simple("PerformIo", fd_map[fd])>> \in Seq(Action)
    BY Constructors DEF FdReady, HandleInv, TypeOK, SimpleTypes
  <1>2. QueueOK' /\ phase' = "events"
    BY <1>1, TypeParts, AddEventType DEF FdReady, HandleInv
  <1>3. TypeOK'
    BY <1>2 DEF FdReady, HandleInv, TypeOK, QueueOK, stateVars, policyVars,
                executorVars, Slots
  <1> QED
    BY <1>3, HandlesUntouched DEF HandleInv, FdReady, stateVars, executorVars

LEMMA TimeoutFiresStep ==
  ASSUME HandleInv, NEW id \in JobIds, TimeoutFires(id) PROVE HandleInv'
  <1>1. /\ <<Simple("TimeoutReached", id)>> \in Seq(Action)
        /\ <<Simple("KillDeadlineReached", id)>> \in Seq(Action)
    BY Constructors DEF SimpleTypes
  <1>2. QueueOK' /\ phase' = "events"
    BY <1>1, TypeParts, AddEventType DEF TimeoutFires, HandleInv
  <1>3. PolicyOK'
    BY DEF TimeoutFires, HandleInv, TypeOK, PolicyOK
  <1>4. TypeOK'
    BY <1>2, <1>3 DEF TimeoutFires, HandleInv, TypeOK, QueueOK, PolicyOK,
                      stateVars, executorVars, Slots
  <1> QED
    BY <1>4, HandlesUntouched
    DEF HandleInv, TimeoutFires, stateVars, executorVars

LEMMA PhaseStep ==
  ASSUME HandleInv, BeginDrain \/ EndIteration PROVE HandleInv'
  <1>1. TypeOK'
    BY DEF BeginDrain, EndIteration, HandleInv, TypeOK, stateVars, policyVars,
           executorVars, Slots
  <1> QED
    BY <1>1, HandlesUntouched
    DEF HandleInv, BeginDrain, EndIteration, stateVars, executorVars

LEMMA ChildExitsStep ==
  ASSUME HandleInv, NEW h, ChildExits(h) PROVE HandleInv'
  <1>1. PICK status \in EndStatuses :
          processes' = [processes EXCEPT ![h].state = "zombie",
                                         ![h].status = status]
    BY DEF ChildExits
  <1>2. h \in DOMAIN processes /\ processes[h] \in Process
    BY DEF ChildExits, HandleInv, TypeOK
  <1>3. status \in Statuses
    BY <1>1 DEF Statuses
  <1>4. DOMAIN processes' = DOMAIN processes
    BY <1>1
  <1>5. \A g \in DOMAIN processes :
          processes'[g] \in Process /\ processes'[g].job = processes[g].job
    BY <1>1, <1>2, <1>3 DEF HandleInv, TypeOK, Process
  <1>6. TypeOK'
    BY <1>4, <1>5 DEF ChildExits, HandleInv, TypeOK, stateVars, policyVars, Slots
  <1>7. HandlesFresh' /\ OwnHandles'
    BY <1>4, <1>5 DEF ChildExits, HandleInv, HandlesFresh, OwnHandles,
                      HasProcess, HasIo, stateVars
  <1> QED
    BY <1>6, <1>7 DEF HandleInv

-----------------------------------------------------------------------------
(***************************************************************************)
(* Steps of the inner loop, in the order of Drain.                         *)
(***************************************************************************)

\* Handlers that emit and leave jobs and the executor alone.
LEMMA EmitOnly ==
  ASSUME HandleInv, queue # <<>>, NEW actions \in Seq(Action), Emit(actions),
         PolicyOK',
         UNCHANGED <<loopVars, stateVars, executorVars>>
  PROVE  HandleInv'
  <1>1. QueueOK'
    BY TypeParts, EmitType DEF HandleInv
  <1>2. TypeOK'
    BY <1>1 DEF HandleInv, TypeOK, QueueOK, PolicyOK, loopVars, stateVars,
                executorVars, Slots
  <1> QED
    BY <1>2, HandlesUntouched DEF HandleInv, stateVars, executorVars

LEMMA HandleSubmitStep == ASSUME HandleInv, HandleSubmit PROVE HandleInv'
  <1>1. /\ queue # <<>> /\ HeadId \in JobIds
        /\ [Head(queue) EXCEPT !.type = "Admitted"] \in Action
    BY HeadType, TypeParts, Carried DEF HandleSubmit, HandleInv
  <1>2. /\ <<Simple("Rejected", HeadId)>> \in Seq(Action)
        /\ <<[Head(queue) EXCEPT !.type = "Admitted"]>> \in Seq(Action)
    BY <1>1, Constructors DEF SimpleTypes
  <1>3. PolicyOK'
    BY MaxJobsAssumption DEF HandleSubmit, AtLimit, HandleInv, TypeOK, PolicyOK
  <1> QED
    BY <1>1, <1>2, <1>3, EmitOnly DEF HandleSubmit, Popped

LEMMA HandleAdmittedStep == ASSUME HandleInv, HandleAdmitted PROVE HandleInv'
  <1>1. queue # <<>> /\ HeadId \in JobIds
    BY HeadType, TypeParts DEF HandleAdmitted, HandleInv
  <1>2. QueueOK'
    <2>1. <<Simple("StartProcess", HeadId)>> \in Seq(Action)
      BY <1>1, Constructors DEF SimpleTypes
    <2> QED
      BY <1>1, <2>1, EmitType, TypeParts DEF HandleAdmitted, HandleInv
  <1>3. /\ DOMAIN jobs' = DOMAIN jobs \cup {HeadId}
        /\ jobs'[HeadId] = [process |-> NoHandle, io |-> NoHandle,
                            timed_out |-> FALSE]
        /\ \A id \in DOMAIN jobs : id # HeadId => jobs'[id] = jobs[id]
    BY DEF HandleAdmitted, Insert
  <1>4. /\ DOMAIN lifecycle' = DOMAIN lifecycle \cup {HeadId}
        /\ lifecycle'[HeadId] = "Admitted"
        /\ \A id \in DOMAIN lifecycle :
             id # HeadId => lifecycle'[id] = lifecycle[id]
    BY DEF HandleAdmitted, Insert
  <1>5. StateOK'
    <2>1. results' = results
      BY DEF HandleAdmitted
    <2>2. jobs'[HeadId] \in JobState
      BY <1>3 DEF JobState, NoHandle
    <2>3. \A id \in DOMAIN jobs' : jobs'[id] \in JobState
      BY <1>3, <2>2 DEF HandleInv, TypeOK
    <2>4. \A id \in DOMAIN lifecycle' : lifecycle'[id] \in Lifecycles
      BY <1>4 DEF HandleInv, TypeOK, Lifecycles
    <2> QED
      BY <1>1, <1>3, <1>4, <2>1, <2>3, <2>4 DEF HandleInv, TypeOK, StateOK
  <1>6. PolicyOK'
    BY <1>1 DEF HandleAdmitted, HandleInv, TypeOK, PolicyOK, Insert
  <1>7. TypeOK'
    BY <1>2, <1>5, <1>6
    DEF HandleAdmitted, HandleInv, TypeOK, QueueOK, StateOK, PolicyOK, Popped,
        loopVars, executorVars, Slots
  <1>8. HandlesFresh' /\ OwnHandles'
    BY <1>3 DEF HandleAdmitted, HandleInv, HandlesFresh, OwnHandles,
                HasProcess, HasIo, NoHandle, executorVars
  <1> QED
    BY <1>7, <1>8 DEF HandleInv

\* The streams a start asks to be watched.
LEMMA StartedType ==
  ASSUME NEW id \in JobIds PROVE StartedActions(id) \in Seq(Action)
  <1>1. /\ <<Simple("Started", id)>> \in Seq(Action)
        /\ <<>> \in Seq(Action)
    BY Constructors DEF SimpleTypes
  <1>2. <<Interest("RegisterInterest", id, "Stdout"),
          Interest("RegisterInterest", id, "Stderr"),
          Interest("RegisterInterest", id, "Stdin")>> \in Seq(Action)
    BY Constructors DEF Streams
  <1> QED
    BY <1>1, <1>2, ConcatProperties DEF StartedActions

\* A start adds one child and one drain under handles not in use and stores
\* them in the job (runtime.rs:133-141, lifecycle.rs:44-50).
LEMMA StartAdds ==
  ASSUME HandleInv, NEW id \in JobIds, NEW child \in Process, NEW drain,
         child.job = id,
         drain.job = id,
         /\ DOMAIN drain = {"job", "slots"}
         /\ DOMAIN drain.slots \subseteq Captured
         /\ \A s \in DOMAIN drain.slots : drain.slots[s] \in Fds,
         processes' = Insert(processes, next_handle, child),
         drains' = Insert(drains, next_handle + 1, drain),
         next_handle' = next_handle + 2,
         NoteStarted(id, next_handle, next_handle + 1)
  PROVE  /\ HandlesOK'
         /\ DOMAIN jobs' \subseteq JobIds
         /\ \A j \in DOMAIN jobs' : jobs'[j] \in JobState
         /\ HandlesFresh'
         /\ OwnHandles'
  <1>1. /\ next_handle \in Nat \ {0}
        /\ next_handle \notin DOMAIN processes
        /\ next_handle + 1 \notin DOMAIN drains
        /\ next_handle # NoHandle /\ next_handle + 1 # NoHandle
    BY DEF HandleInv, TypeOK, HandlesFresh, NoHandle
  <1>2. /\ DOMAIN processes' = DOMAIN processes \cup {next_handle}
        /\ processes'[next_handle] = child
        /\ \A h \in DOMAIN processes : processes'[h] = processes[h]
    BY <1>1 DEF Insert
  <1>3. /\ DOMAIN drains' = DOMAIN drains \cup {next_handle + 1}
        /\ drains'[next_handle + 1] = drain
        /\ \A i \in DOMAIN drains : drains'[i] = drains[i]
    BY <1>1 DEF Insert
  <1>4. HandlesOK'
    BY <1>1, <1>2, <1>3 DEF HandleInv, TypeOK, HandlesOK, Slots
  <1>5. HandlesFresh'
    BY <1>1, <1>2, <1>3 DEF HandleInv, HandlesFresh, TypeOK
  <1>6. DOMAIN jobs' = DOMAIN jobs
    BY DEF NoteStarted
  <1>7. \A j \in DOMAIN jobs :
          /\ j # id => jobs'[j] = jobs[j]
          /\ j = id => /\ jobs'[j] \in JobState
                       /\ jobs'[j].process = next_handle
                       /\ jobs'[j].io = next_handle + 1
    <2> SUFFICES ASSUME NEW j \in DOMAIN jobs
                 PROVE  /\ j # id => jobs'[j] = jobs[j]
                        /\ j = id => /\ jobs'[j] \in JobState
                                     /\ jobs'[j].process = next_handle
                                     /\ jobs'[j].io = next_handle + 1
      OBVIOUS
    <2>1. jobs[j] \in JobState
      BY DEF HandleInv, TypeOK
    <2>2. id \in DOMAIN jobs =>
            jobs' = [jobs EXCEPT ![id].process = next_handle,
                                 ![id].io = next_handle + 1]
      BY DEF NoteStarted
    <2>3. j = id => jobs'[j] = [jobs[j] EXCEPT !.process = next_handle,
                                              !.io = next_handle + 1]
      BY <2>2, Zenon
    <2> QED
      BY <1>1, <2>1, <2>2, <2>3 DEF JobState, NoteStarted
  <1>8. /\ DOMAIN jobs' \subseteq JobIds
        /\ \A j \in DOMAIN jobs' : jobs'[j] \in JobState
    BY <1>6, <1>7 DEF HandleInv, TypeOK
  <1>9. OwnHandles'
    BY <1>2, <1>3, <1>6, <1>7
    DEF HandleInv, OwnHandles, HasProcess, HasIo
  <1> QED
    BY <1>4, <1>5, <1>8, <1>9

LEMMA SpawnSucceedsStep ==
  ASSUME HandleInv, HandleStartProcess, SpawnSucceeds(HeadId)
  PROVE  HandleInv'
  <1>1. queue # <<>> /\ HeadId \in JobIds
    BY HeadType, TypeParts DEF HandleStartProcess, HandleInv
  <1> DEFINE child == [job |-> HeadId, state |-> "running", status |-> 0,
                       sig |-> "none"]
             drain(out, err) == [job |-> HeadId, slots |->
                                   [s \in Captured |->
                                      IF s = "Stdout" THEN out ELSE err]]
  <1>2. /\ processes' = Insert(processes, next_handle, child)
        /\ next_handle' = next_handle + 2
        /\ NoteStarted(HeadId, next_handle, next_handle + 1)
        /\ Emit(StartedActions(HeadId))
        /\ \E out, err \in Fds :
             drains' = Insert(drains, next_handle + 1, drain(out, err))
    BY Zenon DEF SpawnSucceeds
  <1>3. PICK out \in Fds, err \in Fds :
          drains' = Insert(drains, next_handle + 1, drain(out, err))
    BY <1>2
  <1>4. child \in Process /\ child.job = HeadId
    BY <1>1 DEF Process, Statuses
  <1>5. /\ drain(out, err).job = HeadId
        /\ DOMAIN drain(out, err) = {"job", "slots"}
        /\ DOMAIN drain(out, err).slots \subseteq Captured
        /\ \A s \in DOMAIN drain(out, err).slots :
             drain(out, err).slots[s] \in Fds
    OBVIOUS
  <1> HIDE DEF child, drain
  <1>6. /\ HandlesOK'
        /\ DOMAIN jobs' \subseteq JobIds
        /\ \A j \in DOMAIN jobs' : jobs'[j] \in JobState
        /\ HandlesFresh'
        /\ OwnHandles'
    BY <1>1, <1>2, <1>3, <1>4, <1>5, StartAdds
  <1>7. QueueOK'
    BY <1>1, <1>2, StartedType, EmitType, TypeParts DEF HandleInv
  <1>8. /\ DOMAIN lifecycle' \subseteq JobIds
        /\ \A j \in DOMAIN lifecycle' : lifecycle'[j] \in Lifecycles
    <2>1. lifecycle' = Insert(lifecycle, HeadId, "Running")
            \/ lifecycle' = lifecycle
      BY <1>2 DEF NoteStarted
    <2> QED
      BY <1>1, <2>1 DEF HandleInv, TypeOK, Lifecycles, Insert
  <1>9. TypeOK'
    BY <1>6, <1>7, <1>8
    DEF HandleStartProcess, HandleInv, TypeOK, QueueOK, HandlesOK, Popped,
        loopVars, policyVars, Slots
  <1> QED
    BY <1>6, <1>9 DEF HandleInv

LEMMA SpawnFailsStep ==
  ASSUME HandleInv, HandleStartProcess, SpawnFails(HeadId)
  PROVE  HandleInv'
  <1>1. queue # <<>> /\ HeadId \in JobIds
    BY HeadType, TypeParts DEF HandleStartProcess, HandleInv
  <1>2. <<Simple("Rejected", HeadId)>> \in Seq(Action)
    BY <1>1, Constructors DEF SimpleTypes
  <1>3. QueueOK'
    BY <1>1, <1>2, EmitType, TypeParts DEF SpawnFails, HandleInv
  <1>4. /\ DOMAIN lifecycle' \subseteq JobIds
        /\ \A j \in DOMAIN lifecycle' : lifecycle'[j] \in Lifecycles
    BY <1>1 DEF SpawnFails, HandleInv, TypeOK, Lifecycles, Insert
  <1>5. TypeOK'
    BY <1>3, <1>4
    DEF SpawnFails, HandleStartProcess, HandleInv, TypeOK, QueueOK, Popped,
        loopVars, policyVars, Slots
  <1> QED
    BY <1>5, HandlesUntouched DEF SpawnFails, HandleInv

LEMMA HandleStartProcessStep ==
  ASSUME HandleInv, HandleStartProcess PROVE HandleInv'
  BY SpawnSucceedsStep, SpawnFailsStep DEF HandleStartProcess

\* Handlers that touch the reactor and the streams of the drains only.
LEMMA WatchOnly ==
  ASSUME HandleInv, queue # <<>>, Emit(<<>>), WatchOK', HandlesOK',
         DOMAIN drains' = DOMAIN drains,
         \A io \in DOMAIN drains : drains'[io].job = drains[io].job,
         UNCHANGED <<loopVars, stateVars, policyVars, processes, next_handle>>
  PROVE  HandleInv'
  <1>1. QueueOK'
    BY TypeParts, EmitType, EmptySeq DEF HandleInv
  <1>2. TypeOK'
    BY <1>1 DEF HandleInv, TypeOK, QueueOK, WatchOK, HandlesOK, loopVars,
                stateVars, policyVars
  <1>3. HandlesFresh' /\ OwnHandles'
    BY DEF HandleInv, HandlesFresh, OwnHandles, HasProcess, HasIo, stateVars
  <1> QED
    BY <1>2, <1>3 DEF HandleInv

\* The drain of a job that has one.
LEMMA DrainOfJob ==
  ASSUME HandleInv, NEW id, HasIo(id)
  PROVE  /\ jobs[id].io \in DOMAIN drains
         /\ drains[jobs[id].io].job = id
         /\ DOMAIN Slots(jobs[id].io) \subseteq Captured
         /\ \A s \in DOMAIN Slots(jobs[id].io) : Slots(jobs[id].io)[s] \in Fds
  BY DEF HandleInv, OwnHandles, HasIo, TypeOK

LEMMA HandleRegisterInterestStep ==
  ASSUME HandleInv, HandleRegisterInterest PROVE HandleInv'
  <1>1. queue # <<>> /\ HeadId \in JobIds
    BY HeadType, TypeParts DEF HandleRegisterInterest, HandleInv
  <1>2. WatchOK'
    BY <1>1, DrainOfJob
    DEF HandleRegisterInterest, WatchStream, Insert, HandleInv, TypeOK, WatchOK
  <1>3. HandlesOK'
    BY DEF HandleRegisterInterest, HandleInv, TypeOK, HandlesOK, Slots
  <1> QED
    BY <1>1, <1>2, <1>3, WatchOnly DEF HandleRegisterInterest, Popped

LEMMA HandleRemoveInterestStep ==
  ASSUME HandleInv, HandleRemoveInterest PROVE HandleInv'
  <1>1. queue # <<>>
    BY DEF HandleRemoveInterest, Popped
  <1>2. WatchOK'
    BY DEF HandleRemoveInterest, UnwatchStream, Delete, Restrict, HandleInv,
           TypeOK, WatchOK
  <1>3. HandlesOK'
    BY DEF HandleRemoveInterest, HandleInv, TypeOK, HandlesOK, Slots
  <1> QED
    BY <1>1, <1>2, <1>3, WatchOnly DEF HandleRemoveInterest, Popped

LEMMA HandlePerformIoStep ==
  ASSUME HandleInv, HandlePerformIo PROVE HandleInv'
  <1>1. queue # <<>>
    BY DEF HandlePerformIo, Popped
  <1>2. WatchOK'
    BY DEF HandlePerformIo, PerformIo, HandleInv, TypeOK, WatchOK
  <1>3. CASE HasIo(HeadId)
    <2> DEFINE d == jobs[HeadId].io
    <2>1. PICK ended \in SUBSET DOMAIN Slots(d) :
            drains' = [drains EXCEPT ![d].slots =
                         Restrict(@, DOMAIN @ \ ended)]
      BY <1>3 DEF HandlePerformIo, PerformIo
    <2>2. d \in DOMAIN drains /\ DOMAIN drains[d] = {"job", "slots"}
      BY <1>3, DrainOfJob DEF HandleInv, TypeOK
    <2>3. DOMAIN drains' = DOMAIN drains
      BY <2>1
    <2>4. \A io \in DOMAIN drains :
            /\ io # d => drains'[io] = drains[io]
            /\ DOMAIN drains'[io] = {"job", "slots"}
            /\ drains'[io].job = drains[io].job
      BY <2>1, <2>2 DEF HandleInv, TypeOK
    <2>5. drains'[d].slots = Restrict(drains[d].slots,
                                      DOMAIN drains[d].slots \ ended)
      BY <2>1, <2>2
    <2>6. \A io \in DOMAIN drains :
            /\ DOMAIN drains'[io].slots \subseteq DOMAIN drains[io].slots
            /\ \A s \in DOMAIN drains'[io].slots :
                 drains'[io].slots[s] = drains[io].slots[s]
      BY <2>4, <2>5 DEF Restrict
    <2>7. HandlesOK'
      BY <2>3, <2>4, <2>6
      DEF HandlePerformIo, HandleInv, TypeOK, HandlesOK, Slots
    <2> QED
      BY <1>1, <1>2, <2>3, <2>4, <2>7, WatchOnly DEF HandlePerformIo, Popped
  <1>4. CASE ~HasIo(HeadId)
    <2>1. HandlesOK'
      BY <1>4 DEF HandlePerformIo, HandleInv, TypeOK, HandlesOK, Slots
    <2> QED
      BY <1>1, <1>2, <1>4, <2>1, WatchOnly DEF HandlePerformIo, Popped
  <1> QED
    BY <1>3, <1>4

\* Handlers that only translate a request into a signal.
LEMMA HandleControlStep == ASSUME HandleInv, HandleControl PROVE HandleInv'
  <1>1. /\ queue # <<>> /\ HeadId \in JobIds
        /\ Head(queue).signal \in Signals
    BY HeadType, TypeParts, Carried DEF HandleControl, HandleInv
  <1>2. /\ ControlActions(Head(queue)) \in Seq(Action)
        /\ <<>> \in Seq(Action)
    BY <1>1, Constructors DEF ControlActions, HeadId, SimpleTypes
  <1>3. PolicyOK'
    BY DEF HandleControl, policyVars, HandleInv, TypeOK, PolicyOK
  <1> QED
    BY <1>1, <1>2, <1>3, EmitOnly DEF HandleControl, Popped

LEMMA DeadlineStep ==
  ASSUME HandleInv, HandleTimeoutReached \/ HandleKillDeadlineReached
  PROVE  HandleInv'
  <1>1. queue # <<>> /\ HeadId \in JobIds
    BY HeadType, TypeParts
    DEF HandleTimeoutReached, HandleKillDeadlineReached, HandleInv
  <1>2. /\ <<Signal("SignalProcess", HeadId, "GracefulStop")>> \in Seq(Action)
        /\ <<Signal("SignalProcess", HeadId, "ForceKill")>> \in Seq(Action)
        /\ <<>> \in Seq(Action)
    BY <1>1, Constructors DEF Signals
  <1>3. PolicyOK'
    BY DEF HandleTimeoutReached, HandleKillDeadlineReached, policyVars,
           HandleInv, TypeOK, PolicyOK
  <1> QED
    BY <1>1, <1>2, <1>3, EmitOnly
    DEF HandleTimeoutReached, HandleKillDeadlineReached, Popped

\* The child of a job that has one.
LEMMA ChildOfJob ==
  ASSUME HandleInv, NEW id, HasProcess(id)
  PROVE  /\ jobs[id].process \in DOMAIN processes
         /\ processes[jobs[id].process].job = id
         /\ processes[jobs[id].process] \in Process
  BY DEF HandleInv, OwnHandles, HasProcess, TypeOK

LEMMA ChildType ==
  ASSUME HandleInv, NEW h \in DOMAIN processes
  PROVE  processes[h] \in Process
  BY DEF HandleInv, TypeOK

LEMMA HandleSignalProcessStep ==
  ASSUME HandleInv, HandleSignalProcess PROVE HandleInv'
  <1>1. /\ queue # <<>> /\ HeadId \in JobIds
        /\ Head(queue).signal \in Signals
    BY HeadType, TypeParts, Carried DEF HandleSignalProcess, HandleInv
  <1>2. QueueOK'
    BY <1>1, EmitType, EmptySeq, TypeParts DEF HandleSignalProcess, HandleInv
  <1>3. /\ DOMAIN processes' = DOMAIN processes
        /\ \A h \in DOMAIN processes :
             processes'[h] \in Process /\ processes'[h].job = processes[h].job
    <2>1. processes' = processes
            \/ \E p \in DOMAIN processes, sig \in {"term", "kill"} :
                 processes' = [processes EXCEPT ![p] =
                                 [processes[p] EXCEPT !.sig = sig]]
      BY ChildOfJob DEF HandleSignalProcess, KillProcess
    <2>2. \A p \in DOMAIN processes, sig \in {"term", "kill"} :
            /\ [processes[p] EXCEPT !.sig = sig] \in Process
            /\ [processes[p] EXCEPT !.sig = sig].job = processes[p].job
      BY ChildType DEF Process
    <2> QED
      BY <2>1, <2>2, ChildType
  <1>4. jobs' = jobs
          \/ /\ HeadId \in DOMAIN jobs
             /\ jobs' = [jobs EXCEPT ![HeadId].timed_out = TRUE]
    BY DEF HandleSignalProcess, NoteSignal
  <1>5. DOMAIN jobs' = DOMAIN jobs
    BY <1>4
  <1>6. \A j \in DOMAIN jobs :
          /\ jobs'[j] \in JobState
          /\ jobs'[j].process = jobs[j].process
          /\ jobs'[j].io = jobs[j].io
    <2>1. \A j \in DOMAIN jobs : jobs[j] \in JobState
      BY DEF HandleInv, TypeOK
    <2>2. \A job \in JobState :
            /\ [job EXCEPT !.timed_out = TRUE] \in JobState
            /\ [job EXCEPT !.timed_out = TRUE].process = job.process
            /\ [job EXCEPT !.timed_out = TRUE].io = job.io
      BY DEF JobState
    <2> QED
      BY <1>4, <2>1, <2>2
  <1>7. /\ DOMAIN lifecycle' \subseteq JobIds
        /\ \A j \in DOMAIN lifecycle' : lifecycle'[j] \in Lifecycles
    BY <1>1 DEF HandleSignalProcess, NoteSignal, HandleInv, TypeOK, Lifecycles,
                Insert
  <1>8. TypeOK'
    BY <1>2, <1>3, <1>5, <1>6, <1>7
    DEF HandleSignalProcess, HandleInv, TypeOK, QueueOK, Popped, loopVars,
        policyVars, Slots
  <1>9. HandlesFresh' /\ OwnHandles'
    BY <1>3, <1>5, <1>6
    DEF HandleSignalProcess, HandleInv, HandlesFresh, OwnHandles, HasProcess,
        HasIo
  <1> QED
    BY <1>8, <1>9 DEF HandleInv

LEMMA HandlePollProcessStep ==
  ASSUME HandleInv, HandlePollProcess PROVE HandleInv'
  <1>1. /\ queue # <<>> /\ HeadId \in JobIds /\ <<>> \in Seq(Action)
    BY HeadType, TypeParts DEF HandlePollProcess, HandleInv
  <1>2. QueueOK'
    <2>1. CASE HasProcess(HeadId)
      <3> DEFINE p == jobs[HeadId].process
      <3>1. /\ WaitStatus(p) \in Statuses
            /\ jobs[HeadId].timed_out \in BOOLEAN
        BY <2>1, ChildOfJob
        DEF WaitStatus, Process, Statuses, HasProcess, HandleInv, TypeOK, JobState
      <3>2. ExitedActions(HeadId, WaitStatus(p)) \in Seq(Action)
        BY <1>1, <3>1, Constructors DEF ExitedActions, ExecResult
      <3>3. Emit(<<>>) \/ Emit(ExitedActions(HeadId, WaitStatus(p)))
        BY <2>1 DEF HandlePollProcess, Poll
      <3> QED
        BY <1>1, <3>2, <3>3, EmitType, TypeParts DEF HandleInv
    <2>2. CASE ~HasProcess(HeadId)
      BY <1>1, <2>2, EmitType, TypeParts DEF HandlePollProcess, HandleInv
    <2> QED
      BY <2>1, <2>2
  <1>3. /\ DOMAIN processes' = DOMAIN processes
        /\ \A h \in DOMAIN processes :
             processes'[h] \in Process /\ processes'[h].job = processes[h].job
    <2>1. processes' = processes
            \/ \E p \in DOMAIN processes :
                 processes' = [processes EXCEPT ![p] =
                                 [processes[p] EXCEPT !.state = "reaped"]]
      BY ChildOfJob DEF HandlePollProcess, Poll
    <2>2. \A p \in DOMAIN processes :
            /\ [processes[p] EXCEPT !.state = "reaped"] \in Process
            /\ [processes[p] EXCEPT !.state = "reaped"].job = processes[p].job
      BY ChildType DEF Process
    <2> QED
      BY <2>1, <2>2, ChildType
  <1>4. TypeOK'
    BY <1>2, <1>3
    DEF HandlePollProcess, HandleInv, TypeOK, QueueOK, Popped, loopVars,
        stateVars, policyVars, Slots
  <1>5. HandlesFresh' /\ OwnHandles'
    BY <1>3
    DEF HandlePollProcess, HandleInv, HandlesFresh, OwnHandles, HasProcess,
        HasIo, stateVars
  <1> QED
    BY <1>4, <1>5 DEF HandleInv

-----------------------------------------------------------------------------
(***************************************************************************)
(* Results.                                                                *)
(***************************************************************************)

Result == [id : JobIds, result : ExecResult]

\* A part of a sequence is made of its elements.
LEMMA PartType ==
  ASSUME NEW S, NEW s \in Seq(S), NEW m \in Nat \ {0}, NEW n \in Nat,
         n <= Len(s)
  PROVE  SubSeq(s, m, n) \in Seq(S)
  <1>1. \A i \in m..n : s[i] \in S
    OBVIOUS
  <1> QED
    BY <1>1, SubSeqProperties

\* HashMap::remove on the results adds none.
LEMMA OtherResultsType ==
  ASSUME NEW S, results \in Seq(S), NEW id
  PROVE  OtherResults(id) \in Seq(S)
  <1>1. CASE HasResult(id)
    <2> DEFINE i == CHOOSE j \in DOMAIN results : results[j].id = id
    <2>1. i \in 1..Len(results)
      BY <1>1 DEF HasResult
    <2> HIDE DEF i
    <2>2. /\ SubSeq(results, 1, i - 1) \in Seq(S)
          /\ SubSeq(results, i + 1, Len(results)) \in Seq(S)
      BY <2>1, PartType
    <2>3. SubSeq(results, 1, i - 1) \o SubSeq(results, i + 1, Len(results))
            \in Seq(S)
      BY <2>2, ConcatProperties
    <2> QED
      BY <1>1, <2>3 DEF OtherResults, i
  <1>2. CASE ~HasResult(id)
    BY <1>2 DEF OtherResults
  <1> QED
    BY <1>1, <1>2

\* evict_results adds none.
LEMMA EvictedType ==
  ASSUME NEW S, NEW s \in Seq(S), NEW expired \in 0..Len(s)
  PROVE  Evicted(s, expired) \in Seq(S)
  <1> DEFINE kept == SubSeq(s, expired + 1, Len(s))
             excess == IF Len(kept) > MaxResults
                       THEN Len(kept) - MaxResults ELSE 0
  <1>1. kept \in Seq(S)
    BY PartType
  <1>2. Len(kept) \in Nat /\ excess \in Nat
    BY <1>1, MaxResultsAssumption
  <1> HIDE DEF kept, excess
  <1>3. SubSeq(kept, excess + 1, Len(kept)) \in Seq(S)
    BY <1>1, <1>2, PartType
  <1> QED
    BY <1>3 DEF Evicted, kept, excess

\* ResultModule adds the result it was given, and for a live job only.
LEMMA StoreResultType ==
  ASSUME NEW S, results \in Seq(S), NEW id, NEW result,
         StoreResult(id, result)
  PROVE  \/ results' \in Seq(S)
         \/ /\ id \in DOMAIN jobs
            /\ results' \in Seq(S \cup {[id |-> id, result |-> result]})
  <1> DEFINE R == [id |-> id, result |-> result]
             stored == Append(OtherResults(id), R)
  <1>1. CASE /\ id \in DOMAIN jobs
             /\ \E expired \in 0..(Len(stored) - 1) :
                  results' = Evicted(stored, expired)
    <2>1. OtherResults(id) \in Seq(S)
      BY OtherResultsType
    <2>2. OtherResults(id) \in Seq(S \cup {R})
      BY <2>1
    <2> HIDE DEF R
    <2>3. stored \in Seq(S \cup {R}) /\ Len(stored) \in Nat
      BY <2>2
    <2> HIDE DEF stored
    <2>4. results' \in Seq(S \cup {R})
      BY <1>1, <2>3, EvictedType
    <2> QED
      BY <1>1, <2>4 DEF R
  <1>2. CASE \E expired \in 0..Len(results) :
               results' = Evicted(results, expired)
    BY <1>2, EvictedType
  <1> QED
    BY <1>1, <1>2 DEF StoreResult

LEMMA HandleFinishedStep == ASSUME HandleInv, HandleFinished PROVE HandleInv'
  <1>1. /\ queue # <<>> /\ HeadId \in JobIds /\ <<>> \in Seq(Action)
        /\ Head(queue).result \in ExecResult
    <2>1. Popped({"Finished"}) /\ QueueOK
      BY TypeParts DEF HandleFinished, HandleInv
    <2>2. /\ queue # <<>> /\ HeadId \in JobIds /\ <<>> \in Seq(Action)
          /\ Head(queue) \in Action /\ Head(queue).type = "Finished"
      BY <2>1, HeadType
    <2> QED
      BY <2>2, Carried
  <1>2. QueueOK'
    BY <1>1, EmitType, TypeParts DEF HandleFinished, HandleInv
  <1>3. /\ DOMAIN jobs' \subseteq DOMAIN jobs
        /\ \A id \in DOMAIN jobs' : jobs'[id] = jobs[id]
    <2>1. jobs' = jobs \/ jobs' = Delete(jobs, HeadId)
      BY DEF HandleFinished, StoreResult
    <2>2. CASE jobs' = Delete(jobs, HeadId)
      BY <2>2, DeleteFacts
    <2> QED
      BY <2>1, <2>2
  <1>4. results' \in Seq(Result)
    <2>1. /\ results \in Seq(Result)
          /\ StoreResult(HeadId, Head(queue).result)
      BY DEF HandleFinished, HandleInv, TypeOK, Result
    <2>2. [id |-> HeadId, result |-> Head(queue).result] \in Result
      BY <1>1 DEF Result
    <2>3. Result \cup {[id |-> HeadId, result |-> Head(queue).result]} = Result
      BY <2>2
    <2> QED
      BY <2>1, <2>3, StoreResultType
  <1>5. StateOK'
    BY <1>3, <1>4 DEF HandleFinished, HandleInv, TypeOK, StateOK, Result
  <1>6. PolicyOK'
    <2>1. active_jobs' \in 0..MaxJobs
      BY MaxJobsAssumption DEF HandleFinished, ReleaseSlot, HandleInv, TypeOK
    <2>2. /\ DOMAIN tracking' \subseteq DOMAIN tracking
          /\ \A id \in DOMAIN tracking' : tracking'[id] = tracking[id]
      BY DeleteFacts DEF HandleFinished
    <2> QED
      BY <2>1, <2>2 DEF HandleInv, TypeOK, PolicyOK
  <1>7. TypeOK'
    BY <1>2, <1>5, <1>6
    DEF HandleFinished, HandleInv, TypeOK, QueueOK, StateOK, PolicyOK, Popped,
        loopVars, executorVars, Slots
  <1>8. HandlesFresh' /\ OwnHandles'
    BY <1>3 DEF HandleFinished, HandleInv, HandlesFresh, OwnHandles,
                HasProcess, HasIo, executorVars
  <1> QED
    BY <1>7, <1>8 DEF HandleInv

LEMMA HandleQueryStep == ASSUME HandleInv, HandleQuery PROVE HandleInv'
  <1>1. queue # <<>> /\ HeadId \in JobIds
    BY HeadType, TypeParts DEF HandleQuery, HandleInv
  <1>2. QueueOK'
    <2>1. <<[type |-> "QueryResult", id |-> HeadId,
             found |-> HasResult(HeadId)]>> \in Seq(Action)
      <3>1. HasResult(HeadId) \in BOOLEAN
        BY DEF HasResult
      <3>2. [type |-> "QueryResult", id |-> HeadId,
             found |-> HasResult(HeadId)] \in Action
        BY <1>1, <3>1, Constructors, Zenon
      <3> QED
        BY <3>2
    <2> QED
      BY <1>1, <2>1, EmitType, TypeParts DEF HandleQuery, HandleInv
  <1>3. results' \in Seq([id : JobIds, result : ExecResult])
    BY OtherResultsType DEF HandleQuery, HandleInv, TypeOK, Result
  <1>4. TypeOK'
    BY <1>2, <1>3
    DEF HandleQuery, HandleInv, TypeOK, QueueOK, Popped, loopVars, policyVars,
        executorVars, Slots
  <1> QED
    BY <1>4, HandlesUntouched DEF HandleQuery, HandleInv, executorVars

LEMMA HandleNoticeStep == ASSUME HandleInv, HandleNotice PROVE HandleInv'
  <1>1. queue # <<>> /\ <<>> \in Seq(Action)
    BY HeadType, TypeParts DEF HandleNotice, HandleInv
  <1>2. PolicyOK'
    BY DEF HandleNotice, policyVars, HandleInv, TypeOK, PolicyOK
  <1> QED
    BY <1>1, <1>2, EmitOnly DEF HandleNotice, Popped

-----------------------------------------------------------------------------
(***************************************************************************)
(* The theorems.                                                           *)
(***************************************************************************)

LEMMA DrainStep == ASSUME HandleInv, Drain PROVE HandleInv'
  BY HandleSubmitStep, HandleAdmittedStep, HandleStartProcessStep,
     HandleRegisterInterestStep, HandleRemoveInterestStep, HandlePerformIoStep,
     HandleControlStep, DeadlineStep, HandleSignalProcessStep,
     HandlePollProcessStep, HandleFinishedStep, HandleQueryStep,
     HandleNoticeStep
  DEF Drain

\* HandleInv is inductive.
LEMMA NextHandleInv == HandleInv /\ [CoreNext]_coreVars => HandleInv'
  <1> SUFFICES ASSUME HandleInv, [CoreNext]_coreVars PROVE HandleInv'
    OBVIOUS
  <1>1. CASE Requests
    BY <1>1, RequestsStep
  <1>2. CASE Loop
    BY <1>2, FdReadyStep, TimeoutFiresStep, PhaseStep, DrainStep DEF Loop
  <1>3. CASE Children
    BY <1>3, ChildExitsStep DEF Children
  <1>4. CASE UNCHANGED coreVars
    BY <1>4, HandlesUntouched
    DEF coreVars, stateVars, policyVars, executorVars, HandleInv, TypeOK, Slots
  <1> QED
    BY <1>1, <1>2, <1>3, <1>4 DEF CoreNext

\* Whatever the limits, the descriptors and the requests, the queue holds only
\* actions of the protocol, admission stays between 0 and max_jobs, and every
\* table holds what its declaration says (core/mod.rs, core/policy.rs,
\* runtime.rs).
THEOREM TypeCorrect == CoreSpec => []TypeOK
  <1>1. CoreInit => HandleInv
    BY InitHandleInv
  <1>2. HandleInv /\ [CoreNext]_coreVars => HandleInv'
    BY NextHandleInv
  <1>3. HandleInv => TypeOK
    BY DEF HandleInv
  <1> QED
    BY <1>1, <1>2, <1>3, PTL DEF CoreSpec

\* The handles lifecycle.rs keeps with a job lead to the job's own child and
\* its own drain for as long as the job exists: resolve_effects never aims a
\* signal, a wait or a read at another job's.
THEOREM HandlesCorrect == CoreSpec => []OwnHandles
  <1>1. CoreInit => HandleInv
    BY InitHandleInv
  <1>2. HandleInv /\ [CoreNext]_coreVars => HandleInv'
    BY NextHandleInv
  <1>3. HandleInv => OwnHandles
    BY DEF HandleInv
  <1> QED
    BY <1>1, <1>2, <1>3, PTL DEF CoreSpec

-----------------------------------------------------------------------------
(***************************************************************************)
(* Results appear once.                                                    *)
(***************************************************************************)

OnlyLiveJobsFinish ==
  \A i \in DOMAIN results' :
    results'[i] \in Range(results) \/ results'[i].id \in DOMAIN jobs

\* Results are taken by a query, and stored and evicted by the end of a job.
LEMMA ResultsStay ==
  ASSUME [CoreNext]_coreVars, ~HandleQuery, ~HandleFinished
  PROVE  results' = results
  <1>1. CASE Drain
    BY <1>1
    DEF Drain, HandleSubmit, HandleAdmitted, HandleStartProcess,
        HandleRegisterInterest, HandleRemoveInterest, HandlePerformIo,
        HandleControl, HandleTimeoutReached, HandleKillDeadlineReached,
        HandleSignalProcess, HandlePollProcess, HandleNotice, stateVars
  <1>2. CASE ~Drain
    BY <1>2
    DEF CoreNext, Requests, RequestSubmit, RequestControl, RequestQuery,
        RequestRemoveInterest, RequestPoll, RequestOther, Loop, FdReady,
        TimeoutFires, BeginDrain, EndIteration, Children, ChildExits,
        coreVars, stateVars
  <1> QED
    BY <1>1, <1>2

\* Only Finished of a live job adds a result; Query and eviction take some away.
LEMMA ResultsStep ==
  ASSUME HandleInv, [CoreNext]_coreVars PROVE OnlyLiveJobsFinish
  <1> DEFINE S == Range(results)
  <1>1. results \in Seq(S)
    BY DEF HandleInv, TypeOK, Range
  <1>2. CASE results' = results
    BY <1>2 DEF OnlyLiveJobsFinish, Range
  <1>3. CASE results' \in Seq(S)
    BY <1>3 DEF OnlyLiveJobsFinish
  <1>4. CASE HandleQuery
    <2>1. results' \in Seq(S)
      BY <1>1, <1>4, OtherResultsType DEF HandleQuery
    <2> QED
      BY <1>3, <2>1
  <1>5. CASE HandleFinished
    <2> DEFINE R == [id |-> HeadId, result |-> Head(queue).result]
    <2>1. CASE HeadId \in DOMAIN jobs /\ results' \in Seq(S \cup {R})
      <3>1. \A i \in DOMAIN results' : results'[i] \in S \/ results'[i] = R
        BY <2>1
      <3>2. R.id = HeadId
        OBVIOUS
      <3> QED
        BY <2>1, <3>1, <3>2 DEF OnlyLiveJobsFinish
    <2> HIDE DEF S
    <2>2. \/ results' \in Seq(S)
          \/ HeadId \in DOMAIN jobs /\ results' \in Seq(S \cup {R})
      BY <1>1, <1>5, StoreResultType DEF HandleFinished
    <2> QED
      BY <1>3, <2>1, <2>2
  <1> QED
    BY <1>2, <1>4, <1>5, ResultsStay

\* A job finishes once: a result that was queried or evicted never comes back,
\* however often its child is polled (result.rs:10-36).
THEOREM FinishesOnceCorrect == CoreSpec => FinishesOnce
  <1>1. CoreInit => HandleInv
    BY InitHandleInv
  <1>2. HandleInv /\ [CoreNext]_coreVars => HandleInv'
    BY NextHandleInv
  <1>3. HandleInv /\ [CoreNext]_coreVars => [OnlyLiveJobsFinish]_coreVars
    BY ResultsStep
  <1>4. FinishesOnce <=> [][OnlyLiveJobsFinish]_coreVars
    BY DEF FinishesOnce, OnlyLiveJobsFinish
  <1> QED
    BY <1>1, <1>2, <1>3, <1>4, PTL DEF CoreSpec

-----------------------------------------------------------------------------
(***************************************************************************)
(* The reactor's tokens lead to their owners.                              *)
(*                                                                         *)
(* With the handles right (HandleInv) TokenLeadsToOwner is inductive: a    *)
(* watch enters the job whose drain owns the descriptor into fd_map before *)
(* the reactor can report it, and a descriptor leaves the reactor no later *)
(* than its slot, so that an entry fd_map keeps is overwritten before the  *)
(* number is reported again.                                               *)
(***************************************************************************)

TokenInv == HandleInv /\ TokenLeadsToOwner

\* Steps that touch neither the reactor nor fd_map nor the drains.
LEMMA TokensUntouched ==
  ASSUME TokenLeadsToOwner, UNCHANGED <<epoll, fd_map, drains>>
  PROVE  TokenLeadsToOwner'
  BY DEF TokenLeadsToOwner, Slots

\* A new drain, under a new handle, hides no other.
LEMMA SpawnKeepsTokens ==
  ASSUME TokenInv, HandleStartProcess PROVE TokenLeadsToOwner'
  <1>1. CASE SpawnFails(HeadId)
    BY <1>1, TokensUntouched DEF HandleStartProcess, SpawnFails, TokenInv
  <1>2. CASE SpawnSucceeds(HeadId)
    <2>1. \E drain : drains' = Insert(drains, next_handle + 1, drain)
      BY <1>2, Zenon DEF SpawnSucceeds
    <2>2. next_handle + 1 \notin DOMAIN drains
      BY DEF TokenInv, HandleInv, HandlesFresh, TypeOK
    <2>3. /\ DOMAIN drains \subseteq DOMAIN drains'
          /\ \A io \in DOMAIN drains : drains'[io] = drains[io]
      BY <2>1, <2>2 DEF Insert
    <2>4. epoll' = epoll /\ fd_map' = fd_map
      BY DEF HandleStartProcess
    <2> QED
      BY <2>3, <2>4 DEF TokenLeadsToOwner, TokenInv, Slots
  <1> QED
    BY <1>1, <1>2 DEF HandleStartProcess

\* A watch enters the owner of the drain, and touches no descriptor that is
\* watched already.
LEMMA WatchKeepsTokens ==
  ASSUME TokenInv, HandleRegisterInterest PROVE TokenLeadsToOwner'
  <1> DEFINE io == jobs[HeadId].io
             fd == Slots(io)[Head(queue).stream]
  <1>1. drains' = drains
    BY DEF HandleRegisterInterest
  <1>2. CASE epoll' = epoll /\ fd_map' = fd_map
    BY <1>1, <1>2, TokensUntouched DEF TokenInv
  <1>3. CASE /\ HasIo(HeadId)
             /\ Head(queue).stream \in DOMAIN Slots(io)
             /\ fd \notin epoll
             /\ epoll' = epoll \cup {fd}
             /\ fd_map' = Insert(fd_map, fd, HeadId)
    <2>1. io \in DOMAIN drains /\ drains[io].job = HeadId
      BY <1>3, DrainOfJob DEF TokenInv
    <2>2. fd \in Range(Slots(io))
      BY <1>3 DEF Range
    <2> HIDE DEF fd, io
    <2>3. /\ fd \in DOMAIN fd_map' /\ fd_map'[fd] = HeadId
          /\ \A x \in DOMAIN fd_map : x \in DOMAIN fd_map'
          /\ \A x \in DOMAIN fd_map : x # fd => fd_map'[x] = fd_map[x]
      BY <1>3 DEF Insert
    <2>4. \A x \in epoll' : x = fd \/ (x \in epoll /\ x # fd)
      BY <1>3
    <2> QED
      BY <1>1, <2>1, <2>2, <2>3, <2>4 DEF TokenLeadsToOwner, TokenInv, Slots
  <1>4. \/ epoll' = epoll /\ fd_map' = fd_map
        \/ /\ HasIo(HeadId)
           /\ Head(queue).stream \in DOMAIN Slots(io)
           /\ fd \notin epoll
           /\ epoll' = epoll \cup {fd}
           /\ fd_map' = Insert(fd_map, fd, HeadId)
    BY DEF HandleRegisterInterest, WatchStream
  <1> QED
    BY <1>2, <1>3, <1>4

\* An unwatch takes the descriptor from the reactor and from fd_map.
LEMMA UnwatchKeepsTokens ==
  ASSUME TokenInv, HandleRemoveInterest PROVE TokenLeadsToOwner'
  <1>1. drains' = drains
    BY DEF HandleRemoveInterest
  <1>2. \/ epoll' = epoll /\ fd_map' = fd_map
        \/ \E fd : epoll' = epoll \ {fd} /\ fd_map' = Delete(fd_map, fd)
    BY DEF HandleRemoveInterest, UnwatchStream
  <1>3. CASE epoll' = epoll /\ fd_map' = fd_map
    BY <1>1, <1>3, TokensUntouched DEF TokenInv
  <1>4. ASSUME NEW fd, epoll' = epoll \ {fd}, fd_map' = Delete(fd_map, fd)
        PROVE  TokenLeadsToOwner'
    <2>1. \A x \in epoll' : /\ x \in epoll
                            /\ x \in DOMAIN fd_map => /\ x \in DOMAIN fd_map'
                                                      /\ fd_map'[x] = fd_map[x]
      BY <1>4 DEF Delete, Restrict
    <2> QED
      BY <1>1, <2>1 DEF TokenLeadsToOwner, TokenInv, Slots
  <1> QED
    BY <1>2, <1>3, <1>4

\* A stream that has ended leaves the reactor with its slot; the other slots
\* keep their descriptors.
LEMMA IoKeepsTokens ==
  ASSUME TokenInv, HandlePerformIo PROVE TokenLeadsToOwner'
  <1>1. fd_map' = fd_map
    BY DEF HandlePerformIo
  <1>2. CASE HasIo(HeadId)
    <2> DEFINE d == jobs[HeadId].io
    <2>1. PICK ended \in SUBSET DOMAIN Slots(d) :
            /\ drains' = [drains EXCEPT ![d].slots =
                            Restrict(@, DOMAIN @ \ ended)]
            /\ epoll' = epoll \ {Slots(d)[s] : s \in ended}
      BY <1>2 DEF HandlePerformIo, PerformIo
    <2>2. d \in DOMAIN drains /\ DOMAIN drains[d] = {"job", "slots"}
      BY <1>2, DrainOfJob DEF TokenInv, HandleInv, TypeOK
    <2> HIDE DEF d
    <2>3. DOMAIN drains' = DOMAIN drains
      BY <2>1
    <2>4. \A io \in DOMAIN drains :
            /\ io # d => drains'[io] = drains[io]
            /\ drains'[io].job = drains[io].job
      BY <2>1, <2>2
    <2>5. drains'[d].slots = Restrict(drains[d].slots,
                                      DOMAIN drains[d].slots \ ended)
      BY <2>1, <2>2
    <2>6. ASSUME NEW fd \in epoll', NEW io \in DOMAIN drains,
                 fd \in Range(drains[io].slots)
          PROVE  fd \in Range(drains'[io].slots)
      <3>1. CASE io # d
        BY <2>4, <2>6, <3>1
      <3>2. CASE io = d
        <4>1. PICK s \in DOMAIN drains[d].slots : drains[d].slots[s] = fd
          BY <2>6, <3>2 DEF Range
        <4>2. s \notin ended
          BY <2>1, <2>6, <4>1 DEF Slots
        <4> QED
          BY <2>5, <3>2, <4>1, <4>2 DEF Restrict, Range
      <3> QED
        BY <3>1, <3>2
    <2>7. epoll' \subseteq epoll
      BY <2>1
    <2> QED
      BY <1>1, <2>3, <2>4, <2>6, <2>7 DEF TokenLeadsToOwner, TokenInv, Slots
  <1>3. CASE ~HasIo(HeadId)
    BY <1>1, <1>3, TokensUntouched DEF HandlePerformIo, TokenInv
  <1> QED
    BY <1>2, <1>3

\* Every other turn of the inner loop leaves the three tables alone.
LEMMA DrainKeepsTokens == ASSUME TokenInv, Drain PROVE TokenLeadsToOwner'
  <1>1. CASE HandleSubmit \/ HandleAdmitted
    BY <1>1, TokensUntouched
    DEF HandleSubmit, HandleAdmitted, executorVars, TokenInv
  <1>2. CASE \/ HandleControl \/ HandleTimeoutReached
             \/ HandleKillDeadlineReached
    BY <1>2, TokensUntouched
    DEF HandleControl, HandleTimeoutReached, HandleKillDeadlineReached,
        executorVars, TokenInv
  <1>3. CASE HandleSignalProcess \/ HandlePollProcess
    BY <1>3, TokensUntouched
    DEF HandleSignalProcess, HandlePollProcess, TokenInv
  <1>4. CASE HandleFinished \/ HandleQuery \/ HandleNotice
    BY <1>4, TokensUntouched
    DEF HandleFinished, HandleQuery, HandleNotice, executorVars, TokenInv
  <1> QED
    BY <1>1, <1>2, <1>3, <1>4, SpawnKeepsTokens, WatchKeepsTokens,
       UnwatchKeepsTokens, IoKeepsTokens
    DEF Drain

\* Collecting a batch and the end of a child leave the three tables alone.
LEMMA OutsideKeepsTokens ==
  ASSUME TokenInv, CoreNext, ~Drain PROVE TokenLeadsToOwner'
  <1>1. CASE Requests
    BY <1>1, TokensUntouched
    DEF Requests, RequestSubmit, RequestControl, RequestQuery,
        RequestRemoveInterest, RequestPoll, RequestOther, executorVars,
        TokenInv
  <1>2. CASE Loop
    <2>1. \/ \E fd \in Fds : FdReady(fd)
          \/ \E id \in JobIds : TimeoutFires(id)
          \/ BeginDrain
          \/ EndIteration
      BY <1>2 DEF Loop
    <2> QED
      BY <2>1, TokensUntouched
      DEF FdReady, TimeoutFires, BeginDrain, EndIteration, executorVars,
          TokenInv
  <1>3. CASE Children
    BY <1>3, TokensUntouched DEF Children, ChildExits, TokenInv
  <1> QED
    BY <1>1, <1>2, <1>3 DEF CoreNext

\* TokenInv is inductive.
LEMMA NextTokenInv == TokenInv /\ [CoreNext]_coreVars => TokenInv'
  <1> SUFFICES ASSUME TokenInv, [CoreNext]_coreVars PROVE TokenInv'
    OBVIOUS
  <1>1. HandleInv'
    BY NextHandleInv DEF TokenInv
  <1>2. TokenLeadsToOwner'
    <2>1. CASE UNCHANGED coreVars
      BY <2>1, TokensUntouched DEF coreVars, executorVars, TokenInv
    <2>2. CASE CoreNext
      BY <2>2, DrainKeepsTokens, OutsideKeepsTokens
    <2> QED
      BY <2>1, <2>2
  <1> QED
    BY <1>1, <1>2 DEF TokenInv

\* A readiness event reaches the job whose stream is ready and no other,
\* although fd_map keeps the entries of closed descriptors and the kernel
\* hands their numbers out again (runtime.rs:87-89, 185-190).
THEOREM TokensCorrect == CoreSpec => []TokenLeadsToOwner
  <1>1. CoreInit => TokenInv
    BY InitHandleInv DEF CoreInit, TokenInv, TokenLeadsToOwner
  <1>2. TokenInv /\ [CoreNext]_coreVars => TokenInv'
    BY NextTokenInv
  <1>3. TokenInv => TokenLeadsToOwner
    BY DEF TokenInv
  <1> QED
    BY <1>1, <1>2, <1>3, PTL DEF CoreSpec

=============================================================================
