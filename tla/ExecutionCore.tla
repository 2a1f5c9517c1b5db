---------------------------- MODULE ExecutionCore ----------------------------
(***************************************************************************)
(* The action loop of CoreShift: the Dispatcher with its six modules       *)
(* (src/src/core), the effect resolution, the EffectExecutor's tables      *)
(* (src/src/runtime.rs) and the child processes of the kernel, driven by   *)
(* the queue of run_daemon (src/src/lib.rs:29-69).                         *)
(*                                                                         *)
(* One TLA+ action is one turn of the inner loop: the action at the head   *)
(* of the queue is dispatched, its effects are applied, the event an       *)
(* effect returns is dispatched, and the actions that come out are put at  *)
(* the back of the queue.  Log lines are left out.                         *)
(***************************************************************************)
EXTENDS Integers, Sequences, FiniteSets, Maps

CONSTANTS
  MaxJobs,          \* AdmissionControlModule::max_jobs (64 in the code)
  MaxResults,       \* max_results of evict_results (1000 in the code)
  Fds,              \* file descriptors the pipes of the children can get
  ExitCodes,        \* exit codes the children end with
  DeathSignals,     \* signals they die of, whoever sends them
  Timeouts,         \* values of "policy.timeout_ms is Some" at submission
  ControlSignals,   \* signals of the Control requests (GracefulStop: Router)
  RequestTypes,     \* the other requests the host feeds into the loop
  Polls,            \* when the host feeds PollProcess: never, first, any
  TimeoutWired,     \* does the host call TimeoutPolicyModule::handle_event
  MaxSubmits,       \* bound: jobs submitted in a behaviour
  MaxBatch          \* bound: inputs collected in one iteration of the loop

Signals == {"GracefulStop", "ForceKill"}
PollRules == {"never", "first", "any"}

ASSUME MaxJobsAssumption == MaxJobs \in Nat \ {0}
ASSUME MaxResultsAssumption == MaxResults \in Nat \ {0}
ASSUME MaxSubmitsAssumption == MaxSubmits \in Nat \ {0}
ASSUME MaxBatchAssumption == MaxBatch \in Nat \ {0}
ASSUME StatusesAssumption ==
  ExitCodes \subseteq Nat /\ DeathSignals \subseteq Nat \ {0}
ASSUME InputsAssumption ==
  /\ Timeouts \subseteq BOOLEAN
  /\ ControlSignals \subseteq Signals
  /\ RequestTypes \subseteq {"Query", "RemoveInterest"}
  /\ Polls \in PollRules
  /\ TimeoutWired \in BOOLEAN

JobIds == 1..MaxSubmits
NoHandle == 0             \* Option::None of a handle: gen_handle starts at 1
Streams == {"Stdout", "Stderr", "Stdin"}

\* android::cmd and dumpsys, of which Command::map_to_exec builds every request,
\* capture both output streams and pass no stdin: a drain has no slot for Stdin.
Captured == {"Stdout", "Stderr"}

(***************************************************************************)
(* Actions of the protocol (enum Action) and what they carry.              *)
(***************************************************************************)

\* decode_status and PollProcess: an exit code, or the signal's number negated.
EndStatuses == ExitCodes \cup {-s : s \in DeathSignals}

Statuses == EndStatuses \cup {0}
ExecResult == [status : Statuses, timed_out : BOOLEAN]

Action ==
  [type : {"Submit", "Admitted"}, id : JobIds, timeout : BOOLEAN]
    \cup [type : {"Control", "SignalProcess"}, id : JobIds, signal : Signals]
    \cup [type : {"RegisterInterest", "RemoveInterest"}, id : JobIds,
          stream : Streams]
    \cup [type : {"Finished"}, id : JobIds, result : ExecResult]
    \cup [type : {"QueryResult"}, id : JobIds, found : BOOLEAN]
    \cup [type : {"Rejected", "Started", "Controlled", "StartProcess",
                  "PollProcess", "PerformIo", "Query", "TimeoutReached",
                  "KillDeadlineReached"}, id : JobIds]

Simple(type, id) == [type |-> type, id |-> id]
Signal(type, id, signal) == [type |-> type, id |-> id, signal |-> signal]
Interest(type, id, stream) == [type |-> type, id |-> id, stream |-> stream]

VARIABLES
  phase,        \* "requests", "events" or "drain": place in the outer loop
  queue,        \* VecDeque of the actions of this iteration
  next_id,      \* Router::next_id
  jobs,         \* ExecutionState::jobs
  lifecycle,    \* ExecutionState::lifecycle
  results,      \* ExecutionState::results, the oldest first
  active_jobs,  \* AdmissionControlModule::active_jobs
  tracking,     \* TimeoutPolicyModule::tracking
  processes,    \* EffectExecutor::processes and the kernel's view of the child
  drains,       \* EffectExecutor::drains, each with its open slots
  fd_map,       \* EffectExecutor::fd_map
  epoll,        \* descriptors registered with the reactor
  next_handle   \* EffectExecutor::next_handle

loopVars == <<phase, next_id>>
stateVars == <<jobs, lifecycle, results>>
policyVars == <<active_jobs, tracking>>
executorVars == <<processes, drains, fd_map, epoll, next_handle>>
coreVars == <<phase, queue, next_id, stateVars, policyVars, executorVars>>

JobState == [process : Nat, io : Nat, timed_out : BOOLEAN]
Lifecycles == {"Admitted", "Running", "Terminating", "Killed", "Finished"}
Process == [job : JobIds, state : {"running", "zombie", "reaped"},
            status : Statuses, sig : {"none", "term", "kill"}]

\* The descriptors the drains own: a slot closes its descriptor when dropped.
Slots(io) == drains[io].slots
OpenFds == UNION {Range(Slots(io)) : io \in DOMAIN drains}

CoreInit ==
  /\ phase = "requests"
  /\ queue = <<>>
  /\ next_id = 1
  /\ jobs = EmptyMap
  /\ lifecycle = EmptyMap
  /\ results = <<>>
  /\ active_jobs = 0
  /\ tracking = EmptyMap
  /\ processes = EmptyMap
  /\ drains = EmptyMap
  /\ fd_map = EmptyMap
  /\ epoll = {}
  /\ next_handle = 1

-----------------------------------------------------------------------------
(***************************************************************************)
(* The outer loop.  One iteration collects the actions of the IPC requests *)
(* first and those of the ready descriptors next, then drains the queue.   *)
(***************************************************************************)

Collecting == phase \in {"requests", "events"} /\ Len(queue) < MaxBatch

\* An IPC request or, when the host polls, a PollProcess joins the batch.
AddRequest(action) ==
  /\ Collecting
  /\ phase = "requests"
  /\ queue' = Append(queue, action)
  /\ UNCHANGED phase

\* Router::handle numbers the jobs; ids are never used twice.
RequestSubmit(timeout) ==
  /\ next_id <= MaxSubmits
  /\ next_id' = next_id + 1
  /\ AddRequest([type |-> "Submit", id |-> next_id, timeout |-> timeout])
  /\ UNCHANGED <<stateVars, policyVars, executorVars>>

RequestOther(action) ==
  /\ AddRequest(action)
  /\ UNCHANGED <<next_id, stateVars, policyVars, executorVars>>

RequestControl(id, signal) == RequestOther(Signal("Control", id, signal))

RequestQuery(id) ==
  /\ "Query" \in RequestTypes
  /\ RequestOther(Simple("Query", id))

RequestRemoveInterest(id, stream) ==
  /\ "RemoveInterest" \in RequestTypes
  /\ RequestOther(Interest("RemoveInterest", id, stream))

\* No module emits PollProcess: only a host that embeds the loop can.  Under
\* "first" it polls a job at most once per iteration, before the requests.
RequestPoll(id) ==
  /\ \/ Polls = "any"
     \/ /\ Polls = "first"
        /\ \A i \in DOMAIN queue :
             queue[i].type = "PollProcess" /\ queue[i].id # id
  /\ RequestOther(Simple("PollProcess", id))

AddEventActions(actions) ==
  /\ Collecting
  /\ phase' = "events"
  /\ queue' = queue \o actions

\* process_reactor_events looks the token up in fd_map (the token is the
\* descriptor); IoModule asks for I/O when the job still exists.
FdReady(fd) ==
  /\ fd \in epoll
  /\ fd \in DOMAIN fd_map
  /\ fd_map[fd] \in DOMAIN jobs
  /\ AddEventActions(<<Simple("PerformIo", fd_map[fd])>>)
  /\ UNCHANGED <<next_id, stateVars, policyVars, executorVars>>

\* TimeoutPolicyModule::handle_event for one tracked entry whose deadline has
\* passed.  dispatch_event never calls it, so this needs a host that does.
TimeoutFires(id) ==
  /\ TimeoutWired
  /\ id \in DOMAIN tracking
  /\ \/ /\ tracking[id] = "WaitingForDeadline"
        /\ tracking' = [tracking EXCEPT ![id] = "WaitingForKillGrace"]
        /\ AddEventActions(<<Simple("TimeoutReached", id)>>)
     \/ /\ tracking[id] = "WaitingForKillGrace"
        /\ AddEventActions(<<Simple("KillDeadlineReached", id)>>)
        /\ UNCHANGED tracking
  /\ UNCHANGED <<next_id, stateVars, active_jobs, executorVars>>

BeginDrain ==
  /\ phase \in {"requests", "events"}
  /\ queue # <<>>
  /\ phase' = "drain"
  /\ UNCHANGED <<queue, next_id, stateVars, policyVars, executorVars>>

\* The queue is empty: back to epoll_wait.
EndIteration ==
  /\ phase = "drain"
  /\ queue = <<>>
  /\ phase' = "requests"
  /\ UNCHANGED <<queue, next_id, stateVars, policyVars, executorVars>>

-----------------------------------------------------------------------------
(***************************************************************************)
(* The inner loop: one action per action type.                             *)
(***************************************************************************)

Popped(types) ==
  /\ phase = "drain"
  /\ queue # <<>>
  /\ Head(queue).type \in types
  /\ UNCHANGED loopVars

HeadId == Head(queue).id

\* queue.pop_front() and, at the end of the turn, queue.extend(..).
Emit(actions) == queue' = Tail(queue) \o actions

\* Mutant: the limit is compared with > for >=.
AtLimitOffByOne == active_jobs > MaxJobs

\* Admission: AdmissionControlModule::handle on Submit.
AtLimit == active_jobs >= MaxJobs

HandleSubmit ==
  /\ Popped({"Submit"})
  /\ \/ /\ AtLimit
        /\ Emit(<<Simple("Rejected", HeadId)>>)
        /\ UNCHANGED active_jobs
     \/ /\ ~AtLimit
        /\ active_jobs' = active_jobs + 1
        /\ Emit(<<[Head(queue) EXCEPT !.type = "Admitted"]>>)
  /\ UNCHANGED <<stateVars, tracking, executorVars>>

\* LifecycleModule creates the job, TimeoutPolicyModule tracks its deadline.
HandleAdmitted ==
  /\ Popped({"Admitted"})
  /\ jobs' = Insert(jobs, HeadId, [process |-> NoHandle, io |-> NoHandle,
                                   timed_out |-> FALSE])
  /\ lifecycle' = Insert(lifecycle, HeadId, "Admitted")
  /\ tracking' = IF Head(queue).timeout
                 THEN Insert(tracking, HeadId, "WaitingForDeadline")
                 ELSE tracking
  /\ Emit(<<Simple("StartProcess", HeadId)>>)
  /\ UNCHANGED <<results, active_jobs, executorVars>>

\* Mutant: LifecycleModule does not announce the start.
StartedActionsUnannounced(id) ==
  <<Interest("RegisterInterest", id, "Stdout"),
    Interest("RegisterInterest", id, "Stderr"),
    Interest("RegisterInterest", id, "Stdin")>>

\* LifecycleModule and IoModule on ProcessStarted.
StartedActions(id) ==
  (IF id \in DOMAIN jobs THEN <<Simple("Started", id)>> ELSE <<>>)
     \o <<Interest("RegisterInterest", id, "Stdout"),
          Interest("RegisterInterest", id, "Stderr"),
          Interest("RegisterInterest", id, "Stdin")>>

\* Mutant: the two handles of ProcessStarted are swapped.
NoteStartedSwapped(id, process, io) ==
  IF id \in DOMAIN jobs
  THEN /\ jobs' = [jobs EXCEPT ![id].process = io, ![id].io = process]
       /\ lifecycle' = Insert(lifecycle, id, "Running")
  ELSE UNCHANGED <<jobs, lifecycle>>

NoteStarted(id, process, io) ==
  IF id \in DOMAIN jobs
  THEN /\ jobs' = [jobs EXCEPT ![id].process = process, ![id].io = io]
       /\ lifecycle' = Insert(lifecycle, id, "Running")
  ELSE UNCHANGED <<jobs, lifecycle>>

\* spawn_start succeeds: the parent keeps the read ends of two new pipes, on
\* any descriptors that are free by then.
SpawnSucceeds(id) ==
  \E out \in Fds \ OpenFds : \E err \in Fds \ (OpenFds \cup {out}) :
    LET process == next_handle
        io == next_handle + 1
    IN /\ processes' = Insert(processes, process,
                         [job |-> id, state |-> "running", status |-> 0,
                          sig |-> "none"])
       /\ drains' = Insert(drains, io,
                      [job |-> id,
                       slots |-> [s \in Captured |->
                                    IF s = "Stdout" THEN out ELSE err]])
       /\ next_handle' = next_handle + 2
       /\ NoteStarted(id, process, io)
       /\ Emit(StartedActions(id))

\* Mutant: a job that could not be started is forgotten, its slot is not.
SpawnFailsForgetsJob(id) ==
  /\ jobs' = Delete(jobs, id)
  /\ lifecycle' = Insert(lifecycle, id, "Finished")
  /\ Emit(<<Simple("Rejected", id)>>)
  /\ UNCHANGED <<processes, drains, next_handle>>

\* Mutant: nobody is told that the spawn failed.
SpawnFailsSilently(id) ==
  /\ lifecycle' = Insert(lifecycle, id, "Finished")
  /\ Emit(<<>>)
  /\ UNCHANGED <<jobs, processes, drains, next_handle>>

\* spawn_start fails (no descriptors left, no such program, ...): the pipes
\* are closed and ProcessSpawnFailed comes back.
SpawnFails(id) ==
  /\ lifecycle' = Insert(lifecycle, id, "Finished")
  /\ Emit(<<Simple("Rejected", id)>>)
  /\ UNCHANGED <<jobs, processes, drains, next_handle>>

HandleStartProcess ==
  /\ Popped({"StartProcess"})
  /\ SpawnSucceeds(HeadId) \/ SpawnFails(HeadId)
  /\ UNCHANGED <<results, policyVars, fd_map, epoll>>

\* Core::resolve_effects finds the handle of a job that has been started.
HasProcess(id) == id \in DOMAIN jobs /\ jobs[id].process # NoHandle
HasIo(id) == id \in DOMAIN jobs /\ jobs[id].io # NoHandle

\* WatchStream: epoll_ctl refuses a descriptor it has already, and may refuse
\* any other; then fd_map is left alone.
WatchStream(id, slots, stream) ==
  \/ /\ stream \in DOMAIN slots
     /\ slots[stream] \notin epoll
     /\ epoll' = epoll \cup {slots[stream]}
     /\ fd_map' = Insert(fd_map, slots[stream], id)
  \/ UNCHANGED <<epoll, fd_map>>

\* Mutant: a watch that failed is asked for again.
HandleRegisterInterestRetried ==
  /\ Popped({"RegisterInterest"})
  /\ IF HasIo(HeadId)
     THEN \/ /\ WatchStream(HeadId, Slots(jobs[HeadId].io), Head(queue).stream)
             /\ Emit(<<>>)
          \/ Emit(<<Head(queue)>>) /\ UNCHANGED <<epoll, fd_map>>
     ELSE Emit(<<>>) /\ UNCHANGED <<epoll, fd_map>>
  /\ UNCHANGED <<stateVars, policyVars, processes, drains, next_handle>>

HandleRegisterInterest ==
  /\ Popped({"RegisterInterest"})
  /\ IF HasIo(HeadId)
     THEN WatchStream(HeadId, Slots(jobs[HeadId].io), Head(queue).stream)
     ELSE UNCHANGED <<epoll, fd_map>>
  /\ Emit(<<>>)
  /\ UNCHANGED <<stateVars, policyVars, processes, drains, next_handle>>

\* Mutant: the reactor keeps watching a stream that fd_map forgot.
UnwatchStreamStillWatched(slots, stream) ==
  /\ fd_map' = IF stream \in DOMAIN slots
               THEN Delete(fd_map, slots[stream]) ELSE fd_map
  /\ UNCHANGED epoll

UnwatchStream(slots, stream) ==
  \/ /\ stream \in DOMAIN slots
     /\ epoll' = epoll \ {slots[stream]}
     /\ fd_map' = Delete(fd_map, slots[stream])
  \/ /\ stream \notin DOMAIN slots
     /\ UNCHANGED <<epoll, fd_map>>

HandleRemoveInterest ==
  /\ Popped({"RemoveInterest"})
  /\ IF HasIo(HeadId)
     THEN UnwatchStream(Slots(jobs[HeadId].io), Head(queue).stream)
     ELSE UNCHANGED <<epoll, fd_map>>
  /\ Emit(<<>>)
  /\ UNCHANGED <<stateVars, policyVars, processes, drains, next_handle>>

\* read_fd on every open slot; at end of file the slot is taken and dropped,
\* which closes the descriptor.  The kernel forgets a closed descriptor,
\* fd_map does not.
PerformIo(io) ==
  \E ended \in SUBSET DOMAIN Slots(io) :
    /\ drains' = [drains EXCEPT ![io].slots =
                    Restrict(@, DOMAIN @ \ ended)]
    /\ epoll' = epoll \ {Slots(io)[s] : s \in ended}

HandlePerformIo ==
  /\ Popped({"PerformIo"})
  /\ IF HasIo(HeadId)
     THEN PerformIo(jobs[HeadId].io)
     ELSE UNCHANGED <<drains, epoll>>
  /\ Emit(<<>>)
  /\ UNCHANGED <<stateVars, policyVars, processes, fd_map, next_handle>>

\* Mutant: a job that was told to stop may be told again.
MaySignalTwice(id) == HasProcess(id)

\* Mutant: the negation of timed_out is lost.
MaySignalStopped(id) == HasProcess(id) /\ jobs[id].timed_out

\* ProcessModule lets a request through to a started job that has not been
\* told to stop.
MaySignal(id) == HasProcess(id) /\ ~jobs[id].timed_out

ControlActions(a) ==
  <<Signal("SignalProcess", a.id, a.signal), Simple("Controlled", a.id)>>

HandleControl ==
  /\ Popped({"Control"})
  /\ Emit(IF MaySignal(HeadId) THEN ControlActions(Head(queue)) ELSE <<>>)
  /\ UNCHANGED <<stateVars, policyVars, executorVars>>

HandleTimeoutReached ==
  /\ Popped({"TimeoutReached"})
  /\ Emit(IF MaySignal(HeadId)
          THEN <<Signal("SignalProcess", HeadId, "GracefulStop")>> ELSE <<>>)
  /\ UNCHANGED <<stateVars, policyVars, executorVars>>

HandleKillDeadlineReached ==
  /\ Popped({"KillDeadlineReached"})
  /\ Emit(IF MaySignal(HeadId)
          THEN <<Signal("SignalProcess", HeadId, "ForceKill")>> ELSE <<>>)
  /\ UNCHANGED <<stateVars, policyVars, executorVars>>

\* LifecycleModule notes the transition.
NoteSignal(id, signal) ==
  /\ jobs' = IF signal = "GracefulStop"
             THEN [jobs EXCEPT ![id].timed_out = TRUE] ELSE jobs
  /\ lifecycle' = Insert(lifecycle, id,
                    IF signal = "GracefulStop" THEN "Terminating" ELSE "Killed")

\* EffectExecutor: kill(2) with SIGTERM or SIGKILL, whatever became of the
\* process; pgroup and isolated are never set, so it is never a group.
KillProcess(process, signal) ==
  processes' = [processes EXCEPT ![process].sig =
                  IF signal = "ForceKill" \/ @ = "kill" THEN "kill" ELSE "term"]

HandleSignalProcess ==
  /\ Popped({"SignalProcess"})
  /\ IF HeadId \in DOMAIN jobs
     THEN NoteSignal(HeadId, Head(queue).signal)
     ELSE UNCHANGED <<jobs, lifecycle>>
  /\ IF HasProcess(HeadId)
     THEN KillProcess(jobs[HeadId].process, Head(queue).signal)
     ELSE UNCHANGED processes
  /\ Emit(<<>>)
  /\ UNCHANGED <<results, policyVars, drains, fd_map, epoll, next_handle>>

\* Process::wait_step on a child that has ended: waitpid reaps it, and on one
\* already reaped ECHILD is taken for exit code 0.
WaitStatus(process) ==
  IF processes[process].state = "zombie" THEN processes[process].status ELSE 0

\* ResultModule on ProcessExited.
ExitedActions(id, status) ==
  <<[type |-> "Finished", id |-> id,
     result |-> [status |-> status, timed_out |-> jobs[id].timed_out]]>>

\* Mutant: waitpid returning 0 (WNOHANG) is taken for an exit.
PollTakesRunningForExit(id, process) ==
  /\ processes' = IF processes[process].state = "running" THEN processes
                  ELSE [processes EXCEPT ![process].state = "reaped"]
  /\ Emit(ExitedActions(id, WaitStatus(process)))

Poll(id, process) ==
  \/ /\ processes[process].state = "running"
     /\ Emit(<<>>)
     /\ UNCHANGED processes
  \/ /\ processes[process].state # "running"
     /\ processes' = [processes EXCEPT ![process].state = "reaped"]
     /\ Emit(ExitedActions(id, WaitStatus(process)))

HandlePollProcess ==
  /\ Popped({"PollProcess"})
  /\ IF HasProcess(HeadId)
     THEN Poll(HeadId, jobs[HeadId].process)
     ELSE Emit(<<>>) /\ UNCHANGED processes
  /\ UNCHANGED <<stateVars, policyVars, drains, fd_map, epoll, next_handle>>

\* evict_results: the results older than the TTL, that is any number of the
\* oldest but never the one stored in this call, then the oldest beyond
\* MaxResults.
Evicted(stored, expired) ==
  LET kept == SubSeq(stored, expired + 1, Len(stored))
      excess == IF Len(kept) > MaxResults THEN Len(kept) - MaxResults ELSE 0
  IN SubSeq(kept, excess + 1, Len(kept))

HasResult(id) == \E i \in DOMAIN results : results[i].id = id

\* results.remove(&id): the map holds at most one result of a job.
OtherResults(id) ==
  IF HasResult(id)
  THEN LET i == CHOOSE j \in DOMAIN results : results[j].id = id
       IN SubSeq(results, 1, i - 1) \o SubSeq(results, i + 1, Len(results))
  ELSE results

\* Mutant: a result is stored whether its job exists or not.
StoreResultAnyway(id, result) ==
  /\ jobs' = Delete(jobs, id)
  /\ results' = Evicted(Append(OtherResults(id), [id |-> id, result |-> result]),
                       0)

\* Mutant: the job is looked up and not removed.
StoreResultKeepsJob(id, result) ==
  /\ id \in DOMAIN jobs
  /\ results' = Evicted(Append(OtherResults(id), [id |-> id, result |-> result]),
                       0)
  /\ UNCHANGED jobs

\* ResultModule stores the result of a job that still exists, and evicts.
StoreResult(id, result) ==
  \/ /\ id \in DOMAIN jobs
     /\ jobs' = Delete(jobs, id)
     /\ LET stored == Append(OtherResults(id), [id |-> id, result |-> result])
        IN \E expired \in 0..(Len(stored) - 1) :
             results' = Evicted(stored, expired)
  \/ /\ id \notin DOMAIN jobs
     /\ UNCHANGED jobs
     /\ \E expired \in 0..Len(results) : results' = Evicted(results, expired)

\* Mutant: the slot is kept.
ReleaseSlotForgotten == active_jobs

ReleaseSlot == IF active_jobs > 0 THEN active_jobs - 1 ELSE active_jobs

\* AdmissionControlModule, TimeoutPolicyModule and ResultModule on Finished.
HandleFinished ==
  /\ Popped({"Finished"})
  /\ active_jobs' = ReleaseSlot
  /\ tracking' = Delete(tracking, HeadId)
  /\ StoreResult(HeadId, Head(queue).result)
  /\ Emit(<<>>)
  /\ UNCHANGED <<lifecycle, executorVars>>

\* A result is handed out once.
HandleQuery ==
  /\ Popped({"Query"})
  /\ results' = OtherResults(HeadId)
  /\ Emit(<<[type |-> "QueryResult", id |-> HeadId,
             found |-> HasResult(HeadId)]>>)
  /\ UNCHANGED <<jobs, lifecycle, policyVars, executorVars>>

\* Actions no module handles; they matter to IpcModule::intercept_action only.
HandleNotice ==
  /\ Popped({"Rejected", "Started", "Controlled", "QueryResult"})
  /\ Emit(<<>>)
  /\ UNCHANGED <<stateVars, policyVars, executorVars>>

Drain ==
  \/ HandleSubmit
  \/ HandleAdmitted
  \/ HandleStartProcess
  \/ HandleRegisterInterest
  \/ HandleRemoveInterest
  \/ HandlePerformIo
  \/ HandleControl
  \/ HandleTimeoutReached
  \/ HandleKillDeadlineReached
  \/ HandleSignalProcess
  \/ HandlePollProcess
  \/ HandleFinished
  \/ HandleQuery
  \/ HandleNotice

-----------------------------------------------------------------------------
(***************************************************************************)
(* The children.  A child ends when it likes and as it likes: it exits, or *)
(* a signal kills it, which need not be the daemon's (SIGSEGV, the kernel  *)
(* out of memory); one the daemon sends may come too late to count.        *)
(***************************************************************************)
ChildExits(h) ==
  /\ h \in DOMAIN processes
  /\ processes[h].state = "running"
  /\ \E status \in EndStatuses :
       processes' = [processes EXCEPT ![h].state = "zombie",
                                      ![h].status = status]
  /\ UNCHANGED <<phase, queue, next_id, stateVars, policyVars, drains,
                 fd_map, epoll, next_handle>>

Requests ==
  \/ \E timeout \in Timeouts : RequestSubmit(timeout)
  \/ \E id \in JobIds, signal \in ControlSignals : RequestControl(id, signal)
  \/ \E id \in JobIds : RequestQuery(id)
  \/ \E id \in JobIds, stream \in Streams : RequestRemoveInterest(id, stream)
  \/ \E id \in JobIds : RequestPoll(id)

Loop ==
  \/ \E fd \in Fds : FdReady(fd)
  \/ \E id \in JobIds : TimeoutFires(id)
  \/ BeginDrain
  \/ EndIteration
  \/ Drain

Children == \E h \in DOMAIN processes : ChildExits(h)

CoreNext == Requests \/ Loop \/ Children

CoreSpec == CoreInit /\ [][CoreNext]_coreVars

\* The loop is sequential code that never blocks while it has actions left,
\* and SIGKILL ends a child; nothing else has to happen.
CoreFairness ==
  /\ WF_coreVars(Drain)
  /\ WF_coreVars(BeginDrain)
  /\ WF_coreVars(EndIteration)
  /\ \A h \in 1..(2 * MaxSubmits) :
       WF_coreVars(ChildExits(h) /\ processes[h].sig = "kill")

FairCoreSpec == CoreSpec /\ CoreFairness

\* A host that serves the timeouts does so in every iteration: epoll_wait
\* returns no later than the next deadline, which no batch postpones for ever.
FairTimeoutSpec ==
  FairCoreSpec /\ \A id \in JobIds : SF_coreVars(TimeoutFires(id))

-----------------------------------------------------------------------------
(***************************************************************************)
(* Properties                                                              *)
(***************************************************************************)

\* The types of the variables.
TypeOK ==
  /\ phase \in {"requests", "events", "drain"}
  /\ queue \in Seq(Action)
  /\ next_id \in 1..(MaxSubmits + 1)
  /\ DOMAIN jobs \subseteq JobIds
  /\ \A id \in DOMAIN jobs : jobs[id] \in JobState
  /\ DOMAIN lifecycle \subseteq JobIds
  /\ \A id \in DOMAIN lifecycle : lifecycle[id] \in Lifecycles
  /\ results \in Seq([id : JobIds, result : ExecResult])
  /\ active_jobs \in 0..MaxJobs
  /\ DOMAIN tracking \subseteq JobIds
  /\ \A id \in DOMAIN tracking :
       tracking[id] \in {"WaitingForDeadline", "WaitingForKillGrace"}
  /\ next_handle \in Nat \ {0}
  /\ DOMAIN processes \subseteq Nat
  /\ \A h \in DOMAIN processes : processes[h] \in Process
  /\ DOMAIN drains \subseteq Nat
  /\ \A io \in DOMAIN drains :
       /\ DOMAIN drains[io] = {"job", "slots"}
       /\ drains[io].job \in JobIds
       /\ DOMAIN Slots(io) \subseteq Captured
       /\ \A s \in DOMAIN Slots(io) : Slots(io)[s] \in Fds
  /\ DOMAIN fd_map \subseteq Fds
  /\ \A fd \in DOMAIN fd_map : fd_map[fd] \in JobIds
  /\ epoll \subseteq Fds

Queued(type, id) ==
  \E i \in DOMAIN queue : queue[i].type = type /\ queue[i].id = id

\* Children are never forgotten: the job was started at some time.
HasChild(id) == \E h \in DOMAIN processes : processes[h].job = id

\* Admission counts exactly the jobs it let in and has not been told have
\* finished, across every interleaving of requests, polls and failed spawns:
\* a count too low admits more than max_jobs, one too high starves the daemon
\* (policy.rs:126-140).
SlotAccounting ==
  active_jobs = Cardinality(DOMAIN jobs
                              \cup {id \in JobIds : Queued("Admitted", id)})

\* Never more than max_jobs children that have not been reaped: the limit of
\* AdmissionControlModule holds for the processes of the kernel, though the
\* count is kept three actions away from the spawn and from the wait.
LiveChildrenBounded ==
  Cardinality({h \in DOMAIN processes : processes[h].state # "reaped"})
    <= MaxJobs

\* A job's handles lead to its own child and its own drain
\* (lifecycle.rs:44-50): no job signals, polls or drains another's.
OwnHandles ==
  \A id \in DOMAIN jobs :
    /\ HasProcess(id) => /\ jobs[id].process \in DOMAIN processes
                         /\ processes[jobs[id].process].job = id
    /\ HasIo(id) => /\ jobs[id].io \in DOMAIN drains
                    /\ drains[jobs[id].io].job = id

\* A descriptor the reactor watches is open, and the job its token leads to
\* is the job whose stream it is, although fd_map keeps the entries of closed
\* descriptors and the kernel hands their numbers out again
\* (runtime.rs:87-89, 185-190).
TokenLeadsToOwner ==
  \A fd \in epoll :
    /\ fd \in DOMAIN fd_map
    /\ \E io \in DOMAIN drains :
         fd \in Range(Slots(io)) /\ drains[io].job = fd_map[fd]

\* A stored result belongs to a job that is gone, and its status is the one
\* its child ended with: never the made-up 0 of a second wait on the same
\* child (spawn/mod.rs:298, result.rs:23).
ResultsAreTrue ==
  \A i \in DOMAIN results :
    /\ results[i].id \notin DOMAIN jobs
    /\ \E h \in DOMAIN processes :
         /\ processes[h].job = results[i].id
         /\ processes[h].state = "reaped"
         /\ processes[h].status = results[i].result.status
         /\ results[i].result.timed_out => processes[h].sig # "none"

Rank(id) ==
  IF id \notin DOMAIN lifecycle THEN 0
  ELSE CASE lifecycle[id] = "Admitted" -> 1
         [] lifecycle[id] = "Running" -> 2
         [] lifecycle[id] = "Terminating" -> 3
         [] lifecycle[id] = "Killed" -> 4
         [] lifecycle[id] = "Finished" -> 5

\* A job's lifecycle never goes back: no stop request or deadline that was
\* queued before a start or a stronger signal undoes it (lifecycle.rs:20-48).
LifecycleForward == [][\A id \in JobIds : Rank(id) <= Rank(id)']_coreVars

\* A child that was reaped is left alone: its pid may be another process's by
\* now, and kill(2) would hit that one (spawn/mod.rs:319-327).
ReapedLeftAlone ==
  [][\A h \in DOMAIN processes :
       processes[h].state = "reaped" => processes'[h] = processes[h]]_coreVars

\* A job finishes once: a result appears only for a job that was live, so a
\* result that was queried or evicted never comes back (result.rs:10-36).
FinishesOnce ==
  [][\A i \in DOMAIN results' :
       results'[i] \in Range(results) \/ results'[i].id \in DOMAIN jobs]_coreVars

\* The queue drains: whatever one batch asked for, the actions its actions
\* give rise to come to an end (lib.rs:51-68).
DrainTerminates == (phase = "drain") ~> (phase = "requests")

\* Every submission is answered: Started or Rejected reaches the IPC layer
\* (policy.rs:125-135, lifecycle.rs:44-58).
SubmissionAnswered ==
  \A id \in JobIds :
    Queued("Submit", id) ~> (Queued("Started", id) \/ Queued("Rejected", id))

\* Polling a child that has ended retires its job: it leaves the table and
\* gives its admission slot back (runtime.rs:160-178, result.rs:22-36).
PollRetires ==
  \A id \in JobIds :
    (/\ Queued("PollProcess", id)
     /\ HasProcess(id)
     /\ processes[jobs[id].process].state = "zombie") ~> (id \notin DOMAIN jobs)

\* A stop that is queued for a job with a child is carried out: between the
\* request of a client, or the deadline, and the signal lie the guard of
\* ProcessModule and turns of other actions, and at the end the child was told
\* to stop or has ended (process.rs:9-25, lifecycle.rs:20-26).
StopReachesChild ==
  \A id \in JobIds :
    (HasProcess(id) /\ (Queued("Control", id) \/ Queued("TimeoutReached", id)))
      ~> (\E h \in DOMAIN processes :
            processes[h].job = id
              /\ (processes[h].state # "running" \/ processes[h].sig # "none"))

-----------------------------------------------------------------------------
(***************************************************************************)
(* What the documentation says and the code does not do.                   *)
(***************************************************************************)

\* The kill policy (README.md:67): a child told to stop that outlives the
\* grace period is killed (sys/mod.rs:45 "implies term then kill").
KillEscalates ==
  \A id \in JobIds :
    (HasProcess(id) /\ id \in DOMAIN tracking
       /\ tracking[id] = "WaitingForKillGrace")
      ~> (\E h \in DOMAIN processes :
            processes[h].job = id
              /\ (processes[h].state # "running" \/ processes[h].sig = "kill"))

\* As many jobs as there may be are on their way or running.
Busy ==
  Cardinality({id \in JobIds :
                 \/ Queued("Admitted", id)
                 \/ id \in DOMAIN jobs /\ lifecycle[id] # "Finished"})
    >= MaxJobs

\* A submission is turned away when max_jobs is reached (policy.rs:130).
LimitMeansBusy == [][HandleSubmit /\ AtLimit => Busy]_coreVars

=============================================================================
