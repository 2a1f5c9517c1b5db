# CoreShift in TLA+

CoreShift is a job daemon: clients connect to a Unix socket, ask for a command
to be executed, and are told what became of it. Internally everything is an
`Action` on a queue; the `Dispatcher` shows each action to the modules it
concerns, the modules return further actions, `resolve_effects` turns some of
them into `Effect`s, the `EffectExecutor` applies those to the operating system,
and what comes back is an `Event` that yields actions again.

The program is single-threaded. What makes it hard is that one logical
operation (start a job, stop it, retire it) is spread over several turns of the
queue, with other jobs' actions in between, while outside the process children
end, pipes become ready, descriptors are reused and clients come and go as they
like.

Paths below are relative to the repository as it lies in `src/`: the crate is
`src/src/`.

## 1. The system

| part | code | state | operations |
|---|---|---|---|
| Action loop | `src/src/lib.rs` | the queue of one iteration | collect requests, collect events, drain |
| Dispatcher, effect resolution | `core/mod.rs` | `ExecutionState` (jobs, lifecycle, results) | `dispatch`, `dispatch_event`, `resolve_effects` |
| Admission control | `core/policy.rs` | `active_jobs` | Submit, Finished |
| Timeout policy | `core/policy.rs` | `tracking` (deadline, then grace) | Admitted, Finished, `handle_event`, `compute_timeout_ms` |
| Lifecycle | `core/lifecycle.rs` | `jobs`, `lifecycle` | Admitted, SignalProcess, ProcessStarted, ProcessSpawnFailed |
| Process | `core/process.rs` | none | Control, TimeoutReached, KillDeadlineReached |
| Io | `core/io.rs` | none | ProcessStarted, FdReady |
| Result | `core/result.rs` | `results`; takes jobs out of `jobs` | Query, Finished, ProcessExited, `evict_results` |
| Effect executor | `runtime.rs` | `processes`, `drains`, `fd_map`, `next_handle`, the reactor | StartProcess, KillProcess, PollProcess, WatchStream, UnwatchStream, PerformIo, `process_reactor_events` |
| IPC | `mid_level/ipc.rs` | `clients`, `job_to_client`, `next_client_id` | `handle_ready`, `intercept_action`, framing |
| Router and API | `mid_level/router.rs`, `high_level/api.rs` | `next_id` | Exec, GetResult, Cancel |
| Spawn backends | `low_level/spawn/mod.rs` | none | posix_spawn and fork paths |
| Process handle | `low_level/spawn/mod.rs` | a pid | `wait_step`, `wait_blocking`, `kill` |
| Synchronous spawn | `low_level/spawn/mod.rs` | kill state, drain, status | `spawn`, `wait_loop` |
| Drain, buffer, writer | `low_level/io/` | slots, bytes, position | `read_fd`, `write_stdin` |
| Reactor | `low_level/reactor/mod.rs` | epoll set, `next_token` | `add`, `del`, `wait` |
| System helpers | `low_level/sys/mod.rs` | none | argv, environment, signals |
| Android commands | `high_level/android.rs` | none | build argv |

How they interact: IPC and the router put `Submit`, `Query` and `Control` in the
batch; the executor's `FdReady` events put `PerformIo` there; the modules only
share `ExecutionState`; the handles that lead from a job to its child and its
drain are generated by the executor and stored in the job by a later event; the
IPC layer sees every action dispatched and answers a client when one concerns
it.

What makes each part correct:

- **Admission**: the count is the number of jobs let in and not finished; so
  there are never more live children than `max_jobs`; a count never lost.
- **Lifecycle, process**: a job's state goes forward only; a job is signalled
  only after it was started and as itself; its child is left alone once reaped;
  a deadline leads to SIGTERM and, after the grace period, to SIGKILL.
- **Result**: a result is the child's own status, appears once, and only when
  the job leaves the table.
- **Executor, reactor**: handles and tokens lead to their owners, although
  descriptors are reused and stale entries stay in `fd_map`.
- **Loop**: the queue drains; every submission is decided; a poll of a child that
  has ended retires its job.
- **IPC**: the two tables agree; a reply concerns the job asked about; every
  connection is accepted; a submitter is answered, and with its own answer.
- **Spawn backends**: no descriptor leaks or is closed by mistake on any path; the
  child finds its pipes at 0, 1 and 2 and never holds an end of the parent.
- **Drain, buffer, writer**: what is kept is the beginning of the output; no
  readiness is lost; the child is held up by neither its output nor its input.
- **Synchronous spawn**: the status is the child's, the child is reaped, and the
  call returns when the child ends.
- **Timeout policy**: the loop sleeps past no deadline; a job is told once; the
  grace period is given in full.

## 2. The modules

| module | models |
|---|---|
| `Maps` | `HashMap::insert` and `remove` on functions with finite domains |
| `ExecutionCore` | the loop, the six modules, effect resolution, the executor's tables, the children and the kernel's descriptors |
| `Ipc` | `IpcModule`, the router's requests, the listening socket, the clients |
| `Daemon` | both in one loop, as `run_daemon` composes them |
| `JobService` | abstract: what the core promises about jobs, without queue, handles or modules |
| `CoreService` | the refinement mapping from `ExecutionCore` to `JobService` |
| `Streams` | one child's pipes, `DrainState`, `BufferState`, `WriterState`, edge-triggered readiness, `PerformIo` read by read |
| `SpawnBackends` | `spawn_start`: pipes, both backends, early returns, the child's descriptors |
| `SyncSpawn` | `spawn` and `wait_loop` over `SpawnBackends`, with the child, its signals and a clock |
| `TimeoutPolicy` | `TimeoutPolicyModule` with a clock, and the host's sleep |
| `MCExecutionCore`, `MCDaemon` | the symmetry sets of the TLC instances |
| `ExecutionCoreProofs` | proofs: types, handles and tokens of `ExecutionCore` |
| `JobProofs` | proofs: slots, results, children and lifecycles of `ExecutionCore` |
| `DaemonProofs` | proofs about `Daemon` and `Ipc`; the daemon is the core |
| `ServiceProofs` | proofs: the core, and so the daemon, implements `JobService` |
| `StreamProofs`, `SpawnProofs`, `TimeoutProofs` | proofs about `Streams`, about `SpawnBackends` and `SyncSpawn`, about `TimeoutPolicy` |
| `Induction` | lemmas on naturals the proofs about recursive functions use |

### ExecutionCore

`phase` and `queue` are the place in the outer loop: `"requests"` and
`"events"` while a batch is collected (IPC events are handled before system
events, `lib.rs:40-47`), `"drain"` in the `while let` loop. One action of `Drain`
is one turn of that loop: pop, dispatch to the modules, resolve, apply the
effect, dispatch the event the effect returns, extend the queue with the
event's actions and then with the modules' own.

| TLA+ | code |
|---|---|
| `RequestSubmit`, `RequestControl`, `RequestQuery` | `Router::handle` |
| `RequestPoll`, `RequestRemoveInterest` | actions of the protocol no module emits: a host that embeds the loop |
| `FdReady` | `process_reactor_events` and `IoModule::handle_event` |
| `TimeoutFires` | one entry of `TimeoutPolicyModule::handle_event` |
| `HandleSubmit` | `AdmissionControlModule::handle` |
| `HandleAdmitted` | `LifecycleModule`, `TimeoutPolicyModule` on Admitted |
| `HandleStartProcess` | `Effect::StartProcess`, then `LifecycleModule` and `IoModule` on ProcessStarted or ProcessSpawnFailed |
| `HandleRegisterInterest`, `HandleRemoveInterest` | `Effect::WatchStream`, `UnwatchStream` |
| `HandlePerformIo` | `Effect::PerformIo`, `DrainState::read_fd` as far as slots go |
| `HandleControl`, `HandleTimeoutReached`, `HandleKillDeadlineReached` | `ProcessModule::handle` |
| `HandleSignalProcess` | `LifecycleModule::handle`, `Effect::KillProcess` |
| `HandlePollProcess` | `Effect::PollProcess`, `Process::wait_step`, `ResultModule::handle_event` |
| `HandleFinished` | admission, timeout and result modules on Finished, with `evict_results` |
| `HandleQuery` | `ResultModule::handle` on Query |
| `HandleNotice` | actions no module handles |
| `ChildExits` | the kernel |

Abstractions: a job is its number; a command, its environment and its output
are left out; a deadline is "there is one", and it passes whenever the host
asks; a result's age is abstracted to "any number of the oldest have expired";
a child ends with one of `ExitCodes` or dies of one of `DeathSignals`, whose number
negated is its status (`decode_status`), whoever sent the signal; a spawn may fail at
any time; log actions are dropped. A read of a stream may find any
set of the job's streams ended.

Descriptors are not numbered by a counter: a spawn gets any that are free, which
is what makes the stale entries of `fd_map` matter. The descriptors of the socket
and of its connections are not in `Fds`.

Three constants describe the host. `Polls` says when `PollProcess` is fed into
the loop: `"never"` is `run_daemon`; `"first"` is a host that polls a job at most
once per iteration and before the iteration's requests; `"any"` has no
discipline. `TimeoutWired` says whether the host calls the timeout module's
`handle_event`, which `dispatch_event` does not. `ControlSignals` are the signals
of `Control`; the router only builds `GracefulStop`.

### Ipc and Daemon

A client makes one connection, with one request. `Connect` puts it on the
backlog and raises an edge; `StartAccepting` is the readiness event; each turn of
the accept loop is `AcceptRequest` (composed with the router's action in
`Daemon!RouteRequest`), `DropConnection` or `StopAccepting`. `Intercept` is
`intercept_action`. With `LateRequests` a request may arrive after its
connection was accepted; with `GuessIds` a client may name any id, whether the
router has given it out or not; with `Malformed` it may send something that is no
request; with `AcceptFaults` `accept4` may fail with connections pending
(`AcceptFails`). The edge that announced those is used up then, and `failed` says so
until another connection comes: nobody calls `accept4` again before.
`ConnectionsAccepted` makes that exception (`Stranded`) and no other.

Ids are 1, 2, 3 and so on and the router takes any, so a client can name a job before
it exists. `SubmitterHearsItsFate` is about such clients too, and states the one case
in which they disturb a submitter: a query that named the id and was put in the batch
before the submission is answered, in the same iteration, to the submitter
(`EarlyQueryAnswered`). A client that asks later can take the submitter's route, and
with it the reply. `SubmitterAnswered` is therefore about clients that name an id only
after an Exec reply has told it (`GuessIds = FALSE` in `DaemonProgress`).

Taken as given: the socket is bound and listening (nothing in the repository calls
`bind` or `listen`, so `run_daemon` as it stands hears from no client: the model is
of a socket that was set up); peer credentials are
obtained; both capabilities of a peer are granted (their defaults); the response
is written whole.

### JobService and CoreService

`JobService` has one variable per thing a client could know: the `stage` of each job,
which children have `ended` and how, which were `told` to stop, and the `results` kept.
A job is let in only while fewer than `MaxJobs` hold a slot and rejected only when that
many do; a job whose spawn failed holds its slot for good, as in the code.
`CoreService!Stage` finds the stage in the queue and the tables: a job is still "asked"
while its `Submit` is queued, and "running" until `HandleFinished` takes it out, though
its child was reaped some turns before. `Endings`, `ToldJobs` and `KeptResults` read the
other three variables off the children and the results. `ServiceImplemented` says that
every step of the loop is one step of `JobService` or none.

### Streams

Bytes are numbered, so that a gap or a repetition shows. `pipe`, `closed`, `sent`
and `received` are the kernel's and the child's; `slots` and `kept` are the
`DrainState`; `ready` is epoll's list: a stream joins it when it becomes usable for
the parent (certainly) or at any other change (perhaps), and leaves it when it is
reported. `passes` and `at` are the `PerformIo` actions the reports became and the
slot being served; `Read` and `Write` are one system call each, so the child acts
between any two. The order of the slots is that of `runtime.rs:187-189`.

`live` says whether the job is in the table. `JobFinishes` takes it out, at any time
between two actions of the queue. From then on the reports of its streams are used up
for nothing (`EpollWait`, the guard at `io.rs:23`) and a `PerformIo` that waits is
dropped (`TakePass`, the guard at `core/mod.rs:308`), while its descriptors stay open
and watched. The liveness properties and `NoEdgeLost` are about the time before.

### SpawnBackends and SyncSpawn

`table` is the parent's descriptor table and `child.fds` the one the program starts
with. `host` is what was open before: descriptors about which nothing is known, not
even close-on-exec, with holes that `pipe2` fills, 0 to 2 among them. `MakePipe` to
`HandOver` are the steps of `spawn_posix_internal` and `spawn_fork_internal`.

Ownership is what decides when a descriptor is closed, so it is modelled: `pipes` has
the fields of `Pipes` that are `Some` and `drain` the slots of `DrainState`, each with
the number it owns, and a number leaves `table` when its owner is dropped. `CloseAll` is
the six takes of `close_all`, `DropChildEnds` and `HandOver` take the fields the code
takes there. Each early return is an action with the calls it makes: `PipeFails`,
`FileActionFails`, `PosixSpawnFails` and `ForkFails` before there is a child, and
`DrainFails` with the child running (`ExecutionCore` leaves that one out, as `fcntl`
does not fail on a pipe that is open). After each of them `Return` drops what the
function's locals still own. `close_all` is therefore a second line of defence: what
it left out would be closed by `Return`; closing by number without the take, so that the
number is closed twice, is the mistake `DescriptorsBalanced` would find.

What the forked child does before `execve`
is one step, as it works on a copy of the table. The two close-all fallbacks may
both be unavailable, as they are at the descriptor limit; then the host's
descriptors stay open in the child, which the doc comment at `spawn/mod.rs:419`
calls best effort.

`SyncSpawn` goes on with the registration of the slots in `spawn` and with
`wait_loop`. `spawn` has taken every slot out of the drain by then, so `is_done()`
holds in the first turn of the loop; the later turns (`spawn/mod.rs:851-886`), the
escalation to SIGKILL and the polling every 100 ms are never reached and not
modelled. The child may end between any two steps. A signal to a group may reach
nobody: the group signalled is numbered like the child, but `ProcessGroup::leader`
puts the child into another, and an isolated child is in its own only once it has
called `setsid`.

### TimeoutPolicy

`clock` counts ticks, `TicksPerMs` to a millisecond. `Sleep` computes the timeout as
`compute_timeout_ms` does, entry by entry in any order, cut to whole milliseconds
and to a signed integer of `2 * Half` values (`Half` is 2^31 for the `c_int` of the
code); `WakeUp` and `Event` end it; `HandleEvent` is
`TimeoutPolicyModule::handle_event`. A host like this one is needed because
`dispatch_event` does not call the module.

A deadline 2^31 ms (25 days) or more away becomes negative when it is narrowed with
`as i32`. It is then the smallest of all, so `compute_timeout_ms` returns it although
another job's deadline is near, and `epoll_wait` waits without limit: the job hides the
deadlines of all the others until some event arrives. `AllShort` excludes this
from `SleepsUntilFirstDeadline` and `DeadlineServed`; the runs have such a deadline.

## 3. The runs

Passing runs:

| run | question | instance |
|---|---|---|
| `PollingHost` | With a host that polls and serves the timeouts: does the core implement `JobService`, is the count right, are live children bounded, reaped pids left alone? | 2 jobs, 1 slot, 1 stored result, batches of 3 |
| `UnorderedPolls` | What still holds when polls come at any time, so that a job is reported finished several times? | 2 jobs, 2 slots, 4 descriptors, interest removed at any time |
| `LoopProgress` | Does the queue drain, is every submission decided, does a poll retire an ended child's job, does a stop that is queued reach the child? | 2 jobs, 1 slot, both timeouts and polls |
| `DaemonRouting` | Do the routing tables agree, do replies match, does a submitter hear its own fate, with late requests, clients that name any id, and jobs that finish while clients wait? | 3 clients, 1 slot, a polling host |
| `DaemonProgress` | Is every connection accepted, every submitter answered, and does a cancel of a running job answer whoever asked last? | 3 clients, fair loop, `accept4` may fail, ids named once told, no child ends (nobody polls) |
| `StreamIo` | Are bytes kept in order up to the limit, is no edge lost, do output and input flow, are ends noticed, with a job that may finish at any time? | 3 pipes of 2 bytes, limit 2 of 4 bytes, 3 bytes of input, chunks of 1 and 2 |
| `SpawnPaths` | What are parent and child left with on every path, what does a waiting spawn report, does it return? | every set of pipes, both backends, 10 hosts, descriptors 0 to 8, timeouts 0, 1 and none |
| `Deadlines` | Does the host sleep past no deadline, is each served, once, with its grace? | 2 jobs, deadlines of 0, 1, 3 and 5 ms, 2 ticks per ms, timeouts cut to 8 values (`Half` = 4) |

Why the bounds are enough. Two jobs are what interference between jobs needs:
a handle, a token or a slot that should be one's and is the other's. With two descriptors,
what one job needs, the second job gets the numbers of the first; with four, in
`UnorderedPolls`, both jobs of one batch can have theirs. One slot with two jobs
makes a rejection, and a slot given back and taken again, possible; one stored
result with two jobs makes eviction by number happen. A batch of two or three
puts two requests about one job, or a request and a poll of it, in the queue
together, and the queue itself is not bounded. Three clients are one that
submits and two that compete for its route, or three that submit.

In `StreamIo` a pipe is smaller than the output and the input, so both sides meet a full
and an empty pipe; the limit is met exactly and passed; a read chunk as large as a pipe
and a discard chunk smaller than it cut the data in different places. In `SpawnPaths`
nine descriptors are just enough for a host with 0, 1 and 2 open and three pipes, where
`/proc/self/fd` can no longer be opened, and one too few for the largest host, whose
third `pipe2` fails for want of numbers. In `Deadlines` two entries are what one can
hide of the other; 5 ms is too long for timeouts up to 3, as 2^31 ms is for a `c_int`;
the clock goes on for longer than a deadline that fits and its grace.

Deadlock is checked in the passing runs of the core and in `NoEscalation`;
`CHECK_DEADLOCK FALSE` is in the others, where the system comes to rest: each client
connects once, a child's output and the clock end, a spawn returns, and in
`FailedSpawnsFillUp` the submissions are used up while nothing runs.
Descriptors (and clients) are permuted where no liveness is checked.

The order in which a property depends on the host was found by checking it under
the weakest host first. `SlotAccounting`, `LiveChildrenBounded` and
`ReapedLeftAlone` do not hold when a job can be polled twice in a batch, or
polled behind a stop request: the second Finished decrements the count again, and
the signal reaches a pid that was given back. `LifecycleForward` assumes that
`Control` carries `GracefulStop` only, as the router's does: a graceful stop
dispatched behind a forced one would set Killed back to Terminating. No code of
the repository polls, so these are conditions on a host and not findings.

Runs that are expected to find a violation, each of one statement the repository
makes:

| run | statement | what happens |
|---|---|---|
| `NoEscalation` | "deadline + kill policy" (`README.md:67`), "term then kill" (`sys/mod.rs:45`) | the stop sets `timed_out`, which makes `KillDeadlineReached` a no-op |
| `FailedSpawnsFillUp` | "max_jobs {} reached" (`policy.rs:130`) | a failed spawn keeps its slot; with one slot, the next submission is rejected though no job runs or is on its way |
| `SpawnUnbounded` | "Spawns a new process with bounded execution constraints" (`spawn/mod.rs:414`) | the slots are gone before `wait_loop` starts, so it looks at the deadline once and then waits for the child for ever, though the clock comes to the deadline; no output is collected |
| `SlowRequestDropped` | dropped "on parse errors" (`ipc.rs:121`) | a request that is not there when the connection is accepted is dropped |

Disagreements that are plain from the code have no run:

- The README's "Timeout and lifecycle enforcement active" (`README.md:114`) is not
  true of `run_daemon`: `dispatch_event` (`core/mod.rs:249`) calls every module but
  the timeout policy, and no `TimeoutReached` is ever emitted. No property claims
  that a deadline is enforced by `run_daemon`. `StopReachesChild` begins where a
  `TimeoutReached` or a `Control` is in the queue, and `Deadlines` is about a host
  that does call the module.
- Who spawns with `wait = false` is responsible for reaping (`spawn/mod.rs:421`);
  the executor does (`runtime.rs:119`), and no module emits `PollProcess`, so under
  `run_daemon` a child that ended stays a zombie and its job never finishes.
- The route to a client is stored for queries and cancels too, though the comment
  speaks of creation actions (`ipc.rs:102`): with a cancel and a query of one job in
  a batch, the client that queried is sent `CancelOk`.
- `Controlled` "serves as the Ack" (`lifecycle.rs:32`), but a cancel of a job that
  is gone or was told to stop emits none, so its client is never answered.
  `RunningCancelAnswered` says which cancels are.

### Fairness

The loop is one thread that goes on as long as it has something to do, so a turn
of the inner loop, the start of a drain with a non-empty queue and the return to
`epoll_wait` are weakly fair (`CoreFairness`). A child that was sent SIGKILL ends.
No other child has to end, no client has to connect and no request has to come.
In `Daemon` the start of accepting is strongly fair: other events may fill any
iteration, but epoll serves its ready list in order, so the socket's turn comes.
`FairTimeoutSpec` describes a host that serves the timeouts in every iteration, which
`run_daemon` is not. Only `NoEscalation` uses it: even under such a host
`KillEscalates` fails.

In `Streams` the loop goes on while epoll has something for it, and, for `InputEnds`
alone, a child reads its input; it need not write, close or end. In `SyncSpawn` the
steps of `spawn`, time, and the end of a child that was sent SIGKILL are weakly
fair, and nothing else ends a child: `WaitEnds` starts from one that has ended. In
`TimeoutPolicy` time passes and the host's loop goes round; jobs need not finish,
and no event has to come.

## 4. What is proved

Every invariant of the passing runs is a theorem, for every value of the constants
that satisfies the assumptions the modules name, and so are the six action
properties and the refinement of `JobService`: every safety property of these runs.
The assumptions on the constants are those of the modules: limits and sizes are
positive, exit codes and signals are natural numbers and no signal is 0, budgets and
the grace fit the timeout's width, client ids do not come round.

| theorems | about | on the invariant |
|---|---|---|
| `TypeCorrect`, `HandlesCorrect` | `TypeOK`, `OwnHandles` | `HandleInv` |
| `FinishesOnceCorrect` | `FinishesOnce`, an action property | `HandleInv` |
| `TokensCorrect` | `TokenLeadsToOwner` | `TokenInv` |
| `ResultsCorrect` | `ResultsAreTrue` | `HandleInv`, `StartInv`, `TruthInv` |
| `SlotsCorrect`\* | `SlotAccounting` | and `SlotInv` |
| `LiveChildrenCorrect`\* | `LiveChildrenBounded` | and `SlotInv` |
| `ReapedCorrect`\* | `ReapedLeftAlone`, an action property | and `SlotInv` |
| `LifecycleCorrect`\*\* | `LifecycleForward`, an action property | `HandleInv`, `StartInv`, `TruthInv`, `LifeInv` |
| `DaemonIsCore` | a behaviour of `Daemon` is one of `ExecutionCore` | `IpcTypeOK` |
| `IpcTypeCorrect`, `RoutesCorrect`, `RepliesCorrect` | `IpcTypeOK`, `RoutesAgree`, `ReplyAboutAskedJob` | `IpcInv` |
| `SubmitterCorrect` | `SubmitterHearsItsFate`, an action property | `FateInv`, on `IpcInv`, `HandleInv`, `StartInv` and `LifeInv` |
| `ServiceCorrect`\*,\*\*, `DaemonServes`\* | `ServiceImplemented`, of the core and of the daemon | `ServiceInv` |
| `TimeoutTypeCorrect`, `SleepCorrect` | `TimeoutTypeOK`, `SleepsUntilFirstDeadline` | `TimeInv`, `FullInv` |
| `GraceIsGivenCorrect`, `ToldOnceCorrect` | `GraceIsGiven`, `ToldOnce`, action properties | `TimeInv` |
| `StreamTypesCorrect`, `OutputCorrect`, `InputCorrect`, `EdgesCorrect` | `StreamsTypeOK`, `OutputIsPrefix`, `InputIsPrefix`, `NoEdgeLost` | `StreamInv` |
| `BalanceCorrect`, `ParentCorrect` | `DescriptorsBalanced`, `ParentHoldsItsEnds` | `TableInv` |
| `ChildStreamsCorrect`, `NoParentEndCorrect` | `ChildFindsItsStreams`, `NoParentEndInChild` | `TableInv`, `ActionsInv`, `ChildInv` |
| `ErrorsGiveBackCorrect`, `ReportCorrect` | `ErrorGivesBack`, `ReportIsTrue` | `Inv` of `SpawnProofs` |

\* assumes `Polls # "any"`; \*\* assumes `ControlSignals \subseteq {"GracefulStop"}`.
Both describe the host and not the core. The code justifies the second: every
`Control` is made by `Router::handle`, with `GracefulStop` (and `Daemon` assumes
exactly that). The first holds of `run_daemon`, which polls nothing (no module emits
`PollProcess`); a host that embeds the loop has to keep to it, since the three
properties are false without it (section 3), and with `SlotAccounting` the admission
test of `JobService`. `ResultsCorrect`, `FinishesOnceCorrect`
and the others need neither.

### Types, handles, tokens

`TypeOK` is not inductive by itself: `HandlePollProcess` and `HandlePerformIo`
look a job's handles up in the executor's tables, so their results are typed only
if the handles are there. That is `OwnHandles`; and `OwnHandles` survives a spawn
only because the new handles are in use nowhere, which is `HandlesFresh` (every
handle in `processes` and `drains` is below `next_handle`). `HandleInv`, the
conjunction of the three, is inductive. The proof has one lemma per action,
`DrainStep` collects those of the inner loop, `NextHandleInv` all of them. The
parts of `TypeOK` are named (`QueueOK`, `StateOK`, ...), so that each lemma
proves those its action disturbs.

`TokenLeadsToOwner` is inductive on top of `HandleInv`. The argument is the one a
reader of `runtime.rs` has to make: `WatchStream` writes `fd_map` for a descriptor
in the same step as it registers it and, `epoll_ctl` refusing what it has already,
never for one that is registered; a slot is closed, and so leaves the reactor, in
the step that drops it; hence the entries that `fd_map` keeps of closed
descriptors are written again before their numbers can be reported. The proof
does not need that two slots never share a descriptor.

`FinishesOnce` is an action property; its proof needs `HandleInv` only for the
type of `results`. `results.remove` and `evict_results` are shown to add nothing
(lemmas `OtherResultsType` and `EvictedType`, for any set of elements), so that
the one new element is the one `Finished` of a live job brings.

### A job's whole life

One operation on a job takes several turns of the queue, and a turn trusts what the
earlier turns of the iteration left behind it. The invariants of `JobProofs`
therefore say which actions are never in the queue together, or never in one order
(`NoPair`); the lemmas on joined queues (`JoinItems` and those after it) reduce a
step to the pairs its new actions make.

- `StartInv`: a job has at most one action of the chain Submit, Admitted,
  StartProcess waiting, and none once it has a child. Without it a second
  `StartProcess` could take a job's child from it, and no child would be known to
  be its job's.
- `TruthInv`: of a live job whose child was reaped a `Finished` with the child's own
  status waits, and none with another status is before it. A second `wait_step` on
  a reaped child makes up the status 0 (`spawn/mod.rs:290-300`); the first Finished
  takes the job out of the table, and so the made-up one finds no job. This is
  why `ResultsAreTrue` survives any polling.
- `SlotInv`: where polls come before everything else, each Finished in the queue is
  of a job that is there, a job has one at most, and no poll or signal of it waits
  before it. Then `HandleFinished` decrements the count once for each job it
  takes out. `LiveChildrenBounded` follows by an injection from live children
  to jobs with a slot.
- `LifeInv`: a job that was killed had been told to stop, and nothing that would stop
  it again waits behind what kills it. It follows the deadline from `tracking`
  through TimeoutReached and KillDeadlineReached to the signals, and needs that in
  each phase the queue holds only what that phase can have put there.

### The daemon

`DaemonIsCore` shows each step of `Daemon` to be a step of `CoreNext` or to leave the
core alone, so all of the above holds of the daemon with its socket and clients.
`RoutesAgree` is kept only because the id `AcceptRequest` gives is unused, which is
`ClientIdsOK` (ids in use are at most the number of connections accepted), and
because a connection waits in the backlog once (`BacklogOK`); `IpcInv` adds both.

`SubmitterHearsItsFate` depends on what is in the queue. `FateInv` says that as long as
a job leads to its submitter, no result and no acknowledgement of it waits; that a query
or a cancel of it waits only together with the submission and before it, since the router
overwrites the route of whoever asked earlier; that the answer to such a query comes by
before the submission's fate does (`SubmitterClash`), which is the exception the
property makes; that of a job that has a child the Started waits; and that no poll is
between an admission and the announcement of the start. The last is why the property
holds with polls in any order: a poll found between the two would report the job
finished to a client waiting for Exec. No assumption on the ids clients name is needed.

### The refinement

`ServiceCorrect` says that under the mapping of `CoreService` each step of the core is
one of `JobService` or none. `ServiceInv` is what the mapping needs to be true:
the invariants of a job's whole life (`HandleInv` and the four above), and four of its own.

- `OneChild` and `Apart`: a job has one child, and the store one result of it, so
  that `ChildOf` and `ResultOf` are functions. `Apart` holds because the
  Finished that is stored is of a job in the table, and takes it out.
- `JobsKnown`: a job in the table has a lifecycle, from which `Stage` is read.
- `ToldInv`: a job whose child was signalled has `timed_out` set, and so has the
  Finished that waits for it. The code copies the flag of the job when it reaps the
  child; the service says whether the child was told to stop.

The proof goes variable by variable. `StageRules` gives the stage of a job by what
waits for it and where it is (`CasesExclude`: no two of the cases at once, by
`StartInv`); a lemma per action then says which one job moves, and from
where to where. `HoldingIsHeld` shows the jobs that hold a slot in the service to
be the ones the core counts, so that `Full` is the test of
`AdmissionControlModule` (`FullIsAtLimit`). A reaped child's status is the one the service's
`Retire` leaves behind because of `TruthInv` (`LastWords`). `FinishKeeps` follows
`evict_results` through the two ways it drops results and counts what is left.
`StepServes` collects the actions.

`DaemonServes` follows from it by `DaemonIsCore`, and needs no assumption on the
signals, as the router makes them.

### Timeouts, streams, descriptors

`TimeInv` adds to the types that a job that was told is or was tracked and that a kill
deadline is the time it was told plus the grace. `SleepsUntilFirstDeadline` is about
`compute_timeout_ms`, a loop over the entries in any order: lemma by lemma the result
of the recursive function is shown to be a lower bound that is attained.

`StreamInv`: the pipe holds the last bytes that entered it (`PipeIsRest`), which gives
`OutputIsPrefix`; a stream that is ready and not on epoll's list has its slot still
to be served in the pass that goes on or in one that waits (`EdgeCovered`), which gives
`NoEdgeLost` when the loop sleeps; once the job is gone neither claims anything.

`TableInv`: at each step of `spawn_start` the descriptors the parent has besides the
host's are those its owners hold, `pipes` before the hand-over and `drain` after it,
each the end its field says and no number in two fields; and it says which fields are
`Some` at which step. `BalanceCorrect` follows for every early return, because each
either takes fields together with the numbers they own or leaves both to `Return`.
`ActionsInv` is about the list of file actions (`Proper`: each `dup2` before what closes
its source, nothing else closed too early), and `ChildInv` of the table they leave the
child. `ReportInv` has the program counter of `wait_loop` in it: a status is known
exactly when the child was reaped, and a signal sent only after the deadline.

### Induction

A fact about what a recursive function computes is an induction, and the library's
induction theorems take an operator the provers cannot instantiate. `Induction` takes
the set of naturals with the property instead: `LeastNumber` comes from the well-
foundedness of the naturals, `SetInduction` from that, and `LoopRuns` says that a
loop over a list of turns has a run. That is enough for the loops proved about here
(`ComputeTimeout`, the file actions, the closing of descriptors).

### Model-checked only

- Liveness: `DrainTerminates`, `SubmissionAnswered`, `PollRetires`,
  `StopReachesChild`, `ConnectionsAccepted`, `SubmitterAnswered`,
  `RunningCancelAnswered`, `OutputDrained`, `EndNoticed`, `InputEnds`, `WaitEnds`,
  `DeadlineServed`. They rest on fairness, and the proof system has neither
  `ENABLED` nor the rules for it.
- The statements the last four runs refute.

## 5. What is not modelled

- The framing of requests and responses: a request has arrived or not, a response is
  written whole. A response is a few hundred bytes on a fresh socket, which takes
  them.
- Output bytes in `ExecutionCore`: the executor keeps them and nobody reads them.
- `early_exit`: the executor passes none, and `spawn` never reads.
- Errors of `read(2)` other than EAGAIN (a pipe gives none), and of `waitpid` other
  than ECHILD. An error of `fcntl` in `DrainState::new` is in `SpawnBackends` only.
- The turns of `wait_loop` after its first, which no call of it reaches.
- A wait status of neither exit nor signal: `waitpid` is called without
  `WUNTRACED`, so the kernel returns none.
- The wrap of `next_client_id`: the runs use fewer connections than ids.
- A child that writes for ever as fast as it is read: `read_from_fd` does not come
  back from it (`MaxOutput` bounds the output in `Streams`).
- The kernel's reuse of process numbers: a reaped child is simply to be left alone.
- Process groups, signal masks, the working directory and the environment, as far as
  they do not decide the backend or fail.
- `signalfd`, which nothing sets up.
- The Android command builders and the system-call helpers: strings and wrappers
  without state. The cut of `argv` and the environment at 63 strings is one
  conversion.

## 6. What is left

Of the safety properties of the passing runs none is left to prove. Liveness is: the
proofs would start from the invariants above, with a measure on the queue for
`DrainTerminates` and a chain of stages for the others, once a prover has the rules
for fairness. The hazards that no property covers are in `PROJECT.json`, each with
its reason: most lie in what section 5 leaves out.

The modules with proofs keep recursion in functions (`SpawnBackends`, `TimeoutPolicy`,
`ExecutionCore`), so that the provers can reach it; a change to a loop of the
code is a change to such a function and to the lemma about it.
