---------------------------- MODULE TimeoutPolicy ----------------------------
(***************************************************************************)
(* TimeoutPolicyModule (src/src/core/policy.rs:5-108) with a clock, in the *)
(* loop of a host that serves it: epoll_wait sleeps for as long as         *)
(* compute_timeout_ms says, and handle_event is called after it returns.   *)
(* run_daemon does the first and not the second (core/mod.rs:249-272).     *)
(***************************************************************************)
EXTENDS Integers, FiniteSets, Maps

CONSTANTS
  Jobs,         \* jobs that may be admitted
  Budgets,      \* values of timeout_ms, in milliseconds
  Grace,        \* kill_grace_ms, in milliseconds
  TicksPerMs,   \* resolution of Instant
  Half,         \* 2^31, past the last value of the i32 that epoll_wait takes
  MaxClock      \* bound: the clock stops there

ASSUME TimesAssumption ==
  /\ Budgets \subseteq 0..(2 * Half - 1)
  /\ Grace \in 0..(2 * Half - 1)
  /\ TicksPerMs \in Nat \ {0}
  /\ Half \in Nat \ {0}
  /\ MaxClock \in Nat

Never == -1     \* no Instant

VARIABLES
  clock,      \* Instant::now()
  tracking,   \* TimeoutPolicyModule::tracking
  at,         \* "run", "asleep" in epoll_wait, or "woken"
  slept,      \* when epoll_wait was called
  wake,       \* when it gives up
  emitted,    \* what handle_event emitted in this iteration
  told,       \* when TimeoutReached was emitted for each job
  finished    \* jobs that have finished

vars == <<clock, tracking, at, slept, wake, emitted, told, finished>>

Entry == [state : {"WaitingForDeadline", "WaitingForKillGrace"}, due : Nat]

Ticks(ms) == ms * TicksPerMs

Init ==
  /\ clock = 0
  /\ tracking = EmptyMap
  /\ at = "run"
  /\ slept = 0
  /\ wake = Never
  /\ emitted = {}
  /\ told = [j \in Jobs |-> Never]
  /\ finished = {}

Tick ==
  /\ clock < MaxClock
  /\ clock' = clock + 1
  /\ UNCHANGED <<tracking, at, slept, wake, emitted, told, finished>>

-----------------------------------------------------------------------------
(***************************************************************************)
(* handle: the actions that reach the module.                              *)
(***************************************************************************)

\* Admitted, with a timeout.
Admit(j) ==
  /\ at = "run"
  /\ j \notin DOMAIN tracking \cup finished
  /\ \E ms \in Budgets :
       tracking' = Insert(tracking, j, [state |-> "WaitingForDeadline",
                                        due |-> clock + Ticks(ms)])
  /\ UNCHANGED <<clock, at, slept, wake, emitted, told, finished>>

\* Mutant: a job that finished is tracked on.
UntrackNever(j) == UNCHANGED tracking

Untrack(j) == tracking' = Delete(tracking, j)

\* Finished.
Finish(j) ==
  /\ at = "run"
  /\ j \in DOMAIN tracking
  /\ Untrack(j)
  /\ finished' = finished \cup {j}
  /\ UNCHANGED <<clock, at, slept, wake, emitted, told>>

-----------------------------------------------------------------------------
(***************************************************************************)
(* compute_timeout_ms.                                                     *)
(***************************************************************************)

\* "as i32" keeps the low bits.
AsI32(n) == ((n + Half) % (2 * Half)) - Half

\* Mutant: a deadline that has passed does not count.
MsLeftOfFuture(j) ==
  IF tracking[j].due > clock
  THEN AsI32((tracking[j].due - clock) \div TicksPerMs) ELSE -1

\* The milliseconds to an entry's deadline, cut off.
MsLeft(j) ==
  IF tracking[j].due > clock
  THEN AsI32((tracking[j].due - clock) \div TicksPerMs) ELSE 0

\* One turn of the loop over the entries: -1 is "none yet".
Smaller(min, ms) == IF min = -1 \/ ms < min THEN ms ELSE min

\* A HashMap is iterated in any order.
Orders(S) ==
  {p \in [1..Cardinality(S) -> S] : \A i, k \in DOMAIN p : p[i] = p[k] => i = k}

ComputeTimeout(order) ==
  LET min[i \in 0..Cardinality(DOMAIN order)] ==
        IF i = 0 THEN -1 ELSE Smaller(min[i - 1], MsLeft(order[i]))
  IN min[Cardinality(DOMAIN order)]

-----------------------------------------------------------------------------
(***************************************************************************)
(* The loop of the host.                                                   *)
(***************************************************************************)

\* A negative timeout makes epoll_wait wait for an event.
Sleep ==
  /\ at = "run"
  /\ at' = "asleep"
  /\ slept' = clock
  /\ \E order \in Orders(DOMAIN tracking) :
       LET ms == ComputeTimeout(order)
       IN wake' = IF ms < 0 THEN Never ELSE clock + Ticks(ms)
  /\ emitted' = {}
  /\ UNCHANGED <<clock, tracking, told, finished>>

WakeUp ==
  /\ at = "asleep"
  /\ wake # Never
  /\ clock >= wake
  /\ at' = "woken"
  /\ UNCHANGED <<clock, tracking, slept, wake, emitted, told, finished>>

\* A stream or the socket is ready.
Event ==
  /\ at = "asleep"
  /\ at' = "woken"
  /\ UNCHANGED <<clock, tracking, slept, wake, emitted, told, finished>>

Due(j, state) == tracking[j].state = state /\ clock >= tracking[j].due

\* Mutant: the grace period starts at the deadline that was missed.
GraceFromDeadline(j) == tracking[j].due + Ticks(Grace)

\* The grace period starts when the deadline is seen to have passed.
GraceEnd(j) == clock + Ticks(Grace)

\* Mutant: the entry stays as it is.
AdvanceNever(j) == tracking[j]

\* handle_event on one entry.
Advance(j) ==
  IF Due(j, "WaitingForDeadline")
  THEN [state |-> "WaitingForKillGrace", due |-> GraceEnd(j)]
  ELSE tracking[j]

HandleEvent ==
  /\ at = "woken"
  /\ at' = "run"
  /\ emitted' =
       {<<"TimeoutReached", j>> :
          j \in {k \in DOMAIN tracking : Due(k, "WaitingForDeadline")}}
       \cup
       {<<"KillDeadlineReached", j>> :
          j \in {k \in DOMAIN tracking : Due(k, "WaitingForKillGrace")}}
  /\ told' = [j \in Jobs |->
                IF <<"TimeoutReached", j>> \in emitted' THEN clock ELSE told[j]]
  /\ tracking' = [j \in DOMAIN tracking |-> Advance(j)]
  /\ UNCHANGED <<clock, slept, wake, finished>>

Next ==
  \/ Tick
  \/ \E j \in Jobs : Admit(j) \/ Finish(j)
  \/ Sleep
  \/ WakeUp
  \/ Event
  \/ HandleEvent

Spec == Init /\ [][Next]_vars

\* Time passes, and the host's loop goes round: an iteration always ends.
FairSpec ==
  Spec /\ WF_vars(Tick) /\ WF_vars(Sleep) /\ WF_vars(WakeUp)
       /\ WF_vars(HandleEvent)

-----------------------------------------------------------------------------
(***************************************************************************)
(* Properties                                                              *)
(***************************************************************************)

\* The types of the variables; who has finished is tracked no more, and an
\* entry waits for the kill exactly when its job was told to stop.
TimeoutTypeOK ==
  /\ clock \in 0..MaxClock
  /\ DOMAIN tracking \subseteq Jobs
  /\ \A j \in DOMAIN tracking : tracking[j] \in Entry
  /\ at \in {"run", "asleep", "woken"}
  /\ slept \in 0..MaxClock
  /\ wake \in Nat \cup {Never}
  /\ told \in [Jobs -> 0..MaxClock \cup {Never}]
  /\ finished \subseteq Jobs \ DOMAIN tracking
  /\ \A j \in DOMAIN tracking :
       tracking[j].state = "WaitingForKillGrace" <=> told[j] # Never

\* No deadline is 2^31 milliseconds away or more: "as i32" changes nothing.
\* (Beyond that the count turns negative, and one such job hides the deadlines
\* of all the others.)
AllShort ==
  \A j \in DOMAIN tracking : tracking[j].due - slept < Ticks(Half)

\* The loop sleeps past no deadline, in whatever order the entries are looked
\* at and however many have passed already, and it sleeps until an event when
\* there is none (policy.rs:32-52).
SleepsUntilFirstDeadline ==
  (at = "asleep" /\ AllShort) =>
    /\ wake = Never <=> DOMAIN tracking = {}
    /\ \A j \in DOMAIN tracking :
         wake <= (IF tracking[j].due > slept THEN tracking[j].due ELSE slept)

\* The kill deadline of a job comes a whole grace period after it was told to
\* stop, however late that was, and no job that finished is told anything
\* (policy.rs:74-76, 86-103).
GraceIsGiven ==
  [][emitted = {} =>
       \A e \in emitted' :
         /\ e[2] \notin finished
         /\ e[1] = "KillDeadlineReached" =>
              told[e[2]] # Never /\ clock >= told[e[2]] + Ticks(Grace)]_vars

\* A job is told once that its time is up: a second SIGTERM would start the
\* grace period again (policy.rs:94-95).
ToldOnce == [][\A j \in Jobs : told[j] # Never => told'[j] = told[j]]_vars

\* A job that outlives its deadline is told so, if no deadline is too far away
\* to be counted (policy.rs:82-96).
DeadlineServed ==
  [](\A j \in DOMAIN tracking : tracking[j].due < Ticks(Half))
    => \A j \in Jobs :
         (j \in DOMAIN tracking) ~> (told[j] # Never \/ j \in finished)

=============================================================================
