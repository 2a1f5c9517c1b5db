------------------------------ MODULE SyncSpawn ------------------------------
(***************************************************************************)
(* spawn and wait_loop (src/src/low_level/spawn/mod.rs:450-480, 770-849),  *)
(* over the backends, with the child, its signals and a clock.             *)
(*                                                                         *)
(* spawn takes every slot out of the drain before it calls wait_loop, so   *)
(* is_done holds in the first turn of the loop: what the code would do     *)
(* after that (the later turns, epoll, the streams) is never reached.      *)
(***************************************************************************)
EXTENDS SpawnBackends

CONSTANTS
  SpawnTimeouts,  \* values of timeout_ms, besides None
  MaxTime         \* bound: the clock stops there

NoTimeout == -1
Cancels == {"None", "Graceful", "Kill"}
NoStatus == "none"

ASSUME ClockAssumption ==
  /\ MaxTime \in Nat
  /\ SpawnTimeouts \subseteq Nat

VARIABLES
  params,      \* of spawn: wait, timeout, cancel, and pgroup if one is named
  registered,  \* the slots given to the reactor and forgotten
  at,          \* where spawn is
  clock,       \* Instant::now()
  deadline,    \* of wait_loop
  timed_out,   \* of wait_loop
  kid,         \* the kernel's view of the child: state, status and signal
  status       \* status_raw and, in the end, Output::status

loopVars == <<params, registered, at, deadline, timed_out, status>>
vars == <<spawnVars, loopVars, clock, kid>>

Init ==
  /\ SpawnInit
  /\ params \in [wait : BOOLEAN, timeout : SpawnTimeouts \cup {NoTimeout},
                cancel : Cancels, group : BOOLEAN]
  /\ registered = {}
  /\ at = "start"
  /\ clock = 0
  /\ deadline = NoTimeout
  /\ timed_out = FALSE
  /\ kid = [state |-> "none", status |-> NoStatus, sig |-> "none"]
  /\ status = NoStatus

Tick ==
  /\ clock < MaxTime
  /\ clock' = clock + 1
  /\ UNCHANGED <<spawnVars, loopVars, kid>>

-----------------------------------------------------------------------------
(***************************************************************************)
(* The child.  It need not end: with pipes nobody reads it may be waiting  *)
(* for room in one of them.                                                *)
(***************************************************************************)

EndsWith(sig) ==
  CASE sig = "none" -> {"success", "failure"}
    [] sig = "term" -> {"success", "failure", "terminated"}
    [] sig = "kill" -> {"killed"}

KidEnds ==
  /\ kid.state = "running"
  /\ \E s \in EndsWith(kid.sig) :
       kid' = [kid EXCEPT !.state = "zombie", !.status = s]
  /\ UNCHANGED <<spawnVars, loopVars, clock>>

\* waitpid reaps a child that ended; ECHILD is taken for exit code 0.
Reap ==
  /\ kid.state \in {"zombie", "reaped"}
  /\ kid' = [kid EXCEPT !.state = "reaped"]
  /\ status' = IF kid.state = "zombie" THEN kid.status ELSE "success"

\* Process::kill and kill_pgroup: to signal nobody is a success.  The group
\* that is signalled is numbered like the child, which may be in another one
\* (ProcessGroup::leader) or not in its own yet (setsid).
KillKid(sig) ==
  \/ kid' = [kid EXCEPT !.sig = IF kid.state = "running" THEN sig ELSE @]
  \/ params.group /\ UNCHANGED kid

-----------------------------------------------------------------------------
(***************************************************************************)
(* spawn.                                                                  *)
(***************************************************************************)

Starting ==
  /\ at = "start"
  /\ SpawnStart
  /\ kid' = IF child.state = "none" /\ child'.state # "none"
            THEN [kid EXCEPT !.state = "running"] ELSE kid
  /\ at' = CASE step' = "failed" -> "error"
             [] step' = "started" -> "register"
             [] OTHER -> at
  /\ UNCHANGED <<params, registered, deadline, timed_out, status, clock>>

\* take_all_slots, add_with_token and mem::forget, slot by slot.
Register(s) ==
  /\ at = "register"
  /\ s \in wants \ registered
  /\ registered' = registered \cup {s}
  /\ UNCHANGED <<spawnVars, params, at, deadline, timed_out, status, clock, kid>>

\* Mutant: the slots that are left are forgotten as well.
DropNoSlots == UNCHANGED <<table, drain>>

\* add_with_token fails: the slots that are left are dropped.
DropSlotsLeft ==
  LET left == {ParentEnd(s) : s \in wants \ registered}
  IN /\ table' = Closing(drain, left)
     /\ drain' = Without(drain, left)

RegisterFails ==
  /\ at = "register"
  /\ wants \ registered # {}
  /\ DropSlotsLeft
  /\ at' = "error"
  /\ step' = "dropped"
  /\ UNCHANGED <<optionVars, pipes, todo, actions, child, params, registered,
                 deadline, timed_out, status, clock, kid>>

\* All registered: spawn returns, or enters wait_loop.
Registered ==
  /\ at = "register"
  /\ wants = registered
  /\ at' = IF params.wait THEN "first_wait" ELSE "returned"
  /\ UNCHANGED <<spawnVars, params, registered, deadline, timed_out, status,
                 clock, kid>>

-----------------------------------------------------------------------------
(***************************************************************************)
(* wait_loop.                                                              *)
(***************************************************************************)

\* Mutant: a status that is known already is waited for again.
WaitStepAgain == Reap \/ (kid.state = "running" /\ UNCHANGED <<kid, status>>)

\* wait_step when there is no status yet.
WaitStep ==
  \/ status = NoStatus /\ Reap
  \/ (status # NoStatus \/ kid.state = "running") /\ UNCHANGED <<kid, status>>

\* The status, if there is one, and the deadline after it.
FirstWait ==
  /\ at = "first_wait"
  /\ WaitStep
  /\ deadline' = IF params.timeout = NoTimeout THEN NoTimeout
                 ELSE clock + params.timeout
  /\ at' = "check"
  /\ UNCHANGED <<spawnVars, params, registered, timed_out, clock>>

Expired == deadline # NoTimeout /\ clock >= deadline

\* The deadline, in the only turn of the loop there is: KillState::None.
Check ==
  /\ at = "check"
  /\ timed_out' = Expired
  /\ \/ Expired /\ params.cancel = "Graceful" /\ KillKid("term")
     \/ Expired /\ params.cancel = "Kill" /\ KillKid("kill")
     \/ (Expired => params.cancel = "None") /\ UNCHANGED kid
  /\ at' = "second_wait"
  /\ UNCHANGED <<spawnVars, params, registered, deadline, status, clock>>

SecondWait ==
  /\ at = "second_wait"
  /\ WaitStep
  /\ at' = "blocking"
  /\ UNCHANGED <<spawnVars, params, registered, deadline, timed_out, clock>>

\* Mutant: there is no wait_blocking.
LastStatusKnown == status # NoStatus /\ UNCHANGED <<kid, status>>

\* wait_blocking unless the status is known.
LastStatus ==
  \/ status = NoStatus /\ Reap
  \/ status # NoStatus /\ UNCHANGED <<kid, status>>

\* is_done: the status and the output, which is empty.
WaitBlocking ==
  /\ at = "blocking"
  /\ LastStatus
  /\ at' = "returned"
  /\ UNCHANGED <<spawnVars, params, registered, deadline, timed_out, clock>>

Spawning ==
  \/ Starting
  \/ \E s \in StreamSet : Register(s)
  \/ RegisterFails
  \/ Registered
  \/ FirstWait
  \/ Check
  \/ SecondWait
  \/ WaitBlocking

Next == Spawning \/ KidEnds \/ Tick

Spec == Init /\ [][Next]_vars

\* spawn goes on while it can, and SIGKILL ends a child.
FairSpec ==
  Spec /\ WF_vars(Spawning) /\ WF_vars(Tick) /\ WF_vars(KidEnds /\ kid.sig = "kill")

-----------------------------------------------------------------------------
(***************************************************************************)
(* Properties                                                              *)
(***************************************************************************)

\* What spawn reports is what happened: the status is the one the child ended
\* with and not the 0 of a second waitpid, the child has been reaped, timed_out
\* means that the deadline had passed, and no child was signalled for any other
\* reason (spawn/mod.rs:288-317, 786-848).
ReportIsTrue ==
  (at = "returned" /\ params.wait) =>
    /\ kid.state = "reaped"
    /\ status = kid.status
    /\ timed_out => clock >= deadline
    /\ kid.sig # "none" => timed_out /\ params.cancel # "None"

\* An error of spawn leaves the parent no descriptor but those the reactor was
\* given before, which were forgotten on purpose (spawn/mod.rs:463-466).
ErrorGivesBack ==
  at = "error" =>
    \A fd \in DOMAIN table \ host :
      \E s \in registered : table[fd] = ParentEnd(s)

\* A child that ends lets a waiting spawn return (spawn/mod.rs:305-317, 832).
WaitEnds ==
  (params.wait /\ at # "start" /\ at # "error" /\ kid.state = "zombie")
    ~> (at \in {"returned", "error"})

-----------------------------------------------------------------------------
(***************************************************************************)
(* What the documentation says and the code does not do.                   *)
(***************************************************************************)

\* A spawn with a timeout and a policy that kills the child itself is bounded
\* (spawn/mod.rs:414): from the first turn of wait_loop, with a deadline that
\* the clock comes to, it returns.
TimeoutBoundsSpawn ==
  (/\ at = "check"
   /\ deadline # NoTimeout /\ deadline <= MaxTime
   /\ params.cancel = "Kill"
   /\ ~params.group) ~> (at = "returned")

=============================================================================
