------------------------------ MODULE JobService ------------------------------
(***************************************************************************)
(* What the core promises about jobs, with no queue, no handles and no     *)
(* modules: a job is asked for, let in while there is room or rejected,    *)
(* started or not, told to stop perhaps, and retired once its child has    *)
(* ended; its result is kept until it is asked for or makes room.          *)
(***************************************************************************)
EXTENDS Integers, FiniteSets

CONSTANTS
  Jobs,        \* the jobs that may be asked for
  Statuses,    \* what a child may end with
  MaxJobs,     \* how many jobs may hold a slot
  MaxResults   \* how many results are kept

VARIABLES
  stage,    \* how far each job is
  ended,    \* the status of each child that has ended
  told,     \* jobs whose child was told to stop
  results   \* the results that are kept

vars == <<stage, ended, told, results>>

\* A job that could not be started keeps its slot.
Holding == {j \in Jobs : stage[j] \in {"admitted", "running", "failed"}}
Full == Cardinality(Holding) >= MaxJobs

Init ==
  /\ stage = [j \in Jobs |-> "none"]
  /\ ended = [j \in {} |-> 0]
  /\ told = {}
  /\ results = [j \in {} |-> 0]

Move(j, from, to) ==
  /\ stage[j] = from
  /\ stage' = [stage EXCEPT ![j] = to]

Ask(j) == Move(j, "none", "asked") /\ UNCHANGED <<ended, told, results>>

Admit(j) ==
  /\ ~Full
  /\ Move(j, "asked", "admitted")
  /\ UNCHANGED <<ended, told, results>>

Reject(j) ==
  /\ Full
  /\ Move(j, "asked", "rejected")
  /\ UNCHANGED <<ended, told, results>>

Start(j) ==
  /\ Move(j, "admitted", "running") \/ Move(j, "admitted", "failed")
  /\ UNCHANGED <<ended, told, results>>

TellToStop(j) ==
  /\ stage[j] = "running"
  /\ told' = told \cup {j}
  /\ UNCHANGED <<stage, ended, results>>

\* The child ends by itself, because it was told to, or killed by another.
ChildEnds(j, status) ==
  /\ stage[j] = "running"
  /\ j \notin DOMAIN ended
  /\ ended' = [i \in DOMAIN ended \cup {j} |->
                 IF i = j THEN status ELSE ended[i]]
  /\ UNCHANGED <<stage, told, results>>

\* The job gives its slot back and leaves its child's own status behind;
\* other results may have to go.
Retire(j) ==
  /\ Move(j, "running", "retired")
  /\ j \in DOMAIN ended
  /\ \E kept \in SUBSET DOMAIN results :
       /\ Cardinality(kept) < MaxResults
       /\ results' = [i \in kept \cup {j} |->
                        IF i = j
                        THEN [status |-> ended[j], timed_out |-> j \in told]
                        ELSE results[i]]
  /\ UNCHANGED <<ended, told>>

HandOut(j) ==
  /\ j \in DOMAIN results
  /\ results' = [i \in DOMAIN results \ {j} |-> results[i]]
  /\ UNCHANGED <<stage, ended, told>>

Next ==
  \E j \in Jobs :
    \/ Ask(j) \/ Admit(j) \/ Reject(j) \/ Start(j)
    \/ TellToStop(j)
    \/ \E status \in Statuses : ChildEnds(j, status)
    \/ Retire(j) \/ HandOut(j)

Spec == Init /\ [][Next]_vars

=============================================================================
