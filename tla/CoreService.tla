----------------------------- MODULE CoreService -----------------------------
(***************************************************************************)
(* ExecutionCore as an implementation of JobService: where in the queue    *)
(* and in the tables of the core each job's stage is kept.                 *)
(***************************************************************************)
EXTENDS ExecutionCore

\* A job is between two stages while the action that moves it on is queued.
Stage(id) ==
  CASE id >= next_id -> "none"
    [] Queued("Submit", id) -> "asked"
    [] Queued("Admitted", id) -> "admitted"
    [] id \in DOMAIN jobs ->
         (IF HasProcess(id) THEN "running"
          ELSE IF lifecycle[id] = "Finished" THEN "failed" ELSE "admitted")
    [] OTHER -> IF HasChild(id) THEN "retired" ELSE "rejected"

\* Only ended and told look at the children themselves.
EndedChildren == {h \in DOMAIN processes : processes[h].state # "running"}
EndedJobs == {processes[h].job : h \in EndedChildren}
ChildOf(id) == CHOOSE h \in DOMAIN processes : processes[h].job = id

KeptJobs == {results[i].id : i \in DOMAIN results}
ResultOf(id) ==
  results[CHOOSE i \in DOMAIN results : results[i].id = id].result

\* The variables of the service.
Stages == [id \in JobIds |-> Stage(id)]
Endings == [id \in EndedJobs |-> processes[ChildOf(id)].status]
ToldJobs ==
  {processes[h].job : h \in {k \in DOMAIN processes : processes[k].sig # "none"}}
KeptResults == [id \in KeptJobs |-> ResultOf(id)]

Service == INSTANCE JobService WITH
  Jobs <- JobIds,
  stage <- Stages,
  ended <- Endings,
  told <- ToldJobs,
  results <- KeptResults

\* The core, in which one job's history is spread over the queue, six modules
\* and the executor's tables, does what JobService says: room is counted by
\* the jobs that hold it, no job is started twice or retired while its child
\* runs, and a result is its own child's (core/mod.rs:206-247, runtime.rs).
ServiceImplemented == Service!Spec

=============================================================================
