------------------------------- MODULE Daemon -------------------------------
(***************************************************************************)
(* run_daemon (src/src/lib.rs): IPC, the core and the executor in one      *)
(* loop.  Each iteration takes the requests of the clients, then the ready *)
(* streams, and drains the queue; every action the core dispatches is      *)
(* shown to the IPC layer on the way.                                      *)
(***************************************************************************)
EXTENDS ExecutionCore, Ipc

ASSUME DaemonAssumption ==
  /\ RequestIds = JobIds
  /\ ControlSignals = {"GracefulStop"}   \* the one signal Router::handle sends
  /\ Cardinality(Clients) <= MaxSubmits
  /\ Cardinality(Clients) + MaxSubmits <= MaxBatch

vars == <<coreVars, ipcVars>>

Init == CoreInit /\ IpcInit

ClientSteps ==
  /\ \E c \in Clients :
       \/ \E req \in Request \cup {Garbage} : Connect(c, req)
       \/ RequestArrives(c)
  /\ UNCHANGED coreVars

\* Router::handle: the request becomes the action that joins the batch.
RouteRequest ==
  /\ backlog # <<>>
  /\ LET req == request[Head(backlog)]
     IN \/ /\ req.type = "Submit"
           /\ AcceptRequest(next_id)
           /\ \E timeout \in Timeouts : RequestSubmit(timeout)
        \/ /\ req.type = "Query"
           /\ AcceptRequest(req.id)
           /\ RequestQuery(req.id)
        \/ /\ req.type = "Control"
           /\ AcceptRequest(req.id)
           /\ RequestControl(req.id, "GracefulStop")

\* The socket's event comes with the others that one epoll_wait reports.
BeginAccepting ==
  /\ phase = "requests"
  /\ queue = <<>>
  /\ StartAccepting
  /\ UNCHANGED coreVars

Accepting ==
  \/ BeginAccepting
  \/ RouteRequest
  \/ (DropConnection \/ StopAccepting \/ AcceptFails) /\ UNCHANGED coreVars

Dispatching ==
  /\ queue # <<>>
  /\ Drain
  /\ Intercept(Head(queue))

\* The rest of the loop, once the socket has been dealt with.
Polling ==
  /\ ~accepting
  /\ \/ \E id \in JobIds : RequestPoll(id)
     \/ \E fd \in Fds : FdReady(fd)
     \/ \E id \in JobIds : TimeoutFires(id)
     \/ BeginDrain
     \/ EndIteration
  /\ UNCHANGED ipcVars

Next ==
  \/ ClientSteps
  \/ Accepting
  \/ Dispatching
  \/ Polling
  \/ Children /\ UNCHANGED ipcVars

Spec == Init /\ [][Next]_vars

\* The loop is sequential: it goes on while it has something to do, and an
\* iteration that has begun is carried through.  epoll serves its ready list in
\* order, so the busiest streams do not hold the socket's event back for ever.
Fairness ==
  /\ SF_vars(BeginAccepting)
  /\ WF_vars(Accepting)
  /\ WF_vars(Dispatching)
  /\ WF_vars(~accepting /\ (BeginDrain \/ EndIteration) /\ UNCHANGED ipcVars)

FairSpec == Spec /\ Fairness

\* The answer to a query of c's own job that was in the batch before its
\* submission: it comes by before the submission is decided upon for good.
EarlyQueryAnswered(c) ==
  /\ queue # <<>>
  /\ Head(queue).type = "QueryResult"
  /\ Head(queue).id = request[c].id
  /\ Queued("Admitted", request[c].id) \/ Queued("Rejected", request[c].id)

\* A client that submitted hears Exec or Error: never the end of the job, a
\* cancel's acknowledgement or a query's answer, whoever else asks about the
\* job and whenever the host polls it; but for one case.  A query that named
\* the id before the Router gave it out is answered to the submitter, when the
\* two are requests of one iteration (ipc.rs:103, 135-188).
SubmitterHearsItsFate ==
  [][\A c \in Clients :
       request[c].type = "Submit" /\ reply'[c] # reply[c] =>
         reply'[c].kind \in {"Exec", "Error"} \/ EarlyQueryAnswered(c)]_vars

\* A cancel of a job that runs and was not told to stop is acknowledged to
\* whoever asked last about the job, be it with a query: no guard or answer on
\* the way loses it (process.rs:9-15, ipc.rs:146-153).
RunningCancelAnswered ==
  \A c \in Clients :
    (/\ phase = "drain"
     /\ \E id \in DOMAIN jobs \cap DOMAIN job_to_client :
          /\ Queued("Control", id)
          /\ HasProcess(id) /\ ~jobs[id].timed_out
          /\ clients[job_to_client[id]] = c) ~> (conn[c] = "answered")

=============================================================================
