---------------------------- MODULE DaemonProofs ----------------------------
(***************************************************************************)
(* Proofs about Daemon.  A step of the daemon is a step of the execution   *)
(* core or leaves it alone, so all that is proved of the core holds of the *)
(* daemon.  What the clients are told rests on two more invariants: IpcInv *)
(* keeps the tables of IpcModule in step with the connections, FateInv     *)
(* relates them to the actions that wait in the queue.                     *)
(***************************************************************************)
EXTENDS Daemon, JobProofs

Accepted == {c \in Clients : conn[c] \in {"held", "answered"}}

\* A connection waits once, and only until it is accepted or dropped.
BacklogOK ==
  \A i \in 1..Len(backlog) :
    /\ conn[backlog[i]] = "pending"
    /\ \A k \in 1..Len(backlog) : backlog[i] = backlog[k] => i = k

\* The client ids in use are among those given out, so the next is free.
ClientIdsOK ==
  /\ \A k \in DOMAIN clients : k <= Cardinality(Accepted)
  /\ next_client_id = IF Cardinality(Accepted) = MaxClientId
                      THEN 1 ELSE Cardinality(Accepted) + 1

RepliesOK ==
  /\ \A c \in Clients : reply[c] # NoReply => conn[c] = "answered"
  /\ ReplyAboutAskedJob

IpcInv == IpcTypeOK /\ RoutesAgree /\ BacklogOK /\ ClientIdsOK /\ RepliesOK

\* What is said of a job to a client that asked about it.
AskTypes == {"Query", "QueryResult", "Control", "Controlled"}

\* No poll comes between an admission and the announcement of the start.
FateClash ==
  {p \in Action \X Action :
     \/ /\ p[1].type \in {"Admitted", "StartProcess", "Started"}
        /\ p[2].type = "PollProcess"
     \/ /\ p[1].type = "PollProcess"
        /\ p[2].type \in {"StartProcess", "Started"}}

\* The job leads to the client that submitted it.
ForSubmitter(job) ==
  /\ job \in DOMAIN job_to_client
  /\ request[clients[job_to_client[job]]].type = "Submit"

\* A request that names the job of a submission is before it in the queue; the
\* answer to a query is after it, and before what becomes of the submission.
SubmitterClash(job) ==
  {p \in Action \X Action :
     /\ p[1].id = job /\ p[2].id = job
     /\ \/ p[1].type = "Submit" /\ p[2].type \in {"Query", "Control"}
        \/ p[1].type = "QueryResult" /\ p[2].type = "Submit"
        \/ p[1].type \in {"Admitted", "Rejected"} /\ p[2].type = "QueryResult"}

\* The actions that wait for a job that leads to its submitter: a request of
\* another client can only be one made before the submission, whose answer, if
\* any, comes by while the submission is being decided upon.
SubmitterFate(job) ==
  /\ NoPair(queue, SubmitterClash(job))
  /\ ~WaitsAs("Controlled", job) /\ ~WaitsAs("Finished", job)
  /\ WaitsAs("Query", job) \/ WaitsAs("Control", job) =>
       /\ WaitsAs("Submit", job)
       /\ ~WaitsAs("Admitted", job) /\ ~WaitsAs("Rejected", job)
  /\ WaitsAs("QueryResult", job) =>
       \/ WaitsAs("Submit", job)
       \/ WaitsAs("Admitted", job) \/ WaitsAs("Rejected", job)
  /\ WaitsAs("StartProcess", job) \/ WaitsAs("Started", job) =>
       /\ ~WaitsAs("Query", job) /\ ~WaitsAs("Control", job)
       /\ ~WaitsAs("QueryResult", job)
  /\ HasChild(job) => WaitsAs("Started", job)

FateInv ==
  /\ NoPair(queue, FateClash)
  /\ \A job \in JobIds : ForSubmitter(job) => SubmitterFate(job)

-----------------------------------------------------------------------------
(***************************************************************************)
(* A step of the daemon is a step of the core.                             *)
(***************************************************************************)

LEMMA StepIsCore ==
  ASSUME IpcTypeOK, [Next]_vars
  PROVE  [CoreNext]_coreVars
  <1>1. CASE ClientSteps \/ (Children /\ UNCHANGED ipcVars) \/ UNCHANGED vars
    BY <1>1 DEF ClientSteps, CoreNext, vars
  <1>2. CASE Accepting
    <2>1. ASSUME RouteRequest PROVE CoreNext
      <3>1. backlog # <<>> /\ Head(backlog) \in Clients
        BY <2>1 DEF RouteRequest, IpcTypeOK
      <3> DEFINE req == request[Head(backlog)]
      <3>2. /\ req.type \in {"Query", "Control"} => req.id \in JobIds
        BY <3>1, DaemonAssumption
        DEF IpcTypeOK, NoRequest, Garbage, Request
      <3>3. "GracefulStop" \in ControlSignals
        BY DaemonAssumption
      <3>4. \/ \E timeout \in Timeouts : RequestSubmit(timeout)
            \/ req.type = "Query" /\ RequestQuery(req.id)
            \/ req.type = "Control" /\ RequestControl(req.id, "GracefulStop")
        BY <2>1 DEF RouteRequest
      <3> QED
        BY <3>2, <3>3, <3>4 DEF CoreNext, Requests
    <2> QED
      BY <1>2, <2>1 DEF Accepting, BeginAccepting
  <1>3. CASE Dispatching
    BY <1>3 DEF Dispatching, CoreNext, Loop
  <1>4. CASE Polling
    BY <1>4 DEF Polling, CoreNext, Loop, Requests
  <1> QED
    BY <1>1, <1>2, <1>3, <1>4 DEF Next

-----------------------------------------------------------------------------
(***************************************************************************)
(* The tables of IpcModule.                                                *)
(***************************************************************************)

\* How many were accepted: never more than there are clients, so ids last.
LEMMA AcceptedCount ==
  ASSUME IpcInv
  PROVE  /\ IsFiniteSet(Accepted)
         /\ Cardinality(Accepted) \in Nat
         /\ Cardinality(Accepted) <= MaxClientId
         /\ MaxClientId \in Nat \ {0}
         /\ \A c \in Clients \ Accepted : Cardinality(Accepted) < MaxClientId
  <1>1. /\ IsFiniteSet(Clients) /\ MaxClientId \in Nat \ {0}
        /\ Cardinality(Clients) <= MaxClientId
    BY IpcAssumption
  <1>2. Accepted \subseteq Clients
    BY DEF Accepted
  <1>3. /\ IsFiniteSet(Accepted)
        /\ Cardinality(Accepted) <= Cardinality(Clients)
        /\ Accepted # Clients => Cardinality(Accepted) # Cardinality(Clients)
    BY <1>1, <1>2, FS_Subset
  <1>4. Cardinality(Accepted) \in Nat /\ Cardinality(Clients) \in Nat
    BY <1>1, <1>3, FS_CardinalityType
  <1> DEFINE n == Cardinality(Accepted)
             m == Cardinality(Clients)
  <1> HIDE DEF n, m
  <1>5. n <= MaxClientId
    BY <1>1, <1>3, <1>4 DEF n, m
  <1>6. Accepted # Clients => n < MaxClientId
    BY <1>1, <1>3, <1>4 DEF n, m
  <1> QED
    BY <1>1, <1>2, <1>3, <1>4, <1>5, <1>6 DEF n

\* Nobody is accepted: the client ids stand.
LEMMA SameAccepted ==
  ASSUME IpcInv, Accepted' = Accepted,
         DOMAIN clients' \subseteq DOMAIN clients,
         next_client_id' = next_client_id
  PROVE  ClientIdsOK'
  BY DEF IpcInv, ClientIdsOK

LEMMA ConnectTables ==
  ASSUME IpcInv, NEW c \in Clients, NEW req \in Request \cup {Garbage},
         Connect(c, req)
  PROVE  IpcInv'
  <1> USE DEF IpcInv
  <1>1. /\ conn[c] = "idle"
        /\ conn' = [conn EXCEPT ![c] = "pending"]
        /\ request' = [request EXCEPT ![c] = req]
        /\ backlog' = Append(backlog, c)
        /\ edge' = TRUE
        /\ arrived' \subseteq arrived \cup {c}
        /\ failed' = FALSE
        /\ UNCHANGED <<accepting, clients, job_to_client, next_client_id, reply>>
    BY DEF Connect
  <1>2. \A d \in Clients : d # c => conn'[d] = conn[d] /\ request'[d] = request[d]
    BY <1>1 DEF IpcTypeOK
  <1>3. conn'[c] = "pending"
    BY <1>1 DEF IpcTypeOK
  <1>4. IpcTypeOK'
    <2>1. backlog' \in Seq(Clients)
      BY <1>1, AppendProperties DEF IpcTypeOK
    <2>2. request' \in [Clients -> {NoRequest, Garbage} \cup Request
                                     \cup [type : {"Submit"}, id : RequestIds]]
      BY <1>1 DEF IpcTypeOK
    <2>3. conn' \in [Clients -> {"idle", "pending", "held", "answered", "dropped"}]
      BY <1>1 DEF IpcTypeOK
    <2>4. arrived' \subseteq Clients /\ {edge', accepting', failed'} \subseteq BOOLEAN
      BY <1>1 DEF IpcTypeOK
    <2> QED
      BY <1>1, <2>1, <2>2, <2>3, <2>4 DEF IpcTypeOK
  <1>5. RoutesAgree'
    <2>1. \A k \in DOMAIN clients : clients[k] \in Clients /\ clients[k] # c
      BY <1>1 DEF IpcTypeOK, RoutesAgree, Range
    <2> QED
      BY <1>1, <1>2, <2>1 DEF RoutesAgree
  <1>6. BacklogOK'
    <2> DEFINE n == Len(backlog)
               b == backlog'
    <2>1. /\ n \in Nat /\ Len(b) = n + 1 /\ b[n + 1] = c
          /\ \A i \in 1..n : b[i] = backlog[i] /\ backlog[i] \in Clients
      BY <1>1, AppendProperties DEF IpcTypeOK
    <2>2. \A i \in 1..n : backlog[i] # c
      BY <1>1 DEF BacklogOK
    <2>3. \A i \in 1..(n + 1) : i \in 1..n \/ i = n + 1
      BY <2>1
    <2>4. \A i, k \in 1..n : backlog[i] = backlog[k] => i = k
      BY DEF BacklogOK
    <2>5. \A i \in 1..n : conn[backlog[i]] = "pending"
      BY DEF BacklogOK
    <2> HIDE DEF n, b
    <2>6. \A i \in 1..(n + 1) : conn'[b[i]] = "pending"
      BY <1>2, <1>3, <2>1, <2>2, <2>3, <2>5
    <2>7. \A i, k \in 1..(n + 1) : b[i] = b[k] => i = k
      BY <2>1, <2>2, <2>3, <2>4
    <2> QED
      BY <2>1, <2>6, <2>7 DEF BacklogOK, b
  <1>7. ClientIdsOK'
    <2>1. Accepted' = Accepted
      BY <1>1, <1>2, <1>3 DEF Accepted
    <2> QED
      BY <1>1, <2>1, SameAccepted
  <1>8. RepliesOK'
    BY <1>1, <1>2 DEF RepliesOK, ReplyAboutAskedJob
  <1> QED
    BY <1>4, <1>5, <1>6, <1>7, <1>8

LEMMA ArrivalTables ==
  ASSUME IpcInv, NEW c \in Clients, RequestArrives(c)
  PROVE  IpcInv'
  <1>1. /\ arrived' \subseteq arrived \cup {c}
        /\ UNCHANGED <<conn, request, backlog, edge, accepting, failed, clients,
                       job_to_client, next_client_id, reply>>
    BY DEF RequestArrives, serverVars
  <1>2. Accepted' = Accepted
    BY <1>1 DEF Accepted
  <1> QED
    BY <1>1, <1>2, SameAccepted
    DEF IpcInv, IpcTypeOK, RoutesAgree, BacklogOK, RepliesOK, ReplyAboutAskedJob

LEMMA FlagTables ==
  ASSUME IpcInv,
         StartAccepting \/ StopAccepting \/ AcceptFails \/ UNCHANGED ipcVars
  PROVE  IpcInv'
  <1>1. /\ {edge', accepting', failed'} \subseteq BOOLEAN
        /\ UNCHANGED <<conn, request, arrived, backlog, clients, job_to_client,
                       next_client_id, reply>>
    BY DEF StartAccepting, StopAccepting, AcceptFails, clientVars, serverVars,
           ipcVars, IpcInv, IpcTypeOK
  <1>2. Accepted' = Accepted
    BY <1>1 DEF Accepted
  <1> QED
    BY <1>1, <1>2, SameAccepted
    DEF IpcInv, IpcTypeOK, RoutesAgree, BacklogOK, RepliesOK, ReplyAboutAskedJob

\* The first connection of the backlog leaves it.
LEMMA HeadOfBacklog ==
  ASSUME IpcInv, backlog # <<>>, backlog' = Tail(backlog),
         \A d \in Clients : d # Head(backlog) => conn'[d] = conn[d]
  PROVE  /\ Head(backlog) \in Clients
         /\ conn[Head(backlog)] = "pending"
         /\ backlog' \in Seq(Clients)
         /\ BacklogOK'
  <1> DEFINE n == Len(backlog)
             c == Head(backlog)
             b == backlog'
  <1>1. /\ n \in Nat \ {0} /\ Len(b) = n - 1 /\ c = backlog[1]
        /\ \A i \in 1..(n - 1) : b[i] = backlog[i + 1]
        /\ c \in Clients /\ b \in Seq(Clients)
        /\ \A i \in 1..n : backlog[i] \in Clients
    BY HeadTailProperties DEF IpcInv, IpcTypeOK
  <1>2. /\ \A i \in 1..n : conn[backlog[i]] = "pending"
        /\ \A i, k \in 1..n : backlog[i] = backlog[k] => i = k
    BY DEF IpcInv, BacklogOK
  <1> HIDE DEF n, b
  <1>3. \A i \in 1..(n - 1) : i + 1 \in 1..n /\ 1 \in 1..n /\ i + 1 # 1
    BY <1>1
  <1>4. \A i \in 1..(n - 1) : conn'[b[i]] = "pending"
    BY <1>1, <1>2, <1>3
  <1>5. ASSUME NEW i \in 1..(n - 1), NEW k \in 1..(n - 1), b[i] = b[k]
        PROVE  i = k
    <2>1. i + 1 = k + 1
      BY <1>1, <1>2, <1>3, <1>5
    <2> QED
      BY <1>1, <2>1
  <1>6. conn[c] = "pending"
    BY <1>1, <1>2
  <1>7. BacklogOK'
    BY <1>1, <1>4, <1>5 DEF BacklogOK, b
  <1> QED
    BY <1>1, <1>6, <1>7 DEF b

LEMMA DropTables ==
  ASSUME IpcInv, DropConnection PROVE IpcInv'
  <1> DEFINE c == Head(backlog)
  <1>1. /\ backlog # <<>> /\ backlog' = Tail(backlog)
        /\ conn' = [conn EXCEPT ![c] = "dropped"]
        /\ UNCHANGED <<request, arrived, edge, accepting, failed, clients, job_to_client,
                       next_client_id, reply>>
    BY DEF DropConnection, serverVars
  <1>2. \A d \in Clients : d # c => conn'[d] = conn[d]
    BY <1>1 DEF IpcInv, IpcTypeOK
  <1>3. /\ c \in Clients /\ conn[c] = "pending"
        /\ backlog' \in Seq(Clients) /\ BacklogOK'
    BY <1>1, <1>2, HeadOfBacklog
  <1> HIDE DEF c
  <1>4. conn'[c] = "dropped"
    BY <1>1, <1>3 DEF IpcInv, IpcTypeOK
  <1>5. IpcTypeOK'
    BY <1>1, <1>3 DEF IpcInv, IpcTypeOK
  <1>6. RoutesAgree'
    <2>1. \A k \in DOMAIN clients : clients[k] \in Clients /\ clients[k] # c
      BY <1>3 DEF IpcInv, IpcTypeOK, RoutesAgree, Range
    <2> QED
      BY <1>1, <1>2, <2>1 DEF IpcInv, RoutesAgree
  <1>7. Accepted' = Accepted
    BY <1>2, <1>3, <1>4 DEF Accepted
  <1>8. RepliesOK'
    BY <1>1, <1>2, <1>3 DEF IpcInv, RepliesOK, ReplyAboutAskedJob
  <1> QED
    BY <1>1, <1>3, <1>5, <1>6, <1>7, <1>8, SameAccepted DEF IpcInv

\* What accepting a request changes, and who the job leads to now.
LEMMA AcceptEffect ==
  ASSUME IpcInv, NEW job \in RequestIds, AcceptRequest(job)
  PROVE  LET c == Head(backlog)
             k == next_client_id
         IN /\ c \in Clients /\ conn[c] = "pending" /\ k \notin DOMAIN clients
            /\ k = Cardinality(Accepted) + 1 /\ k \in 1..MaxClientId
            /\ conn' = [conn EXCEPT ![c] = "held"]
            /\ request' = [request EXCEPT ![c].id = job]
            /\ \A d \in Clients : d # c =>
                 conn'[d] = conn[d] /\ request'[d] = request[d]
            /\ conn'[c] = "held"
            /\ request'[c].id = job /\ request'[c].type = request[c].type
            /\ DOMAIN clients' = DOMAIN clients \cup {k} /\ clients'[k] = c
            /\ \A l \in DOMAIN clients :
                 clients'[l] = clients[l] /\ clients[l] # c
            /\ DOMAIN job_to_client' = DOMAIN job_to_client \cup {job}
            /\ job_to_client'[job] = k
            /\ \A j \in DOMAIN job_to_client : j # job =>
                 job_to_client'[j] = job_to_client[j]
            /\ next_client_id' = NextClientId
            /\ backlog' \in Seq(Clients) /\ BacklogOK'
            /\ UNCHANGED <<arrived, edge, accepting, failed, reply>>
  <1> DEFINE c == Head(backlog)
             k == next_client_id
             n == Cardinality(Accepted)
  <1>1. /\ backlog # <<>> /\ backlog' = Tail(backlog)
        /\ conn' = [conn EXCEPT ![c] = "held"]
        /\ request' = [request EXCEPT ![c].id = job]
        /\ clients' = Insert(clients, k, c)
        /\ job_to_client' = Insert(job_to_client, job, k)
        /\ next_client_id' = NextClientId
        /\ UNCHANGED <<arrived, edge, accepting, failed, reply>>
    BY DEF AcceptRequest
  <1>2. \A d \in Clients : d # c => conn'[d] = conn[d] /\ request'[d] = request[d]
    BY <1>1 DEF IpcInv, IpcTypeOK
  <1>3. /\ c \in Clients /\ conn[c] = "pending"
        /\ backlog' \in Seq(Clients) /\ BacklogOK'
    BY <1>1, <1>2, HeadOfBacklog
  <1>4. /\ conn'[c] = "held"
        /\ request'[c].id = job /\ request'[c].type = request[c].type
    <2>1. request[c] \in {NoRequest, Garbage} \cup Request
                           \cup [type : {"Submit"}, id : RequestIds]
      BY <1>3 DEF IpcInv, IpcTypeOK
    <2>2. "id" \in DOMAIN request[c] /\ "type" \in DOMAIN request[c]
      BY <2>1 DEF NoRequest, Garbage, Request
    <2> QED
      BY <1>1, <1>3, <2>2 DEF IpcInv, IpcTypeOK
  <1>5. c \notin Accepted
    BY <1>3 DEF Accepted
  <1>6. /\ n \in Nat /\ n < MaxClientId /\ MaxClientId \in Nat
    BY <1>3, <1>5, AcceptedCount
  <1>7. /\ k = IF n = MaxClientId THEN 1 ELSE n + 1
        /\ \A l \in DOMAIN clients : l <= n /\ l \in 1..MaxClientId
    BY DEF IpcInv, ClientIdsOK, IpcTypeOK
  <1>8. \A l \in DOMAIN clients : clients[l] \in Clients /\ clients[l] # c
    BY <1>3 DEF IpcInv, IpcTypeOK, RoutesAgree, Range
  <1> HIDE DEF n, c
  <1>9. k = n + 1 /\ k \in 1..MaxClientId /\ k \notin DOMAIN clients
    BY <1>6, <1>7
  <1>10. /\ DOMAIN clients' = DOMAIN clients \cup {k} /\ clients'[k] = c
         /\ \A l \in DOMAIN clients : clients'[l] = clients[l]
    BY <1>1, <1>9 DEF Insert
  <1>11. /\ DOMAIN job_to_client' = DOMAIN job_to_client \cup {job}
         /\ job_to_client'[job] = k
         /\ \A j \in DOMAIN job_to_client : j # job =>
              job_to_client'[j] = job_to_client[j]
    BY <1>1 DEF Insert
  <1> QED
    BY <1>1, <1>2, <1>3, <1>4, <1>8, <1>9, <1>10, <1>11 DEF c, n

LEMMA AcceptTables ==
  ASSUME IpcInv, NEW job \in RequestIds, AcceptRequest(job),
         request[Head(backlog)].type \in {"Submit", "Query", "Control"}
  PROVE  IpcInv'
  <1> DEFINE c == Head(backlog)
             k == next_client_id
             n == Cardinality(Accepted)
  <1>1. /\ c \in Clients /\ conn[c] = "pending" /\ k \notin DOMAIN clients
        /\ k = n + 1 /\ k \in 1..MaxClientId
        /\ conn' = [conn EXCEPT ![c] = "held"]
        /\ request' = [request EXCEPT ![c].id = job]
    BY AcceptEffect
  <1>2. /\ \A d \in Clients : d # c =>
             conn'[d] = conn[d] /\ request'[d] = request[d]
        /\ conn'[c] = "held" /\ request'[c].id = job
    BY AcceptEffect
  <1>3. /\ DOMAIN clients' = DOMAIN clients \cup {k} /\ clients'[k] = c
        /\ \A l \in DOMAIN clients :
             clients'[l] = clients[l] /\ clients[l] # c
    BY AcceptEffect
  <1>4. /\ DOMAIN job_to_client' = DOMAIN job_to_client \cup {job}
        /\ job_to_client'[job] = k
        /\ \A j \in DOMAIN job_to_client : j # job =>
             job_to_client'[j] = job_to_client[j]
    BY AcceptEffect
  <1>5. /\ next_client_id' = NextClientId
        /\ backlog' \in Seq(Clients) /\ BacklogOK'
        /\ UNCHANGED <<arrived, edge, accepting, failed, reply>>
    BY AcceptEffect
  <1>6. /\ request[c].type \in {"Submit", "Query", "Control"}
        /\ request \in [Clients -> {NoRequest, Garbage} \cup Request
                                     \cup [type : {"Submit"}, id : RequestIds]]
    BY DEF IpcInv, IpcTypeOK
  <1> HIDE DEF c, k, n
  <1>7. request' \in [Clients -> {NoRequest, Garbage} \cup Request
                                   \cup [type : {"Submit"}, id : RequestIds]]
    <2> DEFINE T == {NoRequest, Garbage} \cup Request
                      \cup [type : {"Submit"}, id : RequestIds]
    <2>1. request[c] \in T
      BY <1>1, <1>6
    <2>2. [request[c] EXCEPT !.id = job] \in T
      BY <1>6, <2>1 DEF NoRequest, Garbage, Request
    <2> HIDE DEF T
    <2>3. request' \in [Clients -> T]
      BY <1>1, <1>6, <2>2 DEF T
    <2> QED
      BY <2>3 DEF T
  <1>8. /\ n \in Nat /\ n < MaxClientId /\ MaxClientId \in Nat \ {0}
        /\ IsFiniteSet(Accepted) /\ c \notin Accepted
    <2>1. c \notin Accepted
      BY <1>1 DEF Accepted
    <2> QED
      BY <1>1, <2>1, AcceptedCount DEF n
  <1>9. Accepted' = Accepted \cup {c}
    BY <1>1, <1>2 DEF Accepted
  <1>10. Cardinality(Accepted') = n + 1
    BY <1>8, <1>9, FS_AddElement DEF n
  <1>11. next_client_id' = IF n + 1 = MaxClientId THEN 1 ELSE (n + 1) + 1
    BY <1>1, <1>5 DEF NextClientId, k
  <1>12. ClientIdsOK'
    <2>1. \A l \in DOMAIN clients' : l <= n + 1
      <3>1. \A l \in DOMAIN clients : l <= n /\ l \in Nat
        BY DEF IpcInv, ClientIdsOK, IpcTypeOK, n
      <3> QED
        BY <1>1, <1>3, <1>8, <3>1
    <2> QED
      BY <1>10, <1>11, <2>1 DEF ClientIdsOK
  <1>13. next_client_id' \in 1..MaxClientId
    BY <1>8, <1>11
  <1>14. IpcTypeOK'
    <2>1. conn' \in [Clients -> {"idle", "pending", "held", "answered", "dropped"}]
      BY <1>1 DEF IpcInv, IpcTypeOK
    <2>2. DOMAIN clients' \subseteq 1..MaxClientId /\ Range(clients') \subseteq Clients
      BY <1>1, <1>3 DEF IpcInv, IpcTypeOK, Range
    <2>3. /\ DOMAIN job_to_client' \subseteq RequestIds
          /\ Range(job_to_client') \subseteq 1..MaxClientId
      BY <1>1, <1>4 DEF IpcInv, IpcTypeOK, Range
    <2>4. arrived' \subseteq Clients /\ {edge', accepting', failed'} \subseteq BOOLEAN
      BY <1>5 DEF IpcInv, IpcTypeOK
    <2>5. reply' \in [Clients -> {NoReply} \cup Reply]
      BY <1>5 DEF IpcInv, IpcTypeOK
    <2> QED
      BY <1>5, <1>7, <1>13, <2>1, <2>2, <2>3, <2>4, <2>5 DEF IpcTypeOK
  <1>15. RoutesAgree'
    <2>1. \A l \in DOMAIN clients :
            clients[l] \in Clients /\ conn[clients[l]] = "held"
      BY DEF IpcInv, IpcTypeOK, RoutesAgree, Range
    <2>2. \A l, m \in DOMAIN clients : clients[l] = clients[m] => l = m
      BY DEF IpcInv, RoutesAgree
    <2>3. ASSUME NEW l \in DOMAIN clients' PROVE conn'[clients'[l]] = "held"
      BY <1>2, <1>3, <2>1, <2>3
    <2>4. ASSUME NEW l \in DOMAIN clients', NEW m \in DOMAIN clients',
                 clients'[l] = clients'[m]
          PROVE  l = m
      BY <1>3, <2>2, <2>4
    <2>5. ASSUME NEW j \in DOMAIN job_to_client'
          PROVE  /\ job_to_client'[j] \in DOMAIN clients'
                 /\ request'[clients'[job_to_client'[j]]].id = j
      <3>1. CASE j = job
        BY <1>2, <1>3, <1>4, <3>1
      <3>2. CASE j # job
        <4>1. /\ j \in DOMAIN job_to_client
              /\ job_to_client'[j] = job_to_client[j]
          BY <1>4, <2>5, <3>2
        <4>2. /\ job_to_client[j] \in DOMAIN clients
              /\ request[clients[job_to_client[j]]].id = j
          BY <4>1 DEF IpcInv, RoutesAgree
        <4> QED
          BY <1>2, <1>3, <2>1, <4>1, <4>2
      <3> QED
        BY <3>1, <3>2
    <2> QED
      BY <2>3, <2>4, <2>5 DEF RoutesAgree
  <1>16. RepliesOK'
    BY <1>1, <1>2, <1>5 DEF IpcInv, RepliesOK, ReplyAboutAskedJob
  <1> QED
    BY <1>5, <1>12, <1>14, <1>15, <1>16 DEF IpcInv

\* A reply goes to the client the job leads to, and to nobody else.
LEMMA RespondEffect ==
  ASSUME IpcInv, NEW job \in DOMAIN job_to_client, NEW kind, Respond(job, kind)
  PROVE  LET k == job_to_client[job]
             c == clients[k]
         IN /\ k \in DOMAIN clients /\ c \in Clients /\ conn[c] = "held"
            /\ request[c].id = job
            /\ DOMAIN job_to_client' = DOMAIN job_to_client \ {job}
            /\ \A j \in DOMAIN job_to_client' : job_to_client'[j] = job_to_client[j]
            /\ DOMAIN clients' = DOMAIN clients \ {k}
            /\ \A l \in DOMAIN clients' : clients'[l] = clients[l]
            /\ reply' = [reply EXCEPT ![c] = [kind |-> kind, id |-> job]]
            /\ conn' = [conn EXCEPT ![c] = "answered"]
            /\ reply'[c] = [kind |-> kind, id |-> job]
            /\ conn'[c] = "answered"
            /\ \A d \in Clients : d # c => conn'[d] = conn[d] /\ reply'[d] = reply[d]
  <1> DEFINE k == job_to_client[job]
             c == clients[k]
  <1>1. /\ k \in DOMAIN clients /\ c \in Clients /\ conn[c] = "held"
        /\ request[c].id = job
    BY DEF IpcInv, RoutesAgree, IpcTypeOK, Range
  <1>2. /\ job_to_client' = Delete(job_to_client, job)
        /\ clients' = Delete(clients, k)
        /\ reply' = [reply EXCEPT ![c] = [kind |-> kind, id |-> job]]
        /\ conn' = [conn EXCEPT ![c] = "answered"]
    BY <1>1 DEF Respond
  <1>3. /\ reply'[c] = [kind |-> kind, id |-> job]
        /\ conn'[c] = "answered"
        /\ \A d \in Clients : d # c => conn'[d] = conn[d] /\ reply'[d] = reply[d]
    BY <1>1, <1>2 DEF IpcInv, IpcTypeOK
  <1>4. /\ DOMAIN job_to_client' = DOMAIN job_to_client \ {job}
        /\ \A j \in DOMAIN job_to_client' : job_to_client'[j] = job_to_client[j]
        /\ DOMAIN clients' = DOMAIN clients \ {k}
        /\ \A l \in DOMAIN clients' : clients'[l] = clients[l]
    BY <1>2, DeleteFacts
  <1> QED
    BY <1>1, <1>2, <1>3, <1>4

LEMMA InterceptTables ==
  ASSUME IpcInv, NEW action, action.id \in RequestIds, Intercept(action)
  PROVE  IpcInv'
  <1>1. UNCHANGED <<request, arrived, backlog, edge, accepting, failed,
                   next_client_id>>
    BY DEF Intercept
  <1>2. CASE UNCHANGED <<job_to_client, clients, reply, conn>>
    BY <1>1, <1>2, FlagTables DEF ipcVars, clientVars, serverVars
  <1>3. ASSUME NEW job \in DOMAIN job_to_client, job = action.id,
               Answers(action.type), Respond(job, ReplyKind(action.type))
        PROVE  IpcInv'
    <2> DEFINE kind == ReplyKind(action.type)
               k == job_to_client[job]
               c == clients[k]
    <2>1. kind \in {"Exec", "CancelOk", "Result", "Error"}
      BY <1>3 DEF Answers, ReplyKind
    <2> HIDE DEF kind
    <2>2. Respond(job, kind)
      BY <1>3 DEF kind
    <2>3. /\ k \in DOMAIN clients /\ c \in Clients /\ conn[c] = "held"
          /\ request[c].id = job
          /\ DOMAIN job_to_client' = DOMAIN job_to_client \ {job}
          /\ \A j \in DOMAIN job_to_client' : job_to_client'[j] = job_to_client[j]
          /\ DOMAIN clients' = DOMAIN clients \ {k}
          /\ \A l \in DOMAIN clients' : clients'[l] = clients[l]
      BY <2>2, RespondEffect
    <2>4. /\ reply' = [reply EXCEPT ![c] = [kind |-> kind, id |-> job]]
          /\ conn' = [conn EXCEPT ![c] = "answered"]
          /\ reply'[c] = [kind |-> kind, id |-> job]
          /\ conn'[c] = "answered"
          /\ \A d \in Clients : d # c => conn'[d] = conn[d] /\ reply'[d] = reply[d]
      BY <2>2, RespondEffect
    <2> HIDE DEF c, k
    <2>5. Accepted' = Accepted
      BY <2>3, <2>4 DEF Accepted
    <2>6. ClientIdsOK'
      BY <1>1, <2>3, <2>5, SameAccepted
    <2>7. IpcTypeOK'
      <3>1. [kind |-> kind, id |-> job] \in Reply
        BY <1>3, <2>1 DEF Reply
      <3>2. reply' \in [Clients -> {NoReply} \cup Reply]
        <4> DEFINE T == {NoReply} \cup Reply
                   r == [kind |-> kind, id |-> job]
        <4>1. r \in T /\ reply \in [Clients -> T]
          BY <3>1 DEF IpcInv, IpcTypeOK
        <4>2. reply' = [reply EXCEPT ![c] = r]
          BY <2>4
        <4> HIDE DEF T, r
        <4>3. reply' \in [Clients -> T]
          BY <4>1, <4>2
        <4> QED
          BY <4>3 DEF T
      <3>3. conn' \in [Clients -> {"idle", "pending", "held", "answered", "dropped"}]
        BY <2>4 DEF IpcInv, IpcTypeOK
      <3>4. DOMAIN clients' \subseteq 1..MaxClientId /\ Range(clients') \subseteq Clients
        BY <2>3 DEF IpcInv, IpcTypeOK, Range
      <3>5. /\ DOMAIN job_to_client' \subseteq RequestIds
            /\ Range(job_to_client') \subseteq 1..MaxClientId
        BY <2>3 DEF IpcInv, IpcTypeOK, Range
      <3> QED
        BY <1>1, <3>2, <3>3, <3>4, <3>5 DEF IpcInv, IpcTypeOK
    <2>8. RoutesAgree'
      <3>1. \A l \in DOMAIN clients' :
              clients'[l] = clients[l] /\ clients[l] \in Clients /\ clients[l] # c
        BY <2>3 DEF IpcInv, IpcTypeOK, RoutesAgree, Range, c
      <3>2. \A l \in DOMAIN clients' :
              /\ conn'[clients'[l]] = "held"
              /\ \A m \in DOMAIN clients' : clients'[l] = clients'[m] => l = m
        BY <2>3, <2>4, <3>1 DEF IpcInv, RoutesAgree
      <3>3. ASSUME NEW j \in DOMAIN job_to_client'
            PROVE  /\ job_to_client'[j] \in DOMAIN clients'
                   /\ request'[clients'[job_to_client'[j]]].id = j
        <4>1. /\ j \in DOMAIN job_to_client /\ j # job
              /\ job_to_client'[j] = job_to_client[j]
          BY <2>3, <3>3
        <4>2. /\ job_to_client[j] \in DOMAIN clients
              /\ request[clients[job_to_client[j]]].id = j
          BY <4>1 DEF IpcInv, RoutesAgree
        <4>3. job_to_client[j] # k
          BY <2>3, <4>1, <4>2 DEF c
        <4> QED
          BY <1>1, <2>3, <4>1, <4>2, <4>3
      <3> QED
        BY <3>2, <3>3 DEF RoutesAgree
    <2>9. BacklogOK'
      <3>1. \A i \in 1..Len(backlog) : backlog[i] \in Clients /\ backlog[i] # c
        BY <2>3 DEF IpcInv, IpcTypeOK, BacklogOK
      <3> QED
        BY <1>1, <2>4, <3>1 DEF IpcInv, BacklogOK
    <2>10. RepliesOK'
      <3>1. reply'[c].id = request'[c].id
        BY <1>1, <2>3, <2>4
      <3> QED
        BY <1>1, <2>4, <3>1 DEF IpcInv, RepliesOK, ReplyAboutAskedJob
    <2> QED
      BY <2>6, <2>7, <2>8, <2>9, <2>10 DEF IpcInv
  <1> QED
    BY <1>2, <1>3 DEF Intercept

\* The request that is routed: it names a job, or is a submission that gets
\* the next id.
LEMMA RoutedRequest ==
  ASSUME HandleInv, IpcInv, RouteRequest
  PROVE  LET c == Head(backlog)
         IN \/ /\ request[c].type = "Submit"
               /\ next_id \in JobIds
               /\ AcceptRequest(next_id)
               /\ \E timeout \in Timeouts : RequestSubmit(timeout)
            \/ /\ request[c].type = "Query"
               /\ request[c].id \in JobIds
               /\ AcceptRequest(request[c].id)
               /\ RequestQuery(request[c].id)
            \/ /\ request[c].type = "Control"
               /\ request[c].id \in JobIds
               /\ AcceptRequest(request[c].id)
               /\ RequestControl(request[c].id, "GracefulStop")
  <1> DEFINE req == request[Head(backlog)]
  <1>1. backlog # <<>> /\ Head(backlog) \in Clients
    BY DEF RouteRequest, IpcInv, IpcTypeOK
  <1>2. req.type \in {"Query", "Control"} => req.id \in JobIds
    BY <1>1, DaemonAssumption
    DEF IpcInv, IpcTypeOK, NoRequest, Garbage, Request
  <1>3. \A timeout : RequestSubmit(timeout) => next_id \in JobIds
    BY MaxSubmitsAssumption DEF RequestSubmit, HandleInv, TypeOK, JobIds
  <1>4. \/ /\ req.type = "Submit"
           /\ AcceptRequest(next_id)
           /\ \E timeout \in Timeouts : RequestSubmit(timeout)
        \/ /\ req.type = "Query"
           /\ AcceptRequest(req.id)
           /\ RequestQuery(req.id)
        \/ /\ req.type = "Control"
           /\ AcceptRequest(req.id)
           /\ RequestControl(req.id, "GracefulStop")
    BY DEF RouteRequest
  <1> QED
    BY <1>2, <1>3, <1>4

\* What passes the IPC layer in a turn of the loop.
LEMMA Dispatched ==
  ASSUME HandleInv, Dispatching
  PROVE  /\ QueueOK /\ queue # <<>>
         /\ Head(queue) \in Action /\ HeadId \in JobIds
         /\ Drain /\ Intercept(Head(queue))
  <1>1. queue # <<>> /\ queue \in Seq(Action)
    BY DEF Dispatching, HandleInv, TypeOK
  <1>2. Head(queue) \in Action
    BY <1>1, HeadTailProperties
  <1> QED
    BY <1>1, <1>2, Carried DEF Dispatching, QueueOK, HeadId

LEMMA NextIpcInv ==
  ASSUME HandleInv, IpcInv, [Next]_vars PROVE IpcInv'
  <1>1. CASE ClientSteps
    BY <1>1, ConnectTables, ArrivalTables DEF ClientSteps
  <1>2. CASE Accepting
    <2>1. CASE RouteRequest
      BY <2>1, RoutedRequest, AcceptTables, DaemonAssumption
    <2>2. CASE BeginAccepting \/ DropConnection \/ StopAccepting \/ AcceptFails
      BY <2>2, FlagTables, DropTables DEF BeginAccepting
    <2> QED
      BY <1>2, <2>1, <2>2 DEF Accepting
  <1>3. CASE Dispatching
    BY <1>3, Dispatched, InterceptTables, DaemonAssumption DEF HeadId
  <1>4. CASE Polling \/ (Children /\ UNCHANGED ipcVars) \/ UNCHANGED vars
    BY <1>4, FlagTables DEF Polling, vars
  <1> QED
    BY <1>1, <1>2, <1>3, <1>4 DEF Next

LEMMA InitIpcInv == IpcInit => IpcInv
  <1> SUFFICES ASSUME IpcInit PROVE IpcInv
    OBVIOUS
  <1>1. Accepted = {}
    BY DEF Accepted, IpcInit
  <1>2. Cardinality(Accepted) = 0 /\ MaxClientId \in Nat \ {0}
    BY <1>1, FS_EmptySet, IpcAssumption
  <1>3. ClientIdsOK
    BY <1>2 DEF ClientIdsOK, IpcInit, EmptyMap
  <1>4. backlog = <<>> /\ backlog \in Seq(Clients) /\ Len(backlog) = 0
    BY EmptySeq DEF IpcInit
  <1>5. BacklogOK
    BY <1>4 DEF BacklogOK
  <1>6. IpcTypeOK
    <2>1. DOMAIN EmptyMap = {} /\ Range(EmptyMap) = {}
      BY DEF EmptyMap, Range
    <2>2. 1 \in 1..MaxClientId
      BY <1>2
    <2> QED
      BY <1>4, <2>1, <2>2 DEF IpcTypeOK, IpcInit
  <1> QED
    BY <1>3, <1>5, <1>6
    DEF IpcInv, IpcInit, RoutesAgree, RepliesOK, ReplyAboutAskedJob, EmptyMap

-----------------------------------------------------------------------------
(***************************************************************************)
(* The daemon keeps the invariants of the core.                            *)
(***************************************************************************)

LEMMA DaemonInvariants ==
  Spec => [](HandleInv /\ StartInv /\ LifeInv /\ IpcInv)
  <1> DEFINE Inv == HandleInv /\ StartInv /\ LifeInv /\ IpcInv
  <1>1. Init => Inv
    BY InitHandleInv, InitStartInv, InitLifeInv, InitIpcInv DEF Init
  <1>2. Inv /\ [Next]_vars => Inv'
    <2> SUFFICES ASSUME Inv, [Next]_vars PROVE Inv'
      OBVIOUS
    <2>1. [CoreNext]_coreVars
      BY StepIsCore DEF IpcInv
    <2>2. ControlSignals \subseteq {"GracefulStop"}
      BY DaemonAssumption
    <2> QED
      BY <2>1, <2>2, NextHandleInv, NextStartInv, NextLifeInv, NextIpcInv
  <1> QED
    BY <1>1, <1>2, PTL DEF Spec

\* The daemon's loop is the loop of the core: with the socket served on the
\* way, the queue, the modules and the executor do what they do without it
\* (lib.rs:29-69).
THEOREM DaemonIsCore == Spec => CoreSpec
  <1>1. Init => CoreInit
    BY DEF Init
  <1>2. IpcTypeOK /\ [Next]_vars => [CoreNext]_coreVars
    BY StepIsCore
  <1>3. Spec => []IpcTypeOK
    <2>1. HandleInv /\ StartInv /\ LifeInv /\ IpcInv => IpcTypeOK
      BY DEF IpcInv
    <2> QED
      BY <2>1, DaemonInvariants, PTL
  <1> QED
    BY <1>1, <1>2, <1>3, PTL DEF Spec, CoreSpec

\* For every number of clients and every request mix, the tables of the IPC
\* module hold what they are declared to hold (ipc.rs:13-18).
THEOREM IpcTypeCorrect == Spec => []IpcTypeOK
  <1>1. HandleInv /\ StartInv /\ LifeInv /\ IpcInv => IpcTypeOK
    BY DEF IpcInv
  <1> QED
    BY <1>1, DaemonInvariants, PTL

\* The two tables of the IPC module agree: a job leads to a client whose
\* connection is held and who asked about it (ipc.rs:94-108, 135-188).
THEOREM RoutesCorrect == Spec => []RoutesAgree
  <1>1. HandleInv /\ StartInv /\ LifeInv /\ IpcInv => RoutesAgree
    BY DEF IpcInv
  <1> QED
    BY <1>1, DaemonInvariants, PTL

\* A client is told about the job it asked about (ipc.rs:135-188).
THEOREM RepliesCorrect == Spec => []ReplyAboutAskedJob
  <1>1. HandleInv /\ StartInv /\ LifeInv /\ IpcInv => ReplyAboutAskedJob
    BY DEF IpcInv, RepliesOK
  <1> QED
    BY <1>1, DaemonInvariants, PTL

-----------------------------------------------------------------------------
(***************************************************************************)
(* What a turn of the loop puts into the queue, by what it took out.       *)
(***************************************************************************)

FateTypes ==
  AskTypes \cup {"Submit", "Admitted", "Rejected", "StartProcess", "Started",
                 "PollProcess", "Finished"}

\* An action that matters to a client is about the job of the action that
\* gave rise to it.
Follows(a, b) ==
  b.type \in FateTypes =>
    /\ b.id = a.id
    /\ <<a.type, b.type>> \in
         {<<"Submit", "Admitted">>, <<"Submit", "Rejected">>,
          <<"Admitted", "StartProcess">>, <<"StartProcess", "Started">>,
          <<"StartProcess", "Rejected">>, <<"PollProcess", "Finished">>,
          <<"Query", "QueryResult">>, <<"Control", "Controlled">>}

LEMMA FollowsOne ==
  ASSUME NEW a, NEW b \in Action, Follows(a, b), Emit(<<b>>)
  PROVE  \E actions \in Seq(Action) :
           Emit(actions) /\ \A d \in Items(actions) : Follows(a, d)
  <1> DEFINE new == <<b>>
  <1>1. new \in Seq(Action) /\ Items(new) = {b} /\ Emit(new)
    BY ItemsOf
  <1> HIDE DEF new
  <1> QED
    BY <1>1

LEMMA FollowsNone ==
  ASSUME NEW a, Emit(<<>>)
  PROVE  \E actions \in Seq(Action) :
           Emit(actions) /\ \A d \in Items(actions) : Follows(a, d)
  BY ItemsOf, EmptySeq, Zenon

LEMMA DrainFollows ==
  ASSUME HandleInv, StartInv, Drain
  PROVE  /\ UNCHANGED next_id
         /\ \E actions \in Seq(Action) :
              Emit(actions) /\ \A b \in Items(actions) : Follows(Head(queue), b)
  <1> DEFINE a == Head(queue)
             Goal == \E actions \in Seq(Action) :
                       Emit(actions) /\ \A b \in Items(actions) : Follows(a, b)
  <1>1. UNCHANGED next_id
    BY DEF Drain, HandleSubmit, HandleAdmitted, HandleStartProcess,
           HandleRegisterInterest, HandleRemoveInterest, HandlePerformIo,
           HandleControl, HandleTimeoutReached, HandleKillDeadlineReached,
           HandleSignalProcess, HandlePollProcess, HandleFinished, HandleQuery,
           HandleNotice, Popped, loopVars
  <1> SUFFICES Goal
    BY <1>1
  <1>2. ASSUME NEW types, Popped(types)
        PROVE  a.type \in types /\ HeadId \in JobIds /\ a.id = HeadId /\ a \in Action
    BY <1>2, HeadType, TypeParts DEF HandleInv, HeadId
  <1>3. CASE \/ HandleRegisterInterest \/ HandleRemoveInterest \/ HandlePerformIo
             \/ HandleSignalProcess \/ HandleFinished \/ HandleNotice
    <2>1. Emit(<<>>)
      BY <1>3 DEF HandleRegisterInterest, HandleRemoveInterest, HandlePerformIo,
                  HandleSignalProcess, HandleFinished, HandleNotice
    <2> QED
      BY <2>1, FollowsNone
  <1>4. CASE HandleSubmit
    <2>1. a.type = "Submit" /\ HeadId \in JobIds /\ a.id = HeadId
      BY <1>2, <1>4 DEF HandleSubmit
    <2>2. CASE ~AtLimit
      <3>1. /\ Admission \in Action /\ Admission.type = "Admitted"
            /\ Admission.id = HeadId
        BY <1>4, <2>2, AdmitEffect
      <3>2. Emit(<<Admission>>)
        BY <1>4, <2>2 DEF HandleSubmit, Admission
      <3>3. Follows(a, Admission)
        BY <2>1, <3>1 DEF Follows
      <3> QED
        BY <3>1, <3>2, <3>3, FollowsOne
    <2>3. CASE AtLimit
      <3>1. /\ Refusal \in Action /\ Refusal.type = "Rejected"
            /\ Refusal.id = HeadId
        BY <2>1, Constructors DEF Refusal, Simple, SimpleTypes
      <3>2. Emit(<<Refusal>>)
        BY <1>4, <2>3 DEF HandleSubmit, Refusal
      <3>3. Follows(a, Refusal)
        BY <2>1, <3>1 DEF Follows
      <3> QED
        BY <3>1, <3>2, <3>3, FollowsOne
    <2> QED
      BY <2>2, <2>3
  <1>5. CASE HandleAdmitted
    <2>1. /\ a.type = "Admitted" /\ a.id = HeadId
          /\ Start \in Action /\ Start.type = "StartProcess" /\ Start.id = HeadId
      BY <1>5, AdmittedEffect DEF HeadId
    <2>2. Emit(<<Start>>)
      BY <1>5 DEF HandleAdmitted, Start
    <2>3. Follows(a, Start)
      BY <2>1 DEF Follows
    <2> QED
      BY <2>1, <2>2, <2>3, FollowsOne
  <1>6. CASE HandleStartProcess /\ SpawnFails(HeadId)
    <2>1. Refusal \in Action /\ Refusal.type = "Rejected" /\ Emit(<<Refusal>>)
      BY <1>6, RefusalEffect
    <2>2. a.type = "StartProcess" /\ a.id = HeadId /\ Refusal.id = HeadId
      BY <1>2, <1>6 DEF HandleStartProcess, Refusal, Simple
    <2>3. Follows(a, Refusal)
      BY <2>1, <2>2 DEF Follows
    <2> QED
      BY <2>1, <2>3, FollowsOne
  <1>7. CASE HandleStartProcess /\ SpawnSucceeds(HeadId)
    <2>1. a.type = "StartProcess" /\ HeadId \in JobIds /\ a.id = HeadId
      BY <1>2, <1>7 DEF HandleStartProcess
    <2>2. Emit(StartedActions(HeadId))
      BY <1>7, SpawnEffect
    <2>3. /\ StartedActions(HeadId) \in Seq(Action)
          /\ \A b \in Items(StartedActions(HeadId)) :
               /\ b.type \in {"Started", "RegisterInterest"}
               /\ b.id = HeadId
      BY <2>1, StartedItems
    <2>4. \A b \in Items(StartedActions(HeadId)) : Follows(a, b)
      BY <2>1, <2>3 DEF Follows, FateTypes, AskTypes
    <2> QED
      BY <2>2, <2>3, <2>4
  <1>8. CASE HandleControl
    <2>1. a.type = "Control" /\ HeadId \in JobIds /\ a.id = HeadId /\ a \in Action
      BY <1>2, <1>8 DEF HandleControl
    <2>2. CASE MaySignal(HeadId)
      <3> DEFINE s == Signal("SignalProcess", a.id, a.signal)
                 r == Simple("Controlled", a.id)
                 new == <<s, r>>
      <3>1. s \in Action /\ r \in Action
        BY <2>1, Constructors, Carried DEF SimpleTypes
      <3>2. Follows(a, s) /\ Follows(a, r)
        BY <2>1 DEF Follows, FateTypes, AskTypes, Signal, Simple
      <3>3. Emit(new)
        BY <1>8, <2>2 DEF HandleControl, ControlActions
      <3> HIDE DEF s, r
      <3>4. new \in Seq(Action) /\ Items(new) = {s, r}
        BY <3>1, ItemsOf
      <3> HIDE DEF new
      <3> QED
        BY <3>2, <3>3, <3>4
    <2>3. CASE ~MaySignal(HeadId)
      BY <1>8, <2>3, FollowsNone DEF HandleControl
    <2> QED
      BY <2>2, <2>3
  <1>9. ASSUME NEW signal \in Signals, HeadId \in JobIds, Emit(<<Order(signal)>>)
        PROVE  Goal
    <2>1. Order(signal) \in Action /\ Order(signal).type = "SignalProcess"
      BY <1>9, Constructors DEF Order, Signal
    <2>2. Follows(a, Order(signal))
      BY <2>1 DEF Follows, FateTypes, AskTypes
    <2> QED
      BY <1>9, <2>1, <2>2, FollowsOne
  <1>10. CASE HandleTimeoutReached
    <2>1. HeadId \in JobIds /\ "GracefulStop" \in Signals
      BY <1>2, <1>10 DEF HandleTimeoutReached, Signals
    <2>2. Emit(<<Order("GracefulStop")>>) \/ Emit(<<>>)
      BY <1>10 DEF HandleTimeoutReached, Order
    <2> QED
      BY <1>9, <2>1, <2>2, FollowsNone
  <1>11. CASE HandleKillDeadlineReached
    <2>1. HeadId \in JobIds /\ "ForceKill" \in Signals
      BY <1>2, <1>11 DEF HandleKillDeadlineReached, Signals
    <2>2. Emit(<<Order("ForceKill")>>) \/ Emit(<<>>)
      BY <1>11 DEF HandleKillDeadlineReached, Order
    <2> QED
      BY <1>9, <2>1, <2>2, FollowsNone
  <1>12. CASE HandlePollProcess
    <2>1. a.type = "PollProcess" /\ a.id = HeadId
      BY <1>2, <1>12 DEF HandlePollProcess
    <2>2. CASE PollEnds
      <3>1. Exit \in Action /\ Emit(<<Exit>>)
        BY <2>2, PollEffect DEF PollEnds
      <3>2. Follows(a, Exit)
        BY <2>1 DEF Follows, Exit
      <3> QED
        BY <3>1, <3>2, FollowsOne
    <2>3. CASE Emit(<<>>)
      BY <2>3, FollowsNone
    <2>4. PollEnds \/ Emit(<<>>)
      <3>1. CASE HasProcess(HeadId)
        <4>1. Poll(HeadId, jobs[HeadId].process) /\ Popped({"PollProcess"})
          BY <1>12, <3>1 DEF HandlePollProcess
        <4>2. UNCHANGED <<next_id, jobs, lifecycle, results, active_jobs, tracking>>
          BY <1>12 DEF HandlePollProcess, Popped, loopVars, stateVars, policyVars
        <4> QED
          BY <3>1, <4>1, <4>2 DEF Poll, PollEnds, Child, Exit, ExitedActions
      <3> QED
        BY <1>12, <3>1 DEF HandlePollProcess
    <2> QED
      BY <2>2, <2>3, <2>4
  <1>13. CASE HandleQuery
    <2> DEFINE r == [type |-> "QueryResult", id |-> HeadId,
                     found |-> HasResult(HeadId)]
    <2>1. a.type = "Query" /\ HeadId \in JobIds /\ a.id = HeadId
      BY <1>2, <1>13 DEF HandleQuery
    <2>2. HasResult(HeadId) \in BOOLEAN
      BY DEF HasResult
    <2>3. r \in Action
      BY <2>1, <2>2, Constructors, Zenon
    <2>4. r.type = "QueryResult" /\ r.id = HeadId /\ Emit(<<r>>)
      BY <1>13 DEF HandleQuery
    <2> HIDE DEF r
    <2>5. Follows(a, r)
      BY <2>1, <2>4 DEF Follows
    <2> QED
      BY <2>3, <2>4, <2>5, FollowsOne
  <1> QED
    BY <1>3, <1>4, <1>5, <1>6, <1>7, <1>8, <1>10, <1>11, <1>12, <1>13
    DEF Drain, HandleStartProcess

\* A submission is admitted or rejected; a request to stop a job without a
\* child comes to nothing.
Completes(a, actions) ==
  /\ a.type = "Submit" =>
       \E b \in Items(actions) : b.id = a.id /\ b.type \in {"Admitted", "Rejected"}
  /\ a.type = "Control" /\ ~HasProcess(a.id) => Items(actions) = {}

LEMMA DrainGives ==
  ASSUME HandleInv, StartInv, Drain
  PROVE  \E actions \in Seq(Action) :
           /\ Emit(actions)
           /\ \A b \in Items(actions) : Follows(Head(queue), b)
           /\ Completes(Head(queue), actions)
  <1> DEFINE a == Head(queue)
             Goal == \E actions \in Seq(Action) :
                       /\ Emit(actions)
                       /\ \A b \in Items(actions) : Follows(a, b)
                       /\ Completes(a, actions)
  <1>1. /\ a.type = "Submit" => HandleSubmit
        /\ a.type = "Control" => HandleControl
    BY DEF Drain, HandleSubmit, HandleAdmitted, HandleStartProcess,
           HandleRegisterInterest, HandleRemoveInterest, HandlePerformIo,
           HandleControl, HandleTimeoutReached, HandleKillDeadlineReached,
           HandleSignalProcess, HandlePollProcess, HandleFinished, HandleQuery,
           HandleNotice, Popped
  <1>2. ASSUME NEW b \in Action, b.id = a.id, b.type \in {"Admitted", "Rejected"},
               a.type = "Submit", Emit(<<b>>)
        PROVE  Goal
    <2> DEFINE new == <<b>>
    <2>1. new \in Seq(Action) /\ Items(new) = {b} /\ Emit(new)
      BY <1>2, ItemsOf
    <2>2. Follows(a, b)
      BY <1>2 DEF Follows
    <2> HIDE DEF new
    <2>3. Completes(a, new)
      BY <1>2, <2>1 DEF Completes
    <2> QED
      BY <2>1, <2>2, <2>3
  <1>3. CASE a.type = "Submit"
    <2>1. HandleSubmit /\ a.id = HeadId /\ HeadId \in JobIds
      BY <1>1, <1>3, HeadType, TypeParts DEF HandleInv, HeadId, HandleSubmit
    <2>2. CASE AtLimit
      <3>1. /\ Refusal \in Action /\ Refusal.type = "Rejected"
            /\ Refusal.id = HeadId
        BY <2>1, Constructors DEF Refusal, Simple, SimpleTypes
      <3>2. Emit(<<Refusal>>)
        BY <2>1, <2>2 DEF HandleSubmit, Refusal
      <3> QED
        BY <1>2, <1>3, <2>1, <3>1, <3>2
    <2>3. CASE ~AtLimit
      <3>1. /\ Admission \in Action /\ Admission.type = "Admitted"
            /\ Admission.id = HeadId
        BY <2>1, <2>3, AdmitEffect
      <3>2. Emit(<<Admission>>)
        BY <2>1, <2>3 DEF HandleSubmit, Admission
      <3> QED
        BY <1>2, <1>3, <2>1, <3>1, <3>2
    <2> QED
      BY <2>2, <2>3
  <1>4. CASE a.type = "Control" /\ ~HasProcess(a.id)
    <2> DEFINE none == <<>>
    <2>1. none \in Seq(Action) /\ Items(none) = {}
      BY ItemsOf, EmptySeq
    <2>2. Emit(none)
      BY <1>1, <1>4 DEF HandleControl, MaySignal, HeadId
    <2> HIDE DEF none
    <2>3. Completes(a, none)
      BY <1>4, <2>1 DEF Completes
    <2> QED
      BY <2>1, <2>2, <2>3
  <1>5. CASE a.type # "Submit" /\ ~(a.type = "Control" /\ ~HasProcess(a.id))
    <2>1. \A actions : Completes(a, actions)
      BY <1>5 DEF Completes
    <2> QED
      BY <2>1, DrainFollows
  <1> QED
    BY <1>3, <1>4, <1>5

\* A turn that gives a job a child announces it.
LEMMA DrainChildren ==
  ASSUME HandleInv, StartInv, Drain, NEW id \in JobIds, HasChild(id)'
  PROVE  HasChild(id) \/ \E a \in Waiting' : a.id = id /\ a.type = "Started"
  <1>1. CASE HandleStartProcess /\ SpawnSucceeds(HeadId)
    <2>1. /\ HeadId \in DOMAIN jobs /\ HeadId \in JobIds
          /\ QueueOK /\ queue # <<>>
      BY <1>1, StartTurn
    <2>2. /\ Emit(StartedActions(HeadId))
          /\ StartedActions(HeadId) \in Seq(Action)
          /\ DOMAIN processes' = DOMAIN processes \cup {next_handle}
          /\ processes'[next_handle].job = HeadId
          /\ \A h \in DOMAIN processes : processes'[h] = processes[h]
      BY <1>1, <2>1, SpawnEffect, StartedItems
    <2>3. HasChild(id) \/ id = HeadId
      BY <2>2 DEF HasChild
    <2>4. Simple("Started", HeadId) \in Items(StartedActions(HeadId))
      <3> DEFINE s == <<Simple("Started", HeadId)>>
                 w == <<Interest("RegisterInterest", HeadId, "Stdout"),
                        Interest("RegisterInterest", HeadId, "Stderr"),
                        Interest("RegisterInterest", HeadId, "Stdin")>>
      <3>1. StartedActions(HeadId) = s \o w
        BY <2>1 DEF StartedActions
      <3>2. s \in Seq(Action) /\ w \in Seq(Action)
        <4>1. /\ Simple("Started", HeadId) \in Action
              /\ \A stream \in Streams :
                   Interest("RegisterInterest", HeadId, stream) \in Action
          BY <2>1, Constructors DEF SimpleTypes
        <4>2. "Stdout" \in Streams /\ "Stderr" \in Streams /\ "Stdin" \in Streams
          BY DEF Streams
        <4> QED
          BY <4>1, <4>2
      <3>3. Items(s) = {Simple("Started", HeadId)}
        BY ItemsOf
      <3> HIDE DEF s, w
      <3> QED
        BY <3>1, <3>2, <3>3, JoinItems
    <2>5. Simple("Started", HeadId) \in Waiting'
      BY <2>1, <2>2, <2>4, TurnItems
    <2>6. Simple("Started", HeadId).id = HeadId
          /\ Simple("Started", HeadId).type = "Started"
      BY DEF Simple
    <2>7. CASE id = HeadId
      BY <2>5, <2>6, <2>7
    <2> QED
      BY <2>3, <2>7
  <1>2. CASE HandleSignalProcess
    <2>1. /\ DOMAIN processes' = DOMAIN processes
          /\ \A h \in DOMAIN processes : processes'[h].job = processes[h].job
      BY <1>2, SignalEffect
    <2> QED
      BY <2>1 DEF HasChild
  <1>3. CASE HandlePollProcess
    <2>1. \/ UNCHANGED processes
          \/ /\ DOMAIN processes' = DOMAIN processes
             /\ \A h \in DOMAIN processes : processes'[h].job = processes[h].job
      BY <1>3, PollTurns, PollEffect DEF QuietStep, Kept
    <2> QED
      BY <2>1 DEF HasChild
  <1>4. CASE UNCHANGED processes
    BY <1>4 DEF HasChild
  <1> QED
    BY <1>1, <1>2, <1>3, <1>4
    DEF Drain, HandleSubmit, HandleAdmitted, HandleStartProcess, SpawnFails,
        HandleRegisterInterest, HandleRemoveInterest, HandlePerformIo,
        HandleControl, HandleTimeoutReached, HandleKillDeadlineReached,
        HandleFinished, HandleQuery, HandleNotice, executorVars

-----------------------------------------------------------------------------
(***************************************************************************)
(* What a submitter is told.                                               *)
(***************************************************************************)

LEMMA FateClashPair ==
  ASSUME NEW a \in Action, NEW b \in Action
  PROVE  <<a, b>> \in FateClash <=>
           \/ /\ a.type \in {"Admitted", "StartProcess", "Started"}
              /\ b.type = "PollProcess"
           \/ /\ a.type = "PollProcess"
              /\ b.type \in {"StartProcess", "Started"}
  BY DEF FateClash

\* A request or an event at the end of the queue.
LEMMA JoinFate ==
  ASSUME HandleInv, LifeInv, NoPair(queue, FateClash), NEW a \in Action,
         queue' = Append(queue, a) \/ queue' = queue \o <<a>>,
         a.type \notin {"Admitted", "StartProcess", "Started"},
         a.type = "PollProcess" => phase = "requests"
  PROVE  /\ Waiting' = Waiting \cup {a}
         /\ NoPair(queue', FateClash)
  <1> DEFINE new == <<a>>
  <1>1. /\ queue \in Seq(Action) /\ new \in Seq(Action) /\ Items(new) = {a}
        /\ queue' = queue \o new /\ NoPair(new, FateClash)
    <2>1. queue \in Seq(Action) /\ new \in Seq(Action)
      BY DEF HandleInv, TypeOK
    <2>2. queue' = queue \o new
      BY <2>1, AppendIsConcat
    <2>3. Items(new) = {a}
      BY ItemsOf
    <2> QED
      BY <2>1, <2>2, <2>3, ShortPairs
  <1> HIDE DEF new
  <1>2. Waiting \subseteq Action /\ Waiting' = Waiting \cup {a}
    BY JoinOne
  <1>3. \A b \in Waiting : <<b, a>> \notin FateClash
    <2>1. a.type = "PollProcess" =>
            \A b \in Waiting : b.type \notin {"Admitted", "StartProcess", "Started"}
      BY DEF LifeInv, EarlyTypes
    <2> QED
      BY <1>2, <2>1, FateClashPair
  <1>4. NoPair(queue \o new, FateClash)
    BY <1>1, <1>3, JoinPairs DEF Waiting
  <1> QED
    BY <1>1, <1>2, <1>4

LEMMA SubmitterClashPair ==
  ASSUME NEW job, NEW a \in Action, NEW b \in Action
  PROVE  <<a, b>> \in SubmitterClash(job) <=>
           /\ a.id = job /\ b.id = job
           /\ \/ a.type = "Submit" /\ b.type \in {"Query", "Control"}
              \/ a.type = "QueryResult" /\ b.type = "Submit"
              \/ a.type \in {"Admitted", "Rejected"} /\ b.type = "QueryResult"
  BY DEF SubmitterClash

LEMMA JoinClash ==
  ASSUME HandleInv, NEW a \in Action,
         queue' = Append(queue, a) \/ queue' = queue \o <<a>>,
         NEW bad, NoPair(queue, bad), \A b \in Waiting : <<b, a>> \notin bad
  PROVE  NoPair(queue', bad)
  <1> DEFINE new == <<a>>
  <1>1. queue \in Seq(Action) /\ new \in Seq(Action)
    BY DEF HandleInv, TypeOK
  <1>2. queue' = queue \o new
    BY <1>1, AppendIsConcat
  <1>3. Items(new) = {a} /\ NoPair(new, bad)
    BY ItemsOf, ShortPairs
  <1> HIDE DEF new
  <1>4. NoPair(queue \o new, bad)
    BY <1>1, <1>3, JoinPairs DEF Waiting
  <1> QED
    BY <1>2, <1>4

\* What waits for the job, its polls apart, is the same after the step.
LEMMA KeptFate ==
  ASSUME NEW job, SubmitterFate(job), NoPair(queue', SubmitterClash(job)),
         \A type \in FateTypes \ {"PollProcess"} :
           WaitsAs(type, job)' <=> WaitsAs(type, job),
         HasChild(job)' => HasChild(job) \/ WaitsAs("Started", job)'
  PROVE  SubmitterFate(job)'
  BY DEF SubmitterFate, FateTypes, AskTypes

\* An action of another job, or of no weight for a client, joins the queue.
LEMMA JoinedFate ==
  ASSUME HandleInv, NEW a \in Action,
         queue' = Append(queue, a) \/ queue' = queue \o <<a>>,
         NEW job, SubmitterFate(job),
         a.id # job \/ a.type \notin FateTypes \ {"PollProcess"},
         HasChild(job)' => HasChild(job)
  PROVE  SubmitterFate(job)'
  <1>1. Waiting \subseteq Action /\ Waiting' = Waiting \cup {a}
    BY JoinOne
  <1>2. \A b \in Waiting : <<b, a>> \notin SubmitterClash(job)
    BY <1>1, SubmitterClashPair DEF FateTypes, AskTypes
  <1>3. NoPair(queue', SubmitterClash(job))
    BY <1>2, JoinClash DEF SubmitterFate
  <1>4. \A type \in FateTypes \ {"PollProcess"} :
          WaitsAs(type, job)' <=> WaitsAs(type, job)
    BY <1>1 DEF WaitsAs
  <1> QED
    BY <1>3, <1>4, KeptFate

\* A step that neither asks anything about a job nor answers anybody.
LEMMA CalmFate ==
  ASSUME HandleInv, LifeInv, IpcInv, FateInv,
         UNCHANGED <<request, clients, job_to_client>>,
         \A id \in JobIds : HasChild(id)' => HasChild(id),
         \/ UNCHANGED queue
         \/ \E a \in Action :
              /\ queue' = Append(queue, a) \/ queue' = queue \o <<a>>
              /\ a.type \in {"PollProcess", "PerformIo", "TimeoutReached",
                             "KillDeadlineReached"}
              /\ a.type = "PollProcess" => phase = "requests"
  PROVE  FateInv'
  <1>1. \A job \in JobIds : ForSubmitter(job)' <=> ForSubmitter(job)
    BY DEF ForSubmitter
  <1>2. CASE UNCHANGED queue
    <2>1. Waiting' = Waiting
      BY <1>2 DEF Waiting
    <2>2. ASSUME NEW job \in JobIds, SubmitterFate(job) PROVE SubmitterFate(job)'
      <3>1. \A type : WaitsAs(type, job)' <=> WaitsAs(type, job)
        BY <2>1 DEF WaitsAs
      <3>2. NoPair(queue', SubmitterClash(job))
        BY <1>2, <2>2 DEF SubmitterFate
      <3> QED
        BY <2>2, <3>1, <3>2, KeptFate
    <2> QED
      BY <1>1, <1>2, <2>2 DEF FateInv
  <1>3. ASSUME NEW a \in Action,
               queue' = Append(queue, a) \/ queue' = queue \o <<a>>,
               a.type \in {"PollProcess", "PerformIo", "TimeoutReached",
                           "KillDeadlineReached"},
               a.type = "PollProcess" => phase = "requests"
        PROVE  FateInv'
    <2>1. NoPair(queue', FateClash)
      BY <1>3, JoinFate DEF FateInv
    <2>2. \A job \in JobIds : SubmitterFate(job) => SubmitterFate(job)'
      BY <1>3, JoinedFate DEF FateTypes, AskTypes
    <2> QED
      BY <1>1, <2>1, <2>2 DEF FateInv
  <1> QED
    BY <1>2, <1>3

LEMMA ConnectFate ==
  ASSUME HandleInv, LifeInv, IpcInv, FateInv, UNCHANGED coreVars,
         NEW c \in Clients, NEW req \in Request \cup {Garbage}, Connect(c, req)
  PROVE  FateInv'
  <1>1. /\ conn[c] = "idle"
        /\ request' = [request EXCEPT ![c] = req]
        /\ UNCHANGED <<clients, job_to_client>>
    BY DEF Connect
  <1>2. \A d \in Clients : d # c => request'[d] = request[d]
    BY <1>1 DEF IpcInv, IpcTypeOK
  <1>3. \A job \in JobIds : ForSubmitter(job)' <=> ForSubmitter(job)
    <2>1. \A job \in DOMAIN job_to_client :
            /\ clients[job_to_client[job]] \in Clients
            /\ clients[job_to_client[job]] # c
      BY <1>1 DEF IpcInv, IpcTypeOK, RoutesAgree, Range
    <2> QED
      BY <1>1, <1>2, <2>1 DEF ForSubmitter
  <1>4. ASSUME NEW job \in JobIds, SubmitterFate(job) PROVE SubmitterFate(job)'
    <2>1. UNCHANGED <<queue, processes>>
      BY DEF coreVars, executorVars
    <2>2. \A type : WaitsAs(type, job)' <=> WaitsAs(type, job)
      BY <2>1 DEF WaitsAs, Waiting
    <2>3. NoPair(queue', SubmitterClash(job)) /\ (HasChild(job)' => HasChild(job))
      BY <1>4, <2>1 DEF SubmitterFate, HasChild
    <2> QED
      BY <1>4, <2>2, <2>3, KeptFate
  <1>5. NoPair(queue', FateClash)
    BY DEF FateInv, coreVars
  <1> QED
    BY <1>3, <1>4, <1>5 DEF FateInv

\* The job a request names leads to the client that made it, and every other
\* job to the client it led to.
LEMMA RouteFate ==
  ASSUME HandleInv, IpcInv, NEW job \in JobIds, AcceptRequest(job)
  PROVE  /\ \A j \in JobIds : j # job => (ForSubmitter(j)' <=> ForSubmitter(j))
         /\ ForSubmitter(job)' => request[Head(backlog)].type = "Submit"
  <1> DEFINE c == Head(backlog)
             k == next_client_id
  <1>1. /\ k \notin DOMAIN clients
        /\ \A d \in Clients : d # c => request'[d] = request[d]
        /\ request'[c].type = request[c].type
        /\ DOMAIN clients' = DOMAIN clients \cup {k} /\ clients'[k] = c
        /\ \A l \in DOMAIN clients :
             clients'[l] = clients[l] /\ clients[l] # c
        /\ DOMAIN job_to_client' = DOMAIN job_to_client \cup {job}
        /\ job_to_client'[job] = k
        /\ \A j \in DOMAIN job_to_client : j # job =>
             job_to_client'[j] = job_to_client[j]
    BY AcceptEffect, DaemonAssumption
  <1> HIDE DEF c, k
  <1>2. \A j \in DOMAIN job_to_client :
          /\ job_to_client[j] \in DOMAIN clients
          /\ clients[job_to_client[j]] \in Clients
    BY DEF IpcInv, IpcTypeOK, RoutesAgree, Range
  <1>3. ASSUME NEW j \in JobIds, j # job
        PROVE  ForSubmitter(j)' <=> ForSubmitter(j)
    <2>1. CASE j \in DOMAIN job_to_client
      <3>1. request'[clients'[job_to_client'[j]]] = request[clients[job_to_client[j]]]
        BY <1>1, <1>2, <1>3, <2>1
      <3> QED
        BY <1>1, <2>1, <3>1 DEF ForSubmitter
    <2>2. CASE j \notin DOMAIN job_to_client
      BY <1>1, <1>3, <2>2 DEF ForSubmitter
    <2> QED
      BY <2>1, <2>2
  <1>4. ForSubmitter(job)' => request[c].type = "Submit"
    BY <1>1 DEF ForSubmitter
  <1> QED
    BY <1>3, <1>4 DEF c

\* The job of a submission that joins the queue: requests are all there are.
LEMMA NewFate ==
  ASSUME HandleInv, StartInv, LifeInv, NEW a \in Action,
         queue' = Append(queue, a) \/ queue' = queue \o <<a>>,
         phase = "requests", NEW job \in JobIds, job = next_id,
         a.type = "Submit", a.id = job, UNCHANGED processes
  PROVE  SubmitterFate(job)'
  <1>1. Waiting \subseteq Action /\ Waiting' = Waiting \cup {a}
    BY JoinOne
  <1>2. \A b \in Waiting :
          /\ b.type \in EarlyTypes
          /\ b.id = job => b.type # "Submit"
    <2>1. ~(job < job)
      BY DEF JobIds
    <2> QED
      BY <2>1 DEF LifeInv, StartInv, OnItsWay, StartTypes
  <1>3. NoPair(queue', SubmitterClash(job))
    <2>1. ASSUME NEW b \in Waiting, NEW d \in Waiting
          PROVE  <<b, d>> \notin SubmitterClash(job)
      <3>1. b \in Action /\ d \in Action
        BY <1>1
      <3>2. b.id = job => b.type \notin {"Submit", "QueryResult", "Admitted",
                                        "Rejected"}
        BY <1>2 DEF EarlyTypes
      <3> QED
        BY <3>1, <3>2, SubmitterClashPair
    <2>2. NoPair(queue, SubmitterClash(job))
      BY <2>1 DEF NoPair, Items, Waiting
    <2>3. \A b \in Waiting : <<b, a>> \notin SubmitterClash(job)
      BY <1>1, <1>2, SubmitterClashPair DEF EarlyTypes
    <2> QED
      BY <2>2, <2>3, JoinClash
  <1>4. ~HasChild(job)'
    <2>1. \A h \in DOMAIN processes : processes[h].job # job
      <3>1. ~(job < job)
        BY DEF JobIds
      <3> QED
        BY <3>1 DEF StartInv
    <2> QED
      BY <2>1 DEF HasChild
  <1>5. /\ WaitsAs("Submit", job)'
        /\ \A type \in {"Controlled", "Finished", "Admitted", "Rejected",
                         "QueryResult", "StartProcess", "Started"} :
             ~WaitsAs(type, job)'
    <2>1. \A b \in Waiting' : b.type \in EarlyTypes
      BY <1>1, <1>2 DEF EarlyTypes
    <2>2. a \in Waiting' /\ a.type = "Submit" /\ a.id = job
      BY <1>1
    <2> QED
      BY <2>1, <2>2 DEF WaitsAs, EarlyTypes
  <1> QED
    BY <1>3, <1>4, <1>5 DEF SubmitterFate

LEMMA RoutedFate ==
  ASSUME HandleInv, StartInv, LifeInv, IpcInv, FateInv, RouteRequest
  PROVE  FateInv'
  <1> DEFINE c == Head(backlog)
  <1>1. PICK job \in JobIds, a \in Action :
          /\ AcceptRequest(job)
          /\ queue' = Append(queue, a)
          /\ a.id = job
          /\ phase = "requests"
          /\ UNCHANGED processes
          /\ \/ a.type = "Submit" /\ job = next_id
             \/ a.type \in {"Query", "Control"} /\ request[c].type # "Submit"
    <2>1. ASSUME NEW timeout \in Timeouts, RequestSubmit(timeout)
          PROVE  /\ Submission(timeout) \in Action
                 /\ Submission(timeout).type = "Submit"
                 /\ Submission(timeout).id = next_id
                 /\ queue' = Append(queue, Submission(timeout))
                 /\ phase = "requests"
                 /\ UNCHANGED processes
      BY <2>1, SubmitEffect DEF RequestSubmit, AddRequest, Submission
    <2>2. CASE /\ request[c].type = "Submit"
               /\ next_id \in JobIds
               /\ AcceptRequest(next_id)
               /\ \E timeout \in Timeouts : RequestSubmit(timeout)
      BY <2>1, <2>2
    <2>3. ASSUME NEW a \in Action, RequestOther(a)
          PROVE  /\ queue' = Append(queue, a)
                 /\ phase = "requests"
                 /\ UNCHANGED processes
      BY <2>3 DEF RequestOther, AddRequest, executorVars
    <2>4. CASE /\ request[c].type = "Query"
               /\ request[c].id \in JobIds
               /\ AcceptRequest(request[c].id)
               /\ RequestQuery(request[c].id)
      <3> DEFINE a == Simple("Query", request[c].id)
      <3>1. a \in Action /\ a.id = request[c].id /\ a.type = "Query"
        BY <2>4, Constructors DEF SimpleTypes, Simple
      <3>2. RequestOther(a)
        BY <2>4 DEF RequestQuery
      <3> HIDE DEF a
      <3> QED
        BY <2>3, <2>4, <3>1, <3>2
    <2>5. CASE /\ request[c].type = "Control"
               /\ request[c].id \in JobIds
               /\ AcceptRequest(request[c].id)
               /\ RequestControl(request[c].id, "GracefulStop")
      <3> DEFINE a == Signal("Control", request[c].id, "GracefulStop")
      <3>1. a \in Action /\ a.id = request[c].id /\ a.type = "Control"
        BY <2>5, Constructors DEF Signals, Signal
      <3>2. RequestOther(a)
        BY <2>5 DEF RequestControl
      <3> HIDE DEF a
      <3> QED
        BY <2>3, <2>5, <3>1, <3>2
    <2> QED
      BY <2>2, <2>4, <2>5, RoutedRequest
  <1>2. NoPair(queue', FateClash)
    BY <1>1, JoinFate DEF FateInv
  <1>3. /\ \A j \in JobIds : j # job => (ForSubmitter(j)' <=> ForSubmitter(j))
        /\ ForSubmitter(job)' => request[c].type = "Submit"
    BY <1>1, RouteFate
  <1>4. ASSUME NEW j \in JobIds, ForSubmitter(j)' PROVE SubmitterFate(j)'
    <2>1. CASE j # job
      <3>1. SubmitterFate(j)
        BY <1>3, <1>4, <2>1 DEF FateInv
      <3>2. HasChild(j)' => HasChild(j)
        BY <1>1 DEF HasChild
      <3> QED
        BY <1>1, <2>1, <3>1, <3>2, JoinedFate
    <2>2. CASE j = job
      <3>1. job = next_id /\ a.type = "Submit"
        BY <1>1, <1>3, <1>4, <2>2
      <3> QED
        BY <1>1, <2>2, <3>1, NewFate
    <2> QED
      BY <2>1, <2>2
  <1> QED
    BY <1>2, <1>4 DEF FateInv

\* A turn answers the client the head of the queue leads to; the job leads to
\* nobody afterwards.
LEMMA Answered ==
  ASSUME HandleInv, IpcInv, IpcInv', Dispatching, NEW job \in JobIds, ForSubmitter(job)'
  PROVE  /\ ForSubmitter(job)
         /\ ~(Answers(Head(queue).type) /\ HeadId = job)
  <1>1. Intercept(Head(queue)) /\ UNCHANGED request
    BY Dispatched DEF Intercept
  <1>2. CASE UNCHANGED <<job_to_client, clients>>
                /\ ~(Answers(Head(queue).type) /\ HeadId \in DOMAIN job_to_client)
    BY <1>1, <1>2 DEF ForSubmitter
  <1>3. CASE /\ Answers(Head(queue).type) /\ HeadId \in DOMAIN job_to_client
             /\ Respond(HeadId, ReplyKind(Head(queue).type))
    <2> DEFINE k == job_to_client[HeadId]
    <2>1. /\ DOMAIN job_to_client' = DOMAIN job_to_client \ {HeadId}
          /\ \A j \in DOMAIN job_to_client' : job_to_client'[j] = job_to_client[j]
          /\ DOMAIN clients' = DOMAIN clients \ {k}
          /\ \A l \in DOMAIN clients' : clients'[l] = clients[l]
      BY <1>3, RespondEffect
    <2>2. /\ job \in DOMAIN job_to_client' /\ job # HeadId
          /\ job_to_client'[job] \in DOMAIN clients'
      BY <2>1 DEF ForSubmitter, IpcInv, RoutesAgree
    <2>3. clients'[job_to_client'[job]] = clients[job_to_client[job]]
      BY <2>1, <2>2
    <2> QED
      BY <1>1, <2>1, <2>2, <2>3 DEF ForSubmitter
  <1> QED
    BY <1>1, <1>2, <1>3 DEF Intercept, HeadId

\* What waits for the job of the action that is dispatched.
LEMMA OwnTurn ==
  ASSUME HandleInv, StartInv, StartInv', Dispatching, NEW job \in JobIds,
         HeadId = job, ~Answers(Head(queue).type),
         SubmitterFate(job), NoPair(queue, FateClash),
         NEW actions \in Seq(Action), Emit(actions),
         \A b \in Items(actions) : Follows(Head(queue), b),
         Completes(Head(queue), actions),
         HasChild(job)' => WaitsAs("Started", job)'
  PROVE  SubmitterFate(job)'
  <1> DEFINE a == Head(queue)
             Waits(type) == WaitsAs(type, job)
             Stays(type) == \E b \in Rest : b.type = type /\ b.id = job
             Comes(type) ==
               \E b \in Items(actions) : b.type = type /\ b.id = job
  <1>1. /\ QueueOK /\ queue # <<>> /\ a \in Action /\ a.id = job
        /\ Waiting \subseteq Action /\ Items(actions) \subseteq Action
        /\ Waiting = {a} \cup Rest
        /\ Waiting' = Rest \cup Items(actions)
    BY Dispatched, TurnItems DEF HeadId
  <1> HIDE DEF a
  <1>2. /\ Waits("Submit") <=> Stays("Submit") \/ a.type = "Submit"
        /\ Waits("Query") <=> Stays("Query") \/ a.type = "Query"
        /\ Waits("Control") <=> Stays("Control") \/ a.type = "Control"
        /\ Waits("QueryResult") <=> Stays("QueryResult") \/ a.type = "QueryResult"
        /\ Waits("Controlled") <=> Stays("Controlled") \/ a.type = "Controlled"
        /\ Waits("Finished") <=> Stays("Finished") \/ a.type = "Finished"
        /\ Waits("Admitted") <=> Stays("Admitted") \/ a.type = "Admitted"
        /\ Waits("Rejected") <=> Stays("Rejected") \/ a.type = "Rejected"
        /\ Waits("StartProcess") <=> Stays("StartProcess") \/ a.type = "StartProcess"
        /\ Waits("Started") <=> Stays("Started") \/ a.type = "Started"
    BY <1>1 DEF WaitsAs
  <1>3. /\ Waits("Submit")' <=> Stays("Submit") \/ Comes("Submit")
        /\ Waits("Query")' <=> Stays("Query") \/ Comes("Query")
        /\ Waits("Control")' <=> Stays("Control") \/ Comes("Control")
        /\ Waits("QueryResult")' <=> Stays("QueryResult") \/ Comes("QueryResult")
        /\ Waits("Controlled")' <=> Stays("Controlled") \/ Comes("Controlled")
        /\ Waits("Finished")' <=> Stays("Finished") \/ Comes("Finished")
        /\ Waits("Admitted")' <=> Stays("Admitted") \/ Comes("Admitted")
        /\ Waits("Rejected")' <=> Stays("Rejected") \/ Comes("Rejected")
        /\ Waits("StartProcess")' <=> Stays("StartProcess") \/ Comes("StartProcess")
        /\ Waits("Started")' <=> Stays("Started") \/ Comes("Started")
    BY <1>1 DEF WaitsAs
  <1>4. \A b \in Items(actions) : b.type \in FateTypes =>
          <<a.type, b.type>> \in
            {<<"Submit", "Admitted">>, <<"Submit", "Rejected">>,
             <<"Admitted", "StartProcess">>, <<"StartProcess", "Started">>,
             <<"StartProcess", "Rejected">>, <<"PollProcess", "Finished">>,
             <<"Query", "QueryResult">>, <<"Control", "Controlled">>}
    BY DEF Follows, a
  <1>5. /\ ~Comes("Submit") /\ ~Comes("Query") /\ ~Comes("Control")
        /\ Comes("Admitted") => a.type = "Submit"
        /\ Comes("Rejected") => a.type \in {"Submit", "StartProcess"}
        /\ Comes("StartProcess") => a.type = "Admitted"
        /\ Comes("Started") => a.type = "StartProcess"
        /\ Comes("QueryResult") => a.type = "Query"
        /\ Comes("Controlled") => a.type = "Control"
        /\ Comes("Finished") => a.type = "PollProcess"
    BY <1>4 DEF FateTypes, AskTypes
  <1>6. a.type = "Submit" => Comes("Admitted") \/ Comes("Rejected")
    BY <1>1 DEF Completes, a
  <1>7. /\ a.type = "Submit" => ~Stays("Query") /\ ~Stays("Control")
        /\ a.type \in {"Admitted", "Rejected"} => ~Stays("QueryResult")
    <2>1. \A b \in Rest : <<a, b>> \notin SubmitterClash(job)
      BY <1>1, HeadClash DEF SubmitterFate, a
    <2> QED
      BY <1>1, <2>1, SubmitterClashPair
  <1> HIDE DEF Stays, Comes
  <1>8. ~Comes("Controlled")
    <2>1. CASE a.type = "Control"
      <3>1. ~HasChild(job)
        BY <1>2, <1>3, <2>1 DEF SubmitterFate
      <3>2. ~HasProcess(job)
        BY <3>1 DEF HasChild, HasProcess, HandleInv, OwnHandles
      <3> QED
        BY <1>1, <2>1, <3>2 DEF Completes, Comes, a
    <2> QED
      BY <1>5, <2>1
  <1>9. ~Comes("Finished")
    <2> SUFFICES ASSUME NEW b \in Items(actions), b.type = "Finished",
                        b.id = job
                 PROVE  FALSE
      BY DEF Comes
    <2>1. a.type = "PollProcess"
      BY <1>5 DEF Comes
    <2>2. HasChild(job)'
      BY <1>1 DEF StartInv
    <2>3. Stays("Started")
      BY <1>2, <1>3, <1>5, <2>1, <2>2
    <2>4. \A d \in Rest : <<a, d>> \notin FateClash
      BY <1>1, HeadClash DEF a
    <2> QED
      BY <1>1, <2>1, <2>3, <2>4, FateClashPair DEF Stays
  <1>10. NoPair(queue', SubmitterClash(job))
    <2>1. ASSUME NEW b \in Rest \cup Items(actions), NEW d \in Items(actions)
          PROVE  <<b, d>> \notin SubmitterClash(job)
      <3>1. b \in Action /\ d \in Action
        BY <1>1
      <3>2. d.id = job => d.type \notin {"Submit", "Query", "Control"}
        BY <1>5 DEF Comes
      <3>3. b.id = job /\ b.type \in {"Admitted", "Rejected"} =>
              ~(d.id = job /\ d.type = "QueryResult")
        <4>1. Stays("Admitted") => WaitsAs("Admitted", job)
          BY <1>2, <1>3
        <4>2. Stays("Rejected") => WaitsAs("Rejected", job)
          BY <1>2, <1>3
        <4>3. a.type = "Query" => WaitsAs("Query", job)
          BY <1>2, <1>3
        <4> QED
          BY <1>5, <4>1, <4>2, <4>3 DEF SubmitterFate, Stays, Comes
      <3> QED
        BY <3>1, <3>2, <3>3, SubmitterClashPair
    <2>2. NoPair(actions, SubmitterClash(job))
      BY <2>1 DEF NoPair, Items
    <2> QED
      BY <1>1, <2>1, <2>2, TurnPairs DEF SubmitterFate
  <1>11. a.type \notin
           {"Started", "Controlled", "QueryResult", "Finished", "Rejected"}
    BY DEF Answers, a
  <1>12. ~WaitsAs("Controlled", job)' /\ ~WaitsAs("Finished", job)'
    BY <1>2, <1>3, <1>8, <1>9 DEF SubmitterFate
  <1>13. WaitsAs("Query", job)' \/ WaitsAs("Control", job)' =>
           /\ WaitsAs("Submit", job)'
           /\ ~WaitsAs("Admitted", job)' /\ ~WaitsAs("Rejected", job)'
    BY <1>2, <1>3, <1>5, <1>7 DEF SubmitterFate
  <1>14. WaitsAs("QueryResult", job)' =>
           \/ WaitsAs("Submit", job)'
           \/ WaitsAs("Admitted", job)' \/ WaitsAs("Rejected", job)'
    BY <1>2, <1>3, <1>5, <1>6, <1>7, <1>11 DEF SubmitterFate
  <1>15. WaitsAs("StartProcess", job)' \/ WaitsAs("Started", job)' =>
           /\ ~WaitsAs("Query", job)' /\ ~WaitsAs("Control", job)'
           /\ ~WaitsAs("QueryResult", job)'
    BY <1>2, <1>3, <1>5, <1>7 DEF SubmitterFate
  <1> QED
    BY <1>10, <1>12, <1>13, <1>14, <1>15 DEF SubmitterFate

LEMMA DispatchFate ==
  ASSUME HandleInv, StartInv, StartInv', IpcInv, IpcInv', FateInv, Dispatching
  PROVE  FateInv'
  <1> DEFINE a == Head(queue)
  <1>1. /\ QueueOK /\ queue # <<>> /\ Drain
        /\ a \in Action /\ a.id = HeadId /\ HeadId \in JobIds
    BY Dispatched DEF HeadId
  <1>2. PICK actions \in Seq(Action) :
          /\ Emit(actions)
          /\ \A b \in Items(actions) : Follows(a, b)
          /\ Completes(a, actions)
    BY <1>1, DrainGives
  <1>3. /\ Waiting \subseteq Action /\ Items(actions) \subseteq Action
        /\ Waiting = {a} \cup Rest
        /\ Waiting' = Rest \cup Items(actions)
    BY <1>1, <1>2, TurnItems
  <1>4. \A b \in Rest : <<a, b>> \notin FateClash
    BY <1>1, HeadClash DEF FateInv
  <1> HIDE DEF a
  <1>5. NoPair(queue', FateClash)
    <2>1. \A b \in Items(actions) : b.type # "PollProcess"
      BY <1>2 DEF Follows, FateTypes
    <2>2. NoPair(actions, FateClash)
      <3>1. \A b, d \in Items(actions) : <<b, d>> \notin FateClash
                                         \/ b.type = "PollProcess"
        BY <1>3, <2>1, FateClashPair
      <3> QED
        BY <2>1, <3>1 DEF NoPair, Items
    <2>3. ASSUME NEW b \in Rest, NEW d \in Items(actions)
          PROVE  <<b, d>> \notin FateClash
      <3>1. b \in Action /\ d \in Action
        BY <1>3
      <3>2. d.type \in {"StartProcess", "Started"} =>
              a.type \in {"Admitted", "StartProcess"}
        BY <1>2 DEF Follows, FateTypes
      <3>3. a.type \in {"Admitted", "StartProcess"} => b.type # "PollProcess"
        BY <1>1, <1>4, <3>1, FateClashPair
      <3> QED
        BY <2>1, <3>1, <3>2, <3>3, FateClashPair
    <2> QED
      BY <1>1, <1>2, <2>2, <2>3, TurnPairs DEF FateInv
  <1>6. ASSUME NEW job \in JobIds, ForSubmitter(job)' PROVE SubmitterFate(job)'
    <2>1. /\ ForSubmitter(job)
          /\ ~(Answers(a.type) /\ a.id = job)
      BY <1>1, <1>6, Answered DEF a
    <2>2. SubmitterFate(job)
      BY <2>1 DEF FateInv
    <2>3. HasChild(job)' => WaitsAs("Started", job)'
      <3>1. ASSUME NEW b \in Waiting, b.id = job, b.type = "Started"
            PROVE  b \in Waiting'
        <4>1. b # a
          BY <2>1, <3>1 DEF Answers
        <4> QED
          BY <1>3, <4>1
      <3>2. HasChild(job) => \E b \in Waiting : b.id = job /\ b.type = "Started"
        BY <2>2 DEF SubmitterFate, WaitsAs
      <3>3. HasChild(job)' =>
              HasChild(job) \/ \E b \in Waiting' : b.id = job /\ b.type = "Started"
        BY <1>1, DrainChildren
      <3> QED
        BY <3>1, <3>2, <3>3 DEF WaitsAs
    <2>4. CASE a.id = job
      BY <1>1, <1>2, <2>1, <2>2, <2>3, <2>4, OwnTurn DEF FateInv, a
    <2>5. CASE a.id # job
      <3>1. \A b \in Items(actions) : b.type \in FateTypes => b.id # job
        BY <1>2, <2>5 DEF Follows
      <3>2. \A type \in FateTypes \ {"PollProcess"} :
              WaitsAs(type, job)' <=> WaitsAs(type, job)
        BY <1>3, <2>5, <3>1 DEF WaitsAs
      <3>3. NoPair(queue', SubmitterClash(job))
        <4>1. ASSUME NEW b \in Action, NEW d \in Items(actions)
              PROVE  <<b, d>> \notin SubmitterClash(job)
          BY <1>3, <3>1, <4>1, SubmitterClashPair DEF FateTypes, AskTypes
        <4>2. NoPair(actions, SubmitterClash(job))
          BY <1>3, <4>1 DEF NoPair, Items
        <4>3. NoPair(queue, SubmitterClash(job))
          BY <2>2 DEF SubmitterFate
        <4> QED
          BY <1>1, <1>2, <1>3, <4>1, <4>2, <4>3, TurnPairs
      <3> QED
        BY <2>2, <2>3, <3>2, <3>3, KeptFate
    <2> QED
      BY <2>4, <2>5
  <1> QED
    BY <1>5, <1>6 DEF FateInv

LEMMA NextFateInv ==
  ASSUME HandleInv, StartInv, LifeInv, IpcInv, FateInv, [Next]_vars
  PROVE  FateInv'
  <1>1. HandleInv' /\ StartInv' /\ IpcInv'
    <2>1. [CoreNext]_coreVars
      BY StepIsCore DEF IpcInv
    <2> QED
      BY <2>1, NextHandleInv, NextStartInv, NextIpcInv
  <1>2. CASE UNCHANGED coreVars /\ UNCHANGED <<request, clients, job_to_client>>
    <2>1. /\ UNCHANGED <<queue, next_id>>
          /\ \A id \in JobIds : HasChild(id)' => HasChild(id)
      BY <1>2 DEF coreVars, executorVars, HasChild
    <2> QED
      BY <1>2, <2>1, CalmFate
  <1>3. CASE ClientSteps
    <2>1. ASSUME NEW c \in Clients, RequestArrives(c) PROVE FateInv'
      BY <1>2, <1>3, <2>1 DEF RequestArrives, serverVars, ClientSteps
    <2> QED
      BY <1>3, <2>1, ConnectFate DEF ClientSteps
  <1>4. CASE Accepting
    <2>1. CASE \/ BeginAccepting
               \/ (DropConnection \/ StopAccepting \/ AcceptFails) /\ UNCHANGED coreVars
      BY <1>2, <2>1 DEF BeginAccepting, StartAccepting, DropConnection,
                        StopAccepting, AcceptFails, clientVars, serverVars
    <2> QED
      BY <1>4, <2>1, RoutedFate DEF Accepting
  <1>5. CASE Polling
    <2>1. UNCHANGED <<request, clients, job_to_client, reply>>
      BY <1>5 DEF Polling, ipcVars, clientVars, serverVars
    <2>2. UNCHANGED <<next_id, processes>>
      BY <1>5 DEF Polling, RequestPoll, RequestOther, FdReady, TimeoutFires,
                  BeginDrain, EndIteration, executorVars
    <2>3. \A id \in JobIds : HasChild(id)' => HasChild(id)
      BY <2>2 DEF HasChild
    <2>4. ASSUME NEW id \in JobIds, RequestPoll(id)
          PROVE  \E a \in Action :
                   /\ queue' = Append(queue, a) /\ a.type = "PollProcess"
                   /\ phase = "requests"
      <3> DEFINE a == Simple("PollProcess", id)
      <3>1. a \in Action /\ a.type = "PollProcess"
        BY Constructors DEF SimpleTypes, Simple
      <3>2. queue' = Append(queue, a) /\ phase = "requests"
        BY <2>4 DEF RequestPoll, RequestOther, AddRequest
      <3> HIDE DEF a
      <3> QED
        BY <3>1, <3>2
    <2>5. ASSUME NEW id \in JobIds,
                 NEW type \in {"PerformIo", "TimeoutReached", "KillDeadlineReached"},
                 AddEventActions(<<Simple(type, id)>>)
          PROVE  \E a \in Action : queue' = queue \o <<a>> /\ a.type = type
      <3> DEFINE a == Simple(type, id)
      <3>1. a \in Action /\ a.type = type
        BY Constructors DEF SimpleTypes, Simple
      <3>2. queue' = queue \o <<a>>
        BY <2>5 DEF AddEventActions
      <3> HIDE DEF a
      <3> QED
        BY <3>1, <3>2
    <2>6. \/ UNCHANGED queue
          \/ \E id \in JobIds : RequestPoll(id)
          \/ \E id \in JobIds,
                type \in {"PerformIo", "TimeoutReached", "KillDeadlineReached"} :
               AddEventActions(<<Simple(type, id)>>)
      <3>1. \A fd \in Fds : FdReady(fd) =>
              /\ fd_map[fd] \in JobIds
              /\ AddEventActions(<<Simple("PerformIo", fd_map[fd])>>)
        BY DEF FdReady, HandleInv, TypeOK
      <3>2. \A id \in JobIds : TimeoutFires(id) =>
              \/ AddEventActions(<<Simple("TimeoutReached", id)>>)
              \/ AddEventActions(<<Simple("KillDeadlineReached", id)>>)
        BY DEF TimeoutFires
      <3> QED
        BY <1>5, <3>1, <3>2 DEF Polling, BeginDrain, EndIteration
    <2>7. \/ UNCHANGED queue
          \/ \E a \in Action :
               /\ queue' = Append(queue, a) \/ queue' = queue \o <<a>>
               /\ a.type \in {"PollProcess", "PerformIo", "TimeoutReached",
                              "KillDeadlineReached"}
               /\ a.type = "PollProcess" => phase = "requests"
      BY <2>4, <2>5, <2>6
    <2> QED
      BY <2>1, <2>2, <2>3, <2>7, CalmFate
  <1>6. CASE Children /\ UNCHANGED ipcVars
    <2>1. \A h \in DOMAIN processes : ChildExits(h) =>
            /\ UNCHANGED <<queue, next_id>>
            /\ DOMAIN processes' = DOMAIN processes
            /\ \A g \in DOMAIN processes : processes'[g].job = processes[g].job
      BY ExitEffect
    <2>2. /\ UNCHANGED <<queue, next_id>>
          /\ \A id \in JobIds : HasChild(id)' => HasChild(id)
      BY <1>6, <2>1 DEF Children, HasChild
    <2> QED
      BY <1>6, <2>2, CalmFate DEF ipcVars, clientVars, serverVars
  <1>7. CASE UNCHANGED vars
    BY <1>2, <1>7 DEF vars, ipcVars, clientVars, serverVars
  <1> QED
    BY <1>1, <1>3, <1>4, <1>5, <1>6, <1>7, DispatchFate DEF Next

LEMMA InitFateInv == Init => FateInv
  <1> SUFFICES ASSUME Init PROVE FateInv
    OBVIOUS
  <1>1. queue = <<>> /\ DOMAIN job_to_client = {}
    BY DEF Init, CoreInit, IpcInit, EmptyMap
  <1>2. NoPair(queue, FateClash)
    BY <1>1, ShortPairs
  <1> QED
    BY <1>1, <1>2 DEF FateInv, ForSubmitter

\* What SubmitterHearsItsFate says of a step.
FateReply ==
  \A c \in Clients :
    request[c].type = "Submit" /\ reply'[c] # reply[c] =>
      reply'[c].kind \in {"Exec", "Error"} \/ EarlyQueryAnswered(c)

LEMMA DispatchReply ==
  ASSUME HandleInv, IpcInv, FateInv, Dispatching PROVE FateReply
  <1> DEFINE a == Head(queue)
  <1>1. /\ QueueOK /\ queue # <<>> /\ a \in Action /\ Intercept(a)
        /\ a.id = HeadId /\ HeadId \in JobIds
    BY Dispatched DEF HeadId
  <1>2. /\ Waiting \subseteq Action /\ Waiting = {a} \cup Rest
    <2>1. queue \in Seq(Action)
      BY <1>1 DEF QueueOK
    <2>2. Items(queue) = {Head(queue)} \cup Items(Tail(queue))
      BY <1>1, <2>1, HeadItems
    <2> QED
      BY <2>1, <2>2, ItemsType DEF Waiting, Rest
  <1>3. CASE UNCHANGED reply
    BY <1>3 DEF FateReply
  <1>4. CASE /\ Answers(a.type) /\ a.id \in DOMAIN job_to_client
             /\ Respond(a.id, ReplyKind(a.type))
    <2>0. PICK job \in JobIds : job = a.id
      BY <1>1
    <2>1. PICK kind : job = a.id /\ kind = ReplyKind(a.type)
      BY <2>0
    <2> DEFINE c == clients[job_to_client[job]]
    <2>2. job \in DOMAIN job_to_client /\ Respond(job, kind)
      BY <1>4, <2>1
    <2>3. /\ c \in Clients
          /\ reply' = [reply EXCEPT ![c] = [kind |-> kind, id |-> job]]
      BY <2>2, RespondEffect
    <2>4. request[c].id = job
      BY <2>2 DEF IpcInv, RoutesAgree
    <2>5. ASSUME request[c].type = "Submit"
          PROVE  kind \in {"Exec", "Error"} \/ EarlyQueryAnswered(c)
      <3>1. SubmitterFate(job)
        BY <2>2, <2>5 DEF FateInv, ForSubmitter
      <3>2. WaitsAs(a.type, job)
        BY <1>2, <2>1 DEF WaitsAs
      <3>3. CASE a.type = "QueryResult"
        <4>1. \A b \in Rest : <<a, b>> \notin SubmitterClash(job)
          BY <1>1, <3>1, HeadClash DEF SubmitterFate
        <4>2. \A b \in Waiting : ~(b.id = job /\ b.type = "Submit")
          BY <1>1, <1>2, <2>1, <3>3, <4>1, SubmitterClashPair
        <4>3. WaitsAs("Admitted", job) \/ WaitsAs("Rejected", job)
          BY <3>1, <3>2, <3>3, <4>2 DEF SubmitterFate, WaitsAs
        <4>4. Queued("Admitted", job) \/ Queued("Rejected", job)
          BY <4>3, QueuedWaits
        <4> QED
          BY <1>1, <2>1, <2>4, <3>3, <4>4 DEF EarlyQueryAnswered
      <3>4. CASE a.type \in {"Started", "Rejected"}
        BY <2>1, <3>4 DEF ReplyKind
      <3>5. a.type \notin {"Controlled", "Finished"}
        BY <3>1, <3>2 DEF SubmitterFate
      <3> QED
        BY <1>4, <3>3, <3>4, <3>5 DEF Answers
    <2> HIDE DEF c
    <2>6. /\ reply'[c].kind = kind
          /\ \A d \in Clients : d # c => reply'[d] = reply[d]
      BY <2>3 DEF IpcInv, IpcTypeOK
    <2> QED
      BY <2>5, <2>6 DEF FateReply
  <1> QED
    BY <1>1, <1>3, <1>4 DEF Intercept

LEMMA NextReply ==
  ASSUME HandleInv, IpcInv, FateInv, [Next]_vars PROVE [FateReply]_vars
  <1>1. CASE Dispatching
    BY <1>1, DispatchReply
  <1>2. CASE UNCHANGED reply
    BY <1>2 DEF FateReply
  <1>3. CASE UNCHANGED vars
    BY <1>3
  <1>4. ClientSteps \/ Accepting \/ Polling \/ (Children /\ UNCHANGED ipcVars)
          => UNCHANGED reply
    BY DEF ClientSteps, Connect, RequestArrives, Accepting, BeginAccepting,
           StartAccepting, RouteRequest, AcceptRequest, DropConnection,
           StopAccepting, AcceptFails, Polling, ipcVars
  <1> QED
    BY <1>1, <1>2, <1>3, <1>4 DEF Next

\* A client that submitted hears Exec or Error, never the end of the job, a
\* cancel's acknowledgement or a query's answer, whoever else asks about the
\* job, whichever ids they name and whenever the host polls it; the one
\* exception is a query made in the same iteration before the submission, for
\* the id the submission was then given (ipc.rs:103, 135-188).
THEOREM SubmitterCorrect == Spec => SubmitterHearsItsFate
  <1>1. Spec => [](HandleInv /\ StartInv /\ LifeInv /\ IpcInv)
    BY DaemonInvariants
  <1>2. (HandleInv /\ StartInv /\ LifeInv /\ IpcInv)
          /\ FateInv /\ [Next]_vars => FateInv'
    BY NextFateInv
  <1>3. (HandleInv /\ StartInv /\ LifeInv /\ IpcInv)
          /\ FateInv /\ [Next]_vars => [FateReply]_vars
    BY NextReply
  <1>4. Spec => [][FateReply]_vars
    BY <1>1, <1>2, <1>3, InitFateInv, PTL DEF Spec
  <1>5. SubmitterHearsItsFate <=> [][FateReply]_vars
    BY DEF SubmitterHearsItsFate, FateReply
  <1> QED
    BY <1>4, <1>5

=============================================================================
