--------------------------------- MODULE Ipc ---------------------------------
(***************************************************************************)
(* The Unix socket of the daemon (src/src/mid_level): IpcModule, which     *)
(* accepts a connection, reads its one request, remembers who asked about  *)
(* which job, and answers when the core's actions come by; Router, which   *)
(* turns a request into an action; and the clients.                        *)
(*                                                                         *)
(* A connection stands for its descriptor: it is open from connect until   *)
(* the daemon answers or drops it.                                         *)
(***************************************************************************)
EXTENDS Integers, Sequences, FiniteSets, Maps

CONSTANTS
  Clients,       \* client connections, each used once
  RequestIds,    \* job ids the clients can name
  MaxClientId,   \* bound: u32::MAX in the code
  GuessIds,      \* may a client name an id that no client has been told?
  LateRequests,  \* may a request arrive after the connection is accepted?
  Malformed,     \* may a client send something that is no request?
  AcceptFaults   \* may accept4 fail with connections pending (EMFILE, ...)?

ASSUME IpcAssumption ==
  /\ IsFiniteSet(Clients)
  /\ MaxClientId \in Nat \ {0}
  /\ Cardinality(Clients) <= MaxClientId   \* client ids do not come round
  /\ {GuessIds, LateRequests, Malformed, AcceptFaults} \subseteq BOOLEAN

NoRequest == [type |-> "none", id |-> 0]
Garbage == [type |-> "garbage", id |-> 0]

\* What a client can ask for: Exec, GetResult(id) or Cancel(id), named here by
\* the action Router::handle makes of it.  The id of a Submit is the Router's.
Request == [type : {"Submit"}, id : {0}]
             \cup [type : {"Query", "Control"}, id : RequestIds]

NoReply == [kind |-> "none", id |-> 0]
Reply == [kind : {"Exec", "CancelOk", "Result", "Error"}, id : RequestIds]

VARIABLES
  conn,           \* "idle", "pending", "held", "answered" or "dropped"
  request,        \* what the client asked; a Submit gets its id when routed
  arrived,        \* clients whose whole request has reached the socket
  backlog,        \* connections the kernel holds for accept4
  edge,           \* an edge of the listening socket not yet reported
  accepting,      \* inside the loop of handle_ready
  failed,         \* accept4 failed with connections pending, none came since
  clients,        \* IpcModule::clients
  job_to_client,  \* IpcModule::job_to_client
  next_client_id, \* IpcModule::next_client_id
  reply           \* what the client was answered

clientVars == <<conn, request, arrived, backlog, edge>>
serverVars == <<accepting, failed, clients, job_to_client, next_client_id>>
ipcVars == <<clientVars, serverVars, reply>>

IpcInit ==
  /\ conn = [c \in Clients |-> "idle"]
  /\ request = [c \in Clients |-> NoRequest]
  /\ arrived = {}
  /\ backlog = <<>>
  /\ edge = FALSE
  /\ accepting = FALSE
  /\ failed = FALSE
  /\ clients = EmptyMap
  /\ job_to_client = EmptyMap
  /\ next_client_id = 1
  /\ reply = [c \in Clients |-> NoReply]

-----------------------------------------------------------------------------
(***************************************************************************)
(* The clients and the kernel's side of the listening socket.              *)
(***************************************************************************)

\* An Exec reply tells its id; clients are free to pass it on.  But a client
\* may name any id, one the Router has not given out yet included.
KnownIds ==
  IF GuessIds THEN RequestIds
  ELSE {reply[c].id : c \in {d \in Clients : reply[d].kind = "Exec"}}

MayAsk(req) ==
  \/ req.type = "Submit"
  \/ req.type \in {"Query", "Control"} /\ req.id \in KnownIds
  \/ req = Garbage /\ Malformed

\* connect(2): the connection is queued and, the socket being edge-triggered,
\* each arrival is reported once.
Connect(c, req) ==
  /\ conn[c] = "idle"
  /\ MayAsk(req)
  /\ conn' = [conn EXCEPT ![c] = "pending"]
  /\ request' = [request EXCEPT ![c] = req]
  /\ backlog' = Append(backlog, c)
  /\ edge' = TRUE
  /\ arrived' \in IF LateRequests THEN {arrived, arrived \cup {c}}
                                  ELSE {arrived \cup {c}}
  /\ failed' = FALSE
  /\ UNCHANGED <<accepting, clients, job_to_client, next_client_id, reply>>

\* The rest of the request reaches the socket.
RequestArrives(c) ==
  /\ conn[c] = "pending"
  /\ c \notin arrived
  /\ arrived' = arrived \cup {c}
  /\ UNCHANGED <<conn, request, backlog, edge, serverVars, reply>>

-----------------------------------------------------------------------------
(***************************************************************************)
(* IpcModule::handle_ready, one turn of its accept loop at a time.         *)
(***************************************************************************)

\* handle_event on the server token.
StartAccepting ==
  /\ edge
  /\ ~accepting
  /\ edge' = FALSE
  /\ accepting' = TRUE
  /\ failed' = FALSE
  /\ UNCHANGED <<conn, request, arrived, backlog, clients, job_to_client,
                 next_client_id, reply>>

\* decode_request reads without waiting: a request that is not all there is
\* treated like one that does not parse.
Decodes(c) == c \in arrived /\ request[c] # Garbage

\* Mutant: the counter is not brought round.
NextClientIdUnbounded == next_client_id + 1

\* Mutant: the counter stands still.
NextClientIdStuck == next_client_id

NextClientId == IF next_client_id = MaxClientId THEN 1 ELSE next_client_id + 1

\* A request that decodes: the client is kept and the job it is about will
\* lead back to it, whoever asked about that job before.
AcceptRequest(job) ==
  /\ accepting
  /\ backlog # <<>>
  /\ LET c == Head(backlog)
     IN /\ Decodes(c)
        /\ conn' = [conn EXCEPT ![c] = "held"]
        /\ request' = [request EXCEPT ![c].id = job]
        /\ clients' = Insert(clients, next_client_id, c)
        /\ job_to_client' = Insert(job_to_client, job, next_client_id)
        /\ next_client_id' = NextClientId
  /\ backlog' = Tail(backlog)
  /\ UNCHANGED <<arrived, edge, accepting, failed, reply>>

\* No request, or no credentials: the connection is closed without a word.
DropConnection ==
  /\ accepting
  /\ backlog # <<>>
  /\ ~Decodes(Head(backlog))
  /\ conn' = [conn EXCEPT ![Head(backlog)] = "dropped"]
  /\ backlog' = Tail(backlog)
  /\ UNCHANGED <<request, arrived, edge, serverVars, reply>>

\* Mutant: one connection is accepted for each edge.
StopAcceptingAtOnce ==
  /\ accepting
  /\ accepting' = FALSE
  /\ UNCHANGED <<clientVars, failed, clients, job_to_client, next_client_id,
                 reply>>

\* accept4 returns EAGAIN: nothing is pending.
StopAccepting ==
  /\ accepting
  /\ backlog = <<>>
  /\ accepting' = FALSE
  /\ UNCHANGED <<clientVars, failed, clients, job_to_client, next_client_id,
                 reply>>

\* accept4 returns another error: what is pending stays in the backlog, and
\* the edge that announced it is used up.
AcceptFails ==
  /\ AcceptFaults
  /\ accepting
  /\ backlog # <<>>
  /\ accepting' = FALSE
  /\ failed' = TRUE
  /\ UNCHANGED <<clientVars, clients, job_to_client, next_client_id, reply>>

-----------------------------------------------------------------------------
(***************************************************************************)
(* IpcModule::intercept_action: the core's actions on their way past.      *)
(***************************************************************************)

ReplyKind(type) ==
  CASE type = "Started" -> "Exec"
    [] type = "Controlled" -> "CancelOk"
    [] type \in {"QueryResult", "Finished"} -> "Result"
    [] type = "Rejected" -> "Error"

\* Mutant: a rejection is not passed on.
AnswersButRejected(type) ==
  type \in {"Started", "Controlled", "QueryResult", "Finished"}

Answers(type) ==
  type \in {"Started", "Controlled", "QueryResult", "Finished", "Rejected"}

\* Mutant: the client stays in the table after it was answered.
RespondKeepsClient(job, kind) ==
  LET client_id == job_to_client[job]
  IN /\ job_to_client' = Delete(job_to_client, job)
     /\ reply' = [reply EXCEPT ![clients[client_id]] = [kind |-> kind, id |-> job]]
     /\ conn' = [conn EXCEPT ![clients[client_id]] = "answered"]
     /\ UNCHANGED clients

\* The client that asked last about the job is answered and closed.
Respond(job, kind) ==
  LET client_id == job_to_client[job]
  IN /\ job_to_client' = Delete(job_to_client, job)
     /\ clients' = Delete(clients, client_id)
     /\ IF client_id \in DOMAIN clients
        THEN /\ reply' = [reply EXCEPT ![clients[client_id]] =
                                         [kind |-> kind, id |-> job]]
             /\ conn' = [conn EXCEPT ![clients[client_id]] = "answered"]
        ELSE UNCHANGED <<reply, conn>>

Intercept(action) ==
  /\ IF Answers(action.type) /\ action.id \in DOMAIN job_to_client
     THEN Respond(action.id, ReplyKind(action.type))
     ELSE UNCHANGED <<job_to_client, clients, reply, conn>>
  /\ UNCHANGED <<request, arrived, backlog, edge, accepting, failed,
                 next_client_id>>

-----------------------------------------------------------------------------
(***************************************************************************)
(* Properties                                                              *)
(***************************************************************************)

\* The types of the variables.
IpcTypeOK ==
  /\ conn \in [Clients -> {"idle", "pending", "held", "answered", "dropped"}]
  /\ request \in [Clients -> {NoRequest, Garbage} \cup Request
                                \cup [type : {"Submit"}, id : RequestIds]]
  /\ arrived \subseteq Clients
  /\ backlog \in Seq(Clients)
  /\ {edge, accepting, failed} \subseteq BOOLEAN
  /\ DOMAIN clients \subseteq 1..MaxClientId
  /\ Range(clients) \subseteq Clients
  /\ DOMAIN job_to_client \subseteq RequestIds
  /\ Range(job_to_client) \subseteq 1..MaxClientId
  /\ next_client_id \in 1..MaxClientId
  /\ reply \in [Clients -> {NoReply} \cup Reply]

\* The two tables agree: a job leads to a client whose descriptor is held and
\* who asked about that very job, and a descriptor is in the table once, so
\* it is answered and closed once (ipc.rs:94-108, 135-188).
RoutesAgree ==
  /\ \A job \in DOMAIN job_to_client :
       /\ job_to_client[job] \in DOMAIN clients
       /\ request[clients[job_to_client[job]]].id = job
  /\ \A k \in DOMAIN clients :
       /\ conn[clients[k]] = "held"
       /\ \A l \in DOMAIN clients : clients[k] = clients[l] => k = l

\* A reply is about the job the client asked about.
ReplyAboutAskedJob ==
  \A c \in Clients : reply[c] # NoReply => reply[c].id = request[c].id

\* A connection is dropped on a parse error only (ipc.rs:121).
DroppedOnParseError ==
  \A c \in Clients : conn[c] = "dropped" => request[c] = Garbage

\* After an error of accept4 nobody calls it again before the next arrival.
Stranded == failed /\ ~edge

\* Every connection is taken off the backlog, though the socket reports each
\* arrival once; only an error of accept4 leaves connections behind, until
\* another one arrives (ipc.rs:58-80).
ConnectionsAccepted ==
  \A c \in Clients :
    (conn[c] = "pending") ~> (conn[c] # "pending" \/ Stranded)

\* A client that submitted a job and was not dropped is answered.
SubmitterAnswered ==
  \A c \in Clients :
    (conn[c] = "held" /\ request[c].type = "Submit") ~> (conn[c] = "answered")

=============================================================================
