---------------------------- MODULE SpawnBackends ----------------------------
(***************************************************************************)
(* spawn_start (src/src/low_level/spawn/mod.rs): the pipes, the two        *)
(* backends with their early returns, the descriptors the child starts     *)
(* with and those the parent is left with.                                 *)
(*                                                                         *)
(* The child works on its own copy of the descriptor table, so what it     *)
(* does up to execve is one step.                                          *)
(***************************************************************************)
EXTENDS Integers, Sequences, FiniteSets, Maps

CONSTANTS
  Tables,   \* the sets of descriptors the host may have open
  MaxFd     \* bound: the highest descriptor a process can have

ASSUME TablesAssumption == MaxFd \in Nat /\ Tables \subseteq SUBSET (0..MaxFd)

StreamSet == {"Stdin", "Stdout", "Stderr"}
Target == [Stdin |-> 0, Stdout |-> 1, Stderr |-> 2]

\* A file is an end of a pipe or something the host opened.
Host == <<"host", "">>
ChildEnd(s) == <<s, IF s = "Stdin" THEN "r" ELSE "w">>
ParentEnd(s) == <<s, IF s = "Stdin" THEN "w" ELSE "r">>

\* The fields of Pipes: stdin_r, stdin_w, stdout_r, ...
Fields == StreamSet \X {"r", "w"}

VARIABLES
  wants,     \* the streams that get a pipe
  backend,   \* what resolve_backend chose
  host,      \* the descriptors that were open before
  table,     \* the parent's descriptors and their files
  pipes,     \* Pipes: the fields that are Some, and the numbers they own
  drain,     \* the FdSlots of DrainState, under the ends they own
  step,      \* where spawn_start is
  todo,      \* the streams the current step has still to deal with
  actions,   \* the file actions of posix_spawn
  child      \* its state, and its descriptors once it runs the program

spawnVars ==
  <<wants, backend, host, table, pipes, drain, step, todo, actions, child>>
optionVars == <<wants, backend, host>>
ownerVars == <<table, pipes, drain>>

\* The streams with a pipe, in the order of Pipes::new.
IfWanted(s) == IF s \in wants THEN <<s>> ELSE <<>>
Wanted == IfWanted("Stdin") \o IfWanted("Stdout") \o IfWanted("Stderr")

\* resolve_backend: setsid and chdir need fork; Auto depends on the platform.
ResolveBackend(asked, isolated, cwd) ==
  IF isolated \/ cwd THEN {"Fork"}
  ELSE IF asked = "Auto" THEN {"PosixSpawn", "Fork"} ELSE {asked}

SpawnInit ==
  /\ wants \in SUBSET StreamSet
  /\ \E asked \in {"Auto", "PosixSpawn", "Fork"}, isolated, cwd \in BOOLEAN :
       backend \in ResolveBackend(asked, isolated, cwd)
  /\ host \in Tables
  /\ table = [fd \in host |-> Host]
  /\ pipes = EmptyMap
  /\ drain = EmptyMap
  /\ step = "pipes"
  /\ todo = Wanted
  /\ actions = <<>>
  /\ child = [state |-> "none", fds |-> EmptyMap]

-----------------------------------------------------------------------------
(***************************************************************************)
(* The parent, up to the start of the child.                               *)
(***************************************************************************)

Free(fds) == (0..MaxFd) \ fds
Lowest(fds) == CHOOSE fd \in fds : \A other \in fds : fd <= other

\* pipe2 takes the two lowest numbers that are free.
MakePipe ==
  /\ step = "pipes"
  /\ todo # <<>>
  /\ Cardinality(Free(DOMAIN table)) >= 2
  /\ LET r == Lowest(Free(DOMAIN table))
         w == Lowest(Free(DOMAIN table \cup {r}))
         rEnd == <<Head(todo), "r">>
         wEnd == <<Head(todo), "w">>
     IN /\ table' = Insert(Insert(table, r, rEnd), w, wEnd)
        /\ pipes' = Insert(Insert(pipes, rEnd, r), wEnd, w)
  /\ todo' = Tail(todo)
  /\ UNCHANGED <<optionVars, drain, step, actions, child>>

PipesMade ==
  /\ step = "pipes"
  /\ todo = <<>>
  /\ step' = IF backend = "Fork" THEN "fork" ELSE "actions"
  /\ todo' = Wanted
  /\ UNCHANGED <<optionVars, ownerVars, actions, child>>

Dup2(from, to) == [op |-> "dup2", from |-> from, to |-> to]
Close(fds) == [op |-> "close", fds |-> fds]

\* Mutant: the parent's end is handed to the child.
StreamActionsOtherEnd(s) ==
  <<Dup2(pipes[ParentEnd(s)], Target[s]),
    Close({pipes[ChildEnd(s)], pipes[ParentEnd(s)]})>>

\* adddup2 of the child's end, addclose of both.
StreamActions(s) ==
  <<Dup2(pipes[ChildEnd(s)], Target[s]),
    Close({pipes[ChildEnd(s)], pipes[ParentEnd(s)]})>>

AddActions ==
  /\ step = "actions"
  /\ todo # <<>>
  /\ actions' = actions \o StreamActions(Head(todo))
  /\ todo' = Tail(todo)
  /\ UNCHANGED <<optionVars, ownerVars, step, child>>

\* /proc/self/fd is listed and every descriptor above 2 is to be closed in the
\* child; when it cannot be opened the list stays as it is.
ListDescriptors ==
  /\ step = "actions"
  /\ todo = <<>>
  /\ \/ /\ Free(DOMAIN table) # {}
        /\ actions' = Append(actions, Close(DOMAIN table \ (0..2)))
     \/ UNCHANGED actions
  /\ step' = "posix_spawn"
  /\ UNCHANGED <<optionVars, ownerVars, todo, child>>

-----------------------------------------------------------------------------
(***************************************************************************)
(* Who owns which descriptor.  An Fd closes its number when it is dropped. *)
(***************************************************************************)

\* The table when the owners of these ends have been dropped.
Closing(owners, ends) ==
  Restrict(table, DOMAIN table \ {owners[e] : e \in DOMAIN owners \cap ends})

Without(owners, ends) == Restrict(owners, DOMAIN owners \ ends)

\* The fields are taken and what they held is dropped.
TakeAndDrop(fields) ==
  /\ table' = Closing(pipes, fields)
  /\ pipes' = Without(pipes, fields)

\* Mutant: the numbers are closed, but the fields keep them and close them once
\* more when they go out of scope.
CloseAllByNumber ==
  /\ table' = Closing(pipes, Fields)
  /\ UNCHANGED pipes

\* Pipes::close_all, the six takes.
CloseAll ==
  TakeAndDrop({<<"Stdin", "r">>, <<"Stdin", "w">>, <<"Stdout", "r">>,
               <<"Stdout", "w">>, <<"Stderr", "r">>, <<"Stderr", "w">>})

-----------------------------------------------------------------------------
(***************************************************************************)
(* The early returns.  Those of the backends call close_all, and whatever  *)
(* the locals own is dropped in any case when they go out of scope.        *)
(***************************************************************************)

ReturnError == step' = "returning"

\* pipe2 fails: Pipes::new has only locals so far.
PipeFails ==
  /\ step = "pipes"
  /\ todo # <<>>
  /\ ReturnError
  /\ UNCHANGED <<optionVars, ownerVars, todo, actions, child>>

\* The file actions: init, adddup2 and addclose.
FileActionFails ==
  /\ step = "actions"
  /\ CloseAll
  /\ ReturnError
  /\ UNCHANGED <<optionVars, drain, todo, actions, child>>

\* The attributes and posix_spawn itself.
PosixSpawnFails ==
  /\ step = "posix_spawn"
  /\ CloseAll
  /\ ReturnError
  /\ UNCHANGED <<optionVars, drain, todo, actions, child>>

ForkFails ==
  /\ step = "fork"
  /\ CloseAll
  /\ ReturnError
  /\ UNCHANGED <<optionVars, drain, todo, actions, child>>

\* set_nonblock fails in DrainState::new: its arguments are dropped, and the
\* child runs on.
DrainFails ==
  /\ step = "drain"
  /\ wants # {}
  /\ ReturnError
  /\ UNCHANGED <<optionVars, ownerVars, todo, actions, child>>

\* The Fds of the function that returns go out of scope.
Return ==
  /\ step = "returning"
  /\ TakeAndDrop(Fields)
  /\ step' = "failed"
  /\ UNCHANGED <<optionVars, drain, todo, actions, child>>

Fail ==
  \/ PipeFails
  \/ FileActionFails
  \/ PosixSpawnFails
  \/ ForkFails
  \/ DrainFails
  \/ Return

-----------------------------------------------------------------------------
(***************************************************************************)
(* The child.                                                              *)
(***************************************************************************)

\* Mutant: pipe without O_CLOEXEC.
CloexecNever(file) == FALSE

\* make_pipe sets O_CLOEXEC; of the host's descriptors nothing is known.
Cloexec(file) == file # Host

\* One file action on the child's table: dup2 onto another number clears the
\* close-on-exec flag, onto the same number it does nothing.
Perform(action, fds) ==
  IF action.op = "close" THEN Restrict(fds, DOMAIN fds \ action.fds)
  ELSE IF action.from = action.to THEN fds
  ELSE Insert(fds, action.to,
              [file |-> fds[action.from].file, cloexec |-> FALSE])

PerformAll(list) ==
  LET after[i \in 0..Len(list)] ==
        IF i = 0
        THEN [fd \in DOMAIN table |->
                [file |-> table[fd], cloexec |-> Cloexec(table[fd])]]
        ELSE Perform(list[i], after[i - 1])
  IN after[Len(list)]

\* execve closes what is marked so.
Exec(fds) ==
  [fd \in {n \in DOMAIN fds : ~fds[n].cloexec} |-> fds[fd].file]

Starts(list) ==
  child' = [state |-> "running", fds |-> Exec(PerformAll(list))]

PosixSpawn ==
  /\ step = "posix_spawn"
  /\ Starts(actions)
  /\ step' = "parent"
  /\ UNCHANGED <<optionVars, ownerVars, todo, actions>>

\* The dup2 of the child when its end has not the right number already.
ForkActions ==
  [i \in DOMAIN Wanted |->
     Dup2(pipes[ChildEnd(Wanted[i])], Target[Wanted[i]])]

\* close_range_fast closes all above 2, unless neither close_range nor
\* /proc/self/fd is to be had.  chdir and execve may fail: _exit(127).
Fork ==
  /\ step = "fork"
  /\ \/ Starts(Append(ForkActions, Close(3..MaxFd)))
     \/ Starts(ForkActions)
     \/ child' = [child EXCEPT !.state = "exited"]
  /\ step' = "parent"
  /\ UNCHANGED <<optionVars, ownerVars, todo, actions>>

-----------------------------------------------------------------------------
(***************************************************************************)
(* The parent, once the child has been started.                            *)
(***************************************************************************)

\* Mutant: of stdout the parent gives up its own end.
ChildFieldsMixedUp == {<<"Stdin", "r">>, <<"Stdout", "r">>, <<"Stderr", "w">>}

\* stdin_r, stdout_w and stderr_w.
ChildFields == {ChildEnd(s) : s \in StreamSet}

DropChildEnds ==
  /\ step = "parent"
  /\ TakeAndDrop(ChildFields)
  /\ step' = "drain"
  /\ UNCHANGED <<optionVars, drain, todo, actions, child>>

\* stdin_w, stdout_r and stderr_r become the slots of DrainState, and Pipes
\* goes out of scope.
ParentFields == {ParentEnd(s) : s \in StreamSet}

HandOver ==
  /\ step = "drain"
  /\ drain' = Restrict(pipes, DOMAIN pipes \cap ParentFields)
  /\ table' = Closing(pipes, Fields \ ParentFields)
  /\ pipes' = EmptyMap
  /\ step' = "started"
  /\ UNCHANGED <<optionVars, todo, actions, child>>

SpawnStart ==
  \/ MakePipe
  \/ PipesMade
  \/ AddActions
  \/ ListDescriptors
  \/ Fail
  \/ PosixSpawn
  \/ Fork
  \/ DropChildEnds
  \/ HandOver

-----------------------------------------------------------------------------
(***************************************************************************)
(* Properties                                                              *)
(***************************************************************************)

\* The fields and the slots that may own a descriptor.
Owners == {"pipes", "drain"} \X Fields
OwnersOf(fd) ==
  {<<"pipes", e>> : e \in {f \in DOMAIN pipes : pipes[f] = fd}}
    \cup {<<"drain", e>> : e \in {f \in DOMAIN drain : drain[f] = fd}}
Owned == {pipes[e] : e \in DOMAIN pipes} \cup {drain[e] : e \in DOMAIN drain}

\* "FD lifecycle depends on strict ownership discipline" (README.md:143): at
\* every point of spawn_start, and whichever call fails, each descriptor it has
\* made has exactly one owner, no owner keeps a number that is closed or the
\* host's, and after an error nothing is left.  A number closed twice would be
\* somebody else's by then, and one without an owner is open for good
\* (spawn/mod.rs:153-187, 494-651, 669-763).
DescriptorsBalanced ==
  /\ \A fd \in host : fd \in DOMAIN table /\ table[fd] = Host
  /\ Owned \subseteq DOMAIN table \ host
  /\ \A fd \in DOMAIN table \ host :
       \E owner \in Owners : OwnersOf(fd) = {owner}
  /\ step = "failed" => DOMAIN table = host

\* A started job leaves exactly one descriptor for each captured stream in the
\* parent, its own end: with an end of the child among them the stream would
\* never end (spawn/mod.rs:633-651, 745-763).
ParentHoldsItsEnds ==
  step = "started" =>
    /\ {table[fd] : fd \in DOMAIN table \ host} = {ParentEnd(s) : s \in wants}
    /\ Cardinality(DOMAIN table \ host) = Cardinality(wants)

\* In a host whose standard descriptors are open the child finds its pipes at
\* 0, 1 and 2 and the host's files where no pipe was asked for, whichever
\* backend starts it (spawn/mod.rs:505-548, 677-699).
ChildFindsItsStreams ==
  (child.state = "running" /\ 0..2 \subseteq host) =>
    \A s \in StreamSet :
      /\ Target[s] \in DOMAIN child.fds
      /\ child.fds[Target[s]] = IF s \in wants THEN ChildEnd(s) ELSE Host

\* The child never holds an end of the parent, whatever numbers the pipes got
\* and whether or not the rest could be closed: with the write end of its own
\* stdin it would wait for the end of its input for ever (spawn/mod.rs:139, 514).
NoParentEndInChild ==
  \A fd \in DOMAIN child.fds : \A s \in wants : child.fds[fd] # ParentEnd(s)

=============================================================================
