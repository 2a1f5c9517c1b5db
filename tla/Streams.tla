------------------------------- MODULE Streams -------------------------------
(***************************************************************************)
(* The streams of one child: the kernel's pipes, the DrainState that holds *)
(* the parent's ends (src/src/low_level/io), edge-triggered readiness      *)
(* (src/src/low_level/reactor) and the PerformIo effect that serves all    *)
(* the slots of a drain (src/src/runtime.rs:179-192).                      *)
(*                                                                         *)
(* Bytes are numbered in the order they enter their pipe.  Each read(2)    *)
(* and write(2) is a step, so the child runs in between.                   *)
(***************************************************************************)
EXTENDS Integers, Sequences, FiniteSets

CONSTANTS
  Capacity,    \* bytes a pipe holds (65536 by default)
  ReadChunk,   \* READ_CHUNK, the most one read asks for
  DropChunk,   \* the buffer that discarded bytes are read into
  WriteChunk,  \* WRITE_CHUNK
  Limit,       \* max_output
  Input,       \* length of the stdin buffer
  MaxOutput    \* bound: bytes the child writes to each output stream

ASSUME SizesAssumption ==
  /\ {Capacity, ReadChunk, DropChunk, WriteChunk} \subseteq Nat \ {0}
  /\ {Limit, Input, MaxOutput} \subseteq Nat

Outputs == {"Stdout", "Stderr"}
Streams == Outputs \cup {"Stdin"}

VARIABLES
  pipe,      \* the bytes in each pipe
  closed,    \* streams whose last end on the child's side is closed
  sent,      \* bytes that entered each pipe
  received,  \* the bytes of stdin the child has read
  slots,     \* DrainState: the streams whose FdSlot is Some
  kept,      \* BufferState: stdout and stderr (WriterState::off is sent.Stdin)
  ready,     \* streams on the ready list of epoll
  live,      \* the job is in the table (state.jobs)
  passes,    \* PerformIo actions queued
  at         \* "wait", "queue", or the stream whose slot is being served

vars == <<pipe, closed, sent, received, slots, kept, ready, live, passes, at>>
drainVars == <<slots, kept, passes, at>>
outsideVars == <<closed, received, ready, live>>

Least(a, b) == IF a < b THEN a ELSE b
Room(s) == Capacity - Len(pipe[s])

\* What poll(2) would report of the parent's end of a stream.
Pollable(s) ==
  \/ s \in closed
  \/ s \in Outputs /\ pipe[s] # <<>>
  \/ s = "Stdin" /\ Room(s) > 0

\* The pipes are new and watched: epoll_ctl queues what is ready already.
Init ==
  /\ pipe = [s \in Streams |-> <<>>]
  /\ closed = {}
  /\ sent = [s \in Streams |-> 0]
  /\ received = <<>>
  /\ slots \in SUBSET Streams
  /\ kept = [s \in Outputs |-> <<>>]
  /\ ready = slots \cap {"Stdin"}
  /\ live = TRUE
  /\ passes = 0
  /\ at = "wait"

-----------------------------------------------------------------------------
(***************************************************************************)
(* The pipes.                                                              *)
(***************************************************************************)

Bytes(first, n) == [i \in 1..n |-> first + i - 1]

Enter(s, bytes) ==
  /\ pipe' = [pipe EXCEPT ![s] = @ \o bytes]
  /\ sent' = [sent EXCEPT ![s] = @ + Len(bytes)]

Leave(s, n) == pipe' = [pipe EXCEPT ![s] = SubSeq(@, n + 1, Len(@))]

\* An edge: certain when the other end became usable, else up to the kernel.
Wake(s, certain) ==
  \/ ready' = ready \cup (slots \cap {s})
  \/ ~certain /\ UNCHANGED ready

-----------------------------------------------------------------------------
(***************************************************************************)
(* The child, or whoever inherited its ends.  Both ends of a pipe are      *)
(* non-blocking (spawn/mod.rs:139): a write to a full pipe is EAGAIN, and  *)
(* what the child makes of it is its own affair.                           *)
(***************************************************************************)

ChildWrites(s) ==
  /\ s \in (Outputs \cap slots) \ closed
  /\ \E n \in 1..Least(Room(s), MaxOutput - sent[s]) :
       Enter(s, Bytes(sent[s] + 1, n))
  /\ Wake(s, pipe[s] = <<>>)
  /\ UNCHANGED <<drainVars, live, closed, received>>

ChildReads ==
  /\ "Stdin" \notin closed
  /\ \E n \in 1..Len(pipe.Stdin) :
       /\ received' = received \o SubSeq(pipe.Stdin, 1, n)
       /\ Leave("Stdin", n)
  /\ Wake("Stdin", Room("Stdin") = 0)
  /\ UNCHANGED <<drainVars, live, closed, sent>>

ChildCloses(s) ==
  /\ s \in slots \ closed
  /\ closed' = closed \cup {s}
  /\ Wake(s, TRUE)
  /\ UNCHANGED <<drainVars, live, pipe, sent, received>>

Child ==
  \/ \E s \in Outputs : ChildWrites(s)
  \/ ChildReads
  \/ \E s \in Streams : ChildCloses(s)

-----------------------------------------------------------------------------
(***************************************************************************)
(* The loop.  epoll_wait empties the ready list and reports each stream on *)
(* it that is ready still (process_reactor_events).  A report becomes a    *)
(* PerformIo if the job is in the table (IoModule), and a PerformIo whose  *)
(* turn has come serves all three slots if the job still is               *)
(* (resolve_effects).  A finished job leaves the table, but its drain and  *)
(* what epoll watches of it stay.                                          *)
(***************************************************************************)

EpollWait ==
  /\ at = "wait"
  /\ ready # {}
  /\ LET events == {s \in ready \cap slots : Pollable(s)}
     IN /\ passes' = IF live THEN Cardinality(events) ELSE 0
        /\ at' = IF live /\ events # {} THEN "queue" ELSE "wait"
  /\ ready' = {}
  /\ UNCHANGED <<pipe, closed, sent, received, slots, kept, live>>

\* Finished takes the job out of the table in a turn of its own, before,
\* between or after the PerformIo.
JobFinishes ==
  /\ at \in {"wait", "queue"}
  /\ live
  /\ live' = FALSE
  /\ UNCHANGED <<pipe, closed, sent, received, slots, kept, ready, passes, at>>

\* The next PerformIo is served, or dropped when the job is gone.
TakePass ==
  /\ at = "queue"
  /\ passes' = passes - 1
  /\ at' = CASE live -> "Stdout"
            [] ~live /\ passes > 1 -> "queue"
            [] OTHER -> "wait"
  /\ UNCHANGED <<pipe, sent, slots, kept, outsideVars>>

\* Mutant: the loop looks for one action more than there are.
ServedOnceMore(s) ==
  /\ at' = CASE s = "Stdout" -> "Stderr"
            [] s = "Stderr" -> "Stdin"
            [] s = "Stdin" -> "queue"
  /\ UNCHANGED passes

\* The slot has been served: on to the next one, or the next action.
Served(s) ==
  /\ at' = CASE s = "Stdout" -> "Stderr"
            [] s = "Stderr" -> "Stdin"
            [] s = "Stdin" -> IF passes = 0 THEN "wait" ELSE "queue"
  /\ UNCHANGED passes

\* Mutant: the limit ends the reading.
WouldBlockAtLimit(s) ==
  \/ s \in Outputs /\ pipe[s] = <<>>
  \/ s \in Outputs /\ Len(kept[s]) >= Limit
  \/ s = "Stdin" /\ Room(s) = 0 /\ sent[s] < Input

\* EAGAIN, while the other end is open.
WouldBlock(s) ==
  \/ s \in Outputs /\ pipe[s] = <<>>
  \/ s = "Stdin" /\ Room(s) = 0 /\ sent[s] < Input

\* Nothing to do on this stream now.
Skip(s) ==
  /\ at = s
  /\ s \in slots => s \notin closed /\ WouldBlock(s)
  /\ Served(s)
  /\ UNCHANGED <<pipe, sent, slots, kept, outsideVars>>

\* Mutant: the slot stays where it is.
DropSlotNever(s) == UNCHANGED slots

\* The slot is taken, and its descriptor closed when it is dropped.
DropSlot(s) == slots' = slots \ {s}

\* End of file, or stdin written out or broken.
Retire(s) ==
  /\ at = s
  /\ s \in slots
  /\ \/ s \in Outputs \cap closed /\ pipe[s] = <<>>
     \/ s = "Stdin" /\ (sent[s] = Input \/ s \in closed)
  /\ DropSlot(s)
  /\ Served(s)
  /\ UNCHANGED <<pipe, sent, kept, outsideVars>>

\* Mutant: a call that moved data is not repeated until EAGAIN.
RepeatNever(s) == Served(s)

\* read_from_fd and write_to_fd loop.
Repeat(s) == UNCHANGED <<passes, at>>

\* Mutant: the last read may go past the limit.
AskWholeChunk(left) == IF left > 0 THEN ReadChunk ELSE DropChunk

\* The bytes a read asks for, with so many left until the limit.
Ask(left) == IF left > 0 THEN Least(left, ReadChunk) ELSE DropChunk

\* read_from_fd: keep what the limit has room for, throw away the rest.
Read(s) ==
  /\ at = s
  /\ s \in slots \cap Outputs
  /\ LET left == Limit - Len(kept[s])
         n == Least(Len(pipe[s]), Ask(left))
     IN /\ n > 0
        /\ kept' = [kept EXCEPT ![s] =
                      IF left > 0 THEN @ \o SubSeq(pipe[s], 1, n) ELSE @]
        /\ Leave(s, n)
  /\ Repeat(s)
  /\ UNCHANGED <<sent, slots, outsideVars>>

\* Mutant: a partial write does not move the offset.
UnwrittenFromStart(n) == Bytes(1, n)

\* buf[off..], of which the kernel takes n bytes.
Unwritten(n) == Bytes(sent.Stdin + 1, n)

\* write_to_fd.
Write ==
  /\ at = "Stdin"
  /\ "Stdin" \in slots \ closed
  /\ LET n == Least(Room("Stdin"), Least(WriteChunk, Input - sent.Stdin))
     IN /\ n > 0
        /\ Enter("Stdin", Unwritten(n))
  /\ Repeat("Stdin")
  /\ UNCHANGED <<slots, kept, outsideVars>>

PerformIo ==
  \/ \E s \in Streams : Skip(s) \/ Retire(s)
  \/ \E s \in Outputs : Read(s)
  \/ Write

Next == Child \/ JobFinishes \/ EpollWait \/ TakePass \/ PerformIo

Spec == Init /\ [][Next]_vars

\* The loop goes on while epoll or the queue has something for it.
LoopFairness == WF_vars(EpollWait) /\ WF_vars(TakePass) /\ WF_vars(PerformIo)

FairSpec == Spec /\ LoopFairness /\ WF_vars(ChildReads)

-----------------------------------------------------------------------------
(***************************************************************************)
(* Properties                                                              *)
(***************************************************************************)

\* The types of the variables.
StreamsTypeOK ==
  /\ pipe \in [Streams -> Seq(Nat)]
  /\ \A s \in Streams : Len(pipe[s]) <= Capacity
  /\ closed \subseteq Streams
  /\ sent \in [Streams -> Nat]
  /\ received \in Seq(Nat)
  /\ slots \subseteq Streams
  /\ kept \in [Outputs -> Seq(Nat)]
  /\ ready \subseteq Streams
  /\ live \in BOOLEAN
  /\ passes \in 0..3
  /\ at \in Streams \cup {"wait", "queue"}

\* What is kept of an output is its beginning, as long as the limit allows and
\* without a gap, wherever the reads were cut and however the child's writes
\* fell between them (buffer.rs:27-74).
OutputIsPrefix ==
  \A s \in Outputs :
    kept[s] = Bytes(1, Least(Limit, sent[s] - Len(pipe[s])))

\* The child reads its input in order and without a gap, across partial writes
\* and full pipes (writer.rs:17-48).
InputIsPrefix == received \o pipe.Stdin = Bytes(1, sent.Stdin)

\* Streams are watched edge-triggered, so a stream of a job in the table that
\* is ready while the loop sleeps must be on epoll's list: no read or write
\* stops short of EAGAIN and no report is used up on another stream
\* (buffer.rs:27-74, writer.rs:19-43, runtime.rs:179-192).
NoEdgeLost ==
  live /\ at = "wait" => \A s \in slots : Pollable(s) => s \in ready

\* A child is not held up by its own output: a full pipe gets room again, also
\* when max_output has been reached (buffer.rs:32-45), as long as the job is in
\* the table: nobody reads for a job that has finished (io.rs:23).
OutputDrained ==
  \A s \in Outputs : (s \in slots /\ Room(s) = 0) ~> (Room(s) > 0 \/ ~live)

\* The end of a stream is noticed and its descriptor given back, with what was
\* left in the pipe read first (drain.rs:91-109), unless Finished is handled
\* before: the reports that come then are ignored (io.rs:23,
\* core/mod.rs:308) and the descriptor stays open.
EndNoticed == \A s \in Streams : (s \in closed) ~> (s \notin slots \/ ~live)

\* A child that reads its input gets to its end, unless the job finishes
\* before: all of it is written, then the descriptor is closed
\* (writer.rs:44-46, drain.rs:79-88).
InputEnds == <>("Stdin" \notin slots \/ ~live)

=============================================================================
