---------------------------- MODULE StreamProofs -----------------------------
(***************************************************************************)
(* What holds of a child's streams for every size of the pipes, the chunks,*)
(* the limit and the input.                                                *)
(*                                                                         *)
(* OutputIsPrefix needs to know what is still in the pipe (PipeIsRest).    *)
(* NoEdgeLost speaks of a loop that sleeps; while it has a PerformIo to    *)
(* serve, a stream that is ready and on no list is one that is still to be *)
(* served (EdgeCovered).                                                   *)
(***************************************************************************)
EXTENDS Streams, SequenceTheorems, FiniteSetTheorems, TLAPS

\* The loop turns to the queue only for a PerformIo, and one that is being
\* served has left it.
PassCounted ==
  /\ at = "queue" => passes >= 1
  /\ at \in Streams => live /\ passes <= 2

\* The pipe of an output holds the last bytes that entered it.
PipeIsRest ==
  \A s \in Outputs :
    /\ Len(pipe[s]) <= sent[s]
    /\ pipe[s] = Bytes(sent[s] - Len(pipe[s]) + 1, Len(pipe[s]))

\* The loop comes to the slot of s before it sleeps.
StillServed(s) ==
  /\ at # "wait"
  /\ \/ at = "queue"
     \/ passes >= 1
     \/ at \in {"Stdout", s}
     \/ at = "Stderr" /\ s = "Stdin"

EdgeCovered ==
  live => \A s \in slots : Pollable(s) => s \in ready \/ StillServed(s)

StreamInv ==
  /\ StreamsTypeOK
  /\ PassCounted
  /\ PipeIsRest
  /\ OutputIsPrefix
  /\ InputIsPrefix
  /\ EdgeCovered

-----------------------------------------------------------------------------
(***************************************************************************)
(* Runs of bytes.                                                          *)
(***************************************************************************)

LEMMA BytesType ==
  ASSUME NEW first \in Nat \ {0}, NEW n \in Nat
  PROVE  Bytes(first, n) \in Seq(Nat) /\ Len(Bytes(first, n)) = n
  BY DEF Bytes

\* Bytes that follow one another make one run.
LEMMA BytesConcat ==
  ASSUME NEW first \in Nat \ {0}, NEW m \in Nat, NEW n \in Nat
  PROVE  Bytes(first, m) \o Bytes(first + m, n) = Bytes(first, m + n)
  <1> DEFINE s == Bytes(first, m)
             t == Bytes(first + m, n)
             u == Bytes(first, m + n)
  <1>1. /\ s \in Seq(Nat) /\ Len(s) = m
        /\ t \in Seq(Nat) /\ Len(t) = n
        /\ u \in Seq(Nat) /\ Len(u) = m + n
    <2> first + m \in Nat \ {0} /\ m + n \in Nat
      OBVIOUS
    <2> QED
      BY BytesType
  <1>2. /\ \A i \in 1..m : s[i] = first + i - 1
        /\ \A i \in 1..n : t[i] = first + m + i - 1
        /\ \A i \in 1..(m + n) : u[i] = first + i - 1
    BY DEF Bytes
  <1> HIDE DEF s, t, u
  <1>3. /\ s \o t \in Seq(Nat) /\ Len(s \o t) = m + n
        /\ \A i \in 1..(m + n) :
             (s \o t)[i] = IF i <= m THEN s[i] ELSE t[i - m]
    BY <1>1, ConcatProperties
  <1>4. ASSUME NEW i \in 1..(m + n) PROVE (s \o t)[i] = u[i]
    <2>1. u[i] = first + i - 1
      BY <1>2
    <2>2. CASE i <= m
      <3> i \in 1..m
        BY <2>2
      <3> QED
        BY <1>2, <1>3, <2>1, <2>2
    <2>3. CASE ~(i <= m)
      <3>1. i - m \in 1..n
        BY <2>3
      <3>2. t[i - m] = first + m + (i - m) - 1
        BY <1>2, <3>1
      <3> QED
        BY <1>3, <2>1, <2>3, <3>2
    <2> QED
      BY <2>2, <2>3
  <1>5. s \o t = u
    BY <1>1, <1>3, <1>4, SeqEqual
  <1> QED
    BY <1>5 DEF s, t, u

LEMMA BytesFromOne ==
  ASSUME NEW m \in Nat, NEW n \in Nat
  PROVE  Bytes(1, m) \o Bytes(m + 1, n) = Bytes(1, m + n)
  <1>1. 1 \in Nat \ {0}
    OBVIOUS
  <1>2. Bytes(1, m) \o Bytes(1 + m, n) = Bytes(1, m + n)
    BY <1>1, BytesConcat, Zenon
  <1>3. 1 + m = m + 1
    OBVIOUS
  <1> QED
    BY <1>2, <1>3, Zenon

LEMMA Regroup ==
  \A a, b, c \in Seq(Nat) : (a \o b) \o c = a \o (b \o c)
  <1> TAKE a, b, c \in Seq(Nat)
  <1>1. /\ Len((a \o b) \o c) = Len(a) + Len(b) + Len(c)
        /\ Len(a \o (b \o c)) = Len(a) + Len(b) + Len(c)
        /\ (a \o b) \o c \in Seq(Nat) /\ a \o (b \o c) \in Seq(Nat)
    OBVIOUS
  <1>2. \A i \in 1..(Len(a) + Len(b) + Len(c)) :
          ((a \o b) \o c)[i] = (a \o (b \o c))[i]
    OBVIOUS
  <1> QED
    BY <1>1, <1>2, SeqEqual

\* A part of a run is a run.
LEMMA BytesPart ==
  ASSUME NEW first \in Nat \ {0}, NEW n \in Nat, NEW k \in 0..n
  PROVE  /\ SubSeq(Bytes(first, n), 1, k) = Bytes(first, k)
         /\ SubSeq(Bytes(first, n), k + 1, n) = Bytes(first + k, n - k)
  <1> DEFINE s == Bytes(first, n)
             front == SubSeq(s, 1, k)
             back == SubSeq(s, k + 1, n)
  <1>1. s \in Seq(Nat) /\ Len(s) = n
    BY BytesType
  <1>2. \A i \in 1..n : s[i] = first + i - 1
    BY DEF Bytes
  <1>3. \A i \in 1..n : s[i] \in Nat
    BY <1>2
  <1> HIDE DEF s
  <1>4. /\ front \in Seq(Nat) /\ Len(front) = k
        /\ \A i \in 1..k : front[i] = s[i]
    BY <1>1, <1>3, SubSeqProperties
  <1>5. /\ back \in Seq(Nat) /\ Len(back) = n - k
        /\ \A i \in 1..(n - k) : back[i] = s[k + i]
    BY <1>1, <1>3, SubSeqProperties
  <1> HIDE DEF front, back
  <1>6. /\ Bytes(first, k) \in Seq(Nat) /\ Len(Bytes(first, k)) = k
        /\ \A i \in 1..k : Bytes(first, k)[i] = first + i - 1
    BY BytesType DEF Bytes
  <1>7. front = Bytes(first, k)
    <2>1. ASSUME NEW i \in 1..k PROVE front[i] = Bytes(first, k)[i]
      <3>1. i \in 1..n
        OBVIOUS
      <3> QED
        BY <1>2, <1>4, <1>6, <3>1, Zenon
    <2> QED
      BY <1>4, <1>6, <2>1, SeqEqual
  <1>8. first + k \in Nat \ {0} /\ n - k \in Nat
    OBVIOUS
  <1>9. /\ Bytes(first + k, n - k) \in Seq(Nat)
        /\ Len(Bytes(first + k, n - k)) = n - k
        /\ \A i \in 1..(n - k) : Bytes(first + k, n - k)[i] = first + k + i - 1
    BY <1>8, BytesType DEF Bytes
  <1>10. back = Bytes(first + k, n - k)
    <2>1. ASSUME NEW i \in 1..(n - k)
          PROVE  back[i] = Bytes(first + k, n - k)[i]
      <3>1. k + i \in 1..n
        OBVIOUS
      <3>2. back[i] = first + (k + i) - 1
        BY <1>2, <1>5, <3>1, Zenon
      <3>3. Bytes(first + k, n - k)[i] = first + k + i - 1
        BY <1>9, Zenon
      <3> QED
        BY <3>2, <3>3
    <2> QED
      BY <1>5, <1>9, <2>1, SeqEqual
  <1> QED
    BY <1>7, <1>10 DEF front, back, s

\* A sequence is its two parts.
LEMMA Split ==
  ASSUME NEW s \in Seq(Nat), NEW n \in 0..Len(s)
  PROVE  /\ SubSeq(s, 1, n) \in Seq(Nat) /\ Len(SubSeq(s, 1, n)) = n
         /\ SubSeq(s, n + 1, Len(s)) \in Seq(Nat)
         /\ Len(SubSeq(s, n + 1, Len(s))) = Len(s) - n
         /\ SubSeq(s, 1, n) \o SubSeq(s, n + 1, Len(s)) = s
  <1> DEFINE a == SubSeq(s, 1, n)
             b == SubSeq(s, n + 1, Len(s))
  <1>1. \A i \in 1..Len(s) : s[i] \in Nat
    OBVIOUS
  <1>2. /\ a \in Seq(Nat) /\ Len(a) = n
        /\ \A i \in 1..n : a[i] = s[i]
    BY <1>1, SubSeqProperties
  <1>3. /\ b \in Seq(Nat) /\ Len(b) = Len(s) - n
        /\ \A i \in 1..(Len(s) - n) : b[i] = s[n + i]
    BY <1>1, SubSeqProperties
  <1> HIDE DEF a, b
  <1>4. /\ a \o b \in Seq(Nat) /\ Len(a \o b) = Len(s)
        /\ \A i \in 1..Len(s) : (a \o b)[i] = IF i <= n THEN a[i] ELSE b[i - n]
    <2>1. /\ a \o b \in Seq(Nat) /\ Len(a \o b) = Len(a) + Len(b)
          /\ \A i \in 1..(Len(a) + Len(b)) :
               (a \o b)[i] = IF i <= Len(a) THEN a[i] ELSE b[i - Len(a)]
      BY <1>2, <1>3, ConcatProperties, Zenon
    <2>2. Len(s) \in Nat /\ n + (Len(s) - n) = Len(s)
      OBVIOUS
    <2> QED
      BY <1>2, <1>3, <2>1, <2>2, Zenon
  <1>5. ASSUME NEW i \in 1..Len(s) PROVE (a \o b)[i] = s[i]
    <2>1. CASE i <= n
      <3> i \in 1..n
        BY <2>1
      <3> QED
        BY <1>2, <1>4, <2>1
    <2>2. CASE ~(i <= n)
      <3>1. i - n \in 1..(Len(s) - n) /\ n + (i - n) = i
        BY <2>2
      <3>2. b[i - n] = s[n + (i - n)]
        BY <1>3, <3>1, Zenon
      <3>3. (a \o b)[i] = b[i - n]
        BY <1>4, <2>2
      <3> QED
        BY <3>1, <3>2, <3>3
    <2> QED
      BY <2>1, <2>2
  <1>6. a \o b = s
    BY <1>4, <1>5, SeqEqual
  <1> QED
    BY <1>2, <1>3, <1>6 DEF a, b

-----------------------------------------------------------------------------
(***************************************************************************)
(* The initial states.                                                     *)
(***************************************************************************)

LEMMA NoBytes == \A first \in Nat : Bytes(first, 0) = <<>>
  BY DEF Bytes

LEMMA InitStreamInv == Init => StreamInv
  <1> SUFFICES ASSUME Init PROVE StreamInv
    OBVIOUS
  <1>1. StreamsTypeOK
    BY SizesAssumption DEF Init, StreamsTypeOK, Streams, Outputs
  <1>2. PipeIsRest /\ OutputIsPrefix /\ InputIsPrefix
    <2>1. Least(Limit, 0) = 0
      BY SizesAssumption DEF Least
    <2> QED
      BY <2>1, NoBytes
      DEF Init, PipeIsRest, OutputIsPrefix, InputIsPrefix, Streams, Outputs
  <1>3. EdgeCovered
    BY DEF Init, EdgeCovered, Pollable, Streams, Outputs
  <1> QED
    BY <1>1, <1>2, <1>3 DEF Init, StreamInv, PassCounted

-----------------------------------------------------------------------------
(***************************************************************************)
(* The child.                                                              *)
(***************************************************************************)

\* What enters a pipe stands behind what is in it.
LEMMA EnterFacts ==
  ASSUME StreamsTypeOK, NEW s \in Streams, NEW n \in Nat,
         n <= Room(s), Enter(s, Bytes(sent[s] + 1, n))
  PROVE  /\ pipe' \in [Streams -> Seq(Nat)]
         /\ sent' \in [Streams -> Nat]
         /\ pipe'[s] = pipe[s] \o Bytes(sent[s] + 1, n)
         /\ sent'[s] = sent[s] + n
         /\ Len(pipe'[s]) = Len(pipe[s]) + n
         /\ Len(pipe'[s]) <= Capacity
         /\ \A t \in Streams \ {s} : pipe'[t] = pipe[t] /\ sent'[t] = sent[t]
  <1>1. /\ pipe[s] \in Seq(Nat) /\ sent[s] \in Nat /\ Len(pipe[s]) \in Nat
        /\ Capacity \in Nat
    BY SizesAssumption DEF StreamsTypeOK
  <1>2. /\ Bytes(sent[s] + 1, n) \in Seq(Nat)
        /\ Len(Bytes(sent[s] + 1, n)) = n
    <2>1. sent[s] + 1 \in Nat \ {0}
      BY <1>1
    <2> QED
      BY <2>1, BytesType, Zenon
  <1> DEFINE bytes == Bytes(sent[s] + 1, n)
  <1>3. /\ pipe[s] \o bytes \in Seq(Nat)
        /\ Len(pipe[s] \o bytes) = Len(pipe[s]) + n
    <2>1. bytes \in Seq(Nat) /\ Len(bytes) = n
      BY <1>2
    <2> HIDE DEF bytes
    <2> QED
      BY <1>1, <2>1, ConcatProperties
  <1>4. /\ pipe' = [pipe EXCEPT ![s] = pipe[s] \o bytes]
        /\ sent' = [sent EXCEPT ![s] = sent[s] + n]
    BY <1>2 DEF Enter
  <1> HIDE DEF bytes
  <1>5. /\ pipe' \in [Streams -> Seq(Nat)] /\ pipe'[s] = pipe[s] \o bytes
        /\ sent' \in [Streams -> Nat] /\ sent'[s] = sent[s] + n
        /\ \A t \in Streams \ {s} : pipe'[t] = pipe[t] /\ sent'[t] = sent[t]
    BY <1>1, <1>3, <1>4, SMTT(30) DEF StreamsTypeOK
  <1>6. Len(pipe[s]) + n <= Capacity
    BY <1>1 DEF Room
  <1>7. Len(pipe'[s]) = Len(pipe[s]) + n
    BY <1>3, <1>5
  <1> QED
    BY <1>5, <1>6, <1>7 DEF bytes

\* What leaves a pipe is its front.
LEMMA LeaveFacts ==
  ASSUME StreamsTypeOK, NEW s \in Streams, NEW n \in 0..Len(pipe[s]), Leave(s, n)
  PROVE  /\ pipe' \in [Streams -> Seq(Nat)]
         /\ pipe'[s] = SubSeq(pipe[s], n + 1, Len(pipe[s]))
         /\ Len(pipe'[s]) = Len(pipe[s]) - n
         /\ \A t \in Streams \ {s} : pipe'[t] = pipe[t]
  <1>1. pipe[s] \in Seq(Nat)
    BY DEF StreamsTypeOK
  <1>2. /\ SubSeq(pipe[s], n + 1, Len(pipe[s])) \in Seq(Nat)
        /\ Len(SubSeq(pipe[s], n + 1, Len(pipe[s]))) = Len(pipe[s]) - n
    BY <1>1, Split
  <1>3. pipe' = [pipe EXCEPT ![s] = SubSeq(pipe[s], n + 1, Len(pipe[s]))]
    BY DEF Leave
  <1> QED
    BY <1>2, <1>3 DEF StreamsTypeOK

\* A stream that is ready now and was not is on the list now.
LEMMA WakeCovers ==
  ASSUME StreamsTypeOK, EdgeCovered, NEW s \in Streams, NEW certain,
         Wake(s, certain), UNCHANGED <<slots, live, passes, at>>,
         Pollable(s) \/ certain,
         \A t \in Streams \ {s} : Pollable(t)' = Pollable(t)
  PROVE  EdgeCovered'
  <1>1. ready' \in SUBSET Streams /\ ready \subseteq ready'
    BY DEF Wake, StreamsTypeOK
  <1>2. certain /\ s \in slots => s \in ready'
    BY DEF Wake
  <1>3. \A t : StillServed(t)' = StillServed(t)
    BY DEF StillServed
  <1> SUFFICES ASSUME live, NEW t \in slots, Pollable(t)'
               PROVE  t \in ready' \/ StillServed(t)'
    BY DEF EdgeCovered
  <1>4. t \in Streams
    BY DEF StreamsTypeOK
  <1>5. CASE t = s
    BY <1>1, <1>2, <1>3, <1>5 DEF EdgeCovered
  <1>6. CASE t # s
    BY <1>1, <1>3, <1>4, <1>6 DEF EdgeCovered
  <1> QED
    BY <1>5, <1>6

LEMMA ChildWritesStep ==
  ASSUME StreamInv, NEW s \in Outputs, ChildWrites(s) PROVE StreamInv'
  <1> USE DEF StreamInv
  <1>1. PICK n \in 1..Least(Room(s), MaxOutput - sent[s]) :
          Enter(s, Bytes(sent[s] + 1, n))
    BY DEF ChildWrites
  <1>2. /\ s \in Streams /\ s # "Stdin"
        /\ sent[s] \in Nat /\ Room(s) \in Int /\ MaxOutput \in Nat
        /\ Len(pipe[s]) \in Nat
    <2>1. s \in Streams /\ s # "Stdin"
      BY DEF Streams, Outputs
    <2>2. sent[s] \in Nat /\ pipe[s] \in Seq(Nat)
      BY <2>1 DEF StreamsTypeOK
    <2>3. Capacity \in Nat /\ MaxOutput \in Nat
      BY SizesAssumption
    <2>4. Len(pipe[s]) \in Nat
      BY <2>2
    <2> QED
      BY <2>1, <2>2, <2>3, <2>4 DEF Room
  <1>3. n \in Nat /\ n <= Room(s)
    BY <1>1, <1>2 DEF Least
  <1>4. /\ pipe' \in [Streams -> Seq(Nat)]
        /\ sent' \in [Streams -> Nat]
        /\ pipe'[s] = pipe[s] \o Bytes(sent[s] + 1, n)
        /\ sent'[s] = sent[s] + n
        /\ Len(pipe'[s]) = Len(pipe[s]) + n
        /\ Len(pipe'[s]) <= Capacity
        /\ \A t \in Streams \ {s} : pipe'[t] = pipe[t] /\ sent'[t] = sent[t]
    BY <1>1, <1>2, <1>3, EnterFacts
  <1>5. UNCHANGED <<slots, kept, live, passes, at, closed, received>>
    BY DEF ChildWrites, drainVars
  <1>6. Wake(s, pipe[s] = <<>>)
    BY DEF ChildWrites
  <1>7. StreamsTypeOK'
    BY <1>4, <1>5, <1>6 DEF StreamsTypeOK, Wake
  <1> DEFINE in == sent[s]
             len == Len(pipe[s])
  <1>8. /\ in \in Nat /\ len \in Nat
         /\ sent'[s] = in + n /\ Len(pipe'[s]) = len + n
    BY <1>2, <1>4
  <1> HIDE DEF in, len
  <1>9. sent'[s] - Len(pipe'[s]) = in - len
    BY <1>3, <1>8
  <1>10. PipeIsRest'
    <2>1. len <= in /\ pipe[s] = Bytes(in - len + 1, len)
      BY DEF PipeIsRest, in, len
    <2>2. /\ in - len + 1 \in Nat \ {0}
          /\ in - len + 1 + len = in + 1
          /\ len + n <= in + n
      BY <1>3, <1>8, <2>1
    <2>3. Bytes(in - len + 1, len) \o Bytes(in - len + 1 + len, n)
            = Bytes(in - len + 1, len + n)
      BY <1>3, <1>8, <2>2, BytesConcat
    <2>4. pipe'[s] = Bytes(in - len + 1, len + n)
      BY <1>4, <2>1, <2>2, <2>3 DEF in
    <2>5. pipe'[s] = Bytes(sent'[s] - Len(pipe'[s]) + 1, Len(pipe'[s]))
      BY <1>8, <1>9, <2>4
    <2>6. Len(pipe'[s]) <= sent'[s]
      BY <1>8, <2>2
    <2> QED
      BY <1>4, <2>5, <2>6 DEF PipeIsRest, Streams
  <1>11. OutputIsPrefix'
    BY <1>4, <1>5, <1>9 DEF OutputIsPrefix, Streams, in, len
  <1>12. InputIsPrefix'
    BY <1>2, <1>4, <1>5 DEF InputIsPrefix, Streams
  <1>13. EdgeCovered'
    <2>1. Pollable(s) \/ pipe[s] = <<>>
      BY DEF Pollable
    <2>2. \A t \in Streams \ {s} : Pollable(t)' = Pollable(t)
      BY <1>4, <1>5 DEF Pollable, Room, Streams
    <2> QED
      BY <1>2, <1>5, <1>6, <2>1, <2>2, WakeCovers
  <1> QED
    BY <1>5, <1>7, <1>10, <1>11, <1>12, <1>13 DEF PassCounted

LEMMA ChildReadsStep == ASSUME StreamInv, ChildReads PROVE StreamInv'
  <1> USE DEF StreamInv
  <1>1. PICK n \in 1..Len(pipe.Stdin) :
          /\ received' = received \o SubSeq(pipe.Stdin, 1, n)
          /\ Leave("Stdin", n)
    BY DEF ChildReads
  <1>2. /\ "Stdin" \in Streams /\ "Stdin" \notin Outputs
        /\ pipe.Stdin \in Seq(Nat) /\ received \in Seq(Nat)
        /\ Capacity \in Nat /\ Len(pipe.Stdin) \in Nat
        /\ Len(pipe.Stdin) <= Capacity
    BY SizesAssumption DEF StreamsTypeOK, Streams, Outputs
  <1>3. n \in 0..Len(pipe.Stdin)
    BY <1>1
  <1>4. /\ pipe' \in [Streams -> Seq(Nat)]
        /\ pipe'.Stdin = SubSeq(pipe.Stdin, n + 1, Len(pipe.Stdin))
        /\ Len(pipe'.Stdin) = Len(pipe.Stdin) - n
        /\ \A t \in Streams \ {"Stdin"} : pipe'[t] = pipe[t]
    BY <1>1, <1>2, <1>3, LeaveFacts
  <1>5. UNCHANGED <<slots, kept, live, passes, at, closed, sent>>
    BY DEF ChildReads, drainVars
  <1>6. Wake("Stdin", Room("Stdin") = 0)
    BY DEF ChildReads
  <1> DEFINE a == SubSeq(pipe.Stdin, 1, n)
             b == SubSeq(pipe.Stdin, n + 1, Len(pipe.Stdin))
  <1>7. a \in Seq(Nat) /\ b \in Seq(Nat) /\ a \o b = pipe.Stdin
    BY <1>2, <1>3, Split
  <1>8. received' = received \o a /\ pipe'.Stdin = b
    BY <1>1, <1>4
  <1> HIDE DEF a, b
  <1>9. received' \in Seq(Nat)
    BY <1>2, <1>7, <1>8
  <1>10. StreamsTypeOK'
    <2>1. Len(pipe'.Stdin) <= Capacity
      BY <1>2, <1>3, <1>4
    <2>2. \A s \in Streams : Len(pipe'[s]) <= Capacity
      BY <1>4, <2>1 DEF StreamsTypeOK
    <2> QED
      BY <1>4, <1>5, <1>6, <1>9, <2>2 DEF StreamsTypeOK, Wake
  <1>11. InputIsPrefix'
    <2>1. received \in Seq(Nat) /\ a \in Seq(Nat) /\ b \in Seq(Nat)
      BY <1>2, <1>7
    <2>2. (received \o a) \o b = received \o (a \o b)
      BY <2>1, Regroup, Zenon
    <2> QED
      BY <1>5, <1>7, <1>8, <2>2 DEF InputIsPrefix
  <1>12. PipeIsRest' /\ OutputIsPrefix'
    BY <1>2, <1>4, <1>5 DEF PipeIsRest, OutputIsPrefix, Streams
  <1>13. EdgeCovered'
    <2>1. Pollable("Stdin") \/ Room("Stdin") = 0
      BY <1>2 DEF Pollable, Room
    <2>2. \A t \in Streams \ {"Stdin"} : Pollable(t)' = Pollable(t)
      BY <1>4, <1>5 DEF Pollable, Room, Streams
    <2> QED
      BY <1>2, <1>5, <1>6, <2>1, <2>2, WakeCovers
  <1> QED
    BY <1>5, <1>10, <1>11, <1>12, <1>13 DEF PassCounted

LEMMA ChildClosesStep ==
  ASSUME StreamInv, NEW s \in Streams, ChildCloses(s) PROVE StreamInv'
  <1>1. /\ Wake(s, TRUE) /\ closed' = closed \cup {s}
        /\ UNCHANGED <<slots, kept, live, passes, at, pipe, sent, received>>
    BY DEF ChildCloses, drainVars
  <1>2. StreamsTypeOK'
    BY <1>1 DEF StreamInv, StreamsTypeOK, Wake
  <1>3. EdgeCovered'
    <2>1. \A t \in Streams \ {s} : Pollable(t)' = Pollable(t)
      BY <1>1 DEF Pollable, Room
    <2> QED
      BY <1>1, <2>1, WakeCovers DEF StreamInv
  <1> QED
    BY <1>1, <1>2, <1>3 DEF StreamInv, PassCounted, PipeIsRest, OutputIsPrefix,
                            InputIsPrefix

-----------------------------------------------------------------------------
(***************************************************************************)
(* The loop.                                                               *)
(***************************************************************************)

LEMMA StreamsFinite == IsFiniteSet(Streams) /\ Cardinality(Streams) <= 3
  <1>1. Streams = {"Stdin"} \cup {"Stderr"} \cup {"Stdout"}
    BY DEF Streams, Outputs
  <1>2. IsFiniteSet({"Stdin"}) /\ Cardinality({"Stdin"}) = 1
    BY FS_Singleton
  <1>3. /\ IsFiniteSet({"Stdin"} \cup {"Stderr"})
        /\ Cardinality({"Stdin"} \cup {"Stderr"}) <= 2
    BY <1>2, FS_AddElement
  <1> QED
    BY <1>1, <1>3, FS_AddElement, FS_CardinalityType

LEMMA EpollWaitStep == ASSUME StreamInv, EpollWait PROVE StreamInv'
  <1> DEFINE events == {s \in ready \cap slots : Pollable(s)}
  <1>1. /\ at = "wait" /\ ready' = {}
        /\ passes' = IF live THEN Cardinality(events) ELSE 0
        /\ at' = IF live /\ events # {} THEN "queue" ELSE "wait"
        /\ UNCHANGED <<pipe, closed, sent, received, slots, kept, live>>
    BY DEF EpollWait
  <1>2. events \in SUBSET Streams
    BY DEF StreamInv, StreamsTypeOK
  <1>3. live => \A s \in slots : Pollable(s) => s \in events
    BY <1>1 DEF StreamInv, EdgeCovered, StillServed
  <1> HIDE DEF events
  <1>4. passes' \in 0..3 /\ (live /\ events # {} => passes' >= 1)
    BY <1>1, <1>2, StreamsFinite, FS_Subset, FS_CardinalityType, FS_EmptySet
  <1>5. StreamsTypeOK' /\ PassCounted'
    BY <1>1, <1>4 DEF StreamInv, StreamsTypeOK, PassCounted, Streams, Outputs
  <1>6. EdgeCovered'
    BY <1>1, <1>3 DEF EdgeCovered, StillServed, Pollable, Room
  <1> QED
    BY <1>1, <1>5, <1>6 DEF StreamInv, PipeIsRest, OutputIsPrefix, InputIsPrefix

LEMMA JobFinishesStep == ASSUME StreamInv, JobFinishes PROVE StreamInv'
  <1>1. /\ at \in {"wait", "queue"} /\ live' = FALSE
        /\ UNCHANGED <<pipe, closed, sent, received, slots, kept, ready, passes, at>>
    BY DEF JobFinishes
  <1>2. at \notin Streams
    BY <1>1 DEF Streams, Outputs
  <1> QED
    BY <1>1, <1>2 DEF StreamInv, StreamsTypeOK, PassCounted, PipeIsRest,
                      OutputIsPrefix, InputIsPrefix, EdgeCovered

LEMMA TakePassStep == ASSUME StreamInv, TakePass PROVE StreamInv'
  <1>1. /\ at = "queue" /\ passes' = passes - 1
        /\ at' = CASE live -> "Stdout"
                  [] ~live /\ passes > 1 -> "queue"
                  [] OTHER -> "wait"
        /\ UNCHANGED <<pipe, closed, sent, received, slots, kept, ready, live>>
    BY DEF TakePass, outsideVars
  <1>2. passes \in 1..3 /\ live \in BOOLEAN
    BY <1>1 DEF StreamInv, StreamsTypeOK, PassCounted
  <1>3. /\ passes' \in 0..2
        /\ at' \in {"Stdout", "queue", "wait"}
        /\ live => at' = "Stdout"
        /\ at' = "queue" => passes' >= 1
        /\ at' = "Stdout" => live
    BY <1>1, <1>2
  <1>4. StreamsTypeOK' /\ PassCounted'
    BY <1>1, <1>3 DEF StreamInv, StreamsTypeOK, PassCounted, Streams, Outputs
  <1>5. EdgeCovered'
    BY <1>1, <1>3 DEF EdgeCovered, StillServed
  <1> QED
    BY <1>1, <1>4, <1>5 DEF StreamInv, PipeIsRest, OutputIsPrefix, InputIsPrefix

\* After its slot the loop comes to every other stream that it would have come
\* to before.
LEMMA ServedFacts ==
  ASSUME StreamInv, NEW s \in Streams, at = s, Served(s), UNCHANGED live
  PROVE  /\ passes' \in 0..3 /\ at' \in Streams \cup {"wait", "queue"}
         /\ PassCounted'
         /\ \A t \in Streams \ {s} : StillServed(t) => StillServed(t)'
  <1>1. /\ passes \in 0..2 /\ live
        /\ s \in {"Stdout", "Stderr", "Stdin"}
    BY DEF StreamInv, StreamsTypeOK, PassCounted, Streams, Outputs
  <1>2. /\ passes' = passes
        /\ s = "Stdout" => at' = "Stderr"
        /\ s = "Stderr" => at' = "Stdin"
        /\ s = "Stdin" => at' = IF passes = 0 THEN "wait" ELSE "queue"
    BY <1>1 DEF Served
  <1>3. passes' \in 0..3 /\ at' \in Streams \cup {"wait", "queue"}
    BY <1>1, <1>2 DEF Streams, Outputs
  <1>4. PassCounted'
    BY <1>1, <1>2 DEF PassCounted
  <1>5. \A t \in Streams \ {s} : StillServed(t) => StillServed(t)'
    BY <1>1, <1>2 DEF StillServed, Streams, Outputs
  <1> QED
    BY <1>3, <1>4, <1>5

LEMMA SkipStep == ASSUME StreamInv, NEW s \in Streams, Skip(s) PROVE StreamInv'
  <1>1. /\ at = s /\ Served(s)
        /\ UNCHANGED <<pipe, sent, slots, kept, closed, received, ready, live>>
    BY DEF Skip, outsideVars
  <1>2. /\ passes' \in 0..3 /\ at' \in Streams \cup {"wait", "queue"}
        /\ PassCounted'
        /\ \A t \in Streams \ {s} : StillServed(t) => StillServed(t)'
    BY <1>1, ServedFacts
  <1>3. s \in slots => ~Pollable(s)
    BY SizesAssumption
    DEF Skip, WouldBlock, Pollable, StreamInv, StreamsTypeOK, Room, Outputs
  <1>4. EdgeCovered'
    BY <1>1, <1>2, <1>3
    DEF StreamInv, StreamsTypeOK, EdgeCovered, Pollable, Room
  <1> QED
    BY <1>1, <1>2, <1>4
    DEF StreamInv, StreamsTypeOK, PipeIsRest, OutputIsPrefix, InputIsPrefix

LEMMA RetireStep == ASSUME StreamInv, NEW s \in Streams, Retire(s) PROVE StreamInv'
  <1>1. /\ at = s /\ Served(s) /\ slots' = slots \ {s}
        /\ UNCHANGED <<pipe, sent, kept, closed, received, ready, live>>
    BY DEF Retire, DropSlot, outsideVars
  <1>2. /\ passes' \in 0..3 /\ at' \in Streams \cup {"wait", "queue"}
        /\ PassCounted'
        /\ \A t \in Streams \ {s} : StillServed(t) => StillServed(t)'
    BY <1>1, ServedFacts
  <1>3. EdgeCovered'
    BY <1>1, <1>2 DEF StreamInv, StreamsTypeOK, EdgeCovered, Pollable, Room
  <1> QED
    BY <1>1, <1>2, <1>3
    DEF StreamInv, StreamsTypeOK, PipeIsRest, OutputIsPrefix, InputIsPrefix

LEMMA ReadStep == ASSUME StreamInv, NEW s \in Outputs, Read(s) PROVE StreamInv'
  <1> USE DEF StreamInv
  <1> DEFINE left == Limit - Len(kept[s])
             n == Least(Len(pipe[s]), Ask(left))
             in == sent[s]
             len == Len(pipe[s])
             front == SubSeq(pipe[s], 1, n)
  <1>1. /\ at = s /\ n > 0 /\ Leave(s, n)
        /\ kept' = [kept EXCEPT ![s] = IF left > 0 THEN @ \o front ELSE @]
        /\ UNCHANGED <<passes, at, sent, slots, closed, received, ready, live>>
    BY DEF Read, Repeat, outsideVars
  <1>2. /\ s \in Streams /\ s # "Stdin" /\ Limit \in Nat /\ Capacity \in Nat
        /\ kept[s] \in Seq(Nat) /\ Len(kept[s]) \in Nat
        /\ pipe[s] \in Seq(Nat) /\ len \in Nat /\ in \in Nat
        /\ len <= Capacity
    BY SizesAssumption DEF Streams, Outputs, StreamsTypeOK
  <1>3. left \in Int /\ Ask(left) \in Int /\ (left > 0 => Ask(left) <= left)
    BY <1>2, SizesAssumption DEF Ask, Least
  <1>4. n \in 1..len /\ (left > 0 => n <= left)
    BY <1>1, <1>2, <1>3 DEF Least
  <1> HIDE DEF n
  <1>5. /\ pipe' \in [Streams -> Seq(Nat)]
        /\ pipe'[s] = SubSeq(pipe[s], n + 1, Len(pipe[s]))
        /\ Len(pipe'[s]) = len - n
        /\ \A t \in Streams \ {s} : pipe'[t] = pipe[t]
    <2> n \in 0..Len(pipe[s])
      BY <1>4
    <2> QED
      BY <1>1, <1>2, LeaveFacts
  <1>6. /\ len <= in /\ pipe[s] = Bytes(in - len + 1, len)
        /\ kept[s] = Bytes(1, Least(Limit, in - len))
    BY DEF PipeIsRest, OutputIsPrefix
  <1>7. sent'[s] = in
    BY <1>1
  <1>8. /\ front = Bytes(in - len + 1, n)
        /\ pipe'[s] = Bytes(in - len + 1 + n, len - n)
    <2>1. in - len + 1 \in Nat \ {0} /\ n \in 0..len
      BY <1>2, <1>4, <1>6
    <2>2. /\ SubSeq(Bytes(in - len + 1, len), 1, n) = Bytes(in - len + 1, n)
          /\ SubSeq(Bytes(in - len + 1, len), n + 1, len)
               = Bytes(in - len + 1 + n, len - n)
      BY <1>2, <2>1, BytesPart
    <2>3. pipe'[s] = SubSeq(pipe[s], n + 1, len) /\ front = SubSeq(pipe[s], 1, n)
      BY <1>5
    <2> QED
      BY <1>6, <2>2, <2>3, Zenon
  <1> HIDE DEF in, len, front, left
  <1>9. PipeIsRest'
    <2> in \in Nat /\ len \in Nat /\ len <= in /\ n \in Nat
      BY <1>2, <1>4, <1>6
    <2>1. in - (len - n) + 1 = in - len + 1 + n /\ len - n <= in
      OBVIOUS
    <2>2. /\ Len(pipe'[s]) <= sent'[s]
          /\ pipe'[s] = Bytes(sent'[s] - Len(pipe'[s]) + 1, Len(pipe'[s]))
      BY <1>5, <1>7, <1>8, <2>1
    <2> QED
      BY <1>1, <1>2, <1>5, <2>2 DEF PipeIsRest, Streams
  <1>10. kept'[s] = Bytes(1, Least(Limit, in - (len - n)))
    <2>1. Least(Limit, in - len) \in Nat
      BY <1>2, <1>6 DEF Least
    <2>2. left = Limit - Least(Limit, in - len)
      BY <1>6, <2>1, BytesType DEF left
    <2>3. CASE left > 0
      <3>1. Least(Limit, in - len) = in - len
        BY <1>2, <1>6, <2>2, <2>3 DEF Least
      <3>2. Least(Limit, in - (len - n)) = in - len + n
        BY <1>2, <1>4, <1>6, <2>2, <2>3, <3>1 DEF Least
      <3>3. in - len \in Nat /\ n \in Nat
        BY <1>2, <1>4, <1>6
      <3>4. Bytes(1, in - len) \o Bytes(in - len + 1, n) = Bytes(1, in - len + n)
        BY <3>3, BytesFromOne
      <3>5. kept'[s] = kept[s] \o front
        BY <1>1, <2>3 DEF StreamsTypeOK
      <3> QED
        BY <1>6, <1>8, <3>1, <3>2, <3>4, <3>5, Zenon
    <2>4. CASE ~(left > 0)
      <3>1. Least(Limit, in - (len - n)) = Least(Limit, in - len)
        BY <1>2, <1>4, <1>6, <2>2, <2>4 DEF Least
      <3>2. kept'[s] = kept[s]
        BY <1>1, <2>4 DEF StreamsTypeOK
      <3> QED
        BY <1>6, <3>1, <3>2
    <2> QED
      BY <2>3, <2>4
  <1>11. kept' \in [Outputs -> Seq(Nat)] /\ \A t \in Outputs \ {s} : kept'[t] = kept[t]
    <2>1. kept[s] \o front \in Seq(Nat)
      BY <1>2, <1>4, Split, ConcatProperties DEF front, len
    <2> QED
      BY <1>1, <2>1 DEF StreamsTypeOK
  <1>12. StreamsTypeOK'
    <2>1. Len(pipe'[s]) <= Capacity
      BY <1>2, <1>4, <1>5
    <2>2. \A t \in Streams : Len(pipe'[t]) <= Capacity
      BY <1>5, <2>1 DEF StreamsTypeOK
    <2> QED
      BY <1>1, <1>5, <1>11, <2>2 DEF StreamsTypeOK
  <1>13. OutputIsPrefix'
    <2>1. kept'[s] = Bytes(1, Least(Limit, sent'[s] - Len(pipe'[s])))
      BY <1>5, <1>7, <1>10
    <2> QED
      BY <1>1, <1>5, <1>11, <2>1 DEF OutputIsPrefix, Streams
  <1>14. InputIsPrefix'
    BY <1>1, <1>2, <1>5 DEF InputIsPrefix, Streams
  <1>15. EdgeCovered'
    <2>1. StillServed(s)'
      BY <1>1, <1>2 DEF StillServed, Streams, Outputs
    <2>2. \A t \in Streams \ {s} : Pollable(t)' = Pollable(t)
      BY <1>1, <1>5 DEF Pollable, Room, Streams
    <2> QED
      BY <1>1, <2>1, <2>2 DEF EdgeCovered, StreamsTypeOK, StillServed
  <1> QED
    BY <1>1, <1>9, <1>12, <1>13, <1>14, <1>15 DEF PassCounted

LEMMA WriteStep == ASSUME StreamInv, Write PROVE StreamInv'
  <1> USE DEF StreamInv
  <1> DEFINE n == Least(Room("Stdin"), Least(WriteChunk, Input - sent.Stdin))
  <1>1. /\ at = "Stdin" /\ n > 0 /\ Enter("Stdin", Bytes(sent.Stdin + 1, n))
        /\ UNCHANGED <<passes, at, slots, kept, closed, received, ready, live>>
    BY DEF Write, Repeat, Unwritten, outsideVars
  <1>2. /\ "Stdin" \in Streams /\ "Stdin" \notin Outputs
        /\ sent.Stdin \in Nat /\ Len(pipe.Stdin) \in Nat
        /\ pipe.Stdin \in Seq(Nat) /\ received \in Seq(Nat)
        /\ Room("Stdin") \in Int /\ WriteChunk \in Nat /\ Input \in Nat
    BY SizesAssumption DEF StreamsTypeOK, Streams, Outputs, Room
  <1>3. n \in Nat /\ n <= Room("Stdin")
    BY <1>1, <1>2 DEF Least
  <1> HIDE DEF n
  <1>4. /\ pipe' \in [Streams -> Seq(Nat)]
        /\ sent' \in [Streams -> Nat]
        /\ pipe'.Stdin = pipe.Stdin \o Bytes(sent.Stdin + 1, n)
        /\ sent'.Stdin = sent.Stdin + n
        /\ Len(pipe'.Stdin) <= Capacity
        /\ \A t \in Streams \ {"Stdin"} : pipe'[t] = pipe[t] /\ sent'[t] = sent[t]
    BY <1>1, <1>2, <1>3, EnterFacts
  <1>5. StreamsTypeOK'
    <2>1. \A t \in Streams : Len(pipe'[t]) <= Capacity
      BY <1>4 DEF StreamsTypeOK
    <2> QED
      BY <1>1, <1>4, <2>1 DEF StreamsTypeOK
  <1>6. PipeIsRest' /\ OutputIsPrefix'
    BY <1>1, <1>2, <1>4 DEF PipeIsRest, OutputIsPrefix, Streams
  <1>7. InputIsPrefix'
    <2> DEFINE new == Bytes(sent.Stdin + 1, n)
    <2>1. new \in Seq(Nat)
      BY <1>2, <1>3, BytesType
    <2>2. Bytes(1, sent.Stdin) \o new = Bytes(1, sent.Stdin + n)
      BY <1>2, <1>3, BytesFromOne
    <2> HIDE DEF new
    <2>3. (received \o pipe.Stdin) \o new = received \o (pipe.Stdin \o new)
      BY <1>2, <2>1, Regroup, Zenon
    <2>4. pipe'.Stdin = pipe.Stdin \o new
      BY <1>4 DEF new
    <2> QED
      BY <1>1, <1>4, <2>2, <2>3, <2>4 DEF InputIsPrefix
  <1>8. EdgeCovered'
    <2>1. StillServed("Stdin")'
      BY <1>1 DEF StillServed
    <2>2. \A t \in Streams \ {"Stdin"} : Pollable(t)' = Pollable(t)
      BY <1>1, <1>4 DEF Pollable, Room, Streams
    <2> QED
      BY <1>1, <2>1, <2>2 DEF EdgeCovered, StreamsTypeOK, StillServed
  <1> QED
    BY <1>1, <1>5, <1>6, <1>7, <1>8 DEF PassCounted

LEMMA NextStreamInv == StreamInv /\ [Next]_vars => StreamInv'
  <1> SUFFICES ASSUME StreamInv, [Next]_vars PROVE StreamInv'
    OBVIOUS
  <1>1. CASE Child
    BY <1>1, ChildWritesStep, ChildReadsStep, ChildClosesStep DEF Child
  <1>2. CASE PerformIo
    BY <1>2, SkipStep, RetireStep, ReadStep, WriteStep DEF PerformIo
  <1>3. CASE UNCHANGED vars
    BY <1>3
    DEF vars, StreamInv, StreamsTypeOK, PassCounted, PipeIsRest, OutputIsPrefix,
        InputIsPrefix, EdgeCovered, StillServed, Pollable, Room
  <1> QED
    BY <1>1, <1>2, <1>3, EpollWaitStep, JobFinishesStep, TakePassStep DEF Next

-----------------------------------------------------------------------------
(***************************************************************************)
(* The theorems.                                                           *)
(***************************************************************************)

LEMMA StreamInvAlways == Spec => []StreamInv
  BY InitStreamInv, NextStreamInv, PTL DEF Spec

\* Whatever the sizes, no pipe holds more than its capacity, and never more
\* than three PerformIo are queued (runtime.rs:179-192).
THEOREM StreamTypesCorrect == Spec => []StreamsTypeOK
  <1>1. StreamInv => StreamsTypeOK
    BY DEF StreamInv
  <1> QED
    BY <1>1, StreamInvAlways, PTL

\* What is kept of an output is its beginning without a gap, up to the limit,
\* for every limit, chunk and pipe size (buffer.rs:27-74).
THEOREM OutputCorrect == Spec => []OutputIsPrefix
  <1>1. StreamInv => OutputIsPrefix
    BY DEF StreamInv
  <1> QED
    BY <1>1, StreamInvAlways, PTL

\* The child reads its input in order and without a gap (writer.rs:17-48).
THEOREM InputCorrect == Spec => []InputIsPrefix
  <1>1. StreamInv => InputIsPrefix
    BY DEF StreamInv
  <1> QED
    BY <1>1, StreamInvAlways, PTL

\* No stream is ready and forgotten while the loop sleeps: the edge-triggered
\* reports are never used up before EAGAIN (buffer.rs:27-74, writer.rs:19-43,
\* runtime.rs:179-192).
THEOREM EdgesCorrect == Spec => []NoEdgeLost
  <1>1. StreamInv => NoEdgeLost
    BY DEF StreamInv, EdgeCovered, StillServed, NoEdgeLost
  <1> QED
    BY <1>1, StreamInvAlways, PTL

=============================================================================
