---------------------------- MODULE ServiceProofs ----------------------------
(***************************************************************************)
(* The core implements JobService, for every value of the constants: the   *)
(* mapping of CoreService takes each step of the core to a step of the     *)
(* service or to none.                                                     *)
(*                                                                         *)
(* On top of the invariants of JobProofs the mapping needs that it is a    *)
(* function, so that a job has one child (OneChild) and one result         *)
(* (Apart), and that a job remembers whether its child was told to stop    *)
(* (ToldInv): the service's result says so of the child, the code's of the *)
(* job.                                                                    *)
(***************************************************************************)
EXTENDS CoreService, DaemonProofs

OneChild ==
  \A g, h \in DOMAIN processes : processes[g].job = processes[h].job => g = h

\* No two of the results are of one job.
Apart(s) == \A i, k \in 1..Len(s) : s[i].id = s[k].id => i = k

\* A job's stage can be read from the lifecycle table while it exists.
JobsKnown == DOMAIN jobs \subseteq DOMAIN lifecycle

Told(id) == HasProcess(id) /\ Child(id).sig # "none"

\* Neither the job nor a result of it that waits forgets the signal.
ToldInv ==
  /\ \A id \in DOMAIN jobs : Told(id) => jobs[id].timed_out
  /\ \A a \in Waiting :
       a.type = "Finished" /\ Told(a.id) => a.result.timed_out

ServiceInv ==
  /\ HandleInv /\ StartInv /\ TruthInv /\ SlotInv /\ LifeInv
  /\ OneChild /\ Apart(results) /\ JobsKnown /\ ToldInv

-----------------------------------------------------------------------------
(***************************************************************************)
(* ToldInv.                                                                *)
(***************************************************************************)

\* A step that signals no child and reports none.
LEMMA ToldKept ==
  ASSUME ToldInv,
         \A id \in DOMAIN jobs' : Told(id)' =>
           id \in DOMAIN jobs /\ Told(id) /\ (jobs[id].timed_out => jobs'[id].timed_out),
         \A a \in Waiting' : a.type = "Finished" => a \in Waiting
  PROVE  ToldInv'
  BY DEF ToldInv, Told, HasProcess

LEMMA ToldSame ==
  ASSUME ToldInv, UNCHANGED <<jobs, processes>>,
         \A a \in Waiting' : a.type = "Finished" => a \in Waiting
  PROVE  ToldInv'
  BY DEF ToldInv, Told, HasProcess, Child

LEMMA QuietTold ==
  ASSUME HandleInv, ToldInv, QuietStep \/ SignalStep PROVE ToldInv'
  <1>1. UNCHANGED <<jobs, processes>>
    BY DEF QuietStep, SignalStep, Kept
  <1>2. ASSUME QuietStep
        PROVE  \A a \in Waiting' : a.type = "Finished" => a \in Waiting
    BY <1>2, QuietItems DEF QuietTypes
  <1>3. ASSUME SignalStep
        PROVE  \A a \in Waiting' : a.type = "Finished" => a \in Waiting
    <2>1. PICK signal \in Signals :
            \A a \in Waiting' : \/ a \in Rest
                               \/ a = Order(signal)
                               \/ a.type = "Controlled"
      BY <1>3, SignalItems
    <2>2. Order(signal).type = "SignalProcess" /\ Rest \subseteq Waiting
      BY <1>3, SignalItems DEF Order, Signal
    <2> QED
      BY <2>1, <2>2
  <1> QED
    BY <1>1, <1>2, <1>3, ToldSame

LEMMA RequestTold ==
  ASSUME HandleInv, ToldInv,
         \/ \E timeout \in Timeouts : RequestSubmit(timeout)
         \/ \E id \in JobIds : RequestPoll(id)
  PROVE  ToldInv'
  <1>1. QueueOK
    BY TypeParts DEF HandleInv
  <1>2. PICK a \in Action :
          /\ a.type # "Finished"
          /\ Grows(<<a>>) /\ Items(<<a>>) = {a}
          /\ UNCHANGED <<jobs, processes>>
    BY SubmitEffect, PollRequested DEF Kept
  <1> QED
    BY <1>1, <1>2, GrowsItems, ToldSame

LEMMA AdmitTold ==
  ASSUME HandleInv, ToldInv, HandleSubmit, ~AtLimit PROVE ToldInv'
  BY AdmitEffect, ToldSame

LEMMA AdmittedTold ==
  ASSUME HandleInv, StartInv, ToldInv, HandleAdmitted PROVE ToldInv'
  <1>1. HeadId \notin DOMAIN jobs
    BY AdmittedEffect DEF StartInv, StartTypes, OnItsWay, HeadId
  <1>2. \A id \in DOMAIN jobs' : Told(id)' =>
          /\ id \in DOMAIN jobs /\ Told(id)
          /\ jobs[id].timed_out => jobs'[id].timed_out
    BY <1>1, AdmittedEffect DEF Told, HasProcess, Child
  <1> QED
    BY <1>2, AdmittedEffect, ToldKept

LEMMA SpawnTold ==
  ASSUME HandleInv, StartInv, ToldInv, HandleStartProcess, SpawnSucceeds(HeadId)
  PROVE  ToldInv'
  <1>1. \A id \in DOMAIN jobs' : Told(id)' =>
          /\ id \in DOMAIN jobs /\ Told(id)
          /\ jobs[id].timed_out => jobs'[id].timed_out
    BY SpawnEffect, ChildOfJob DEF Told, HasProcess, Child
  <1>2. \A a \in Waiting' : a.type = "Finished" => a \in Waiting
    BY SpawnEffect, StartTurn, TurnItems, StartedItems
  <1> QED
    BY <1>1, <1>2, ToldKept

LEMMA RefusalTold ==
  ASSUME HandleInv, ToldInv, HandleStartProcess, SpawnFails(HeadId)
  PROVE  ToldInv'
  <1>1. QueueOK
    BY TypeParts DEF HandleInv
  <1> QED
    BY <1>1, RefusalEffect, GrowsItems, ToldSame

\* The signal itself: the job is noted, and no result of it waits.
LEMMA SignalledTold ==
  ASSUME HandleInv, StartInv, SlotInv, LifeInv, ToldInv, HandleSignalProcess
  PROVE  ToldInv'
  <1>1. CASE HeadId \notin DOMAIN jobs
    BY <1>1, SignalEffect, ToldSame
  <1>2. CASE HeadId \in DOMAIN jobs
    <2> DEFINE p == jobs[HeadId].process
    <2>1. jobs'[HeadId].timed_out
      BY <1>2, SignalEffect, KillFindsStop
    <2>2. \A id \in DOMAIN jobs' : id # HeadId /\ Told(id)' =>
            /\ Told(id) /\ id \in DOMAIN jobs
            /\ jobs[id].timed_out => jobs'[id].timed_out
      <3> SUFFICES ASSUME NEW id \in DOMAIN jobs', id # HeadId, Told(id)'
                   PROVE  /\ Told(id) /\ id \in DOMAIN jobs
                          /\ jobs[id].timed_out => jobs'[id].timed_out
        OBVIOUS
      <3>1. /\ id \in DOMAIN jobs /\ jobs'[id] = jobs[id]
            /\ HasProcess(id) /\ HasProcess(HeadId)
        BY <1>2, SignalEffect DEF Told, HasProcess
      <3>2. jobs[id].process # p
        BY <3>1, ChildOfJob
      <3>3. processes'[jobs[id].process] = processes[jobs[id].process]
        BY <3>1, <3>2, ChildOfJob, SignalEffect
      <3> QED
        BY <3>1, <3>3 DEF Told, Child
    <2>3. \A a \in Waiting' : a.type = "Finished" => a \in Waiting /\ a.id # HeadId
      <3>1. \A a \in Rest : <<Head(queue), a>> \notin SlotClash
        BY SignalEffect, HeadClash DEF SlotInv
      <3> QED
        BY <3>1, SignalEffect, SlotClashPair DEF HeadId
    <2>4. \A a \in Waiting' : a.type = "Finished" => a.id \in DOMAIN jobs'
      BY <2>3, SignalEffect DEF SlotInv
    <2> QED
      BY <2>1, <2>2, <2>3, <2>4 DEF ToldInv
  <1> QED
    BY <1>1, <1>2

LEMMA PolledTold ==
  ASSUME HandleInv, ToldInv, PollEnds PROVE ToldInv'
  <1>1. \A id \in DOMAIN jobs' : Told(id)' =>
          Told(id) /\ id \in DOMAIN jobs /\ jobs' = jobs
    BY PollEffect, ChildOfJob DEF Told, HasProcess, Child
  <1>2. \A id : Told(id)' => id \in DOMAIN jobs'
    BY DEF Told, HasProcess
  <1>3. /\ Exit.id = HeadId /\ Exit.result.timed_out = jobs[HeadId].timed_out
        /\ Waiting' \subseteq Waiting \cup {Exit}
    BY PollEffect DEF Exit
  <1> QED
    BY <1>1, <1>2, <1>3 DEF ToldInv

LEMMA FinishedTold ==
  ASSUME HandleInv, ToldInv, HandleFinished PROVE ToldInv'
  <1>1. \A id \in DOMAIN jobs' : Told(id)' =>
          /\ id \in DOMAIN jobs /\ Told(id)
          /\ jobs[id].timed_out => jobs'[id].timed_out
    BY FinishedEffect DEF Told, HasProcess, Child
  <1> QED
    BY <1>1, FinishedEffect, ToldKept

LEMMA ExitTold ==
  ASSUME HandleInv, ToldInv, NEW h, ChildExits(h) PROVE ToldInv'
  <1>1. \A id \in DOMAIN jobs' : Told(id)' =>
          /\ id \in DOMAIN jobs /\ Told(id)
          /\ jobs[id].timed_out => jobs'[id].timed_out
    BY ExitEffect, ChildOfJob DEF Told, HasProcess, Child
  <1>2. Waiting' = Waiting
    BY ExitEffect DEF Waiting
  <1> QED
    BY <1>1, <1>2, ToldKept

LEMMA NextToldInv ==
  ASSUME HandleInv, StartInv, SlotInv, LifeInv, ToldInv, [CoreNext]_coreVars
  PROVE  ToldInv'
  BY StepCases, QuietTold, RequestTold, AdmitTold, AdmittedTold, SpawnTold,
     RefusalTold, SignalledTold, PolledTold, FinishedTold, ExitTold

-----------------------------------------------------------------------------
(***************************************************************************)
(* One child and one result of a job.                                      *)
(***************************************************************************)

LEMMA NextOneChild ==
  ASSUME HandleInv, StartInv, OneChild, [CoreNext]_coreVars PROVE OneChild'
  <1>1. CASE /\ DOMAIN processes' = DOMAIN processes
             /\ \A h \in DOMAIN processes : processes'[h].job = processes[h].job
    BY <1>1 DEF OneChild
  <1>2. CASE HandleStartProcess /\ SpawnSucceeds(HeadId)
    <2>1. \A h \in DOMAIN processes : processes[h].job # HeadId
      BY <1>2, StartTurn DEF HasChild
    <2> QED
      BY <1>2, <2>1, SpawnEffect DEF OneChild
  <1>3. CASE processes' = processes
    BY <1>1, <1>3
  <1>4. CASE QuietStep \/ SignalStep \/ \E id \in JobIds : RequestPoll(id)
    BY <1>3, <1>4, PollRequested DEF QuietStep, SignalStep, Kept
  <1>5. CASE \/ \E timeout \in Timeouts : RequestSubmit(timeout)
             \/ HandleSubmit /\ ~AtLimit
             \/ HandleAdmitted
             \/ HandleStartProcess /\ SpawnFails(HeadId)
             \/ HandleFinished
    BY <1>3, <1>5, SubmitEffect, AdmitEffect, AdmittedEffect, RefusalEffect,
       FinishedEffect
  <1>6. CASE \/ HandleSignalProcess \/ PollEnds
             \/ \E h \in DOMAIN processes : ChildExits(h)
    BY <1>1, <1>6, SignalEffect, PollEffect, ExitEffect
  <1> QED
    BY StepCases, <1>2, <1>4, <1>5, <1>6

\* A part of a sequence, by what comes before it.
LEMMA PartOf ==
  ASSUME NEW S, NEW s \in Seq(S), NEW n \in Nat, n <= Len(s), NEW m \in 0..n
  PROVE  /\ SubSeq(s, m + 1, n) \in Seq(S)
         /\ Len(SubSeq(s, m + 1, n)) = n - m
         /\ \A k \in 1..(n - m) : SubSeq(s, m + 1, n)[k] = s[m + k]
  <1>1. \A k \in (m + 1)..n : s[k] \in S
    OBVIOUS
  <1> DEFINE p == SubSeq(s, m + 1, n)
  <1>2. /\ p \in Seq(S)
        /\ Len(p) = IF m + 1 <= n THEN n - (m + 1) + 1 ELSE 0
        /\ \A k \in 1..(n - (m + 1) + 1) : p[k] = s[(m + 1) + k - 1]
    BY <1>1, SubSeqProperties
  <1> HIDE DEF p
  <1>3. /\ n - (m + 1) + 1 = n - m
        /\ \A k \in 1..(n - m) : (m + 1) + k - 1 = m + k
    OBVIOUS
  <1>4. Len(p) = n - m /\ \A k \in 1..(n - m) : p[k] = s[m + k]
    BY <1>2, <1>3
  <1> QED
    BY <1>2, <1>4 DEF p

\* The map without the result of one job.
LEMMA TakenResults ==
  ASSUME NEW S, results \in Seq(S), Apart(results), NEW id, HasResult(id),
         NEW r, r = OtherResults(id)
  PROVE  /\ r \in Seq(S)
         /\ Apart(r)
         /\ \A k \in 1..Len(r) : r[k].id # id
         /\ \A k \in 1..Len(r) : \E m \in 1..Len(results) : r[k] = results[m]
         /\ \A m \in 1..Len(results) : results[m].id # id =>
              \E k \in 1..Len(r) : r[k] = results[m]
  <1> DEFINE n == Len(results)
             i == CHOOSE j \in DOMAIN results : results[j].id = id
             before == SubSeq(results, 1, i - 1)
             after == SubSeq(results, i + 1, n)
  <1>1. n \in Nat /\ DOMAIN results = 1..n
    OBVIOUS
  <1>2. i \in 1..n /\ results[i].id = id
    BY <1>1 DEF HasResult
  <1>3. r = before \o after
    BY <1>2 DEF OtherResults
  <1> HIDE DEF i
  <1>4. /\ before \in Seq(S) /\ Len(before) = i - 1
        /\ \A k \in 1..(i - 1) : before[k] = results[k]
    <2>1. i - 1 \in Nat /\ i - 1 <= n /\ 0 \in 0..(i - 1)
      BY <1>1, <1>2
    <2>2. /\ before \in Seq(S) /\ Len(before) = i - 1 - 0
          /\ \A k \in 1..(i - 1 - 0) : before[k] = results[0 + k]
      BY <2>1, PartOf
    <2> HIDE DEF before, n
    <2> QED
      BY <1>2, <2>1, <2>2
  <1>5. /\ after \in Seq(S) /\ Len(after) = n - i
        /\ \A k \in 1..(n - i) : after[k] = results[i + k]
    <2>1. n \in Nat /\ n <= Len(results) /\ i \in 0..n
      BY <1>1, <1>2
    <2> HIDE DEF n, before
    <2> QED
      BY <2>1, PartOf
  <1> HIDE DEF before, after, n
  <1>6. /\ r \in Seq(S) /\ Len(r) = n - 1
        /\ \A k \in 1..(n - 1) :
             r[k] = IF k <= i - 1 THEN before[k] ELSE after[k - (i - 1)]
    <2>1. (i - 1) + (n - i) = n - 1
      BY <1>1, <1>2
    <2>2. /\ r \in Seq(S) /\ Len(r) = Len(before) + Len(after)
          /\ \A k \in 1..(Len(before) + Len(after)) :
               r[k] = IF k <= Len(before) THEN before[k]
                      ELSE after[k - Len(before)]
      BY <1>3, <1>4, <1>5, ConcatProperties
    <2>3. Len(before) = i - 1 /\ Len(after) = n - i
      BY <1>4, <1>5
    <2> QED
      BY <2>1, <2>2, <2>3
  <1>7. \A k \in 1..(n - 1) :
          r[k] = IF k < i THEN results[k] ELSE results[k + 1]
    <2> SUFFICES ASSUME NEW k \in 1..(n - 1)
                 PROVE  r[k] = IF k < i THEN results[k] ELSE results[k + 1]
      OBVIOUS
    <2>1. CASE k < i
      <3>1. k \in 1..(i - 1)
        BY <1>2, <2>1
      <3> QED
        BY <1>1, <1>2, <1>4, <1>6, <2>1, <3>1
    <2>2. CASE ~(k < i)
      <3>1. k - (i - 1) \in 1..(n - i) /\ i + (k - (i - 1)) = k + 1 /\ ~(k <= i - 1)
        BY <1>1, <1>2, <2>2
      <3>2. r[k] = after[k - (i - 1)]
        BY <1>6, <3>1
      <3> QED
        BY <1>5, <2>2, <3>1, <3>2
    <2> QED
      BY <2>1, <2>2
  <1>8. \A k \in 1..(n - 1) :
          LET m == IF k < i THEN k ELSE k + 1
          IN  m \in 1..n /\ m # i /\ r[k] = results[m]
    BY <1>1, <1>2, <1>7
  <1>9. \A k, m \in 1..n : results[k].id = results[m].id => k = m
    BY DEF Apart, n
  <1>10. Apart(r)
    <2> SUFFICES ASSUME NEW k \in 1..(n - 1), NEW l \in 1..(n - 1),
                        r[k].id = r[l].id
                 PROVE  k = l
      BY <1>6 DEF Apart
    <2>1. (IF k < i THEN k ELSE k + 1) = (IF l < i THEN l ELSE l + 1)
      BY <1>8, <1>9
    <2> QED
      BY <1>1, <1>2, <2>1
  <1>11. \A k \in 1..(n - 1) :
           r[k].id # id /\ \E m \in 1..n : r[k] = results[m]
    BY <1>2, <1>8, <1>9
  <1>12. ASSUME NEW m \in 1..n, results[m].id # id
         PROVE  \E k \in 1..(n - 1) : r[k] = results[m]
    <2>1. m # i
      BY <1>2, <1>12
    <2>2. CASE m < i
      BY <1>1, <1>2, <1>7, <2>2
    <2>3. CASE m > i
      <3>1. m - 1 \in 1..(n - 1) /\ ~(m - 1 < i) /\ (m - 1) + 1 = m
        BY <1>1, <1>2, <2>3
      <3> QED
        BY <1>7, <3>1
    <2> QED
      BY <1>1, <1>2, <2>1, <2>2, <2>3
  <1> QED
    BY <1>1, <1>6, <1>10, <1>11, <1>12 DEF n

\* What eviction leaves is the end of the sequence, and fits.
LEMMA EvictedResults ==
  ASSUME NEW S, NEW s \in Seq(S), s # <<>>,
         NEW r, \E expired \in 0..(Len(s) - 1) : r = Evicted(s, expired)
  PROVE  \E n \in 1..Len(s) :
           /\ n <= MaxResults
           /\ r \in Seq(S) /\ Len(r) = n
           /\ \A i \in 1..n : r[i] = s[Len(s) - n + i]
  <1> PICK expired \in 0..(Len(s) - 1) : r = Evicted(s, expired)
    OBVIOUS
  <1> DEFINE l == Len(s)
             kept == SubSeq(s, expired + 1, l)
             excess == IF Len(kept) > MaxResults THEN Len(kept) - MaxResults ELSE 0
             n == l - expired - excess
  <1>1. l \in Nat \ {0} /\ expired \in 0..(l - 1) /\ MaxResults \in Nat \ {0}
    BY MaxResultsAssumption
  <1>2. /\ kept \in Seq(S) /\ Len(kept) = l - expired
        /\ \A i \in 1..(l - expired) : kept[i] = s[expired + i]
    BY <1>1, PartOf
  <1>3. r = SubSeq(kept, excess + 1, Len(kept))
    BY DEF Evicted
  <1> HIDE DEF l, kept
  <1>4. /\ excess \in 0..(l - expired - 1)
        /\ n \in 1..l /\ n <= MaxResults
    BY <1>1, <1>2
  <1> HIDE DEF excess
  <1>5. /\ r \in Seq(S) /\ Len(r) = n
        /\ \A i \in 1..n : r[i] = kept[excess + i]
    <2>1. /\ Len(kept) \in Nat /\ excess \in 0..Len(kept)
          /\ Len(kept) - excess = n
      BY <1>1, <1>2, <1>4
    <2> HIDE DEF n
    <2> QED
      BY <1>2, <1>3, <2>1, PartOf
  <1>6. \A i \in 1..n : r[i] = s[l - n + i]
    <2> SUFFICES ASSUME NEW i \in 1..n PROVE r[i] = s[l - n + i]
      OBVIOUS
    <2>1. excess + i \in 1..(l - expired) /\ expired + (excess + i) = l - n + i
      BY <1>1, <1>4
    <2> QED
      BY <1>2, <1>5, <2>1
  <1> HIDE DEF n
  <1> QED
    BY <1>4, <1>5, <1>6 DEF l

\* The end of a job puts its result behind what is left of the others.
LEMMA FinishedResults ==
  ASSUME HandleInv, TruthInv, SlotInv, HandleFinished
  PROVE  /\ HeadId \in DOMAIN jobs /\ ~HasResult(HeadId)
         /\ results \in Seq(Result)
         /\ \E n \in 1..(Len(results) + 1) :
              /\ n <= MaxResults
              /\ results' \in Seq(Result) /\ Len(results') = n
              /\ results'[n] = [id |-> HeadId, result |-> Head(queue).result]
              /\ \A i \in 1..(n - 1) :
                   /\ Len(results) + 1 - n + i \in 1..Len(results)
                   /\ results'[i] = results[Len(results) + 1 - n + i]
  <1> DEFINE new == [id |-> HeadId, result |-> Head(queue).result]
             stored == Append(results, new)
             l == Len(results)
  <1>1. /\ Head(queue) \in Action /\ Head(queue).type = "Finished"
        /\ HeadId \in JobIds /\ Head(queue) \in Waiting
    BY FinishedEffect
  <1>2. HeadId \in DOMAIN jobs
    BY <1>1 DEF SlotInv, HeadId
  <1>3. results \in Seq(Result) /\ new \in Result
    BY <1>1, Carried DEF HandleInv, TypeOK, Result
  <1>4. ~HasResult(HeadId)
    BY <1>2 DEF TruthInv, ResultsAreTrue, HasResult
  <1>5. \E expired \in 0..(Len(stored) - 1) : results' = Evicted(stored, expired)
    BY <1>2, <1>4 DEF HandleFinished, StoreResult, OtherResults
  <1> HIDE DEF new
  <1>6. /\ stored \in Seq(Result) /\ Len(stored) = l + 1
        /\ stored[l + 1] = new
        /\ \A i \in 1..l : stored[i] = results[i]
        /\ l \in Nat
    BY <1>3
  <1>7. stored # <<>>
    BY <1>6
  <1> HIDE DEF stored
  <1>8. PICK n \in 1..Len(stored) :
          /\ n <= MaxResults
          /\ results' \in Seq(Result) /\ Len(results') = n
          /\ \A i \in 1..n : results'[i] = stored[Len(stored) - n + i]
    <2> HIDE DEF l
    <2>1. stored \in Seq(Result)
      BY <1>6
    <2> QED
      BY <1>5, <1>7, <2>1, EvictedResults
  <1>9. results'[n] = new
    <2>1. n \in 1..n /\ l + 1 - n + n = l + 1
      BY <1>6, <1>8
    <2> QED
      BY <1>6, <1>8, <2>1
  <1>10. ASSUME NEW i \in 1..(n - 1)
         PROVE  l + 1 - n + i \in 1..l /\ results'[i] = results[l + 1 - n + i]
    <2> HIDE DEF l
    <2>1. /\ i \in 1..n /\ l + 1 - n + i \in 1..l
          /\ Len(stored) - n + i = l + 1 - n + i
      BY <1>6, <1>8
    <2>2. results'[i] = stored[l + 1 - n + i]
      BY <1>8, <2>1
    <2> QED
      BY <1>6, <2>1, <2>2
  <1> QED
    BY <1>2, <1>3, <1>4, <1>6, <1>8, <1>9, <1>10 DEF new

LEMMA FinishedApart ==
  ASSUME HandleInv, TruthInv, SlotInv, Apart(results), HandleFinished
  PROVE  Apart(results')
  <1>0. PICK n \in 1..(Len(results) + 1) :
          /\ n <= MaxResults
          /\ results' \in Seq(Result) /\ Len(results') = n
          /\ results'[n] = [id |-> HeadId, result |-> Head(queue).result]
          /\ \A i \in 1..(n - 1) :
               /\ Len(results) + 1 - n + i \in 1..Len(results)
               /\ results'[i] = results[Len(results) + 1 - n + i]
    BY FinishedResults, Zenon
  <1> DEFINE l == Len(results)
  <1>1. /\ n \in 1..(l + 1) /\ Len(results') = n
        /\ results'[n].id = HeadId
        /\ \A i \in 1..(n - 1) :
             /\ l + 1 - n + i \in 1..l
             /\ results'[i] = results[l + 1 - n + i]
    BY <1>0
  <1>2. l \in Nat /\ \A i \in 1..l : results[i].id # HeadId
    BY FinishedResults DEF HasResult
  <1> HIDE DEF l
  <1> SUFFICES ASSUME NEW i \in 1..n, NEW k \in 1..n,
                      results'[i].id = results'[k].id
               PROVE  i = k
    BY <1>1 DEF Apart
  <1>3. CASE i = n \/ k = n
    <2>1. \A m \in 1..n : m # n => m \in 1..(n - 1)
      BY <1>1, <1>2
    <2>2. \A m \in 1..(n - 1) : results'[m].id # HeadId
      BY <1>1, <1>2
    <2> QED
      BY <1>1, <1>3, <2>1, <2>2
  <1>4. CASE i # n /\ k # n
    <2>1. i \in 1..(n - 1) /\ k \in 1..(n - 1)
      BY <1>1, <1>2, <1>4
    <2>2. results[l + 1 - n + i].id = results[l + 1 - n + k].id
      BY <1>1, <2>1
    <2>3. l + 1 - n + i = l + 1 - n + k
      BY <1>1, <2>1, <2>2 DEF Apart, l
    <2> QED
      BY <1>1, <1>2, <2>1, <2>3
  <1> QED
    BY <1>3, <1>4

LEMMA NextApart ==
  ASSUME HandleInv, TruthInv, SlotInv, Apart(results), [CoreNext]_coreVars
  PROVE  Apart(results')
  <1>1. CASE HandleQuery
    <2>1. results \in Seq(Result)
      BY DEF HandleInv, TypeOK, Result
    <2>2. results' = OtherResults(HeadId)
      BY <1>1 DEF HandleQuery
    <2>3. CASE HasResult(HeadId)
      BY <2>1, <2>2, <2>3, TakenResults
    <2>4. CASE ~HasResult(HeadId)
      BY <2>2, <2>4 DEF OtherResults
    <2> QED
      BY <2>3, <2>4
  <1>2. CASE HandleFinished
    BY <1>2, FinishedApart
  <1>3. CASE ~HandleQuery /\ ~HandleFinished
    BY <1>3, ResultsStay
  <1> QED
    BY <1>1, <1>2, <1>3

LEMMA NextJobsKnown ==
  ASSUME HandleInv, StartInv, JobsKnown, [CoreNext]_coreVars PROVE JobsKnown'
  <1>1. CASE UNCHANGED <<jobs, lifecycle>>
    BY <1>1 DEF JobsKnown
  <1>2. CASE HandleAdmitted
    BY <1>2, AdmittedEffect DEF JobsKnown
  <1>3. CASE HandleStartProcess
    <2>1. /\ DOMAIN jobs' = DOMAIN jobs
          /\ \E stage : lifecycle' = Insert(lifecycle, HeadId, stage)
      BY <1>3, SpawnEffect, RefusalEffect DEF HandleStartProcess
    <2> QED
      BY <2>1 DEF JobsKnown, Insert
  <1>4. CASE HandleSignalProcess
    <2>1. CASE HeadId \in DOMAIN jobs
      <3>1. /\ DOMAIN jobs' = DOMAIN jobs
            /\ \E stage : lifecycle' = Insert(lifecycle, HeadId, stage)
        BY <1>4, <2>1, SignalEffect
      <3> QED
        BY <3>1 DEF JobsKnown, Insert
    <2>2. CASE HeadId \notin DOMAIN jobs
      BY <1>1, <1>4, <2>2, SignalEffect
    <2> QED
      BY <2>1, <2>2
  <1>5. CASE HandleFinished
    BY <1>5, FinishedEffect DEF JobsKnown
  <1>6. CASE QuietStep \/ SignalStep \/ \E id \in JobIds : RequestPoll(id)
    BY <1>1, <1>6, PollRequested DEF QuietStep, SignalStep, Kept
  <1>7. CASE \/ \E timeout \in Timeouts : RequestSubmit(timeout)
             \/ HandleSubmit /\ ~AtLimit
             \/ PollEnds
             \/ \E h \in DOMAIN processes : ChildExits(h)
    BY <1>1, <1>7, SubmitEffect, AdmitEffect, PollEffect, ExitEffect
  <1> QED
    BY StepCases, <1>2, <1>3, <1>4, <1>5, <1>6, <1>7

LEMMA NextServiceInv ==
  ASSUME ServiceInv, [CoreNext]_coreVars, Polls # "any",
         ControlSignals \subseteq {"GracefulStop"}
  PROVE  ServiceInv'
  BY NextHandleInv, NextStartInv, NextTruthInv, NextSlotInv, NextLifeInv,
     NextOneChild, NextApart, NextJobsKnown, NextToldInv DEF ServiceInv

LEMMA InitServiceInv == CoreInit => ServiceInv
  <1> SUFFICES ASSUME CoreInit PROVE ServiceInv
    OBVIOUS
  <1>1. /\ DOMAIN jobs = {} /\ DOMAIN processes = {}
        /\ results = <<>> /\ queue = <<>>
    BY DEF CoreInit, EmptyMap
  <1>2. Waiting = {} /\ Len(results) = 0
    BY <1>1, ItemsOf DEF Waiting
  <1>3. OneChild /\ Apart(results) /\ JobsKnown /\ ToldInv
    BY <1>1, <1>2 DEF OneChild, Apart, JobsKnown, ToldInv
  <1> QED
    BY <1>3, InitHandleInv, InitStartInv, InitTruthInv, InitSlotInv,
       InitLifeInv DEF ServiceInv

-----------------------------------------------------------------------------
(***************************************************************************)
(* The stages.                                                             *)
(***************************************************************************)

\* The cases of Stage exclude each other, which CASE relies on.
OneCase(id) ==
  /\ id >= next_id => ~WaitsAs("Submit", id) /\ ~WaitsAs("Admitted", id)
  /\ WaitsAs("Submit", id) => ~WaitsAs("Admitted", id)
  /\ id \in DOMAIN jobs =>
       /\ ~(id >= next_id)
       /\ ~WaitsAs("Submit", id) /\ ~WaitsAs("Admitted", id)

LEMMA OneStart ==
  ASSUME NEW q \in Seq(Action), NoPair(q, TwoStarts),
         NEW a \in Items(q), NEW b \in Items(q),
         a.type \in StartTypes, b.type \in StartTypes, a.id = b.id
  PROVE  a = b
  <1>1. PICK i \in 1..Len(q), k \in 1..Len(q) : a = q[i] /\ b = q[k]
    BY DEF Items
  <1>2. a \in Action /\ b \in Action
    BY ItemsType
  <1>3. <<a, b>> \in TwoStarts /\ <<b, a>> \in TwoStarts
    BY <1>2, TwoStartsPair
  <1>4. ~(i < k) /\ ~(k < i)
    BY <1>1, <1>3 DEF NoPair
  <1> QED
    BY <1>1, <1>4

LEMMA CasesExclude ==
  /\ HandleInv /\ StartInv => \A id \in JobIds : OneCase(id)
  /\ HandleInv' /\ StartInv' => \A id \in JobIds : OneCase(id)'
  <1>1. ASSUME HandleInv, StartInv, NEW id \in JobIds PROVE OneCase(id)
    <2>1. id >= next_id <=> ~(id < next_id)
      BY <1>1, MaxSubmitsAssumption DEF HandleInv, TypeOK, JobIds
    <2>2. \A type \in {"Submit", "Admitted"} : WaitsAs(type, id) =>
            id < next_id /\ id \notin DOMAIN jobs
      BY <1>1 DEF WaitsAs, StartInv, StartTypes, OnItsWay
    <2>3. ~(WaitsAs("Submit", id) /\ WaitsAs("Admitted", id))
      BY <1>1, OneStart
      DEF WaitsAs, Waiting, StartInv, StartTypes, HandleInv, TypeOK
    <2>4. id \in DOMAIN jobs => id < next_id
      BY <1>1 DEF StartInv
    <2> QED
      BY <2>1, <2>2, <2>3, <2>4 DEF OneCase
  <1>2. ASSUME HandleInv', StartInv', NEW id \in JobIds PROVE OneCase(id)'
    <2>1. id >= next_id' <=> ~(id < next_id')
      BY <1>2, MaxSubmitsAssumption DEF HandleInv, TypeOK, JobIds
    <2>2. \A type \in {"Submit", "Admitted"} : WaitsAs(type, id)' =>
            id < next_id' /\ id \notin DOMAIN jobs'
      BY <1>2 DEF WaitsAs, StartInv, StartTypes, OnItsWay
    <2>3. ~(WaitsAs("Submit", id)' /\ WaitsAs("Admitted", id)')
      BY <1>2, OneStart
      DEF WaitsAs, Waiting, StartInv, StartTypes, HandleInv, TypeOK
    <2>4. id \in DOMAIN jobs' => id < next_id'
      BY <1>2 DEF StartInv
    <2> QED
      BY <2>1, <2>2, <2>3, <2>4 DEF OneCase
  <1> QED
    BY <1>1, <1>2

\* Stage, a case at a time.
StageRule(id) ==
  /\ id >= next_id => Stage(id) = "none"
  /\ WaitsAs("Submit", id) => Stage(id) = "asked"
  /\ WaitsAs("Admitted", id) => Stage(id) = "admitted"
  /\ HasProcess(id) => Stage(id) = "running"
  /\ id \in DOMAIN jobs /\ ~HasProcess(id) =>
       Stage(id) = IF lifecycle[id] = "Finished" THEN "failed" ELSE "admitted"
  /\ (/\ ~(id >= next_id) /\ id \notin DOMAIN jobs
      /\ ~WaitsAs("Submit", id) /\ ~WaitsAs("Admitted", id)) =>
       Stage(id) = IF HasChild(id) THEN "retired" ELSE "rejected"

LEMMA StageRules ==
  /\ HandleInv /\ StartInv => \A id \in JobIds : StageRule(id)
  /\ HandleInv' /\ StartInv' => \A id \in JobIds : StageRule(id)'
  <1>1. ASSUME HandleInv, StartInv, NEW id \in JobIds PROVE StageRule(id)
    <2>1. /\ Queued("Submit", id) <=> WaitsAs("Submit", id)
          /\ Queued("Admitted", id) <=> WaitsAs("Admitted", id)
      BY <1>1, QueuedWaits
    <2>2. OneCase(id) /\ (HasProcess(id) => id \in DOMAIN jobs)
      BY <1>1, CasesExclude DEF HasProcess
    <2> QED
      BY <2>1, <2>2 DEF StageRule, Stage, OneCase
  <1>2. ASSUME HandleInv', StartInv', NEW id \in JobIds PROVE StageRule(id)'
    <2>1. /\ Queued("Submit", id)' <=> WaitsAs("Submit", id)'
          /\ Queued("Admitted", id)' <=> WaitsAs("Admitted", id)'
      BY <1>2, QueuedWaits
    <2>2. OneCase(id)' /\ (HasProcess(id)' => id \in DOMAIN jobs')
      BY <1>2, CasesExclude DEF HasProcess
    <2> QED
      BY <2>1, <2>2 DEF StageRule, Stage, OneCase
  <1> QED
    BY <1>1, <1>2

\* What a job's stage is read from.
StageSourceKept(id) ==
  /\ id >= next_id <=> id >= next_id'
  /\ \A type \in {"Submit", "Admitted"} : WaitsAs(type, id)' <=> WaitsAs(type, id)
  /\ id \in DOMAIN jobs' <=> id \in DOMAIN jobs
  /\ HasProcess(id)' <=> HasProcess(id)
  /\ id \in DOMAIN jobs /\ ~HasProcess(id) => lifecycle'[id] = lifecycle[id]
  /\ HasChild(id)' <=> HasChild(id)

LEMMA StageKept ==
  ASSUME HandleInv, HandleInv', NEW id \in JobIds, StageSourceKept(id)
  PROVE  Stage(id)' = Stage(id)
  <1>1. \A type \in {"Submit", "Admitted"} : Queued(type, id)' <=> Queued(type, id)
    BY QueuedWaits DEF StageSourceKept
  <1> QED
    BY <1>1 DEF StageSourceKept, Stage

StagesKept == \A id \in JobIds : Stage(id)' = Stage(id)

Moves(j, from, to) ==
  /\ Stage(j) = from
  /\ Stage(j)' = to
  /\ \A id \in JobIds : id # j => Stage(id)' = Stage(id)

\* A step that takes no submission or admission and changes no job or child.
CalmStep ==
  /\ UNCHANGED <<next_id, jobs, lifecycle, processes>>
  /\ \A a \in Action : a.type \in {"Submit", "Admitted"} =>
       (a \in Waiting' <=> a \in Waiting)
  /\ Waiting \subseteq Action /\ Waiting' \subseteq Action

LEMMA CalmStages ==
  ASSUME HandleInv, HandleInv', CalmStep PROVE StagesKept
  <1>1. ASSUME NEW id \in JobIds PROVE StageSourceKept(id)
    <2>1. \A type \in {"Submit", "Admitted"} : WaitsAs(type, id)' <=> WaitsAs(type, id)
      BY DEF CalmStep, WaitsAs
    <2>2. UNCHANGED <<next_id, jobs, lifecycle, processes>>
      BY DEF CalmStep
    <2>3. (HasProcess(id)' <=> HasProcess(id)) /\ (HasChild(id)' <=> HasChild(id))
      BY <2>2 DEF HasProcess, HasChild
    <2> QED
      BY <2>1, <2>2, <2>3 DEF StageSourceKept
  <1> QED
    BY <1>1, StageKept DEF StagesKept

LEMMA JoinsWaiting ==
  ASSUME QueueOK, NEW a \in Action, queue' = Append(queue, a)
  PROVE  Waiting' = Waiting \cup {a}
  <1>1. <<a>> \in Seq(Action) /\ Items(<<a>>) = {a} /\ queue' = queue \o <<a>>
    BY ItemsOf, AppendIsConcat DEF QueueOK
  <1>2. Items(queue \o <<a>>) = Items(queue) \cup Items(<<a>>)
    <2>1. queue \in Seq(Action)
      BY DEF QueueOK
    <2> QED
      BY <1>1, <2>1, JoinItems, ZenonT(60)
  <1> QED
    BY <1>1, <1>2 DEF Waiting

LEMMA SubmitStages ==
  ASSUME HandleInv, HandleInv', StartInv, StartInv',
         NEW timeout \in Timeouts, RequestSubmit(timeout),
         NEW j \in JobIds, j = next_id
  PROVE  Moves(j, "none", "asked")
  <1> DEFINE s == Submission(timeout)
  <1>1. /\ next_id' = j + 1
        /\ s.type = "Submit" /\ s.id = j
        /\ UNCHANGED <<jobs, lifecycle, processes>>
    BY SubmitEffect
  <1>2. Waiting' = Waiting \cup {s}
    <2>1. QueueOK /\ s \in Action
      BY SubmitEffect, TypeParts DEF HandleInv
    <2>2. queue' = Append(queue, s)
      BY DEF RequestSubmit, AddRequest, Submission
    <2> HIDE DEF s
    <2> QED
      BY <2>1, <2>2, JoinsWaiting
  <1> HIDE DEF s
  <1>3. /\ next_id \in Nat /\ \A id \in JobIds : id \in Nat
        /\ j < next_id' /\ j >= next_id
    BY <1>1, MaxSubmitsAssumption DEF HandleInv, TypeOK, JobIds
  <1>4. Stage(j) = "none"
    BY <1>3, StageRules DEF StageRule
  <1>5. Stage(j)' = "asked"
    <2>1. WaitsAs("Submit", j)'
      BY <1>1, <1>2 DEF WaitsAs
    <2> QED
      BY <1>3, <2>1, StageRules DEF StageRule
  <1>6. ASSUME NEW id \in JobIds, id # j PROVE Stage(id)' = Stage(id)
    <2>1. id >= next_id <=> id >= next_id'
      BY <1>1, <1>3, <1>6
    <2>2. \A type : WaitsAs(type, id)' <=> WaitsAs(type, id)
      BY <1>1, <1>2, <1>6 DEF WaitsAs
    <2> QED
      BY <1>1, <2>1, <2>2, StageKept DEF StageSourceKept, HasProcess, HasChild
  <1> QED
    BY <1>4, <1>5, <1>6 DEF Moves

\* What waits of the job that is asked for or admitted at the head.
LEMMA HeadOnItsWay ==
  ASSUME HandleInv, StartInv, queue # <<>>,
         Head(queue).type \in {"Submit", "Admitted"}
  PROVE  /\ HeadId \in JobIds /\ HeadId < next_id
         /\ Waiting = {Head(queue)} \cup Rest /\ Waiting \subseteq Action
         /\ \A b \in Rest : b.type \in StartTypes => b.id # HeadId
         /\ HeadId \notin DOMAIN jobs /\ ~HasChild(HeadId)
         /\ ~HasProcess(HeadId)
  <1>1. queue \in Seq(Action) /\ QueueOK
    BY TypeParts DEF HandleInv, TypeOK
  <1>2. /\ Waiting \subseteq Action
        /\ Waiting = {Head(queue)} \cup Rest
        /\ Head(queue) \in Action
    BY <1>1, HeadItems, ItemsType DEF Waiting, Rest
  <1>3. \A b \in Rest : b.type \in StartTypes => b.id # HeadId
    <2>1. \A b \in Rest : <<Head(queue), b>> \notin TwoStarts
      BY <1>1, HeadClash DEF StartInv
    <2> QED
      BY <1>2, <2>1, TwoStartsPair DEF StartTypes, HeadId
  <1>4. OnItsWay(Head(queue)) /\ HeadId \in JobIds
    BY <1>2, Carried DEF StartInv, StartTypes, HeadId
  <1> QED
    BY <1>2, <1>3, <1>4 DEF OnItsWay, HeadId, HasProcess

LEMMA AdmitStages ==
  ASSUME HandleInv, HandleInv', StartInv, StartInv', HandleSubmit, ~AtLimit,
         NEW j \in JobIds, j = HeadId
  PROVE  Moves(j, "asked", "admitted")
  <1>1. /\ Head(queue).type = "Submit" /\ queue # <<>>
        /\ Admission.type = "Admitted" /\ Admission.id = j
        /\ Waiting' = Rest \cup {Admission}
        /\ UNCHANGED <<next_id, jobs, lifecycle, processes>>
    BY AdmitEffect
  <1>2. /\ j < next_id
        /\ Waiting = {Head(queue)} \cup Rest /\ Head(queue).id = j
        /\ \A b \in Rest : b.type \in StartTypes => b.id # j
    BY <1>1, HeadOnItsWay DEF HeadId
  <1>3. Stage(j) = "asked"
    <2>1. WaitsAs("Submit", j)
      BY <1>1, <1>2 DEF WaitsAs
    <2> QED
      BY <1>2, <2>1, StageRules DEF StageRule
  <1>4. Stage(j)' = "admitted"
    <2>1. ~WaitsAs("Submit", j)' /\ WaitsAs("Admitted", j)'
      BY <1>1, <1>2 DEF WaitsAs, StartTypes
    <2> QED
      BY <1>1, <1>2, <2>1, StageRules DEF StageRule
  <1>5. ASSUME NEW id \in JobIds, id # j PROVE Stage(id)' = Stage(id)
    <2>1. \A type : WaitsAs(type, id)' <=> WaitsAs(type, id)
      BY <1>1, <1>2, <1>5 DEF WaitsAs
    <2> QED
      BY <1>1, <2>1, StageKept DEF StageSourceKept, HasProcess, HasChild
  <1> QED
    BY <1>3, <1>4, <1>5 DEF Moves

LEMMA RejectStages ==
  ASSUME HandleInv, HandleInv', StartInv, StartInv', HandleSubmit, AtLimit,
         NEW j \in JobIds, j = HeadId
  PROVE  Moves(j, "asked", "rejected")
  <1>1. /\ Head(queue).type = "Submit" /\ queue # <<>> /\ QueueOK
        /\ UNCHANGED <<next_id, jobs, lifecycle, processes>>
    BY TypeParts
    DEF HandleSubmit, Popped, loopVars, stateVars, executorVars, HandleInv
  <1>2. /\ j < next_id
        /\ Waiting = {Head(queue)} \cup Rest /\ Head(queue).id = j
        /\ \A b \in Rest : b.type \in StartTypes => b.id # j
        /\ j \notin DOMAIN jobs /\ ~HasChild(j)
    BY <1>1, HeadOnItsWay DEF HeadId
  <1>3. PICK a \in Action : a.type = "Rejected" /\ Waiting' = Rest \cup {a}
    <2>1. PICK a \in Action : a = Refusal /\ a.type = "Rejected"
      BY <1>1, HeadOnItsWay, Constructors DEF SimpleTypes, Simple, Refusal
    <2>2. Emit(<<a>>)
      BY <2>1 DEF HandleSubmit, Refusal
    <2>3. <<a>> \in Seq(Action) /\ Items(<<a>>) = {a}
      BY ItemsOf
    <2> QED
      BY <1>1, <2>1, <2>2, <2>3, TurnItems
  <1>4. Stage(j) = "asked"
    <2>1. WaitsAs("Submit", j)
      BY <1>1, <1>2 DEF WaitsAs
    <2> QED
      BY <2>1, StageRules DEF StageRule
  <1>5. Stage(j)' = "rejected"
    <2>1. ~WaitsAs("Submit", j)' /\ ~WaitsAs("Admitted", j)'
      BY <1>2, <1>3 DEF WaitsAs, StartTypes
    <2>2. ~(j >= next_id') /\ j \notin DOMAIN jobs' /\ ~HasChild(j)'
      BY <1>1, <1>2, MaxSubmitsAssumption
      DEF HandleInv, TypeOK, JobIds, HasChild
    <2> QED
      BY <2>1, <2>2, StageRules DEF StageRule
  <1>6. ASSUME NEW id \in JobIds, id # j PROVE Stage(id)' = Stage(id)
    <2>1. \A type \in {"Submit", "Admitted"} : WaitsAs(type, id)' <=> WaitsAs(type, id)
      BY <1>2, <1>3, <1>6 DEF WaitsAs
    <2> QED
      BY <1>1, <2>1, StageKept DEF StageSourceKept, HasProcess, HasChild
  <1> QED
    BY <1>4, <1>5, <1>6 DEF Moves

\* The job that is made was admitted already.
LEMMA AdmittedStages ==
  ASSUME HandleInv, HandleInv', StartInv, StartInv', JobsKnown, HandleAdmitted
  PROVE  StagesKept
  <1>1. PICK j \in JobIds : j = HeadId
    BY AdmittedEffect
  <1>2. /\ Head(queue).type = "Admitted" /\ queue # <<>>
        /\ Waiting' = Rest \cup {Start} /\ Start.type = "StartProcess"
        /\ DOMAIN jobs' = DOMAIN jobs \cup {j}
        /\ jobs'[j].process = NoHandle
        /\ \A id \in DOMAIN jobs : id # j => jobs'[id] = jobs[id]
        /\ lifecycle'[j] = "Admitted"
        /\ \A id \in DOMAIN lifecycle : id # j => lifecycle'[id] = lifecycle[id]
        /\ UNCHANGED <<next_id, processes>>
    BY <1>1, AdmittedEffect
  <1>3. /\ j < next_id
        /\ Waiting = {Head(queue)} \cup Rest /\ Head(queue).id = j
        /\ \A b \in Rest : b.type \in StartTypes => b.id # j
    BY <1>1, <1>2, HeadOnItsWay DEF HeadId
  <1>4. Stage(j) = "admitted"
    <2>1. WaitsAs("Admitted", j)
      BY <1>2, <1>3 DEF WaitsAs
    <2> QED
      BY <2>1, StageRules DEF StageRule
  <1>5. Stage(j)' = "admitted"
    <2>1. j \in DOMAIN jobs' /\ ~HasProcess(j)' /\ lifecycle'[j] # "Finished"
      BY <1>2 DEF HasProcess
    <2> QED
      BY <2>1, StageRules DEF StageRule
  <1>6. ASSUME NEW id \in JobIds, id # j PROVE Stage(id)' = Stage(id)
    <2>1. \A type \in {"Submit", "Admitted"} : WaitsAs(type, id)' <=> WaitsAs(type, id)
      BY <1>2, <1>3, <1>6 DEF WaitsAs
    <2>2. id \in DOMAIN jobs /\ ~HasProcess(id) => id \in DOMAIN lifecycle
      BY DEF JobsKnown
    <2> QED
      BY <1>2, <1>6, <2>1, <2>2, StageKept
      DEF StageSourceKept, HasProcess, HasChild
  <1> QED
    BY <1>4, <1>5, <1>6 DEF StagesKept

\* Quiet steps, but for a submission that is turned away.
LEMMA QuietStages ==
  ASSUME HandleInv, HandleInv', QuietStep, ~(HandleSubmit /\ AtLimit)
  PROVE  StagesKept
  <1>1. UNCHANGED <<next_id, jobs, lifecycle, processes>>
    BY DEF QuietStep, Kept
  <1>2. Stay("Admitted") /\ Stay("Submit")
    BY DEF QuietStep
  <1>3. /\ Waiting' \subseteq Action
        /\ \A a \in Waiting' : a.type \in {"Submit", "Admitted"} => a \in Waiting
    BY QuietItems DEF QuietTypes
  <1>4. Waiting \subseteq Action
    BY ItemsType DEF HandleInv, TypeOK, Waiting
  <1> QED
    BY <1>1, <1>2, <1>3, <1>4, CalmStages DEF CalmStep, Stay

LEMMA SignalStages ==
  ASSUME HandleInv, HandleInv', SignalStep PROVE StagesKept
  <1>1. UNCHANGED <<next_id, jobs, lifecycle, processes>>
    BY DEF SignalStep, Kept
  <1>2. Head(queue).type \notin {"Submit", "Admitted"}
    BY DEF SignalStep, Popped
  <1>3. PICK signal \in Signals :
          \A a \in Waiting' : \/ a \in Rest
                              \/ a = Order(signal)
                              \/ a.type = "Controlled"
    BY SignalItems
  <1>4. Order(signal).type = "SignalProcess"
    BY DEF Order, Signal
  <1>5. /\ Waiting \subseteq Action /\ Waiting' \subseteq Action
        /\ Waiting = {Head(queue)} \cup Rest /\ Rest \subseteq Waiting'
    BY SignalItems
  <1> QED
    BY <1>1, <1>2, <1>3, <1>4, <1>5, CalmStages DEF CalmStep

LEMMA PollRequestStages ==
  ASSUME HandleInv, HandleInv', NEW id \in JobIds, RequestPoll(id)
  PROVE  StagesKept
  <1>1. PICK a \in Action : a.type = "PollProcess" /\ queue' = Append(queue, a)
    BY PollRequested DEF RequestPoll, RequestOther, AddRequest
  <1>2. QueueOK /\ Waiting \subseteq Action
    BY TypeParts, ItemsType DEF HandleInv, TypeOK, Waiting
  <1>3. Waiting' = Waiting \cup {a}
    BY <1>1, <1>2, JoinsWaiting
  <1>4. UNCHANGED <<next_id, jobs, lifecycle, processes>>
    BY PollRequested DEF Kept
  <1> QED
    BY <1>1, <1>2, <1>3, <1>4, CalmStages DEF CalmStep

\* What waits of a job whose child is started, and which stage it has.
LEMMA StartHead ==
  ASSUME HandleInv, StartInv, HandleStartProcess,
         NEW actions \in Seq(Action), Emit(actions),
         \A b \in Items(actions) : b.type \notin {"Submit", "Admitted"},
         NEW j \in JobIds, j = HeadId
  PROVE  /\ j \in DOMAIN jobs /\ ~HasProcess(j) /\ j < next_id
         /\ Stage(j) = "admitted"
         /\ \A type \in {"Submit", "Admitted"}, id \in JobIds :
              WaitsAs(type, id)' <=> WaitsAs(type, id)
  <1>1. /\ QueueOK /\ queue # <<>> /\ Head(queue).type = "StartProcess"
        /\ j \in DOMAIN jobs /\ jobs[j].process = NoHandle
        /\ lifecycle[j] = "Admitted" /\ j < next_id
    BY StartTurn
  <1>2. ~HasProcess(j)
    BY <1>1 DEF HasProcess
  <1>3. Stage(j) = "admitted"
    BY <1>1, <1>2, StageRules DEF StageRule
  <1>4. Waiting = {Head(queue)} \cup Rest /\ Waiting' = Rest \cup Items(actions)
    BY <1>1, TurnItems
  <1> QED
    BY <1>1, <1>2, <1>3, <1>4 DEF WaitsAs

LEMMA SpawnStages ==
  ASSUME HandleInv, HandleInv', StartInv, StartInv', JobsKnown,
         HandleStartProcess, SpawnSucceeds(HeadId), NEW j \in JobIds, j = HeadId
  PROVE  Moves(j, "admitted", "running")
  <1>1. /\ DOMAIN processes' = DOMAIN processes \cup {next_handle}
        /\ next_handle \notin DOMAIN processes /\ next_handle # NoHandle
        /\ processes'[next_handle].job = j
        /\ \A h \in DOMAIN processes : processes'[h] = processes[h]
        /\ DOMAIN jobs' = DOMAIN jobs
        /\ jobs'[j].process = next_handle
        /\ \A id \in DOMAIN jobs : id # j => jobs'[id] = jobs[id]
        /\ lifecycle' = Insert(lifecycle, j, "Running")
        /\ next_id' = next_id
        /\ Emit(StartedActions(j))
    BY SpawnEffect
  <1>2. /\ j \in DOMAIN jobs /\ Stage(j) = "admitted"
        /\ \A type \in {"Submit", "Admitted"}, id \in JobIds :
             WaitsAs(type, id)' <=> WaitsAs(type, id)
    BY <1>1, StartHead, StartedItems
  <1>3. Stage(j)' = "running"
    <2>1. HasProcess(j)'
      BY <1>1, <1>2 DEF HasProcess
    <2> QED
      BY <2>1, StageRules DEF StageRule
  <1>4. ASSUME NEW id \in JobIds, id # j PROVE Stage(id)' = Stage(id)
    <2>1. id \in DOMAIN jobs => lifecycle'[id] = lifecycle[id]
      BY <1>1, <1>4 DEF Insert, JobsKnown
    <2>2. HasProcess(id)' <=> HasProcess(id)
      BY <1>1, <1>4 DEF HasProcess
    <2>3. HasChild(id)' <=> HasChild(id)
      BY <1>1, <1>4 DEF HasChild
    <2> QED
      BY <1>1, <1>2, <1>4, <2>1, <2>2, <2>3, StageKept DEF StageSourceKept
  <1> QED
    BY <1>2, <1>3, <1>4 DEF Moves

LEMMA RefusalStages ==
  ASSUME HandleInv, HandleInv', StartInv, StartInv', JobsKnown,
         HandleStartProcess, SpawnFails(HeadId), NEW j \in JobIds, j = HeadId
  PROVE  Moves(j, "admitted", "failed")
  <1>1. /\ Refusal \in Action /\ Refusal.type = "Rejected"
        /\ Items(<<Refusal>>) = {Refusal} /\ Emit(<<Refusal>>)
        /\ lifecycle' = Insert(lifecycle, j, "Finished")
        /\ UNCHANGED <<next_id, jobs, processes>>
    BY RefusalEffect
  <1>2. /\ j \in DOMAIN jobs /\ ~HasProcess(j) /\ Stage(j) = "admitted"
        /\ \A type \in {"Submit", "Admitted"}, id \in JobIds :
             WaitsAs(type, id)' <=> WaitsAs(type, id)
    <2>1. <<Refusal>> \in Seq(Action)
      BY <1>1
    <2> QED
      BY <1>1, <2>1, StartHead
  <1>3. Stage(j)' = "failed"
    <2>1. j \in DOMAIN jobs' /\ ~HasProcess(j)' /\ lifecycle'[j] = "Finished"
      BY <1>1, <1>2 DEF HasProcess, Insert
    <2> QED
      BY <2>1, StageRules DEF StageRule
  <1>4. ASSUME NEW id \in JobIds, id # j PROVE Stage(id)' = Stage(id)
    <2>1. id \in DOMAIN jobs => lifecycle'[id] = lifecycle[id]
      BY <1>1, <1>4 DEF Insert, JobsKnown
    <2> QED
      BY <1>1, <1>2, <1>4, <2>1, StageKept
      DEF StageSourceKept, HasProcess, HasChild
  <1> QED
    BY <1>2, <1>3, <1>4 DEF Moves

\* A signal goes to a job that runs, if to any.
LEMMA SignalledStages ==
  ASSUME HandleInv, HandleInv', StartInv, JobsKnown, HandleSignalProcess
  PROVE  StagesKept
  <1>1. /\ DOMAIN jobs' = DOMAIN jobs
        /\ \A id \in DOMAIN jobs :
             /\ jobs'[id].process = jobs[id].process
             /\ id = HeadId => HasProcess(id)
        /\ DOMAIN processes' = DOMAIN processes
        /\ \A h \in DOMAIN processes : processes'[h].job = processes[h].job
        /\ next_id' = next_id
        /\ HeadId \notin DOMAIN jobs => UNCHANGED lifecycle
        /\ \E stage : HeadId \in DOMAIN jobs =>
             lifecycle' = Insert(lifecycle, HeadId, stage)
    BY SignalEffect
  <1>2. /\ Head(queue).type = "SignalProcess"
        /\ Waiting = {Head(queue)} \cup Rest /\ Waiting' = Rest
    BY SignalEffect
  <1>3. ASSUME NEW id \in JobIds PROVE StageSourceKept(id)
    <2>1. \A type \in {"Submit", "Admitted"} : WaitsAs(type, id)' <=> WaitsAs(type, id)
      BY <1>2 DEF WaitsAs
    <2>2. HasProcess(id)' <=> HasProcess(id)
      BY <1>1 DEF HasProcess
    <2>3. HasChild(id)' <=> HasChild(id)
      BY <1>1 DEF HasChild
    <2>4. id \in DOMAIN jobs /\ ~HasProcess(id) => lifecycle'[id] = lifecycle[id]
      BY <1>1 DEF Insert, JobsKnown
    <2> QED
      BY <1>1, <2>1, <2>2, <2>3, <2>4 DEF StageSourceKept
  <1> QED
    BY <1>3, StageKept DEF StagesKept

LEMMA PolledStages ==
  ASSUME HandleInv, HandleInv', PollEnds PROVE StagesKept
  <1>1. /\ DOMAIN processes' = DOMAIN processes
        /\ \A h \in DOMAIN processes : processes'[h].job = processes[h].job
        /\ UNCHANGED <<next_id, jobs, lifecycle>>
        /\ Head(queue).type = "PollProcess" /\ Exit.type = "Finished"
        /\ Waiting = {Head(queue)} \cup Rest /\ Waiting' = Rest \cup {Exit}
    BY PollEffect DEF Exit
  <1>2. ASSUME NEW id \in JobIds PROVE StageSourceKept(id)
    <2>1. \A type \in {"Submit", "Admitted"} : WaitsAs(type, id)' <=> WaitsAs(type, id)
      BY <1>1 DEF WaitsAs
    <2> QED
      BY <1>1, <2>1 DEF StageSourceKept, HasProcess, HasChild
  <1> QED
    BY <1>2, StageKept DEF StagesKept

LEMMA ExitStages ==
  ASSUME HandleInv, HandleInv', NEW h, ChildExits(h) PROVE StagesKept
  <1>1. /\ DOMAIN processes' = DOMAIN processes
        /\ \A g \in DOMAIN processes : processes'[g].job = processes[g].job
        /\ UNCHANGED <<queue, next_id, jobs, lifecycle>>
    BY ExitEffect
  <1>2. ASSUME NEW id \in JobIds PROVE StageSourceKept(id)
    BY <1>1 DEF StageSourceKept, WaitsAs, Waiting, HasProcess, HasChild
  <1> QED
    BY <1>2, StageKept DEF StagesKept

LEMMA FinishedStages ==
  ASSUME HandleInv, HandleInv', StartInv, StartInv', TruthInv, SlotInv,
         HandleFinished, NEW j \in JobIds, j = HeadId
  PROVE  Moves(j, "running", "retired")
  <1>1. /\ DOMAIN jobs' = DOMAIN jobs \ {j}
        /\ \A id \in DOMAIN jobs' : jobs'[id] = jobs[id]
        /\ UNCHANGED <<next_id, lifecycle, processes>>
        /\ Head(queue).type = "Finished"
        /\ Waiting = {Head(queue)} \cup Rest /\ Waiting' = Rest
    BY FinishedEffect
  <1>2. j \in DOMAIN jobs /\ HasProcess(j)
    BY FinishedResults, HeadIsTrue DEF Ended
  <1>3. HasChild(j)
    BY <1>2, ChildHandle
  <1>4. OneCase(j)
    BY CasesExclude
  <1>5. \A type \in {"Submit", "Admitted"}, id \in JobIds :
          WaitsAs(type, id)' <=> WaitsAs(type, id)
    BY <1>1 DEF WaitsAs
  <1>6. Stage(j) = "running"
    BY <1>2, StageRules DEF StageRule
  <1>7. Stage(j)' = "retired"
    <2>1. /\ ~(j >= next_id') /\ j \notin DOMAIN jobs'
          /\ ~WaitsAs("Submit", j)' /\ ~WaitsAs("Admitted", j)'
          /\ HasChild(j)'
      BY <1>1, <1>2, <1>3, <1>4, <1>5 DEF OneCase, HasChild
    <2> QED
      BY <2>1, StageRules DEF StageRule
  <1>8. ASSUME NEW id \in JobIds, id # j PROVE Stage(id)' = Stage(id)
    BY <1>1, <1>5, <1>8, StageKept DEF StageSourceKept, HasProcess, HasChild
  <1> QED
    BY <1>6, <1>7, <1>8 DEF Moves

-----------------------------------------------------------------------------
(***************************************************************************)
(* The service's variables.                                                *)
(***************************************************************************)

LEMMA StageMoves ==
  ASSUME NEW j \in JobIds, NEW from, NEW to, Moves(j, from, to)
  PROVE  Service!Move(j, from, to)
  BY DEF Moves, Service!Move, Stages

LEMMA StagesStay == ASSUME StagesKept PROVE Stages' = Stages
  BY DEF StagesKept, Stages

LEMMA ChildIsOnly ==
  /\ OneChild => \A h \in DOMAIN processes : ChildOf(processes[h].job) = h
  /\ OneChild' => \A h \in DOMAIN processes' : ChildOf(processes[h].job)' = h
  BY DEF OneChild, ChildOf

\* What each child that has ended ended with.
LEMMA EndingsAre ==
  /\ OneChild =>
       /\ DOMAIN Endings = {processes[h].job : h \in EndedChildren}
       /\ \A h \in EndedChildren :
            Endings[processes[h].job] = processes[h].status
  /\ OneChild' =>
       /\ DOMAIN Endings' = {processes'[h].job : h \in EndedChildren'}
       /\ \A h \in EndedChildren' :
            Endings'[processes'[h].job] = processes'[h].status
  BY ChildIsOnly DEF Endings, EndedJobs, EndedChildren

LEMMA EndingsStay ==
  ASSUME OneChild, OneChild', EndedChildren' = EndedChildren,
         \A h \in EndedChildren :
           /\ processes'[h].job = processes[h].job
           /\ processes'[h].status = processes[h].status
  PROVE  Endings' = Endings
  <1>1. DOMAIN Endings' = DOMAIN Endings
    BY EndingsAre
  <1>2. ASSUME NEW id \in DOMAIN Endings PROVE Endings'[id] = Endings[id]
    <2>1. PICK h \in EndedChildren : id = processes[h].job
      BY EndingsAre
    <2> QED
      BY <2>1, EndingsAre
  <1> QED
    BY <1>1, <1>2 DEF Endings

\* No child ends or is told to stop.
LEMMA SameChildren ==
  ASSUME OneChild, OneChild',
         DOMAIN processes' = DOMAIN processes,
         \A h \in DOMAIN processes :
           /\ processes'[h].job = processes[h].job
           /\ processes'[h].state # "running" <=> processes[h].state # "running"
           /\ processes'[h].status = processes[h].status
  PROVE  /\ Endings' = Endings
         /\ (\A h \in DOMAIN processes : processes'[h].sig = processes[h].sig)
              => ToldJobs' = ToldJobs
  <1>1. EndedChildren' = EndedChildren
    BY DEF EndedChildren
  <1>2. Endings' = Endings
    BY <1>1, EndingsStay DEF EndedChildren
  <1>3. ASSUME \A h \in DOMAIN processes : processes'[h].sig = processes[h].sig
        PROVE  ToldJobs' = ToldJobs
    BY <1>3 DEF ToldJobs
  <1> QED
    BY <1>2, <1>3

LEMMA SpawnChildren ==
  ASSUME HandleInv, StartInv, OneChild, OneChild', HandleStartProcess,
         SpawnSucceeds(HeadId)
  PROVE  UNCHANGED <<Endings, ToldJobs>>
  <1>1. /\ next_handle \notin DOMAIN processes
        /\ DOMAIN processes' = DOMAIN processes \cup {next_handle}
        /\ processes'[next_handle].state = "running"
        /\ processes'[next_handle].sig = "none"
        /\ \A h \in DOMAIN processes : processes'[h] = processes[h]
    BY SpawnEffect
  <1>2. EndedChildren' = EndedChildren
    BY <1>1 DEF EndedChildren
  <1>3. Endings' = Endings
    BY <1>1, <1>2, EndingsStay DEF EndedChildren
  <1>4. ToldJobs' = ToldJobs
    <2>1. {h \in DOMAIN processes' : processes'[h].sig # "none"}
            = {h \in DOMAIN processes : processes[h].sig # "none"}
      BY <1>1
    <2> QED
      BY <1>1, <2>1 DEF ToldJobs
  <1> QED
    BY <1>3, <1>4

\* A signal adds its job to those that were told.
LEMMA SignalledChildren ==
  ASSUME HandleInv, StartInv, OneChild, OneChild', HandleSignalProcess
  PROVE  /\ Endings' = Endings
         /\ HeadId \in DOMAIN jobs => ToldJobs' = ToldJobs \cup {HeadId}
         /\ HeadId \notin DOMAIN jobs => ToldJobs' = ToldJobs
  <1>1. /\ DOMAIN processes' = DOMAIN processes
        /\ \A h \in DOMAIN processes :
             /\ processes'[h].job = processes[h].job
             /\ processes'[h].state = processes[h].state
             /\ processes'[h].status = processes[h].status
        /\ HeadId \notin DOMAIN jobs => UNCHANGED processes
    BY SignalEffect
  <1>2. Endings' = Endings
    BY <1>1, SameChildren
  <1>3. ASSUME HeadId \in DOMAIN jobs PROVE ToldJobs' = ToldJobs \cup {HeadId}
    <2>1. PICK p : p = jobs[HeadId].process
      OBVIOUS
    <2>2. p \in DOMAIN processes /\ processes[p].job = HeadId
      BY <1>3, <2>1, SignalEffect, ChildOfJob
    <2>3. /\ processes'[p].sig # "none"
          /\ \A h \in DOMAIN processes : h # p => processes'[h] = processes[h]
      BY <1>3, <2>1, <2>2, SignalEffect
    <2>4. {h \in DOMAIN processes' : processes'[h].sig # "none"}
            = {h \in DOMAIN processes : processes[h].sig # "none"} \cup {p}
      BY <1>1, <2>2, <2>3
    <2> QED
      BY <1>1, <2>2, <2>4 DEF ToldJobs
  <1>4. HeadId \notin DOMAIN jobs => ToldJobs' = ToldJobs
    BY <1>1 DEF ToldJobs
  <1> QED
    BY <1>2, <1>3, <1>4

LEMMA PolledChildren ==
  ASSUME HandleInv, OneChild, OneChild', PollEnds
  PROVE  UNCHANGED <<Endings, ToldJobs>>
  <1>1. /\ DOMAIN processes' = DOMAIN processes
        /\ jobs[HeadId].process \in DOMAIN processes
        /\ processes'[jobs[HeadId].process].state = "reaped"
        /\ \A h \in DOMAIN processes :
             /\ processes'[h].job = processes[h].job
             /\ processes'[h].status = processes[h].status
             /\ processes'[h].sig = processes[h].sig
             /\ h # jobs[HeadId].process => processes'[h] = processes[h]
    BY PollEffect
  <1>2. processes[jobs[HeadId].process].state # "running"
    BY DEF PollEnds, Child
  <1> QED
    BY <1>1, <1>2, SameChildren

\* The child that ends is a running job's, and had not ended before.
LEMMA ExitChildren ==
  ASSUME HandleInv, StartInv, TruthInv, OneChild, OneChild', NEW h, ChildExits(h)
  PROVE  \E j \in JobIds, status \in Statuses :
           /\ j = processes[h].job /\ HasProcess(j)
           /\ j \notin DOMAIN Endings
           /\ Endings' = [i \in DOMAIN Endings \cup {j} |->
                            IF i = j THEN status ELSE Endings[i]]
           /\ ToldJobs' = ToldJobs
  <1>1. /\ h \in DOMAIN processes /\ processes[h].state = "running"
        /\ DOMAIN processes' = DOMAIN processes
        /\ processes'[h].state = "zombie"
        /\ \A g \in DOMAIN processes :
             /\ processes'[g].job = processes[g].job
             /\ processes'[g].sig = processes[g].sig
             /\ g # h => processes'[g] = processes[g]
    BY ExitEffect
  <1>2. processes[h] \in Process
    BY <1>1, ChildType
  <1>3. PICK status \in EndStatuses :
          processes' = [processes EXCEPT ![h].state = "zombie",
                                         ![h].status = status]
    BY DEF ChildExits
  <1>4. processes'[h].status = status
    BY <1>1, <1>2, <1>3 DEF Process
  <1>5. status \in Statuses
    BY <1>3 DEF Statuses
  <1>6. PICK j \in JobIds : j = processes[h].job
    BY <1>2 DEF Process
  <1>7. HasProcess(j)
    <2>1. j \in DOMAIN jobs
      BY <1>1, <1>6 DEF TruthInv
    <2>2. HasChild(j)
      BY <1>1, <1>6 DEF HasChild
    <2> QED
      BY <2>1, <2>2, ChildHandle
  <1>8. j \notin DOMAIN Endings
    BY <1>1, <1>6, EndingsAre DEF OneChild, EndedChildren
  <1>9. EndedChildren' = EndedChildren \cup {h}
    BY <1>1 DEF EndedChildren
  <1>10. Endings' = [i \in DOMAIN Endings \cup {j} |->
                       IF i = j THEN status ELSE Endings[i]]
    <2> DEFINE f == [i \in DOMAIN Endings \cup {j} |->
                       IF i = j THEN status ELSE Endings[i]]
    <2>1. DOMAIN Endings' = DOMAIN Endings \cup {j}
      BY <1>1, <1>6, <1>9, EndingsAre DEF EndedChildren
    <2>2. Endings'[j] = status
      BY <1>1, <1>4, <1>6, <1>9, EndingsAre
    <2>3. ASSUME NEW i \in DOMAIN Endings PROVE Endings'[i] = Endings[i]
      <3>1. PICK g \in EndedChildren : i = processes[g].job
        BY EndingsAre
      <3>2. g \in DOMAIN processes /\ g # h
        BY <1>1, <3>1 DEF EndedChildren
      <3> QED
        BY <1>1, <1>9, <3>1, <3>2, EndingsAre
    <2>4. DOMAIN f = DOMAIN Endings' /\ \A i \in DOMAIN f : f[i] = Endings'[i]
      BY <1>8, <2>1, <2>2, <2>3
    <2> HIDE DEF f
    <2>5. f = [i \in DOMAIN f |-> f[i]] /\ Endings' = [i \in DOMAIN Endings' |-> Endings'[i]]
      BY DEF f, Endings
    <2> QED
      BY <2>4, <2>5 DEF f
  <1>11. ToldJobs' = ToldJobs
    BY <1>1 DEF ToldJobs
  <1> QED
    BY <1>5, <1>6, <1>7, <1>8, <1>10, <1>11

\* The result that is kept of each job.
LEMMA ResultsAre ==
  /\ results \in Seq(Result) /\ Apart(results) =>
       /\ DOMAIN KeptResults = {results[i].id : i \in 1..Len(results)}
       /\ \A i \in 1..Len(results) :
            KeptResults[results[i].id] = results[i].result
  /\ results' \in Seq(Result) /\ Apart(results') =>
       /\ DOMAIN KeptResults' = {results'[i].id : i \in 1..Len(results')}
       /\ \A i \in 1..Len(results') :
            KeptResults'[results'[i].id] = results'[i].result
  <1>1. ASSUME results \in Seq(Result), Apart(results)
        PROVE  /\ DOMAIN KeptResults = {results[i].id : i \in 1..Len(results)}
               /\ \A i \in 1..Len(results) :
                    KeptResults[results[i].id] = results[i].result
    <2>1. DOMAIN results = 1..Len(results)
      BY <1>1
    <2>2. \A i \in 1..Len(results) :
            (CHOOSE k \in DOMAIN results : results[k].id = results[i].id) = i
      BY <1>1, <2>1 DEF Apart
    <2> QED
      BY <2>1, <2>2 DEF KeptResults, KeptJobs, ResultOf
  <1>2. ASSUME results' \in Seq(Result), Apart(results')
        PROVE  /\ DOMAIN KeptResults' = {results'[i].id : i \in 1..Len(results')}
               /\ \A i \in 1..Len(results') :
                    KeptResults'[results'[i].id] = results'[i].result
    <2>1. DOMAIN results' = 1..Len(results')
      BY <1>2
    <2>2. \A i \in 1..Len(results') :
            (CHOOSE k \in DOMAIN results' : results'[k].id = results'[i].id) = i
      BY <1>2, <2>1 DEF Apart
    <2> QED
      BY <2>1, <2>2 DEF KeptResults, KeptJobs, ResultOf
  <1> QED
    BY <1>1, <1>2

\* A query takes the result of its job, if there is one.
LEMMA QueryResults ==
  ASSUME HandleInv, Apart(results), Apart(results'), HandleQuery
  PROVE  /\ HasResult(HeadId) =>
              /\ HeadId \in JobIds /\ HeadId \in DOMAIN KeptResults
              /\ KeptResults' =
                   [i \in DOMAIN KeptResults \ {HeadId} |-> KeptResults[i]]
         /\ ~HasResult(HeadId) => KeptResults' = KeptResults
  <1>1. results' = OtherResults(HeadId) /\ results \in Seq(Result)
    BY DEF HandleQuery, HandleInv, TypeOK, Result
  <1>2. ASSUME ~HasResult(HeadId) PROVE KeptResults' = KeptResults
    BY <1>1, <1>2 DEF OtherResults, KeptResults, KeptJobs, ResultOf
  <1>3. HeadId \in JobIds
    BY HeadType, TypeParts DEF HandleQuery, HandleInv, Popped
  <1>4. ASSUME HasResult(HeadId)
        PROVE  /\ HeadId \in DOMAIN KeptResults
               /\ KeptResults' =
                    [i \in DOMAIN KeptResults \ {HeadId} |-> KeptResults[i]]
    <2>1. /\ results' \in Seq(Result)
          /\ \A k \in 1..Len(results') : results'[k].id # HeadId
          /\ \A k \in 1..Len(results') :
               \E m \in 1..Len(results) : results'[k] = results[m]
          /\ \A m \in 1..Len(results) : results[m].id # HeadId =>
               \E k \in 1..Len(results') : results'[k] = results[m]
      BY <1>1, <1>4, TakenResults, SMTT(30)
    <2>2. /\ DOMAIN KeptResults = {results[i].id : i \in 1..Len(results)}
          /\ \A i \in 1..Len(results) :
               KeptResults[results[i].id] = results[i].result
      BY <1>1, ResultsAre
    <2>3. /\ DOMAIN KeptResults' = {results'[i].id : i \in 1..Len(results')}
          /\ \A i \in 1..Len(results') :
               KeptResults'[results'[i].id] = results'[i].result
      BY <2>1, ResultsAre
    <2>4. HeadId \in DOMAIN KeptResults
      <3>1. DOMAIN results = 1..Len(results)
        BY <1>1
      <3> QED
        BY <1>4, <2>2, <3>1 DEF HasResult
    <2>5. DOMAIN KeptResults' = DOMAIN KeptResults \ {HeadId}
      <3>1. ASSUME NEW i \in DOMAIN KeptResults'
            PROVE  i \in DOMAIN KeptResults /\ i # HeadId
        BY <2>1, <2>2, <2>3
      <3>2. ASSUME NEW i \in DOMAIN KeptResults, i # HeadId
            PROVE  i \in DOMAIN KeptResults'
        <4>1. PICK m \in 1..Len(results) : i = results[m].id
          BY <2>2
        <4>2. PICK k \in 1..Len(results') : results'[k] = results[m]
          BY <2>1, <3>2, <4>1
        <4> QED
          BY <2>3, <4>1, <4>2
      <3> QED
        BY <3>1, <3>2
    <2>6. ASSUME NEW i \in DOMAIN KeptResults'
          PROVE  KeptResults'[i] = KeptResults[i]
      <3>1. PICK k \in 1..Len(results') : i = results'[k].id
        BY <2>3
      <3>2. PICK m \in 1..Len(results) : results'[k] = results[m]
        BY <2>1
      <3> QED
        BY <2>2, <2>3, <3>1, <3>2
    <2> QED
      BY <2>4, <2>5, <2>6 DEF KeptResults
  <1> QED
    BY <1>2, <1>3, <1>4

\* What a job leaves behind is the end of its child, and whether the child was
\* told to stop.
LEMMA LastWords ==
  ASSUME HandleInv, StartInv, TruthInv, SlotInv, OneChild, ToldInv,
         HandleFinished, NEW j, j = HeadId
  PROVE  /\ j \in DOMAIN Endings
         /\ Head(queue).result =
              [status |-> Endings[j], timed_out |-> j \in ToldJobs]
  <1>1. /\ HeadId \in DOMAIN jobs
        /\ Head(queue) \in Action /\ Head(queue).type = "Finished"
        /\ Head(queue) \in Waiting
    BY FinishedResults, FinishedEffect
  <1>2. /\ HasProcess(j) /\ Child(j).state = "reaped"
        /\ Head(queue).result.status = Child(j).status
        /\ Head(queue).result.timed_out => Child(j).sig # "none"
    BY <1>1, HeadIsTrue DEF Ended
  <1>3. PICK h \in DOMAIN processes : h = jobs[j].process /\ processes[h].job = j
    BY <1>2, ChildOfJob
  <1>4. j \in DOMAIN Endings /\ Endings[j] = processes[h].status
    BY <1>2, <1>3, EndingsAre DEF EndedChildren, Child
  <1>5. j \in ToldJobs <=> processes[h].sig # "none"
    BY <1>3 DEF ToldJobs, OneChild
  <1>6. processes[h].sig # "none" => Head(queue).result.timed_out
    BY <1>1, <1>2, <1>3 DEF ToldInv, Told, Child, HeadId
  <1>7. Head(queue).result \in ExecResult
    BY <1>1, Carried
  <1> QED
    BY <1>2, <1>3, <1>4, <1>5, <1>6, <1>7 DEF ExecResult, Child

\* The result of the job that finishes joins those that are left, and there
\* are no more than there may be.
LEMMA FinishKeeps ==
  ASSUME HandleInv, TruthInv, SlotInv, Apart(results), Apart(results'),
         HandleFinished, NEW j, j = HeadId
  PROVE  \E kept \in SUBSET DOMAIN KeptResults :
           /\ Cardinality(kept) < MaxResults
           /\ KeptResults' =
                [i \in kept \cup {j} |->
                   IF i = j THEN Head(queue).result ELSE KeptResults[i]]
  <1> DEFINE l == Len(results)
  <1>1. PICK n \in 1..(l + 1) :
          /\ n <= MaxResults
          /\ results' \in Seq(Result) /\ Len(results') = n
          /\ results'[n] = [id |-> j, result |-> Head(queue).result]
          /\ \A i \in 1..(n - 1) :
               /\ l + 1 - n + i \in 1..l
               /\ results'[i] = results[l + 1 - n + i]
    BY FinishedResults
  <1>2. results \in Seq(Result) /\ l \in Nat
    BY FinishedResults
  <1>3. \A m \in 1..l : results[m].id # j
    BY <1>2, FinishedResults DEF HasResult
  <1>4. /\ DOMAIN KeptResults = {results[i].id : i \in 1..l}
        /\ \A i \in 1..l : KeptResults[results[i].id] = results[i].result
    BY <1>2, ResultsAre
  <1>5. /\ DOMAIN KeptResults' = {results'[i].id : i \in 1..n}
        /\ \A i \in 1..n : KeptResults'[results'[i].id] = results'[i].result
    BY <1>1, ResultsAre
  <1> HIDE DEF l
  <1> DEFINE kept == {results'[i].id : i \in 1..(n - 1)}
             f == [i \in 1..(n - 1) |-> results'[i].id]
  <1>6. n - 1 \in Nat /\ n \in 1..n /\ \A i \in 1..n : i = n \/ i \in 1..(n - 1)
    BY <1>1, <1>2
  <1>7. Cardinality(kept) < MaxResults
    <2>1. f \in Surjection(1..(n - 1), kept)
      BY DEF Surjection
    <2>2. ExistsSurjection(1..(n - 1), kept)
      BY <2>1 DEF ExistsSurjection
    <2>3. IsFiniteSet(1..(n - 1))
      BY <1>6, FS_Interval
    <2> HIDE DEF kept, f
    <2>4. IsFiniteSet(kept)
      BY <2>1, <2>3, FS_Surjection
    <2>5. Cardinality(kept) <= n - 1 /\ Cardinality(kept) \in Nat
      BY <1>6, <2>2, <2>4, FS_SurjCardinalityBound, FS_CardinalityType
    <2> QED
      BY <1>1, <1>6, <2>5, MaxResultsAssumption
  <1>8. ASSUME NEW i \in 1..(n - 1)
        PROVE  /\ results'[i].id \in DOMAIN KeptResults
               /\ results'[i].id # j
               /\ KeptResults'[results'[i].id] = KeptResults[results'[i].id]
    <2>1. PICK m \in 1..l : results'[i] = results[m]
      BY <1>1
    <2>2. i \in 1..n
      BY <1>6
    <2> QED
      BY <1>3, <1>4, <1>5, <2>1, <2>2
  <1>9. DOMAIN KeptResults' = kept \cup {j}
    <2>1. ASSUME NEW id \in DOMAIN KeptResults' PROVE id \in kept \cup {j}
      BY <1>1, <1>5, <1>6
    <2>2. ASSUME NEW i \in 1..(n - 1) PROVE results'[i].id \in DOMAIN KeptResults'
      <3>1. i \in 1..n
        BY <1>6
      <3> QED
        BY <1>5, <3>1
    <2>3. j \in DOMAIN KeptResults'
      BY <1>1, <1>5, <1>6
    <2> QED
      BY <2>1, <2>2, <2>3
  <1>10. KeptResults'[j] = Head(queue).result
    BY <1>1, <1>5, <1>6
  <1>11. ASSUME NEW i \in kept \cup {j}
         PROVE  KeptResults'[i] = IF i = j THEN Head(queue).result
                                  ELSE KeptResults[i]
    BY <1>8, <1>10
  <1>12. kept \subseteq DOMAIN KeptResults
    BY <1>8
  <1> HIDE DEF kept
  <1>13. KeptResults' = [i \in kept \cup {j} |->
                           IF i = j THEN Head(queue).result ELSE KeptResults[i]]
    BY <1>9, <1>11 DEF KeptResults
  <1> QED
    BY <1>7, <1>12, <1>13

\* The jobs that hold a slot of the service are those the count stands for.
LEMMA HoldingIsHeld ==
  ASSUME HandleInv, StartInv
  PROVE  Service!Holding = {id \in JobIds : Held(id)}
  <1>1. ASSUME NEW id \in JobIds
        PROVE  Stage(id) \in {"admitted", "running", "failed"} <=> Held(id)
    <2>1. StageRule(id)
      BY StageRules
    <2>2. Held(id) <=> id \in DOMAIN jobs \/ WaitsAs("Admitted", id)
      BY DEF Held, WaitsAs
    <2>3. OneCase(id)
      BY CasesExclude
    <2>4. CASE id \in DOMAIN jobs
      BY <2>1, <2>2, <2>4 DEF StageRule
    <2>5. CASE id \notin DOMAIN jobs
      BY <2>1, <2>2, <2>3, <2>5 DEF StageRule, OneCase
    <2> QED
      BY <2>4, <2>5
  <1>2. Service!Holding
          = {id \in JobIds : Stage(id) \in {"admitted", "running", "failed"}}
    BY DEF Service!Holding, Stages
  <1> QED
    BY <1>1, <1>2

LEMMA SameCount == \A S : Service!Cardinality(S) = Cardinality(S)
  BY DEF Service!Cardinality, Cardinality

LEMMA FullIsAtLimit ==
  ASSUME HandleInv, StartInv, SlotInv PROVE Service!Full <=> AtLimit
  <1>1. active_jobs = Cardinality({id \in JobIds : Held(id)})
    BY SlotsAreHeld DEF SlotInv
  <1> QED
    BY <1>1, SameCount, HoldingIsHeld DEF Service!Full, AtLimit

-----------------------------------------------------------------------------
(***************************************************************************)
(* The steps.                                                              *)
(***************************************************************************)

\* The job of an action that is at the head of the queue.
LEMMA HeadIsJob ==
  ASSUME HandleInv, NEW types, Popped(types) PROVE HeadId \in JobIds
  BY HeadType, TypeParts DEF HandleInv, Popped

LEMMA SameProcesses ==
  ASSUME UNCHANGED processes PROVE UNCHANGED <<Endings, ToldJobs>>
  BY DEF Endings, EndedJobs, EndedChildren, ChildOf, ToldJobs

LEMMA SameResults ==
  ASSUME UNCHANGED results PROVE UNCHANGED KeptResults
  BY DEF KeptResults, KeptJobs, ResultOf

\* The step is the job's action of the service.
ServiceStep(j) ==
  \/ Service!Ask(j) \/ Service!Admit(j) \/ Service!Reject(j) \/ Service!Start(j)
  \/ Service!TellToStop(j)
  \/ \E status \in Statuses : Service!ChildEnds(j, status)
  \/ Service!Retire(j) \/ Service!HandOut(j)

Implements == (\E j \in JobIds : ServiceStep(j)) \/ UNCHANGED Service!vars

LEMMA SubmitServes ==
  ASSUME ServiceInv, ServiceInv', NEW timeout \in Timeouts, RequestSubmit(timeout)
  PROVE  Implements
  <1>1. PICK j \in JobIds : j = next_id
    BY SubmitEffect DEF ServiceInv
  <1>2. Service!Move(j, "none", "asked")
    BY <1>1, SubmitStages, StageMoves DEF ServiceInv
  <1>3. UNCHANGED <<Endings, ToldJobs, KeptResults>>
    BY SubmitEffect, SameProcesses, SameResults DEF ServiceInv
  <1> QED
    BY <1>2, <1>3 DEF Implements, ServiceStep, Service!Ask

LEMMA AdmitServes ==
  ASSUME ServiceInv, ServiceInv', HandleSubmit PROVE Implements
  <1>1. PICK j \in JobIds : j = HeadId
    BY HeadIsJob DEF HandleSubmit, ServiceInv
  <1>2. UNCHANGED <<Endings, ToldJobs, KeptResults>>
    BY SameProcesses, SameResults DEF HandleSubmit, stateVars, executorVars
  <1>3. CASE AtLimit
    <2>1. Service!Move(j, "asked", "rejected")
      BY <1>1, <1>3, RejectStages, StageMoves DEF ServiceInv
    <2>2. Service!Full
      BY <1>3, FullIsAtLimit DEF ServiceInv
    <2> QED
      BY <1>2, <2>1, <2>2 DEF Implements, ServiceStep, Service!Reject
  <1>4. CASE ~AtLimit
    <2>1. Service!Move(j, "asked", "admitted")
      BY <1>1, <1>4, AdmitStages, StageMoves DEF ServiceInv
    <2>2. ~Service!Full
      BY <1>4, FullIsAtLimit DEF ServiceInv
    <2> QED
      BY <1>2, <2>1, <2>2 DEF Implements, ServiceStep, Service!Admit
  <1> QED
    BY <1>3, <1>4

LEMMA StartServes ==
  ASSUME ServiceInv, ServiceInv', HandleStartProcess PROVE Implements
  <1>1. PICK j \in JobIds : j = HeadId
    BY HeadIsJob DEF HandleStartProcess, ServiceInv
  <1>2. KeptResults' = KeptResults
    BY SameResults DEF HandleStartProcess
  <1>3. CASE SpawnSucceeds(HeadId)
    <2>1. Service!Move(j, "admitted", "running")
      BY <1>1, <1>3, SpawnStages, StageMoves DEF ServiceInv
    <2>2. UNCHANGED <<Endings, ToldJobs>>
      BY <1>3, SpawnChildren DEF ServiceInv
    <2> QED
      BY <1>2, <2>1, <2>2 DEF Implements, ServiceStep, Service!Start
  <1>4. CASE SpawnFails(HeadId)
    <2>1. Service!Move(j, "admitted", "failed")
      BY <1>1, <1>4, RefusalStages, StageMoves DEF ServiceInv
    <2>2. UNCHANGED <<Endings, ToldJobs>>
      BY <1>4, SameProcesses DEF SpawnFails
    <2> QED
      BY <1>2, <2>1, <2>2 DEF Implements, ServiceStep, Service!Start
  <1> QED
    BY <1>3, <1>4 DEF HandleStartProcess

LEMMA SignalServes ==
  ASSUME ServiceInv, ServiceInv', HandleSignalProcess PROVE Implements
  <1>1. PICK j \in JobIds : j = HeadId
    BY HeadIsJob DEF HandleSignalProcess, ServiceInv
  <1>2. UNCHANGED <<Stages, Endings, KeptResults>>
    BY SignalledStages, StagesStay, SignalledChildren, SignalEffect, SameResults
    DEF ServiceInv
  <1>3. CASE j \in DOMAIN jobs
    <2>1. HasProcess(j) /\ ToldJobs' = ToldJobs \cup {j}
      BY <1>1, <1>3, SignalEffect, SignalledChildren DEF ServiceInv
    <2>2. Stages[j] = "running"
      BY <2>1, StageRules DEF ServiceInv, StageRule, Stages
    <2> QED
      BY <1>2, <2>1, <2>2 DEF Implements, ServiceStep, Service!TellToStop
  <1>4. CASE j \notin DOMAIN jobs
    <2>1. ToldJobs' = ToldJobs
      BY <1>1, <1>4, SignalledChildren DEF ServiceInv
    <2> QED
      BY <1>2, <2>1 DEF Implements, Service!vars
  <1> QED
    BY <1>3, <1>4

LEMMA ExitServes ==
  ASSUME ServiceInv, ServiceInv', NEW h, ChildExits(h) PROVE Implements
  <1>1. UNCHANGED <<Stages, KeptResults>>
    BY ExitStages, StagesStay, ExitEffect, SameResults DEF ServiceInv
  <1>2. PICK j \in JobIds, status \in Statuses :
          /\ HasProcess(j)
          /\ j \notin DOMAIN Endings
          /\ Endings' = [i \in DOMAIN Endings \cup {j} |->
                           IF i = j THEN status ELSE Endings[i]]
          /\ ToldJobs' = ToldJobs
    BY ExitChildren DEF ServiceInv
  <1>3. Stages[j] = "running"
    BY <1>2, StageRules DEF ServiceInv, StageRule, Stages
  <1> QED
    BY <1>1, <1>2, <1>3 DEF Implements, ServiceStep, Service!ChildEnds

LEMMA FinishServes ==
  ASSUME ServiceInv, ServiceInv', HandleFinished PROVE Implements
  <1>1. PICK j \in JobIds : j = HeadId
    BY HeadIsJob DEF HandleFinished, ServiceInv
  <1>2. Service!Move(j, "running", "retired")
    BY <1>1, FinishedStages, StageMoves DEF ServiceInv
  <1>3. UNCHANGED <<Endings, ToldJobs>>
    BY SameProcesses DEF HandleFinished, executorVars
  <1>4. /\ j \in DOMAIN Endings
        /\ Head(queue).result =
             [status |-> Endings[j], timed_out |-> j \in ToldJobs]
    BY <1>1, LastWords DEF ServiceInv
  <1>5. PICK kept \in SUBSET DOMAIN KeptResults :
          /\ Cardinality(kept) < MaxResults
          /\ KeptResults' =
               [i \in kept \cup {j} |->
                  IF i = j THEN Head(queue).result ELSE KeptResults[i]]
    BY <1>1, FinishKeeps DEF ServiceInv
  <1> QED
    BY <1>2, <1>3, <1>4, <1>5, SameCount DEF Implements, ServiceStep, Service!Retire

LEMMA QueryServes ==
  ASSUME ServiceInv, ServiceInv', HandleQuery PROVE Implements
  <1>1. /\ QuietStep /\ ~(HandleSubmit /\ AtLimit)
        /\ UNCHANGED processes
    BY QuietTurns DEF ServiceInv, HandleQuery, HandleSubmit, Popped, executorVars
  <1>2. UNCHANGED <<Stages, Endings, ToldJobs>>
    BY <1>1, QuietStages, StagesStay, SameProcesses DEF ServiceInv
  <1>3. CASE HasResult(HeadId)
    BY <1>2, <1>3, QueryResults DEF ServiceInv, Implements, ServiceStep,
                                    Service!HandOut
  <1>4. CASE ~HasResult(HeadId)
    BY <1>2, <1>4, QueryResults DEF ServiceInv, Implements, Service!vars
  <1> QED
    BY <1>3, <1>4

LEMMA StepServes ==
  ASSUME ServiceInv, ServiceInv', [CoreNext]_coreVars PROVE Implements
  <1>1. HandleInv /\ StartInv /\ HandleInv' /\ StartInv' /\ JobsKnown
        /\ OneChild /\ OneChild'
    BY DEF ServiceInv
  <1>2. CASE \/ HandleSubmit \/ HandleQuery \/ HandleFinished
             \/ HandleStartProcess \/ HandleSignalProcess
             \/ \E timeout \in Timeouts : RequestSubmit(timeout)
             \/ \E h \in DOMAIN processes : ChildExits(h)
    BY <1>2, AdmitServes, QueryServes, FinishServes, StartServes, SignalServes,
       SubmitServes, ExitServes
  <1>3. CASE /\ ~HandleSubmit /\ ~HandleQuery /\ ~HandleFinished
             /\ ~HandleStartProcess /\ ~HandleSignalProcess
             /\ \A timeout \in Timeouts : ~RequestSubmit(timeout)
             /\ \A h \in DOMAIN processes : ~ChildExits(h)
    <2>1. \/ QuietStep \/ SignalStep \/ PollEnds \/ HandleAdmitted
          \/ \E id \in JobIds : RequestPoll(id)
      BY <1>1, <1>3, StepCases
    <2>2. KeptResults' = KeptResults
      BY <1>3, ResultsStay, SameResults
    <2>3. StagesKept
      BY <1>1, <1>3, <2>1, QuietStages, SignalStages, PolledStages,
         AdmittedStages, PollRequestStages
    <2>4. UNCHANGED <<Endings, ToldJobs>>
      <3>1. CASE PollEnds
        BY <1>1, <3>1, PolledChildren
      <3>2. CASE HandleAdmitted
        BY <1>1, <3>2, AdmittedEffect, SameProcesses
      <3>3. CASE QuietStep \/ SignalStep \/ \E id \in JobIds : RequestPoll(id)
        BY <1>1, <3>3, PollRequested, SameProcesses
        DEF QuietStep, SignalStep, Kept
      <3> QED
        BY <2>1, <3>1, <3>2, <3>3
    <2> QED
      BY <2>2, <2>3, <2>4, StagesStay DEF Implements, Service!vars
  <1> QED
    BY <1>2, <1>3

LEMMA InitServes == ASSUME CoreInit PROVE Service!Init
  <1>1. /\ next_id = 1 /\ DOMAIN processes = {} /\ results = <<>>
    BY DEF CoreInit, EmptyMap
  <1>2. \A id \in JobIds : Stage(id) = "none"
    <2>1. HandleInv /\ StartInv /\ \A id \in JobIds : id >= next_id
      BY <1>1, InitHandleInv, InitStartInv, MaxSubmitsAssumption DEF JobIds
    <2> QED
      BY <2>1, StageRules DEF StageRule
  <1>3. EndedJobs = {} /\ ToldJobs = {}
    BY <1>1 DEF EndedJobs, EndedChildren, ToldJobs
  <1>4. KeptJobs = {}
    BY <1>1 DEF KeptJobs
  <1>5. /\ Stages = [j \in JobIds |-> "none"]
        /\ Endings = [j \in {} |-> 0]
        /\ KeptResults = [j \in {} |-> 0]
    BY <1>2, <1>3, <1>4 DEF Stages, Endings, KeptResults
  <1> QED
    BY <1>3, <1>5 DEF Service!Init

-----------------------------------------------------------------------------

\* Whatever the values of the constants, where a host polls each job at most
\* once an iteration and before the requests and clients ask for a graceful
\* stop only, the core does what JobService says: each turn of the loop is one
\* of its actions or none (lib.rs:29-69, core/mod.rs:206-247, runtime.rs).
THEOREM ServiceCorrect ==
  ASSUME Polls # "any", ControlSignals \subseteq {"GracefulStop"}
  PROVE  CoreSpec => ServiceImplemented
  <1>1. CoreInit => ServiceInv /\ Service!Init
    BY InitServiceInv, InitServes
  <1>2. ServiceInv /\ [CoreNext]_coreVars => ServiceInv'
    BY NextServiceInv
  <1>3. ServiceInv /\ ServiceInv' /\ [CoreNext]_coreVars
          => [Service!Next]_(Service!vars)
    BY StepServes DEF Implements, ServiceStep, Service!Next
  <1> QED
    BY <1>1, <1>2, <1>3, PTL DEF CoreSpec, ServiceImplemented, Service!Spec

\* So does the daemon, whatever its clients and its socket do: IpcModule reads
\* the answers off the queue and never changes what the core does with a job
\* (ipc.rs, lib.rs:29-69).
THEOREM DaemonServes == ASSUME Polls # "any" PROVE Spec => ServiceImplemented
  <1>1. ControlSignals \subseteq {"GracefulStop"}
    BY DaemonAssumption
  <1> QED
    BY <1>1, DaemonIsCore, ServiceCorrect

=============================================================================
