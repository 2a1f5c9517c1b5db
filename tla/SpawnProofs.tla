----------------------------- MODULE SpawnProofs -----------------------------
(***************************************************************************)
(* What holds of spawn_start and spawn for every table of descriptors the  *)
(* host may have, every number the pipes may get and every call that may   *)
(* fail.                                                                   *)
(*                                                                         *)
(* The parent holds, besides the host's descriptors, exactly those that    *)
(* the fields of Pipes own, and later the slots of the drain; which fields *)
(* are Some follows from where spawn_start is (TableInv).                  *)
(* What the child holds follows from the order of the file actions         *)
(* (ActionsInv, ChildInv), what spawn reports from where wait_loop is      *)
(* (ReportInv).                                                            *)
(***************************************************************************)
EXTENDS SyncSpawn, SequenceTheorems, FiniteSetTheorems, FunctionTheorems,
        Induction, TLAPS

\* The streams the current step has still to deal with.
Left == {todo[i] : i \in DOMAIN todo}

Ends(streams) == {ChildEnd(s) : s \in streams} \cup {ParentEnd(s) : s \in streams}

\* Besides the old descriptors there are those of the owners, each the end its
\* owner is named for.
HoldsIn(map, old, owners) ==
  /\ old \subseteq DOMAIN map
  /\ \A e \in DOMAIN owners : owners[e] \in DOMAIN map \ old /\ map[owners[e]] = e
  /\ \A fd \in DOMAIN map \ old : \E e \in DOMAIN owners : owners[e] = fd

Holds(files) == HoldsIn(table, host, pipes) /\ DOMAIN pipes = files

TodoOK ==
  /\ todo \in Seq(wants)
  /\ \A i, k \in 1..Len(todo) : todo[i] = todo[k] => i = k

HostKept ==
  /\ wants \in SUBSET StreamSet
  /\ host \in SUBSET (0..MaxFd)
  /\ host \subseteq DOMAIN table
  /\ DOMAIN table \subseteq 0..MaxFd
  /\ \A fd \in host : table[fd] = Host

Before == {"actions", "posix_spawn", "fork", "parent"}
After == {"started", "dropped"}

TableInv ==
  /\ HostKept
  /\ TodoOK
  /\ DOMAIN pipes \subseteq Fields
  /\ DOMAIN drain \subseteq Fields
  /\ step \notin After => HoldsIn(table, host, pipes) /\ DOMAIN drain = {}
  /\ step \in After => HoldsIn(table, host, drain) /\ DOMAIN pipes = {}
  /\ step = "pipes" => DOMAIN pipes = Ends(wants \ Left)
  /\ step \in Before => DOMAIN pipes = Ends(wants)
  /\ step = "drain" => DOMAIN pipes = {ParentEnd(s) : s \in wants}
  /\ step = "failed" => DOMAIN pipes = {}
  /\ step = "started" => DOMAIN drain = {ParentEnd(s) : s \in wants}

-----------------------------------------------------------------------------
(***************************************************************************)
(* Files, numbers and the streams to deal with.                            *)
(***************************************************************************)

\* The ends of the pipes are all different, and none is the host's.
LEMMA EndsDiffer ==
  ASSUME NEW s \in StreamSet, NEW t \in StreamSet
  PROVE  /\ ChildEnd(s) # ParentEnd(t)
         /\ ChildEnd(s) # Host /\ ParentEnd(s) # Host
         /\ ChildEnd(s) = ChildEnd(t) => s = t
         /\ ParentEnd(s) = ParentEnd(t) => s = t
         /\ {ChildEnd(s), ParentEnd(s)} = {<<s, "r">>, <<s, "w">>}
  BY DEF StreamSet, ChildEnd, ParentEnd, Host

LEMMA LowestFacts ==
  ASSUME NEW fds \in SUBSET Nat, fds # {}
  PROVE  Lowest(fds) \in fds
  <1>1. \E fd \in fds : \A other \in fds : fd <= other
    BY LeastNumber
  <1> QED
    BY <1>1, Zenon DEF Lowest

\* pipe2 gets two numbers that were free.
LEMMA PipeNumbers ==
  ASSUME DOMAIN table \subseteq 0..MaxFd,
         Cardinality(Free(DOMAIN table)) >= 2
  PROVE  LET r == Lowest(Free(DOMAIN table))
             w == Lowest(Free(DOMAIN table \cup {r}))
         IN  /\ r \in (0..MaxFd) \ DOMAIN table
             /\ w \in (0..MaxFd) \ DOMAIN table
             /\ r # w
  <1> DEFINE r == Lowest(Free(DOMAIN table))
             w == Lowest(Free(DOMAIN table \cup {r}))
             F == Free(DOMAIN table)
  <1>1. F \in SUBSET Nat /\ F \in SUBSET (0..MaxFd)
    BY TablesAssumption DEF Free
  <1>2. IsFiniteSet(F)
    <2>1. IsFiniteSet(0..MaxFd)
      BY TablesAssumption, FS_Interval
    <2> HIDE DEF F
    <2> QED
      BY <1>1, <2>1, FS_Subset
  <1>3. F # {}
    BY FS_EmptySet
  <1>4. r \in F
    BY <1>1, <1>3, LowestFacts
  <1>5. F \ {r} # {}
    <2>1. Cardinality(F \ {r}) = Cardinality(F) - 1 /\ Cardinality(F) \in Nat
      BY <1>2, <1>4, FS_RemoveElement, FS_CardinalityType
    <2>2. Cardinality(F \ {r}) # 0
      BY <2>1
    <2> QED
      BY <2>2, FS_EmptySet
  <1>6. Free(DOMAIN table \cup {r}) = F \ {r}
    BY DEF Free
  <1>7. w \in F \ {r}
    <2> HIDE DEF r, F
    <2> QED
      BY <1>1, <1>5, <1>6, LowestFacts
  <1> QED
    BY <1>1, <1>4, <1>7 DEF Free

\* Wanted lists the streams with a pipe, each once.
LEMMA WantedFacts ==
  ASSUME wants \in SUBSET StreamSet
  PROVE  /\ Wanted \in Seq(wants)
         /\ \A i, k \in 1..Len(Wanted) : Wanted[i] = Wanted[k] => i = k
         /\ \A s \in wants : \E i \in 1..Len(Wanted) : Wanted[i] = s
  <1> DEFINE a == IfWanted("Stdin")
             b == IfWanted("Stdout")
             c == IfWanted("Stderr")
  <1>1. /\ a \in Seq(wants) /\ Len(a) \in 0..1
        /\ Len(a) = 1 <=> "Stdin" \in wants
        /\ \A i \in 1..Len(a) : a[i] = "Stdin"
    BY DEF IfWanted
  <1>2. /\ b \in Seq(wants) /\ Len(b) \in 0..1
        /\ Len(b) = 1 <=> "Stdout" \in wants
        /\ \A i \in 1..Len(b) : b[i] = "Stdout"
    BY DEF IfWanted
  <1>3. /\ c \in Seq(wants) /\ Len(c) \in 0..1
        /\ Len(c) = 1 <=> "Stderr" \in wants
        /\ \A i \in 1..Len(c) : c[i] = "Stderr"
    BY DEF IfWanted
  <1> HIDE DEF a, b, c
  <1>4. /\ a \o b \in Seq(wants) /\ Len(a \o b) = Len(a) + Len(b)
        /\ \A i \in 1..(Len(a) + Len(b)) :
             (a \o b)[i] = IF i <= Len(a) THEN "Stdin" ELSE "Stdout"
    BY <1>1, <1>2, ConcatProperties
  <1>5. /\ (a \o b) \o c \in Seq(wants)
        /\ Len((a \o b) \o c) = Len(a) + Len(b) + Len(c)
        /\ \A i \in 1..(Len(a) + Len(b) + Len(c)) :
             ((a \o b) \o c)[i] = IF i <= Len(a) THEN "Stdin"
                                  ELSE IF i <= Len(a) + Len(b) THEN "Stdout"
                                  ELSE "Stderr"
    BY <1>1, <1>2, <1>3, <1>4, ConcatProperties
  <1>6. Wanted = (a \o b) \o c
    BY DEF Wanted, a, b, c
  <1> DEFINE x == Len(a)
             y == Len(b)
             z == Len(c)
             n == Len(Wanted)
  <1>7. /\ x \in 0..1 /\ y \in 0..1 /\ z \in 0..1 /\ n = x + y + z
        /\ x = 1 <=> "Stdin" \in wants
        /\ y = 1 <=> "Stdout" \in wants
        /\ z = 1 <=> "Stderr" \in wants
        /\ \A i \in 1..n :
             Wanted[i] = IF i <= x THEN "Stdin"
                         ELSE IF i <= x + y THEN "Stdout" ELSE "Stderr"
    BY <1>1, <1>2, <1>3, <1>5, <1>6
  <1> HIDE DEF x, y, z, n
  <1>8. \A i, k \in 1..n : Wanted[i] = Wanted[k] => i = k
    BY <1>7
  <1>9. ASSUME NEW s \in wants PROVE \E i \in 1..n : Wanted[i] = s
    <2>1. CASE s = "Stdin"
      <3>1. 1 \in 1..n /\ Wanted[1] = "Stdin"
        BY <1>7, <2>1
      <3> QED
        BY <2>1, <3>1
    <2>2. CASE s = "Stdout"
      <3>1. x + 1 \in 1..n /\ Wanted[x + 1] = "Stdout"
        BY <1>7, <2>2
      <3> QED
        BY <2>2, <3>1
    <2>3. CASE s = "Stderr"
      <3>1. n \in 1..n /\ Wanted[n] = "Stderr"
        BY <1>7, <2>3
      <3> QED
        BY <2>3, <3>1
    <2> QED
      BY <2>1, <2>2, <2>3 DEF StreamSet
  <1> QED
    BY <1>5, <1>6, <1>8, <1>9 DEF n

\* The first of the streams to deal with, and the others.
LEMMA TodoTail ==
  ASSUME TodoOK, todo # <<>>, todo' = Tail(todo), wants' = wants
  PROVE  /\ Head(todo) \in wants /\ Head(todo) \in Left
         /\ TodoOK'
         /\ Left' = Left \ {Head(todo)}
  <1>1. /\ Head(todo) = todo[1] /\ Head(todo) \in wants /\ Len(todo) \in Nat
        /\ Len(todo) >= 1 /\ Tail(todo) \in Seq(wants)
        /\ Len(Tail(todo)) = Len(todo) - 1
        /\ \A i \in 1..(Len(todo) - 1) : Tail(todo)[i] = todo[i + 1]
    BY HeadTailProperties DEF TodoOK
  <1>2. DOMAIN todo = 1..Len(todo) /\ DOMAIN todo' = 1..(Len(todo) - 1)
    BY <1>1 DEF TodoOK
  <1>3. Head(todo) \in Left
    BY <1>1, <1>2 DEF Left
  <1>4. TodoOK'
    BY <1>1, <1>2 DEF TodoOK
  <1>5. Left' \subseteq Left \ {Head(todo)}
    BY <1>1, <1>2 DEF Left, TodoOK
  <1>6. ASSUME NEW s \in Left \ {Head(todo)} PROVE s \in Left'
    <2>1. PICK i \in 1..Len(todo) : s = todo[i]
      BY <1>2 DEF Left
    <2>2. i # 1 /\ i - 1 \in 1..(Len(todo) - 1)
      BY <1>1, <1>6, <2>1
    <2>3. Tail(todo)[i - 1] = s
      BY <1>1, <2>1, <2>2
    <2> QED
      BY <1>2, <2>2, <2>3 DEF Left
  <1> QED
    BY <1>1, <1>3, <1>4, <1>5, <1>6

-----------------------------------------------------------------------------
(***************************************************************************)
(* The descriptors of the parent, from call to call.                       *)
(***************************************************************************)

\* An end that is new, under a number that was free.
LEMMA HoldsMore ==
  ASSUME NEW map, NEW old, NEW owners, HoldsIn(map, old, owners),
         NEW fd, fd \notin DOMAIN map, NEW file, file \notin DOMAIN owners
  PROVE  HoldsIn(Insert(map, fd, file), old, Insert(owners, file, fd))
  <1> DEFINE more == Insert(map, fd, file)
             theirs == Insert(owners, file, fd)
  <1>1. /\ DOMAIN more = DOMAIN map \cup {fd}
        /\ \A k \in DOMAIN map : more[k] = map[k]
        /\ more[fd] = file
    BY DEF Insert
  <1>2. /\ DOMAIN theirs = DOMAIN owners \cup {file}
        /\ \A e \in DOMAIN owners : theirs[e] = owners[e]
        /\ theirs[file] = fd
    BY DEF Insert
  <1> HIDE DEF more, theirs
  <1>3. HoldsIn(more, old, theirs)
    BY <1>1, <1>2 DEF HoldsIn
  <1> QED
    BY <1>3 DEF more, theirs

\* The owners of some of the ends are dropped, and their numbers closed.
LEMMA HoldsFewer ==
  ASSUME NEW owners, HoldsIn(table, host, owners), NEW gone
  PROVE  /\ HoldsIn(Closing(owners, gone), host, Without(owners, gone))
         /\ DOMAIN Without(owners, gone) = DOMAIN owners \ gone
         /\ DOMAIN Closing(owners, gone) \subseteq DOMAIN table
         /\ \A fd \in host : Closing(owners, gone)[fd] = table[fd]
  <1> DEFINE closed == {owners[e] : e \in DOMAIN owners \cap gone}
             less == Closing(owners, gone)
             theirs == Without(owners, gone)
  <1>1. /\ DOMAIN less = DOMAIN table \ closed
        /\ \A fd \in DOMAIN less : less[fd] = table[fd]
    BY DEF Closing, Restrict
  <1>2. /\ DOMAIN theirs = DOMAIN owners \ gone
        /\ \A e \in DOMAIN theirs : theirs[e] = owners[e]
    BY DEF Without, Restrict
  <1> HIDE DEF less, theirs
  <1>3. closed \cap host = {}
    BY DEF HoldsIn
  <1>4. \A e \in DOMAIN theirs : owners[e] \notin closed
    BY <1>2 DEF HoldsIn
  <1>5. \A fd \in DOMAIN less \ host : \E e \in DOMAIN theirs : theirs[e] = fd
    <2> TAKE fd \in DOMAIN less \ host
    <2>1. PICK e \in DOMAIN owners : owners[e] = fd
      BY <1>1 DEF HoldsIn
    <2>2. e \notin gone
      BY <1>1, <2>1
    <2> QED
      BY <1>2, <2>1, <2>2
  <1> HIDE DEF closed
  <1>6. host \subseteq DOMAIN less
    BY <1>1, <1>3 DEF HoldsIn
  <1>7. \A e \in DOMAIN theirs : theirs[e] \in DOMAIN less \ host /\ less[theirs[e]] = e
    BY <1>1, <1>2, <1>4 DEF HoldsIn
  <1>8. /\ HoldsIn(less, host, theirs)
        /\ DOMAIN theirs = DOMAIN owners \ gone
        /\ DOMAIN less \subseteq DOMAIN table
        /\ \A fd \in host : less[fd] = table[fd]
    BY <1>1, <1>2, <1>5, <1>6, <1>7 DEF HoldsIn
  <1> QED
    BY <1>8 DEF less, theirs

\* As many descriptors as owners.
LEMMA HoldsCounts ==
  ASSUME NEW map, NEW old, NEW owners, IsFiniteSet(DOMAIN owners),
         HoldsIn(map, old, owners)
  PROVE  /\ {map[fd] : fd \in DOMAIN map \ old} = DOMAIN owners
         /\ Cardinality(DOMAIN map \ old) = Cardinality(DOMAIN owners)
  <1> DEFINE D == DOMAIN map \ old
             files == DOMAIN owners
             where == [fd \in D |-> map[fd]]
  <1>0. /\ \A fd \in D : map[fd] \in files /\ owners[map[fd]] = fd
        /\ \A e \in files : owners[e] \in D /\ map[owners[e]] = e
    BY DEF HoldsIn
  <1>1. where \in Bijection(D, files)
    <2>1. where \in Injection(D, files)
      <3>1. \A fd, other \in D : map[fd] = map[other] => fd = other
        BY <1>0
      <3> QED
        BY <1>0, <3>1, Fun_IsInj
    <2>2. where \in Surjection(D, files)
      <3>1. \A e \in files : \E fd \in D : map[fd] = e
        BY <1>0
      <3> QED
        BY <1>0, <3>1, Fun_IsSurj
    <2> QED
      BY <2>1, <2>2 DEF Bijection
  <1>2. ExistsBijection(D, files)
    BY <1>1 DEF ExistsBijection
  <1>3. Cardinality(files) = Cardinality(D)
    <2>1. ExistsBijection(files, D)
      BY <1>2, Fun_ExistsBijSymmetric
    <2>2. IsFiniteSet(files)
      OBVIOUS
    <2> HIDE DEF D, files
    <2>3. IsFiniteSet(D)
      BY <2>1, <2>2, FS_Bijection
    <2> QED
      BY <1>2, <2>1, <2>2, <2>3, FS_Bijection
  <1>4. {map[fd] : fd \in D} = files
    BY <1>0
  <1> QED
    BY <1>3, <1>4

\* Each descriptor has one owner, and no owner has another's.
LEMMA HoldsOnce ==
  ASSUME NEW map, NEW old, NEW owners, HoldsIn(map, old, owners)
  PROVE  /\ {owners[e] : e \in DOMAIN owners} \subseteq DOMAIN map \ old
         /\ \A fd \in DOMAIN map \ old :
              \E e \in DOMAIN owners : {f \in DOMAIN owners : owners[f] = fd} = {e}
  <1>1. {owners[e] : e \in DOMAIN owners} \subseteq DOMAIN map \ old
    BY DEF HoldsIn
  <1>2. ASSUME NEW fd \in DOMAIN map \ old
        PROVE  \E e \in DOMAIN owners : {f \in DOMAIN owners : owners[f] = fd} = {e}
    <2>1. PICK e \in DOMAIN owners : owners[e] = fd
      BY DEF HoldsIn
    <2>2. \A f \in DOMAIN owners : owners[f] = fd => f = e
      BY <2>1 DEF HoldsIn
    <2>3. {f \in DOMAIN owners : owners[f] = fd} = {e}
      BY <2>1, <2>2
    <2> QED
      BY <2>3
  <1> QED
    BY <1>1, <1>2

-----------------------------------------------------------------------------
(***************************************************************************)
(* TableInv holds at first and through spawn_start.                        *)
(***************************************************************************)

LEMMA FieldsFacts ==
  ASSUME NEW streams \in SUBSET StreamSet
  PROVE  /\ Ends(streams) \subseteq Fields
         /\ {ParentEnd(s) : s \in streams} \subseteq Fields
         /\ Ends(streams) \ ChildFields = {ParentEnd(s) : s \in streams}
  <1>1. \A s \in StreamSet : ChildEnd(s) \in Fields /\ ParentEnd(s) \in Fields
    BY DEF StreamSet, ChildEnd, ParentEnd, Fields
  <1>2. \A s \in streams : ChildEnd(s) \in ChildFields
    BY DEF ChildFields
  <1>3. \A s \in StreamSet : ParentEnd(s) \notin ChildFields
    BY EndsDiffer DEF ChildFields
  <1> QED
    BY <1>1, <1>2, <1>3 DEF Ends

LEMMA TableInvInit == SpawnInit => TableInv
  <1> SUFFICES ASSUME SpawnInit PROVE TableInv
    OBVIOUS
  <1> USE DEF SpawnInit
  <1>1. HostKept
    BY TablesAssumption DEF HostKept
  <1>2. /\ Wanted \in Seq(wants)
        /\ \A i, k \in 1..Len(Wanted) : Wanted[i] = Wanted[k] => i = k
        /\ \A s \in wants : \E i \in 1..Len(Wanted) : Wanted[i] = s
    BY WantedFacts
  <1>3. TodoOK
    BY <1>2 DEF TodoOK
  <1>4. wants \ Left = {}
    BY <1>2 DEF Left
  <1>5. Ends(wants \ Left) = {}
    BY <1>4 DEF Ends
  <1>6. DOMAIN pipes = {} /\ DOMAIN drain = {}
    BY DEF EmptyMap
  <1>7. HoldsIn(table, host, pipes)
    BY <1>6 DEF HoldsIn
  <1> QED
    BY <1>1, <1>3, <1>5, <1>6, <1>7 DEF TableInv, Before, After

LEMMA MakePipeKeeps == TableInv /\ MakePipe => TableInv'
  <1> SUFFICES ASSUME TableInv, MakePipe PROVE TableInv'
    OBVIOUS
  <1> DEFINE r == Lowest(Free(DOMAIN table))
             w == Lowest(Free(DOMAIN table \cup {r}))
             h == Head(todo)
             f == <<h, "r">>
             g == <<h, "w">>
  <1>1. /\ HostKept /\ TodoOK /\ step = "pipes" /\ step' = "pipes"
        /\ todo # <<>> /\ todo' = Tail(todo) /\ UNCHANGED <<wants, host, drain>>
        /\ HoldsIn(table, host, pipes) /\ DOMAIN pipes = Ends(wants \ Left)
        /\ DOMAIN drain = {}
        /\ Cardinality(Free(DOMAIN table)) >= 2
        /\ table' = Insert(Insert(table, r, f), w, g)
        /\ pipes' = Insert(Insert(pipes, f, r), g, w)
    BY DEF TableInv, MakePipe, optionVars, After
  <1>2. /\ r \in (0..MaxFd) \ DOMAIN table
        /\ w \in (0..MaxFd) \ DOMAIN table
        /\ r # w
    BY <1>1, PipeNumbers DEF HostKept
  <1>3. h \in wants /\ h \in Left /\ TodoOK' /\ Left' = Left \ {h}
    BY <1>1, TodoTail
  <1>4. h \in StreamSet /\ wants \subseteq StreamSet
    BY <1>1, <1>3 DEF HostKept
  <1> HIDE DEF r, w, h
  <1>5. f \notin DOMAIN pipes /\ g \notin DOMAIN pipes /\ f # g
    BY <1>1, <1>3, <1>4, EndsDiffer DEF Ends, ChildEnd, ParentEnd
  <1>6. /\ HoldsIn(table', host, pipes')
        /\ DOMAIN pipes' = DOMAIN pipes \cup {f, g}
        /\ DOMAIN table' = DOMAIN table \cup {r, w}
        /\ \A fd \in DOMAIN table : table'[fd] = table[fd]
    <2> DEFINE more == table'
               theirs == pipes'
    <2>1. /\ more = Insert(Insert(table, r, f), w, g)
          /\ theirs = Insert(Insert(pipes, f, r), g, w)
          /\ r # w /\ r \notin DOMAIN table /\ w \notin DOMAIN table
      BY <1>1, <1>2
    <2> HIDE DEF f, g, more, theirs
    <2> DEFINE one == Insert(table, r, f)
               first == Insert(pipes, f, r)
    <2>2. HoldsIn(one, host, first)
      BY <1>1, <1>5, <2>1, HoldsMore
    <2>3. /\ DOMAIN one = DOMAIN table \cup {r}
          /\ \A fd \in DOMAIN table : one[fd] = table[fd]
          /\ DOMAIN first = DOMAIN pipes \cup {f}
      BY <2>1 DEF Insert
    <2>4. w \notin DOMAIN one /\ g \notin DOMAIN first
      BY <1>5, <2>1, <2>3
    <2>5. more = Insert(one, w, g) /\ theirs = Insert(first, g, w)
      BY <2>1
    <2> HIDE DEF one, first
    <2>6. HoldsIn(more, host, theirs)
      BY <2>2, <2>4, <2>5, HoldsMore
    <2>7. /\ DOMAIN more = DOMAIN one \cup {w}
          /\ \A fd \in DOMAIN one : more[fd] = one[fd]
          /\ DOMAIN theirs = DOMAIN first \cup {g}
      BY <2>4, <2>5 DEF Insert
    <2>8. /\ HoldsIn(more, host, theirs)
          /\ DOMAIN theirs = DOMAIN pipes \cup {f, g}
          /\ DOMAIN more = DOMAIN table \cup {r, w}
          /\ \A fd \in DOMAIN table : more[fd] = table[fd]
      BY <2>3, <2>6, <2>7
    <2> QED
      BY <2>8 DEF more, theirs
  <1>7. DOMAIN pipes' = Ends((wants \ Left)')
    <2>1. (wants \ Left)' = (wants \ Left) \cup {h}
      BY <1>1, <1>3
    <2>2. {ChildEnd(h), ParentEnd(h)} = {f, g}
      BY <1>4, EndsDiffer
    <2> QED
      BY <1>1, <1>6, <2>1, <2>2 DEF Ends
  <1>8. HostKept'
    BY <1>1, <1>2, <1>6 DEF HostKept
  <1>9. DOMAIN pipes' \subseteq Fields
    <2>1. (wants \ Left)' \in SUBSET StreamSet
      BY <1>1, <1>4
    <2> QED
      BY <1>7, <2>1, FieldsFacts
  <1>10. DOMAIN pipes' = Ends(wants \ Left)'
    BY <1>7 DEF Ends
  <1> QED
    BY <1>1, <1>3, <1>6, <1>8, <1>9, <1>10 DEF TableInv, Before, After

\* All pipes are made: both backends turn to all of the streams.
LEMMA PipesMadeKeeps == TableInv /\ PipesMade => TableInv'
  <1> SUFFICES ASSUME TableInv, PipesMade PROVE TableInv'
    OBVIOUS
  <1>1. /\ HostKept /\ TodoOK /\ todo = <<>> /\ Holds(Ends(wants \ Left))
        /\ step = "pipes" /\ step' \in {"fork", "actions"} /\ todo' = Wanted
        /\ UNCHANGED <<wants, host, table, pipes, drain>>
    BY DEF TableInv, PipesMade, optionVars, ownerVars, Holds, After
  <1>2. TodoOK'
    BY <1>1, WantedFacts DEF TodoOK, HostKept
  <1>3. Holds(Ends(wants))
    <2>1. wants \ Left = wants
      BY <1>1 DEF Left
    <2> QED
      BY <1>1, <2>1
  <1> QED
    BY <1>1, <1>2, <1>3
    DEF TableInv, HostKept, Before, After, Holds, HoldsIn, Ends

LEMMA AddActionsKeeps == TableInv /\ AddActions => TableInv'
  <1> SUFFICES ASSUME TableInv, AddActions PROVE TableInv'
    OBVIOUS
  <1>1. /\ HostKept /\ TodoOK /\ todo # <<>> /\ todo' = Tail(todo)
        /\ step = "actions"
        /\ UNCHANGED <<wants, host, table, pipes, drain, step>>
    BY DEF TableInv, AddActions, optionVars, ownerVars
  <1>2. TodoOK'
    BY <1>1, TodoTail
  <1> QED
    BY <1>1, <1>2 DEF TableInv, HostKept, Before, After, HoldsIn, Ends

\* What ListDescriptors and the start of a child leave alone.
LEMMA TableUnchangedKeeps ==
  TableInv /\ step \in Before /\ step' \in Before
           /\ UNCHANGED <<wants, host, table, pipes, drain, todo>> => TableInv'
  BY DEF TableInv, HostKept, TodoOK, Before, After, HoldsIn, Ends

\* What is taken out of the fields and dropped leaves the rest as it was.
LEMMA TakeKeeps ==
  ASSUME TableInv, step \notin After, NEW gone, TakeAndDrop(gone),
         UNCHANGED <<wants, host, drain, todo>>
  PROVE  /\ HostKept' /\ TodoOK'
         /\ HoldsIn(table', host', pipes')
         /\ DOMAIN pipes' = DOMAIN pipes \ gone
         /\ DOMAIN pipes' \subseteq Fields
         /\ DOMAIN drain' = {}
  <1>1. table' = Closing(pipes, gone) /\ pipes' = Without(pipes, gone)
    BY DEF TakeAndDrop
  <1>2. /\ HoldsIn(table, host, pipes) /\ DOMAIN pipes \subseteq Fields
        /\ DOMAIN drain = {} /\ HostKept /\ TodoOK
    BY DEF TableInv
  <1>3. /\ HoldsIn(Closing(pipes, gone), host, Without(pipes, gone))
        /\ DOMAIN Without(pipes, gone) = DOMAIN pipes \ gone
        /\ DOMAIN Closing(pipes, gone) \subseteq DOMAIN table
        /\ \A fd \in host : Closing(pipes, gone)[fd] = table[fd]
    BY <1>2, HoldsFewer
  <1>4. HoldsIn(table', host, pipes')
    BY <1>1, <1>3, Zenon
  <1>5. /\ HoldsIn(table', host', pipes') /\ DOMAIN pipes' = DOMAIN pipes \ gone
        /\ DOMAIN table' \subseteq DOMAIN table
        /\ \A fd \in host : table'[fd] = table[fd]
    BY <1>1, <1>3, <1>4
  <1>6. HostKept' /\ TodoOK'
    BY <1>2, <1>5 DEF HostKept, TodoOK, HoldsIn
  <1> QED
    BY <1>2, <1>5, <1>6

\* Whatever the fields still own, it is dropped in the end.
LEMMA FailKeeps == TableInv /\ Fail => TableInv'
  <1> SUFFICES ASSUME TableInv, Fail PROVE TableInv'
    OBVIOUS
  <1>1. CASE PipeFails \/ DrainFails
    <2>1. /\ step \in {"pipes", "drain"} /\ step' = "returning"
          /\ UNCHANGED <<wants, host, table, pipes, drain, todo>>
      BY <1>1 DEF PipeFails, DrainFails, ReturnError, optionVars, ownerVars
    <2> QED
      BY <2>1 DEF TableInv, HostKept, TodoOK, Before, After, HoldsIn
  <1>2. CASE FileActionFails \/ PosixSpawnFails \/ ForkFails
    <2>1. /\ step \notin After /\ step' = "returning" /\ \E gone : TakeAndDrop(gone)
          /\ UNCHANGED <<wants, host, drain, todo>>
      BY <1>2 DEF FileActionFails, PosixSpawnFails, ForkFails, ReturnError,
                  CloseAll, optionVars, After
    <2>2. PICK gone : TakeAndDrop(gone)
      BY <2>1
    <2>3. /\ HostKept' /\ TodoOK' /\ HoldsIn(table', host', pipes')
          /\ DOMAIN pipes' \subseteq Fields /\ DOMAIN drain' = {}
      BY <2>1, <2>2, TakeKeeps
    <2> QED
      BY <2>1, <2>3 DEF TableInv, Before, After
  <1>3. CASE Return
    <2>1. /\ step \notin After /\ step' = "failed" /\ TakeAndDrop(Fields)
          /\ UNCHANGED <<wants, host, drain, todo>>
      BY <1>3 DEF Return, optionVars, After
    <2>2. /\ HostKept' /\ TodoOK' /\ HoldsIn(table', host', pipes')
          /\ DOMAIN pipes' = {} /\ DOMAIN drain' = {}
      BY <2>1, TakeKeeps DEF TableInv
    <2> QED
      BY <2>1, <2>2 DEF TableInv, Before, After
  <1> QED
    BY <1>1, <1>2, <1>3 DEF Fail

\* The ends of the child are dropped and those of the parent kept.
LEMMA DropChildEndsKeeps == TableInv /\ DropChildEnds => TableInv'
  <1> SUFFICES ASSUME TableInv, DropChildEnds PROVE TableInv'
    OBVIOUS
  <1>1. /\ step = "parent" /\ step' = "drain" /\ TakeAndDrop(ChildFields)
        /\ UNCHANGED <<wants, host, drain, todo>>
    BY DEF DropChildEnds, optionVars
  <1>2. /\ HostKept' /\ TodoOK' /\ HoldsIn(table', host', pipes')
        /\ DOMAIN pipes' = DOMAIN pipes \ ChildFields
        /\ DOMAIN pipes' \subseteq Fields /\ DOMAIN drain' = {}
    BY <1>1, TakeKeeps DEF After
  <1>3. DOMAIN pipes = Ends(wants) /\ wants \in SUBSET StreamSet
    BY <1>1 DEF TableInv, Before, HostKept
  <1>4. DOMAIN pipes' = {ParentEnd(s) : s \in wants}
    BY <1>2, <1>3, FieldsFacts
  <1> QED
    BY <1>1, <1>2, <1>4 DEF TableInv, Before, After

\* All that is left in the fields goes to the slots.
LEMMA HandOverKeeps == TableInv /\ HandOver => TableInv'
  <1> SUFFICES ASSUME TableInv, HandOver PROVE TableInv'
    OBVIOUS
  <1>1. /\ step = "drain" /\ step' = "started"
        /\ drain' = Restrict(pipes, DOMAIN pipes \cap ParentFields)
        /\ table' = Closing(pipes, Fields \ ParentFields) /\ pipes' = EmptyMap
        /\ UNCHANGED <<wants, host, todo>>
    BY DEF HandOver, optionVars
  <1>2. /\ HostKept /\ TodoOK /\ HoldsIn(table, host, pipes)
        /\ DOMAIN pipes = {ParentEnd(s) : s \in wants} /\ wants \in SUBSET StreamSet
        /\ DOMAIN pipes \subseteq Fields
    BY <1>1 DEF TableInv, After, HostKept
  <1>3. DOMAIN pipes \subseteq ParentFields
    BY <1>2 DEF ParentFields
  <1>4. DOMAIN pipes \cap ParentFields = DOMAIN pipes
    BY <1>3
  <1>5. {pipes[e] : e \in DOMAIN pipes \cap (Fields \ ParentFields)} = {}
    BY <1>3
  <1>6. DOMAIN drain' = DOMAIN pipes /\ \A e \in DOMAIN pipes : drain'[e] = pipes[e]
    BY <1>1, <1>4 DEF Restrict
  <1>7. DOMAIN table' = DOMAIN table /\ \A fd \in DOMAIN table : table'[fd] = table[fd]
    <2>1. DOMAIN table \ {pipes[e] : e \in DOMAIN pipes \cap (Fields \ ParentFields)}
            = DOMAIN table
      BY <1>5, Zenon
    <2>2. table' = Restrict(table, DOMAIN table)
      BY <1>1, <2>1 DEF Closing
    <2> QED
      BY <2>2 DEF Restrict
  <1>8. HoldsIn(table', host', drain')
    <2>1. host' = host
      BY <1>1
    <2>2. host \subseteq DOMAIN table'
      BY <1>2, <1>7 DEF HoldsIn
    <2>3. \A e \in DOMAIN drain' :
            drain'[e] \in DOMAIN table' \ host /\ table'[drain'[e]] = e
      BY <1>2, <1>6, <1>7 DEF HoldsIn
    <2>4. \A fd \in DOMAIN table' \ host : \E e \in DOMAIN drain' : drain'[e] = fd
      BY <1>2, <1>6, <1>7 DEF HoldsIn
    <2> QED
      BY <2>1, <2>2, <2>3, <2>4 DEF HoldsIn
  <1>9. HostKept' /\ TodoOK'
    BY <1>1, <1>2, <1>7 DEF HostKept, TodoOK
  <1>10. DOMAIN pipes' = {}
    BY <1>1 DEF EmptyMap
  <1> QED
    BY <1>1, <1>2, <1>6, <1>8, <1>9, <1>10 DEF TableInv, Before, After

LEMMA SpawnStartKeeps == TableInv /\ SpawnStart => TableInv'
  <1> SUFFICES ASSUME TableInv, SpawnStart PROVE TableInv'
    OBVIOUS
  <1>1. CASE MakePipe
    BY <1>1, MakePipeKeeps
  <1>2. CASE PipesMade
    BY <1>2, PipesMadeKeeps
  <1>3. CASE AddActions
    BY <1>3, AddActionsKeeps
  <1>4. CASE ListDescriptors
    BY <1>4, TableUnchangedKeeps DEF ListDescriptors, optionVars, ownerVars, Before
  <1>5. CASE Fail
    BY <1>5, FailKeeps
  <1>6. CASE PosixSpawn
    BY <1>6, TableUnchangedKeeps DEF PosixSpawn, optionVars, ownerVars, Before
  <1>7. CASE Fork
    BY <1>7, TableUnchangedKeeps DEF Fork, optionVars, ownerVars, Before
  <1>8. CASE DropChildEnds
    BY <1>8, DropChildEndsKeeps
  <1>9. CASE HandOver
    BY <1>9, HandOverKeeps
  <1> QED
    BY <1>1, <1>2, <1>3, <1>4, <1>5, <1>6, <1>7, <1>8, <1>9 DEF SpawnStart

-----------------------------------------------------------------------------
(***************************************************************************)
(* The child.  What both backends have it do is a proper list of           *)
(* operations: each duplicates the child's end of a stream to its target   *)
(* or closes descriptors, no end is closed before it has been duplicated,  *)
(* and a standard descriptor of the host is never closed.                  *)
(***************************************************************************)

Source(s) == pipes[ChildEnd(s)]
Dup2Of(s) == Dup2(Source(s), Target[s])
Closable == (0..MaxFd) \ (host \cap (0..2))
Operations(done) == {Dup2Of(s) : s \in done} \cup {Close(fds) : fds \in SUBSET Closable}

\* A list that duplicates the ends of the streams done, and spares the others.
Proper(list, done) ==
  /\ list \in Seq(Operations(done))
  /\ \A i, k \in 1..Len(list) : \A s \in done :
       (i < k /\ list[i].op = "close" /\ list[k] = Dup2Of(s)) =>
         Source(s) \notin list[i].fds
  /\ \A i \in 1..Len(list) : \A s \in wants \ done :
       list[i].op = "close" => Source(s) \notin list[i].fds
  /\ \A s \in done : \E i \in 1..Len(list) : list[i] = Dup2Of(s)

\* What the file actions are for.
ActionsInv ==
  /\ step = "pipes" => actions = <<>>
  /\ step = "actions" => Proper(actions, wants \ Left)
  /\ step = "posix_spawn" => Proper(actions, wants)

\* What a child that runs has: its pipes or the host's files at 0, 1 and 2, and
\* nowhere an end of the parent.
Supplied(fds) ==
  /\ \A fd \in DOMAIN fds : \A s \in wants : fds[fd] # ParentEnd(s)
  /\ 0..2 \subseteq host =>
       \A s \in StreamSet :
         /\ Target[s] \in DOMAIN fds
         /\ fds[Target[s]] = IF s \in wants THEN ChildEnd(s) ELSE Host

ChildInv ==
  /\ {"state", "fds"} \subseteq DOMAIN child
  /\ NoParentEndInChild
  /\ child.state = "running" => Supplied(child.fds)

\* The numbers of the ends.
LEMMA NumberFacts ==
  ASSUME HostKept, Holds(Ends(wants))
  PROVE  /\ \A file \in Ends(wants) :
              pipes[file] \in DOMAIN table \ host /\ table[pipes[file]] = file
         /\ \A fd \in DOMAIN table : \A file \in Ends(wants) :
              table[fd] = file => fd = pipes[file]
         /\ \A fd \in DOMAIN table : table[fd] \in Ends(wants) \cup {Host}
  <1>1. Host \notin Ends(wants)
    BY EndsDiffer DEF HostKept, Ends
  <1>2. \A file \in Ends(wants) :
          pipes[file] \in DOMAIN table \ host /\ table[pipes[file]] = file
    BY DEF Holds, HoldsIn
  <1>3. \A fd \in DOMAIN table \ host : \E e \in Ends(wants) : pipes[e] = fd
    BY DEF Holds, HoldsIn
  <1>4. \A fd \in host : table[fd] = Host
    BY DEF HostKept
  <1> QED
    BY <1>1, <1>2, <1>3, <1>4

\* The numbers of the ends, stream by stream.
LEMMA SourceFacts ==
  ASSUME HostKept, Holds(Ends(wants)), NEW s \in wants
  PROVE  /\ Source(s) \in DOMAIN table \ host /\ table[Source(s)] = ChildEnd(s)
         /\ pipes[ParentEnd(s)] \in DOMAIN table \ host
         /\ table[pipes[ParentEnd(s)]] = ParentEnd(s)
         /\ Source(s) \in Closable /\ pipes[ParentEnd(s)] \in Closable
         /\ \A t \in wants : Source(t) # pipes[ParentEnd(s)]
         /\ \A t \in wants : t # s => Source(t) # Source(s)
  <1>1. \A t \in wants : ChildEnd(t) \in Ends(wants) /\ ParentEnd(t) \in Ends(wants)
    BY DEF Ends
  <1>2. \A t \in wants :
          /\ Source(t) \in DOMAIN table \ host /\ table[Source(t)] = ChildEnd(t)
          /\ pipes[ParentEnd(t)] \in DOMAIN table \ host
          /\ table[pipes[ParentEnd(t)]] = ParentEnd(t)
    BY <1>1, NumberFacts DEF Source
  <1>3. \A t \in wants : ChildEnd(t) # ParentEnd(s) /\ (t # s => ChildEnd(t) # ChildEnd(s))
    BY EndsDiffer DEF HostKept
  <1>4. Source(s) \in Closable /\ pipes[ParentEnd(s)] \in Closable
    BY <1>2 DEF Closable, HostKept
  <1> QED
    BY <1>2, <1>3, <1>4

LEMMA TargetFacts ==
  /\ \A s \in StreamSet : Target[s] \in 0..2
  /\ \A s, t \in StreamSet : Target[s] = Target[t] => s = t
  BY DEF StreamSet, Target

LEMMA Dup2OfDiffer ==
  ASSUME NEW s \in StreamSet, NEW t \in StreamSet, Dup2Of(s) = Dup2Of(t)
  PROVE  s = t
  <1>1. Dup2Of(s).to = Target[s] /\ Dup2Of(t).to = Target[t]
    BY DEF Dup2Of, Dup2
  <1> QED
    BY <1>1, TargetFacts

\* An operation duplicates or closes, and it shows which.
LEMMA OperationFacts ==
  ASSUME NEW done \in SUBSET StreamSet, NEW o \in Operations(done)
  PROVE  /\ \/ \E s \in done : o = Dup2Of(s)
            \/ o.op = "close" /\ o.fds \subseteq Closable
         /\ \A s \in StreamSet : o = Dup2Of(s) =>
              /\ o.op = "dup2" /\ o.from = Source(s) /\ o.to = Target[s]
              /\ \A t \in StreamSet : o = Dup2Of(t) => t = s
  <1>1. \A s \in StreamSet : o = Dup2Of(s) =>
          o.op = "dup2" /\ o.from = Source(s) /\ o.to = Target[s]
    BY DEF Dup2Of, Dup2
  <1>2. ASSUME NEW s \in StreamSet, NEW t \in StreamSet, o = Dup2Of(s), o = Dup2Of(t)
        PROVE  s = t
    BY <1>1, <1>2, TargetFacts
  <1>3. \/ \E s \in done : o = Dup2Of(s)
        \/ \E fds \in SUBSET Closable : o = Close(fds)
    BY DEF Operations
  <1>4. \A fds \in SUBSET Closable : o = Close(fds) => o.op = "close" /\ o.fds = fds
    BY DEF Close
  <1> QED
    BY <1>1, <1>2, <1>3, <1>4

-----------------------------------------------------------------------------
(***************************************************************************)
(* How proper lists come about.                                            *)
(***************************************************************************)

LEMMA OperationsGrow ==
  ASSUME NEW done, NEW more, done \subseteq more, NEW o \in Operations(done)
  PROVE  o \in Operations(more)
  BY DEF Operations

\* Another stream is duplicated.
LEMMA ProperDup2 ==
  ASSUME HostKept, NEW list, NEW done \in SUBSET wants, Proper(list, done),
         NEW s \in wants \ done
  PROVE  Proper(Append(list, Dup2Of(s)), done \cup {s})
  <1> DEFINE n == Len(list)
             longer == Append(list, Dup2Of(s))
             more == done \cup {s}
  <1>1. /\ wants \subseteq StreamSet /\ done \subseteq StreamSet
        /\ more \subseteq StreamSet /\ s \in StreamSet
    BY DEF HostKept
  <1>2. /\ list \in Seq(Operations(done)) /\ n \in Nat
        /\ \A i \in 1..n : list[i] \in Operations(done)
    BY DEF Proper
  <1>3. \A i \in 1..n : list[i] \in Operations(more)
    BY <1>2, OperationsGrow
  <1>4. Dup2Of(s) \in Operations(more)
    BY DEF Operations
  <1>5. longer \in Seq(Operations(more))
    <2>1. list \in Seq(Operations(more))
      <3> DEFINE S == Operations(done)
                 T == Operations(more)
      <3>1. list \in Seq(S) /\ \A i \in 1..Len(list) : list[i] \in T
        BY <1>2, <1>3
      <3> HIDE DEF S, T
      <3>2. list \in Seq(T)
        BY <3>1
      <3> QED
        BY <3>2 DEF T
    <2> QED
      BY <1>4, <2>1
  <1>6. /\ Len(longer) = n + 1 /\ longer[n + 1] = Dup2Of(s)
        /\ \A i \in 1..n : longer[i] = list[i]
    BY <1>2
  <1> HIDE DEF longer, n
  <1>7. Dup2Of(s).op # "close"
    BY DEF Dup2Of, Dup2
  <1>8. ASSUME NEW i \in 1..(n + 1), NEW k \in 1..(n + 1), NEW t \in more,
               i < k, longer[i].op = "close", longer[k] = Dup2Of(t)
        PROVE  Source(t) \notin longer[i].fds
    <2>1. i \in 1..n /\ longer[i] = list[i]
      BY <1>2, <1>6, <1>8
    <2>2. CASE k = n + 1
      <3>1. t = s
        BY <1>1, <1>4, <1>6, <1>8, <2>2, OperationFacts
      <3> QED
        BY <1>8, <2>1, <3>1 DEF Proper, n
    <2>3. CASE k # n + 1
      <3>1. k \in 1..n /\ list[k] = Dup2Of(t)
        BY <1>2, <1>6, <1>8, <2>3
      <3>2. t \in done
        <4>1. list[k] \in Operations(done)
          BY <1>2, <3>1
        <4>2. list[k].op = "dup2"
          BY <3>1 DEF Dup2Of, Dup2
        <4>3. PICK u \in done : list[k] = Dup2Of(u)
          BY <1>1, <4>1, <4>2, OperationFacts
        <4> QED
          BY <1>1, <3>1, <4>3, Dup2OfDiffer
      <3> QED
        BY <1>8, <2>1, <3>1, <3>2 DEF Proper, n
    <2> QED
      BY <2>2, <2>3
  <1>9. ASSUME NEW i \in 1..(n + 1), NEW t \in wants \ more, longer[i].op = "close"
        PROVE  Source(t) \notin longer[i].fds
    <2>1. i \in 1..n /\ longer[i] = list[i]
      BY <1>2, <1>6, <1>7, <1>9
    <2> QED
      BY <1>9, <2>1 DEF Proper, n
  <1>10. ASSUME NEW t \in more PROVE \E i \in 1..(n + 1) : longer[i] = Dup2Of(t)
    <2>1. CASE t = s
      BY <1>2, <1>6, <2>1
    <2>2. CASE t \in done
      <3>1. PICK i \in 1..n : list[i] = Dup2Of(t)
        BY <2>2 DEF Proper, n
      <3> QED
        BY <1>2, <1>6, <3>1
    <2> QED
      BY <2>1, <2>2
  <1> QED
    BY <1>5, <1>6, <1>8, <1>9, <1>10 DEF Proper, longer

\* Descriptors are closed, none of them an end that is still to be duplicated.
LEMMA ProperClose ==
  ASSUME HostKept, NEW list, NEW done \in SUBSET wants, Proper(list, done),
         NEW fds \in SUBSET Closable,
         \A s \in wants \ done : Source(s) \notin fds
  PROVE  Proper(Append(list, Close(fds)), done)
  <1> DEFINE n == Len(list)
             longer == Append(list, Close(fds))
  <1>1. /\ list \in Seq(Operations(done)) /\ n \in Nat
        /\ Close(fds) \in Operations(done)
    BY DEF Proper, Operations
  <1>2. longer \in Seq(Operations(done))
    BY <1>1
  <1>3. /\ Len(longer) = n + 1 /\ longer[n + 1] = Close(fds)
        /\ \A i \in 1..n : longer[i] = list[i]
    BY <1>1
  <1> HIDE DEF longer, n
  <1>4. \A s \in wants : Close(fds) # Dup2Of(s)
    BY DEF Close, Dup2Of, Dup2
  <1>5. Close(fds).fds = fds
    BY DEF Close
  <1>6. ASSUME NEW i \in 1..(n + 1), NEW k \in 1..(n + 1), NEW t \in done,
               i < k, longer[i].op = "close", longer[k] = Dup2Of(t)
        PROVE  Source(t) \notin longer[i].fds
    <2>1. k # n + 1
      BY <1>3, <1>4, <1>6
    <2>2. i \in 1..n /\ k \in 1..n
      BY <1>1, <1>6, <2>1
    <2> QED
      BY <1>3, <1>6, <2>2 DEF Proper, n
  <1>7. ASSUME NEW i \in 1..(n + 1), NEW t \in wants \ done, longer[i].op = "close"
        PROVE  Source(t) \notin longer[i].fds
    <2>1. CASE i = n + 1
      BY <1>3, <1>5, <1>7, <2>1
    <2>2. CASE i # n + 1
      <3>1. i \in 1..n
        BY <1>1, <2>2
      <3> QED
        BY <1>3, <1>7, <3>1 DEF Proper, n
    <2> QED
      BY <2>1, <2>2
  <1>8. ASSUME NEW t \in done PROVE \E i \in 1..(n + 1) : longer[i] = Dup2Of(t)
    <2>1. PICK i \in 1..n : list[i] = Dup2Of(t)
      BY DEF Proper, n
    <2> QED
      BY <1>1, <1>3, <2>1
  <1> QED
    BY <1>2, <1>3, <1>6, <1>7, <1>8 DEF Proper, longer

\* posix_spawn: the actions of a stream, one after the other.
LEMMA ProperStream ==
  ASSUME HostKept, Holds(Ends(wants)), NEW done \in SUBSET wants,
         Proper(actions, done), NEW s \in wants \ done
  PROVE  Proper(actions \o StreamActions(s), done \cup {s})
  <1> DEFINE fds == {Source(s), pipes[ParentEnd(s)]}
             one == Append(actions, Dup2Of(s))
  <1>1. actions \in Seq(Operations(done))
    BY DEF Proper
  <1>2. actions \o StreamActions(s) = Append(one, Close(fds))
    <2>1. StreamActions(s) = <<Dup2Of(s), Close(fds)>>
      BY DEF StreamActions, Dup2Of, Source
    <2> HIDE DEF fds
    <2>2. \A a, b : actions \o <<a, b>> = Append(Append(actions, a), b)
      BY <1>1
    <2> QED
      BY <2>1, <2>2
  <1>3. Proper(one, done \cup {s})
    BY ProperDup2
  <1>4. fds \in SUBSET Closable
    BY SourceFacts
  <1>5. \A t \in wants \ (done \cup {s}) : Source(t) \notin fds
    BY SourceFacts
  <1> HIDE DEF one, fds
  <1>6. Proper(Append(one, Close(fds)), done \cup {s})
    <2>1. done \cup {s} \in SUBSET wants
      OBVIOUS
    <2> QED
      BY <1>3, <1>4, <1>5, <2>1, ProperClose
  <1> QED
    BY <1>2, <1>6

\* fork: the ends of all streams are duplicated.
LEMMA ProperFork ==
  ASSUME HostKept
  PROVE  Proper(ForkActions, wants)
  <1>1. /\ Wanted \in Seq(wants)
        /\ \A s \in wants : \E i \in 1..Len(Wanted) : Wanted[i] = s
    BY WantedFacts DEF HostKept
  <1> DEFINE n == Len(Wanted)
  <1>2. n \in Nat /\ DOMAIN Wanted = 1..n /\ \A i \in 1..n : Wanted[i] \in wants
    BY <1>1
  <1>3. ForkActions = [i \in 1..n |-> Dup2Of(Wanted[i])]
    BY <1>2 DEF ForkActions, Dup2Of, Source
  <1> HIDE DEF n
  <1>4. \A i \in 1..n : ForkActions[i] = Dup2Of(Wanted[i]) /\ ForkActions[i].op # "close"
    BY <1>3 DEF Dup2Of, Dup2
  <1>5. \A i \in 1..n : ForkActions[i] \in Operations(wants)
    BY <1>2, <1>4 DEF Operations
  <1>6. ForkActions \in Seq(Operations(wants)) /\ Len(ForkActions) = n
    BY <1>2, <1>3, <1>5
  <1> QED
    BY <1>1, <1>4, <1>6 DEF Proper, n

-----------------------------------------------------------------------------
(***************************************************************************)
(* The descriptors of the child while it works through a proper list.      *)
(***************************************************************************)

ChildTables ==
  UNION {[fds -> [file : Ends(wants) \cup {Host}, cloexec : BOOLEAN]] :
           fds \in SUBSET Nat}

Duplicated(list, i) == {s \in wants : \E k \in 1..i : list[k] = Dup2Of(s)}

\* After i operations: an end of the parent is where it was in the parent and
\* goes with execve, what is still to be duplicated is there, and when the host's
\* standard descriptors are open they are replaced as far as the list has got.
Good(list, i, fds) ==
  /\ fds \in ChildTables
  /\ \A fd \in DOMAIN fds : \A s \in wants :
       fds[fd].file = ParentEnd(s) =>
         fd = pipes[ParentEnd(s)] /\ fds[fd].cloexec
  /\ \A k \in (i + 1)..Len(list) : \A s \in wants :
       list[k] = Dup2Of(s) =>
         /\ Source(s) \in DOMAIN fds
         /\ 0..2 \subseteq host => fds[Source(s)].file = ChildEnd(s)
  /\ 0..2 \subseteq host =>
       \A s \in StreamSet :
         /\ Target[s] \in DOMAIN fds /\ ~fds[Target[s]].cloexec
         /\ fds[Target[s]].file = IF s \in Duplicated(list, i)
                                  THEN ChildEnd(s) ELSE Host

LEMMA ChildTablesFacts ==
  ASSUME NEW fds
  PROVE  fds \in ChildTables <=>
           /\ fds = [fd \in DOMAIN fds |-> fds[fd]]
           /\ DOMAIN fds \subseteq Nat
           /\ \A fd \in DOMAIN fds :
                fds[fd] \in [file : Ends(wants) \cup {Host}, cloexec : BOOLEAN]
  <1> DEFINE R == [file : Ends(wants) \cup {Host}, cloexec : BOOLEAN]
  <1>1. ChildTables = UNION {[D -> R] : D \in SUBSET Nat}
    BY DEF ChildTables
  <1> HIDE DEF R
  <1>2. ASSUME fds \in ChildTables
        PROVE  /\ fds = [fd \in DOMAIN fds |-> fds[fd]]
               /\ DOMAIN fds \subseteq Nat
               /\ \A fd \in DOMAIN fds : fds[fd] \in R
    <2>1. PICK D \in SUBSET Nat : fds \in [D -> R]
      BY <1>1, <1>2
    <2> QED
      BY <2>1
  <1>3. ASSUME /\ fds = [fd \in DOMAIN fds |-> fds[fd]]
               /\ DOMAIN fds \subseteq Nat
               /\ \A fd \in DOMAIN fds : fds[fd] \in R
        PROVE  fds \in ChildTables
    <2> DEFINE D == DOMAIN fds
    <2>1. D \in SUBSET Nat
      BY <1>3
    <2>2. fds \in [D -> R]
      BY <1>3
    <2> HIDE DEF D
    <2> QED
      BY <1>1, <2>1, <2>2
  <1> QED
    BY <1>2, <1>3 DEF R

\* The copy of the parent's table.
StartTable ==
  [fd \in DOMAIN table |-> [file |-> table[fd], cloexec |-> Cloexec(table[fd])]]

LEMMA GoodStart ==
  ASSUME HostKept, Holds(Ends(wants)), NEW list
  PROVE  Good(list, 0, StartTable)
  <1>1. /\ DOMAIN StartTable = DOMAIN table
        /\ \A fd \in DOMAIN table :
             /\ StartTable[fd].file = table[fd]
             /\ StartTable[fd].cloexec = (table[fd] # Host)
    BY DEF StartTable, Cloexec
  <1>2. StartTable \in ChildTables
    <2>1. DOMAIN table \subseteq Nat
      BY DEF HostKept
    <2>2. \A fd \in DOMAIN table : table[fd] \in Ends(wants) \cup {Host}
      BY NumberFacts
    <2>3. \A fd \in DOMAIN table :
            StartTable[fd] \in [file : Ends(wants) \cup {Host}, cloexec : BOOLEAN]
      BY <2>2 DEF StartTable, Cloexec
    <2>4. StartTable = [fd \in DOMAIN StartTable |-> StartTable[fd]]
      BY DEF StartTable
    <2> QED
      BY <1>1, <2>1, <2>3, <2>4, ChildTablesFacts
  <1>3. ASSUME NEW fd \in DOMAIN table, NEW s \in wants, table[fd] = ParentEnd(s)
        PROVE  fd = pipes[ParentEnd(s)] /\ table[fd] # Host
    <2>1. ParentEnd(s) \in Ends(wants)
      BY DEF Ends
    <2> QED
      BY <1>3, <2>1, NumberFacts, EndsDiffer DEF HostKept
  <1>4. \A s \in wants : Source(s) \in DOMAIN table /\ table[Source(s)] = ChildEnd(s)
    BY SourceFacts
  <1>5. Duplicated(list, 0) = {}
    BY DEF Duplicated
  <1>6. 0..2 \subseteq host =>
          \A s \in StreamSet : Target[s] \in DOMAIN table /\ table[Target[s]] = Host
    BY TargetFacts DEF HostKept
  <1> QED
    BY <1>1, <1>2, <1>3, <1>4, <1>5, <1>6, ZenonT(60) DEF Good

\* What Perform does: dup2 onto the same number nothing, onto another the file
\* without the flag, and close takes away.
LEMMA DuplicateGood ==
  ASSUME HostKept, Holds(Ends(wants)), NEW list, Proper(list, wants),
         NEW i \in 1..Len(list), NEW fds, Good(list, i - 1, fds),
         NEW s \in wants, list[i] = Dup2Of(s)
  PROVE  Good(list, i, Perform(list[i], fds))
  <1> DEFINE from == Source(s)
             to == Target[s]
             next == Perform(list[i], fds)
  <1>1. /\ s \in StreamSet /\ wants \subseteq StreamSet /\ Len(list) \in Nat
        /\ to \in 0..2 /\ i \in Nat
    BY TargetFacts DEF HostKept, Proper
  <1>2. /\ fds \in ChildTables
        /\ fds = [fd \in DOMAIN fds |-> fds[fd]]
        /\ DOMAIN fds \subseteq Nat
        /\ \A fd \in DOMAIN fds :
             fds[fd] \in [file : Ends(wants) \cup {Host}, cloexec : BOOLEAN]
    BY ChildTablesFacts DEF Good
  <1>3. /\ from \in DOMAIN fds
        /\ 0..2 \subseteq host => fds[from].file = ChildEnd(s)
    BY <1>1 DEF Good
  <1>4. \A t \in wants : fds[from].file # ParentEnd(t)
    BY <1>3, SourceFacts DEF Good
  <1>5. list[i].op = "dup2" /\ list[i].from = from /\ list[i].to = to
    BY DEF Dup2Of, Dup2
  <1>6. next = IF from = to THEN fds
               ELSE Insert(fds, to, [file |-> fds[from].file, cloexec |-> FALSE])
    BY <1>5 DEF Perform
  <1>7. 0..2 \subseteq host => from # to
    <2>1. from \notin host
      BY SourceFacts
    <2> QED
      BY <1>1, <2>1
  <1> HIDE DEF next, from, to
  <1>8. /\ DOMAIN next = DOMAIN fds \cup {to}
        /\ \A fd \in DOMAIN fds : fd # to => next[fd] = fds[fd]
        /\ from # to => next[to].file = fds[from].file /\ ~next[to].cloexec
        /\ from = to => next[to] = fds[to]
        /\ next[to] \in [file : Ends(wants) \cup {Host}, cloexec : BOOLEAN]
        /\ next = [fd \in DOMAIN next |-> next[fd]]
    BY <1>2, <1>3, <1>6 DEF Insert
  <1>9. next \in ChildTables
    <2>1. DOMAIN next \subseteq Nat
      BY <1>1, <1>2, <1>8
    <2>2. \A fd \in DOMAIN next :
            next[fd] \in [file : Ends(wants) \cup {Host}, cloexec : BOOLEAN]
      BY <1>2, <1>8
    <2> QED
      BY <1>8, <2>1, <2>2, ChildTablesFacts
  <1>10. ASSUME NEW fd \in DOMAIN next, NEW t \in wants,
                next[fd].file = ParentEnd(t)
         PROVE  fd = pipes[ParentEnd(t)] /\ next[fd].cloexec
    <2>1. fd \in DOMAIN fds /\ next[fd] = fds[fd]
      BY <1>3, <1>4, <1>8, <1>10
    <2> QED
      BY <1>10, <2>1 DEF Good
  <1>11. ASSUME NEW k \in (i + 1)..Len(list), NEW t \in wants, list[k] = Dup2Of(t)
         PROVE  /\ Source(t) \in DOMAIN next
                /\ 0..2 \subseteq host => next[Source(t)].file = ChildEnd(t)
    <2>1. k \in ((i - 1) + 1)..Len(list)
      BY <1>1
    <2>2. /\ Source(t) \in DOMAIN fds
          /\ 0..2 \subseteq host => fds[Source(t)].file = ChildEnd(t)
      BY <1>11, <2>1 DEF Good
    <2>3. 0..2 \subseteq host => Source(t) # to
      BY <1>1, SourceFacts
    <2> QED
      BY <1>8, <2>2, <2>3
  <1>12. Duplicated(list, i) = Duplicated(list, i - 1) \cup {s}
    <2>1. \A k \in 1..i : k = i \/ k \in 1..(i - 1)
      BY <1>1
    <2>2. 1..(i - 1) \subseteq 1..i /\ i \in 1..i
      BY <1>1
    <2>3. \A t \in wants : list[i] = Dup2Of(t) => t = s
      BY <1>1, Dup2OfDiffer
    <2> QED
      BY <2>1, <2>2, <2>3 DEF Duplicated
  <1>13. ASSUME 0..2 \subseteq host, NEW t \in StreamSet
         PROVE  /\ Target[t] \in DOMAIN next /\ ~next[Target[t]].cloexec
                /\ next[Target[t]].file = IF t \in Duplicated(list, i)
                                          THEN ChildEnd(t) ELSE Host
    <2>1. CASE t = s
      BY <1>3, <1>7, <1>8, <1>12, <1>13, <2>1 DEF to
    <2>2. CASE t # s
      <3>1. Target[t] # to
        BY <1>1, <2>2, TargetFacts DEF to
      <3>2. /\ Target[t] \in DOMAIN fds /\ ~fds[Target[t]].cloexec
            /\ fds[Target[t]].file = IF t \in Duplicated(list, i - 1)
                                     THEN ChildEnd(t) ELSE Host
        BY <1>13 DEF Good
      <3> QED
        BY <1>8, <1>12, <2>2, <3>1, <3>2
    <2> QED
      BY <2>1, <2>2
  <1>14. Good(list, i, next)
    BY <1>9, <1>10, <1>11, <1>13 DEF Good
  <1> QED
    BY <1>14 DEF next

LEMMA CloseGood ==
  ASSUME HostKept, Holds(Ends(wants)), NEW list, Proper(list, wants),
         NEW i \in 1..Len(list), NEW fds, Good(list, i - 1, fds),
         list[i].op = "close", list[i].fds \subseteq Closable
  PROVE  Good(list, i, Perform(list[i], fds))
  <1> DEFINE gone == list[i].fds
             next == Perform(list[i], fds)
  <1>1. Len(list) \in Nat /\ i \in Nat /\ wants \subseteq StreamSet
    BY DEF Proper, HostKept
  <1>2. /\ fds \in ChildTables
        /\ DOMAIN fds \subseteq Nat
        /\ \A fd \in DOMAIN fds :
             fds[fd] \in [file : Ends(wants) \cup {Host}, cloexec : BOOLEAN]
    BY ChildTablesFacts DEF Good
  <1>3. next = Restrict(fds, DOMAIN fds \ gone)
    BY DEF Perform
  <1> HIDE DEF next
  <1>4. /\ DOMAIN next = DOMAIN fds \ gone
        /\ \A fd \in DOMAIN next : next[fd] = fds[fd]
        /\ next = [fd \in DOMAIN next |-> next[fd]]
    BY <1>3 DEF Restrict
  <1>5. next \in ChildTables
    BY <1>2, <1>4, ChildTablesFacts
  <1>6. ASSUME NEW k \in (i + 1)..Len(list), NEW t \in wants, list[k] = Dup2Of(t)
        PROVE  /\ Source(t) \in DOMAIN next
               /\ 0..2 \subseteq host => next[Source(t)].file = ChildEnd(t)
    <2>1. k \in ((i - 1) + 1)..Len(list) /\ k \in 1..Len(list) /\ i < k
      BY <1>1
    <2>2. /\ Source(t) \in DOMAIN fds
          /\ 0..2 \subseteq host => fds[Source(t)].file = ChildEnd(t)
      BY <1>6, <2>1 DEF Good
    <2>3. Source(t) \notin gone
      BY <1>6, <2>1 DEF Proper
    <2> QED
      BY <1>4, <2>2, <2>3
  <1>7. Duplicated(list, i) = Duplicated(list, i - 1)
    <2>1. \A k \in 1..i : k = i \/ k \in 1..(i - 1)
      BY <1>1
    <2>2. 1..(i - 1) \subseteq 1..i
      BY <1>1
    <2>3. \A t \in wants : list[i] # Dup2Of(t)
      BY DEF Dup2Of, Dup2
    <2> QED
      BY <2>1, <2>2, <2>3 DEF Duplicated
  <1>8. ASSUME 0..2 \subseteq host, NEW t \in StreamSet
        PROVE  /\ Target[t] \in DOMAIN next /\ ~next[Target[t]].cloexec
               /\ next[Target[t]].file = IF t \in Duplicated(list, i)
                                         THEN ChildEnd(t) ELSE Host
    <2>1. Target[t] \notin gone
      BY <1>8, TargetFacts DEF Closable
    <2> QED
      BY <1>4, <1>7, <1>8, <2>1 DEF Good
  <1>9. Good(list, i, next)
    BY <1>4, <1>5, <1>6, <1>8 DEF Good
  <1> QED
    BY <1>9 DEF next

LEMMA PerformGood ==
  ASSUME HostKept, Holds(Ends(wants)), NEW list, Proper(list, wants),
         NEW i \in 1..Len(list), NEW fds, Good(list, i - 1, fds)
  PROVE  Good(list, i, Perform(list[i], fds))
  <1>1. list[i] \in Operations(wants) /\ wants \subseteq StreamSet
    BY DEF Proper, HostKept
  <1>2. \/ \E s \in wants : list[i] = Dup2Of(s)
        \/ list[i].op = "close" /\ list[i].fds \subseteq Closable
    BY <1>1, OperationFacts
  <1> QED
    BY <1>2, DuplicateGood, CloseGood

LEMMA RunsGood ==
  ASSUME HostKept, Holds(Ends(wants)), NEW list, Proper(list, wants), NEW after,
         after[0] = StartTable,
         \A i \in 1..Len(list) :
           Good(list, i - 1, after[i - 1]) =>
             after[i] = Perform(list[i], after[i - 1])
  PROVE  \A i \in 0..Len(list) : Good(list, i, after[i])
  <1> DEFINE n == Len(list)
             T == {i \in Nat : i <= n => Good(list, i, after[i])}
  <1>1. n \in Nat
    BY DEF Proper
  <1>2. 0 \in T
    BY GoodStart
  <1>3. ASSUME NEW i \in Nat, i \in T PROVE i + 1 \in T
    <2> SUFFICES ASSUME i + 1 <= n PROVE Good(list, i + 1, after[i + 1])
      OBVIOUS
    <2> DEFINE k == i + 1
    <2>1. k \in 1..n /\ k - 1 = i
      BY <1>1
    <2>2. Good(list, k - 1, after[k - 1])
      BY <1>1, <1>3, <2>1
    <2> HIDE DEF k
    <2>3. after[k] = Perform(list[k], after[k - 1])
      BY <2>1, <2>2
    <2>4. Good(list, k, Perform(list[k], after[k - 1]))
      BY <2>1, <2>2, PerformGood
    <2> QED
      BY <2>3, <2>4 DEF k
  <1> HIDE DEF T
  <1>4. Nat \subseteq T
    BY <1>2, <1>3, SetInduction
  <1> QED
    BY <1>1, <1>4 DEF T

\* The recursion of PerformAll has a solution, and each solution is good.
LEMMA PerformAllGood ==
  ASSUME HostKept, Holds(Ends(wants)), NEW list, Proper(list, wants)
  PROVE  Good(list, Len(list), PerformAll(list))
  <1> DEFINE n == Len(list)
             turn == [i \in 1..n |-> [fds \in ChildTables |->
                        IF Good(list, i - 1, fds) THEN Perform(list[i], fds)
                        ELSE fds]]
             Turns(after) ==
               after = [i \in 0..n |->
                          IF i = 0 THEN StartTable
                          ELSE Perform(list[i], after[i - 1])]
             after == CHOOSE f : Turns(f)
  <1>1. n \in Nat /\ StartTable \in ChildTables
    BY GoodStart DEF Proper, Good
  <1>2. turn \in [1..n -> [ChildTables -> ChildTables]]
    <2>1. \A i \in 1..n, fds \in ChildTables :
            Good(list, i - 1, fds) => Perform(list[i], fds) \in ChildTables
      BY PerformGood DEF Good
    <2> QED
      BY <2>1
  <1>3. \A i \in 1..n, fds \in ChildTables :
          Good(list, i - 1, fds) => turn[i][fds] = Perform(list[i], fds)
    OBVIOUS
  <1> HIDE DEF turn
  <1>4. PICK run : IsRun(run, ChildTables, StartTable, n, turn)
    BY <1>1, <1>2, LoopRuns
  <1>5. /\ run \in [0..n -> ChildTables]
        /\ run[0] = StartTable
        /\ \A i \in 1..n : run[i] = turn[i][run[i - 1]]
    BY <1>4 DEF IsRun
  <1>6. \A i \in 1..n :
          Good(list, i - 1, run[i - 1]) => run[i] = Perform(list[i], run[i - 1])
    BY <1>1, <1>3, <1>5
  <1>7. \A i \in 0..n : Good(list, i, run[i])
    BY <1>5, <1>6, RunsGood
  <1>8. \A i \in 1..n : run[i] = Perform(list[i], run[i - 1])
    BY <1>1, <1>6, <1>7
  <1>9. Turns(run)
    <2>1. \A i \in 0..n : run[i] = IF i = 0 THEN StartTable
                                   ELSE Perform(list[i], run[i - 1])
      BY <1>1, <1>5, <1>8
    <2> QED
      BY <1>5, <2>1
  <1>10. Turns(after)
    BY <1>9, Zenon
  <1>11. PerformAll(list) = after[n]
    BY Zenon DEF PerformAll, StartTable
  <1> HIDE DEF after
  <1>12. /\ after[0] = StartTable
         /\ \A i \in 1..n : after[i] = Perform(list[i], after[i - 1])
    BY <1>1, <1>10
  <1>13. Good(list, n, after[n])
    BY <1>1, <1>12, RunsGood
  <1> QED
    BY <1>11, <1>13

\* What the child runs with.
LEMMA ProperSupplies ==
  ASSUME HostKept, Holds(Ends(wants)), NEW list, Proper(list, wants)
  PROVE  Supplied(Exec(PerformAll(list)))
  <1> DEFINE fds == PerformAll(list)
             n == Len(list)
  <1>1. Good(list, n, fds)
    BY PerformAllGood
  <1>2. \A s \in wants : \E i \in 1..n : list[i] = Dup2Of(s)
    BY DEF Proper
  <1> HIDE DEF fds, n
  <1>3. Duplicated(list, n) = wants
    BY <1>2 DEF Duplicated
  <1>4. /\ DOMAIN Exec(fds) = {fd \in DOMAIN fds : ~fds[fd].cloexec}
        /\ \A fd \in DOMAIN Exec(fds) : Exec(fds)[fd] = fds[fd].file
    BY DEF Exec
  <1>5. Supplied(Exec(fds))
    BY <1>1, <1>3, <1>4 DEF Supplied, Good
  <1> QED
    BY <1>5 DEF fds

-----------------------------------------------------------------------------
(***************************************************************************)
(* The actions and the child through spawn_start.                          *)
(***************************************************************************)

\* The numbers of the ends stay what they are while no descriptor changes.
LEMMA NumbersStay ==
  ASSUME UNCHANGED <<wants, host, pipes>>
  PROVE  /\ \A s : Source(s)' = Source(s)
         /\ \A s : Dup2Of(s)' = Dup2Of(s)
         /\ Closable' = Closable
  <1>1. \A s : Source(s)' = Source(s)
    BY DEF Source
  <1> QED
    BY <1>1 DEF Dup2Of, Closable

LEMMA ProperStays ==
  ASSUME UNCHANGED <<wants, host, pipes>>, Proper(actions', (wants \ Left)')
  PROVE  Proper(actions, wants \ Left)'
  <1>1. Operations(wants \ Left)' = Operations((wants \ Left)')
    BY NumbersStay DEF Operations
  <1> QED
    BY <1>1, NumbersStay DEF Proper

LEMMA ProperAllStays ==
  ASSUME UNCHANGED <<wants, host, pipes>>, Proper(actions', wants)
  PROVE  Proper(actions, wants)'
  <1>1. Operations(wants)' = Operations(wants)
    BY NumbersStay DEF Operations
  <1> QED
    BY <1>1, NumbersStay DEF Proper

LEMMA ProperNothing == Proper(<<>>, {})
  BY DEF Proper

\* Where spawn_start goes.
LEMMA StepsOn ==
  ASSUME SpawnStart
  PROVE  /\ step' \in Before \cup {"pipes", "drain", "returning", "failed", "started"}
         /\ UNCHANGED <<wants, host>>
  <1>1. CASE Fail
    BY <1>1 DEF Fail, PipeFails, FileActionFails, PosixSpawnFails, ForkFails,
                DrainFails, Return, ReturnError, optionVars
  <1>2. CASE ~Fail
    BY <1>2 DEF SpawnStart, MakePipe, PipesMade, AddActions, ListDescriptors,
                PosixSpawn, Fork, DropChildEnds, HandOver, Before, optionVars
  <1> QED
    BY <1>1, <1>2

LEMMA ActionsInvKeeps ==
  TableInv /\ ActionsInv /\ SpawnStart => ActionsInv'
  <1> SUFFICES ASSUME TableInv, ActionsInv, SpawnStart PROVE ActionsInv'
    OBVIOUS
  <1>0. HostKept /\ TodoOK /\ (step = "actions" => Holds(Ends(wants)))
    BY DEF TableInv, Before, After, Holds
  <1>1. CASE MakePipe
    BY <1>1 DEF MakePipe, ActionsInv
  <1>2. CASE PipesMade
    <2>1. /\ actions' = <<>> /\ todo' = Wanted /\ UNCHANGED <<wants, host, pipes>>
          /\ step' \in {"fork", "actions"}
      BY <1>2 DEF PipesMade, ActionsInv, optionVars, ownerVars
    <2>2. (wants \ Left)' = {}
      <3>1. \A s \in wants : \E i \in 1..Len(Wanted) : Wanted[i] = s
        BY <1>0, WantedFacts DEF HostKept
      <3>2. DOMAIN Wanted = 1..Len(Wanted)
        BY <1>0, WantedFacts DEF HostKept
      <3> QED
        BY <2>1, <3>1, <3>2 DEF Left
    <2>3. Proper(actions, wants \ Left)'
      BY <2>1, <2>2, ProperNothing, ProperStays
    <2> QED
      BY <2>1, <2>3 DEF ActionsInv
  <1>3. CASE AddActions
    <2> DEFINE s == Head(todo)
               done == wants \ Left
    <2>1. /\ step = "actions" /\ step' = "actions" /\ todo # <<>>
          /\ todo' = Tail(todo) /\ actions' = actions \o StreamActions(s)
          /\ UNCHANGED <<wants, host, pipes>>
      BY <1>3 DEF AddActions, optionVars, ownerVars
    <2>2. s \in wants /\ s \in Left /\ Left' = Left \ {s}
      BY <1>0, <2>1, TodoTail
    <2>3. Holds(Ends(wants)) /\ Proper(actions, done)
      BY <1>0, <2>1 DEF ActionsInv
    <2>4. done \in SUBSET wants /\ s \in wants \ done /\ (wants \ Left)' = done \cup {s}
      BY <2>1, <2>2
    <2> HIDE DEF s, done
    <2>5. Proper(actions', (wants \ Left)')
      BY <1>0, <2>1, <2>3, <2>4, ProperStream
    <2>6. Proper(actions, wants \ Left)'
      BY <2>1, <2>5, ProperStays
    <2> QED
      BY <2>1, <2>6 DEF ActionsInv
  <1>4. CASE ListDescriptors
    <2> DEFINE fds == DOMAIN table \ (0..2)
    <2>1. /\ step = "actions" /\ step' = "posix_spawn" /\ todo = <<>>
          /\ \/ actions' = Append(actions, Close(fds))
             \/ actions' = actions
          /\ UNCHANGED <<wants, host, pipes>>
      BY <1>4 DEF ListDescriptors, optionVars, ownerVars
    <2>2. wants \ Left = wants
      BY <2>1 DEF Left
    <2>3. Proper(actions, wants)
      BY <2>1, <2>2 DEF ActionsInv
    <2>4. fds \in SUBSET Closable
      BY <1>0 DEF HostKept, Closable
    <2> HIDE DEF fds
    <2>5. Proper(Append(actions, Close(fds)), wants)
      <3>1. wants \in SUBSET wants /\ \A s \in wants \ wants : Source(s) \notin fds
        OBVIOUS
      <3> QED
        BY <1>0, <2>3, <2>4, <3>1, ProperClose
    <2>6. Proper(actions', wants)
      BY <2>1, <2>3, <2>5
    <2>7. Proper(actions, wants)'
      BY <2>1, <2>6, ProperAllStays
    <2> QED
      BY <2>1, <2>7 DEF ActionsInv
  <1>5. CASE Fail
    <2>1. step' \in {"returning", "failed"}
      BY <1>5 DEF Fail, PipeFails, FileActionFails, PosixSpawnFails, ForkFails,
                  DrainFails, Return, ReturnError
    <2> QED
      BY <2>1 DEF ActionsInv
  <1>6. CASE PosixSpawn
    BY <1>6 DEF PosixSpawn, ActionsInv
  <1>7. CASE Fork
    BY <1>7 DEF Fork, ActionsInv
  <1>8. CASE DropChildEnds \/ HandOver
    BY <1>8 DEF DropChildEnds, HandOver, ActionsInv
  <1> QED
    BY <1>1, <1>2, <1>3, <1>4, <1>5, <1>6, <1>7, <1>8 DEF SpawnStart

\* Whatever starts the child, it has what was asked for.
LEMMA StartsSupplied ==
  ASSUME HostKept, Holds(Ends(wants)), UNCHANGED <<wants, host>>,
         NEW list, Proper(list, wants), Starts(list)
  PROVE  ChildInv'
  <1>1. Supplied(Exec(PerformAll(list)))
    BY ProperSupplies
  <1>2. child' = [state |-> "running", fds |-> Exec(PerformAll(list))]
    BY DEF Starts
  <1> DEFINE fds == Exec(PerformAll(list))
  <1> HIDE DEF fds
  <1>3. child' = [state |-> "running", fds |-> fds] /\ Supplied(fds)
    BY <1>1, <1>2 DEF fds
  <1>4. /\ child'.state = "running" /\ child'.fds = fds
        /\ {"state", "fds"} \subseteq DOMAIN child'
    BY <1>3
  <1> QED
    BY <1>3, <1>4 DEF ChildInv, Supplied, NoParentEndInChild

LEMMA ChildInvKeeps ==
  TableInv /\ ActionsInv /\ ChildInv /\ SpawnStart => ChildInv'
  <1> SUFFICES ASSUME TableInv, ActionsInv, ChildInv, SpawnStart PROVE ChildInv'
    OBVIOUS
  <1>0. /\ HostKept /\ UNCHANGED <<wants, host>>
        /\ step \in Before => Holds(Ends(wants))
    <2>1. HostKept /\ (step \in Before => Holds(Ends(wants)))
      BY DEF TableInv, Before, After, Holds
    <2> QED
      BY <2>1, StepsOn
  <1>1. CASE UNCHANGED child
    BY <1>0, <1>1 DEF ChildInv, Supplied, NoParentEndInChild
  <1>2. CASE PosixSpawn
    <2>1. Holds(Ends(wants)) /\ Proper(actions, wants) /\ Starts(actions)
      BY <1>0, <1>2 DEF PosixSpawn, Before, ActionsInv
    <2> QED
      BY <1>0, <2>1, StartsSupplied
  <1>3. CASE Fork
    <2>1. Holds(Ends(wants)) /\ Proper(ForkActions, wants)
      BY <1>0, <1>3, ProperFork DEF Fork, Before
    <2>2. CASE Starts(ForkActions)
      BY <1>0, <2>1, <2>2, StartsSupplied
    <2>3. CASE Starts(Append(ForkActions, Close(3..MaxFd)))
      <3> DEFINE fds == 3..MaxFd
      <3>1. fds \in SUBSET Closable
        BY TablesAssumption DEF Closable
      <3>2. wants \in SUBSET wants /\ \A s \in wants \ wants : Source(s) \notin fds
        OBVIOUS
      <3> HIDE DEF fds
      <3>3. Proper(Append(ForkActions, Close(fds)), wants)
        BY <1>0, <2>1, <3>1, <3>2, ProperClose
      <3> QED
        BY <1>0, <2>1, <2>3, <3>3, StartsSupplied DEF fds
    <2>4. CASE child' = [child EXCEPT !.state = "exited"]
      <3>1. /\ {"state", "fds"} \subseteq DOMAIN child'
            /\ child'.fds = child.fds /\ child'.state = "exited"
        BY <2>4 DEF ChildInv
      <3> QED
        BY <1>0, <3>1 DEF ChildInv, NoParentEndInChild
    <2> QED
      BY <1>3, <2>2, <2>3, <2>4 DEF Fork
  <1> QED
    BY <1>1, <1>2, <1>3 DEF SpawnStart, MakePipe, PipesMade, AddActions,
       ListDescriptors, Fail, PipeFails, FileActionFails, PosixSpawnFails,
       ForkFails, DrainFails, Return, DropChildEnds, HandOver

-----------------------------------------------------------------------------
(***************************************************************************)
(* The whole of spawn: where it is, the descriptors and the child.         *)
(***************************************************************************)

Loop == {"register", "first_wait", "check", "second_wait", "blocking", "returned"}

\* spawn_start ends in "failed" or "started", and RegisterFails in "dropped".
PlacesAgree ==
  /\ at \in Loop \cup {"start", "error"}
  /\ at = "start" => step \in Before \cup {"pipes", "drain", "returning"}
  /\ at \in Loop => step = "started"
  /\ at = "error" => step \in {"failed", "dropped"}
  /\ registered \subseteq wants
  /\ step = "dropped" => DOMAIN drain = {ParentEnd(s) : s \in registered}

LoopTypeOK ==
  /\ params \in [wait : BOOLEAN, timeout : SpawnTimeouts \cup {NoTimeout},
                cancel : Cancels, group : BOOLEAN]
  /\ clock \in Nat
  /\ deadline \in Nat \cup {NoTimeout}
  /\ timed_out \in BOOLEAN
  /\ kid \in [state : {"none", "running", "zombie", "reaped"},
             status : {NoStatus, "success", "failure", "terminated", "killed"},
             sig : {"none", "term", "kill"}]

\* A status is known exactly when the child has been reaped, and is its own;
\* a signal is sent by Check alone, once the deadline has passed.
ReportInv ==
  /\ status = NoStatus => kid.state # "reaped"
  /\ status # NoStatus => kid.state = "reaped" /\ status = kid.status
  /\ kid.state \in {"zombie", "reaped"} => kid.status # NoStatus
  /\ at \in {"start", "register", "first_wait", "error"} => status = NoStatus
  /\ at \in {"start", "register", "first_wait", "check", "error"} =>
       ~timed_out /\ kid.sig = "none"
  /\ timed_out => Expired
  /\ kid.sig # "none" => timed_out /\ params.cancel # "None"
  /\ at = "returned" /\ params.wait => status # NoStatus

Inv == TableInv /\ PlacesAgree /\ LoopTypeOK /\ ReportInv
-----------------------------------------------------------------------------
(***************************************************************************)
(* Inv holds at first and in every step.                                   *)
(***************************************************************************)

LEMMA InvInit == Init => Inv
  <1> SUFFICES ASSUME Init PROVE Inv
    OBVIOUS
  <1>1. TableInv
    BY TableInvInit DEF Init
  <1>2. PlacesAgree
    BY DEF Init, SpawnInit, PlacesAgree, Loop, Before
  <1>3. LoopTypeOK
    BY DEF Init, LoopTypeOK, NoStatus
  <1>4. ReportInv
    BY DEF Init, ReportInv
  <1> QED
    BY <1>1, <1>2, <1>3, <1>4 DEF Inv

\* Steps that leave the descriptors and their owners alone.
LEMMA TableStays ==
  TableInv /\ UNCHANGED spawnVars => TableInv'
  <1> SUFFICES ASSUME TableInv, UNCHANGED spawnVars PROVE TableInv'
    OBVIOUS
  <1>1. UNCHANGED <<wants, host, table, pipes, drain, step, todo>>
    BY DEF spawnVars
  <1>2. HostKept' /\ TodoOK'
    BY <1>1 DEF TableInv, HostKept, TodoOK
  <1>3. Ends(wants \ Left)' = Ends(wants \ Left) /\ Ends(wants)' = Ends(wants)
    BY <1>1 DEF Ends, Left
  <1>4. /\ step \notin After => HoldsIn(table, host, pipes)'
        /\ step \in After => HoldsIn(table, host, drain)'
    BY <1>1 DEF TableInv, HoldsIn
  <1> QED
    BY <1>1, <1>2, <1>3, <1>4 DEF TableInv

LEMMA PlacesStay ==
  PlacesAgree /\ UNCHANGED <<spawnVars, registered>>
  /\ (at' = at \/ (at \in Loop /\ at' \in Loop)) => PlacesAgree'
  BY DEF PlacesAgree, Loop, spawnVars

LEMMA StartingKeeps == Inv /\ Starting => Inv'
  <1> SUFFICES ASSUME Inv, Starting PROVE Inv'
    OBVIOUS
  <1>1. /\ TableInv /\ PlacesAgree /\ LoopTypeOK /\ ReportInv
        /\ at = "start" /\ SpawnStart
        /\ kid' = IF child.state = "none" /\ child'.state # "none"
                  THEN [kid EXCEPT !.state = "running"] ELSE kid
        /\ at' = CASE step' = "failed" -> "error"
                   [] step' = "started" -> "register"
                   [] OTHER -> at
        /\ UNCHANGED <<params, registered, deadline, timed_out, status, clock>>
    BY DEF Inv, Starting
  <1>2. TableInv'
    BY <1>1, SpawnStartKeeps
  <1>3. /\ step' \in Before \cup {"pipes", "drain", "returning", "failed", "started"}
        /\ UNCHANGED <<wants, host>>
    BY <1>1, StepsOn
  <1>4. /\ at' \in {"start", "error", "register"}
        /\ at' = "start" => step' \in Before \cup {"pipes", "drain", "returning"}
        /\ at' = "error" => step' = "failed"
        /\ at' = "register" => step' = "started"
    BY <1>1, <1>3 DEF Before
  <1>5. PlacesAgree'
    BY <1>1, <1>3, <1>4 DEF PlacesAgree, Loop, Before
  <1>6. LoopTypeOK'
    BY <1>1 DEF LoopTypeOK
  <1>7. kid'.sig = kid.sig /\ kid'.status = kid.status /\ kid'.state \in {kid.state, "running"}
    BY <1>1 DEF LoopTypeOK
  <1>8. ReportInv'
    BY <1>1, <1>4, <1>7 DEF ReportInv, Expired
  <1> QED
    BY <1>2, <1>5, <1>6, <1>8 DEF Inv

LEMMA RegisterKeeps ==
  ASSUME Inv, NEW s \in StreamSet, Register(s)
  PROVE  Inv'
  <1>1. TableInv'
    BY TableStays DEF Inv, Register
  <1>2. PlacesAgree'
    BY DEF Inv, PlacesAgree, Register, Loop, spawnVars
  <1>3. LoopTypeOK' /\ ReportInv'
    BY DEF Inv, Register, LoopTypeOK, ReportInv, Expired
  <1> QED
    BY <1>1, <1>2, <1>3 DEF Inv

\* The slots that are left are closed, those the reactor has are not.
LEMMA RegisterFailsKeeps == Inv /\ RegisterFails => Inv'
  <1> SUFFICES ASSUME Inv, RegisterFails PROVE Inv'
    OBVIOUS
  <1> DEFINE gone == {ParentEnd(s) : s \in wants \ registered}
  <1>1. /\ HostKept /\ TodoOK /\ step = "started" /\ step' = "dropped"
        /\ at = "register" /\ at' = "error"
        /\ HoldsIn(table, host, drain) /\ DOMAIN drain = {ParentEnd(s) : s \in wants}
        /\ DOMAIN drain \subseteq Fields /\ DOMAIN pipes = {}
        /\ registered \subseteq wants
        /\ table' = Closing(drain, gone) /\ drain' = Without(drain, gone)
        /\ UNCHANGED <<wants, host, pipes, todo, registered>>
    BY DEF Inv, TableInv, After, PlacesAgree, Loop, RegisterFails, DropSlotsLeft,
           optionVars
  <1>2. DOMAIN drain \ gone = {ParentEnd(s) : s \in registered}
    BY <1>1, EndsDiffer DEF HostKept
  <1> HIDE DEF gone
  <1>3. /\ HoldsIn(Closing(drain, gone), host, Without(drain, gone))
        /\ DOMAIN Without(drain, gone) = DOMAIN drain \ gone
        /\ DOMAIN Closing(drain, gone) \subseteq DOMAIN table
        /\ \A fd \in host : Closing(drain, gone)[fd] = table[fd]
    <2>1. HoldsIn(table, host, drain)
      BY <1>1
    <2> QED
      BY <2>1, HoldsFewer
  <1>4. HoldsIn(table', host, drain')
    BY <1>1, <1>3, Zenon
  <1>5. /\ HoldsIn(table', host', drain') /\ DOMAIN drain' = DOMAIN drain \ gone
        /\ DOMAIN table' \subseteq DOMAIN table
        /\ \A fd \in host : table'[fd] = table[fd]
    BY <1>1, <1>3, <1>4
  <1>6. HostKept' /\ TodoOK'
    BY <1>1, <1>5 DEF HostKept, TodoOK, HoldsIn
  <1>7. TableInv'
    BY <1>1, <1>5, <1>6 DEF TableInv, Before, After
  <1>8. PlacesAgree'
    BY <1>1, <1>2, <1>5 DEF PlacesAgree, Loop
  <1>9. LoopTypeOK' /\ ReportInv'
    BY DEF Inv, RegisterFails, LoopTypeOK, ReportInv, Expired
  <1> QED
    BY <1>7, <1>8, <1>9 DEF Inv

LEMMA RegisteredKeeps == Inv /\ Registered => Inv'
  <1> SUFFICES ASSUME Inv, Registered PROVE Inv'
    OBVIOUS
  <1>1. TableInv' /\ PlacesAgree'
    BY TableStays, PlacesStay DEF Inv, Registered, Loop
  <1>2. LoopTypeOK' /\ ReportInv'
    BY DEF Inv, Registered, LoopTypeOK, ReportInv, Expired
  <1> QED
    BY <1>1, <1>2 DEF Inv

\* Reaping is done once: a status that is known is the child's own.
LEMMA ReapFacts ==
  ASSUME LoopTypeOK, ReportInv, status = NoStatus, Reap
  PROVE  /\ kid'.state = "reaped" /\ kid'.status = kid.status /\ kid'.sig = kid.sig
         /\ status' = kid'.status /\ status' # NoStatus
         /\ kid' \in [state : {"none", "running", "zombie", "reaped"},
                      status : {NoStatus, "success", "failure", "terminated", "killed"},
                      sig : {"none", "term", "kill"}]
  BY DEF LoopTypeOK, ReportInv, Reap

LEMMA WaitKeeps ==
  ASSUME Inv, WaitStep \/ LastStatus,
         at \in {"first_wait", "second_wait", "blocking"},
         at' \in {"check", "blocking", "returned"},
         at = "first_wait" <=> at' = "check",
         at' = "returned" => LastStatus,
         deadline' \in Nat \cup {NoTimeout},
         at # "first_wait" => UNCHANGED deadline,
         UNCHANGED <<spawnVars, params, registered, timed_out, clock>>
  PROVE  Inv'
  <1>1. TableInv' /\ PlacesAgree'
    BY TableStays, PlacesStay DEF Inv, Loop
  <1>2. \/ status = NoStatus /\ Reap
        \/ UNCHANGED <<kid, status>>
    BY DEF WaitStep, LastStatus
  <1>3. LoopTypeOK /\ ReportInv
    BY DEF Inv
  <1>4. LoopTypeOK'
    BY <1>2, <1>3, ReapFacts DEF LoopTypeOK
  <1>5. at' = "returned" => status' # NoStatus
    BY <1>3, ReapFacts DEF LastStatus
  <1>6. ReportInv'
    <2>1. CASE status = NoStatus /\ Reap
      BY <1>3, <2>1, ReapFacts DEF ReportInv, Expired
    <2>2. CASE UNCHANGED <<kid, status>>
      BY <1>3, <1>5, <2>2 DEF ReportInv, Expired
    <2> QED
      BY <1>2, <2>1, <2>2
  <1> QED
    BY <1>1, <1>4, <1>6 DEF Inv

LEMMA CheckKeeps == Inv /\ Check => Inv'
  <1> SUFFICES ASSUME Inv, Check PROVE Inv'
    OBVIOUS
  <1>1. TableInv' /\ PlacesAgree'
    BY TableStays, PlacesStay DEF Inv, Check, Loop
  <1>2. LoopTypeOK /\ ReportInv /\ at = "check" /\ at' = "second_wait"
        /\ timed_out' = Expired
        /\ UNCHANGED <<params, deadline, status, clock>>
    BY DEF Inv, Check
  <1>3. \/ kid' = kid
        \/ /\ Expired /\ params.cancel # "None" /\ kid.state = "running"
           /\ \/ kid' = [kid EXCEPT !.sig = "term"]
              \/ kid' = [kid EXCEPT !.sig = "kill"]
    BY <1>2 DEF Check, KillKid, LoopTypeOK
  <1>4. LoopTypeOK'
    BY <1>2, <1>3 DEF LoopTypeOK, Expired
  <1>5. kid'.state = kid.state /\ kid'.status = kid.status
        /\ (kid'.sig # "none" => Expired /\ params.cancel # "None")
    BY <1>2, <1>3 DEF LoopTypeOK, ReportInv
  <1>6. Expired' <=> Expired
    BY <1>2 DEF Expired
  <1>7. ReportInv'
    BY <1>2, <1>5, <1>6 DEF ReportInv
  <1> QED
    BY <1>1, <1>4, <1>7 DEF Inv

LEMMA KidEndsKeeps == Inv /\ KidEnds => Inv'
  <1> SUFFICES ASSUME Inv, KidEnds PROVE Inv'
    OBVIOUS
  <1>1. TableInv' /\ PlacesAgree'
    BY TableStays, PlacesStay DEF Inv, KidEnds, loopVars
  <1>2. LoopTypeOK /\ ReportInv
    BY DEF Inv
  <1>3. /\ kid.state = "running" /\ kid'.state = "zombie" /\ kid'.sig = kid.sig
        /\ kid'.status \in {"success", "failure", "terminated", "killed"}
        /\ LoopTypeOK' /\ UNCHANGED <<loopVars, clock>>
    BY <1>2 DEF KidEnds, EndsWith, LoopTypeOK, loopVars
  <1>4. ReportInv'
    BY <1>2, <1>3 DEF ReportInv, Expired, loopVars, NoStatus
  <1> QED
    BY <1>1, <1>3, <1>4 DEF Inv

LEMMA TickKeeps == Inv /\ Tick => Inv'
  <1> SUFFICES ASSUME Inv, Tick PROVE Inv'
    OBVIOUS
  <1>1. TableInv' /\ PlacesAgree'
    BY TableStays, PlacesStay DEF Inv, Tick, loopVars
  <1>2. LoopTypeOK' /\ ReportInv'
    BY DEF Inv, Tick, LoopTypeOK, ReportInv, Expired, loopVars, NoTimeout
  <1> QED
    BY <1>1, <1>2 DEF Inv

LEMMA InvStep == Inv /\ [Next]_vars => Inv'
  <1> SUFFICES ASSUME Inv, [Next]_vars PROVE Inv'
    OBVIOUS
  <1>1. CASE Starting
    BY <1>1, StartingKeeps
  <1>2. ASSUME NEW s \in StreamSet, Register(s) PROVE Inv'
    BY <1>2, RegisterKeeps
  <1>3. CASE RegisterFails
    BY <1>3, RegisterFailsKeeps
  <1>4. CASE Registered
    BY <1>4, RegisteredKeeps
  <1>5. CASE FirstWait
    <2>1. deadline' \in Nat \cup {NoTimeout}
      <3> DEFINE t == params.timeout
      <3>1. (t \in Nat \/ t = NoTimeout) /\ clock \in Nat
        BY ClockAssumption DEF Inv, LoopTypeOK
      <3>2. /\ t = NoTimeout => deadline' = NoTimeout
            /\ t # NoTimeout => deadline' = clock + t
        BY <1>5 DEF FirstWait
      <3> HIDE DEF t
      <3>3. CASE t = NoTimeout
        BY <3>2, <3>3
      <3>4. CASE t # NoTimeout
        BY <3>1, <3>2, <3>4
      <3> QED
        BY <3>3, <3>4
    <2> QED
      BY <1>5, <2>1, WaitKeeps DEF FirstWait
  <1>6. CASE Check
    BY <1>6, CheckKeeps
  <1>7. CASE SecondWait
    BY <1>7, WaitKeeps DEF SecondWait, Inv, LoopTypeOK
  <1>8. CASE WaitBlocking
    BY <1>8, WaitKeeps DEF WaitBlocking, Inv, LoopTypeOK
  <1>9. CASE KidEnds
    BY <1>9, KidEndsKeeps
  <1>10. CASE Tick
    BY <1>10, TickKeeps
  <1>11. CASE UNCHANGED vars
    <2>1. TableInv' /\ PlacesAgree'
      BY <1>11, TableStays, PlacesStay DEF Inv, vars, loopVars
    <2>2. LoopTypeOK' /\ ReportInv'
      BY <1>11 DEF Inv, vars, loopVars, LoopTypeOK, ReportInv, Expired
    <2> QED
      BY <2>1, <2>2 DEF Inv
  <1> QED
    BY <1>1, <1>2, <1>3, <1>4, <1>5, <1>6, <1>7, <1>8, <1>9, <1>10, <1>11
       DEF Next, Spawning

\* The actions and the child are the work of spawn_start alone.
ChildSide == ActionsInv /\ ChildInv

LEMMA ChildSideInit == Init => ChildSide
  BY DEF Init, SpawnInit, ChildSide, ActionsInv, ChildInv, NoParentEndInChild, EmptyMap

LEMMA ChildSideStays ==
  ChildSide /\ UNCHANGED spawnVars => ChildSide'
  <1> SUFFICES ASSUME ChildSide, UNCHANGED spawnVars PROVE ChildSide'
    OBVIOUS
  <1>1. UNCHANGED <<wants, host, pipes, step, todo, actions, child>>
    BY DEF spawnVars
  <1>2. ChildInv'
    BY <1>1 DEF ChildSide, ChildInv, Supplied, NoParentEndInChild
  <1>3. step = "actions" => Proper(actions', (wants \ Left)')
    <2>1. (wants \ Left)' = wants \ Left
      BY <1>1 DEF Left
    <2> QED
      BY <1>1, <2>1 DEF ChildSide, ActionsInv
  <1>4. step = "actions" => Proper(actions, wants \ Left)'
    BY <1>1, <1>3, ProperStays
  <1>5. step = "posix_spawn" => Proper(actions, wants)'
    BY <1>1, ProperAllStays DEF ChildSide, ActionsInv
  <1> QED
    BY <1>1, <1>2, <1>4, <1>5 DEF ChildSide, ActionsInv

LEMMA ChildSideStep == Inv /\ ChildSide /\ [Next]_vars => ChildSide'
  <1> SUFFICES ASSUME Inv, ChildSide, [Next]_vars PROVE ChildSide'
    OBVIOUS
  <1>1. CASE Starting
    BY <1>1, ActionsInvKeeps, ChildInvKeeps DEF Starting, Inv, ChildSide
  <1>2. CASE RegisterFails
    BY <1>2 DEF RegisterFails, ChildSide, ActionsInv, ChildInv, Supplied,
                NoParentEndInChild, optionVars
  <1>3. CASE UNCHANGED spawnVars
    BY <1>3, ChildSideStays
  <1> QED
    BY <1>1, <1>2, <1>3 DEF Next, Spawning, Register, Registered, FirstWait, Check,
       SecondWait, WaitBlocking, KidEnds, Tick, vars

LEMMA AlwaysInv == Spec => [](Inv /\ ChildSide)
  <1>1. Init => Inv /\ ChildSide
    BY InvInit, ChildSideInit
  <1>2. Inv /\ ChildSide /\ [Next]_vars => (Inv /\ ChildSide)'
    BY InvStep, ChildSideStep
  <1> QED
    BY <1>1, <1>2, PTL DEF Spec

-----------------------------------------------------------------------------
(***************************************************************************)
(* The theorems.                                                           *)
(***************************************************************************)

\* The descriptors of the host are never touched; each of the others has one
\* owner at every point of spawn_start and spawn, and a spawn_start that fails
\* leaves none, whichever call it was (spawn/mod.rs:153-187, 494-651, 669-763).
THEOREM BalanceCorrect == Spec => []DescriptorsBalanced
  <1>1. Inv => DescriptorsBalanced
    <2> SUFFICES ASSUME Inv PROVE DescriptorsBalanced
      OBVIOUS
    <2>1. /\ HostKept /\ DOMAIN pipes \subseteq Fields /\ DOMAIN drain \subseteq Fields
          /\ step = "failed" => HoldsIn(table, host, pipes) /\ DOMAIN pipes = {}
          /\ \/ HoldsIn(table, host, pipes) /\ DOMAIN drain = {}
             \/ HoldsIn(table, host, drain) /\ DOMAIN pipes = {}
      BY DEF Inv, TableInv, After
    <2>2. step = "failed" => DOMAIN table = host
      BY <2>1 DEF HoldsIn
    <2>3. CASE HoldsIn(table, host, pipes) /\ DOMAIN drain = {}
      <3>1. Owned \subseteq DOMAIN table \ host
        BY <2>3, HoldsOnce DEF Owned
      <3>2. ASSUME NEW fd \in DOMAIN table \ host
            PROVE  \E owner \in Owners : OwnersOf(fd) = {owner}
        <4>1. PICK e \in DOMAIN pipes : {f \in DOMAIN pipes : pipes[f] = fd} = {e}
          BY <2>3, HoldsOnce
        <4>2. OwnersOf(fd) = {<<"pipes", e>>}
          BY <2>3, <4>1 DEF OwnersOf
        <4>3. <<"pipes", e>> \in Owners
          BY <2>1, <4>1 DEF Owners
        <4> QED
          BY <4>2, <4>3
      <3> QED
        BY <2>1, <2>2, <3>1, <3>2 DEF DescriptorsBalanced, HostKept
    <2>4. CASE HoldsIn(table, host, drain) /\ DOMAIN pipes = {}
      <3>1. Owned \subseteq DOMAIN table \ host
        BY <2>4, HoldsOnce DEF Owned
      <3>2. ASSUME NEW fd \in DOMAIN table \ host
            PROVE  \E owner \in Owners : OwnersOf(fd) = {owner}
        <4>1. PICK e \in DOMAIN drain : {f \in DOMAIN drain : drain[f] = fd} = {e}
          BY <2>4, HoldsOnce
        <4>2. OwnersOf(fd) = {<<"drain", e>>}
          BY <2>4, <4>1 DEF OwnersOf
        <4>3. <<"drain", e>> \in Owners
          BY <2>1, <4>1 DEF Owners
        <4> QED
          BY <4>2, <4>3
      <3> QED
        BY <2>1, <2>2, <3>1, <3>2 DEF DescriptorsBalanced, HostKept
    <2> QED
      BY <2>1, <2>3, <2>4
  <1> QED
    BY <1>1, AlwaysInv, PTL

\* A job that has started leaves the parent its own end of every captured
\* stream, under one number, and nothing else (spawn/mod.rs:633-651, 745-763).
THEOREM ParentCorrect == Spec => []ParentHoldsItsEnds
  <1>1. Inv => ParentHoldsItsEnds
    <2> SUFFICES ASSUME Inv, step = "started" PROVE ParentHoldsItsEnds
      BY DEF ParentHoldsItsEnds
    <2> DEFINE files == {ParentEnd(s) : s \in wants}
    <2>1. /\ wants \subseteq StreamSet /\ HoldsIn(table, host, drain)
          /\ DOMAIN drain = files
      BY DEF Inv, TableInv, HostKept, After
    <2>2. IsFiniteSet(wants)
      <3>1. IsFiniteSet(StreamSet)
        <4>1. StreamSet = ({"Stdin"} \cup {"Stdout"}) \cup {"Stderr"}
          BY DEF StreamSet
        <4> QED
          BY <4>1, FS_Singleton, FS_Union
      <3> QED
        BY <2>1, <3>1, FS_Subset
    <2>3. Cardinality(files) = Cardinality(wants) /\ IsFiniteSet(files)
      <3> DEFINE end == [s \in wants |-> ParentEnd(s)]
      <3>1. end \in Bijection(wants, files)
        <4>1. end \in Injection(wants, files)
          BY <2>1, EndsDiffer, Fun_IsInj
        <4>2. end \in Surjection(wants, files)
          BY Fun_IsSurj
        <4> QED
          BY <4>1, <4>2 DEF Bijection
      <3>2. ExistsBijection(wants, files)
        BY <3>1 DEF ExistsBijection
      <3> HIDE DEF files
      <3> QED
        BY <2>2, <3>2, FS_Bijection
    <2> HIDE DEF files
    <2>4. /\ {table[fd] : fd \in DOMAIN table \ host} = files
          /\ Cardinality(DOMAIN table \ host) = Cardinality(files)
      BY <2>1, <2>3, HoldsCounts
    <2> QED
      BY <2>3, <2>4 DEF ParentHoldsItsEnds, files
  <1> QED
    BY <1>1, AlwaysInv, PTL

\* An error of spawn leaves no descriptor behind but those the reactor was given
\* and spawn has forgotten (spawn/mod.rs:463-466).
THEOREM ErrorsGiveBackCorrect == Spec => []ErrorGivesBack
  <1>1. Inv => ErrorGivesBack
    <2> SUFFICES ASSUME Inv, at = "error" PROVE ErrorGivesBack
      BY DEF ErrorGivesBack
    <2>1. CASE step = "failed"
      BY <2>1 DEF Inv, TableInv, After, HoldsIn, ErrorGivesBack
    <2>2. CASE step = "dropped"
      <3>1. /\ HoldsIn(table, host, drain)
            /\ DOMAIN drain = {ParentEnd(s) : s \in registered}
        BY <2>2 DEF Inv, TableInv, After, PlacesAgree
      <3> QED
        BY <3>1 DEF HoldsIn, ErrorGivesBack
    <2> QED
      BY <2>1, <2>2 DEF Inv, PlacesAgree
  <1> QED
    BY <1>1, AlwaysInv, PTL

\* What a waiting spawn returns is what happened to its child
\* (spawn/mod.rs:288-317, 786-848).
THEOREM ReportCorrect == Spec => []ReportIsTrue
  <1>1. Inv => ReportIsTrue
    BY DEF Inv, ReportInv, ReportIsTrue, Expired
  <1> QED
    BY <1>1, AlwaysInv, PTL

\* Whichever backend starts it and whatever numbers its pipes have got, a child
\* of a host with open standard descriptors has its pipes at 0, 1 and 2, and
\* the host's files where no pipe was asked for (spawn/mod.rs:505-548, 677-699).
THEOREM ChildStreamsCorrect == Spec => []ChildFindsItsStreams
  <1>1. ChildSide => ChildFindsItsStreams
    BY DEF ChildSide, ChildInv, Supplied, ChildFindsItsStreams
  <1> QED
    BY <1>1, AlwaysInv, PTL

\* No child ever holds an end of the parent, in a host with any descriptors and
\* also when the rest of them cannot be closed (spawn/mod.rs:139, 514).
THEOREM NoParentEndCorrect == Spec => []NoParentEndInChild
  <1>1. ChildSide => NoParentEndInChild
    BY DEF ChildSide, ChildInv
  <1> QED
    BY <1>1, AlwaysInv, PTL

=============================================================================
