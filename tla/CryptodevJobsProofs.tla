------------------------ MODULE CryptodevJobsProofs ------------------------
(* Machine-checked proofs about CryptodevJobs, for every finite set of     *)
(* threads, every size of the ring and any number of jobs.                 *)
EXTENDS CryptodevJobs, FiniteSetTheorems, SequenceTheorems, TLAPS

Types ==
  /\ file \in {"closed", "open", "releasing"}
  /\ pc \in [Procs -> Labels]
  /\ free \in Nat /\ itemcount \in Nat
  /\ todo \in Seq(Nat) /\ tmp \in Seq(Nat) /\ done \in Seq(Nat)
  /\ pending \in BOOLEAN /\ worker \in {"idle", "cut", "run", "wake"}
  /\ submitted \in Nat /\ fetched \in Seq(Nat) /\ unbacked \in Nat

(* A file is released when its calls have returned, and its work is then   *)
(* no longer queued.  The worker has jobs only while it runs them.         *)
Quiet ==
  /\ file # "open" => \A p \in Procs : pc[p] = "idle"
  /\ file = "releasing" => ~pending
  /\ worker # "run" => tmp = <<>>

JInv == /\ Types /\ Quiet /\ NothingOutlivesFile
        /\ OnceAndInOrder /\ ItemsAccounted /\ NoLostWakeup

-----------------------------------------------------------------------------
LEMMA InHandFinite == IsFiniteSet(InHand) /\ Cardinality(InHand) \in Nat
<1>1. InHand \in SUBSET Procs
  BY DEF InHand
<1> QED
  BY <1>1, FS_Subset, FS_CardinalityType, JobsAssumption

(* The jobs of the file, from the first fetched to the last submitted, as  *)
(* they pass from list to list.                                            *)
LEMMA AppendMoves ==
  ASSUME NEW f \in Seq(Nat), NEW d \in Seq(Nat), NEW m \in Seq(Nat),
         NEW t \in Seq(Nat), NEW n \in Nat
  PROVE  f \o d \o m \o Append(t, n) = Append(f \o d \o m \o t, n)
<1>1. f \o d \o m \in Seq(Nat) /\ f \o d \o m \o t \in Seq(Nat) /\ <<n>> \in Seq(Nat)
  BY ConcatProperties
<1>2. Append(t, n) = t \o <<n>>
  BY AppendIsConcat
<1>3. Append(f \o d \o m \o t, n) = (f \o d \o m \o t) \o <<n>>
  BY <1>1, AppendIsConcat
<1>4. (f \o d \o m) \o (t \o <<n>>) = ((f \o d \o m) \o t) \o <<n>>
  BY <1>1, ConcatAssociative
<1> QED
  BY <1>2, <1>3, <1>4

LEMMA SpliceMoves ==
  ASSUME NEW f \in Seq(Nat), NEW d \in Seq(Nat), NEW m \in Seq(Nat),
         NEW t \in Seq(Nat)
  PROVE  f \o (d \o m) \o <<>> \o t = f \o d \o m \o t
<1>1. f \o (d \o m) = f \o d \o m /\ f \o (d \o m) \in Seq(Nat)
  <2>1. d \o m \in Seq(Nat) /\ f \o (d \o m) \in Seq(Nat)
    BY ConcatProperties
  <2>2. (f \o d) \o m = f \o (d \o m)
    BY ConcatAssociative, SMTT(30)
  <2> QED
    BY <2>1, <2>2
<1>2. (f \o (d \o m)) \o <<>> = f \o (d \o m)
  BY <1>1, ConcatEmptySeq
<1>3. ((f \o (d \o m)) \o <<>>) \o t = (f \o d \o m) \o t
  BY <1>1, <1>2, Zenon
<1> QED
  BY <1>3

LEMMA CutMoves ==
  ASSUME NEW f \in Seq(Nat), NEW d \in Seq(Nat), NEW t \in Seq(Nat)
  PROVE  f \o d \o t \o <<>> = f \o d \o <<>> \o t
<1>1. f \o d \in Seq(Nat) /\ f \o d \o t \in Seq(Nat)
  BY ConcatProperties
<1> QED
  BY <1>1, ConcatEmptySeq

LEMMA FetchMoves ==
  ASSUME NEW f \in Seq(Nat), NEW d \in Seq(Nat), d # <<>>
  PROVE  /\ Append(f, Head(d)) \o Tail(d) = f \o d
         /\ Head(d) \in Nat /\ Tail(d) \in Seq(Nat) /\ Len(Tail(d)) = Len(d) - 1
<1>1. Head(d) \in Nat /\ Tail(d) \in Seq(Nat) /\ Len(Tail(d)) = Len(d) - 1
  BY HeadTailProperties
<1>2. <<Head(d)>> \o Tail(d) = d
  <2>1. <<Head(d)>> \in Seq(Nat) /\ Len(<<Head(d)>>) = 1 /\ Head(d) = d[1]
    BY <1>1
  <2>2. /\ <<Head(d)>> \o Tail(d) \in Seq(Nat)
        /\ Len(<<Head(d)>> \o Tail(d)) = Len(d)
    BY <1>1, <2>1, ConcatProperties, LenProperties
  <2>3. \A i \in 1..Len(d) : (<<Head(d)>> \o Tail(d))[i] = d[i]
    BY <1>1, <2>1, HeadTailProperties, ConcatProperties, LenProperties
  <2> QED
    BY <2>2, <2>3, SeqEqual
<1>3. Append(f, Head(d)) = f \o <<Head(d)>> /\ <<Head(d)>> \in Seq(Nat)
  BY <1>1, AppendIsConcat
<1>4. (f \o <<Head(d)>>) \o Tail(d) = f \o (<<Head(d)>> \o Tail(d))
  BY <1>1, <1>3, ConcatAssociative
<1> QED
  BY <1>1, <1>2, <1>3, <1>4

-----------------------------------------------------------------------------
LEMMA InitJInv == Init => JInv
<1> SUFFICES ASSUME Init PROVE JInv
  OBVIOUS
<1> USE DEF Init
<1>1. Types
  <2>1. pc \in [Procs -> Labels]
    BY DEF Labels
  <2>2. todo \in Seq(Nat) /\ tmp \in Seq(Nat) /\ done \in Seq(Nat)
        /\ fetched \in Seq(Nat)
    OBVIOUS
  <2> QED
    BY <2>1, <2>2 DEF Types
<1>2. Quiet /\ NothingOutlivesFile
  BY DEF Quiet, NothingOutlivesFile
<1>3. OnceAndInOrder /\ ItemsAccounted /\ NoLostWakeup
  BY DEF OnceAndInOrder, ItemsAccounted, NoLostWakeup
<1> QED
  BY <1>1, <1>2, <1>3 DEF JInv

(* A file is opened with nothing in its lists and all items free.          *)
LEMMA OpenJInv == JInv /\ Open => JInv'
<1> SUFFICES ASSUME JInv, Open PROVE JInv'
  OBVIOUS
<1> USE DEF JInv, Open, jobs
<1>1. Types' /\ Quiet' /\ NothingOutlivesFile'
  BY JobsAssumption DEF Types, Quiet, NothingOutlivesFile
<1>2. OnceAndInOrder'
  BY DEF NothingOutlivesFile, OnceAndInOrder
<1>3. InHand' = {} /\ Cardinality({}) = 0
  BY FS_EmptySet DEF InHand, Quiet
<1>4. ItemsAccounted'
  BY <1>3, JobsAssumption DEF ItemsAccounted, NothingOutlivesFile
<1>5. NoLostWakeup'
  BY DEF NoLostWakeup, Quiet
<1> QED
  BY <1>1, <1>2, <1>4, <1>5

LEMMA ReleaseJInv == JInv /\ (Release \/ FreeItems) => JInv'
<1>1. JInv /\ Release => JInv'
  BY DEF JInv, Release, jobs, history, Types, Quiet, NothingOutlivesFile,
         OnceAndInOrder, ItemsAccounted, InHand, NoLostWakeup, Readable, Writable
<1>2. ASSUME JInv, FreeItems PROVE JInv'
  <2> USE <1>2 DEF FreeItems, JInv, history
  <2>1. Types' /\ Quiet' /\ NothingOutlivesFile'
    BY DEF Types, Quiet, NothingOutlivesFile
  <2>2. OnceAndInOrder' /\ ItemsAccounted' /\ NoLostWakeup'
    BY DEF OnceAndInOrder, ItemsAccounted, NoLostWakeup, Quiet
  <2> QED
    BY <2>1, <2>2
<1> QED
  BY <1>1, <1>2

-----------------------------------------------------------------------------
(* The worker hands jobs on from list to list.                             *)
LEMMA StartWorkJInv == JInv /\ StartWork => JInv'
<1> SUFFICES ASSUME JInv, StartWork PROVE JInv'
  OBVIOUS
<1> USE DEF JInv, StartWork, jobs, history
<1>1. Types' /\ Quiet' /\ NothingOutlivesFile' /\ OnceAndInOrder'
  BY DEF Types, Quiet, NothingOutlivesFile, OnceAndInOrder
<1>2. ItemsAccounted' /\ NoLostWakeup'
  BY DEF ItemsAccounted, InHand, NoLostWakeup, Readable, Writable
<1> QED
  BY <1>1, <1>2

LEMMA CutJInv == JInv /\ Cut => JInv'
<1> SUFFICES ASSUME JInv, Cut PROVE JInv'
  OBVIOUS
<1> USE DEF JInv, Cut, history
<1>1. Types' /\ Quiet' /\ NothingOutlivesFile'
  BY DEF Types, Quiet, NothingOutlivesFile
<1>2. tmp = <<>> /\ tmp' = todo /\ todo' = <<>>
  BY DEF Quiet
<1>3. OnceAndInOrder'
  <2>1. fetched \o done \o todo \o <<>> = fetched \o done \o <<>> \o todo
    BY CutMoves DEF Types
  <2> QED
    BY <1>2, <2>1 DEF OnceAndInOrder
<1>4. ItemsAccounted'
  BY <1>2, InHandFinite DEF ItemsAccounted, InHand, Types
<1>5. NoLostWakeup'
  BY DEF NoLostWakeup, Readable, Writable
<1> QED
  BY <1>1, <1>3, <1>4, <1>5

LEMMA SpliceJInv == JInv /\ Splice => JInv'
<1> SUFFICES ASSUME JInv, Splice PROVE JInv'
  OBVIOUS
<1> USE DEF JInv, Splice, history
<1>1. /\ done \o tmp \in Seq(Nat)
      /\ Len(done \o tmp) = Len(done) + Len(tmp)
  BY ConcatProperties DEF Types
<1>2. Types' /\ Quiet' /\ NothingOutlivesFile'
  BY <1>1 DEF Types, Quiet, NothingOutlivesFile
<1>3. OnceAndInOrder'
  <2>1. fetched \o (done \o tmp) \o <<>> \o todo = fetched \o done \o tmp \o todo
    <3>1. /\ fetched \in Seq(Nat) /\ done \in Seq(Nat)
          /\ tmp \in Seq(Nat) /\ todo \in Seq(Nat)
      BY DEF Types
    <3> HIDE DEF Splice, JInv, history
    <3> QED
      BY <3>1, SpliceMoves, SMTT(20)
  <2> QED
    BY <2>1 DEF OnceAndInOrder
<1>4. ItemsAccounted'
  <2>1. InHand' = InHand /\ Len(tmp') = 0 /\ Len(done') = Len(done) + Len(tmp)
    BY <1>1 DEF InHand
  <2> QED
    BY <2>1, InHandFinite DEF ItemsAccounted, Types
<1>5. NoLostWakeup'
  BY DEF NoLostWakeup, Writable
<1> QED
  BY <1>2, <1>3, <1>4, <1>5

(* Who is woken looks again: nobody is left asleep, and no item changes    *)
(* hands.                                                                  *)
LEMMA WokenFacts ==
  ASSUME Types, NEW p \in Procs
  PROVE  /\ Woken(p) \in Labels /\ Woken(p) \notin Asleep
         /\ \A l \in {"idle", "alloc", "queue", "kick", "refree", "wake"} :
              Woken(p) = l <=> pc[p] = l
<1>1. pc[p] \in Labels
  BY DEF Types
<1> QED
  BY <1>1 DEF Woken, Labels, Polling, Asleep

LEMMA EndWorkJInv == JInv /\ EndWork => JInv'
<1> SUFFICES ASSUME JInv, EndWork PROVE JInv'
  OBVIOUS
<1> USE DEF JInv
<1>1. /\ worker = "wake" /\ worker' = "idle"
      /\ UNCHANGED <<file, free, itemcount, todo, tmp, done, pending, submitted,
                     fetched, unbacked>>
  BY DEF EndWork, jobs, history
<1>2. pc' \in [Procs -> Labels] /\ \A p \in Procs : pc'[p] = Woken(p)
  BY WokenFacts DEF EndWork
<1>3. Types' /\ Quiet' /\ NothingOutlivesFile' /\ OnceAndInOrder'
  BY <1>1, <1>2, WokenFacts DEF Types, Quiet, NothingOutlivesFile, OnceAndInOrder
<1>4. InHand' = InHand
  BY <1>2, WokenFacts DEF InHand
<1>5. ItemsAccounted'
  BY <1>1, <1>4 DEF ItemsAccounted
<1>6. NoLostWakeup'
  BY <1>2, WokenFacts DEF NoLostWakeup, Asleep
<1> QED
  BY <1>3, <1>5, <1>6

-----------------------------------------------------------------------------
(* A step of p that moves nobody else.                                     *)
LEMMA MoveFacts ==
  ASSUME JInv, NEW p \in Procs, NEW from, NEW to \in Labels, Move(p, from, to)
  PROVE  /\ pc[p] = from /\ pc'[p] = to /\ pc' \in [Procs -> Labels]
         /\ \A q \in Procs : q # p => pc'[q] = pc[q]
BY DEF JInv, Types, Move

Hands == {"alloc", "queue", "refree"}

LEMMA Takes ==
  ASSUME JInv, NEW p \in Procs, pc[p] \notin Hands, pc'[p] \in Hands,
         \A q \in Procs : q # p => pc'[q] = pc[q]
  PROVE  Cardinality(InHand') = Cardinality(InHand) + 1
<1>1. InHand' = InHand \cup {p} /\ p \notin InHand
  BY DEF InHand, Hands
<1> QED
  BY <1>1, InHandFinite, FS_AddElement

LEMMA Gives ==
  ASSUME JInv, NEW p \in Procs, pc[p] \in Hands, pc'[p] \notin Hands,
         \A q \in Procs : q # p => pc'[q] = pc[q]
  PROVE  Cardinality(InHand') = Cardinality(InHand) - 1
<1>1. InHand' = InHand \ {p} /\ p \in InHand
  BY DEF InHand, Hands
<1> QED
  BY <1>1, InHandFinite, FS_RemoveElement

LEMMA Keeps ==
  ASSUME JInv, NEW p \in Procs, pc[p] \in Hands <=> pc'[p] \in Hands,
         \A q \in Procs : q # p => pc'[q] = pc[q]
  PROVE  InHand' = InHand
BY DEF InHand, Hands

LEMMA WakeupKept ==
  ASSUME JInv, NEW p \in Procs, pc[p] # "wake", pc'[p] \notin Asleep,
         \A q \in Procs : q # p => pc'[q] = pc[q],
         worker' = worker, Readable' => Readable,
         Writable' => Writable \/ pc'[p] = "wake"
  PROVE  NoLostWakeup'
<1> SUFFICES ASSUME NEW q \in Procs
             PROVE  /\ pc'[q] = "sleep_in" /\ Readable' => worker' = "wake"
                    /\ pc'[q] = "sleep_out" /\ Writable'
                         => \E r \in Procs : pc'[r] = "wake"
  BY DEF NoLostWakeup
<1>1. CASE q = p
  BY <1>1 DEF Asleep
<1>2. CASE q # p
  <2>1. pc'[q] = "sleep_in" /\ Readable' => worker' = "wake"
    BY <1>2 DEF JInv, NoLostWakeup
  <2>2. ASSUME pc'[q] = "sleep_out", Writable', pc'[p] # "wake"
        PROVE  \E r \in Procs : pc'[r] = "wake"
    <3>1. PICK r \in Procs : pc[r] = "wake"
      BY <1>2, <2>2 DEF JInv, NoLostWakeup
    <3> QED
      BY <3>1
  <2> QED
    BY <2>1, <2>2
<1> QED
  BY <1>1, <1>2

(* Calls are made and go on while the file is open.                        *)
LEMMA OnlyOpen ==
  ASSUME JInv, NEW p \in Procs, pc[p] # "idle"
  PROVE  file = "open"
BY DEF JInv, Quiet, Types

LEMMA TakeItemJInv == \A p \in Procs : JInv /\ TakeItem(p) => JInv'
<1> SUFFICES ASSUME NEW p \in Procs, JInv, TakeItem(p) PROVE JInv'
  OBVIOUS
<1>1. /\ file = "open" /\ file' = file /\ worker' = worker /\ pending' = pending
      /\ todo' = todo /\ tmp' = tmp /\ done' = done
      /\ submitted' = submitted /\ fetched' = fetched /\ unbacked' = unbacked
  BY DEF TakeItem, jobs, history
<1>2. /\ pc[p] = "idle" /\ pc'[p] \in {"queue", "alloc"} /\ pc' \in [Procs -> Labels]
      /\ \A q \in Procs : q # p => pc'[q] = pc[q]
  BY MoveFacts DEF TakeItem, Labels
<1>3. \/ free > 0 /\ free' = free - 1 /\ itemcount' = itemcount
      \/ /\ free = 0 /\ itemcount < MAX_COP_RINGSIZE
         /\ free' = free /\ itemcount' = itemcount + 1
  BY DEF TakeItem
<1>4. free \in Nat /\ itemcount \in Nat
  BY DEF JInv, Types
<1>5. Types' /\ Quiet' /\ NothingOutlivesFile' /\ OnceAndInOrder'
  BY <1>1, <1>2, <1>3, <1>4
     DEF JInv, Types, Quiet, NothingOutlivesFile, OnceAndInOrder
<1>6. ItemsAccounted'
  <2>1. Cardinality(InHand') = Cardinality(InHand) + 1
    BY <1>2, Takes DEF Hands
  <2>2. Len(todo) \in Nat /\ Len(tmp) \in Nat /\ Len(done) \in Nat /\ unbacked \in Nat
    BY LenProperties DEF JInv, Types
  <2>3. free + Len(todo) + Len(tmp) + Len(done) + Cardinality(InHand) + unbacked
          = itemcount
    BY <1>1 DEF JInv, ItemsAccounted
  <2>4. \E k \in {0, 1} : free' = free - k /\ itemcount' = itemcount + (1 - k)
    BY <1>3, <1>4
  <2>5. free' \in Nat /\ itemcount' \in Nat
    BY <1>3, <1>4
  <2>6. Cardinality(InHand) \in Nat
    BY InHandFinite
  <2>7. free' + Len(todo) + Len(tmp) + Len(done) + Cardinality(InHand') + unbacked
          = itemcount'
    BY <1>4, <2>1, <2>2, <2>3, <2>4, <2>5, <2>6
  <2> QED
    BY <1>1, <2>7 DEF ItemsAccounted
<1>7. NoLostWakeup'
  <2>1. Writable' => Writable
    BY <1>3, <1>4, JobsAssumption DEF Writable
  <2> QED
    BY <1>1, <1>2, <2>1, WakeupKept DEF Readable, Asleep
<1> QED
  BY <1>5, <1>6, <1>7 DEF JInv

LEMMA AllocJInv == \A p \in Procs : JInv /\ Alloc(p) => JInv'
<1> SUFFICES ASSUME NEW p \in Procs, JInv, Alloc(p) PROVE JInv'
  OBVIOUS
<1>1. /\ file' = file /\ worker' = worker /\ pending' = pending
      /\ todo' = todo /\ tmp' = tmp /\ done' = done /\ free' = free
      /\ itemcount' = itemcount /\ submitted' = submitted /\ fetched' = fetched
  BY DEF Alloc, jobs
<1>2. /\ pc[p] = "alloc" /\ pc' \in [Procs -> Labels]
      /\ \A q \in Procs : q # p => pc'[q] = pc[q]
      /\ \/ pc'[p] = "queue" /\ unbacked' = unbacked
         \/ pc'[p] = "idle" /\ unbacked' = unbacked + 1
  BY MoveFacts DEF Alloc, Labels
<1>3. file = "open"
  BY <1>2, OnlyOpen
<1>4. Types' /\ Quiet' /\ NothingOutlivesFile' /\ OnceAndInOrder'
  BY <1>1, <1>2, <1>3
     DEF JInv, Types, Quiet, NothingOutlivesFile, OnceAndInOrder
<1>5. ItemsAccounted'
  <2>1. CASE pc'[p] = "queue"
    BY <1>1, <1>2, <2>1, Keeps DEF Hands, JInv, ItemsAccounted
  <2>2. CASE pc'[p] = "idle"
    <3>1. Cardinality(InHand') = Cardinality(InHand) - 1
      BY <1>2, <2>2, Gives DEF Hands
    <3>2. /\ Len(todo) \in Nat /\ Len(tmp) \in Nat /\ Len(done) \in Nat
          /\ unbacked \in Nat /\ free \in Nat /\ itemcount \in Nat
      BY LenProperties DEF JInv, Types
    <3> QED
      BY <1>1, <1>2, <2>2, <3>1, <3>2, InHandFinite, SMTT(30) DEF JInv, ItemsAccounted
  <2> QED
    BY <1>2, <2>1, <2>2
<1>6. NoLostWakeup'
  BY <1>1, <1>2, WakeupKept DEF Readable, Writable, Asleep
<1> QED
  BY <1>4, <1>5, <1>6 DEF JInv

(* A job becomes the last of the todo list.                                *)
Upto(n) == [j \in 1..n |-> j]

LEMMA NextJob ==
  ASSUME NEW n \in Nat
  PROVE  Append(Upto(n), n + 1) = Upto(n + 1)
<1> DEFINE s == [j \in 1..n |-> j]
           t == [j \in 1..n + 1 |-> j]
<1>1. s \in Seq(Nat) /\ t \in Seq(Nat) /\ Len(s) = n /\ Len(t) = n + 1
  OBVIOUS
<1>2. \A i \in 1..n : s[i] = i
  OBVIOUS
<1>3. \A i \in 1..n + 1 : t[i] = i
  OBVIOUS
<1> HIDE DEF s, t
<1>4. /\ Append(s, n + 1) \in Seq(Nat) /\ Len(Append(s, n + 1)) = n + 1
      /\ \A i \in 1..n : Append(s, n + 1)[i] = i
      /\ Append(s, n + 1)[n + 1] = n + 1
  BY <1>1, <1>2, AppendProperties
<1>5. \A i \in 1..n + 1 : Append(s, n + 1)[i] = t[i]
  BY <1>3, <1>4
<1>6. Append(s, n + 1) = t
  BY <1>1, <1>4, <1>5, SeqEqual
<1> QED
  BY <1>6 DEF s, t, Upto

LEMMA AddTodoJInv == \A p \in Procs : JInv /\ AddTodo(p) => JInv'
<1> SUFFICES ASSUME NEW p \in Procs, JInv, AddTodo(p) PROVE JInv'
  OBVIOUS
<1>1. /\ file' = file /\ worker' = worker /\ pending' = pending
      /\ tmp' = tmp /\ done' = done /\ free' = free
      /\ itemcount' = itemcount /\ fetched' = fetched /\ unbacked' = unbacked
      /\ submitted' = submitted + 1 /\ todo' = Append(todo, submitted + 1)
  BY DEF AddTodo
<1>2. /\ pc[p] = "queue" /\ pc'[p] = "kick" /\ pc' \in [Procs -> Labels]
      /\ \A q \in Procs : q # p => pc'[q] = pc[q]
  BY MoveFacts DEF AddTodo, Labels
<1>3. file = "open"
  BY <1>2, OnlyOpen
<1>4. /\ todo \in Seq(Nat) /\ tmp \in Seq(Nat) /\ done \in Seq(Nat)
      /\ fetched \in Seq(Nat) /\ submitted \in Nat /\ submitted + 1 \in Nat
  BY DEF JInv, Types
<1>5. todo' \in Seq(Nat) /\ Len(todo') = Len(todo) + 1
  BY <1>1, <1>4, AppendProperties
<1>6. Types' /\ Quiet' /\ NothingOutlivesFile'
  BY <1>1, <1>2, <1>3, <1>5 DEF JInv, Types, Quiet, NothingOutlivesFile
<1>7. OnceAndInOrder'
  <2>1. fetched \o done \o tmp \o todo = Upto(submitted)
    BY <1>3 DEF JInv, OnceAndInOrder, Upto
  <2>2. fetched \o done \o tmp \o Append(todo, submitted + 1)
          = Append(fetched \o done \o tmp \o todo, submitted + 1)
    BY <1>4, AppendMoves, SMTT(30)
  <2>3. fetched \o done \o tmp \o Append(todo, submitted + 1) = Upto(submitted + 1)
    <3>1. Append(Upto(submitted), submitted + 1) = Upto(submitted + 1)
      BY <1>4, NextJob
    <3> QED
      BY <2>1, <2>2, <3>1, Zenon
  <2> QED
    BY <1>1, <2>3 DEF OnceAndInOrder, Upto
<1>8. ItemsAccounted'
  <2>1. Cardinality(InHand') = Cardinality(InHand) - 1
    BY <1>2, Gives DEF Hands
  <2>2. /\ Len(todo) \in Nat /\ Len(tmp) \in Nat /\ Len(done) \in Nat
        /\ unbacked \in Nat /\ free \in Nat /\ itemcount \in Nat
    BY LenProperties DEF JInv, Types
  <2> QED
    BY <1>1, <1>5, <2>1, <2>2, InHandFinite, SMTT(30) DEF JInv, ItemsAccounted
<1>9. NoLostWakeup'
  BY <1>1, <1>2, WakeupKept DEF Readable, Writable, Asleep
<1> QED
  BY <1>6, <1>7, <1>8, <1>9 DEF JInv

LEMMA KickJInv == \A p \in Procs : JInv /\ Kick(p) => JInv'
<1> SUFFICES ASSUME NEW p \in Procs, JInv, Kick(p) PROVE JInv'
  OBVIOUS
<1>1. /\ file' = file /\ worker' = worker /\ pending' = TRUE
      /\ todo' = todo /\ tmp' = tmp /\ done' = done /\ free' = free
      /\ itemcount' = itemcount /\ submitted' = submitted /\ fetched' = fetched
      /\ unbacked' = unbacked
  BY DEF Kick, jobs, history
<1>2. /\ pc[p] = "kick" /\ pc'[p] = "idle" /\ pc' \in [Procs -> Labels]
      /\ \A q \in Procs : q # p => pc'[q] = pc[q]
  BY MoveFacts DEF Kick, Labels
<1>3. file = "open"
  BY <1>2, OnlyOpen
<1>4. Types' /\ Quiet' /\ NothingOutlivesFile' /\ OnceAndInOrder'
  BY <1>1, <1>2, <1>3
     DEF JInv, Types, Quiet, NothingOutlivesFile, OnceAndInOrder
<1>5. ItemsAccounted'
  BY <1>1, <1>2, Keeps DEF Hands, JInv, ItemsAccounted
<1>6. NoLostWakeup'
  BY <1>1, <1>2, WakeupKept DEF Readable, Writable, Asleep
<1> QED
  BY <1>4, <1>5, <1>6 DEF JInv

-----------------------------------------------------------------------------
(* The first finished job becomes the last fetched.                        *)
LEMMA FetchJInv == \A p \in Procs : JInv /\ Fetch(p) => JInv'
<1> SUFFICES ASSUME NEW p \in Procs, JInv, Fetch(p) PROVE JInv'
  OBVIOUS
<1>1. /\ file = "open" /\ file' = file /\ worker' = worker /\ pending' = pending
      /\ todo' = todo /\ tmp' = tmp /\ free' = free
      /\ itemcount' = itemcount /\ submitted' = submitted /\ unbacked' = unbacked
      /\ done # <<>> /\ done' = Tail(done) /\ fetched' = Append(fetched, Head(done))
  BY DEF Fetch
<1>2. /\ pc[p] = "idle" /\ pc'[p] = "refree" /\ pc' \in [Procs -> Labels]
      /\ \A q \in Procs : q # p => pc'[q] = pc[q]
  BY MoveFacts DEF Fetch, Labels
<1>3. /\ todo \in Seq(Nat) /\ tmp \in Seq(Nat) /\ done \in Seq(Nat)
      /\ fetched \in Seq(Nat)
  BY DEF JInv, Types
<1>4. Head(done) \in Nat /\ Tail(done) \in Seq(Nat) /\ Len(Tail(done)) = Len(done) - 1
  BY <1>1, <1>3, FetchMoves
<1>5. fetched' \in Seq(Nat)
  BY <1>1, <1>3, <1>4, AppendProperties
<1>6. Types' /\ Quiet' /\ NothingOutlivesFile'
  BY <1>1, <1>2, <1>4, <1>5 DEF JInv, Types, Quiet, NothingOutlivesFile
<1>7. OnceAndInOrder'
  <2>1. fetched \o done \o tmp \o todo = Upto(submitted)
    BY <1>1 DEF JInv, OnceAndInOrder, Upto
  <2>2. Append(fetched, Head(done)) \o Tail(done) \o tmp \o todo
          = fetched \o done \o tmp \o todo
    <3>1. done # <<>>
      BY <1>1
    <3>2. Append(fetched, Head(done)) \o Tail(done) = fetched \o done
      BY <1>3, <3>1, FetchMoves
    <3> QED
      BY <3>2
  <2> QED
    BY <1>1, <2>1, <2>2 DEF OnceAndInOrder, Upto
<1>8. ItemsAccounted'
  <2>1. Cardinality(InHand') = Cardinality(InHand) + 1
    BY <1>2, Takes DEF Hands
  <2>2. /\ Len(todo) \in Nat /\ Len(tmp) \in Nat /\ Len(done) \in Nat
        /\ unbacked \in Nat /\ free \in Nat /\ itemcount \in Nat
    BY LenProperties DEF JInv, Types
  <2>3. free + Len(todo) + Len(tmp) + Len(done) + Cardinality(InHand) + unbacked
          = itemcount
    BY <1>1 DEF JInv, ItemsAccounted
  <2>4. Len(done') = Len(done) - 1 /\ Cardinality(InHand) \in Nat
    BY <1>1, <1>4, InHandFinite
  <2>5. free + Len(todo) + Len(tmp) + Len(done') + Cardinality(InHand') + unbacked
          = itemcount
    BY <2>1, <2>2, <2>3, <2>4
  <2> QED
    BY <1>1, <2>5 DEF ItemsAccounted
<1>9. NoLostWakeup'
  <2>1. Readable' => Readable
    BY <1>1 DEF Readable
  <2> QED
    BY <1>1, <1>2, <2>1, WakeupKept DEF Writable, Asleep
<1> QED
  BY <1>6, <1>7, <1>8, <1>9 DEF JInv

LEMMA RefreeJInv == \A p \in Procs : JInv /\ Refree(p) => JInv'
<1> SUFFICES ASSUME NEW p \in Procs, JInv, Refree(p) PROVE JInv'
  OBVIOUS
<1>1. /\ file' = file /\ worker' = worker /\ pending' = pending
      /\ todo' = todo /\ tmp' = tmp /\ done' = done /\ free' = free + 1
      /\ itemcount' = itemcount /\ submitted' = submitted /\ fetched' = fetched
      /\ unbacked' = unbacked
  BY DEF Refree, jobs, history
<1>2. /\ pc[p] = "refree" /\ pc'[p] = "wake" /\ pc' \in [Procs -> Labels]
      /\ \A q \in Procs : q # p => pc'[q] = pc[q]
  BY MoveFacts DEF Refree, Labels
<1>3. file = "open"
  BY <1>2, OnlyOpen
<1>4. Types' /\ Quiet' /\ NothingOutlivesFile' /\ OnceAndInOrder'
  BY <1>1, <1>2, <1>3
     DEF JInv, Types, Quiet, NothingOutlivesFile, OnceAndInOrder
<1>5. ItemsAccounted'
  <2>1. Cardinality(InHand') = Cardinality(InHand) - 1
    BY <1>2, Gives DEF Hands
  <2>2. /\ Len(todo) \in Nat /\ Len(tmp) \in Nat /\ Len(done) \in Nat
        /\ unbacked \in Nat /\ free \in Nat /\ itemcount \in Nat
    BY LenProperties DEF JInv, Types
  <2> QED
    BY <1>1, <2>1, <2>2, InHandFinite, SMTT(30) DEF JInv, ItemsAccounted
<1>6. NoLostWakeup'
  BY <1>1, <1>2, WakeupKept DEF Readable, Asleep
<1> QED
  BY <1>4, <1>5, <1>6 DEF JInv

(* Everybody asleep is woken.                                              *)
LEMMA EndFetchJInv == \A p \in Procs : JInv /\ EndFetch(p) => JInv'
<1> SUFFICES ASSUME NEW p \in Procs, JInv, EndFetch(p) PROVE JInv'
  OBVIOUS
<1>1. /\ file' = file /\ worker' = worker /\ pending' = pending
      /\ todo' = todo /\ tmp' = tmp /\ done' = done /\ free' = free
      /\ itemcount' = itemcount /\ submitted' = submitted /\ fetched' = fetched
      /\ unbacked' = unbacked /\ pc[p] = "wake"
  BY DEF EndFetch, jobs, history
<1> Types
  BY DEF JInv
<1>2. /\ pc' \in [Procs -> Labels] /\ pc'[p] = "idle"
      /\ \A q \in Procs : q # p => pc'[q] = Woken(q)
  BY WokenFacts DEF EndFetch, Labels
<1>3. file = "open"
  BY <1>1, OnlyOpen
<1>4. Types' /\ Quiet' /\ NothingOutlivesFile' /\ OnceAndInOrder'
  BY <1>1, <1>2, <1>3
     DEF JInv, Types, Quiet, NothingOutlivesFile, OnceAndInOrder
<1>5. InHand' = InHand
  BY <1>1, <1>2, WokenFacts DEF InHand
<1>6. ItemsAccounted'
  BY <1>1, <1>5 DEF JInv, ItemsAccounted
<1>7. NoLostWakeup'
  BY <1>2, WokenFacts DEF NoLostWakeup, Asleep
<1> QED
  BY <1>4, <1>6, <1>7 DEF JInv

-----------------------------------------------------------------------------
(* What poll does changes no list.                                         *)
LEMMA PollJInv == \A p \in Procs : JInv /\ (Poll(p) \/ Interrupt(p)) => JInv'
<1> SUFFICES ASSUME NEW p \in Procs, JInv, Poll(p) \/ Interrupt(p) PROVE JInv'
  OBVIOUS
<1>1. /\ file' = file /\ worker' = worker /\ pending' = pending
      /\ todo' = todo /\ tmp' = tmp /\ done' = done /\ free' = free
      /\ itemcount' = itemcount /\ submitted' = submitted /\ fetched' = fetched
      /\ unbacked' = unbacked
  BY DEF Poll, Interrupt, jobs, history
<1>2. /\ pc[p] \in Asleep \cup {"idle"} /\ pc'[p] \in Polling \cup {"idle"}
      /\ pc' \in [Procs -> Labels]
      /\ \A q \in Procs : q # p => pc'[q] = pc[q]
  <2>1. CASE Poll(p)
    BY <2>1, MoveFacts DEF Poll, Labels, Polling, Asleep
  <2>2. CASE Interrupt(p)
    BY <2>2 DEF Interrupt, JInv, Types, Labels, Polling, Asleep
  <2> QED
    BY <2>1, <2>2
<1>3. file = "open"
  BY <1>2, OnlyOpen DEF Poll, Interrupt, Asleep
<1>4. Types' /\ Quiet' /\ NothingOutlivesFile' /\ OnceAndInOrder'
  BY <1>1, <1>2, <1>3
     DEF JInv, Types, Quiet, NothingOutlivesFile, OnceAndInOrder
<1>5. InHand' = InHand
  BY <1>2, Keeps DEF Hands, Asleep, Polling
<1>6. ItemsAccounted'
  BY <1>1, <1>5 DEF JInv, ItemsAccounted
<1>7. NoLostWakeup'
  BY <1>1, <1>2, WakeupKept DEF Readable, Writable, Asleep, Polling
<1> QED
  BY <1>4, <1>6, <1>7 DEF JInv

(* Who goes to sleep has seen that there is nothing.                       *)
LEMMA LookJInv == \A p \in Procs : JInv /\ Look(p) => JInv'
<1> SUFFICES ASSUME NEW p \in Procs, JInv, Look(p) PROVE JInv'
  OBVIOUS
<1>1. /\ file' = file /\ worker' = worker /\ pending' = pending
      /\ todo' = todo /\ tmp' = tmp /\ done' = done /\ free' = free
      /\ itemcount' = itemcount /\ submitted' = submitted /\ fetched' = fetched
      /\ unbacked' = unbacked
  BY DEF Look, jobs, history
<1>2. /\ pc[p] \in Polling /\ pc' \in [Procs -> Labels]
      /\ \A q \in Procs : q # p => pc'[q] = pc[q]
      /\ \/ pc'[p] \in Polling \cup {"idle"}
         \/ pc[p] = "look_in" /\ pc'[p] = "sleep_in" /\ ~Readable
         \/ pc[p] = "look_out" /\ pc'[p] = "sleep_out" /\ ~Writable
  <2>1. CASE Ready(p) /\ pc' = [pc EXCEPT ![p] = "idle"]
    BY <2>1 DEF Look, JInv, Types, Labels
  <2>2. CASE UNCHANGED pc
    BY <2>2 DEF Look, JInv, Types
  <2>3. CASE ~Ready(p) /\ Move(p, "look_in", "sleep_in")
    BY <2>3, MoveFacts DEF Look, Ready, Labels, Asleep
  <2>4. CASE ~Ready(p) /\ Move(p, "look_out", "sleep_out")
    BY <2>4, MoveFacts DEF Look, Ready, Labels, Asleep
  <2> QED
    BY <2>1, <2>2, <2>3, <2>4 DEF Look
<1>3. file = "open"
  BY <1>2, OnlyOpen DEF Polling
<1>4. Types' /\ Quiet' /\ NothingOutlivesFile' /\ OnceAndInOrder'
  BY <1>1, <1>2, <1>3
     DEF JInv, Types, Quiet, NothingOutlivesFile, OnceAndInOrder
<1>5. InHand' = InHand
  BY <1>2, Keeps DEF Hands, Polling
<1>6. ItemsAccounted'
  BY <1>1, <1>5 DEF JInv, ItemsAccounted
<1>7. NoLostWakeup'
  <2>1. CASE pc'[p] \notin Asleep
    BY <1>1, <1>2, <2>1, WakeupKept DEF Readable, Writable, Polling
  <2>2. CASE pc'[p] \in Asleep
    <3>1. Readable' = Readable /\ Writable' = Writable
      BY <1>1 DEF Readable, Writable
    <3>2. \A q \in Procs : pc[q] = "wake" => pc'[q] = "wake"
      BY <1>2 DEF Polling
    <3>3. /\ pc'[p] = "sleep_in" => ~Readable
          /\ pc'[p] = "sleep_out" => ~Writable
      BY <1>2 DEF Polling
    <3> QED
      BY <1>1, <1>2, <3>1, <3>2, <3>3 DEF JInv, NoLostWakeup
  <2> QED
    BY <2>1, <2>2
<1> QED
  BY <1>4, <1>6, <1>7 DEF JInv

LEMMA StutterJInv == JInv /\ UNCHANGED vars => JInv'
BY DEF vars, jobs, history, JInv, Types, Quiet, NothingOutlivesFile,
       OnceAndInOrder, ItemsAccounted, InHand, NoLostWakeup, Readable, Writable

LEMMA NextJInv == JInv /\ [Next]_vars => JInv'
<1>1. JInv /\ Work => JInv'
  BY StartWorkJInv, CutJInv, SpliceJInv, EndWorkJInv DEF Work
<1>2. \A p \in Procs : JInv /\ (Call(p) \/ Step(p) \/ Interrupt(p)) => JInv'
  BY TakeItemJInv, FetchJInv, PollJInv, AllocJInv, AddTodoJInv, KickJInv,
     RefreeJInv, EndFetchJInv, LookJInv DEF Call, Step
<1> QED
  BY <1>1, <1>2, OpenJInv, ReleaseJInv, StutterJInv DEF Next

LEMMA Inductive == Spec => []JInv
BY InitJInv, NextJInv, PTL DEF Spec

-----------------------------------------------------------------------------
(* Every job is run and fetched once, in the order of submission, however  *)
(* many threads submit and fetch.                                          *)
THEOREM JobsInOrder == Spec => []OnceAndInOrder
<1>1. JInv => OnceAndInOrder
  BY DEF JInv
<1> QED
  BY <1>1, Inductive, PTL

(* No item of an open file is lost but for memory that could not be had.   *)
THEOREM NoItemLost == Spec => []ItemsAccounted
<1>1. JInv => ItemsAccounted
  BY DEF JInv
<1> QED
  BY <1>1, Inductive, PTL

(* Nobody sleeps in poll on what is there, unless about to be woken.       *)
THEOREM PollersWoken == Spec => []NoLostWakeup
<1>1. JInv => NoLostWakeup
  BY DEF JInv
<1> QED
  BY <1>1, Inductive, PTL

(* No work of a file runs or is queued once the file is freed.             *)
THEOREM WorkEndsFirst == Spec => []NothingOutlivesFile
<1>1. JInv => NothingOutlivesFile
  BY DEF JInv
<1> QED
  BY <1>1, Inductive, PTL
=============================================================================
