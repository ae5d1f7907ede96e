------------------------- MODULE LunixChrdevProofs -------------------------
(* Machine-checked proofs about LunixChrdev, for every set of processes    *)
(* and files, every bound, shared files or not.                            *)
EXTENDS LunixChrdev, TLAPS

(* A process inside read(2) keeps the open file from being released. *)
Holding ==
  \A p \in Procs : pc[p] # "idle" => p \in holders[file[p]]

(* The bound on the number of updates is tested before the spinlock. *)
WriterBound == wpc = "values" => values < MaxUpdates

TypeInv == TypeOK /\ Holding /\ WriterBound

-----------------------------------------------------------------------------
LEMMA InitTypeInv == Init => TypeInv
BY ChrdevAssumption
   DEF Init, TypeInv, TypeOK, Holding, WriterBound, WriterPCs, ReaderPCs

LEMMA TransferredType ==
  ASSUME NEW f \in Files, NEW at \in Nat, NEW cnt \in Nat,
         buf_lim \in [Files -> Nat]
  PROVE  Rewind(f, at + Transferred(f, at, cnt)) \in Nat
BY DEF Rewind, Transferred

LEMMA UpdateTypeInv == TypeInv /\ SensorUpdate => TypeInv'
<1> SUFFICES ASSUME TypeInv, SensorUpdate PROVE TypeInv'
  OBVIOUS
<1> USE ChrdevAssumption
    DEF TypeInv, TypeOK, Holding, WriterBound, WriterPCs, WriterMove,
        fileVars, bufVars, localVars, posVars
<1>1. CASE UpdateLock
  BY <1>1 DEF UpdateLock
<1>2. CASE UpdateValues
  <2>1. values' \in 0..MaxUpdates
    BY <1>2 DEF UpdateValues
  <2> QED
    BY <1>2, <2>1 DEF UpdateValues
<1>3. CASE UpdateStamp
  <2>1. last_update' \in 0..MaxClock
    BY <1>3 DEF UpdateStamp
  <2>2. stamp' \in [0..MaxUpdates -> 0..MaxClock]
    <3>1. now \in 0..MaxClock /\ stamp' = [stamp EXCEPT ![values] = now]
      BY <1>3 DEF UpdateStamp
    <3>2. stamp \in [0..MaxUpdates -> 0..MaxClock]
      OBVIOUS
    <3> HIDE DEF TypeInv, TypeOK
    <3> QED
      BY <3>1, <3>2
  <2> QED
    BY <1>3, <2>1, <2>2 DEF UpdateStamp
<1>4. CASE UpdateUnlock
  BY <1>4 DEF UpdateUnlock
<1>5. CASE UpdateWake
  BY <1>5 DEF UpdateWake
<1> QED
  BY <1>1, <1>2, <1>3, <1>4, <1>5 DEF SensorUpdate

(* A step of a process that is inside read(2) and stays with its file. *)
LEMMA HoldingKept ==
  ASSUME TypeOK, Holding, NEW p \in Procs, pc[p] # "idle",
         UNCHANGED <<file, holders>>,
         \A q \in Procs : q # p => pc'[q] = pc[q]
  PROVE  Holding'
BY DEF Holding, TypeOK

LEMMA ReadTypeInv ==
  ASSUME TypeInv, NEW p \in Procs, Read(p)
  PROVE  TypeInv'
<1> USE ChrdevAssumption
    DEF TypeInv, TypeOK, Holding, WriterBound, ReaderPCs, Move, sensorVars,
        fileVars, bufVars, localVars, posVars
<1>1. CASE Down(p)
  <2>1. sem' \in [Files -> {0, 1}] /\ pc' \in [Procs -> ReaderPCs]
    <3>1. /\ sem \in [Files -> {0, 1}] /\ file[p] \in Files
          /\ pc \in [Procs -> ReaderPCs]
      OBVIOUS
    <3>2. sem' = [sem EXCEPT ![file[p]] = 0]
      BY <1>1 DEF Down
    <3>3. \/ Move(p, "down", IF Pos(p) = 0 THEN "grab" ELSE "copy")
          \/ Move(p, "redown", "grab")
      BY <1>1 DEF Down
    <3> HIDE DEF TypeInv, TypeOK
    <3> QED
      BY <3>1, <3>2, <3>3
  <2>2. Holding'
    <3>1. /\ pc[p] # "idle" /\ UNCHANGED <<file, holders>>
          /\ \A q \in Procs : q # p => pc'[q] = pc[q]
      BY <1>1 DEF Down
    <3> QED
      BY <3>1, HoldingKept
  <2> QED
    BY <1>1, <2>1, <2>2 DEF Down
<1>2. CASE GrabValue(p)
  BY <1>2 DEF GrabValue
<1>3. CASE GrabStamp(p)
  BY <1>3 DEF GrabStamp
<1>4. CASE CheckFresh(p)
  BY <1>4 DEF CheckFresh
<1>5. CASE CheckStale(p)
  BY <1>5 DEF CheckStale
<1>6. CASE Format(p)
  BY <1>6 DEF Format
<1>7. CASE Wait(p)
  BY <1>7 DEF Wait
<1>8. CASE Test(p)
  <2>1. wq' \subseteq Procs /\ pc' \in [Procs -> ReaderPCs]
    <3>1. CASE Move(p, "test", "redown") /\ wq' = wq \ {p}
      BY <3>1
    <3>2. CASE Move(p, "test", "sleep") /\ UNCHANGED wq
      BY <3>2
    <3> QED
      BY <1>8, <3>1, <3>2 DEF Test
  <2>2. Holding'
    <3>1. /\ pc[p] # "idle" /\ UNCHANGED <<file, holders>>
          /\ \A q \in Procs : q # p => pc'[q] = pc[q]
      BY <1>8 DEF Test
    <3> QED
      BY <3>1, HoldingKept
  <2> QED
    BY <1>8, <2>1, <2>2 DEF Test
<1>9. CASE Awake(p)
  BY <1>9 DEF Awake
<1>10. CASE Copy(p)
  <2>1. CASE Move(p, "copy", "fail") /\ UNCHANGED posVars
    BY <1>10, <2>1 DEF Copy
  <2>2. ASSUME NEW cnt \in Counts,
               LET new == Rewind(file[p], Pos(p)
                                   + Transferred(file[p], Pos(p), cnt))
               IN  /\ new <= MaxPos
                   /\ Move(p, "copy", "up")
                   /\ pos' = [pos EXCEPT ![p] = new]
                   /\ f_pos' = IF PosCopied THEN f_pos
                               ELSE [f_pos EXCEPT ![file[p]] = new]
                   /\ given' = [given EXCEPT ![file[p]] = buf_data[file[p]]]
        PROVE  TypeInv'
    <3> DEFINE new == Rewind(file[p], Pos(p) + Transferred(file[p], Pos(p), cnt))
    <3>1. Pos(p) \in Nat /\ file[p] \in Files /\ cnt \in Nat
      BY DEF Pos
    <3>2. new \in Nat
      BY <3>1, TransferredType
    <3>3. new \in 0..MaxPos
      BY <2>2, <3>2
    <3> HIDE DEF new
    <3>4. /\ pos' = [pos EXCEPT ![p] = new]
          /\ f_pos' = IF PosCopied THEN f_pos
                      ELSE [f_pos EXCEPT ![file[p]] = new]
          /\ given' = [given EXCEPT ![file[p]] = buf_data[file[p]]]
          /\ Move(p, "copy", "up")
      BY <2>2 DEF new
    <3>5. UNCHANGED <<now, sensorVars, lock, wq, fileVars, sem, bufVars,
                      file, localVars>>
      BY <1>10 DEF Copy
    <3> QED
      BY <3>1, <3>3, <3>4, <3>5
  <2> QED
    BY <1>10, <2>1, <2>2 DEF Copy
<1>11. CASE Up(p)
  <2>1. sem' \in [Files -> {0, 1}] /\ pc' \in [Procs -> ReaderPCs]
    <3>1. /\ sem \in [Files -> {0, 1}] /\ file[p] \in Files
          /\ pc \in [Procs -> ReaderPCs]
      OBVIOUS
    <3>2. sem' = [sem EXCEPT ![file[p]] = 1]
      BY <1>11 DEF Up
    <3>3. \/ Move(p, "up", "return")
          \/ Move(p, "fail", "idle")
      BY <1>11 DEF Up
    <3> HIDE DEF TypeInv, TypeOK
    <3> QED
      BY <3>1, <3>2, <3>3
  <2>2. Holding'
    <3>1. /\ pc[p] # "idle" /\ UNCHANGED <<file, holders>>
          /\ \A q \in Procs : q # p => pc'[q] = pc[q]
      BY <1>11 DEF Up
    <3> QED
      BY <3>1, HoldingKept
  <2> QED
    BY <1>11, <2>1, <2>2 DEF Up
<1>12. CASE Return(p)
  BY <1>12 DEF Return
<1> QED
  BY <1>1, <1>2, <1>3, <1>4, <1>5, <1>6, <1>7, <1>8, <1>9, <1>10, <1>11,
     <1>12 DEF Read

LEMMA NextTypeInv == TypeInv /\ [Next]_vars => TypeInv'
<1> SUFFICES ASSUME TypeInv, [Next]_vars PROVE TypeInv'
  OBVIOUS
<1> USE ChrdevAssumption
<1>1. CASE Tick
  <2>1. now' \in 1..MaxClock
    BY <1>1 DEF Tick, TypeInv, TypeOK
  <2> QED
    BY <1>1, <2>1 DEF Tick, TypeInv, TypeOK, Holding, WriterBound, sensorVars,
              fileVars, bufVars, localVars, posVars
<1>2. CASE SensorUpdate
  BY <1>2, UpdateTypeInv
<1>3. ASSUME NEW p \in Procs, Read(p) PROVE TypeInv'
  BY <1>3, ReadTypeInv
<1>4. ASSUME NEW p \in Procs, Interrupt(p) PROVE TypeInv'
  BY <1>4 DEF Interrupt, TypeInv, TypeOK, Holding, WriterBound, ReaderPCs,
              sensorVars, fileVars, bufVars, localVars, posVars
<1>5. ASSUME NEW p \in Procs, NEW f \in Files,
             Open(p, f) \/ Close(p, f) \/ Enter(p, f)
      PROVE  TypeInv'
  <2> USE DEF TypeInv, TypeOK, Holding, WriterBound, ReaderPCs, Move,
              sensorVars, fileVars, bufVars, localVars, posVars
  <2>1. CASE Open(p, f)
    <3>1. PICK b \in BOOLEAN : nonblock' = [nonblock EXCEPT ![f] = b]
      BY <2>1 DEF Open
    <3>2. /\ nonblock' \in [Files -> BOOLEAN]
          /\ holders' \in [Files -> SUBSET Procs]
      BY <2>1, <3>1 DEF Open
    <3>3. 0 \in 0..MaxPos /\ 0 \in 0..MaxClock /\ 0 \in 0..MaxUpdates
      OBVIOUS
    <3>4. /\ f_pos' \in [Files -> 0..MaxPos]
          /\ buf_timestamp' \in [Files -> 0..MaxClock]
          /\ buf_data' \in [Files -> 0..MaxUpdates]
          /\ given' \in [Files -> 0..MaxUpdates]
      <4> HIDE ChrdevAssumption
      <4> QED
        BY <2>1, <3>3 DEF Open
    <3>5. /\ buf_lim' \in [Files -> Nat]
          /\ sem' \in [Files -> {0, 1}]
      BY <2>1 DEF Open
    <3>6. Holding'
      BY <2>1 DEF Open
    <3> QED
      BY <2>1, <3>2, <3>4, <3>5, <3>6 DEF Open
  <2>2. CASE Close(p, f)
    BY <2>2 DEF Close
  <2>3. CASE Enter(p, f)
    BY <2>3 DEF Enter
  <2> QED
    BY <1>5, <2>1, <2>2, <2>3
<1>6. ASSUME NEW p \in Procs, NEW q \in Procs, NEW f \in Files, Fork(p, q, f)
      PROVE  TypeInv'
  BY <1>6 DEF Fork, TypeInv, TypeOK, Holding, WriterBound, sensorVars,
              bufVars, localVars, posVars
<1>7. CASE UNCHANGED vars
  BY <1>7 DEF vars, TypeInv, TypeOK, Holding, WriterBound, sensorVars,
              fileVars, bufVars, localVars, posVars
<1> QED
  BY <1>1, <1>2, <1>3, <1>4, <1>5, <1>6, <1>7 DEF Next

(* Every variable keeps its type, whatever the processes and the line      *)
(* discipline do; a process in read(2) always has the file open.           *)
THEOREM TypeCorrect == Spec => []TypeOK
<1>1. Spec => []TypeInv
  BY InitTypeInv, NextTypeInv, PTL DEF Spec
<1> QED
  BY <1>1, PTL DEF TypeInv

-----------------------------------------------------------------------------
(* The semaphore. *)

(* A step that moves no process across the boundary of the critical region *)
LEMMA SemaphoreFrame ==
  ASSUME SemaphoreExclusive, UNCHANGED <<file, holders, sem>>,
         \A q \in Procs : pc'[q] \in Inside <=> pc[q] \in Inside
  PROVE  SemaphoreExclusive'
BY DEF SemaphoreExclusive

LEMMA ReadSemaphore ==
  ASSUME TypeInv, SemaphoreExclusive, NEW p \in Procs, Read(p)
  PROVE  SemaphoreExclusive'
<1> USE DEF Move, fileVars, TypeInv, TypeOK
<1>1. CASE Down(p)
  <2>1. /\ sem[file[p]] = 1 /\ sem' = [sem EXCEPT ![file[p]] = 0]
        /\ pc'[p] \in Inside /\ pc[p] \notin Inside
        /\ \A q \in Procs : q # p => pc'[q] = pc[q]
        /\ UNCHANGED <<file, holders>>
    BY <1>1 DEF Down, Inside
  <2> HIDE DEF Move
  <2>2. file[p] \in Files /\ sem'[file[p]] = 0
        /\ \A g \in Files : g # file[p] => sem'[g] = sem[g]
    BY <2>1
  <2>3. \A q \in Procs : pc[q] \in Inside => file[q] # file[p]
    BY <2>1 DEF SemaphoreExclusive
  <2>4. ASSUME NEW q \in Procs, NEW r \in Procs, pc'[q] \in Inside,
               pc'[r] \in Inside, file'[q] = file'[r], q # r
        PROVE  FALSE
    <3>1. file[q] = file[r]
      BY <2>1, <2>4
    <3>2. q # p /\ r # p
      BY <2>1, <2>3, <2>4, <3>1
    <3> QED
      BY <2>1, <2>4, <3>1, <3>2 DEF SemaphoreExclusive
  <2>5. \A q \in Procs : pc'[q] \in Inside => sem'[file'[q]] = 0
    BY <2>1, <2>2, <2>3 DEF SemaphoreExclusive
  <2>6. ASSUME NEW g \in Files, holders'[g] # {}, sem'[g] = 0
        PROVE  \E q \in Procs : pc'[q] \in Inside /\ file'[q] = g
    BY <2>1, <2>2, <2>6 DEF SemaphoreExclusive
  <2> QED
    BY <2>4, <2>5, <2>6 DEF SemaphoreExclusive
<1>2. CASE GrabValue(p) \/ GrabStamp(p) \/ CheckFresh(p) \/ Format(p)
           \/ Copy(p)
  <2>1. /\ UNCHANGED <<file, holders, sem>>
        /\ pc[p] \in Inside /\ pc'[p] \in Inside
        /\ \A q \in Procs : q # p => pc'[q] = pc[q]
    <3>1. CASE GrabValue(p)
      BY <3>1 DEF GrabValue, Inside
    <3>2. CASE GrabStamp(p)
      BY <3>2 DEF GrabStamp, Inside
    <3>3. CASE CheckFresh(p)
      BY <3>3 DEF CheckFresh, Inside
    <3>4. CASE Format(p)
      BY <3>4 DEF Format, Inside
    <3>5. CASE Copy(p)
      BY <3>5 DEF Copy, Inside
    <3> QED
      BY <1>2, <3>1, <3>2, <3>3, <3>4, <3>5
  <2> QED
    BY <2>1, SemaphoreFrame
<1>3. CASE CheckStale(p) \/ Up(p)
  <2>1. /\ sem' = [sem EXCEPT ![file[p]] = 1]
        /\ pc'[p] \notin Inside /\ pc[p] \in Inside
        /\ \A q \in Procs : q # p => pc'[q] = pc[q]
        /\ UNCHANGED <<file, holders>>
    <3>1. CASE CheckStale(p)
      BY <3>1 DEF CheckStale, Inside
    <3>2. CASE Up(p)
      BY <3>2 DEF Up, Inside
    <3> QED
      BY <1>3, <3>1, <3>2
  <2>2. file[p] \in Files /\ sem'[file[p]] = 1
        /\ \A g \in Files : g # file[p] => sem'[g] = sem[g]
    BY <2>1
  <2>3. \A q \in Procs : pc'[q] \in Inside => file[q] # file[p]
    BY <2>1 DEF SemaphoreExclusive
  <2>4. \A q, r \in Procs :
          pc'[q] \in Inside /\ pc'[r] \in Inside /\ file'[q] = file'[r]
            => q = r
    BY <2>1, <2>3 DEF SemaphoreExclusive
  <2>5. \A q \in Procs : pc'[q] \in Inside => sem'[file'[q]] = 0
    BY <2>1, <2>2, <2>3 DEF SemaphoreExclusive
  <2>6. ASSUME NEW g \in Files, holders'[g] # {}, sem'[g] = 0
        PROVE  \E q \in Procs : pc'[q] \in Inside /\ file'[q] = g
    <3>1. g # file[p] /\ sem[g] = 0 /\ holders[g] # {}
      BY <2>1, <2>2, <2>6
    <3>2. PICK q \in Procs : pc[q] \in Inside /\ file[q] = g
      BY <3>1 DEF SemaphoreExclusive
    <3> QED
      BY <2>1, <3>1, <3>2
  <2> QED
    BY <2>4, <2>5, <2>6 DEF SemaphoreExclusive
<1>4. CASE Wait(p) \/ Test(p) \/ Awake(p) \/ Return(p)
  <2>1. /\ UNCHANGED <<file, holders, sem>>
        /\ pc[p] \notin Inside /\ pc'[p] \notin Inside
        /\ \A q \in Procs : q # p => pc'[q] = pc[q]
    <3>1. CASE Wait(p)
      BY <3>1 DEF Wait, Inside
    <3>2. CASE Test(p)
      BY <3>2 DEF Test, Inside
    <3>3. CASE Awake(p)
      BY <3>3 DEF Awake, Inside
    <3>4. CASE Return(p)
      BY <3>4 DEF Return, Inside
    <3> QED
      BY <1>4, <3>1, <3>2, <3>3, <3>4
  <2> QED
    BY <2>1, SemaphoreFrame
<1> QED
  BY <1>1, <1>2, <1>3, <1>4 DEF Read

LEMMA NextSemaphore ==
  TypeInv /\ SemaphoreExclusive /\ [Next]_vars => SemaphoreExclusive'
<1> SUFFICES ASSUME TypeInv, SemaphoreExclusive, [Next]_vars
             PROVE  SemaphoreExclusive'
  OBVIOUS
<1>1. CASE Tick \/ SensorUpdate \/ UNCHANGED vars
  <2>1. UNCHANGED <<file, holders, sem, pc>>
    BY <1>1 DEF Tick, SensorUpdate, UpdateLock, UpdateValues, UpdateStamp,
                UpdateUnlock, UpdateWake, WriterMove, vars, fileVars
  <2> QED
    BY <2>1, SemaphoreFrame
<1>2. ASSUME NEW p \in Procs, Read(p) PROVE SemaphoreExclusive'
  BY <1>2, ReadSemaphore
<1>3. ASSUME NEW p \in Procs, Interrupt(p) PROVE SemaphoreExclusive'
  <2>1. /\ UNCHANGED <<file, holders, sem>>
        /\ pc[p] \notin Inside /\ pc'[p] \notin Inside
        /\ \A q \in Procs : q # p => pc'[q] = pc[q]
    BY <1>3 DEF Interrupt, Inside, fileVars, TypeInv, TypeOK
  <2> QED
    BY <2>1, SemaphoreFrame
<1>4. ASSUME NEW p \in Procs, NEW f \in Files, Open(p, f)
      PROVE  SemaphoreExclusive'
  <2>1. /\ sem' = [sem EXCEPT ![f] = 1] /\ UNCHANGED <<file, pc>>
        /\ holders' = [holders EXCEPT ![f] = {p}]
        /\ holders[f] = {}
    BY <1>4 DEF Open
  <2>2. \A q \in Procs : pc[q] \in Inside => file[q] # f
    BY <2>1 DEF TypeInv, TypeOK, Holding, Inside
  <2>3. sem'[f] = 1 /\ \A g \in Files : g # f => /\ sem'[g] = sem[g]
                                                /\ holders'[g] = holders[g]
    BY <2>1 DEF TypeInv, TypeOK
  <2>4. \A q, r \in Procs :
          pc'[q] \in Inside /\ pc'[r] \in Inside /\ file'[q] = file'[r]
            => q = r
    BY <2>1 DEF SemaphoreExclusive
  <2>5. \A q \in Procs : file[q] \in Files
    BY DEF TypeInv, TypeOK
  <2>6. \A q \in Procs : pc'[q] \in Inside => sem'[file'[q]] = 0
    BY <2>1, <2>2, <2>3, <2>5 DEF SemaphoreExclusive
  <2>7. ASSUME NEW g \in Files, holders'[g] # {}, sem'[g] = 0
        PROVE  \E q \in Procs : pc'[q] \in Inside /\ file'[q] = g
    BY <2>1, <2>3, <2>7 DEF SemaphoreExclusive
  <2> QED
    BY <2>4, <2>6, <2>7 DEF SemaphoreExclusive
<1>5. ASSUME NEW p \in Procs, NEW f \in Files, Close(p, f)
      PROVE  SemaphoreExclusive'
  <2>1. /\ UNCHANGED <<file, pc, sem>>
        /\ holders' = [holders EXCEPT ![f] = @ \ {p}]
    BY <1>5 DEF Close
  <2>2. \A g \in Files : holders'[g] # {} => holders[g] # {}
    BY <2>1 DEF TypeInv, TypeOK
  <2> QED
    BY <2>1, <2>2 DEF SemaphoreExclusive
<1>6. ASSUME NEW p \in Procs, NEW f \in Files, Enter(p, f)
      PROVE  SemaphoreExclusive'
  <2>1. /\ UNCHANGED <<holders, sem>>
        /\ pc[p] \notin Inside /\ pc'[p] \notin Inside
        /\ \A q \in Procs : q # p => pc'[q] = pc[q] /\ file'[q] = file[q]
    BY <1>6 DEF Enter, Move, Inside, fileVars, TypeInv, TypeOK
  <2> QED
    BY <2>1 DEF SemaphoreExclusive
<1>7. ASSUME NEW p \in Procs, NEW q \in Procs, NEW f \in Files, Fork(p, q, f)
      PROVE  SemaphoreExclusive'
  <2>1. /\ UNCHANGED <<file, pc, sem>> /\ holders[f] # {}
        /\ \A g \in Files : g # f => holders'[g] = holders[g]
    BY <1>7 DEF Fork, TypeInv, TypeOK
  <2> QED
    BY <2>1 DEF SemaphoreExclusive
<1> QED
  BY <1>1, <1>2, <1>3, <1>4, <1>5, <1>6, <1>7 DEF Next

(* Whatever the readers of a shared file do, at most one is between down   *)
(* and up, and the semaphore is free when none is.                         *)
THEOREM SemaphoreSafe == Spec => []SemaphoreExclusive
<1>1. Init => TypeInv /\ SemaphoreExclusive
  BY InitTypeInv DEF Init, SemaphoreExclusive, Inside
<1>2. TypeInv /\ SemaphoreExclusive /\ [Next]_vars
        => (TypeInv /\ SemaphoreExclusive)'
  BY NextTypeInv, NextSemaphore
<1> QED
  BY <1>1, <1>2, PTL DEF Spec

-----------------------------------------------------------------------------
(* The spinlock, the pairs it protects and the order of timestamps. *)

SpinInv ==
  /\ lock = Writer <=> wpc \in {"values", "stamp", "unlock"}
  /\ \A p \in Procs : lock = p <=> pc[p] = "stamp"

(* A measurement that has already been stamped. *)
Stamped(m) == m <= values /\ (wpc = "stamp" => m < values)

PairInv ==
  /\ Stamped(0) /\ stamp[0] = 0
  /\ wpc # "stamp" => last_update = stamp[values]
  /\ \A p \in Procs : pc[p] = "stamp" => value[p] = values
  /\ \A p \in Procs : pc[p] \in {"check", "format"}
       => Stamped(value[p]) /\ current_timestamp[p] = stamp[value[p]]
  /\ \A f \in Files : holders[f] # {}
       => Stamped(buf_data[f]) /\ buf_timestamp[f] = stamp[buf_data[f]]

OrderInv ==
  /\ last_update <= now
  /\ \A p \in Procs : pc[p] \in {"check", "format"}
       => current_timestamp[p] <= last_update
  /\ \A f \in Files : holders[f] # {} => buf_timestamp[f] <= last_update
  /\ \A p \in Procs : pc[p] = "format"
       => buf_timestamp[file[p]] < last_update
  /\ \A p \in Procs : pc[p] \in {"stamp", "check", "format"}
       => value[p] >= buf_data[file[p]]

SafeInv == TypeInv /\ SemaphoreExclusive /\ SpinInv /\ PairInv /\ OrderInv

LEMMA TypeFacts ==
  ASSUME TypeOK
  PROVE  /\ now \in Int /\ values \in 0..MaxUpdates /\ last_update \in Int
         /\ stamp \in [0..MaxUpdates -> 0..MaxClock]
         /\ \A p \in Procs : /\ file[p] \in Files
                             /\ value[p] \in 0..MaxUpdates
                             /\ current_timestamp[p] \in Int
         /\ \A f \in Files : /\ buf_timestamp[f] \in Int
                             /\ buf_data[f] \in 0..MaxUpdates
BY DEF TypeOK

(* A step that touches neither the sensor nor a buffer and takes a process *)
(* that does not own the spinlock somewhere outside the update.            *)
Quiet(p) ==
  /\ UNCHANGED <<now, sensorVars, lock, holders, bufVars, localVars>>
  /\ pc[p] # "stamp" /\ pc'[p] \notin {"stamp", "check", "format"}
  /\ \A q \in Procs : q # p => pc'[q] = pc[q] /\ file'[q] = file[q]

LEMMA QuietSteps ==
  ASSUME TypeOK, NEW p \in Procs,
         \/ Down(p) \/ CheckStale(p) \/ Wait(p) \/ Test(p) \/ Awake(p)
         \/ Copy(p) \/ Up(p) \/ Return(p) \/ Interrupt(p)
         \/ \E f \in Files : Enter(p, f)
  PROVE  Quiet(p)
<1> USE DEF Quiet, TypeOK, Move, fileVars
<1>1. CASE Down(p)
  BY <1>1 DEF Down
<1>2. CASE CheckStale(p)
  BY <1>2 DEF CheckStale
<1>3. CASE Wait(p) \/ Test(p) \/ Awake(p)
  BY <1>3 DEF Wait, Test, Awake
<1>4. CASE Copy(p)
  BY <1>4 DEF Copy
<1>5. CASE Up(p)
  BY <1>5 DEF Up
<1>6. CASE Return(p)
  BY <1>6 DEF Return
<1>7. CASE Interrupt(p)
  BY <1>7 DEF Interrupt
<1>8. CASE \E f \in Files : Enter(p, f)
  BY <1>8 DEF Enter
<1> QED
  BY <1>1, <1>2, <1>3, <1>4, <1>5, <1>6, <1>7, <1>8

LEMMA QuietKeeps ==
  ASSUME SafeInv, NEW p \in Procs, Quiet(p)
  PROVE  SpinInv' /\ PairInv' /\ OrderInv'
<1> USE ChrdevAssumption DEF SafeInv, Quiet, sensorVars, bufVars, localVars
<1>1. SpinInv'
  BY DEF SpinInv
<1>2. PairInv'
  BY DEF PairInv, Stamped
<1>3. OrderInv'
  BY DEF OrderInv
<1> QED
  BY <1>1, <1>2, <1>3

LEMMA GrabValueKeeps ==
  ASSUME SafeInv, NEW p \in Procs, GrabValue(p)
  PROVE  SpinInv' /\ PairInv' /\ OrderInv'
<1> USE ChrdevAssumption
    DEF SafeInv, TypeInv, TypeOK, Move, sensorVars, bufVars, fileVars
<1>1. SpinInv'
  BY DEF GrabValue, SpinInv
<1>2. PairInv'
  BY DEF GrabValue, PairInv, Stamped
<1>3. values >= buf_data[file[p]]
  BY DEF GrabValue, PairInv, Stamped, Holding
<1>4. OrderInv'
  BY <1>3 DEF GrabValue, OrderInv
<1> QED
  BY <1>1, <1>2, <1>4

LEMMA GrabStampKeeps ==
  ASSUME SafeInv, NEW p \in Procs, GrabStamp(p)
  PROVE  SpinInv' /\ PairInv' /\ OrderInv'
<1>1. /\ UNCHANGED <<now, values, last_update, wpc, stamp, holders, file,
                     bufVars, value>>
      /\ pc[p] = "stamp" /\ pc'[p] = "check" /\ lock' = NoOne
      /\ current_timestamp'[p] = last_update
      /\ \A q \in Procs : q # p
           => pc'[q] = pc[q] /\ current_timestamp'[q] = current_timestamp[q]
  BY DEF GrabStamp, Move, SafeInv, TypeInv, TypeOK, sensorVars, fileVars
<1>2. lock = p /\ wpc \notin {"values", "stamp", "unlock"}
  BY <1>1, ChrdevAssumption DEF SafeInv, SpinInv
<1>3. SpinInv'
  BY <1>1, <1>2, ChrdevAssumption DEF SafeInv, SpinInv
<1>4. value[p] = values /\ Stamped(values) /\ last_update = stamp[values]
  BY <1>1, <1>2 DEF SafeInv, PairInv, Stamped, TypeInv, TypeOK
<1>5. PairInv'
  <2>1. \A q \in Procs : pc'[q] = "stamp" => value'[q] = values'
    BY <1>1 DEF SafeInv, PairInv
  <2>2. \A q \in Procs : pc'[q] \in {"check", "format"}
          => Stamped(value[q])
             /\ current_timestamp'[q] = stamp[value[q]]
    BY <1>1, <1>4 DEF SafeInv, PairInv
  <2>3. /\ Stamped(0)
        /\ \A f \in Files : holders[f] # {}
             => Stamped(buf_data[f]) /\ buf_timestamp[f] = stamp[buf_data[f]]
    BY DEF SafeInv, PairInv
  <2>4. stamp'[0] = 0 /\ (wpc' # "stamp" => last_update' = stamp'[values'])
    BY <1>1 DEF SafeInv, PairInv
  <2> QED
    BY <1>1, <2>1, <2>2, <2>3, <2>4 DEF PairInv, Stamped, bufVars
<1>6. OrderInv'
  <2>1. last_update \in Int
    BY DEF SafeInv, TypeInv, TypeOK
  <2>2. \A q \in Procs : pc'[q] \in {"check", "format"}
          => current_timestamp'[q] <= last_update
    BY <1>1, <2>1 DEF SafeInv, OrderInv
  <2>3. \A q \in Procs : pc'[q] \in {"stamp", "check", "format"}
          => pc[q] \in {"stamp", "check", "format"}
    BY <1>1
  <2>4. \A q \in Procs : pc'[q] = "format" => pc[q] = "format"
    BY <1>1
  <2> QED
    BY <1>1, <2>2, <2>3, <2>4 DEF SafeInv, OrderInv, bufVars
<1> QED
  BY <1>3, <1>5, <1>6

LEMMA CheckFreshKeeps ==
  ASSUME SafeInv, NEW p \in Procs, CheckFresh(p)
  PROVE  SpinInv' /\ PairInv' /\ OrderInv'
<1>1. /\ UNCHANGED <<now, sensorVars, lock, holders, file, bufVars, localVars>>
      /\ pc[p] = "check" /\ pc'[p] = "format" /\ NeedsRefresh(file[p])
      /\ \A q \in Procs : q # p => pc'[q] = pc[q]
  BY DEF CheckFresh, Move, SafeInv, TypeInv, TypeOK, fileVars
<1>2. SpinInv'
  BY <1>1 DEF SafeInv, SpinInv, sensorVars
<1>3. PairInv'
  <2>1. \A q \in Procs : /\ pc'[q] = "stamp" => pc[q] = "stamp"
                         /\ pc'[q] \in {"check", "format"}
                              => pc[q] \in {"check", "format"}
    BY <1>1
  <2> QED
    BY <1>1, <2>1 DEF SafeInv, PairInv, Stamped, sensorVars, bufVars, localVars
<1>4. buf_timestamp[file[p]] < last_update
  <2>1. file[p] \in Files /\ holders[file[p]] # {}
    BY <1>1 DEF SafeInv, TypeInv, TypeOK, Holding
  <2>2. buf_timestamp[file[p]] <= last_update
    BY <2>1 DEF SafeInv, OrderInv
  <2>3. buf_timestamp[file[p]] \in Int /\ last_update \in Int
    BY <2>1 DEF SafeInv, TypeInv, TypeOK
  <2> QED
    BY <1>1, <2>2, <2>3 DEF NeedsRefresh
<1>5. OrderInv'
  BY <1>1, <1>4 DEF SafeInv, OrderInv, sensorVars, bufVars, localVars
<1> QED
  BY <1>2, <1>3, <1>5

LEMMA FormatKeeps ==
  ASSUME SafeInv, NEW p \in Procs, Format(p)
  PROVE  SpinInv' /\ PairInv' /\ OrderInv'
<1> USE DEF SafeInv, TypeInv, TypeOK
<1>1. /\ UNCHANGED <<now, sensorVars, lock, holders, file, localVars>>
      /\ pc[p] = "format" /\ pc'[p] = "copy"
      /\ \A q \in Procs : q # p => pc'[q] = pc[q]
      /\ buf_timestamp'[file[p]] = current_timestamp[p]
      /\ buf_data'[file[p]] = value[p]
      /\ \A g \in Files : g # file[p]
           => buf_timestamp'[g] = buf_timestamp[g] /\ buf_data'[g] = buf_data[g]
  BY DEF Format, Move, fileVars
<1>2. \A q \in Procs : q # p /\ pc[q] \in {"stamp", "check", "format"}
        => file[q] # file[p]
  BY <1>1 DEF SemaphoreExclusive, Inside
<1>3. SpinInv'
  BY <1>1 DEF SpinInv, sensorVars
<1>4. PairInv'
  <2>1. /\ UNCHANGED <<values, last_update, wpc, stamp, value, current_timestamp>>
        /\ Stamped(value[p]) /\ current_timestamp[p] = stamp[value[p]]
    BY <1>1 DEF PairInv, sensorVars, localVars
  <2>2. \A f \in Files : holders[f] # {}
          => /\ Stamped(buf_data'[f])
             /\ buf_timestamp'[f] = stamp[buf_data'[f]]
    BY <1>1, <2>1 DEF PairInv
  <2>3. \A q \in Procs : pc'[q] \in {"stamp", "check", "format"} => q # p
    BY <1>1
  <2>4. holders' = holders
    BY <1>1
  <2> HIDE DEF TypeInv, TypeOK
  <2> QED
    BY <1>1, <2>1, <2>2, <2>3, <2>4 DEF PairInv, Stamped, SafeInv
<1>5. OrderInv'
  <2>1. /\ current_timestamp[p] <= last_update /\ value[p] = value'[p]
        /\ UNCHANGED <<last_update, now, file, holders, value, current_timestamp>>
    BY <1>1 DEF OrderInv, sensorVars, localVars
  <2>2. \A f \in Files : holders'[f] # {} => buf_timestamp'[f] <= last_update'
    BY <1>1, <2>1 DEF OrderInv
  <2>3. \A q \in Procs : pc'[q] = "format"
          => buf_timestamp'[file'[q]] < last_update'
    BY <1>1, <1>2, <2>1 DEF OrderInv
  <2>4. \A q \in Procs : pc'[q] \in {"stamp", "check", "format"}
          => value'[q] >= buf_data'[file'[q]]
    BY <1>1, <1>2, <2>1 DEF OrderInv
  <2>5. \A q \in Procs : pc'[q] \in {"check", "format"}
          => current_timestamp'[q] <= last_update'
    BY <1>1, <2>1 DEF OrderInv
  <2> HIDE DEF SafeInv, TypeInv, TypeOK
  <2> QED
    BY <1>1, <2>1, <2>2, <2>3, <2>4, <2>5 DEF OrderInv, SafeInv
<1> QED
  BY <1>3, <1>4, <1>5

LEMMA UpdateKeeps ==
  ASSUME SafeInv, SensorUpdate
  PROVE  SpinInv' /\ PairInv' /\ OrderInv'
<1>1. UNCHANGED <<now, holders, bufVars, pc, file, localVars>>
  BY DEF SensorUpdate, UpdateLock, UpdateValues, UpdateStamp, UpdateUnlock,
         UpdateWake, WriterMove, fileVars
<1>2. CASE UpdateLock \/ UpdateUnlock \/ UpdateWake
  <2>1. UNCHANGED <<values, last_update, stamp>> /\ wpc # "stamp" /\ wpc' # "stamp"
    BY <1>2 DEF UpdateLock, UpdateUnlock, UpdateWake, WriterMove
  <2>2. SpinInv'
    BY <1>1, <1>2, ChrdevAssumption
       DEF SafeInv, SpinInv, UpdateLock, UpdateUnlock, UpdateWake, WriterMove
  <2>3. PairInv'
    BY <1>1, <2>1 DEF SafeInv, PairInv, Stamped, bufVars, localVars
  <2>4. OrderInv'
    BY <1>1, <2>1 DEF SafeInv, OrderInv, bufVars, localVars
  <2> QED
    BY <2>2, <2>3, <2>4
<1>3. CASE UpdateValues
  <2>1. /\ wpc = "values" /\ wpc' = "stamp" /\ values' = values + 1
        /\ UNCHANGED <<last_update, stamp, lock>>
    BY <1>3 DEF UpdateValues, WriterMove
  <2>2. SpinInv'
    BY <1>1, <2>1 DEF SafeInv, SpinInv
  <2>3. \A p \in Procs : pc[p] # "stamp"
    BY <2>1, ChrdevAssumption DEF SafeInv, SpinInv
  <2>4. PairInv'
    <3>1. \A m \in 0..MaxUpdates : m <= values => m <= values' /\ m < values'
      BY <2>1, TypeFacts DEF SafeInv, TypeInv
    <3>2. \A q \in Procs : pc[q] \in {"check", "format"}
            => value[q] <= values' /\ value[q] < values'
      BY <3>1, TypeFacts DEF SafeInv, TypeInv, PairInv, Stamped
    <3>3. \A f \in Files : holders[f] # {}
            => buf_data[f] <= values' /\ buf_data[f] < values'
      BY <3>1, TypeFacts DEF SafeInv, TypeInv, PairInv, Stamped
    <3>4. 0 <= values' /\ 0 < values'
      BY <2>1, TypeFacts, ChrdevAssumption DEF SafeInv, TypeInv
    <3> QED
      BY <1>1, <2>1, <2>3, <3>2, <3>3, <3>4
         DEF SafeInv, PairInv, Stamped, bufVars, localVars
  <2>5. OrderInv'
    BY <1>1, <2>1 DEF SafeInv, OrderInv, bufVars, localVars
  <2> QED
    BY <2>2, <2>4, <2>5
<1>4. CASE UpdateStamp
  <2>1. /\ wpc = "stamp" /\ wpc' = "unlock" /\ last_update' = now
        /\ stamp' = [stamp EXCEPT ![values] = now] /\ UNCHANGED <<values, lock>>
    BY <1>4 DEF UpdateStamp, WriterMove
  <2>2. SpinInv'
    BY <1>1, <2>1 DEF SafeInv, SpinInv
  <2>3. \A m \in 0..MaxUpdates : Stamped(m) => stamp'[m] = stamp[m]
    BY <2>1, TypeFacts DEF SafeInv, TypeInv, Stamped
  <2>4. PairInv'
    <3>1. \A q \in Procs : pc[q] \in {"check", "format"}
            => value[q] <= values /\ current_timestamp[q] = stamp'[value[q]]
      BY <2>3, TypeFacts DEF SafeInv, TypeInv, PairInv, Stamped
    <3>2. \A f \in Files : holders[f] # {}
            => buf_data[f] <= values /\ buf_timestamp[f] = stamp'[buf_data[f]]
      BY <2>3, TypeFacts DEF SafeInv, TypeInv, PairInv, Stamped
    <3>3. 0 <= values /\ stamp'[0] = 0
      BY <2>3, ChrdevAssumption DEF SafeInv, PairInv, Stamped
    <3>4. last_update' = stamp'[values']
      BY <2>1, TypeFacts DEF SafeInv, TypeInv
    <3>5. \A q \in Procs : pc[q] = "stamp" => value[q] = values
      BY DEF SafeInv, PairInv
    <3> QED
      BY <1>1, <2>1, <3>1, <3>2, <3>3, <3>4, <3>5
         DEF PairInv, Stamped, bufVars, localVars
  <2>5. OrderInv'
    <3>1. \A n \in Int : /\ n <= last_update => n <= last_update'
                         /\ n < last_update => n < last_update'
      BY <2>1, TypeFacts DEF SafeInv, TypeInv, OrderInv
    <3>2. \A q \in Procs : pc[q] \in {"check", "format"}
            => current_timestamp[q] <= last_update'
      BY <3>1, TypeFacts DEF SafeInv, TypeInv, OrderInv
    <3>3. \A f \in Files : holders[f] # {} => buf_timestamp[f] <= last_update'
      BY <3>1, TypeFacts DEF SafeInv, TypeInv, OrderInv
    <3>4. \A q \in Procs : pc[q] = "format"
            => buf_timestamp[file[q]] < last_update'
      BY <3>1, TypeFacts DEF SafeInv, TypeInv, OrderInv
    <3>5. last_update' <= now'
      BY <1>1, <2>1, TypeFacts DEF SafeInv, TypeInv
    <3> QED
      BY <1>1, <3>2, <3>3, <3>4, <3>5
         DEF SafeInv, OrderInv, bufVars, localVars
  <2> QED
    BY <2>2, <2>4, <2>5
<1> QED
  BY <1>2, <1>3, <1>4 DEF SensorUpdate

LEMMA OpenKeeps ==
  ASSUME SafeInv, NEW p \in Procs, NEW f \in Files,
         Open(p, f) \/ Close(p, f) \/ \E q \in Procs : Fork(p, q, f)
  PROVE  SpinInv' /\ PairInv' /\ OrderInv'
<1>1. /\ UNCHANGED <<now, values, last_update, wpc, stamp, lock, pc, file, value,
                     current_timestamp>>
      /\ \A g \in Files :
           \/ /\ holders'[g] # {} => holders[g] # {}
              /\ buf_timestamp'[g] = buf_timestamp[g]
              /\ buf_data'[g] = buf_data[g]
           \/ /\ holders[g] = {}
              /\ buf_timestamp'[g] = 0 /\ buf_data'[g] = 0
  <2> USE DEF SafeInv, TypeInv, TypeOK, sensorVars, localVars, bufVars
  <2>1. CASE Open(p, f)
    BY <2>1 DEF Open
  <2>2. CASE Close(p, f)
    BY <2>2 DEF Close
  <2>3. ASSUME NEW q \in Procs, Fork(p, q, f)
        PROVE  /\ UNCHANGED <<now, values, last_update, wpc, stamp, lock, pc,
                              file, value, current_timestamp, buf_timestamp,
                              buf_data>>
               /\ holders[f] # {}
               /\ \A g \in Files : g # f => holders'[g] = holders[g]
    BY <2>3 DEF Fork
  <2> QED
    BY <2>1, <2>2, <2>3
<1>2. \A q \in Procs : pc[q] # "idle"
        => /\ file[q] \in Files
           /\ buf_timestamp'[file[q]] = buf_timestamp[file[q]]
           /\ buf_data'[file[q]] = buf_data[file[q]]
  BY <1>1 DEF SafeInv, TypeInv, TypeOK, Holding
<1>3. SpinInv'
  BY <1>1 DEF SafeInv, SpinInv
<1>4. PairInv'
  BY <1>1 DEF SafeInv, PairInv, Stamped
<1>5. OrderInv'
  <2>1. last_update \in Int /\ 0 <= last_update
    BY DEF SafeInv, TypeInv, TypeOK
  <2>2. \A g \in Files : holders'[g] # {} => buf_timestamp'[g] <= last_update
    BY <1>1, <2>1 DEF SafeInv, OrderInv
  <2> QED
    BY <1>1, <1>2, <2>2 DEF SafeInv, OrderInv
<1> QED
  BY <1>3, <1>4, <1>5

LEMMA NextSafe == SafeInv /\ [Next]_vars => SafeInv'
<1> SUFFICES ASSUME SafeInv, [Next]_vars PROVE SafeInv'
  OBVIOUS
<1>1. TypeInv' /\ SemaphoreExclusive'
  BY NextTypeInv, NextSemaphore DEF SafeInv
<1>2. TypeOK
  BY DEF SafeInv, TypeInv
<1>3. CASE Tick
  <2>1. /\ UNCHANGED <<sensorVars, lock, holders, bufVars, pc, file, localVars>>
        /\ now' = now + 1
    BY <1>3 DEF Tick, fileVars
  <2>2. SpinInv' /\ PairInv'
    BY <2>1 DEF SafeInv, SpinInv, PairInv, Stamped, sensorVars, bufVars, localVars
  <2>3. last_update <= now'
    BY <2>1, <1>2, TypeFacts DEF SafeInv, OrderInv
  <2>4. OrderInv'
    BY <2>1, <2>3 DEF SafeInv, OrderInv, sensorVars, bufVars, localVars
  <2> QED
    BY <1>1, <2>2, <2>4 DEF SafeInv
<1>4. CASE SensorUpdate
  BY <1>1, <1>4, UpdateKeeps DEF SafeInv
<1>5. ASSUME NEW p \in Procs, Read(p) \/ Interrupt(p) PROVE SafeInv'
  <2>1. CASE GrabValue(p)
    BY <1>1, <2>1, GrabValueKeeps DEF SafeInv
  <2>2. CASE GrabStamp(p)
    BY <1>1, <2>2, GrabStampKeeps DEF SafeInv
  <2>3. CASE CheckFresh(p)
    BY <1>1, <2>3, CheckFreshKeeps DEF SafeInv
  <2>4. CASE Format(p)
    BY <1>1, <2>4, FormatKeeps DEF SafeInv
  <2>5. CASE \/ Down(p) \/ CheckStale(p) \/ Wait(p) \/ Test(p) \/ Awake(p)
             \/ Copy(p) \/ Up(p) \/ Return(p) \/ Interrupt(p)
    BY <1>1, <1>2, <2>5, QuietSteps, QuietKeeps DEF SafeInv
  <2> QED
    BY <1>5, <2>1, <2>2, <2>3, <2>4, <2>5 DEF Read
<1>6. ASSUME NEW p \in Procs, NEW f \in Files, Enter(p, f) PROVE SafeInv'
  BY <1>1, <1>2, <1>6, QuietSteps, QuietKeeps DEF SafeInv
<1>7. ASSUME NEW p \in Procs, NEW f \in Files,
             Open(p, f) \/ Close(p, f) \/ \E q \in Procs : Fork(p, q, f)
      PROVE  SafeInv'
  BY <1>1, <1>7, OpenKeeps DEF SafeInv
<1>8. CASE UNCHANGED vars
  BY <1>1, <1>8 DEF SafeInv, SpinInv, PairInv, Stamped, OrderInv, vars,
                    sensorVars, fileVars, bufVars, localVars
<1> QED
  BY <1>3, <1>4, <1>5, <1>6, <1>7, <1>8 DEF Next

LEMMA InitSafe == Init => SafeInv
<1> SUFFICES ASSUME Init PROVE SafeInv
  OBVIOUS
<1>1. TypeInv
  BY InitTypeInv
<1>2. SemaphoreExclusive
  BY DEF Init, SemaphoreExclusive, Inside
<1>3. SpinInv
  BY ChrdevAssumption DEF Init, SpinInv
<1>4. PairInv
  BY ChrdevAssumption DEF Init, PairInv, Stamped
<1>5. OrderInv
  BY DEF Init, OrderInv
<1> QED
  BY <1>1, <1>2, <1>3, <1>4, <1>5 DEF SafeInv

LEMMA AlwaysSafe == Spec => []SafeInv
BY InitSafe, NextSafe, PTL DEF Spec

(* No value is ever held with the timestamp of another update.             *)
THEOREM PairsSafe == Spec => []PairsGoTogether
<1>1. SafeInv => PairsGoTogether
  BY DEF SafeInv, PairInv, PairsGoTogether
<1> QED
  BY <1>1, AlwaysSafe, PTL

-----------------------------------------------------------------------------
(* Sleeping and waking. *)

LEMMA NextWakeup ==
  SafeInv /\ NoLostWakeup /\ [Next]_vars => NoLostWakeup'
<1> SUFFICES ASSUME SafeInv, NoLostWakeup, [Next]_vars,
                    NEW q \in Procs, pc'[q] = "sleep", q \in wq',
                    NeedsRefresh(file[q])', wpc' \notin {"unlock", "wake"}
             PROVE  FALSE
  BY DEF NoLostWakeup
<1> USE DEF NoLostWakeup, NeedsRefresh
<1>1. TypeOK /\ Holding
  BY DEF SafeInv, TypeInv
<1>2. CASE Tick \/ UNCHANGED vars
  BY <1>2 DEF Tick, vars, sensorVars, bufVars
<1>3. CASE SensorUpdate
  BY <1>3 DEF SensorUpdate, UpdateLock, UpdateValues, UpdateStamp,
              UpdateUnlock, UpdateWake, WriterMove, bufVars
<1>4. ASSUME NEW p \in Procs, Format(p) PROVE FALSE
  <2>1. /\ pc[p] = "format" /\ pc'[p] = "copy"
        /\ UNCHANGED <<last_update, wpc, wq, file>>
        /\ \A r \in Procs : r # p => pc'[r] = pc[r]
        /\ \A g \in Files : g # file[p] => buf_timestamp'[g] = buf_timestamp[g]
    BY <1>1, <1>4 DEF Format, Move, TypeOK, sensorVars
  <2>2. q # p /\ pc[q] = "sleep" /\ q \in wq /\ file[q] \in Files
    BY <1>1, <2>1 DEF TypeOK
  <2>3. last_update # buf_timestamp[file[p]]
    BY <1>1, <2>1, TypeFacts DEF SafeInv, OrderInv
  <2>4. CASE file[q] = file[p]
    BY <2>1, <2>2, <2>3, <2>4
  <2>5. CASE file[q] # file[p]
    BY <2>1, <2>2, <2>5
  <2> QED
    BY <2>4, <2>5
<1>5. ASSUME NEW p \in Procs, Test(p) PROVE FALSE
  BY <1>1, <1>5 DEF Test, Move, TypeOK, sensorVars, bufVars
<1>6. ASSUME NEW p \in Procs,
             \/ Down(p) \/ GrabValue(p) \/ GrabStamp(p) \/ CheckFresh(p)
             \/ CheckStale(p) \/ Wait(p) \/ Awake(p) \/ Copy(p) \/ Up(p)
             \/ Return(p) \/ Interrupt(p) \/ \E f \in Files : Enter(p, f)
      PROVE  FALSE
  <2>1. /\ UNCHANGED <<last_update, wpc, buf_timestamp>>
        /\ pc'[p] # "sleep"
        /\ \A r \in Procs : r # p
             => /\ pc'[r] = pc[r] /\ file'[r] = file[r]
                /\ r \in wq' => r \in wq
    <3> USE <1>1 DEF TypeOK, Move, sensorVars, bufVars
    <3>1. CASE Down(p)
      BY <3>1 DEF Down
    <3>2. CASE GrabValue(p) \/ GrabStamp(p) \/ CheckFresh(p)
      BY <3>2 DEF GrabValue, GrabStamp, CheckFresh
    <3>3. CASE CheckStale(p)
      BY <3>3 DEF CheckStale
    <3>4. CASE Wait(p) \/ Awake(p) \/ Interrupt(p)
      BY <3>4 DEF Wait, Awake, Interrupt
    <3>5. CASE Copy(p)
      BY <3>5 DEF Copy
    <3>6. CASE Up(p) \/ Return(p)
      BY <3>6 DEF Up, Return
    <3>7. CASE \E f \in Files : Enter(p, f)
      BY <3>7 DEF Enter
    <3> QED
      BY <1>6, <3>1, <3>2, <3>3, <3>4, <3>5, <3>6, <3>7
  <2> QED
    BY <2>1
<1>7. ASSUME NEW p \in Procs, NEW f \in Files,
             Open(p, f) \/ Close(p, f) \/ \E r \in Procs : Fork(p, r, f)
      PROVE  FALSE
  <2>1. /\ UNCHANGED <<last_update, wpc, wq, pc, file>>
        /\ \A g \in Files : holders[g] # {} => buf_timestamp'[g] = buf_timestamp[g]
    BY <1>1, <1>7 DEF Open, Close, Fork, TypeOK, sensorVars, bufVars
  <2>2. file[q] \in Files /\ holders[file[q]] # {}
    BY <1>1, <2>1 DEF TypeOK, Holding
  <2> QED
    BY <2>1, <2>2
<1> QED
  BY <1>2, <1>3, <1>4, <1>5, <1>6, <1>7 DEF Next, Read

(* No process sleeps through an update of its sensor.                      *)
THEOREM WakeupSafe == Spec => []NoLostWakeup
<1>1. Init => NoLostWakeup
  BY DEF Init, NoLostWakeup
<1> QED
  BY <1>1, NextWakeup, AlwaysSafe, PTL DEF Spec

-----------------------------------------------------------------------------
(* An open file shows its sensor's measurements in the order they came.    *)
THEOREM ShownInOrder == Spec => NeverBackwards
<1>1. SafeInv /\ [Next]_vars
        => [\A f \in Files : holders[f] # {} => buf_data'[f] >= buf_data[f]]_vars
  <2> SUFFICES ASSUME SafeInv, Next, NEW f \in Files, holders[f] # {}
               PROVE  buf_data'[f] >= buf_data[f]
    OBVIOUS
  <2>1. TypeOK /\ buf_data[f] \in Int
    BY TypeFacts DEF SafeInv, TypeInv
  <2>2. CASE buf_data' = buf_data
    BY <2>1, <2>2
  <2>3. ASSUME NEW p \in Procs, Format(p) PROVE buf_data'[f] >= buf_data[f]
    <3>1. pc[p] = "format" /\ buf_data' = [buf_data EXCEPT ![file[p]] = value[p]]
      BY <2>3 DEF Format, Move
    <3>2. value[p] >= buf_data[file[p]]
      BY <3>1 DEF SafeInv, OrderInv
    <3>3. CASE f = file[p]
      <4>1. buf_data'[f] = value[p]
        BY <2>1, <3>1, <3>3 DEF TypeOK
      <4> QED
        BY <3>2, <3>3, <4>1
    <3>4. CASE f # file[p]
      <4>1. buf_data'[f] = buf_data[f]
        BY <2>1, <3>1, <3>4 DEF TypeOK
      <4> QED
        BY <2>2, <4>1, <2>1
    <3> QED
      BY <3>3, <3>4
  <2>4. ASSUME NEW p \in Procs, NEW g \in Files, Open(p, g)
        PROVE  buf_data'[f] >= buf_data[f]
    <3>1. f # g /\ buf_data' = [buf_data EXCEPT ![g] = 0]
      BY <2>4 DEF Open
    <3> QED
      BY <2>1, <3>1 DEF TypeOK
  <2>5. CASE Tick \/ SensorUpdate
    <3>1. buf_data' = buf_data
      BY <2>5 DEF Tick, SensorUpdate, UpdateLock, UpdateValues, UpdateStamp,
                  UpdateUnlock, UpdateWake, WriterMove, bufVars
    <3> QED
      BY <2>2, <3>1
  <2>6. ASSUME NEW p \in Procs, Read(p) \/ Interrupt(p), ~Format(p)
        PROVE  buf_data'[f] >= buf_data[f]
    <3>1. buf_data' = buf_data
      BY <2>6 DEF Read, Down, GrabValue, GrabStamp, CheckFresh, CheckStale,
                  Wait, Test, Awake, Copy, Up, Return, Interrupt, bufVars
    <3> QED
      BY <2>2, <3>1
  <2>7. ASSUME NEW p \in Procs, NEW g \in Files,
               Close(p, g) \/ Enter(p, g) \/ \E q \in Procs : Fork(p, q, g)
        PROVE  buf_data'[f] >= buf_data[f]
    <3>1. buf_data' = buf_data
      BY <2>7 DEF Close, Enter, Fork, bufVars
    <3> QED
      BY <2>2, <3>1
  <2> QED
    BY <2>3, <2>4, <2>5, <2>6, <2>7 DEF Next
<1> QED
  BY <1>1, AlwaysSafe, PTL DEF Spec, NeverBackwards

-----------------------------------------------------------------------------
(* The text of an open file that was never shared.                         *)

(* Such a file has one process at most. *)
Alone == \A f \in Files \ shared : \A p, q \in holders[f] : p = q

(* A process that updates the text does so at the start of it; where it    *)
(* has a copy of the position, that copy is the file's until it has read,  *)
(* and then points into the text it has read from.                         *)
Refreshing ==
  {"redown", "grab", "stamp", "check", "format", "wait", "test", "sleep"}

Placed(p) ==
  /\ pc[p] \in Refreshing => f_pos[file[p]] = 0
  /\ PosCopied /\ pc[p] \notin {"up", "return"} => pos[p] = f_pos[file[p]]
  /\ PosCopied /\ pc[p] \in {"up", "return"} /\ pos[p] > 0
       => given[file[p]] = buf_data[file[p]] /\ pos[p] < buf_lim[file[p]]

Positions ==
  \A p \in Procs : pc[p] # "idle" /\ file[p] \notin shared => Placed(p)

TornInv == TypeInv /\ Alone /\ Positions /\ TextNotTorn

LEMMA InitTorn == Init => TornInv
<1> SUFFICES ASSUME Init PROVE TornInv
  OBVIOUS
<1>1. TypeInv
  BY InitTypeInv
<1>2. Alone /\ Positions /\ TextNotTorn
  BY DEF Init, Alone, Positions, TextNotTorn, Untorn
<1> QED
  BY <1>1, <1>2 DEF TornInv

(* Nobody else reads it. *)
LEMMA SoleReader ==
  ASSUME TypeInv, Alone, NEW p \in Procs, NEW q \in Procs, p # q,
         pc[p] # "idle", pc[q] # "idle", file[p] \notin shared
  PROVE  file[q] # file[p]
<1>1. p \in holders[file[p]] /\ q \in holders[file[q]] /\ file[p] \in Files
  BY DEF TypeInv, TypeOK, Holding
<1> QED
  BY <1>1 DEF Alone

(* A step of a reader is about its own place and its own file.             *)
LEMMA ReaderStep ==
  ASSUME TornInv, NEW p \in Procs, pc[p] # "idle",
         UNCHANGED <<file, holders, shared>>,
         \A q \in Procs : q # p => pc'[q] = pc[q] /\ pos'[q] = pos[q],
         \A g \in Files : g # file[p] =>
           /\ f_pos'[g] = f_pos[g] /\ given'[g] = given[g]
           /\ buf_data'[g] = buf_data[g] /\ buf_lim'[g] = buf_lim[g],
         file[p] \notin shared =>
           /\ Untorn(file[p])'
           /\ pc'[p] # "idle" => Placed(p)'
  PROVE  Alone' /\ Positions' /\ TextNotTorn'
<1>1. file[p] \in Files
  BY DEF TornInv, TypeInv, TypeOK
<1>2. Alone'
  BY DEF TornInv, Alone
<1>3. Positions'
  <2> SUFFICES ASSUME NEW q \in Procs, pc'[q] # "idle", file[q] \notin shared
               PROVE  Placed(q)'
    BY DEF Positions
  <2>1. CASE q = p
    BY <2>1
  <2>2. CASE q # p
    <3>1. pc[q] # "idle" /\ Placed(q)
      BY <2>2 DEF TornInv, Positions
    <3>2. file[q] # file[p] /\ file[q] \in Files
      BY <2>2, <3>1, SoleReader DEF TornInv, TypeInv, TypeOK
    <3> QED
      BY <2>2, <3>1, <3>2 DEF Placed
  <2> QED
    BY <2>1, <2>2
<1>4. TextNotTorn'
  <2> SUFFICES ASSUME NEW g \in Files, g \notin shared PROVE Untorn(g)'
    BY DEF TextNotTorn
  <2>1. CASE g = file[p]
    <3>1. file'[p] = file[p]
      OBVIOUS
    <3> QED
      BY <2>1, <3>1 DEF Untorn
  <2>2. CASE g # file[p]
    BY <2>2 DEF TornInv, TextNotTorn, Untorn
  <2> QED
    BY <2>1, <2>2
<1> QED
  BY <1>2, <1>3, <1>4

(* Steps that leave the position and the buffer alone.                     *)
LEMMA StayingKeepsText ==
  ASSUME TornInv, NEW p \in Procs,
         \/ Down(p) \/ GrabValue(p) \/ GrabStamp(p) \/ CheckFresh(p)
         \/ CheckStale(p) \/ Wait(p) \/ Test(p) \/ Awake(p) \/ Up(p)
         \/ Interrupt(p)
  PROVE  Alone' /\ Positions' /\ TextNotTorn'
<1>1. UNCHANGED <<file, holders, shared, f_pos, pos, given, buf_data, buf_lim>>
  BY DEF Down, GrabValue, GrabStamp, CheckFresh, CheckStale, Wait, Test, Awake,
         Up, Interrupt, fileVars, bufVars, posVars
<1>2. /\ pc[p] # "idle" /\ \A q \in Procs : q # p => pc'[q] = pc[q]
      /\ \/ pc'[p] = "idle"
         \/ pc[p] = "up" /\ pc'[p] = "return"
         \/ pc[p] \in Refreshing /\ pc'[p] \in Refreshing
         \/ pc[p] = "down" /\ pc'[p] = IF Pos(p) = 0 THEN "grab" ELSE "copy"
  BY DEF Down, GrabValue, GrabStamp, CheckFresh, CheckStale, Wait, Test, Awake,
         Up, Interrupt, Move, Refreshing, TornInv, TypeInv, TypeOK
<1>3. ASSUME file[p] \notin shared, pc'[p] # "idle" PROVE Placed(p)'
  <2>1. Placed(p)
    BY <1>2, <1>3 DEF TornInv, Positions
  <2>2. pc[p] = "down" => Pos(p) = f_pos[file[p]]
    BY <2>1 DEF Placed, Pos
  <2> QED
    BY <1>1, <1>2, <1>3, <2>1, <2>2 DEF Placed, Refreshing
<1>4. file[p] \notin shared => Untorn(file[p])'
  BY <1>1 DEF TornInv, TypeInv, TypeOK, TextNotTorn, Untorn
<1> QED
  BY <1>1, <1>2, <1>3, <1>4, ReaderStep

LEMMA FormatKeepsText ==
  ASSUME TornInv, NEW p \in Procs, Format(p)
  PROVE  Alone' /\ Positions' /\ TextNotTorn'
<1>1. /\ UNCHANGED <<file, holders, shared, f_pos, pos, given>>
      /\ pc[p] = "format" /\ pc'[p] = "copy"
      /\ \A q \in Procs : q # p => pc'[q] = pc[q]
      /\ \A g \in Files : g # file[p] =>
           buf_data'[g] = buf_data[g] /\ buf_lim'[g] = buf_lim[g]
  BY DEF Format, Move, fileVars, posVars, TornInv, TypeInv, TypeOK
<1>2. ASSUME file[p] \notin shared PROVE Untorn(file[p])' /\ Placed(p)'
  <2>1. Placed(p)
    BY <1>1, <1>2 DEF TornInv, Positions
  <2>2. f_pos[file[p]] = 0
    BY <1>1, <2>1 DEF Placed, Refreshing
  <2> QED
    BY <1>1, <2>1, <2>2 DEF Placed, Untorn, Refreshing
<1> QED
  BY <1>1, <1>2, ReaderStep

(* From inside a text, or from its start, a read goes no further than the  *)
(* end, and there back to the start.                                       *)
LEMMA CopyStaysInText ==
  ASSUME NEW f \in Files, buf_lim[f] \in Nat, NEW at \in Nat, at <= buf_lim[f],
         NEW cnt \in Nat, NEW new, new = Rewind(f, at + Transferred(f, at, cnt))
  PROVE  new = 0 \/ new < buf_lim[f]
BY DEF Rewind, Transferred

LEMMA CopyKeepsText ==
  ASSUME TornInv, NEW p \in Procs, Copy(p)
  PROVE  Alone' /\ Positions' /\ TextNotTorn'
<1> DEFINE f == file[p]
<1>1. /\ UNCHANGED <<file, holders, shared, buf_data, buf_lim>> /\ pc[p] = "copy"
      /\ \A q \in Procs : q # p => pc'[q] = pc[q]
  BY DEF Copy, Move, fileVars, bufVars, TornInv, TypeInv, TypeOK
<1>2. /\ f \in Files /\ p \in holders[f] /\ f_pos[f] \in Nat /\ pos[p] \in Nat
      /\ buf_lim[f] \in Nat
  BY <1>1 DEF TornInv, TypeInv, TypeOK, Holding
<1>3. f \notin shared => Placed(p) /\ Untorn(f)
  BY <1>1, <1>2 DEF TornInv, Positions, TextNotTorn
<1>4. CASE Move(p, "copy", "fail") /\ UNCHANGED posVars
  <2>1. pc'[p] = "fail" /\ UNCHANGED <<f_pos, pos, given>>
    BY <1>4 DEF Move, posVars, TornInv, TypeInv, TypeOK
  <2>2. f \notin shared => Untorn(f)' /\ Placed(p)'
    BY <1>1, <1>3, <2>1 DEF Untorn, Placed, Refreshing
  <2> QED
    BY <1>1, <2>1, <2>2, ReaderStep
<1>5. ASSUME NEW cnt \in Counts,
             NEW new, new = Rewind(f, Pos(p) + Transferred(f, Pos(p), cnt)),
             Move(p, "copy", "up"), pos' = [pos EXCEPT ![p] = new],
             f_pos' = IF PosCopied THEN f_pos ELSE [f_pos EXCEPT ![f] = new],
             given' = [given EXCEPT ![f] = buf_data[f]]
      PROVE  Alone' /\ Positions' /\ TextNotTorn'
  <2>1. /\ pc'[p] = "up" /\ pos'[p] = new /\ given'[f] = buf_data[f]
        /\ \A q \in Procs : q # p => pos'[q] = pos[q]
        /\ \A g \in Files : g # f => f_pos'[g] = f_pos[g] /\ given'[g] = given[g]
        /\ f_pos'[f] = IF PosCopied THEN f_pos[f] ELSE new
    BY <1>2, <1>5 DEF Move, TornInv, TypeInv, TypeOK
  <2>2. f \notin shared => new = 0 \/ new < buf_lim[f]
    <3> SUFFICES ASSUME f \notin shared PROVE new = 0 \/ new < buf_lim[f]
      OBVIOUS
    <3>1. Pos(p) = f_pos[f]
      BY <1>1, <1>3 DEF Placed, Pos
    <3>2. Pos(p) \in Nat /\ Pos(p) <= buf_lim[f]
      BY <1>2, <1>3, <3>1 DEF Untorn
    <3>3. cnt \in Nat
      BY ChrdevAssumption
    <3> QED
      BY <1>2, <1>5, <3>2, <3>3, CopyStaysInText
  <2>3. f \notin shared => Untorn(f)'
    BY <1>1, <1>2, <1>3, <2>1, <2>2 DEF Untorn
  <2>4. f \notin shared => Placed(p)'
    BY <1>1, <2>1, <2>2 DEF Placed, Refreshing
  <2> QED
    BY <1>1, <2>1, <2>3, <2>4, ReaderStep
<1> QED
  BY <1>4, <1>5 DEF Copy

LEMMA ReturnKeepsText ==
  ASSUME TornInv, NEW p \in Procs, Return(p)
  PROVE  Alone' /\ Positions' /\ TextNotTorn'
<1> DEFINE f == file[p]
<1>1. /\ UNCHANGED <<file, holders, shared, pos, given, buf_data, buf_lim>>
      /\ pc[p] = "return" /\ pc'[p] = "idle"
      /\ \A q \in Procs : q # p => pc'[q] = pc[q]
      /\ \A g \in Files : g # f => f_pos'[g] = f_pos[g]
      /\ f_pos'[f] = IF PosCopied THEN pos[p] ELSE f_pos[f]
  BY DEF Return, Move, fileVars, bufVars, TornInv, TypeInv, TypeOK
<1>2. f \notin shared => Untorn(f)'
  <2> SUFFICES ASSUME f \notin shared PROVE Untorn(f)'
    OBVIOUS
  <2>1. f \in Files
    BY DEF TornInv, TypeInv, TypeOK
  <2>2. Placed(p) /\ Untorn(f)
    BY <1>1, <2>1 DEF TornInv, Positions, TextNotTorn
  <2> QED
    BY <1>1, <2>2 DEF Placed, Untorn
<1> QED
  BY <1>1, <1>2, ReaderStep

(* Descriptors: nobody reads a file that is opened, and who shares it      *)
(* leaves the property.                                                    *)
LEMMA DescriptorsKeepText ==
  ASSUME TornInv, NEW p \in Procs, NEW f \in Files,
         Open(p, f) \/ Close(p, f) \/ Enter(p, f) \/ \E q \in Procs : Fork(p, q, f)
  PROVE  Alone' /\ Positions' /\ TextNotTorn'
<1>1. /\ holders \in [Files -> SUBSET Procs] /\ f_pos \in [Files -> 0..MaxPos]
      /\ given \in [Files -> 0..MaxUpdates] /\ buf_data \in [Files -> 0..MaxUpdates]
      /\ buf_lim \in [Files -> Nat] /\ shared \subseteq Files
      /\ pc \in [Procs -> ReaderPCs] /\ file \in [Procs -> Files]
      /\ pos \in [Procs -> 0..MaxPos]
      /\ \A q \in Procs : pc[q] # "idle" => q \in holders[file[q]]
  BY DEF TornInv, TypeInv, TypeOK, Holding
<1>2. Alone /\ Positions /\ TextNotTorn
  BY DEF TornInv
<1>3. CASE Open(p, f)
  <2>1. /\ holders[f] = {} /\ holders' = [holders EXCEPT ![f] = {p}]
        /\ UNCHANGED <<pc, file, pos>> /\ shared' = shared \ {f}
        /\ f_pos' = [f_pos EXCEPT ![f] = 0] /\ given' = [given EXCEPT ![f] = 0]
        /\ buf_data' = [buf_data EXCEPT ![f] = 0]
        /\ buf_lim' = [buf_lim EXCEPT ![f] = 0]
    BY <1>3 DEF Open
  <2>2. /\ holders'[f] = {p} /\ f_pos'[f] = 0
        /\ \A g \in Files : g # f =>
             /\ holders'[g] = holders[g] /\ (g \in shared' <=> g \in shared)
             /\ f_pos'[g] = f_pos[g] /\ given'[g] = given[g]
             /\ buf_data'[g] = buf_data[g] /\ buf_lim'[g] = buf_lim[g]
    BY <1>1, <2>1
  <2>3. Alone'
    BY <1>2, <2>2 DEF Alone
  <2>4. Positions'
    <3>1. \A q \in Procs : pc[q] # "idle" => file[q] # f /\ file[q] \in Files
      BY <1>1, <2>1
    <3> QED
      BY <1>2, <2>1, <2>2, <3>1 DEF Positions, Placed
  <2>5. TextNotTorn'
    BY <1>2, <2>2 DEF TextNotTorn, Untorn
  <2> QED
    BY <2>3, <2>4, <2>5
<1>4. CASE Close(p, f)
  <2>1. /\ holders' = [holders EXCEPT ![f] = @ \ {p}]
        /\ UNCHANGED <<pc, file, pos, f_pos, given, buf_data, buf_lim, shared>>
    BY <1>4 DEF Close, bufVars, posVars
  <2>2. \A g \in Files : holders'[g] \subseteq holders[g]
    BY <1>1, <2>1
  <2>3. Alone'
    BY <1>2, <2>1, <2>2 DEF Alone
  <2>4. Positions' /\ TextNotTorn'
    BY <1>2, <2>1, <2>2 DEF Positions, Placed, TextNotTorn, Untorn
  <2> QED
    BY <2>3, <2>4
<1>5. CASE Enter(p, f)
  <2>1. /\ pc[p] = "idle" /\ pc'[p] = "down" /\ file'[p] = f /\ pos'[p] = f_pos[f]
        /\ \A q \in Procs : q # p =>
             pc'[q] = pc[q] /\ file'[q] = file[q] /\ pos'[q] = pos[q]
        /\ UNCHANGED <<holders, shared, f_pos, given, buf_data, buf_lim>>
    BY <1>1, <1>5 DEF Enter, Move, fileVars, bufVars
  <2>2. Alone' /\ TextNotTorn'
    BY <1>2, <2>1 DEF Alone, TextNotTorn, Untorn
  <2>3. Positions'
    <3>1. Placed(p)'
      BY <2>1 DEF Placed, Refreshing
    <3>2. \A q \in Procs : q # p => Placed(q)' = Placed(q)
      BY <2>1 DEF Placed
    <3> QED
      BY <1>2, <2>1, <3>1, <3>2 DEF Positions
  <2> QED
    BY <2>2, <2>3
<1>6. ASSUME NEW q \in Procs, Fork(p, q, f)
      PROVE  Alone' /\ Positions' /\ TextNotTorn'
  <2>1. /\ holders' = [holders EXCEPT ![f] = @ \cup {q}]
        /\ shared' = shared \cup {f}
        /\ UNCHANGED <<pc, file, pos, f_pos, given, buf_data, buf_lim>>
    BY <1>6 DEF Fork, bufVars, posVars
  <2>2. \A g \in Files : g # f => holders'[g] = holders[g]
    BY <1>1, <2>1
  <2>3. Alone'
    BY <1>2, <2>1, <2>2 DEF Alone
  <2>4. Positions' /\ TextNotTorn'
    BY <1>2, <2>1, <2>2 DEF Positions, Placed, TextNotTorn, Untorn
  <2> QED
    BY <2>3, <2>4
<1> QED
  BY <1>3, <1>4, <1>5, <1>6

LEMMA NextTorn == TornInv /\ [Next]_vars => TornInv'
<1> SUFFICES ASSUME TornInv, [Next]_vars PROVE TornInv'
  OBVIOUS
<1>1. TypeInv'
  BY NextTypeInv DEF TornInv
<1>2. ASSUME NEW p \in Procs, Read(p) \/ Interrupt(p) PROVE TornInv'
  BY <1>1, <1>2, StayingKeepsText, FormatKeepsText, CopyKeepsText, ReturnKeepsText
     DEF Read, TornInv
<1>3. ASSUME NEW p \in Procs, NEW f \in Files,
             Open(p, f) \/ Close(p, f) \/ Enter(p, f) \/ \E q \in Procs : Fork(p, q, f)
      PROVE  TornInv'
  BY <1>1, <1>3, DescriptorsKeepText DEF TornInv
<1>4. CASE Tick \/ SensorUpdate \/ UNCHANGED vars
  <2>1. UNCHANGED <<holders, shared, pc, file, pos, f_pos, given, buf_data, buf_lim>>
    BY <1>4 DEF Tick, SensorUpdate, UpdateLock, UpdateValues, UpdateStamp,
                UpdateUnlock, UpdateWake, WriterMove, vars, fileVars, bufVars,
                posVars
  <2> QED
    BY <1>1, <2>1 DEF TornInv, Alone, Positions, Placed, TextNotTorn, Untorn
<1> QED
  BY <1>2, <1>3, <1>4 DEF Next

(* Short reads of an open file that was never shared are of one text:      *)
(* lunix_chrdev_read formats a new measurement at position 0 only, and     *)
(* goes back to 0 when the end of the text is reached.                     *)
THEOREM UnsharedTextWhole == Spec => []TextNotTorn
<1>1. Spec => []TornInv
  BY InitTorn, NextTorn, PTL DEF Spec
<1> QED
  BY <1>1, PTL DEF TornInv
=============================================================================
