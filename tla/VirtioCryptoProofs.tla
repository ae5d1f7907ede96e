------------------------- MODULE VirtioCryptoProofs -------------------------
(* Machine-checked proofs about VirtioCrypto, for every set of processes,  *)
(* files, devices and descriptors and every size of the queues.            *)
EXTENDS VirtioCrypto, TLAPS

(* The part of TypeOK the argument needs. *)
Shape ==
  /\ pc \in [Procs -> Locations]
  /\ call \in [Procs -> Requests \cup {None}]
  /\ \A p \in Procs : pc[p] # "user" => call[p] \in Requests
  /\ fstate \in [Files -> {"free", "opening", "open", "closing"}]
  /\ dev \in [Files -> Devices \cup {None}]
  /\ lock \in [Devices -> Procs \cup {None}]
  /\ avail \in [Devices -> Seq(Procs)] /\ used \in [Devices -> Seq(Procs)]
  /\ serving \in Tasks \cup {None}
  /\ served \subseteq Procs

(* A file has the device of its open for as long as somebody uses it.      *)
StateFor(cmd) ==
  IF cmd = "OPEN" THEN "opening" ELSE IF cmd = "CLOSE" THEN "closing" ELSE "open"

FilesHeld ==
  /\ \A f \in Files : fstate[f] # "free" => dev[f] \in Devices
  /\ \A p \in Procs :
       pc[p] # "user" => fstate[call[p].file] = StateFor(call[p].cmd)
  /\ \A p, q \in Procs :
       /\ pc[p] # "user" /\ pc[q] # "user" /\ call[p].file = call[q].file
       /\ p # q
       => fstate[call[p].file] = "open"

Serving(d) == serving # None /\ serving.dev = d
Empty(d)   == avail[d] = <<>> /\ used[d] = <<>> /\ ~Serving(d)

(* Where the one request of the holder h of device d may be.               *)
Stage(d, h) ==
  \/ avail[d] = <<h>> /\ used[d] = <<>> /\ ~Serving(d) /\ h \notin served
  \/ /\ avail[d] = <<>> /\ used[d] = <<>>
     /\ Serving(d) /\ serving.proc = h /\ (serving.done <=> h \in served)
  \/ avail[d] = <<>> /\ used[d] = <<h>> /\ ~Serving(d) /\ h \in served

Inside(p) == pc[p] \in {"add", "kick", "wait"}

HolderInside ==
  /\ \A p \in Procs : Inside(p) => lock[Device(p)] = p
  /\ \A d \in Devices :
       lock[d] # None => Inside(lock[d]) /\ Device(lock[d]) = d

RingStage ==
  /\ \A d \in Devices : lock[d] = None => Empty(d)
  /\ \A d \in Devices : lock[d] # None =>
       IF pc[lock[d]] = "add" THEN Empty(d) ELSE Stage(d, lock[d])

ServedWhen ==
  \A p \in Procs : /\ pc[p] \in {"user", "lock", "add"} => p \notin served
                   /\ pc[p] = "copy" => p \in served

IInv == Shape /\ FilesHeld /\ HolderInside /\ RingStage /\ ServedWhen

-----------------------------------------------------------------------------
LEMMA InitIInv == Init => IInv
BY VirtioAssumption
   DEF Init, IInv, Shape, FilesHeld, HolderInside, RingStage, ServedWhen,
       Empty, Serving, Inside, Locations

LEMMA RequestShape ==
  ASSUME NEW c \in Requests
  PROVE  c.file \in Files /\ c # None
<1>1. c # None
  BY VirtioAssumption
<1>2. c.file \in Files
  BY DEF Requests
<1> QED
  BY <1>1, <1>2

invVars == <<pc, call, fstate, dev, lock, avail, used, serving, served>>

LEMMA Unseen == IInv /\ UNCHANGED invVars => IInv'
BY DEF IInv, Shape, FilesHeld, HolderInside, RingStage, ServedWhen, Inside,
       Stage, Empty, Serving, Device, invVars

(* The holder of a lock is a process that works on its device's queue.     *)
LEMMA HolderFacts ==
  ASSUME IInv, NEW d \in Devices, lock[d] # None
  PROVE  lock[d] \in Procs /\ Inside(lock[d]) /\ Device(lock[d]) = d
<1>1. lock \in [Devices -> Procs \cup {None}]
  BY DEF IInv, Shape
<1>2. Inside(lock[d]) /\ Device(lock[d]) = d
  BY DEF IInv, HolderInside
<1> QED
  BY <1>1, <1>2

(* The device of a call in progress stays what it is as long as the files  *)
(* that are in use keep theirs.                                            *)
LEMMA DeviceKept ==
  ASSUME IInv, NEW p \in Procs, pc[p] # "user"
  PROVE  /\ call[p] \in Requests /\ call[p].file \in Files
         /\ fstate[call[p].file] # "free" /\ Device(p) \in Devices
<1>1. call[p] \in Requests
  BY DEF IInv, Shape
<1>2. call[p].file \in Files
  BY <1>1, RequestShape
<1>3. fstate[call[p].file] # "free"
  BY DEF IInv, FilesHeld, StateFor
<1> QED
  BY <1>1, <1>2, <1>3 DEF IInv, FilesHeld, Device

-----------------------------------------------------------------------------
(* A call starts: on a free file, or on one in a state that fits.          *)
LEMMA BeginIInv ==
  ASSUME IInv, NEW p \in Procs, NEW c \in Requests, Begin(p, c),
         NEW f \in Files, f = c.file,
         NEW s \in {"opening", "open", "closing"}, s = StateFor(c.cmd),
         fstate' = [fstate EXCEPT ![f] = s],
         \A g \in Files : g # f => dev'[g] = dev[g],
         fstate[f] # "free" => dev'[f] = dev[f],
         dev' \in [Files -> Devices \cup {None}], dev'[f] \in Devices,
         s # "open" => Callers(f) = {},
         s = "open" => fstate[f] = "open"
  PROVE  IInv'
<1>1. /\ pc[p] = "user" /\ pc'[p] = "lock" /\ pc' \in [Procs -> Locations]
      /\ \A q \in Procs : q # p => pc'[q] = pc[q]
  BY DEF IInv, Shape, Begin, Move, Locations
<1>2. /\ call'[p] = c /\ call' \in [Procs -> Requests \cup {None}]
      /\ \A q \in Procs : q # p => call'[q] = call[q]
  BY DEF IInv, Shape, Begin
<1>3. UNCHANGED <<lock, avail, used, serving, served>>
  BY DEF Begin, ringVars
<1>4. \A q \in Procs : q # p /\ pc[q] # "user" =>
        /\ Device(q)' = Device(q)
        /\ fstate'[call[q].file] = fstate[call[q].file]
        /\ call[q].file = f => s = "open"
  <2> SUFFICES ASSUME NEW q \in Procs, q # p, pc[q] # "user"
               PROVE  /\ Device(q)' = Device(q)
                      /\ fstate'[call[q].file] = fstate[call[q].file]
                      /\ call[q].file = f => s = "open"
    OBVIOUS
  <2>1. call[q].file \in Files /\ fstate[call[q].file] # "free"
    BY DeviceKept
  <2>2. call[q].file = f => s = "open"
    BY DEF Callers
  <2>3. dev'[call[q].file] = dev[call[q].file]
    BY <2>1
  <2>4. fstate'[call[q].file] = fstate[call[q].file]
    BY <2>1, <2>2 DEF IInv, Shape
  <2> QED
    BY <2>2, <2>3, <2>4, <1>2 DEF Device
<1>5. Shape'
  BY <1>1, <1>2, <1>3 DEF IInv, Shape
<1>6. FilesHeld'
  <2>a. \A g \in Files : g # f => fstate'[g] = fstate[g] /\ dev'[g] = dev[g]
    BY DEF IInv, Shape
  <2>b. \A g \in Files : fstate[g] # "free" => dev[g] \in Devices
    BY DEF IInv, FilesHeld
  <2>1. \A g \in Files : fstate'[g] # "free" => dev'[g] \in Devices
    BY <2>a, <2>b
  <2>2. fstate'[f] = s
    BY DEF IInv, Shape
  <2>3. \A q \in Procs :
          pc'[q] # "user" => fstate'[call'[q].file] = StateFor(call'[q].cmd)
    <3>1. call'[p].cmd = c.cmd /\ call'[p].file = f
      BY <1>2
    <3>2. \A q \in Procs : q # p /\ pc[q] # "user" =>
            fstate'[call[q].file] = StateFor(call[q].cmd)
      BY <1>4 DEF IInv, FilesHeld
    <3> QED
      BY <1>1, <1>2, <2>2, <3>1, <3>2
  <2>4. \A q, r \in Procs :
          /\ pc'[q] # "user" /\ pc'[r] # "user" /\ call'[q].file = call'[r].file
          /\ q # r
          => fstate'[call'[q].file] = "open"
    BY <1>1, <1>2, <1>4, <2>2 DEF IInv, FilesHeld
  <2> QED
    BY <2>1, <2>3, <2>4 DEF FilesHeld
<1>7. HolderInside'
  <2>1. \A q \in Procs : Inside(q)' => q # p /\ Inside(q) /\ pc[q] # "user"
    BY <1>1 DEF Inside
  <2>2. \A d \in Devices : lock[d] # None => lock[d] # p /\ lock[d] \in Procs
    BY <1>1, HolderFacts DEF Inside
  <2> QED
    BY <1>1, <1>3, <1>4, <2>1, <2>2 DEF IInv, HolderInside, Inside
<1>8. RingStage'
  <2>1. \A d \in Devices : lock[d] # None => lock[d] # p /\ lock[d] \in Procs
    BY <1>1, HolderFacts DEF Inside
  <2> QED
    BY <1>1, <1>3, <2>1 DEF IInv, RingStage, Stage, Empty, Serving
<1>9. ServedWhen'
  BY <1>1, <1>3 DEF IInv, ServedWhen
<1> QED
  BY <1>5, <1>6, <1>7, <1>8, <1>9 DEF IInv

LEMMA CallsIInv == ASSUME IInv, NEW p \in Procs, Calls(p) PROVE IInv'
<1>1. ASSUME NEW e \in Errors, Refuse(p, e), UNCHANGED <<fstate, dev>>
      PROVE  IInv'
  BY <1>1, Unseen DEF Refuse, procVars, fileVars, ringVars, hostVars, invVars
<1>2. ASSUME NEW f \in Files, NEW minor \in Minors, Open(p, f, minor)
      PROVE  IInv'
  <2> DEFINE c == [cmd |-> "OPEN", file |-> f, arg |-> None]
  <2>1. CASE minor \in Devices /\ Begin(p, c)
    <3>1. /\ fstate[f] = "free" /\ dev' = [dev EXCEPT ![f] = minor]
          /\ fstate' = [fstate EXCEPT ![f] = "opening"]
      BY <1>2, <2>1 DEF Open, Refuse, Begin, Move, procVars
    <3>2. c \in Requests /\ c.file = f /\ StateFor(c.cmd) = "opening"
      BY DEF Requests, StateFor
    <3>3. Callers(f) = {}
      BY <3>1, DeviceKept DEF Callers
    <3>4. dev' \in [Files -> Devices \cup {None}] /\ dev'[f] \in Devices
          /\ \A g \in Files : g # f => dev'[g] = dev[g]
      BY <3>1, <2>1 DEF IInv, Shape
    <3> HIDE DEF c
    <3> QED
      BY <2>1, <3>1, <3>2, <3>3, <3>4, BeginIInv
  <2>2. CASE Refuse(p, "ENODEV")
    BY <2>2, <1>1 DEF Refuse, fileVars, Errors
  <2> QED
    BY <1>2, <2>1, <2>2 DEF Open
<1>3. ASSUME NEW f \in Files, Release(p, f)
      PROVE  IInv'
  <2> DEFINE c == [cmd |-> "CLOSE", file |-> f, arg |-> None]
  <2>1. /\ fstate[f] = "open" /\ dev' = dev /\ Callers(f) = {} /\ Begin(p, c)
        /\ fstate' = [fstate EXCEPT ![f] = "closing"]
    BY <1>3 DEF Release
  <2>2. c \in Requests /\ c.file = f /\ StateFor(c.cmd) = "closing"
    BY DEF Requests, StateFor
  <2>3. dev \in [Files -> Devices \cup {None}] /\ dev[f] \in Devices
    BY <2>1 DEF IInv, Shape, FilesHeld
  <2> HIDE DEF c
  <2> QED
    BY <2>1, <2>2, <2>3, BeginIInv
<1>4. ASSUME NEW c \in Requests, Ioctl(p, c)
      PROVE  IInv'
  <2>1. CASE Begin(p, c) /\ UNCHANGED fileVars
    <3>1. c.file \in Files /\ fstate[c.file] = "open" /\ StateFor(c.cmd) = "open"
      BY <1>4, RequestShape DEF Ioctl, StateFor
    <3>2. /\ dev' = dev /\ dev \in [Files -> Devices \cup {None}]
          /\ dev[c.file] \in Devices
      BY <2>1, <3>1 DEF IInv, Shape, FilesHeld, fileVars
    <3>3. fstate' = [fstate EXCEPT ![c.file] = "open"]
      BY <2>1, <3>1 DEF IInv, Shape, fileVars
    <3> QED
      BY <2>1, <3>1, <3>2, <3>3, BeginIInv
  <2>2. CASE Refuse(p, "EFAULT")
    BY <2>2, <1>1 DEF Refuse, fileVars, Errors
  <2> QED
    BY <1>4, <2>1, <2>2 DEF Ioctl
<1> QED
  BY <1>2, <1>3, <1>4 DEF Calls

-----------------------------------------------------------------------------
(* A step of p inside the driver. *)
LEMMA MoveKept ==
  ASSUME IInv, NEW p \in Procs, NEW from \in Locations \ {"user"},
         NEW to \in Locations \ {"user"}, Move(p, from, to),
         UNCHANGED <<call, fstate, dev>>
  PROVE  /\ pc[p] = from /\ pc'[p] = to /\ pc' \in [Procs -> Locations]
         /\ \A q \in Procs : q # p => pc'[q] = pc[q]
         /\ \A q \in Procs : Device(q)' = Device(q)
         /\ \A q \in Procs : pc'[q] # "user" => call'[q] \in Requests
         /\ FilesHeld'
         /\ Device(p) \in Devices
<1>1. /\ pc[p] = from /\ pc'[p] = to /\ pc' \in [Procs -> Locations]
      /\ \A q \in Procs : q # p => pc'[q] = pc[q]
  BY DEF IInv, Shape, Move
<1>2. \A q \in Procs : Device(q)' = Device(q)
  BY DEF Device
<1>3. \A q \in Procs : pc'[q] # "user" => pc[q] # "user"
  BY <1>1
<1>4. \A q \in Procs : pc'[q] # "user" => call'[q] \in Requests
  BY <1>3 DEF IInv, Shape
<1>5. FilesHeld'
  BY <1>3 DEF IInv, FilesHeld
<1>6. Device(p) \in Devices
  BY <1>1, DeviceKept
<1> QED
  BY <1>1, <1>2, <1>4, <1>5, <1>6

LEMMA LockIInv ==
  ASSUME IInv, NEW p \in Procs, NEW d \in Devices, d = Device(p), Lock(p)
  PROVE  IInv'
<1>1. /\ Move(p, "lock", "add") /\ lock[d] = None
      /\ lock' = [lock EXCEPT ![d] = p]
      /\ UNCHANGED <<call, fstate, dev, avail, used, serving, served>>
  BY DEF Lock, fileVars, ringVars, hostVars
<1>2. /\ pc[p] = "lock" /\ pc'[p] = "add" /\ pc' \in [Procs -> Locations]
      /\ \A q \in Procs : q # p => pc'[q] = pc[q]
      /\ \A q \in Procs : Device(q)' = Device(q)
      /\ \A q \in Procs : pc'[q] # "user" => call'[q] \in Requests
      /\ FilesHeld' /\ d \in Devices
  BY <1>1, MoveKept DEF Locations
<1>3. /\ lock' \in [Devices -> Procs \cup {None}] /\ lock'[d] = p
      /\ \A e \in Devices : e # d => lock'[e] = lock[e]
      /\ p # None
  BY <1>1, <1>2, VirtioAssumption DEF IInv, Shape
<1>4. Shape'
  BY <1>1, <1>2, <1>3 DEF IInv, Shape
<1>5. \A e \in Devices : e # d /\ lock[e] # None =>
        lock[e] # p /\ lock[e] \in Procs
  BY <1>2, HolderFacts DEF Inside
<1>6. HolderInside'
  <2>1. ASSUME NEW q \in Procs, Inside(q)' PROVE lock'[Device(q)'] = q
    <3>1. CASE q = p
      BY <3>1, <1>2, <1>3
    <3>2. CASE q # p
      <4>1. Inside(q) /\ pc[q] # "user"
        BY <3>2, <2>1, <1>2 DEF Inside
      <4>2. lock[Device(q)] = q /\ Device(q) \in Devices /\ q # None
        BY <4>1, DeviceKept, VirtioAssumption DEF IInv, HolderInside
      <4> QED
        BY <4>2, <1>1, <1>2, <1>3
    <3> QED
      BY <3>1, <3>2
  <2>2. ASSUME NEW e \in Devices, lock'[e] # None
        PROVE  Inside(lock[e])' /\ Device(lock[e])' = e
    <3>1. CASE e = d
      BY <3>1, <1>2, <1>3 DEF Inside
    <3>2. CASE e # d
      BY <3>2, <2>2, <1>2, <1>3, <1>5, HolderFacts DEF Inside
    <3> QED
      BY <3>1, <3>2
  <2> QED
    BY <2>1, <2>2 DEF HolderInside
<1>7. RingStage'
  <2>1. Empty(d)
    BY <1>1, <1>2 DEF IInv, RingStage
  <2>2. \A e \in Devices : Empty(e)' = Empty(e)
    BY <1>1 DEF Empty, Serving
  <2>3. \A e \in Devices : e # d => (lock'[e] # None => pc'[lock'[e]] = pc[lock[e]])
    BY <1>2, <1>3, <1>5
  <2>4. \A e \in Devices, h \in Procs : Stage(e, h)' = Stage(e, h)
    BY <1>1 DEF Stage, Serving
  <2> QED
    BY <1>1, <1>2, <1>3, <1>5, <2>1, <2>2, <2>3, <2>4 DEF IInv, RingStage
<1>8. ServedWhen'
  BY <1>1, <1>2 DEF IInv, ServedWhen
<1> QED
  BY <1>2, <1>4, <1>6, <1>7, <1>8 DEF IInv

(* What p does with the lock of its device: the other devices see nothing. *)
LEMMA HolderStep ==
  ASSUME IInv, NEW p \in Procs, NEW d \in Devices, d = Device(p),
         NEW from \in {"add", "kick", "wait"}, NEW to \in {"kick", "wait"},
         Move(p, from, to), UNCHANGED <<call, fstate, dev, lock, serving, served>>,
         avail' \in [Devices -> Seq(Procs)], used' \in [Devices -> Seq(Procs)],
         \A e \in Devices : e # d => avail'[e] = avail[e] /\ used'[e] = used[e],
         Stage(d, p)'
  PROVE  IInv'
<1>1. /\ pc[p] = from /\ pc'[p] = to /\ pc' \in [Procs -> Locations]
      /\ \A q \in Procs : q # p => pc'[q] = pc[q]
      /\ \A q \in Procs : Device(q)' = Device(q)
      /\ \A q \in Procs : pc'[q] # "user" => call'[q] \in Requests
      /\ FilesHeld'
  BY MoveKept DEF Locations
<1>2. Shape'
  BY <1>1 DEF IInv, Shape
<1>3. lock[d] = p /\ p # None
  BY <1>1, VirtioAssumption DEF IInv, HolderInside, Inside
<1>4. \A q \in Procs : Inside(q)' = Inside(q)
  BY <1>1 DEF Inside
<1>5. HolderInside'
  BY <1>1, <1>4, HolderFacts DEF IInv, HolderInside
<1>6. RingStage'
  <2>1. \A e \in Devices : e # d /\ lock[e] # None =>
          lock[e] # p /\ lock[e] \in Procs
    BY HolderFacts
  <2>2. \A e \in Devices : e # d => Empty(e)' = Empty(e)
    BY DEF Empty, Serving
  <2>3. \A e \in Devices, h \in Procs : e # d => Stage(e, h)' = Stage(e, h)
    BY DEF Stage, Serving
  <2> QED
    BY <1>1, <1>3, <2>1, <2>2, <2>3 DEF IInv, RingStage
<1>7. ServedWhen'
  BY <1>1 DEF IInv, ServedWhen
<1> QED
  BY <1>1, <1>2, <1>5, <1>6, <1>7 DEF IInv

LEMMA AddSgsIInv ==
  ASSUME IInv, NEW p \in Procs, NEW d \in Devices, d = Device(p), AddSgs(p)
  PROVE  IInv'
<1>1. /\ Move(p, "add", "kick")
      /\ avail' = IF InFlight(d) < QUEUE_SIZE
                  THEN [avail EXCEPT ![d] = Append(@, p)] ELSE avail
      /\ UNCHANGED <<call, fstate, dev, lock, used, serving, served>>
  BY DEF AddSgs, fileVars, hostVars
<1>2. pc[p] = "add" /\ d \in Devices
  BY <1>1, MoveKept DEF Locations
<1>3. lock[d] = p /\ p # None
  BY <1>2, VirtioAssumption DEF IInv, HolderInside, Inside
<1>4. Empty(d) /\ p \notin served
  BY <1>2, <1>3 DEF IInv, RingStage, ServedWhen
<1>5. InFlight(d) = 0
  BY <1>4 DEF InFlight, InService, Empty, Serving
<1>6. avail \in [Devices -> Seq(Procs)] /\ used \in [Devices -> Seq(Procs)]
  BY DEF IInv, Shape
<1>7. avail' = [avail EXCEPT ![d] = <<p>>]
  <2>1. Append(avail[d], p) = <<p>>
    BY <1>4 DEF Empty
  <2> QED
    BY <2>1, <1>1, <1>5, VirtioAssumption
<1>8. Stage(d, p)'
  BY <1>1, <1>2, <1>4, <1>6, <1>7 DEF Stage, Empty, Serving
<1>9. /\ avail' \in [Devices -> Seq(Procs)]
      /\ \A e \in Devices : e # d => avail'[e] = avail[e]
  <2>1. <<p>> \in Seq(Procs)
    OBVIOUS
  <2> QED
    BY <2>1, <1>2, <1>6, <1>7
<1> QED
  BY <1>1, <1>2, <1>6, <1>8, <1>9, HolderStep

LEMMA KickIInv ==
  ASSUME IInv, NEW p \in Procs, NEW d \in Devices, d = Device(p), Kick(p)
  PROVE  IInv'
<1>1. /\ Move(p, "kick", "wait")
      /\ UNCHANGED <<call, fstate, dev, lock, avail, used, serving, served>>
  BY DEF Kick, fileVars, hostVars
<1>2. pc[p] = "kick" /\ d \in Devices
  BY <1>1, MoveKept DEF Locations
<1>3. lock[d] = p /\ p # None
  BY <1>2, VirtioAssumption DEF IInv, HolderInside, Inside
<1>4. Stage(d, p)
  BY <1>2, <1>3 DEF IInv, RingStage
<1>5. Stage(d, p)'
  BY <1>1, <1>4 DEF Stage, Serving
<1>6. avail' \in [Devices -> Seq(Procs)] /\ used' \in [Devices -> Seq(Procs)]
  BY <1>1 DEF IInv, Shape
<1> QED
  BY <1>1, <1>2, <1>5, <1>6, HolderStep

LEMMA GetBufIInv ==
  ASSUME IInv, NEW p \in Procs, NEW d \in Devices, d = Device(p), GetBuf(p)
  PROVE  IInv'
<1>1. /\ Move(p, "wait", "copy") /\ used[d] # <<>>
      /\ used' = [used EXCEPT ![d] = Tail(@)]
      /\ lock' = [lock EXCEPT ![d] = None]
      /\ UNCHANGED <<call, fstate, dev, avail, serving, served>>
  BY DEF GetBuf, fileVars, hostVars
<1>2. /\ pc[p] = "wait" /\ pc'[p] = "copy" /\ pc' \in [Procs -> Locations]
      /\ \A q \in Procs : q # p => pc'[q] = pc[q]
      /\ \A q \in Procs : Device(q)' = Device(q)
      /\ \A q \in Procs : pc'[q] # "user" => call'[q] \in Requests
      /\ FilesHeld' /\ d \in Devices
  BY <1>1, MoveKept DEF Locations
<1>3. lock[d] = p /\ p # None
  BY <1>2, VirtioAssumption DEF IInv, HolderInside, Inside
<1>4. avail[d] = <<>> /\ used[d] = <<p>> /\ ~Serving(d) /\ p \in served
  BY <1>1, <1>2, <1>3 DEF IInv, RingStage, Stage
<1>5. /\ used' \in [Devices -> Seq(Procs)] /\ used'[d] = <<>>
      /\ \A e \in Devices : e # d => used'[e] = used[e]
  <2>1. used \in [Devices -> Seq(Procs)]
    BY DEF IInv, Shape
  <2>2. Tail(used[d]) = <<>> /\ <<>> \in Seq(Procs)
    BY <1>4
  <2> QED
    BY <1>1, <1>2, <2>1, <2>2
<1>6. /\ lock' \in [Devices -> Procs \cup {None}] /\ lock'[d] = None
      /\ \A e \in Devices : e # d => lock'[e] = lock[e]
  BY <1>1, <1>2 DEF IInv, Shape
<1>7. Shape'
  BY <1>1, <1>2, <1>5, <1>6 DEF IInv, Shape
<1>8. \A e \in Devices : e # d /\ lock[e] # None =>
        lock[e] # p /\ lock[e] \in Procs
  BY <1>2, HolderFacts
<1>9. HolderInside'
  <2>1. ASSUME NEW q \in Procs, Inside(q)' PROVE lock'[Device(q)'] = q
    <3>1. q # p /\ Inside(q) /\ pc[q] # "user"
      BY <2>1, <1>2 DEF Inside
    <3>2. lock[Device(q)] = q /\ Device(q) \in Devices
      BY <3>1, DeviceKept DEF IInv, HolderInside
    <3> QED
      BY <3>1, <3>2, <1>2, <1>3, <1>6
  <2>2. ASSUME NEW e \in Devices, lock'[e] # None
        PROVE  Inside(lock[e])' /\ Device(lock[e])' = e
    BY <2>2, <1>2, <1>6, <1>8, HolderFacts DEF Inside
  <2> QED
    BY <2>1, <2>2 DEF HolderInside
<1>10. RingStage'
  <2>1. Empty(d)'
    BY <1>1, <1>4, <1>5 DEF Empty, Serving
  <2>2. \A e \in Devices : e # d => Empty(e)' = Empty(e)
    BY <1>1, <1>5 DEF Empty, Serving
  <2>3. \A e \in Devices, h \in Procs : e # d => Stage(e, h)' = Stage(e, h)
    BY <1>1, <1>5 DEF Stage, Serving
  <2> QED
    BY <1>2, <1>6, <1>8, <2>1, <2>2, <2>3 DEF IInv, RingStage
<1>11. ServedWhen'
  BY <1>1, <1>2, <1>4 DEF IInv, ServedWhen
<1> QED
  BY <1>2, <1>7, <1>9, <1>10, <1>11 DEF IInv

(* A call ends: its file stays open, or is given up by its only user.      *)
LEMMA EndIInv ==
  ASSUME IInv, NEW p \in Procs, Done(p), NEW f \in Files, f = call[p].file,
         NEW s \in {"free", "open"}, fstate' = [fstate EXCEPT ![f] = s],
         \A g \in Files : g # f => dev'[g] = dev[g],
         dev' \in [Files -> Devices \cup {None}],
         s = "open" => dev'[f] = dev[f],
         s = "free" => fstate[f] # "open"
  PROVE  IInv'
<1>1. /\ pc[p] = "copy" /\ pc'[p] = "user" /\ pc' \in [Procs -> Locations]
      /\ \A q \in Procs : q # p => pc'[q] = pc[q]
  BY DEF IInv, Shape, Done, Move, Locations
<1>2. /\ call' \in [Procs -> Requests \cup {None}]
      /\ \A q \in Procs : q # p => call'[q] = call[q]
  BY DEF IInv, Shape, Done
<1>3. served' = served \ {p} /\ UNCHANGED <<lock, avail, used, serving>>
  BY DEF Done, ringVars
<1>4. \A q \in Procs : q # p /\ pc[q] # "user" /\ call[q].file = f =>
        fstate[f] = "open" /\ s = "open"
  BY <1>1 DEF IInv, FilesHeld
<1>5. /\ fstate \in [Files -> {"free", "opening", "open", "closing"}]
      /\ fstate' \in [Files -> {"free", "opening", "open", "closing"}]
      /\ fstate'[f] = s /\ \A g \in Files : g # f => fstate'[g] = fstate[g]
  BY DEF IInv, Shape
<1>6. \A q \in Procs : q # p /\ pc[q] # "user" =>
        /\ Device(q)' = Device(q) /\ call[q].file \in Files
        /\ fstate'[call[q].file] = fstate[call[q].file]
  BY <1>2, <1>4, <1>5, DeviceKept DEF Device
<1>7. Shape'
  BY <1>1, <1>2, <1>3, <1>5 DEF IInv, Shape
<1>8. FilesHeld'
  <2>1. ASSUME NEW g \in Files, fstate'[g] # "free" PROVE dev'[g] \in Devices
    <3>1. CASE g = f
      <4>1. fstate[f] # "free"
        BY <1>1, DeviceKept
      <4> QED
        BY <3>1, <4>1, <2>1, <1>5 DEF IInv, FilesHeld
    <3>2. CASE g # f
      BY <3>2, <2>1, <1>5 DEF IInv, FilesHeld
    <3> QED
      BY <3>1, <3>2
  <2>2. \A q \in Procs :
          pc'[q] # "user" => fstate'[call'[q].file] = StateFor(call'[q].cmd)
    BY <1>1, <1>2, <1>6 DEF IInv, FilesHeld
  <2>3. \A q, r \in Procs :
          /\ pc'[q] # "user" /\ pc'[r] # "user" /\ call'[q].file = call'[r].file
          /\ q # r
          => fstate'[call'[q].file] = "open"
    BY <1>1, <1>2, <1>6 DEF IInv, FilesHeld
  <2> QED
    BY <2>1, <2>2, <2>3 DEF FilesHeld
<1>9. \A d \in Devices : lock[d] # None => lock[d] # p /\ lock[d] \in Procs
  BY <1>1, HolderFacts DEF Inside
<1>10. HolderInside'
  <2>1. \A q \in Procs : Inside(q)' => q # p /\ Inside(q) /\ pc[q] # "user"
    BY <1>1 DEF Inside
  <2> QED
    BY <1>1, <1>3, <1>6, <1>9, <2>1 DEF IInv, HolderInside, Inside
<1>11. RingStage'
  <2>1. \A d \in Devices : Empty(d)' = Empty(d)
    BY <1>3 DEF Empty, Serving
  <2>2. \A d \in Devices, h \in Procs : h # p => Stage(d, h)' = Stage(d, h)
    BY <1>3 DEF Stage, Serving
  <2> QED
    BY <1>1, <1>3, <1>9, <2>1, <2>2 DEF IInv, RingStage
<1>12. ServedWhen'
  BY <1>1, <1>3 DEF IInv, ServedWhen
<1> QED
  BY <1>7, <1>8, <1>10, <1>11, <1>12 DEF IInv

LEMMA FinishIInv ==
  ASSUME IInv, NEW p \in Procs,
         FinishOpen(p) \/ FinishRelease(p) \/ FinishIoctl(p)
  PROVE  IInv'
<1> DEFINE f == call[p].file
<1>1. Done(p) /\ pc[p] = "copy"
  BY DEF FinishOpen, FinishRelease, FinishIoctl, Done, Move
<1>2. f \in Files /\ fstate[f] = StateFor(call[p].cmd)
  BY <1>1, DeviceKept DEF IInv, FilesHeld
<1>3. dev \in [Files -> Devices \cup {None}]
  BY DEF IInv, Shape
<1>4. ASSUME Free(f), fstate[f] # "open" PROVE IInv'
  <2>1. fstate' = [fstate EXCEPT ![f] = "free"] /\ dev' = [dev EXCEPT ![f] = None]
    BY <1>4 DEF Free
  <2>2. /\ dev' \in [Files -> Devices \cup {None}]
        /\ \A g \in Files : g # f => dev'[g] = dev[g]
    BY <2>1, <1>2, <1>3
  <2> QED
    BY <1>1, <1>2, <1>4, <2>1, <2>2, EndIInv
<1>5. ASSUME fstate' = [fstate EXCEPT ![f] = "open"], dev' = dev PROVE IInv'
  BY <1>1, <1>2, <1>3, <1>5, EndIInv
<1>6. CASE FinishOpen(p)
  BY <1>2, <1>4, <1>5, <1>6 DEF FinishOpen, StateFor
<1>7. CASE FinishRelease(p)
  BY <1>2, <1>4, <1>7 DEF FinishRelease, StateFor
<1>8. CASE FinishIoctl(p)
  <2>1. fstate[f] = "open" /\ UNCHANGED <<fstate, dev>>
    BY <1>2, <1>8 DEF FinishIoctl, StateFor, fileVars
  <2>2. fstate' = [fstate EXCEPT ![f] = "open"]
    BY <2>1, <1>2 DEF IInv, Shape
  <2> QED
    BY <2>1, <2>2, <1>5
<1> QED
  BY <1>6, <1>7, <1>8

-----------------------------------------------------------------------------
(* What the host does with the request of the holder h of device d: the    *)
(* processes keep their places, the other devices see nothing.             *)
LEMMA HostStep ==
  ASSUME IInv, NEW d \in Devices, NEW h \in Procs, lock[d] = h,
         pc[h] \in {"kick", "wait"},
         UNCHANGED <<pc, call, fstate, dev, lock>>,
         avail' \in [Devices -> Seq(Procs)], used' \in [Devices -> Seq(Procs)],
         serving' \in Tasks \cup {None},
         \A e \in Devices : e # d =>
           /\ avail'[e] = avail[e] /\ used'[e] = used[e]
           /\ ~Serving(e) /\ ~Serving(e)',
         served' = served \/ served' = served \cup {h},
         Stage(d, h)'
  PROVE  IInv'
<1>1. h # None /\ Inside(h) /\ Device(h) = d
  BY VirtioAssumption, HolderFacts
<1>2. \A q \in Procs : q # h => (q \in served' <=> q \in served)
  OBVIOUS
<1>3. Shape'
  BY DEF IInv, Shape
<1>4. FilesHeld' /\ HolderInside'
  BY DEF IInv, FilesHeld, HolderInside, Inside, Device
<1>5. ServedWhen'
  BY <1>2 DEF IInv, ServedWhen
<1>6. RingStage'
  <2>1. \A e \in Devices : e # d /\ lock[e] # None =>
          lock[e] # h /\ lock[e] \in Procs
    BY <1>1, HolderFacts
  <2>2. \A e \in Devices : e # d => Empty(e)' = Empty(e)
    BY DEF Empty
  <2>3. \A e \in Devices, q \in Procs : e # d /\ q # h => Stage(e, q)' = Stage(e, q)
    BY <1>2 DEF Stage
  <2> QED
    BY <1>1, <2>1, <2>2, <2>3 DEF IInv, RingStage
<1> QED
  BY <1>3, <1>4, <1>5, <1>6 DEF IInv

(* The ring of a device that is not empty belongs to the holder of its     *)
(* lock, whose request is at one stage.                                    *)
LEMMA BusyDevice ==
  ASSUME IInv, NEW d \in Devices, ~Empty(d)
  PROVE  /\ lock[d] \in Procs /\ pc[lock[d]] \in {"kick", "wait"}
         /\ Stage(d, lock[d])
<1>1. lock[d] # None
  BY DEF IInv, RingStage
<1>2. pc[lock[d]] # "add" /\ Stage(d, lock[d])
  BY <1>1 DEF IInv, RingStage
<1> QED
  BY <1>1, <1>2, HolderFacts DEF Inside

LEMMA PopIInv == ASSUME IInv, NEW d \in Devices, Pop(d) PROVE IInv'
<1>1. /\ serving = None
      /\ UNCHANGED <<pc, call, fstate, dev, lock, used, served>>
  BY DEF Pop, procVars, fileVars, hostVars
<1>2. CASE avail[d] = <<>>
  BY <1>1, <1>2, Unseen DEF Pop, invVars
<1>3. CASE avail[d] # <<>>
  <2>0. PICK h \in Procs : h = lock[d]
    BY <1>3, BusyDevice DEF Empty
  <2>1. /\ serving' = [dev |-> d, proc |-> Head(avail[d]), done |-> FALSE]
        /\ avail' = [avail EXCEPT ![d] = Tail(@)]
    BY <1>3 DEF Pop
  <2>2. pc[h] \in {"kick", "wait"} /\ Stage(d, h)
    BY <1>3, <2>0, BusyDevice DEF Empty
  <2>3. avail[d] = <<h>> /\ used[d] = <<>> /\ h \notin served
    BY <1>3, <2>2 DEF Stage
  <2>4. serving' = [dev |-> d, proc |-> h, done |-> FALSE]
    BY <2>1, <2>3
  <2>5. serving' \in Tasks /\ serving' # None
    <3>1. serving' \in Tasks
      BY <2>2, <2>4 DEF Tasks
    <3> QED
      BY <3>1, VirtioAssumption
  <2>6. /\ avail' \in [Devices -> Seq(Procs)] /\ avail'[d] = <<>>
        /\ \A e \in Devices : e # d => avail'[e] = avail[e]
    <3>1. avail \in [Devices -> Seq(Procs)]
      BY DEF IInv, Shape
    <3>2. Tail(avail[d]) = <<>> /\ <<>> \in Seq(Procs)
      BY <2>3
    <3> QED
      BY <2>1, <3>1, <3>2
  <2>7. used' \in [Devices -> Seq(Procs)]
    BY <1>1 DEF IInv, Shape
  <2>8. \A e \in Devices : e # d => ~Serving(e) /\ ~Serving(e)'
    BY <1>1, <2>4 DEF Serving
  <2>9. Stage(d, h)'
    BY <1>1, <2>3, <2>4, <2>5, <2>6 DEF Stage, Serving
  <2>10. \A e \in Devices : e # d =>
           /\ avail'[e] = avail[e] /\ used'[e] = used[e]
           /\ ~Serving(e) /\ ~Serving(e)'
    BY <1>1, <2>6, <2>8
  <2> QED
    BY <1>1, <2>0, <2>2, <2>5, <2>6, <2>7, <2>9, <2>10, HostStep
<1> QED
  BY <1>2, <1>3

LEMMA SyscallFrame ==
  ASSUME IInv, Syscall
  PROVE  /\ serving # None /\ ~serving.done
         /\ serving' = [serving EXCEPT !.done = TRUE]
         /\ served' = served \cup {serving.proc}
         /\ UNCHANGED <<pc, call, fstate, dev, lock, avail, used>>
<1> DEFINE p == serving.proc
           c == call[p]
<1>1. serving # None /\ ~serving.done
  BY DEF Syscall
<1>2. \/ HostOpen(p, c.file) \/ HostClose(p, c.file) \/ HostIoctl(p, c)
  BY DEF Syscall
<1>3. \E h, a : Ran(p, h, a)
  <2>1. CASE HostOpen(p, c.file)
    BY <2>1 DEF HostOpen
  <2>2. CASE HostClose(p, c.file)
    BY <2>2 DEF HostClose
  <2>3. CASE HostIoctl(p, c)
    BY <2>3 DEF HostIoctl, CreateSession, FinishSession, CryptoRun
  <2> QED
    BY <1>2, <2>1, <2>2, <2>3
<1> QED
  BY <1>1, <1>3 DEF Ran, procVars

LEMMA SyscallIInv == ASSUME IInv, Syscall PROVE IInv'
<1>1. /\ serving # None /\ ~serving.done
      /\ serving' = [serving EXCEPT !.done = TRUE]
      /\ served' = served \cup {serving.proc}
      /\ UNCHANGED <<pc, call, fstate, dev, lock, avail, used>>
  BY SyscallFrame
<1>2. serving \in Tasks
  BY <1>1 DEF IInv, Shape
<1>3. PICK d \in Devices : d = serving.dev
  BY <1>2 DEF Tasks
<1>4. PICK h \in Procs : h = serving.proc
  BY <1>2 DEF Tasks
<1>5. /\ serving' = [dev |-> d, proc |-> h, done |-> TRUE]
      /\ serving' \in Tasks /\ serving' # None
  BY <1>1, <1>2, <1>3, <1>4, VirtioAssumption DEF Tasks
<1>6. Serving(d) /\ ~Empty(d)
  BY <1>1, <1>3 DEF Serving, Empty
<1>7. /\ lock[d] = h /\ pc[h] \in {"kick", "wait"}
      /\ avail[d] = <<>> /\ used[d] = <<>>
  BY <1>3, <1>4, <1>6, BusyDevice DEF Stage
<1>8. \A e \in Devices : e # d => ~Serving(e) /\ ~Serving(e)'
  BY <1>3, <1>5 DEF Serving
<1>9. Stage(d, h)'
  BY <1>1, <1>4, <1>5, <1>7 DEF Stage, Serving
<1>10. avail' \in [Devices -> Seq(Procs)] /\ used' \in [Devices -> Seq(Procs)]
  BY <1>1 DEF IInv, Shape
<1>11. \A e \in Devices : e # d =>
         /\ avail'[e] = avail[e] /\ used'[e] = used[e]
         /\ ~Serving(e) /\ ~Serving(e)'
  BY <1>1, <1>8
<1>12. served' = served \cup {h}
  BY <1>1, <1>4
<1> QED
  BY <1>1, <1>5, <1>7, <1>9, <1>10, <1>11, <1>12, HostStep

LEMMA PushIInv == ASSUME IInv, Push PROVE IInv'
<1>1. /\ serving # None /\ serving.done
      /\ used' = [used EXCEPT ![serving.dev] = Append(@, serving.proc)]
      /\ serving' = None
      /\ UNCHANGED <<pc, call, fstate, dev, lock, avail, served>>
  BY DEF Push, procVars, fileVars, hostVars
<1>2. serving \in Tasks
  BY <1>1 DEF IInv, Shape
<1>3. PICK d \in Devices : d = serving.dev
  BY <1>2 DEF Tasks
<1>4. PICK h \in Procs : h = serving.proc
  BY <1>2 DEF Tasks
<1>5. Serving(d) /\ ~Empty(d)
  BY <1>1, <1>3 DEF Serving, Empty
<1>6. /\ lock[d] = h /\ pc[h] \in {"kick", "wait"} /\ h \in served
      /\ avail[d] = <<>> /\ used[d] = <<>>
  BY <1>1, <1>3, <1>4, <1>5, BusyDevice DEF Stage
<1>7. /\ used' \in [Devices -> Seq(Procs)] /\ used'[d] = <<h>>
      /\ \A e \in Devices : e # d => used'[e] = used[e]
  <2>1. used \in [Devices -> Seq(Procs)]
    BY DEF IInv, Shape
  <2>2. Append(used[d], h) = <<h>> /\ <<h>> \in Seq(Procs)
    BY <1>6
  <2> QED
    BY <1>1, <1>3, <1>4, <2>1, <2>2
<1>8. \A e \in Devices : e # d => ~Serving(e) /\ ~Serving(e)'
  BY <1>1, <1>3 DEF Serving
<1>9. Stage(d, h)'
  BY <1>1, <1>6, <1>7 DEF Stage, Serving
<1>10. avail' \in [Devices -> Seq(Procs)]
  BY <1>1 DEF IInv, Shape
<1>11. \A e \in Devices : e # d =>
         /\ avail'[e] = avail[e] /\ used'[e] = used[e]
         /\ ~Serving(e) /\ ~Serving(e)'
  BY <1>1, <1>7, <1>8
<1> QED
  BY <1>1, <1>6, <1>7, <1>9, <1>10, <1>11, HostStep

-----------------------------------------------------------------------------
LEMMA NextIInv == IInv /\ [Next]_vars => IInv'
<1> SUFFICES ASSUME IInv, [Next]_vars PROVE IInv'
  OBVIOUS
<1>1. ASSUME NEW p \in Procs, Calls(p) \/ Lock(p) \/ Driver(p) PROVE IInv'
  <2>1. CASE Calls(p)
    BY <2>1, CallsIInv
  <2>2. CASE Lock(p) \/ AddSgs(p) \/ Kick(p) \/ GetBuf(p)
    <3>1. pc[p] # "user"
      BY <2>2 DEF Lock, AddSgs, Kick, GetBuf, Move
    <3>2. Device(p) \in Devices
      BY <3>1, DeviceKept
    <3> QED
      BY <2>2, <3>2, LockIInv, AddSgsIInv, KickIInv, GetBufIInv
  <2>3. CASE FinishOpen(p) \/ FinishRelease(p) \/ FinishIoctl(p)
    BY <2>3, FinishIInv
  <2> QED
    BY <1>1, <2>1, <2>2, <2>3 DEF Driver
<1>2. CASE Backend
  BY <1>2, PopIInv, SyscallIInv, PushIInv DEF Backend
<1>3. CASE Crash \/ Down \/ UNCHANGED vars
  <2>1. UNCHANGED invVars
    BY <1>3 DEF Crash, Down, vars, procVars, fileVars, ringVars, hostVars, invVars
  <2> QED
    BY <2>1, Unseen
<1> QED
  BY <1>1, <1>2, <1>3 DEF Next

(* The driver's spinlock, the virtqueue and the handler stay in step: a    *)
(* device's ring holds what its lock's holder has sent, and nothing else.  *)
THEOREM Invariance == Spec => []IInv
<1> QED
  BY InitIInv, NextIInv, PTL DEF Spec

(* Whoever leaves the busy wait of crypto_chrdev_open, _release or _ioctl  *)
(* has his own request executed, whatever the others do and however the    *)
(* host's kicks coalesce.                                                  *)
THEOREM OwnAnswers == Spec => []AnswerIsOwn
<1>1. IInv => AnswerIsOwn
  BY DEF IInv, ServedWhen, AnswerIsOwn
<1> QED
  BY <1>1, Invariance, PTL

(* At most one request per virtqueue, its owner with the lock: the error   *)
(* of virtqueue_add_sgs that nobody looks at does not occur.               *)
THEOREM RingExclusive == Spec => []RingHasHolderOnly
<1>1. ASSUME IInv, NEW d \in Devices PROVE InFlight(d) <= 1
  <2>1. CASE Empty(d)
    BY <2>1 DEF Empty, Serving, InFlight, InService
  <2>2. CASE ~Empty(d)
    <3>1. Stage(d, lock[d])
      BY <1>1, <2>2, BusyDevice
    <3>2. CASE avail[d] = <<lock[d]>> /\ used[d] = <<>> /\ ~Serving(d)
      BY <3>2 DEF Serving, InFlight, InService
    <3>3. CASE avail[d] = <<>> /\ used[d] = <<>> /\ Serving(d)
      BY <3>3 DEF Serving, InFlight, InService
    <3>4. CASE avail[d] = <<>> /\ used[d] = <<lock[d]>> /\ ~Serving(d)
      BY <3>4 DEF Serving, InFlight, InService
    <3> QED
      BY <3>1, <3>2, <3>3, <3>4 DEF Stage
  <2> QED
    BY <2>1, <2>2
<1>2. ASSUME IInv, NEW d \in Devices, NEW p \in Procs,
             p \in Range(avail[d]) \cup Range(used[d])
      PROVE  lock[d] = p
  <2>1. CASE Empty(d)
    BY <1>2, <2>1 DEF Empty, Range
  <2>2. CASE ~Empty(d)
    <3>1. Stage(d, lock[d])
      BY <1>2, <2>2, BusyDevice
    <3> QED
      BY <1>2, <3>1 DEF Stage, Range
  <2> QED
    BY <2>1, <2>2
<1>3. IInv => RingHasHolderOnly
  BY <1>1, <1>2 DEF RingHasHolderOnly
<1> QED
  BY <1>3, Invariance, PTL

-----------------------------------------------------------------------------
(* The descriptors of the host.  The rest of TypeOK, and what an open file *)
(* and the call that opens it have of QEMU's descriptor.                   *)
HostTypes ==
  /\ \A p \in Procs : call[p] = None <=> pc[p] = "user"
  /\ host_fd \in [Files -> Fds \cup {None}]
  /\ kicked \in [Devices -> BOOLEAN]
  /\ host \in [Fds -> Sessions \cup {Closed}]
  /\ answer \in [Procs -> Answers]
  /\ ret \in [Procs -> Answers \cup {None}] /\ up \in BOOLEAN

Descriptors ==
  /\ \A f \in Files : fstate[f] = "free" => host_fd[f] = None
  /\ \A f \in Files : fstate[f] \in {"open", "closing"} => host_fd[f] # None
  /\ \A p \in Procs :
       pc[p] # "user" /\ call[p].cmd = "OPEN" /\ p \notin served
         => host_fd[call[p].file] = None

(* HostFilesOwned, file by file.                                           *)
Owned ==
  /\ \A f \in Files : HasHost(f) => host[host_fd[f]] # Closed
  /\ \A fd \in Fds :
       host[fd] # Closed => \E f \in Files : HasHost(f) /\ host_fd[f] = fd
  /\ \A f, g \in Files :
       HasHost(f) /\ HasHost(g) /\ host_fd[f] = host_fd[g] => f = g

HInv == IInv /\ HostTypes /\ Descriptors /\ Owned

LEMMA InitHInv == Init => HInv
<1> SUFFICES ASSUME Init PROVE HInv
  OBVIOUS
<1>1. \A f \in Files : ~HasHost(f)
  BY DEF Init, HasHost
<1>2. Unwritten \in Answers
  BY DEF Unwritten, Err, Answers, Errors, Values
<1> QED
  BY <1>1, <1>2, InitIInv
     DEF Init, HInv, HostTypes, Descriptors, Owned, Closed

(* A step that leaves the host's table and who has which descriptor.       *)
LEMMA OwnedKept ==
  ASSUME Owned, UNCHANGED host, NEW S, S = Files,
         \A f \in S : HasHost(f)' = HasHost(f),
         \A f \in S : HasHost(f) => host_fd'[f] = host_fd[f]
  PROVE  Owned'
BY DEF Owned

(* A step that touches neither the files nor the host.                     *)
LEMMA QuietHInv ==
  ASSUME HInv, IInv',
         UNCHANGED <<call, fstate, host_fd, served, host, answer, ret>>,
         \A q \in Procs : pc'[q] = "user" <=> pc[q] = "user",
         kicked' \in [Devices -> BOOLEAN], up' \in BOOLEAN
  PROVE  HInv' /\ \A f \in Files : HasHost(f)' = HasHost(f)
<1>1. ASSUME NEW f \in Files PROVE HasHost(f)' = HasHost(f)
  BY DEF HasHost, Callers
<1>2. Owned'
  BY <1>1, OwnedKept DEF HInv
<1>3. HostTypes'
  BY DEF HInv, HostTypes
<1>4. Descriptors'
  BY DEF HInv, Descriptors
<1> QED
  BY <1>1, <1>2, <1>3, <1>4 DEF HInv

(* A new call has not been served, so nobody loses a descriptor by it.     *)
LEMMA BeginHasHost ==
  ASSUME HInv, NEW p \in Procs, NEW c \in Requests, Begin(p, c),
         UNCHANGED host_fd,
         \A g \in Files : g # c.file => fstate'[g] = fstate[g],
         fstate' = fstate \/ Callers(c.file) = {},
         NEW f \in Files
  PROVE  HasHost(f)' = HasHost(f)
<1>1. /\ pc[p] = "user" /\ pc'[p] = "lock" /\ call'[p] = c
      /\ \A q \in Procs : q # p => pc'[q] = pc[q] /\ call'[q] = call[q]
      /\ served' = served
  BY DEF Begin, Move, HInv, IInv, Shape
<1>2. p \notin served
  BY <1>1 DEF HInv, IInv, ServedWhen
<1>3. \A q \in Procs \ {p} : q \in Callers(f)' <=> q \in Callers(f)
  BY <1>1 DEF Callers
<1>4. Callers(f)' \cap served' = Callers(f) \cap served
  <2>1. Callers(f) \subseteq Procs /\ Callers(f)' \subseteq Procs
    BY DEF Callers
  <2> QED
    BY <1>1, <1>2, <1>3, <2>1
<1>5. CASE f = c.file /\ Callers(c.file) = {}
  BY <1>4, <1>5 DEF HasHost
<1>6. CASE fstate'[f] = fstate[f]
  BY <1>4, <1>6 DEF HasHost
<1> QED
  BY <1>5, <1>6

LEMMA BeginHInv ==
  ASSUME HInv, IInv', NEW p \in Procs, NEW c \in Requests, Begin(p, c),
         UNCHANGED host_fd,
         \A g \in Files : g # c.file => fstate'[g] = fstate[g],
         \/ fstate' = fstate /\ c.cmd # "OPEN"
         \/ Callers(c.file) = {} /\ fstate[c.file] = "free"
              /\ fstate'[c.file] = "opening"
         \/ Callers(c.file) = {} /\ fstate[c.file] = "open"
              /\ fstate'[c.file] = "closing" /\ c.cmd # "OPEN"
  PROVE  HInv'
<1>1. /\ pc[p] = "user" /\ pc'[p] = "lock" /\ call'[p] = c
      /\ \A q \in Procs : q # p => pc'[q] = pc[q] /\ call'[q] = call[q]
      /\ UNCHANGED <<served, host, kicked, up>>
      /\ answer' = [answer EXCEPT ![p] = Unwritten]
      /\ ret' = [ret EXCEPT ![p] = None]
  BY DEF Begin, Move, HInv, IInv, Shape, ringVars, Return
<1>2. c.file \in Files /\ c # None
  BY RequestShape
<1>3. Unwritten \in Answers
  BY DEF Unwritten, Err, Answers, Errors, Values
<1>4. HostTypes'
  <2>1. \A q \in Procs : call'[q] = None <=> pc'[q] = "user"
    BY <1>1, <1>2 DEF HInv, HostTypes
  <2>2. /\ answer' \in [Procs -> Answers]
        /\ ret' \in [Procs -> Answers \cup {None}]
    BY <1>1, <1>3 DEF HInv, HostTypes
  <2> QED
    BY <1>1, <2>1, <2>2 DEF HInv, HostTypes
<1>5. Descriptors'
  <2>1. c.cmd = "OPEN" => host_fd[c.file] = None
    BY <1>2 DEF HInv, Descriptors
  <2>2. \A f \in Files :
          /\ fstate'[f] = "free" => host_fd[f] = None
          /\ fstate'[f] \in {"open", "closing"} => host_fd[f] # None
    BY <1>2 DEF HInv, Descriptors
  <2>3. \A q \in Procs :
          pc'[q] # "user" /\ call'[q].cmd = "OPEN" /\ q \notin served'
            => host_fd[call'[q].file] = None
    BY <1>1, <2>1 DEF HInv, Descriptors
  <2> QED
    BY <2>2, <2>3 DEF Descriptors
<1>6. \A f \in Files : HasHost(f)' = HasHost(f)
  BY BeginHasHost
<1>7. Owned'
  BY <1>1, <1>6, OwnedKept DEF HInv
<1> QED
  BY <1>4, <1>5, <1>7 DEF HInv

(* A refused call only returns its error.                                  *)
LEMMA RefuseHInv ==
  ASSUME HInv, IInv', NEW p \in Procs, NEW e \in Errors, Refuse(p, e),
         UNCHANGED fileVars
  PROVE  HInv'
<1>1. /\ UNCHANGED <<call, fstate, host_fd, served, host, answer, pc, kicked, up>>
      /\ ret' = [ret EXCEPT ![p] = Err(e)]
  BY DEF Refuse, Return, procVars, fileVars, hostVars, ringVars
<1>2. Err(e) \in Answers
  BY DEF Err, Answers, Values
<1>3. HostTypes'
  BY <1>1, <1>2 DEF HInv, HostTypes
<1>4. Descriptors'
  BY <1>1 DEF HInv, Descriptors
<1>5. \A f \in Files : HasHost(f)' = HasHost(f)
  BY <1>1 DEF HasHost, Callers
<1>6. Owned'
  BY <1>1, <1>5, OwnedKept DEF HInv
<1> QED
  BY <1>3, <1>4, <1>6 DEF HInv

(* A free file has no callers. *)
LEMMA FreeFile ==
  ASSUME HInv, NEW f \in Files, fstate[f] = "free" PROVE Callers(f) = {}
BY DeviceKept DEF Callers, HInv

(* What the three kinds of calls begin with.                               *)
LEMMA OpenBegins ==
  ASSUME HInv, NEW p \in Procs, NEW f \in Files, NEW minor \in Minors,
         Open(p, f, minor)
  PROVE  \/ /\ fstate[f] = "free" /\ Callers(f) = {} /\ host_fd' = host_fd
            /\ fstate' = [fstate EXCEPT ![f] = "opening"]
            /\ Begin(p, [cmd |-> "OPEN", file |-> f, arg |-> None])
         \/ Refuse(p, "ENODEV")
BY FreeFile DEF Open

LEMMA CallsHInv == ASSUME HInv, NEW p \in Procs, Calls(p) PROVE HInv'
<1>1. IInv'
  BY CallsIInv DEF HInv
<1>2. fstate \in [Files -> {"free", "opening", "open", "closing"}]
  BY DEF HInv, IInv, Shape
<1>3. ASSUME NEW f \in Files, NEW minor \in Minors, Open(p, f, minor)
      PROVE  HInv'
  <2> DEFINE c == [cmd |-> "OPEN", file |-> f, arg |-> None]
  <2>1. CASE /\ fstate[f] = "free" /\ Callers(f) = {} /\ host_fd' = host_fd
             /\ fstate' = [fstate EXCEPT ![f] = "opening"] /\ Begin(p, c)
    <3>1. c \in Requests /\ c.file = f
      BY DEF Requests
    <3> HIDE DEF c
    <3>2. fstate'[f] = "opening" /\ \A g \in Files : g # f => fstate'[g] = fstate[g]
      BY <1>2, <2>1
    <3> QED
      BY <1>1, <2>1, <3>1, <3>2, BeginHInv
  <2>2. CASE Refuse(p, "ENODEV")
    BY <1>1, <2>2, RefuseHInv DEF Refuse, Errors
  <2> QED
    BY <1>3, <2>1, <2>2, OpenBegins
<1>4. ASSUME NEW f \in Files, Release(p, f)
      PROVE  HInv'
  <2> DEFINE c == [cmd |-> "CLOSE", file |-> f, arg |-> None]
  <2>1. /\ fstate[f] = "open" /\ Callers(f) = {} /\ host_fd' = host_fd
        /\ fstate' = [fstate EXCEPT ![f] = "closing"] /\ Begin(p, c)
    BY <1>4 DEF Release
  <2>2. c \in Requests /\ c.file = f /\ c.cmd # "OPEN"
    BY DEF Requests
  <2> HIDE DEF c
  <2>3. fstate'[f] = "closing" /\ \A g \in Files : g # f => fstate'[g] = fstate[g]
    BY <1>2, <2>1
  <2> QED
    BY <1>1, <2>1, <2>2, <2>3, BeginHInv
<1>5. ASSUME NEW c \in Requests, Ioctl(p, c)
      PROVE  HInv'
  <2>1. CASE Begin(p, c) /\ UNCHANGED fileVars
    BY <1>1, <1>5, <2>1, BeginHInv DEF Ioctl, fileVars
  <2>2. CASE Refuse(p, "EFAULT")
    BY <1>1, <2>2, RefuseHInv DEF Refuse, Errors
  <2> QED
    BY <1>5, <2>1, <2>2 DEF Ioctl
<1> QED
  BY <1>3, <1>4, <1>5 DEF Calls

LEMMA LockedHInv ==
  ASSUME HInv, IInv', NEW p \in Procs,
         Lock(p) \/ AddSgs(p) \/ Kick(p) \/ GetBuf(p)
  PROVE  HInv' /\ \A f \in Files : HasHost(f)' = HasHost(f)
<1>1. /\ UNCHANGED <<call, fstate, host_fd, served, host, answer, ret, up>>
      /\ pc[p] # "user" /\ pc'[p] # "user"
      /\ \A q \in Procs : q # p => pc'[q] = pc[q]
  BY DEF Lock, AddSgs, Kick, GetBuf, Move, fileVars, hostVars, HInv, IInv, Shape
<1>2. kicked' \in [Devices -> BOOLEAN] /\ up' \in BOOLEAN
  BY <1>1 DEF Lock, AddSgs, Kick, GetBuf, ringVars, HInv, HostTypes
<1> QED
  BY <1>1, <1>2, QuietHInv

LEMMA QueueHInv ==
  ASSUME HInv, IInv',
         \/ \E d \in Devices : Pop(d)
         \/ Push \/ Crash \/ Down \/ UNCHANGED vars
  PROVE  HInv' /\ \A f \in Files : HasHost(f)' = HasHost(f)
<1>1. UNCHANGED <<pc, call, fstate, host_fd, served, host, answer, ret>>
  BY DEF Pop, Push, Crash, Down, vars, procVars, fileVars, hostVars
<1>2. kicked' \in [Devices -> BOOLEAN] /\ up' \in BOOLEAN
  <2>1. kicked \in [Devices -> BOOLEAN] /\ up \in BOOLEAN
    BY DEF HInv, HostTypes
  <2>2. CASE \E d \in Devices : Pop(d)
    BY <2>1, <2>2 DEF Pop
  <2>3. CASE Push \/ Crash \/ Down \/ UNCHANGED vars
    BY <2>1, <2>3 DEF Push, Crash, Down, vars, ringVars
  <2> QED
    BY <2>2, <2>3
<1> QED
  BY <1>1, <1>2, QuietHInv

-----------------------------------------------------------------------------
(* A call returns: it has been served, so a file that goes away with it has *)
(* no descriptor left, and no other file notices.                          *)
LEMMA FinishFrame ==
  ASSUME HInv, NEW p \in Procs,
         FinishOpen(p) \/ FinishRelease(p) \/ FinishIoctl(p)
  PROVE  /\ pc[p] = "copy" /\ pc'[p] = "user" /\ p \in served
         /\ call[p] \in Requests /\ call[p].file \in Files /\ call'[p] = None
         /\ fstate[call[p].file] = StateFor(call[p].cmd)
         /\ \A q \in Procs : q # p => pc'[q] = pc[q] /\ call'[q] = call[q]
         /\ served' = served \ {p} /\ UNCHANGED <<kicked, host, up>>
         /\ answer' = [answer EXCEPT ![p] = Unwritten]
<1>1. Done(p)
  BY DEF FinishOpen, FinishRelease, FinishIoctl
<1>2. pc[p] = "copy" /\ pc'[p] = "user" /\ call'[p] = None
      /\ \A q \in Procs : q # p => pc'[q] = pc[q] /\ call'[q] = call[q]
  BY <1>1 DEF Done, Move, HInv, IInv, Shape
<1>3. call[p] \in Requests /\ call[p].file \in Files
      /\ fstate[call[p].file] = StateFor(call[p].cmd) /\ p \in served
  BY <1>2, DeviceKept DEF HInv, IInv, FilesHeld, ServedWhen
<1> QED
  BY <1>1, <1>2, <1>3 DEF Done, ringVars

(* What becomes of its file. *)
LEMMA FinishFile ==
  ASSUME HInv, NEW p \in Procs,
         FinishOpen(p) \/ FinishRelease(p) \/ FinishIoctl(p),
         NEW f \in Files, f = call[p].file
  PROVE  /\ \A g \in Files : g # f => fstate'[g] = fstate[g] /\ host_fd'[g] = host_fd[g]
         /\ host_fd' \in [Files -> Fds \cup {None}]
         /\ \/ /\ fstate[f] = "closing" \/ host_fd[f] = None
               /\ fstate'[f] = "free" /\ host_fd'[f] = None
            \/ /\ fstate[f] \in {"opening", "open"} /\ host_fd[f] # None
               /\ fstate'[f] = "open" /\ host_fd'[f] = host_fd[f]
<1>1. /\ fstate \in [Files -> {"free", "opening", "open", "closing"}]
      /\ host_fd \in [Files -> Fds \cup {None}]
  BY DEF HInv, IInv, Shape, HostTypes
<1>2. fstate[f] = StateFor(call[p].cmd)
  BY FinishFrame
<1>3. CASE FinishOpen(p)
  BY <1>1, <1>2, <1>3 DEF FinishOpen, StateFor, Free
<1>4. CASE FinishRelease(p)
  BY <1>1, <1>2, <1>4 DEF FinishRelease, StateFor, Free
<1>5. CASE FinishIoctl(p)
  <2>1. fstate[f] = "open" /\ UNCHANGED <<fstate, host_fd>>
    BY <1>2, <1>5 DEF FinishIoctl, StateFor, fileVars
  <2>2. host_fd[f] # None
    BY <2>1 DEF HInv, Descriptors
  <2> QED
    BY <1>1, <2>1, <2>2
<1> QED
  BY <1>3, <1>4, <1>5

LEMMA FinishHasHost ==
  ASSUME HInv, NEW p \in Procs,
         FinishOpen(p) \/ FinishRelease(p) \/ FinishIoctl(p),
         NEW g \in Files
  PROVE  HasHost(g)' = HasHost(g)
<1>1. PICK f \in Files : f = call[p].file
  BY FinishFrame
<1>2. CASE g # f
  <2>1. fstate'[g] = fstate[g] /\ host_fd'[g] = host_fd[g]
    BY <1>1, <1>2, FinishFile
  <2>2. \A q \in Procs : /\ pc'[q] # "user" /\ call'[q].file = g /\ q \in served'
                         <=> pc[q] # "user" /\ call[q].file = g /\ q \in served
    BY <1>1, <1>2, FinishFrame
  <2>3. Callers(g)' \cap served' = Callers(g) \cap served
    BY <2>2 DEF Callers
  <2> QED
    BY <2>1, <2>3 DEF HasHost
<1>3. CASE g = f
  <2>1. p \in Callers(f) \cap served
    BY <1>1, FinishFrame DEF Callers
  <2>2. \/ /\ fstate[f] = "closing" \/ host_fd[f] = None
           /\ fstate'[f] = "free" /\ host_fd'[f] = None
        \/ /\ fstate[f] \in {"opening", "open"} /\ host_fd[f] # None
           /\ fstate'[f] = "open" /\ host_fd'[f] = host_fd[f]
    BY <1>1, FinishFile
  <2> QED
    BY <1>3, <2>1, <2>2 DEF HasHost
<1> QED
  BY <1>2, <1>3

LEMMA FinishHInv ==
  ASSUME HInv, IInv', NEW p \in Procs,
         FinishOpen(p) \/ FinishRelease(p) \/ FinishIoctl(p)
  PROVE  HInv'
<1>1. PICK f \in Files : f = call[p].file
  BY FinishFrame
<1>2. /\ pc[p] = "copy" /\ pc'[p] = "user" /\ p \in served /\ call'[p] = None
      /\ fstate[f] = StateFor(call[p].cmd)
      /\ \A q \in Procs : q # p => pc'[q] = pc[q] /\ call'[q] = call[q]
      /\ served' = served \ {p} /\ UNCHANGED <<kicked, host, up>>
      /\ answer' = [answer EXCEPT ![p] = Unwritten]
  BY <1>1, FinishFrame
<1>3. /\ \A g \in Files : g # f => fstate'[g] = fstate[g] /\ host_fd'[g] = host_fd[g]
      /\ host_fd' \in [Files -> Fds \cup {None}]
      /\ \/ /\ fstate[f] = "closing" \/ host_fd[f] = None
            /\ fstate'[f] = "free" /\ host_fd'[f] = None
         \/ /\ fstate[f] \in {"opening", "open"} /\ host_fd[f] # None
            /\ fstate'[f] = "open" /\ host_fd'[f] = host_fd[f]
  BY <1>1, FinishFile
<1>4. HostTypes'
  <2>1. {Unwritten, Ok(None), Err("ENODEV"), Err("EFAULT")} \subseteq Answers
    BY DEF Unwritten, Ok, Err, Answers, Errors, Values
  <2>2. \E a \in Answers : ret' = [ret EXCEPT ![p] = a]
    <3>1. answer[p] \in Answers
      BY DEF HInv, HostTypes
    <3> QED
      BY <2>1, <3>1 DEF FinishOpen, FinishRelease, FinishIoctl, Return
  <2>3. /\ answer' \in [Procs -> Answers]
        /\ ret' \in [Procs -> Answers \cup {None}]
    BY <1>2, <2>1, <2>2 DEF HInv, HostTypes
  <2>4. \A q \in Procs : call'[q] = None <=> pc'[q] = "user"
    BY <1>2 DEF HInv, HostTypes
  <2> QED
    BY <1>2, <1>3, <2>3, <2>4 DEF HInv, HostTypes
<1>5. Descriptors'
  <2>1. \A g \in Files :
          /\ fstate'[g] = "free" => host_fd'[g] = None
          /\ fstate'[g] \in {"open", "closing"} => host_fd'[g] # None
    BY <1>3 DEF HInv, Descriptors
  <2>2. ASSUME NEW q \in Procs, pc'[q] # "user", call'[q].cmd = "OPEN", q \notin served'
        PROVE  host_fd'[call'[q].file] = None
    <3>1. q # p /\ pc[q] # "user" /\ call'[q] = call[q] /\ q \notin served
      BY <1>2, <2>2
    <3>2. call[q].file # f
      <4>1. fstate[call[q].file] = "opening"
        BY <2>2, <3>1 DEF HInv, IInv, FilesHeld, StateFor
      <4> QED
        BY <1>1, <1>2, <3>1, <4>1 DEF HInv, IInv, FilesHeld
    <3>3. call[q].file \in Files /\ host_fd[call[q].file] = None
      BY <2>2, <3>1, DeviceKept DEF HInv, Descriptors
    <3> QED
      BY <1>3, <3>1, <3>2, <3>3
  <2> QED
    BY <2>1, <2>2 DEF Descriptors
<1>6. \A g \in Files : HasHost(g)' = HasHost(g)
  BY FinishHasHost
<1>7. \A g \in Files : HasHost(g) => host_fd'[g] = host_fd[g]
  <2>1. HasHost(f) => fstate[f] # "closing" /\ host_fd[f] # None
    <3>1. p \in Callers(f) \cap served
      BY <1>1, <1>2 DEF Callers
    <3> QED
      BY <3>1 DEF HasHost
  <2> QED
    BY <1>3, <2>1
<1>8. Owned'
  BY <1>2, <1>6, <1>7, OwnedKept DEF HInv
<1> QED
  BY <1>4, <1>5, <1>8 DEF HInv

-----------------------------------------------------------------------------
(* The request in the handler's hands, and the file it is about.           *)
LEMMA ServingFacts ==
  ASSUME HInv, serving # None, ~serving.done,
         NEW p, p = serving.proc, NEW c, c = call[p], NEW f, f = c.file
  PROVE  /\ p \in Procs /\ c \in Requests /\ f \in Files /\ c # None
         /\ p \notin served /\ pc[p] # "user" /\ fstate[f] = StateFor(c.cmd)
         /\ c.cmd # "OPEN" => host_fd[f] # None /\ HasHost(f)
         /\ c.cmd = "OPEN" => host_fd[f] = None
<1>1. serving \in Tasks
  BY DEF HInv, IInv, Shape
<1>2. PICK d \in Devices : d = serving.dev
  BY <1>1 DEF Tasks
<1>3. p \in Procs
  BY <1>1 DEF Tasks
<1>4. Serving(d) /\ ~Empty(d)
  BY <1>2 DEF Serving, Empty
<1>5. lock[d] = p /\ pc[p] \in {"kick", "wait"} /\ p \notin served
  BY <1>2, <1>3, <1>4, BusyDevice DEF HInv, Stage
<1>6. c \in Requests /\ f \in Files /\ c # None /\ fstate[f] = StateFor(c.cmd)
  BY <1>3, <1>5, DeviceKept, RequestShape DEF HInv, IInv, FilesHeld
<1>7. c.cmd = "OPEN" => host_fd[f] = None
  BY <1>3, <1>5 DEF HInv, Descriptors
<1>8. ASSUME c.cmd # "OPEN" PROVE host_fd[f] # None /\ HasHost(f)
  <2>1. fstate[f] \in {"open", "closing"} /\ host_fd[f] # None
    BY <1>6, <1>8 DEF HInv, Descriptors, StateFor
  <2>2. fstate[f] = "closing" => Callers(f) \cap served = {}
    <3>1. \A q \in Procs : pc[q] # "user" /\ call[q].file = f /\ q # p
            => fstate[f] = "open"
      BY <1>3, <1>5 DEF HInv, IInv, FilesHeld
    <3> QED
      BY <1>5, <3>1 DEF Callers
  <2> QED
    BY <2>1, <2>2 DEF HasHost
<1> QED
  BY <1>3, <1>5, <1>6, <1>7, <1>8

(* Only the file of the request may change hands.                          *)
LEMMA SyscallFile ==
  ASSUME HInv, serving # None, ~serving.done,
         NEW p, p = serving.proc, NEW f, f = call[p].file,
         NEW h, NEW a, Ran(p, h, a),
         NEW x \in Fds \cup {None}, host_fd' = [host_fd EXCEPT ![f] = x]
  PROVE  /\ \A g \in Files : g # f =>
              HasHost(g)' = HasHost(g) /\ host_fd'[g] = host_fd[g]
         /\ host_fd' \in [Files -> Fds \cup {None}] /\ host_fd'[f] = x
         /\ fstate[f] # "closing" => (HasHost(f)' <=> x # None)
         /\ fstate[f] = "closing" => ~HasHost(f)'
<1>1. UNCHANGED <<pc, call, fstate>> /\ served' = served \cup {p}
  BY DEF Ran, procVars
<1>2. p \in Procs /\ f \in Files /\ pc[p] # "user"
  BY ServingFacts
<1>3. host_fd \in [Files -> Fds \cup {None}]
  BY DEF HInv, HostTypes
<1>4. ASSUME NEW g \in Files, g # f
      PROVE  HasHost(g)' = HasHost(g) /\ host_fd'[g] = host_fd[g]
  <2>1. host_fd'[g] = host_fd[g]
    BY <1>3, <1>4
  <2>2. p \notin Callers(g)
    BY <1>4 DEF Callers
  <2>3. Callers(g)' = Callers(g)
    BY <1>1 DEF Callers
  <2>4. Callers(g)' \cap served' = Callers(g) \cap served
    BY <1>1, <2>2, <2>3
  <2> QED
    BY <1>1, <2>1, <2>4 DEF HasHost
<1>5. host_fd' \in [Files -> Fds \cup {None}] /\ host_fd'[f] = x
  BY <1>2, <1>3
<1>6. fstate[f] # "closing" => (HasHost(f)' <=> x # None)
  BY <1>1, <1>5 DEF HasHost
<1>7. fstate[f] = "closing" => ~HasHost(f)'
  <2>1. p \in Callers(f)' \cap served'
    BY <1>1, <1>2 DEF Callers
  <2> QED
    BY <1>1, <2>1 DEF HasHost
<1> QED
  BY <1>4, <1>5, <1>6, <1>7

(* The types of what a request leaves behind.                              *)
LEMMA SyscallTypes ==
  ASSUME HInv, IInv', serving # None, ~serving.done,
         NEW p, p = serving.proc, NEW f, f = call[p].file,
         NEW h \in [Fds -> Sessions \cup {Closed}], NEW a \in Answers,
         Ran(p, h, a),
         NEW x \in Fds \cup {None}, host_fd' = [host_fd EXCEPT ![f] = x],
         fstate[f] # "opening" => x = host_fd[f]
  PROVE  HostTypes' /\ Descriptors'
<1>1. /\ UNCHANGED <<pc, call, fstate, ret, up, kicked>>
      /\ served' = served \cup {p} /\ host' = h
      /\ answer' = [answer EXCEPT ![p] = a]
  BY DEF Ran, procVars
<1>2. /\ p \in Procs /\ f \in Files /\ pc[p] # "user"
      /\ fstate[f] = StateFor(call[p].cmd)
  BY ServingFacts
<1>3. /\ \A g \in Files : g # f => host_fd'[g] = host_fd[g]
      /\ host_fd' \in [Files -> Fds \cup {None}] /\ host_fd'[f] = x
  BY <1>2 DEF HInv, HostTypes
<1>4. HostTypes'
  <2>1. answer' \in [Procs -> Answers]
    BY <1>1, <1>2 DEF HInv, HostTypes
  <2> QED
    BY <1>1, <1>3, <2>1 DEF HInv, HostTypes
<1>5. Descriptors'
  <2>1. \A g \in Files :
          /\ fstate'[g] = "free" => host_fd'[g] = None
          /\ fstate'[g] \in {"open", "closing"} => host_fd'[g] # None
    <3>1. fstate[f] # "free"
      BY <1>2 DEF StateFor
    <3> QED
      BY <1>1, <1>2, <1>3, <3>1 DEF HInv, Descriptors
  <2>2. ASSUME NEW q \in Procs, pc'[q] # "user", call'[q].cmd = "OPEN", q \notin served'
        PROVE  host_fd'[call'[q].file] = None
    <3>1. q # p /\ pc[q] # "user" /\ q \notin served /\ call[q].cmd = "OPEN"
      BY <1>1, <2>2
    <3>2. call[q].file # f
      <4>1. fstate[call[q].file] = "opening"
        BY <3>1 DEF HInv, IInv, FilesHeld, StateFor
      <4> QED
        BY <1>2, <3>1, <4>1 DEF HInv, IInv, FilesHeld
    <3>3. call[q].file \in Files /\ host_fd[call[q].file] = None
      BY <3>1, DeviceKept DEF HInv, Descriptors
    <3> QED
      BY <1>1, <1>3, <3>2, <3>3
  <2> QED
    BY <2>1, <2>2 DEF Descriptors
<1> QED
  BY <1>4, <1>5

(* An open, executed: a closed descriptor for a file that had none.        *)
LEMMA HostOpenHInv ==
  ASSUME HInv, IInv', serving # None, ~serving.done,
         NEW p, p = serving.proc, NEW f, f = call[p].file,
         call[p].cmd = "OPEN", HostOpen(p, f)
  PROVE  HInv'
<1>1. f \in Files /\ fstate[f] = "opening" /\ host_fd[f] = None
  BY ServingFacts DEF StateFor
<1>2. host \in [Fds -> Sessions \cup {Closed}]
      /\ host_fd \in [Files -> Fds \cup {None}]
  BY DEF HInv, HostTypes
<1>3. ~HasHost(f)
  BY <1>1 DEF HasHost
<1>4. Unwritten \in Answers
  BY DEF Unwritten, Err, Answers, Errors, Values
<1>5. ASSUME NEW fd \in Fds, host[fd] = Closed,
             host_fd' = [host_fd EXCEPT ![f] = fd],
             Ran(p, [host EXCEPT ![fd] = <<>>], Unwritten)
      PROVE  HInv'
  <2>1. <<>> \in Sessions /\ <<>> # Closed
    <3>1. <<>> \in [{} -> Procs]
      OBVIOUS
    <3>2. <<>> \in Sessions
      BY <3>1 DEF Sessions
    <3> QED
      BY <3>2, VirtioAssumption DEF Closed
  <2>2. [host EXCEPT ![fd] = <<>>] \in [Fds -> Sessions \cup {Closed}]
    BY <1>2, <2>1
  <2>3. HostTypes' /\ Descriptors'
    BY <1>1, <1>4, <1>5, <2>2, SyscallTypes
  <2>4. fd # None
    BY VirtioAssumption
  <2>5. /\ \A g \in Files : g # f =>
             HasHost(g)' = HasHost(g) /\ host_fd'[g] = host_fd[g]
        /\ host_fd'[f] = fd /\ HasHost(f)'
    BY <1>1, <1>5, <2>4, SyscallFile
  <2>6. host'[fd] = <<>> /\ \A x \in Fds : x # fd => host'[x] = host[x]
    BY <1>2, <1>5 DEF Ran
  <2>7. Owned'
    <3>1. \A g \in Files : HasHost(g) => host_fd[g] \in Fds /\ host_fd[g] # fd
      BY <1>2, <1>5 DEF HInv, Owned, HasHost
    <3>2. \A g \in Files : HasHost(g)' => host'[host_fd'[g]] # Closed
      BY <1>3, <2>1, <2>5, <2>6, <3>1 DEF HInv, Owned
    <3>3. \A x \in Fds : host'[x] # Closed =>
            \E g \in Files : HasHost(g)' /\ host_fd'[g] = x
      BY <1>1, <1>3, <2>5, <2>6 DEF HInv, Owned
    <3>4. \A g, k \in Files :
            HasHost(g)' /\ HasHost(k)' /\ host_fd'[g] = host_fd'[k] => g = k
      BY <2>5, <3>1 DEF HInv, Owned
    <3> QED
      BY <3>2, <3>3, <3>4 DEF Owned
  <2> QED
    BY <2>3, <2>7 DEF HInv
<1>6. ASSUME host_fd' = [host_fd EXCEPT ![f] = None], Ran(p, host, Unwritten)
      PROVE  HInv'
  <2>1. HostTypes' /\ Descriptors'
    BY <1>1, <1>2, <1>4, <1>6, SyscallTypes
  <2>2. /\ \A g \in Files : g # f =>
             HasHost(g)' = HasHost(g) /\ host_fd'[g] = host_fd[g]
        /\ host_fd'[f] = None
    <3>1. PICK x \in Fds \cup {None} : x = None
      OBVIOUS
    <3>2. host_fd' = [host_fd EXCEPT ![f] = x]
      BY <1>6, <3>1
    <3>3. \A g \in Files : g # f =>
            HasHost(g)' = HasHost(g) /\ host_fd'[g] = host_fd[g]
      <4>1. \E h, a : Ran(p, h, a)
        BY <1>6
      <4> QED
        BY <3>2, <4>1, SyscallFile
    <3> QED
      BY <1>1, <1>2, <3>1, <3>2, <3>3
  <2>3. host' = host
    BY <1>6 DEF Ran
  <2>4. HasHost(f)' = HasHost(f)
    BY <1>1, <2>2 DEF HasHost
  <2>5. \A g \in Files : HasHost(g) => host_fd'[g] = host_fd[g]
    BY <1>3, <2>2
  <2>6. Owned'
    BY <2>2, <2>3, <2>4, <2>5, OwnedKept DEF HInv
  <2> QED
    BY <2>1, <2>6 DEF HInv
<1> QED
  BY <1>5, <1>6 DEF HostOpen

(* A close, executed: the descriptor and the file part.                    *)
LEMMA HostCloseHInv ==
  ASSUME HInv, IInv', serving # None, ~serving.done,
         NEW p, p = serving.proc, NEW f, f = call[p].file,
         call[p].cmd = "CLOSE", HostClose(p, f)
  PROVE  HInv'
<1>1. /\ f \in Files /\ fstate[f] = "closing" /\ HasHost(f)
      /\ host_fd[f] # None
  BY ServingFacts DEF StateFor
<1>2. host \in [Fds -> Sessions \cup {Closed}]
      /\ host_fd \in [Files -> Fds \cup {None}]
  BY DEF HInv, HostTypes
<1>3. PICK fd \in Fds : fd = host_fd[f]
  BY <1>1, <1>2
<1>4. /\ host_fd' = [host_fd EXCEPT ![f] = fd]
      /\ Ran(p, [host EXCEPT ![fd] = Closed], Unwritten)
  BY <1>2, <1>3 DEF HostClose
<1>5. Unwritten \in Answers
  BY DEF Unwritten, Err, Answers, Errors, Values
<1>6. [host EXCEPT ![fd] = Closed] \in [Fds -> Sessions \cup {Closed}]
  BY <1>2
<1>7. HostTypes' /\ Descriptors'
  BY <1>3, <1>4, <1>5, <1>6, SyscallTypes
<1>8. /\ \A g \in Files : g # f =>
           HasHost(g)' = HasHost(g) /\ host_fd'[g] = host_fd[g]
      /\ ~HasHost(f)'
  BY <1>1, <1>4, SyscallFile
<1>9. host'[fd] = Closed /\ \A x \in Fds : x # fd => host'[x] = host[x]
  BY <1>2, <1>4 DEF Ran
<1>10. Owned'
  <2>1. \A g \in Files : g # f /\ HasHost(g) => host_fd[g] \in Fds /\ host_fd[g] # fd
    BY <1>1, <1>2, <1>3 DEF HInv, Owned, HasHost
  <2>2. \A g \in Files : HasHost(g)' => host'[host_fd'[g]] # Closed
    BY <1>8, <1>9, <2>1 DEF HInv, Owned
  <2>3. \A x \in Fds : host'[x] # Closed =>
          \E g \in Files : HasHost(g)' /\ host_fd'[g] = x
    BY <1>3, <1>8, <1>9 DEF HInv, Owned
  <2>4. \A g, k \in Files :
          HasHost(g)' /\ HasHost(k)' /\ host_fd'[g] = host_fd'[k] => g = k
    BY <1>8 DEF HInv, Owned
  <2> QED
    BY <2>2, <2>3, <2>4 DEF Owned
<1> QED
  BY <1>7, <1>10 DEF HInv

(* Sessions stay sessions.                                                 *)
LEMMA SessionsKept ==
  ASSUME NEW s \in Sessions, NEW sid \in Sids, NEW p \in Procs
  PROVE  Without(s, sid) \in Sessions /\ With(s, sid, p) \in Sessions
<1>1. PICK S \in SUBSET Sids : s \in [S -> Procs]
  BY DEF Sessions
<1>2. Without(s, sid) \in [S \ {sid} -> Procs]
  BY <1>1 DEF Without
<1>3. With(s, sid, p) \in [S \cup {sid} -> Procs]
  BY <1>1 DEF With
<1> QED
  BY <1>2, <1>3 DEF Sessions

(* An ioctl, executed: the sessions of one open descriptor.                *)
LEMMA HostIoctlRuns ==
  ASSUME HInv, NEW p \in Procs, NEW c \in Requests, NEW fd \in Fds,
         fd = host_fd[c.file], host[fd] \in Sessions, HostIoctl(p, c)
  PROVE  \E s \in Sessions, a \in Answers : Ran(p, [host EXCEPT ![fd] = s], a)
<1>1. host \in [Fds -> Sessions \cup {Closed}] /\ answer[p] \in Answers
  BY DEF HInv, HostTypes
<1>2. host = [host EXCEPT ![fd] = host[fd]]
  BY <1>1
<1>3. CASE c.cmd = "CIOCGSESSION" /\ CreateSession(p, fd)
  <2>1. PICK sid \in Sids : Ran(p, [host EXCEPT ![fd] = With(host[fd], sid, p)], Ok(sid))
    BY <1>3 DEF CreateSession
  <2>2. Ok(sid) \in Answers /\ With(host[fd], sid, p) \in Sessions
    BY SessionsKept DEF Ok, Answers, Values
  <2> QED
    BY <2>1, <2>2
<1>4. CASE c.cmd = "CIOCFSESSION" /\ FinishSession(p, fd, c.arg)
  <2>1. c.arg \in Sids
    BY <1>4 DEF Requests
  <2>2. Ran(p, [host EXCEPT ![fd] = Without(host[fd], c.arg)], Ok(None))
    BY <1>4 DEF FinishSession
  <2>3. Ok(None) \in Answers /\ Without(host[fd], c.arg) \in Sessions
    BY <2>1, SessionsKept DEF Ok, Answers, Values
  <2> QED
    BY <2>2, <2>3
<1>5. CASE c.cmd = "CIOCCRYPT" /\ CryptoRun(p, fd, c.arg)
  <2>1. /\ c.arg \in DOMAIN host[fd]
        /\ Ran(p, host, Ok(<<host[fd][c.arg], p>>))
    BY <1>5 DEF CryptoRun, Cipher
  <2>2. host[fd][c.arg] \in Procs
    BY <2>1 DEF Sessions
  <2>3. Ok(<<host[fd][c.arg], p>>) \in Answers
    BY <2>2 DEF Ok, Answers, Values
  <2> QED
    BY <1>2, <2>1, <2>3
<1>6. CASE Ran(p, host, Err("EPERM"))
  <2>1. Err("EPERM") \in Answers
    BY DEF Err, Answers, Errors, Values
  <2> QED
    BY <1>2, <1>6, <2>1
<1>7. CASE Ran(p, host, answer[p])
  BY <1>1, <1>2, <1>7
<1> QED
  BY <1>3, <1>4, <1>5, <1>6, <1>7 DEF HostIoctl

LEMMA HostIoctlHInv ==
  ASSUME HInv, IInv', serving # None, ~serving.done,
         NEW p, p = serving.proc, NEW c, c = call[p], NEW f, f = c.file,
         c.cmd \notin {"OPEN", "CLOSE"}, HostIoctl(p, c)
  PROVE  HInv'
<1>1. /\ p \in Procs /\ c \in Requests /\ f \in Files /\ fstate[f] = "open"
      /\ HasHost(f) /\ host_fd[f] # None
  BY ServingFacts DEF StateFor
<1>2. host \in [Fds -> Sessions \cup {Closed}]
      /\ host_fd \in [Files -> Fds \cup {None}]
  BY DEF HInv, HostTypes
<1>3. PICK fd \in Fds : fd = host_fd[f]
  BY <1>1, <1>2
<1>4. host[fd] \in Sessions
  BY <1>1, <1>2, <1>3 DEF HInv, Owned
<1>5. PICK s \in Sessions, a \in Answers : Ran(p, [host EXCEPT ![fd] = s], a)
  BY <1>1, <1>3, <1>4, HostIoctlRuns
<1>6. host_fd' = [host_fd EXCEPT ![f] = fd]
  BY <1>2, <1>3 DEF HostIoctl
<1>7. [host EXCEPT ![fd] = s] \in [Fds -> Sessions \cup {Closed}]
  BY <1>2
<1>8. HostTypes' /\ Descriptors'
  BY <1>3, <1>5, <1>6, <1>7, SyscallTypes
<1>9. fd # None /\ s # Closed
  BY VirtioAssumption DEF Closed
<1>10. \A g \in Files : (HasHost(g)' <=> HasHost(g)) /\ host_fd'[g] = host_fd[g]
  <2>1. \A g \in Files : g # f =>
          HasHost(g)' = HasHost(g) /\ host_fd'[g] = host_fd[g]
    BY <1>5, <1>6, SyscallFile
  <2>2. HasHost(f)' /\ host_fd'[f] = fd
    BY <1>1, <1>5, <1>6, <1>9, SyscallFile
  <2> QED
    BY <1>1, <1>3, <2>1, <2>2
<1>11. host'[fd] = s /\ \A x \in Fds : x # fd => host'[x] = host[x]
  BY <1>2, <1>5 DEF Ran
<1>12. Owned'
  <2>1. \A x \in Fds : host'[x] # Closed <=> host[x] # Closed
    BY <1>4, <1>9, <1>11, VirtioAssumption DEF Closed
  <2>2. \A g \in Files : HasHost(g) => host_fd[g] \in Fds
    BY <1>2 DEF HasHost
  <2> QED
    BY <1>10, <2>1, <2>2 DEF HInv, Owned
<1> QED
  BY <1>8, <1>12 DEF HInv

LEMMA SyscallHInv == ASSUME HInv, IInv', Syscall PROVE HInv'
<1> DEFINE p == serving.proc
           c == call[p]
<1>1. serving # None /\ ~serving.done
  BY DEF Syscall
<1>2. \/ c.cmd = "OPEN" /\ HostOpen(p, c.file)
      \/ c.cmd = "CLOSE" /\ HostClose(p, c.file)
      \/ c.cmd \notin {"OPEN", "CLOSE"} /\ HostIoctl(p, c)
  BY DEF Syscall
<1> QED
  BY <1>1, <1>2, HostOpenHInv, HostCloseHInv, HostIoctlHInv

-----------------------------------------------------------------------------
LEMMA NextHInv == HInv /\ [Next]_vars => HInv'
<1> SUFFICES ASSUME HInv, [Next]_vars PROVE HInv'
  OBVIOUS
<1>1. IInv'
  BY NextIInv DEF HInv
<1>2. ASSUME NEW p \in Procs, Calls(p) \/ Lock(p) \/ Driver(p) PROVE HInv'
  BY <1>1, <1>2, CallsHInv, LockedHInv, FinishHInv DEF Driver
<1>3. CASE Backend
  BY <1>1, <1>3, QueueHInv, SyscallHInv DEF Backend
<1>4. CASE Crash \/ Down \/ UNCHANGED vars
  BY <1>1, <1>4, QueueHInv
<1> QED
  BY <1>2, <1>3, <1>4 DEF Next

THEOREM HostInvariance == Spec => []HInv
<1> QED
  BY InitHInv, NextHInv, PTL DEF Spec

(* No call of the guest driver leaves the state untyped: whatever is       *)
(* refused, fails or races, an open file has its device and its descriptor.*)
THEOREM TypeCorrect == Spec => []TypeOK
<1>1. HInv => TypeOK
  <2> SUFFICES ASSUME HInv PROVE TypeOK
    OBVIOUS
  <2>1. \A f \in Files : fstate[f] # "free" => dev[f] # None
    BY VirtioAssumption DEF HInv, IInv, FilesHeld
  <2> QED
    BY <2>1 DEF HInv, IInv, Shape, HostTypes, Descriptors, TypeOK
<1> QED
  BY <1>1, HostInvariance, PTL

(* The descriptors QEMU has of /dev/crypto are those of the guest's files, *)
(* one each: crypto_chrdev_release gives back the one its open got, and a  *)
(* failed open keeps none.                                                 *)
THEOREM HostFilesCorrespond == Spec => []HostFilesOwned
<1>1. HInv => HostFilesOwned
  <2> SUFFICES ASSUME HInv PROVE HostFilesOwned
    OBVIOUS
  <2>1. \A f \in Files : HasHost(f) => host_fd[f] \in Fds
    BY DEF HInv, HostTypes, HasHost
  <2>2. {fd \in Fds : host[fd] # Closed} =
          {host_fd[f] : f \in {g \in Files : HasHost(g)}}
    BY <2>1 DEF HInv, Owned
  <2> QED
    BY <2>2 DEF HInv, Owned, HostFilesOwned
<1> QED
  BY <1>1, HostInvariance, PTL

-----------------------------------------------------------------------------
(* The refinement.  What a call will return is not in its process's        *)
(* buffers before the host has executed it.                                *)
Unanswered == \A p \in Procs : p \notin served => answer[p] = Unwritten

LEMMA InitUnanswered == Init => Unanswered
BY DEF Init, Unanswered

LEMMA NextUnanswered == HInv /\ Unanswered /\ [Next]_vars => Unanswered'
<1> SUFFICES ASSUME HInv, Unanswered, [Next]_vars PROVE Unanswered'
  OBVIOUS
<1>1. answer \in [Procs -> Answers]
  BY DEF HInv, HostTypes
<1>2. ASSUME UNCHANGED <<answer, served>> PROVE Unanswered'
  BY <1>2 DEF Unanswered
<1>3. ASSUME NEW p \in Procs, NEW c, Begin(p, c) PROVE Unanswered'
  BY <1>1, <1>3 DEF Begin, Unanswered
<1>4. ASSUME NEW p \in Procs, Done(p) PROVE Unanswered'
  BY <1>1, <1>4 DEF Done, Unanswered
<1>5. ASSUME NEW p \in Procs, Calls(p) PROVE Unanswered'
  <2>1. (\E e : Refuse(p, e)) \/ \E c : Begin(p, c)
    BY <1>5 DEF Calls, Open, Release, Ioctl
  <2> QED
    BY <2>1, <1>2, <1>3 DEF Refuse, hostVars
<1>6. ASSUME NEW p \in Procs, Lock(p) \/ Driver(p) PROVE Unanswered'
  BY <1>2, <1>4, <1>6
     DEF Driver, Lock, AddSgs, Kick, GetBuf, FinishOpen, FinishRelease,
         FinishIoctl, hostVars
<1>7. ASSUME Syscall PROVE Unanswered'
  <2> DEFINE p == serving.proc
             c == call[p]
  <2>1. \E h, a : Ran(p, h, a)
    <3>1. HostOpen(p, c.file) \/ HostClose(p, c.file) \/ HostIoctl(p, c)
      BY <1>7 DEF Syscall
    <3>2. CASE HostOpen(p, c.file)
      BY <3>2 DEF HostOpen
    <3>3. CASE HostClose(p, c.file)
      BY <3>3 DEF HostClose
    <3>4. CASE HostIoctl(p, c)
      BY <3>4 DEF HostIoctl, CreateSession, FinishSession, CryptoRun
    <3> QED
      BY <3>1, <3>2, <3>3, <3>4
  <2> QED
    BY <1>1, <2>1 DEF Ran, Unanswered
<1>8. CASE (\E d \in Devices : Pop(d)) \/ Push \/ Crash \/ Down \/ UNCHANGED vars
  BY <1>2, <1>8 DEF Pop, Push, Crash, Down, vars, hostVars
<1> QED
  BY <1>5, <1>6, <1>7, <1>8 DEF Next, Backend

-----------------------------------------------------------------------------
LEMMA InitRefines == Init => Service!ServiceInit
<1> SUFFICES ASSUME Init PROVE Service!ServiceInit
  OBVIOUS
<1>1. Outcome = [p \in Procs |-> None]
  BY DEF Init, Outcome
<1>2. Table = [f \in Files |-> Closed]
  BY DEF Init, Table, HasHost
<1> QED
  BY <1>1, <1>2 DEF Init, Service!ServiceInit, Service!Closed, Closed

(* Steps of the guest and of the queue that the programs do not see.       *)
LEMMA StutterStep ==
  ASSUME UNCHANGED <<call, host_fd, served, host, answer, ret, up>>,
         NEW F, F = Files, \A f \in F : HasHost(f)' = HasHost(f)
  PROVE  UNCHANGED Service!serviceVars
<1>1. Outcome' = Outcome
  BY DEF Outcome, Result
<1>2. Table' = Table
  BY DEF Table
<1> QED
  BY <1>1, <1>2 DEF Service!serviceVars

(* Who else has a call on a file that is being opened: nobody.             *)
LEMMA OpenerAlone ==
  ASSUME HInv, NEW p \in Procs, NEW q \in Procs, p # q,
         pc[p] # "user", pc[q] # "user", call[q].cmd = "OPEN"
  PROVE  call[p].file # call[q].file
<1>1. fstate[call[q].file] = "opening"
  BY DEF HInv, IInv, FilesHeld, StateFor
<1> QED
  BY <1>1 DEF HInv, IInv, FilesHeld

(* The outcomes of the other calls stay.                                   *)
LEMMA OutcomesKept ==
  ASSUME HInv, NEW p \in Procs,
         \A q \in Procs : q # p => call'[q] = call[q] /\ answer'[q] = answer[q],
         \A q \in Procs : q # p => (q \in served' <=> q \in served),
         \A q \in Procs : q # p /\ pc[q] # "user" /\ call[q].cmd = "OPEN"
           => host_fd'[call[q].file] = host_fd[call[q].file]
  PROVE  \A q \in Procs : q # p => Outcome'[q] = Outcome[q]
<1> SUFFICES ASSUME NEW q \in Procs, q # p PROVE Outcome'[q] = Outcome[q]
  OBVIOUS
<1>1. CASE q \notin served
  BY <1>1 DEF Outcome
<1>2. CASE q \in served
  <2>1. pc[q] # "user"
    BY <1>2 DEF HInv, IInv, ServedWhen
  <2> QED
    BY <1>2, <2>1 DEF Outcome, Result
<1> QED
  BY <1>1, <1>2

LEMMA BeginRefines ==
  ASSUME HInv, NEW p \in Procs, NEW c \in Requests, Begin(p, c),
         UNCHANGED host_fd, \A f \in Files : HasHost(f)' = HasHost(f),
         \/ c.cmd = "OPEN" /\ fstate[c.file] = "free"
         \/ c.cmd = "CLOSE" /\ fstate[c.file] = "open" /\ Callers(c.file) = {}
         \/ c.cmd \notin {"OPEN", "CLOSE"} /\ fstate[c.file] = "open"
  PROVE  Service!Begin(p, c)
<1>1. /\ up /\ pc[p] = "user" /\ call' = [call EXCEPT ![p] = c]
      /\ ret' = [ret EXCEPT ![p] = None] /\ UNCHANGED <<host, served, up>>
      /\ \A q \in Procs : q # p => call'[q] = call[q] /\ answer'[q] = answer[q]
  BY DEF Begin, Move, Return, HInv, HostTypes, IInv, Shape
<1>2. c.file \in Files /\ call[p] = None /\ p \notin served
  BY <1>1, RequestShape DEF HInv, HostTypes, IInv, ServedWhen
<1>3. Outcome' = Outcome
  <2>1. \A q \in Procs : q # p => Outcome'[q] = Outcome[q]
    BY <1>1, OutcomesKept
  <2>2. Outcome'[p] = Outcome[p]
    BY <1>1, <1>2 DEF Outcome
  <2> QED
    BY <2>1, <2>2 DEF Outcome
<1>4. Table' = Table
  BY <1>1 DEF Table
<1>5. Service!Callers(c.file) = Callers(c.file)
  BY DEF Service!Callers, Callers, HInv, HostTypes
<1>6. ASSUME fstate[c.file] = "free"
      PROVE  Table[c.file] = Closed /\ Callers(c.file) = {}
  <2>1. host_fd[c.file] = None
    BY <1>2, <1>6 DEF HInv, Descriptors
  <2> QED
    BY <1>2, <1>6, <2>1, FreeFile DEF Table, HasHost
<1>7. ASSUME fstate[c.file] = "open"
      PROVE  Table[c.file] # Closed /\ ~Service!IsClosing(c.file)
  <2>1. HasHost(c.file)
    BY <1>2, <1>7 DEF HInv, Descriptors, HasHost
  <2>2. Table[c.file] # Closed
    BY <1>2, <2>1 DEF Table, HInv, Owned
  <2>3. \A q \in Callers(c.file) : call[q].cmd # "CLOSE"
    BY <1>7 DEF Callers, HInv, IInv, FilesHeld, StateFor
  <2> QED
    BY <1>5, <2>2, <2>3 DEF Service!IsClosing
<1> QED
  BY <1>1, <1>2, <1>3, <1>4, <1>5, <1>6, <1>7
     DEF Service!Begin, Service!Closed, Closed

LEMMA RefuseRefines ==
  ASSUME HInv, NEW p \in Procs, NEW e \in Errors, Refuse(p, e)
  PROVE  Service!Refuse(p)
<1>1. /\ up /\ pc[p] = "user" /\ ret' = [ret EXCEPT ![p] = Err(e)]
      /\ UNCHANGED <<pc, call, fstate, host_fd, host, answer, served, up>>
  BY DEF Refuse, Return, procVars, fileVars, hostVars
<1>2. call[p] = None
  BY <1>1 DEF HInv, HostTypes
<1>3. Outcome' = Outcome /\ Table' = Table
  BY <1>1 DEF Outcome, Result, Table, HasHost, Callers
<1>4. e \in Service!Errors /\ Err(e) = Service!Err(e)
  BY DEF Errors, Service!Errors, Err, Service!Err
<1> QED
  BY <1>1, <1>2, <1>3, <1>4 DEF Service!Refuse

LEMMA CallsRefine ==
  ASSUME HInv, NEW p \in Procs, Calls(p)
  PROVE  Service!Refuse(p) \/ \E c \in Service!Requests : Service!Begin(p, c)
<1>1. Service!Requests = Requests
  BY DEF Service!Requests, Requests
<1>2. fstate \in [Files -> {"free", "opening", "open", "closing"}]
  BY DEF HInv, IInv, Shape
<1>3. ASSUME NEW f \in Files, NEW minor \in Minors, Open(p, f, minor)
      PROVE  Service!Refuse(p) \/ \E c \in Requests : Service!Begin(p, c)
  <2> DEFINE c == [cmd |-> "OPEN", file |-> f, arg |-> None]
  <2>1. CASE /\ fstate[f] = "free" /\ Callers(f) = {} /\ host_fd' = host_fd
             /\ fstate' = [fstate EXCEPT ![f] = "opening"] /\ Begin(p, c)
    <3>1. c \in Requests /\ c.file = f /\ c.cmd = "OPEN"
      BY DEF Requests
    <3> HIDE DEF c
    <3>2. \A g \in Files : g # f => fstate'[g] = fstate[g]
      BY <1>2, <2>1
    <3>3. \A g \in Files : HasHost(g)' = HasHost(g)
      BY <2>1, <3>1, <3>2, BeginHasHost
    <3> QED
      BY <2>1, <3>1, <3>3, BeginRefines
  <2>2. CASE Refuse(p, "ENODEV")
    BY <2>2, RefuseRefines DEF Errors
  <2> QED
    BY <1>3, <2>1, <2>2, OpenBegins
<1>4. ASSUME NEW f \in Files, Release(p, f)
      PROVE  \E c \in Requests : Service!Begin(p, c)
  <2> DEFINE c == [cmd |-> "CLOSE", file |-> f, arg |-> None]
  <2>1. /\ fstate[f] = "open" /\ Callers(f) = {} /\ host_fd' = host_fd
        /\ fstate' = [fstate EXCEPT ![f] = "closing"] /\ Begin(p, c)
    BY <1>4 DEF Release
  <2>2. c \in Requests /\ c.file = f /\ c.cmd = "CLOSE"
    BY DEF Requests
  <2> HIDE DEF c
  <2>3. \A g \in Files : g # f => fstate'[g] = fstate[g]
    BY <1>2, <2>1
  <2>4. \A g \in Files : HasHost(g)' = HasHost(g)
    BY <2>1, <2>2, <2>3, BeginHasHost
  <2> QED
    BY <2>1, <2>2, <2>4, BeginRefines
<1>5. ASSUME NEW c \in Requests, Ioctl(p, c)
      PROVE  Service!Refuse(p) \/ Service!Begin(p, c)
  <2>1. CASE Begin(p, c) /\ UNCHANGED fileVars
    <3>1. /\ fstate' = fstate /\ host_fd' = host_fd /\ fstate[c.file] = "open"
          /\ c.cmd \notin {"OPEN", "CLOSE"}
      BY <1>5, <2>1 DEF fileVars, Ioctl
    <3>2. \A g \in Files : HasHost(g)' = HasHost(g)
      BY <2>1, <3>1, BeginHasHost
    <3> QED
      BY <2>1, <3>1, <3>2, BeginRefines
  <2>2. CASE Refuse(p, "EFAULT")
    BY <2>2, RefuseRefines DEF Errors
  <2> QED
    BY <1>5, <2>1, <2>2 DEF Ioctl
<1> QED
  BY <1>1, <1>3, <1>4, <1>5 DEF Calls

(* A call that returns: with the outcome it had, or EFAULT.                *)
LEMMA FinishReturns ==
  ASSUME HInv, NEW p \in Procs,
         FinishOpen(p) \/ FinishRelease(p) \/ FinishIoctl(p)
  PROVE  \/ ret' = [ret EXCEPT ![p] = Outcome[p]]
         \/ /\ call[p].cmd \notin {"OPEN", "CLOSE", "OTHER"}
            /\ ret' = [ret EXCEPT ![p] = Err("EFAULT")]
<1>1. Outcome[p] = Result(p)
  BY FinishFrame DEF Outcome
<1>2. CASE FinishOpen(p)
  BY <1>1, <1>2 DEF FinishOpen, Result, Return
<1>3. CASE FinishRelease(p)
  BY <1>1, <1>3 DEF FinishRelease, Result, Return
<1>4. CASE FinishIoctl(p)
  BY <1>1, <1>4 DEF FinishIoctl, Result, Return
<1> QED
  BY <1>2, <1>3, <1>4

LEMMA FinishRefines ==
  ASSUME HInv, NEW p \in Procs,
         FinishOpen(p) \/ FinishRelease(p) \/ FinishIoctl(p)
  PROVE  Service!End(p)
<1>1. PICK f \in Files : f = call[p].file
  BY FinishFrame
<1>2. /\ pc[p] # "user" /\ p \in served /\ UNCHANGED <<host, up>>
      /\ \A q \in Procs : q # p => pc'[q] = pc[q] /\ call'[q] = call[q]
      /\ served' = served \ {p}
      /\ answer' = [answer EXCEPT ![p] = Unwritten]
  BY FinishFrame
<1>3. up /\ call' = [call EXCEPT ![p] = None]
  BY DEF FinishOpen, FinishRelease, FinishIoctl, Done, Move
<1>4. \A g \in Files : g # f => host_fd'[g] = host_fd[g]
  BY <1>1, FinishFile
<1>5. Outcome' = [Outcome EXCEPT ![p] = None]
  <2>1. \A q \in Procs : q # p => Outcome'[q] = Outcome[q]
    <3>1. \A q \in Procs : q # p /\ pc[q] # "user" /\ call[q].cmd = "OPEN"
            => host_fd'[call[q].file] = host_fd[call[q].file]
      BY <1>1, <1>2, <1>4, OpenerAlone, DeviceKept DEF HInv
    <3>2. \A q \in Procs : q # p => answer'[q] = answer[q]
      BY <1>2 DEF HInv, HostTypes
    <3> QED
      BY <1>2, <3>1, <3>2, OutcomesKept
  <2>2. Outcome'[p] = None
    BY <1>2 DEF Outcome
  <2> QED
    BY <2>1, <2>2 DEF Outcome
<1>6. Table' = Table
  <2>1. ASSUME NEW g \in Files, HasHost(g) PROVE host_fd'[g] = host_fd[g]
    <3>1. CASE g = f
      <4>1. fstate[f] # "closing"
        BY <1>1, <1>2, <2>1, <3>1 DEF HasHost, Callers
      <4>2. host_fd[f] # None
        BY <2>1, <3>1 DEF HasHost
      <4> QED
        BY <1>1, <3>1, <4>1, <4>2, FinishFile
    <3>2. CASE g # f
      BY <1>4, <3>2
    <3> QED
      BY <3>1, <3>2
  <2>2. \A g \in Files : HasHost(g)' = HasHost(g)
    BY FinishHasHost
  <2> QED
    BY <1>2, <2>1, <2>2 DEF Table
<1>7. Outcome[p] # None
  <2>1. Result(p) # None
    <3>1. answer[p] # None
      BY VirtioAssumption DEF HInv, HostTypes
    <3>2. Ok(None) \in Answers /\ Err("ENODEV") \in Answers
      BY DEF Ok, Err, Answers, Values, Errors
    <3> QED
      BY <3>1, <3>2, VirtioAssumption DEF Result
  <2> QED
    BY <1>2, <2>1 DEF Outcome
<1>8. Err("EFAULT") = Service!Err("EFAULT")
  BY DEF Err, Service!Err
<1> QED
  BY <1>2, <1>3, <1>5, <1>6, <1>7, <1>8, FinishReturns DEF Service!End

-----------------------------------------------------------------------------
(* A request, executed, changes the outcome of its call and the sessions   *)
(* of its file, if the sessions h leave those of the other files alone.    *)
Gives(f, x) == host_fd' = [host_fd EXCEPT ![f] = x]
Spares(h, f) ==
  \A g \in Files : g # f /\ HasHost(g) => h[host_fd[g]] = host[host_fd[g]]

LEMMA RanYields ==
  ASSUME HInv, serving # None, ~serving.done,
         NEW p, p = serving.proc, NEW f, f = call[p].file,
         NEW h, NEW a, Ran(p, h, a),
         NEW x \in Fds \cup {None}, Gives(f, x), Spares(h, f),
         NEW o, o = Result(p)',
         NEW t, t = (IF HasHost(f) THEN host[host_fd[f]] ELSE Closed)'
  PROVE  Service!Yields(p, o, f, t)
<1>1. /\ UNCHANGED <<pc, call, fstate>> /\ served' = served \cup {p}
      /\ host' = h /\ answer' = [answer EXCEPT ![p] = a]
  BY DEF Ran, procVars
<1>2. p \in Procs /\ f \in Files /\ pc[p] # "user"
  BY ServingFacts
<1>3. \A g \in Files : g # f => HasHost(g)' = HasHost(g) /\ host_fd'[g] = host_fd[g]
  BY SyscallFile DEF Gives
<1>4. Outcome' = [Outcome EXCEPT ![p] = o]
  <2>1. \A q \in Procs : q # p => Outcome'[q] = Outcome[q]
    <3>1. \A q \in Procs : q # p /\ pc[q] # "user" /\ call[q].cmd = "OPEN"
            => host_fd'[call[q].file] = host_fd[call[q].file]
      BY <1>2, <1>3, OpenerAlone, DeviceKept DEF HInv
    <3>2. \A q \in Procs : q # p => answer'[q] = answer[q] /\ call'[q] = call[q]
      BY <1>1 DEF HInv, HostTypes
    <3>3. \A q \in Procs : q # p => (q \in served' <=> q \in served)
      BY <1>1
    <3> QED
      BY <1>2, <3>1, <3>2, <3>3, OutcomesKept
  <2>2. Outcome'[p] = o
    BY <1>1, <1>2 DEF Outcome
  <2> QED
    BY <2>1, <2>2 DEF Outcome
<1>5. Table' = [Table EXCEPT ![f] = t]
  <2>1. \A g \in Files : g # f => Table'[g] = Table[g]
    BY <1>1, <1>3 DEF Table, Spares
  <2>2. Table'[f] = t
    BY <1>2 DEF Table
  <2> QED
    BY <2>1, <2>2 DEF Table
<1> QED
  BY <1>4, <1>5 DEF Service!Yields

LEMMA OpenYields ==
  ASSUME HInv, serving # None, ~serving.done,
         NEW p, p = serving.proc, NEW f, f = call[p].file,
         call[p].cmd = "OPEN", HostOpen(p, f)
  PROVE  \/ Service!Yields(p, Ok(None), f, <<>>)
         \/ Service!Yields(p, Err("ENODEV"), f, Closed)
<1>1. f \in Files /\ p \in Procs /\ fstate[f] = "opening"
  BY ServingFacts DEF StateFor
<1>2. host \in [Fds -> Sessions \cup {Closed}]
      /\ host_fd \in [Files -> Fds \cup {None}]
  BY DEF HInv, HostTypes
<1>3. ASSUME NEW fd \in Fds, host[fd] = Closed,
             host_fd' = [host_fd EXCEPT ![f] = fd],
             Ran(p, [host EXCEPT ![fd] = <<>>], Unwritten)
      PROVE  Service!Yields(p, Ok(None), f, <<>>)
  <2>1. fd # None
    BY VirtioAssumption
  <2>2. HasHost(f)' /\ host_fd'[f] = fd
    BY <1>1, <1>3, <2>1, SyscallFile
  <2>3. host'[fd] = <<>> /\ call' = call
    BY <1>2, <1>3 DEF Ran, procVars
  <2>4. Result(p)' = Ok(None)
    BY <2>1, <2>2, <2>3 DEF Result
  <2>5. \A g \in Files : HasHost(g) => host_fd[g] # fd
    BY <1>3 DEF HInv, Owned
  <2>6. Spares([host EXCEPT ![fd] = <<>>], f) /\ Gives(f, fd)
    BY <1>2, <1>3, <2>5 DEF HasHost, Spares, Gives
  <2>7. (IF HasHost(f) THEN host[host_fd[f]] ELSE Closed)' = <<>>
    BY <2>2, <2>3
  <2> QED
    BY <1>1, <1>3, <2>4, <2>6, <2>7, RanYields
<1>4. ASSUME host_fd' = [host_fd EXCEPT ![f] = None], Ran(p, host, Unwritten)
      PROVE  Service!Yields(p, Err("ENODEV"), f, Closed)
  <2>1. PICK x \in Fds \cup {None} : x = None
    OBVIOUS
  <2>2. Gives(f, x)
    BY <1>4, <2>1 DEF Gives
  <2>3. host_fd'[f] = None /\ call' = call
    BY <1>1, <1>2, <1>4 DEF Ran, procVars
  <2>4. Result(p)' = Err("ENODEV")
    BY <2>3 DEF Result
  <2>5. (IF HasHost(f) THEN host[host_fd[f]] ELSE Closed)' = Closed
    BY <2>3 DEF HasHost, Closed
  <2>6. PICK h : h = host /\ Ran(p, h, Unwritten)
    BY <1>4
  <2>7. Spares(h, f)
    BY <2>6 DEF Spares
  <2> QED
    BY <2>2, <2>4, <2>5, <2>6, <2>7, RanYields
<1> QED
  BY <1>3, <1>4 DEF HostOpen

LEMMA CloseYields ==
  ASSUME HInv, serving # None, ~serving.done,
         NEW p, p = serving.proc, NEW f, f = call[p].file,
         call[p].cmd = "CLOSE", HostClose(p, f)
  PROVE  Service!Yields(p, Ok(None), f, Closed)
<1>1. /\ f \in Files /\ p \in Procs /\ fstate[f] = "closing" /\ HasHost(f)
      /\ host_fd[f] # None
  BY ServingFacts DEF StateFor
<1>2. host \in [Fds -> Sessions \cup {Closed}]
      /\ host_fd \in [Files -> Fds \cup {None}]
  BY DEF HInv, HostTypes
<1>3. PICK fd \in Fds : fd = host_fd[f]
  BY <1>1, <1>2
<1>4. /\ host_fd' = [host_fd EXCEPT ![f] = fd]
      /\ Ran(p, [host EXCEPT ![fd] = Closed], Unwritten)
  BY <1>2, <1>3 DEF HostClose
<1>5. ~HasHost(f)' /\ call' = call
  BY <1>1, <1>4, SyscallFile DEF Ran, procVars
<1>6. Result(p)' = Ok(None)
  BY <1>5 DEF Result
<1>7. Spares([host EXCEPT ![fd] = Closed], f) /\ Gives(f, fd)
  BY <1>1, <1>2, <1>3, <1>4 DEF HInv, Owned, HasHost, Spares, Gives
<1>8. (IF HasHost(f) THEN host[host_fd[f]] ELSE Closed)' = Closed
  BY <1>5
<1> QED
  BY <1>4, <1>6, <1>7, <1>8, RanYields

(* The sessions of an open file are those of its descriptor.               *)
LEMMA IoctlYields ==
  ASSUME HInv, serving # None, ~serving.done,
         NEW p, p = serving.proc, NEW f, f = call[p].file,
         call[p].cmd \notin {"OPEN", "CLOSE"},
         NEW fd \in Fds, fd = host_fd[f], NEW s, NEW a,
         Ran(p, [host EXCEPT ![fd] = s], a),
         host_fd' = [host_fd EXCEPT ![f] = fd]
  PROVE  Service!Yields(p, a, f, s)
<1>1. /\ f \in Files /\ p \in Procs /\ fstate[f] = "open" /\ HasHost(f)
      /\ host_fd[f] # None
  BY ServingFacts DEF StateFor
<1>2. host \in [Fds -> Sessions \cup {Closed}] /\ answer \in [Procs -> Answers]
      /\ host_fd \in [Files -> Fds \cup {None}]
  BY DEF HInv, HostTypes
<1>4. HasHost(f)' /\ host'[host_fd'[f]] = s
  BY <1>1, <1>2, SyscallFile DEF Ran
<1>5. Result(p)' = a
  BY <1>1, <1>2 DEF Result, Ran, procVars
<1>6. Spares([host EXCEPT ![fd] = s], f) /\ Gives(f, fd)
  BY <1>1, <1>2 DEF HInv, Owned, HasHost, Spares, Gives
<1>7. (IF HasHost(f) THEN host[host_fd[f]] ELSE Closed)' = s
  BY <1>4
<1> QED
  BY <1>5, <1>6, <1>7, RanYields

LEMMA IoctlEffect ==
  ASSUME HInv, Unanswered, serving # None, ~serving.done,
         NEW p, p = serving.proc, NEW c, c = call[p], NEW f, f = c.file,
         c.cmd \notin {"OPEN", "CLOSE"}, HostIoctl(p, c),
         NEW s, s = Table[f]
  PROVE  \/ /\ c.cmd = "CIOCGSESSION"
            /\ \E sid \in Sids \ DOMAIN s :
                 Service!Yields(p, Ok(sid), f, With(s, sid, p))
         \/ /\ c.cmd = "CIOCFSESSION"
            /\ Service!Yields(p, Ok(None), f, Without(s, c.arg))
         \/ /\ c.cmd = "CIOCCRYPT" /\ c.arg \in DOMAIN s
            /\ Service!Yields(p, Ok(Cipher(s[c.arg], p)), f, s)
         \/ /\ c.cmd \in {"CIOCGSESSION", "CIOCCRYPT", "OTHER"}
            /\ Service!Yields(p, Err("EPERM"), f, s)
<1>1. /\ f \in Files /\ p \in Procs /\ HasHost(f) /\ host_fd[f] # None
      /\ p \notin served
  BY ServingFacts
<1>2. host \in [Fds -> Sessions \cup {Closed}]
      /\ host_fd \in [Files -> Fds \cup {None}]
  BY DEF HInv, HostTypes
<1>3. PICK fd \in Fds : fd = host_fd[f]
  BY <1>1, <1>2
<1>4. s = host[fd] /\ host = [host EXCEPT ![fd] = s]
  BY <1>1, <1>2, <1>3 DEF Table
<1>5. host_fd' = [host_fd EXCEPT ![f] = fd]
  BY <1>2, <1>3 DEF HostIoctl
<1>6. ASSUME NEW t, NEW a, Ran(p, [host EXCEPT ![fd] = t], a)
      PROVE  Service!Yields(p, a, f, t)
  BY <1>3, <1>5, <1>6, IoctlYields
<1>7. CASE c.cmd = "CIOCGSESSION" /\ CreateSession(p, fd)
  BY <1>4, <1>6, <1>7 DEF CreateSession
<1>8. CASE c.cmd = "CIOCFSESSION" /\ FinishSession(p, fd, c.arg)
  BY <1>4, <1>6, <1>8 DEF FinishSession
<1>9. CASE c.cmd = "CIOCCRYPT" /\ CryptoRun(p, fd, c.arg)
  BY <1>4, <1>6, <1>9 DEF CryptoRun
<1>10. CASE c.cmd \in {"CIOCGSESSION", "CIOCCRYPT"} /\ Ran(p, host, Err("EPERM"))
  BY <1>4, <1>6, <1>10
<1>11. CASE c.cmd = "OTHER" /\ Ran(p, host, answer[p])
  BY <1>1, <1>4, <1>6, <1>11 DEF Unanswered, Unwritten
<1> QED
  BY <1>3, <1>7, <1>8, <1>9, <1>10, <1>11 DEF HostIoctl

LEMMA SyscallRefines ==
  ASSUME HInv, Unanswered, Syscall PROVE \E p \in Procs : Service!Effect(p)
<1>1. serving # None /\ ~serving.done /\ up
  BY DEF Syscall
<1>2. PICK p : p = serving.proc
  OBVIOUS
<1>3. PICK c : c = call[p]
  OBVIOUS
<1>4. p \in Procs /\ c # None /\ p \notin served
  BY <1>1, <1>2, <1>3, ServingFacts
<1>5. UNCHANGED <<call, ret, up>>
  <2>1. \E h, a : Ran(p, h, a)
    <3>1. HostOpen(p, c.file) \/ HostClose(p, c.file) \/ HostIoctl(p, c)
      BY <1>2, <1>3 DEF Syscall
    <3>2. CASE HostOpen(p, c.file)
      BY <3>2 DEF HostOpen
    <3>3. CASE HostClose(p, c.file)
      BY <3>3 DEF HostClose
    <3>4. CASE HostIoctl(p, c)
      BY <3>4 DEF HostIoctl, CreateSession, FinishSession, CryptoRun
    <3> QED
      BY <3>1, <3>2, <3>3, <3>4
  <2> QED
    BY <2>1 DEF Ran, procVars
<1>6. Outcome[p] = None
  BY <1>4 DEF Outcome
<1>7. CASE c.cmd = "OPEN" /\ HostOpen(p, c.file)
  <2>1. \/ Service!Yields(p, Ok(None), c.file, <<>>)
        \/ Service!Yields(p, Err("ENODEV"), c.file, Closed)
    BY <1>1, <1>2, <1>3, <1>7, OpenYields
  <2> QED
    BY <1>1, <1>3, <1>4, <1>5, <1>6, <1>7, <2>1
       DEF Service!Effect, Ok, Err, Closed, Service!Ok, Service!Err, Service!Closed
<1>8. CASE c.cmd = "CLOSE" /\ HostClose(p, c.file)
  <2>1. Service!Yields(p, Ok(None), c.file, Closed)
    BY <1>1, <1>2, <1>3, <1>8, CloseYields
  <2> QED
    BY <1>1, <1>3, <1>4, <1>5, <1>6, <1>8, <2>1
       DEF Service!Effect, Ok, Closed, Service!Ok, Service!Closed
<1>9. CASE c.cmd \notin {"OPEN", "CLOSE"} /\ HostIoctl(p, c)
  <2>1. PICK s : s = Table[c.file]
    OBVIOUS
  <2>2. \/ /\ c.cmd = "CIOCGSESSION"
           /\ \E sid \in Sids \ DOMAIN s :
                Service!Yields(p, Ok(sid), c.file, With(s, sid, p))
        \/ /\ c.cmd = "CIOCFSESSION"
           /\ Service!Yields(p, Ok(None), c.file, Without(s, c.arg))
        \/ /\ c.cmd = "CIOCCRYPT" /\ c.arg \in DOMAIN s
           /\ Service!Yields(p, Ok(Cipher(s[c.arg], p)), c.file, s)
        \/ /\ c.cmd \in {"CIOCGSESSION", "CIOCCRYPT", "OTHER"}
           /\ Service!Yields(p, Err("EPERM"), c.file, s)
    BY <1>1, <1>2, <1>3, <1>9, <2>1, IoctlEffect
  <2> QED
    BY <1>1, <1>3, <1>4, <1>5, <1>6, <1>9, <2>1, <2>2
       DEF Service!Effect, Ok, Err, Service!Ok, Service!Err,
           With, Without, Cipher, Service!With, Service!Without, Service!Cipher
<1> QED
  BY <1>2, <1>3, <1>4, <1>7, <1>8, <1>9 DEF Syscall

LEMMA CrashRefines ==
  ASSUME HInv, Crash PROVE Service!Down
<1>1. /\ up /\ up' = FALSE /\ serving # None /\ ~serving.done
      /\ call[serving.proc] # None /\ call[serving.proc].cmd = "OTHER"
      /\ UNCHANGED <<pc, call, fstate, host_fd, host, answer, served, ret>>
  BY DEF Crash, procVars, fileVars, hostVars
<1>2. serving.proc \in Procs
  BY <1>1, ServingFacts
<1>3. Outcome' = Outcome /\ Table' = Table
  BY <1>1 DEF Outcome, Result, Table, HasHost, Callers
<1> QED
  BY <1>1, <1>2, <1>3 DEF Service!Down

LEMMA NextRefines ==
  ASSUME HInv, Unanswered, [Next]_vars
  PROVE  [Service!ServiceNext]_(Service!serviceVars)
<1>1. HInv' /\ IInv'
  BY NextHInv DEF HInv
<1>2. ASSUME NEW p \in Procs, Calls(p) PROVE Service!ServiceNext
  BY <1>2, CallsRefine DEF Service!ServiceNext
<1>3. ASSUME NEW p \in Procs, FinishOpen(p) \/ FinishRelease(p) \/ FinishIoctl(p)
      PROVE  Service!ServiceNext
  BY <1>3, FinishRefines DEF Service!ServiceNext
<1>4. ASSUME NEW p \in Procs, Lock(p) \/ AddSgs(p) \/ Kick(p) \/ GetBuf(p)
      PROVE  UNCHANGED Service!serviceVars
  <2>1. UNCHANGED <<call, host_fd, served, host, answer, ret, up>>
    BY <1>4 DEF Lock, AddSgs, Kick, GetBuf, fileVars, hostVars
  <2>2. \A f \in Files : HasHost(f)' = HasHost(f)
    BY <1>1, <1>4, LockedHInv
  <2> QED
    BY <2>1, <2>2, StutterStep
<1>5. CASE Syscall
  BY <1>5, SyscallRefines DEF Service!ServiceNext
<1>6. CASE Crash
  BY <1>6, CrashRefines DEF Service!ServiceNext
<1>7. CASE (\E d \in Devices : Pop(d)) \/ Push \/ Down \/ UNCHANGED vars
  <2>1. UNCHANGED <<call, host_fd, served, host, answer, ret, up>>
    BY <1>7 DEF Pop, Push, Down, vars, procVars, fileVars, hostVars
  <2>2. \A f \in Files : HasHost(f)' = HasHost(f)
    BY <1>1, <1>7, QueueHInv
  <2> QED
    BY <2>1, <2>2, StutterStep
<1> QED
  BY <1>2, <1>3, <1>4, <1>5, <1>6, <1>7 DEF Next, Driver, Backend

(* The safety part of LocalCryptodev: whatever the processes, the queues   *)
(* and the handler interleave, every step is one the guest's own           *)
(* /dev/crypto could take, or is not seen: each call has one effect, on    *)
(* the sessions of its own file, and returns that effect's answer.         *)
THEOREM DriverImplementsService ==
  Spec => Service!ServiceInit /\ [][Service!ServiceNext]_(Service!serviceVars)
<1>1. Init => HInv /\ Unanswered
  BY InitHInv, InitUnanswered
<1>2. (HInv /\ Unanswered) /\ [Next]_vars => (HInv /\ Unanswered)'
  BY NextHInv, NextUnanswered
<1>3. HInv /\ Unanswered /\ [Next]_vars
        => [Service!ServiceNext]_(Service!serviceVars)
  BY NextRefines
<1> QED
  BY <1>1, <1>2, <1>3, InitRefines, PTL DEF Spec
=============================================================================
