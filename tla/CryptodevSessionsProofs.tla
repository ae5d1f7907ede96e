---------------------- MODULE CryptodevSessionsProofs ----------------------
(* Machine-checked proofs about CryptodevSessions, for every set of        *)
(* threads, sessions and ids.                                              *)
EXTENDS CryptodevSessions, TLAPS

Places == {"idle", "create", "added", "copyout", "finish", "destroy", "find",
           "lock", "using"}

Requests == [cmd : {"CIOCGSESSION", "CIOCFSESSION", "CIOCGSESSINFO", "CIOCCRYPT",
                    "CIOCASYNCCRYPT", "CIOCCPHASH", "crypto_run"},
             sid : Sids \cup {None}, src : Sids \cup {None}]

(* src points to a session only while a hash copy looks for its second.    *)
Types ==
  /\ pc \in [Threads -> Places]
  /\ call \in [Threads -> Requests \cup {None}]
  /\ turn \in [Threads -> {"fill", "src", "last", None}]
  /\ ses \in [Threads -> Structs \cup {None}]
  /\ src \in [Threads -> Structs \cup {None}]
  /\ sid \in [Structs -> Sids \cup {None}]
  /\ sem \in [Structs -> Threads \cup {None}]
  /\ fcr_sem \in Threads \cup {None}
  /\ list \subseteq heap /\ heap \subseteq Structs
  /\ \A t \in Threads :
       /\ pc[t] # "idle" => call[t] \in Requests
       /\ pc[t] \in {"destroy", "lock", "using"} => ses[t] \in Structs
       /\ src[t] # None => pc[t] \in {"find", "lock", "using"} /\ turn[t] = "last"

(* The file is locked by the thread that waits for a session's mutex.      *)
FileHeld ==
  /\ \A t \in Threads : pc[t] \in {"lock", "destroy"} => fcr_sem = t
  /\ fcr_sem # None => pc[fcr_sem] \in {"lock", "destroy"}

(* What it waits for is still in the list, or no longer but not yet freed. *)
Waited ==
  \A t \in Threads : /\ pc[t] = "lock" => ses[t] \in list
                     /\ pc[t] = "destroy" => ses[t] \in heap \ list

SInv == Types /\ FileHeld /\ Waited /\ IdsUnique /\ OneCallAtATime /\ NoUseAfterFree

-----------------------------------------------------------------------------
LEMMA NoneApart ==
  /\ None \notin Threads /\ None \notin Structs /\ None \notin Sids
BY SessionsAssumption

LEMMA InitSInv == Init => SInv
BY NoneApart DEF Init, SInv, Types, Places, FileHeld, Waited, IdsUnique,
                 OneCallAtATime, NoUseAfterFree, InUse

(* Nobody but t moves.                                                     *)
LEMMA ReturnFacts ==
  ASSUME NEW t \in Threads, SInv, Return(t)
  PROVE  /\ pc'[t] = "idle" /\ call'[t] = None /\ turn'[t] = None
         /\ ses'[t] = None /\ src'[t] = None /\ InUse(t)' = {}
         /\ \A u \in Threads : u # t =>
              /\ pc'[u] = pc[u] /\ call'[u] = call[u] /\ turn'[u] = turn[u]
              /\ ses'[u] = ses[u] /\ src'[u] = src[u] /\ InUse(u)' = InUse(u)
         /\ pc' \in [Threads -> Places]
         /\ call' \in [Threads -> Requests \cup {None}]
         /\ turn' \in [Threads -> {"fill", "src", "last", None}]
         /\ ses' \in [Threads -> Structs \cup {None}]
         /\ src' \in [Threads -> Structs \cup {None}]
<1>1. /\ pc' \in [Threads -> Places] /\ pc'[t] = "idle"
      /\ \A u \in Threads : u # t => pc'[u] = pc[u]
  BY DEF SInv, Types, Return, Places
<1>2. /\ call' \in [Threads -> Requests \cup {None}] /\ call'[t] = None
      /\ \A u \in Threads : u # t => call'[u] = call[u]
  BY DEF SInv, Types, Return
<1>3. /\ turn' \in [Threads -> {"fill", "src", "last", None}] /\ turn'[t] = None
      /\ \A u \in Threads : u # t => turn'[u] = turn[u]
  BY DEF SInv, Types, Return
<1>4. /\ ses' \in [Threads -> Structs \cup {None}] /\ ses'[t] = None
      /\ \A u \in Threads : u # t => ses'[u] = ses[u]
  BY DEF SInv, Types, Return
<1>5. /\ src' \in [Threads -> Structs \cup {None}] /\ src'[t] = None
      /\ \A u \in Threads : u # t => src'[u] = src[u]
  BY DEF SInv, Types, Return
<1> QED
  BY <1>1, <1>2, <1>3, <1>4, <1>5 DEF InUse

LEMMA MoveFacts ==
  ASSUME NEW t \in Threads, SInv, NEW from, NEW to \in Places, Move(t, from, to)
  PROVE  /\ pc[t] = from /\ pc'[t] = to /\ pc' \in [Threads -> Places]
         /\ \A u \in Threads : u # t => pc'[u] = pc[u]
BY DEF SInv, Types, Move

(* A thread that uses sessions has their mutexes, so Put gives back those  *)
(* of S that t uses and no other.                                          *)
LEMMA PutFacts ==
  ASSUME NEW t \in Threads, NEW S, SInv, Put(t, S)
  PROVE  /\ sem' \in [Structs -> Threads \cup {None}]
         /\ \A o \in Structs, u \in Threads :
              sem'[o] = u <=> o \in InUse(u) /\ ~(u = t /\ o \in S)
<1>1. sem' = [o \in Structs |-> IF o \in S /\ sem[o] = t THEN None ELSE sem[o]]
  BY DEF Put
<1>2. sem \in [Structs -> Threads \cup {None}]
  BY DEF SInv, Types
<1>3. sem' \in [Structs -> Threads \cup {None}]
  BY <1>1, <1>2
<1>4. ASSUME NEW o \in Structs, NEW u \in Threads
      PROVE  sem'[o] = u <=> o \in InUse(u) /\ ~(u = t /\ o \in S)
  <2>1. sem[o] = u <=> o \in InUse(u)
    BY DEF SInv, OneCallAtATime
  <2>2. sem'[o] = IF o \in S /\ sem[o] = t THEN None ELSE sem[o]
    BY <1>1
  <2> QED
    BY <2>1, <2>2, NoneApart
<1> QED
  BY <1>3, <1>4

(* A call that leaves the lists and mutexes alone keeps the invariant if   *)
(* it neither waits, uses nor holds a source before or after.              *)
LEMMA QuietStep ==
  ASSUME SInv, NEW t \in Threads,
         UNCHANGED <<fcr_sem, list, sid, heap, sem>>,
         pc[t] \notin {"lock", "destroy", "using"},
         pc'[t] \notin {"lock", "destroy", "using"},
         src[t] = None, src'[t] = None,
         \A u \in Threads : u # t =>
           /\ pc'[u] = pc[u] /\ call'[u] = call[u] /\ turn'[u] = turn[u]
           /\ ses'[u] = ses[u] /\ src'[u] = src[u],
         pc' \in [Threads -> Places],
         call' \in [Threads -> Requests \cup {None}],
         turn' \in [Threads -> {"fill", "src", "last", None}],
         ses' \in [Threads -> Structs \cup {None}],
         src' \in [Threads -> Structs \cup {None}],
         pc'[t] # "idle" => call'[t] \in Requests
  PROVE  SInv'
<1>1. Types'
  BY DEF SInv, Types
<1>2. FileHeld' /\ Waited'
  BY NoneApart DEF SInv, Types, FileHeld, Waited
<1>3. IdsUnique'
  BY DEF SInv, IdsUnique
<1>4. \A u \in Threads : InUse(u)' = InUse(u)
  BY DEF InUse
<1>5. OneCallAtATime'
  BY <1>4 DEF SInv, OneCallAtATime
<1>6. NoUseAfterFree'
  BY <1>4 DEF SInv, NoUseAfterFree
<1> QED
  BY <1>1, <1>2, <1>3, <1>5, <1>6 DEF SInv

-----------------------------------------------------------------------------
LEMMA RequestShape ==
  ASSUME NEW t \in Threads, NEW c \in Calls(t)
  PROVE  /\ c \in Requests
         /\ FirstTurn(c) \in {"fill", "src", "last", None}
         /\ FirstStep(c) \in {"create", "finish", "find"}
BY DEF Calls, Requests, FirstTurn, FirstStep

LEMMA BeginSInv == \A t \in Threads : SInv /\ Begin(t) => SInv'
<1> SUFFICES ASSUME NEW t \in Threads, SInv, NEW c \in Calls(t),
                    Move(t, "idle", FirstStep(c)),
                    call' = [call EXCEPT ![t] = c],
                    turn' = [turn EXCEPT ![t] = FirstTurn(c)],
                    UNCHANGED <<ses, src, fcr_sem, list, sid, heap, sem>>
             PROVE  SInv'
  BY DEF Begin
<1>1. FirstStep(c) \in Places
  BY RequestShape DEF Places
<1>2. /\ pc[t] = "idle" /\ pc'[t] = FirstStep(c) /\ pc' \in [Threads -> Places]
      /\ \A u \in Threads : u # t => pc'[u] = pc[u]
  BY <1>1, MoveFacts
<1>3. /\ call' \in [Threads -> Requests \cup {None}] /\ call'[t] \in Requests
      /\ turn' \in [Threads -> {"fill", "src", "last", None}]
      /\ ses' \in [Threads -> Structs \cup {None}]
      /\ src' \in [Threads -> Structs \cup {None}]
  BY RequestShape DEF SInv, Types
<1>4. \A u \in Threads : u # t => /\ call'[u] = call[u] /\ turn'[u] = turn[u]
                                  /\ ses'[u] = ses[u] /\ src'[u] = src[u]
  BY DEF SInv, Types
<1>5. src[t] = None /\ src'[t] = None
  BY <1>2 DEF SInv, Types
<1>6. pc'[t] \notin {"lock", "destroy", "using"}
  BY <1>2, RequestShape
<1> QED
  BY <1>2, <1>3, <1>4, <1>5, <1>6, QuietStep

(* Returns from places where nothing is held.                              *)
LEMMA QuietReturn ==
  ASSUME NEW t \in Threads, SInv, Return(t),
         pc[t] \in {"create", "copyout", "finish"},
         UNCHANGED <<fcr_sem, list, sid, heap, sem>>
  PROVE  SInv'
<1>1. src[t] = None
  BY DEF SInv, Types
<1> QED
  BY <1>1, ReturnFacts, QuietStep

LEMMA ReadIdSInv == \A t \in Threads : SInv /\ ReadId(t) => SInv'
<1> SUFFICES ASSUME NEW t \in Threads, SInv, NEW id \in Sids,
                    Move(t, "added", "copyout"),
                    call' = [call EXCEPT ![t].sid = id],
                    ses' = [ses EXCEPT ![t] = None],
                    UNCHANGED <<turn, src, fcr_sem, list, sid, heap, sem>>
             PROVE  SInv'
  BY DEF ReadId
<1>1. /\ pc[t] = "added" /\ pc'[t] = "copyout" /\ pc' \in [Threads -> Places]
      /\ \A u \in Threads : u # t => pc'[u] = pc[u]
  BY MoveFacts DEF Places
<1>2. call[t] \in Requests /\ src[t] = None
  BY <1>1 DEF SInv, Types
<1>3. call'[t] = [call[t] EXCEPT !.sid = id]
  BY DEF SInv, Types
<1>4. call'[t] \in Requests
  BY <1>2, <1>3 DEF Requests
<1>5. \A u \in Threads : u # t => /\ call'[u] = call[u] /\ turn'[u] = turn[u]
                                  /\ ses'[u] = ses[u] /\ src'[u] = src[u]
  BY DEF SInv, Types
<1>6. DOMAIN call' = Threads /\ call' = [u \in Threads |-> call'[u]]
  BY DEF SInv, Types
<1>7. \A u \in Threads : call'[u] \in Requests \cup {None}
  BY <1>4, <1>5 DEF SInv, Types
<1>8. call' \in [Threads -> Requests \cup {None}]
  BY <1>6, <1>7
<1>9. /\ turn' \in [Threads -> {"fill", "src", "last", None}]
      /\ ses' \in [Threads -> Structs \cup {None}]
      /\ src' \in [Threads -> Structs \cup {None}]
  BY DEF SInv, Types
<1> QED
  BY <1>1, <1>2, <1>4, <1>5, <1>8, <1>9, QuietStep

LEMMA CopyOutSInv == \A t \in Threads : SInv /\ CopyOut(t) => SInv'
<1> SUFFICES ASSUME NEW t \in Threads, SInv, CopyOut(t) PROVE SInv'
  OBVIOUS
<1>1. CASE Return(t)
  BY <1>1, QuietReturn DEF CopyOut
<1>2. CASE Move(t, "copyout", "finish") /\ UNCHANGED <<call, turn, ses, src>>
  <2>1. /\ pc[t] = "copyout" /\ pc'[t] = "finish" /\ pc' \in [Threads -> Places]
        /\ \A u \in Threads : u # t => pc'[u] = pc[u]
    BY <1>2, MoveFacts DEF Places
  <2>2. src[t] = None /\ call[t] \in Requests
    BY <2>1 DEF SInv, Types
  <2> QED
    BY <1>2, <2>1, <2>2, QuietStep DEF CopyOut, SInv, Types
<1> QED
  BY <1>1, <1>2 DEF CopyOut

-----------------------------------------------------------------------------
(* A session is made of memory nobody points to, under an id not in use.   *)
LEMMA AddSInv == \A t \in Threads : SInv /\ Add(t) => SInv'
<1> SUFFICES ASSUME NEW t \in Threads, SInv, pc[t] = "create", fcr_sem = None,
                    NEW o \in Structs \ heap, NEW id \in Sids,
                    Listed(id) = {},
                    list' = list \cup {o}, heap' = heap \cup {o},
                    sid' = [sid EXCEPT ![o] = id],
                    ses' = [ses EXCEPT ![t] = o],
                    pc' = [pc EXCEPT ![t] = "added"],
                    UNCHANGED <<call, turn, src, fcr_sem, sem>>
             PROVE  SInv'
  BY DEF Add
<1>1. /\ pc'[t] = "added" /\ pc' \in [Threads -> Places]
      /\ \A u \in Threads : u # t => pc'[u] = pc[u] /\ ses'[u] = ses[u]
  BY DEF SInv, Types, Places
<1>2. sid'[o] = id /\ \A q \in Structs : q # o => sid'[q] = sid[q]
  BY DEF SInv, Types
<1>3. Types'
  BY <1>1 DEF SInv, Types
<1>4. FileHeld'
  BY <1>1 DEF SInv, FileHeld
<1>5. Waited'
  BY <1>1 DEF SInv, Waited
<1>6. IdsUnique'
  <2>1. \A q \in list : q # o /\ sid[q] # id
    BY DEF Listed, SInv, Types
  <2>2. list \subseteq Structs
    BY DEF SInv, Types
  <2> QED
    BY <1>2, <2>1, <2>2 DEF SInv, IdsUnique
<1>7. \A u \in Threads : InUse(u)' = InUse(u)
  BY <1>1 DEF InUse
<1>8. OneCallAtATime' /\ NoUseAfterFree'
  BY <1>1, <1>7 DEF SInv, OneCallAtATime, NoUseAfterFree
<1> QED
  BY <1>3, <1>4, <1>5, <1>6, <1>8 DEF SInv

LEMMA FinishSInv == \A t \in Threads : SInv /\ Finish(t) => SInv'
<1> SUFFICES ASSUME NEW t \in Threads, SInv, Finish(t) PROVE SInv'
  OBVIOUS
<1>1. CASE Listed(call[t].sid) = {}
  BY <1>1, QuietReturn DEF Finish
<1>2. CASE Listed(call[t].sid) # {}
  <2> PICK o \in Listed(call[t].sid) :
        /\ Move(t, "finish", "destroy")
        /\ ses' = [ses EXCEPT ![t] = o]
        /\ list' = list \ {o} /\ fcr_sem' = t
        /\ UNCHANGED <<call, turn, src>>
    BY <1>2 DEF Finish
  <2>1. fcr_sem = None /\ UNCHANGED <<sid, heap, sem>>
    BY DEF Finish
  <2>2. o \in list /\ o \in Structs /\ o \in heap
    BY DEF Listed, SInv, Types
  <2>3. /\ pc[t] = "finish" /\ pc'[t] = "destroy" /\ pc' \in [Threads -> Places]
        /\ \A u \in Threads : u # t => pc'[u] = pc[u]
    BY MoveFacts DEF Places
  <2>4. ses'[t] = o /\ \A u \in Threads : u # t => ses'[u] = ses[u]
    BY DEF SInv, Types
  <2>5. \A u \in Threads : pc[u] \notin {"lock", "destroy"}
    BY <2>1, NoneApart DEF SInv, FileHeld
  <2>6. Types'
    BY <2>1, <2>2, <2>3, <2>4 DEF SInv, Types
  <2>7. FileHeld' /\ Waited'
    BY <2>2, <2>3, <2>4, <2>5, <2>1 DEF SInv, FileHeld, Waited
  <2>8. \A u \in Threads : InUse(u)' = InUse(u)
    BY <2>3, <2>4 DEF InUse
  <2>9. IdsUnique' /\ OneCallAtATime' /\ NoUseAfterFree'
    BY <2>1, <2>2, <2>3, <2>4, <2>5, <2>8
       DEF SInv, IdsUnique, OneCallAtATime, NoUseAfterFree
  <2> QED
    BY <2>6, <2>7, <2>9 DEF SInv
<1> QED
  BY <1>1, <1>2

(* The session freed is not in the list, so nobody waits for it, and its   *)
(* mutex is free, so nobody uses it.                                       *)
LEMMA DestroySInv == \A t \in Threads : SInv /\ Destroy(t) => SInv'
<1> SUFFICES ASSUME NEW t \in Threads, SInv, pc[t] = "destroy",
                    sem[ses[t]] = None, heap' = heap \ {ses[t]}, fcr_sem' = None,
                    Return(t), UNCHANGED <<list, sid, sem>>
             PROVE  SInv'
  BY DEF Destroy
<1>1. /\ pc'[t] = "idle" /\ InUse(t)' = {} /\ src'[t] = None
      /\ \A u \in Threads : u # t =>
           /\ pc'[u] = pc[u] /\ call'[u] = call[u] /\ turn'[u] = turn[u]
           /\ ses'[u] = ses[u] /\ src'[u] = src[u] /\ InUse(u)' = InUse(u)
  BY ReturnFacts
<1>2. ses[t] \in Structs /\ ses[t] \notin list /\ src[t] = None /\ InUse(t) = {}
  BY DEF SInv, Types, Waited, InUse
<1>3. Types'
  BY <1>1, <1>2, ReturnFacts DEF SInv, Types
<1>4. \A u \in Threads : u # t => pc[u] \notin {"lock", "destroy"}
  BY DEF SInv, FileHeld
<1>5. FileHeld' /\ Waited'
  BY <1>1, <1>4 DEF FileHeld, Waited
<1>6. \A u \in Threads : InUse(u)' = InUse(u)
  BY <1>1, <1>2
<1>7. IdsUnique' /\ OneCallAtATime'
  BY <1>6 DEF SInv, IdsUnique, OneCallAtATime
<1>8. \A u \in Threads : ses[t] \notin InUse(u)
  BY <1>2, NoneApart DEF SInv, OneCallAtATime
<1>9. NoUseAfterFree'
  BY <1>1, <1>4, <1>6, <1>8 DEF SInv, NoUseAfterFree
<1> QED
  BY <1>3, <1>5, <1>7, <1>9 DEF SInv

LEMMA FinishAllSInv == SInv /\ FinishAll => SInv'
<1> SUFFICES ASSUME SInv, list' = {}, heap' = heap \ list,
                    \A t \in Threads : pc[t] = "idle",
                    UNCHANGED <<locals, fcr_sem, sid, sem>>
             PROVE  SInv'
  BY DEF FinishAll
<1> USE DEF locals
<1>1. \A t \in Threads : InUse(t) = {} /\ InUse(t)' = {}
  BY DEF SInv, Types, InUse
<1>2. Types'
  BY DEF SInv, Types
<1>3. FileHeld' /\ Waited'
  BY DEF SInv, FileHeld, Waited
<1>4. IdsUnique' /\ OneCallAtATime' /\ NoUseAfterFree'
  BY <1>1 DEF SInv, IdsUnique, OneCallAtATime, NoUseAfterFree
<1> QED
  BY <1>2, <1>3, <1>4 DEF SInv

-----------------------------------------------------------------------------
(* A call that ends, or goes on with another session, having given back    *)
(* the mutexes of S.                                                       *)
LEMMA GaveBack ==
  ASSUME SInv, NEW t \in Threads, NEW S, Put(t, S), Types',
         UNCHANGED <<list, sid, heap>>,
         InUse(t)' = InUse(t) \ S, InUse(t) \subseteq Structs,
         pc'[t] \notin {"lock", "destroy"}, pc[t] \notin {"lock", "destroy"},
         fcr_sem' = fcr_sem,
         \A u \in Threads : u # t => /\ pc'[u] = pc[u] /\ ses'[u] = ses[u]
                                     /\ InUse(u)' = InUse(u)
  PROVE  SInv'
<1>1. FileHeld'
  BY NoneApart DEF SInv, Types, FileHeld
<1>2. Waited'
  BY DEF SInv, Waited
<1>3. IdsUnique'
  BY DEF SInv, IdsUnique
<1>4. ASSUME NEW o \in Structs, NEW u \in Threads
      PROVE  sem'[o] = u <=> o \in InUse(u)'
  <2>1. sem'[o] = u <=> o \in InUse(u) /\ ~(u = t /\ o \in S)
    BY PutFacts
  <2> QED
    BY <2>1
<1>5. OneCallAtATime'
  BY <1>4 DEF OneCallAtATime
<1>6. NoUseAfterFree'
  BY DEF SInv, NoUseAfterFree
<1> QED
  BY <1>1, <1>2, <1>3, <1>5, <1>6 DEF SInv

LEMMA InUseStructs == \A t \in Threads : SInv => InUse(t) \subseteq Structs
BY DEF SInv, Types, InUse

(* The call that returns gives back whatever it uses.                      *)
LEMMA ReturnGivesBack ==
  ASSUME SInv, NEW t \in Threads, NEW S, Return(t), Put(t, S),
         InUse(t) \subseteq S, pc[t] \notin {"lock", "destroy"},
         UNCHANGED <<fcr_sem, list, sid, heap>>
  PROVE  SInv'
<1>1. Types'
  BY ReturnFacts, PutFacts DEF SInv, Types
<1>2. InUse(t)' = InUse(t) \ S /\ pc'[t] = "idle"
  BY ReturnFacts
<1> QED
  BY <1>1, <1>2, ReturnFacts, InUseStructs, GaveBack

LEMMA FindSInv == \A t \in Threads : SInv /\ Find(t) => SInv'
<1> SUFFICES ASSUME NEW t \in Threads, SInv, Find(t) PROVE SInv'
  OBVIOUS
<1>1. pc[t] = "find" /\ fcr_sem = None /\ UNCHANGED <<list, sid, heap>>
  BY DEF Find
<1>2. CASE Listed(Wanted(t)) = {}
  <2>1. Return(t) /\ Put(t, {src[t]}) /\ UNCHANGED fcr_sem
    BY <1>2 DEF Find
  <2>2. InUse(t) \subseteq {src[t]}
    BY <1>1 DEF InUse
  <2> QED
    BY <1>1, <2>1, <2>2, ReturnGivesBack
<1>3. CASE Listed(Wanted(t)) # {}
  <2> PICK o \in Listed(Wanted(t)) :
        /\ Move(t, "find", "lock")
        /\ ses' = [ses EXCEPT ![t] = o]
        /\ fcr_sem' = t
        /\ UNCHANGED <<call, turn, src, sem>>
    BY <1>3 DEF Find
  <2>1. o \in list /\ o \in Structs /\ o \in heap
    BY DEF Listed, SInv, Types
  <2>2. /\ pc'[t] = "lock" /\ pc' \in [Threads -> Places]
        /\ \A u \in Threads : u # t => pc'[u] = pc[u]
    BY MoveFacts DEF Places
  <2>3. ses'[t] = o /\ \A u \in Threads : u # t => ses'[u] = ses[u]
    BY DEF SInv, Types
  <2>4. \A u \in Threads : pc[u] \notin {"lock", "destroy"}
    BY <1>1, NoneApart DEF SInv, FileHeld
  <2>5. Types'
    BY <1>1, <2>1, <2>2, <2>3 DEF SInv, Types
  <2>6. FileHeld' /\ Waited'
    BY <1>1, <2>1, <2>2, <2>3, <2>4 DEF SInv, FileHeld, Waited
  <2>7. \A u \in Threads : InUse(u)' = InUse(u)
    BY <1>1, <2>2, <2>3 DEF InUse
  <2>8. IdsUnique' /\ OneCallAtATime' /\ NoUseAfterFree'
    BY <1>1, <2>1, <2>2, <2>3, <2>4, <2>7
       DEF SInv, IdsUnique, OneCallAtATime, NoUseAfterFree
  <2> QED
    BY <2>5, <2>6, <2>8 DEF SInv
<1> QED
  BY <1>2, <1>3

(* Nobody uses a session whose mutex is free.                              *)
LEMMA LockSInv == \A t \in Threads : SInv /\ Lock(t) => SInv'
<1> SUFFICES ASSUME NEW t \in Threads, SInv, Lock(t) PROVE SInv'
  OBVIOUS
<1> DEFINE o == ses[t]
<1>1. /\ pc[t] = "lock" /\ pc'[t] = "using" /\ pc' \in [Threads -> Places]
      /\ \A u \in Threads : u # t => pc'[u] = pc[u]
  BY MoveFacts DEF Lock, Places
<1>2. o \in list /\ o \in heap /\ o \in Structs /\ fcr_sem = t
  BY <1>1 DEF SInv, Types, Waited, FileHeld
<1>3. /\ sem[o] = None /\ sem' = [sem EXCEPT ![o] = t] /\ fcr_sem' = None
      /\ UNCHANGED <<call, turn, ses, src, list, sid, heap>>
  BY DEF Lock
<1> HIDE DEF o
<1>4. \A u \in Threads : u # t => pc[u] \notin {"lock", "destroy"}
  BY <1>2 DEF SInv, FileHeld
<1>5. Types'
  BY <1>1, <1>2, <1>3 DEF SInv, Types, o
<1>6. FileHeld' /\ Waited'
  BY <1>1, <1>3, <1>4 DEF FileHeld, Waited
<1>7. IdsUnique'
  BY <1>3 DEF SInv, IdsUnique
<1>8. InUse(t)' = InUse(t) \cup {o} /\ \A u \in Threads : u # t => InUse(u)' = InUse(u)
  BY <1>1, <1>3 DEF InUse, o
<1>9. \A u \in Threads : o \notin InUse(u)
  BY <1>2, <1>3, NoneApart DEF SInv, OneCallAtATime
<1>10. /\ sem'[o] = t
       /\ \A q \in Structs : q # o => sem'[q] = sem[q]
  BY <1>2, <1>3 DEF SInv, Types
<1>11. ASSUME NEW q \in Structs, NEW u \in Threads
       PROVE  sem'[q] = u <=> q \in InUse(u)'
  <2>1. sem[q] = u <=> q \in InUse(u)
    BY DEF SInv, OneCallAtATime
  <2>2. CASE q = o
    BY <2>2, <1>8, <1>9, <1>10
  <2>3. CASE q # o
    BY <2>1, <2>3, <1>8, <1>10
  <2> QED
    BY <2>2, <2>3
<1>12. OneCallAtATime'
  BY <1>11 DEF OneCallAtATime
<1>13. NoUseAfterFree'
  BY <1>1, <1>2, <1>3, <1>4, <1>8 DEF SInv, NoUseAfterFree
<1> QED
  BY <1>5, <1>6, <1>7, <1>12, <1>13 DEF SInv

LEMMA FilledSInv == \A t \in Threads : SInv /\ Filled(t) => SInv'
<1> SUFFICES ASSUME NEW t \in Threads, SInv, pc[t] = "using", turn[t] = "fill",
                    Put(t, {ses[t]}), UNCHANGED <<fcr_sem, list, sid, heap>>,
                    \/ Return(t)
                    \/ /\ Move(t, "using", "find")
                       /\ turn' = [turn EXCEPT ![t] = "last"]
                       /\ UNCHANGED <<call, ses, src>>
             PROVE  SInv'
  BY DEF Filled
<1>1. src[t] = None /\ InUse(t) = {ses[t]}
  BY DEF SInv, Types, InUse
<1>2. CASE Return(t)
  BY <1>1, <1>2, ReturnGivesBack
<1>3. CASE /\ Move(t, "using", "find")
           /\ turn' = [turn EXCEPT ![t] = "last"]
           /\ UNCHANGED <<call, ses, src>>
  <2>1. /\ pc'[t] = "find" /\ pc' \in [Threads -> Places]
        /\ \A u \in Threads : u # t => pc'[u] = pc[u]
    BY <1>3, MoveFacts DEF Places
  <2>2. Types'
    <3>1. /\ turn' \in [Threads -> {"fill", "src", "last", None}]
          /\ turn'[t] = "last" /\ \A u \in Threads : u # t => turn'[u] = turn[u]
      BY <1>3 DEF SInv, Types
    <3>2. sem' \in [Structs -> Threads \cup {None}]
      BY PutFacts
    <3>3. call[t] \in Requests
      BY DEF SInv, Types
    <3> QED
      BY <1>1, <1>3, <2>1, <3>1, <3>2, <3>3 DEF SInv, Types
  <2>3. /\ InUse(t)' = InUse(t) \ {ses[t]}
        /\ \A u \in Threads : u # t => InUse(u)' = InUse(u) /\ ses'[u] = ses[u]
    BY <1>1, <1>3, <2>1 DEF InUse
  <2> QED
    BY <2>1, <2>2, <2>3, InUseStructs, GaveBack
<1> QED
  BY <1>2, <1>3

LEMMA GotSourceSInv == \A t \in Threads : SInv /\ GotSource(t) => SInv'
<1> SUFFICES ASSUME NEW t \in Threads, SInv, GotSource(t) PROVE SInv'
  OBVIOUS
<1>1. /\ pc[t] = "using" /\ pc'[t] = "find" /\ pc' \in [Threads -> Places]
      /\ \A u \in Threads : u # t => pc'[u] = pc[u]
  BY MoveFacts DEF GotSource, Places
<1>2. /\ turn[t] = "src" /\ turn' = [turn EXCEPT ![t] = "last"]
      /\ src' = [src EXCEPT ![t] = ses[t]]
      /\ UNCHANGED <<call, ses, fcr_sem, list, sid, heap, sem>>
  BY DEF GotSource
<1>3. src[t] = None /\ ses[t] \in Structs
  BY <1>1, <1>2 DEF SInv, Types
<1>4. src'[t] = ses[t] /\ \A u \in Threads : u # t => src'[u] = src[u]
  BY <1>2 DEF SInv, Types
<1>5. Types'
  BY <1>1, <1>2, <1>3, <1>4 DEF SInv, Types
<1>6. FileHeld' /\ Waited'
  BY <1>1, <1>2, NoneApart DEF SInv, Types, FileHeld, Waited
<1>7. \A u \in Threads : InUse(u)' = InUse(u)
  BY <1>1, <1>2, <1>3, <1>4, NoneApart DEF InUse
<1>8. IdsUnique' /\ OneCallAtATime' /\ NoUseAfterFree'
  BY <1>1, <1>2, <1>7 DEF SInv, IdsUnique, OneCallAtATime, NoUseAfterFree
<1> QED
  BY <1>5, <1>6, <1>8 DEF SInv

LEMMA UseSInv == \A t \in Threads : SInv /\ Use(t) => SInv'
<1> SUFFICES ASSUME NEW t \in Threads, SInv, Use(t) PROVE SInv'
  OBVIOUS
<1>1. InUse(t) \subseteq {ses[t], src[t]}
  BY DEF InUse
<1> QED
  BY <1>1, ReturnGivesBack DEF Use

LEMMA StutterSInv == SInv /\ UNCHANGED vars => SInv'
BY DEF vars, locals, SInv, Types, FileHeld, Waited, IdsUnique, OneCallAtATime,
       NoUseAfterFree, InUse

LEMMA NextSInv == SInv /\ [Next]_vars => SInv'
<1>1. \A t \in Threads : SInv /\ CreateFails(t) => SInv'
  BY QuietReturn DEF CreateFails
<1>2. \A t \in Threads : SInv /\ Step(t) => SInv'
  BY <1>1, AddSInv, ReadIdSInv, CopyOutSInv, FinishSInv, DestroySInv, FindSInv,
     LockSInv, FilledSInv, GotSourceSInv, UseSInv DEF Step
<1> QED
  BY <1>2, BeginSInv, FinishAllSInv, StutterSInv DEF Next

LEMMA Inductive == Spec => []SInv
BY InitSInv, NextSInv, PTL DEF Spec

-----------------------------------------------------------------------------
(* The sessions of a file have different ids, whatever ids the generator   *)
(* draws and however many threads draw them.                               *)
THEOREM IdsNameOne == Spec => []IdsUnique
<1>1. SInv => IdsUnique
  BY DEF SInv
<1> QED
  BY <1>1, Inductive, PTL

(* A session's mutex is held by exactly the call that uses the session.    *)
THEOREM CallsExclusive == Spec => []OneCallAtATime
<1>1. SInv => OneCallAtATime
  BY DEF SInv
<1> QED
  BY <1>1, Inductive, PTL

(* Nobody uses or waits for a session that was freed.                      *)
THEOREM SessionsAlive == Spec => []NoUseAfterFree
<1>1. SInv => NoUseAfterFree
  BY DEF SInv
<1> QED
  BY <1>1, Inductive, PTL
=============================================================================
