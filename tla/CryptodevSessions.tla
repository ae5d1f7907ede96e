------------------------- MODULE CryptodevSessions -------------------------
(***************************************************************************)
(* The sessions of one open file of /dev/crypto (cryptodev-linux,          *)
(* ioctl.c): threads create, look up, use and finish them under the mutex  *)
(* of the file, fcr->sem, and one mutex per session.  The bytes a session  *)
(* works on are those of CryptodevRun.                                     *)
(***************************************************************************)
EXTENDS Integers, FiniteSets

CONSTANTS
  Procs,     \* user threads that share the file
  Worker,    \* the thread of the work queue, which runs submitted jobs
  Structs,   \* struct csession that fit in memory
  Sids,      \* session ids the random generator may draw
  None

Threads == Procs \cup {Worker}

ASSUME SessionsAssumption ==
  /\ Worker \notin Procs
  /\ None \notin Threads \cup Structs \cup Sids
  /\ IsFiniteSet(Structs) /\ IsFiniteSet(Sids)
  /\ Cardinality(Structs) <= Cardinality(Sids)

VARIABLES
  pc, call,    \* per thread: where it is, and in which call
  turn,        \*   which of the call's lookups it is in
  ses, src,    \*   its local pointers to sessions
  fcr_sem,     \* the holder of the mutex of the file
  list,        \* the sessions of the file
  sid,         \* per session: its id
  heap,        \* the sessions whose memory is allocated
  sem          \* per session: the holder of its mutex

locals == <<pc, call, turn, ses, src>>
vars   == <<locals, fcr_sem, list, sid, heap, sem>>

(* The calls, with the ids they name; src is the source of a hash copy.    *)
(* CIOCAUTHCRYPT takes the same steps as CIOCCRYPT.                        *)
Calls(t) ==
  IF t = Worker THEN [cmd : {"crypto_run"}, sid : Sids, src : {None}]
  ELSE [cmd : {"CIOCGSESSION"}, sid : {None}, src : {None}]
       \cup [cmd : {"CIOCFSESSION", "CIOCGSESSINFO", "CIOCCRYPT",
                    "CIOCASYNCCRYPT"}, sid : Sids, src : {None}]
       \cup [cmd : {"CIOCCPHASH"}, sid : Sids, src : Sids]

Init ==
  /\ pc = [t \in Threads |-> "idle"]
  /\ call = [t \in Threads |-> None]
  /\ turn = [t \in Threads |-> None]
  /\ ses = [t \in Threads |-> None] /\ src = [t \in Threads |-> None]
  /\ fcr_sem = None
  /\ list = {} /\ heap = {}
  /\ sid = [o \in Structs |-> None] /\ sem = [o \in Structs |-> None]

-----------------------------------------------------------------------------
Move(t, from, to) == pc[t] = from /\ pc' = [pc EXCEPT ![t] = to]

Return(t) ==
  /\ pc' = [pc EXCEPT ![t] = "idle"]
  /\ call' = [call EXCEPT ![t] = None]
  /\ turn' = [turn EXCEPT ![t] = None]
  /\ ses' = [ses EXCEPT ![t] = None]
  /\ src' = [src EXCEPT ![t] = None]

(* Unlock the sessions of S that t holds. *)
Put(t, S) == sem' = [o \in Structs |-> IF o \in S /\ sem[o] = t THEN None
                                                               ELSE sem[o]]

(* The sessions of the list with the id: at most one. *)
Listed(id) == {o \in list : sid[o] = id}

FirstStep(c) == CASE c.cmd = "CIOCGSESSION" -> "create"
                  [] c.cmd = "CIOCFSESSION" -> "finish"
                  [] OTHER                  -> "find"

FirstTurn(c) == CASE c.cmd \in {"CIOCCRYPT", "CIOCASYNCCRYPT"} -> "fill"
                  [] c.cmd = "CIOCCPHASH"                      -> "src"
                  [] OTHER                                     -> "last"

(* A system call starts, or the worker takes up a job. *)
Begin(t) == \E c \in Calls(t) :
  /\ Move(t, "idle", FirstStep(c))
  /\ call' = [call EXCEPT ![t] = c]
  /\ turn' = [turn EXCEPT ![t] = FirstTurn(c)]
  /\ UNCHANGED <<ses, src, fcr_sem, list, sid, heap, sem>>

-----------------------------------------------------------------------------
(* Broken variant: the id drawn is not compared with those in use. *)
AddAnyId(t) ==
  /\ pc[t] = "create" /\ fcr_sem = None
  /\ \E o \in Structs \ heap, id \in Sids :
       /\ list' = list \cup {o} /\ heap' = heap \cup {o}
       /\ sid' = [sid EXCEPT ![o] = id]
       /\ ses' = [ses EXCEPT ![t] = o]
       /\ pc' = [pc EXCEPT ![t] = "added"]
  /\ UNCHANGED <<call, turn, src, fcr_sem, sem>>

(* crypto_create_session, once the session is set up: draw ids until one   *)
(* is new, and put the session in the list.  Setting it up may fail.       *)
Add(t) ==
  /\ pc[t] = "create" /\ fcr_sem = None
  /\ \E o \in Structs \ heap, id \in Sids :
       /\ Listed(id) = {}
       /\ list' = list \cup {o} /\ heap' = heap \cup {o}
       /\ sid' = [sid EXCEPT ![o] = id]
       /\ ses' = [ses EXCEPT ![t] = o]
       /\ pc' = [pc EXCEPT ![t] = "added"]
  /\ UNCHANGED <<call, turn, src, fcr_sem, sem>>

CreateFails(t) ==
  /\ pc[t] = "create" /\ Return(t)
  /\ UNCHANGED <<fcr_sem, list, sid, heap, sem>>

(* The id is read after the file is unlocked.  A thread that guesses it    *)
(* may have finished the session by then: the memory freed holds any id.   *)
ReadId(t) ==
  /\ Move(t, "added", "copyout")
  /\ \E id \in Sids :
       /\ ses[t] \in heap => id = sid[ses[t]]
       /\ call' = [call EXCEPT ![t].sid = id]
  /\ ses' = [ses EXCEPT ![t] = None]
  /\ UNCHANGED <<turn, src, fcr_sem, list, sid, heap, sem>>

(* The id goes to the user; when it cannot be copied, the session with     *)
(* that id is finished again.                                              *)
CopyOut(t) ==
  /\ pc[t] = "copyout"
  /\ \/ Return(t)
     \/ Move(t, "copyout", "finish") /\ UNCHANGED <<call, turn, ses, src>>
  /\ UNCHANGED <<fcr_sem, list, sid, heap, sem>>

(* crypto_finish_session: an unknown id is not an error.                   *)
Finish(t) ==
  /\ pc[t] = "finish" /\ fcr_sem = None
  /\ IF Listed(call[t].sid) = {}
     THEN Return(t) /\ UNCHANGED <<fcr_sem, list>>
     ELSE \E o \in Listed(call[t].sid) :
            /\ Move(t, "finish", "destroy")
            /\ ses' = [ses EXCEPT ![t] = o]
            /\ list' = list \ {o} /\ fcr_sem' = t
            /\ UNCHANGED <<call, turn, src>>
  /\ UNCHANGED <<sid, heap, sem>>

(* Broken variant: the session is freed without waiting for its mutex. *)
DestroyAtOnce(t) ==
  /\ pc[t] = "destroy"
  /\ heap' = heap \ {ses[t]} /\ fcr_sem' = None
  /\ Return(t) /\ UNCHANGED <<list, sid, sem>>

(* crypto_destroy_session waits for the mutex of the session, holding that *)
(* of the file, and frees the session.                                     *)
Destroy(t) ==
  /\ pc[t] = "destroy" /\ sem[ses[t]] = None
  /\ heap' = heap \ {ses[t]} /\ fcr_sem' = None
  /\ Return(t) /\ UNCHANGED <<list, sid, sem>>

(* crypto_finish_all_sessions, when the last user of the file has left.    *)
FinishAll ==
  /\ list # {} /\ \A t \in Threads : pc[t] = "idle"
  /\ list' = {} /\ heap' = heap \ list
  /\ UNCHANGED <<locals, fcr_sem, sid, sem>>

-----------------------------------------------------------------------------
Wanted(t) == IF turn[t] = "src" THEN call[t].src ELSE call[t].sid

(* crypto_get_session_by_sid: find the session under the mutex of the      *)
(* file, and keep that mutex while waiting for the session's.  A second    *)
(* lookup that finds nothing gives back what the first one got.            *)
Find(t) ==
  /\ pc[t] = "find" /\ fcr_sem = None
  /\ IF Listed(Wanted(t)) = {}
     THEN Return(t) /\ Put(t, {src[t]}) /\ UNCHANGED fcr_sem
     ELSE \E o \in Listed(Wanted(t)) :
            /\ Move(t, "find", "lock")
            /\ ses' = [ses EXCEPT ![t] = o]
            /\ fcr_sem' = t
            /\ UNCHANGED <<call, turn, src, sem>>
  /\ UNCHANGED <<list, sid, heap>>

(* Broken variant: the session's mutex is not taken. *)
LockNot(t) ==
  /\ Move(t, "lock", "using") /\ sem' = [sem EXCEPT ![ses[t]] = t]
  /\ fcr_sem' = None
  /\ UNCHANGED <<call, turn, ses, src, list, sid, heap>>

Lock(t) ==
  /\ Move(t, "lock", "using")
  /\ sem[ses[t]] = None /\ sem' = [sem EXCEPT ![ses[t]] = t]
  /\ fcr_sem' = None
  /\ UNCHANGED <<call, turn, ses, src, list, sid, heap>>

(* fill_kcop_from_cop: read the size of the IV, unlock the session, copy   *)
(* the IV, which may fail.  A job submitted leaves the rest to the worker; *)
(* crypto_run looks the session up again.                                  *)
Filled(t) ==
  /\ pc[t] = "using" /\ turn[t] = "fill" /\ Put(t, {ses[t]})
  /\ \/ Return(t)
     \/ /\ call[t].cmd = "CIOCCRYPT"
        /\ Move(t, "using", "find")
        /\ turn' = [turn EXCEPT ![t] = "last"]
        /\ UNCHANGED <<call, ses, src>>
  /\ UNCHANGED <<fcr_sem, list, sid, heap>>

(* crypto_copy_hash_state looks up the destination with the source locked. *)
GotSource(t) ==
  /\ turn[t] = "src" /\ Move(t, "using", "find")
  /\ turn' = [turn EXCEPT ![t] = "last"]
  /\ src' = [src EXCEPT ![t] = ses[t]]
  /\ UNCHANGED <<call, ses, fcr_sem, list, sid, heap, sem>>

(* Broken variant: an error path returns with the session locked. *)
UseKeeps(t) ==
  /\ pc[t] = "using" /\ turn[t] = "last"
  /\ Put(t, {src[t]}) /\ Return(t)
  /\ UNCHANGED <<fcr_sem, list, sid, heap>>

(* get_session_info, crypto_run, and the end of crypto_copy_hash_state: do *)
(* the work and unlock what was locked, whether it succeeds or not.        *)
Use(t) ==
  /\ pc[t] = "using" /\ turn[t] = "last"
  /\ Put(t, {ses[t], src[t]}) /\ Return(t)
  /\ UNCHANGED <<fcr_sem, list, sid, heap>>

-----------------------------------------------------------------------------
Step(t) ==
  \/ Add(t) \/ CreateFails(t) \/ ReadId(t) \/ CopyOut(t)
  \/ Finish(t) \/ Destroy(t)
  \/ Find(t) \/ Lock(t) \/ Filled(t) \/ GotSource(t) \/ Use(t)

Next == FinishAll \/ \E t \in Threads : Begin(t) \/ Step(t)

Spec == Init /\ [][Next]_vars

(* Every started call goes on.  A mutex is handed to its waiters in turn:  *)
(* a thread that waits for one that becomes free again and again gets it.  *)
Fairness == \A t \in Threads : SF_vars(Step(t))

FairSpec == Spec /\ Fairness

-----------------------------------------------------------------------------
(* Type invariant: threads hold and point to sessions of this file.        *)
TypeOK ==
  /\ pc \in [Threads -> {"idle", "create", "added", "copyout", "finish", "destroy",
                         "find", "lock", "using"}]
  /\ \A t \in Threads :
       /\ call[t] = None \/ call[t].sid \in Sids \cup {None}
       /\ turn[t] \in {"fill", "src", "last", None}
       /\ pc[t] \in {"destroy", "lock", "using"} => ses[t] \in Structs
  /\ ses \in [Threads -> Structs \cup {None}]
  /\ src \in [Threads -> Structs \cup {None}]
  /\ fcr_sem \in Threads \cup {None}
  /\ list \subseteq heap /\ heap \subseteq Structs
  /\ sid \in [Structs -> Sids \cup {None}]
  /\ sem \in [Structs -> Threads \cup {None}]

(* An id names one session: crypto_create_session compares the id it drew  *)
(* with all others under the lock under which it adds the session.         *)
IdsUnique == \A o, q \in list : sid[o] = sid[q] => o = q

(* The sessions a thread works on, with their mutexes locked. *)
InUse(t) == ({src[t]} \ {None}) \cup
            (IF pc[t] = "using" THEN {ses[t]} ELSE {})

(* A session is used by one call at a time, and what a call does not use   *)
(* is not left locked: crypto_put_session is reached on every path.        *)
OneCallAtATime ==
  \A o \in Structs, t \in Threads : sem[o] = t <=> o \in InUse(t)

(* No thread uses, waits for, or is about to free a session that another   *)
(* has freed: crypto_get_session_by_sid keeps the file locked while it     *)
(* waits for the session, so nobody can finish it under the waiter.  The   *)
(* one read not covered is ReadId's, of the id its own call has drawn.     *)
NoUseAfterFree ==
  \A t \in Threads :
    /\ InUse(t) \subseteq heap
    /\ pc[t] \in {"lock", "destroy"} => ses[t] \in heap

(* Every call returns, if no hash copy reaches its second lookup: only     *)
(* that one waits for the mutex of the file while it holds a session's.    *)
Copying == \E t \in Threads : src[t] # None

CallsReturn ==
  [](~Copying) => \A t \in Threads : pc[t] # "idle" ~> pc[t] = "idle"

(* cryptodev.h asks of a hash copy that both sessions have been created,   *)
(* and of nothing else: once a copy between two different sessions holds   *)
(* its source, it returns.                                                 *)
CopyingTwo(t) == src[t] # None /\ call[t].sid # call[t].src

CopiesReturn == \A t \in Procs : CopyingTwo(t) ~> ~CopyingTwo(t)
=============================================================================
