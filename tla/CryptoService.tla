--------------------------- MODULE CryptoService ---------------------------
(***************************************************************************)
(* What the paravirtual device promises the programs of the guest: it      *)
(* behaves as a /dev/crypto of their own.  Every call takes effect once,   *)
(* between its start and its return, on the sessions of the file it is     *)
(* made on, and returns the outcome of that effect.                        *)
(***************************************************************************)
CONSTANTS Procs, Files, Sids, None

VARIABLES
  calls,     \* per process, the call in progress
  outcome,   \* and its outcome, once it has had its effect
  table,     \* per file, its sessions, with their keys
  ret,       \* per process, what its call returned, until the next
  up         \* the machine is running

serviceVars == <<calls, outcome, table, ret, up>>

Closed == None
Errors == {"EFAULT", "ENODEV", "EPERM"}
Ok(v)  == [code |-> "ok", value |-> v]
Err(e) == [code |-> e, value |-> None]

Requests ==
       [cmd : {"OPEN", "CLOSE", "CIOCGSESSION", "OTHER"}, file : Files,
        arg : {None}]
  \cup [cmd : {"CIOCFSESSION", "CIOCCRYPT"}, file : Files, arg : Sids]

(* A process has a key and a text of its own, named after it.              *)
Cipher(key, text) == <<key, text>>

Callers(f)   == {p \in Procs : calls[p] # None /\ calls[p].file = f}
IsClosing(f) == \E p \in Callers(f) : calls[p].cmd = "CLOSE"

ServiceInit ==
  /\ calls = [p \in Procs |-> None] /\ outcome = [p \in Procs |-> None]
  /\ table = [f \in Files |-> Closed] /\ ret = [p \in Procs |-> None]
  /\ up = TRUE

-----------------------------------------------------------------------------
Begin(p, c) ==
  /\ up /\ calls[p] = None
  /\ CASE c.cmd = "OPEN"  -> table[c.file] = Closed /\ Callers(c.file) = {}
       [] c.cmd = "CLOSE" -> table[c.file] # Closed /\ Callers(c.file) = {}
       [] OTHER           -> table[c.file] # Closed /\ ~IsClosing(c.file)
  /\ calls' = [calls EXCEPT ![p] = c]
  /\ ret' = [ret EXCEPT ![p] = None]
  /\ UNCHANGED <<outcome, table, up>>

(* A call refused at once has no effect. *)
Refuse(p) ==
  /\ up /\ calls[p] = None
  /\ \E e \in Errors : ret' = [ret EXCEPT ![p] = Err(e)]
  /\ UNCHANGED <<calls, outcome, table, up>>

Without(sessions, sid) ==
  [s \in DOMAIN sessions \ {sid} |-> sessions[s]]
With(sessions, sid, key) ==
  [s \in DOMAIN sessions \cup {sid} |-> IF s = sid THEN key ELSE sessions[s]]

Yields(p, o, f, t) ==
  outcome' = [outcome EXCEPT ![p] = o] /\ table' = [table EXCEPT ![f] = t]

Effect(p) ==
  /\ up /\ calls[p] # None /\ outcome[p] = None
  /\ LET c == calls[p]
         sessions == table[c.file]
     IN  \/ c.cmd = "OPEN" /\ Yields(p, Ok(None), c.file, <<>>)
         \/ c.cmd = "OPEN" /\ Yields(p, Err("ENODEV"), c.file, Closed)
         \/ c.cmd = "CLOSE" /\ Yields(p, Ok(None), c.file, Closed)
         \/ /\ c.cmd = "CIOCGSESSION"
            /\ \E sid \in Sids \ DOMAIN sessions :
                 Yields(p, Ok(sid), c.file, With(sessions, sid, p))
         \/ /\ c.cmd = "CIOCFSESSION"
            /\ Yields(p, Ok(None), c.file, Without(sessions, c.arg))
         \/ /\ c.cmd = "CIOCCRYPT" /\ c.arg \in DOMAIN sessions
            /\ Yields(p, Ok(Cipher(sessions[c.arg], p)), c.file, sessions)
         \/ /\ c.cmd \in {"CIOCGSESSION", "CIOCCRYPT", "OTHER"}
            /\ Yields(p, Err("EPERM"), c.file, sessions)
  /\ UNCHANGED <<calls, ret, up>>

(* The answer may still miss its caller, whose pointer may be bad.         *)
End(p) ==
  /\ up /\ outcome[p] # None
  /\ \/ ret' = [ret EXCEPT ![p] = outcome[p]]
     \/ /\ calls[p].cmd \notin {"OPEN", "CLOSE", "OTHER"}
        /\ ret' = [ret EXCEPT ![p] = Err("EFAULT")]
  /\ calls' = [calls EXCEPT ![p] = None]
  /\ outcome' = [outcome EXCEPT ![p] = None]
  /\ UNCHANGED <<table, up>>

(* An unsupported command may bring the whole machine down.                *)
Down ==
  /\ \E p \in Procs : calls[p] # None /\ calls[p].cmd = "OTHER"
  /\ up /\ up' = FALSE
  /\ UNCHANGED <<calls, outcome, table, ret>>

ServiceNext ==
  \/ \E p \in Procs : \/ \E c \in Requests : Begin(p, c)
                      \/ Refuse(p) \/ Effect(p) \/ End(p)
  \/ Down

ServiceSpec ==
  /\ ServiceInit /\ [][ServiceNext]_serviceVars
  /\ \A p \in Procs : WF_serviceVars(Effect(p) \/ End(p))
=============================================================================
