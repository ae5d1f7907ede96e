---------------------------- MODULE VirtioCrypto ----------------------------
(***************************************************************************)
(* The virtio-cryptodev device: the system calls of the guest driver       *)
(* (guest/crypto-chrdev.c) of several processes, the virtqueue of each     *)
(* device, the handler of the QEMU backend (backend/crypto-chrdev.c) and   *)
(* the host's /dev/crypto files, each with its sessions.                   *)
(* crypto.h leaves the lock of struct crypto_device to be filled in; here  *)
(* it is the initialised spinlock crypto-chrdev.c uses.                    *)
(***************************************************************************)
EXTENDS Integers, Sequences, Functions

CONSTANTS
  Procs,        \* guest processes; files are shared by fork
  Minors,       \* minor numbers somebody opens
  Devices,      \* the minors that belong to a device
  Files,        \* open files of the guest
  Fds,          \* file descriptors QEMU has to spare
  Sids,         \* session ids
  QUEUE_SIZE,   \* places in a virtqueue (128 in the code)
  None

Requests ==
       [cmd : {"OPEN", "CLOSE", "CIOCGSESSION", "OTHER"}, file : Files,
        arg : {None}]
  \cup [cmd : {"CIOCFSESSION", "CIOCCRYPT"}, file : Files, arg : Sids]

(* What vq_handle_output is doing: for whom, and whether it has done it.    *)
Tasks == [dev : Devices, proc : Procs, done : BOOLEAN]

(* The sessions of a descriptor of the host, with their keys, and what a   *)
(* call may return: a session, a ciphertext or nothing, or an error.       *)
Sessions == UNION {[S -> Procs] : S \in SUBSET Sids}
Errors   == {"EFAULT", "ENODEV", "EPERM"}
Values   == {None} \cup Sids \cup (Procs \X Procs)
Answers  == [code : Errors \cup {"ok"}, value : Values]

ASSUME VirtioAssumption ==
  /\ Devices \subseteq Minors
  /\ QUEUE_SIZE \in Nat \ {0}
  /\ None \notin Procs \cup Minors \cup Files \cup Fds \cup Sids
  /\ None \notin Requests /\ None \notin Tasks
  /\ None \notin Sessions /\ None \notin Answers

VARIABLES
  pc, call,         \* per process: where it is, and in which call
  fstate, dev,      \* per guest file: its life, its device
  host_fd,          \*   and the descriptor QEMU has for it
  lock,             \* per device: the holder of its spinlock
  avail, used,      \*   its ring: requests for the host, and answered ones
  kicked,           \*   a notification QEMU has not yet taken
  serving,          \* the request vq_handle_output is working on
  host,             \* per descriptor of QEMU: its sessions, with their keys
  answer,           \* per process: what the host wrote in its buffers
  served,           \* history: processes whose request was executed
  ret,              \* per process: what its call returned, until the next
  up                \* QEMU, and the guest in it, are running

procVars == <<pc, call>>
fileVars == <<fstate, dev, host_fd>>
ringVars == <<avail, used, kicked, serving>>
hostVars == <<host, answer, served>>
vars == <<procVars, fileVars, lock, ringVars, hostVars, ret, up>>

Closed == None
Ok(v)  == [code |-> "ok", value |-> v]
Err(e) == [code |-> e, value |-> None]
Unwritten == Err("EPERM")     \* *host_ret = -1

Init ==
  /\ pc = [p \in Procs |-> "user"] /\ call = [p \in Procs |-> None]
  /\ fstate = [f \in Files |-> "free"] /\ dev = [f \in Files |-> None]
  /\ host_fd = [f \in Files |-> None]
  /\ lock = [d \in Devices |-> None]
  /\ avail = [d \in Devices |-> <<>>] /\ used = [d \in Devices |-> <<>>]
  /\ kicked \in [Devices -> BOOLEAN]    \* QEMU kicks a queue it starts
  /\ serving = None
  /\ host = [fd \in Fds |-> Closed] /\ answer = [p \in Procs |-> Unwritten]
  /\ served = {} /\ ret = [p \in Procs |-> None]
  /\ up = TRUE

-----------------------------------------------------------------------------
(* The guest: system calls up to the device's lock.                        *)
Move(p, from, to) == up /\ pc[p] = from /\ pc' = [pc EXCEPT ![p] = to]

Device(p)  == dev[call[p].file]
Callers(f) == {p \in Procs : pc[p] # "user" /\ call[p].file = f}
Return(p, r) == ret' = [ret EXCEPT ![p] = r]

Begin(p, c) ==
  /\ Move(p, "user", "lock")
  /\ call' = [call EXCEPT ![p] = c]
  /\ answer' = [answer EXCEPT ![p] = Unwritten]
  /\ Return(p, None)
  /\ UNCHANGED <<lock, ringVars, host, served, up>>

Refuse(p, e) ==
  /\ up /\ pc[p] = "user" /\ Return(p, Err(e))
  /\ UNCHANGED <<procVars, fileVars, lock, ringVars, hostVars, up>>

Open(p, f, minor) ==
  /\ fstate[f] = "free"
  /\ \/ /\ minor \in Devices
        /\ fstate' = [fstate EXCEPT ![f] = "opening"]
        /\ dev' = [dev EXCEPT ![f] = minor]
        /\ UNCHANGED host_fd
        /\ Begin(p, [cmd |-> "OPEN", file |-> f, arg |-> None])
     \/ minor \notin Devices /\ Refuse(p, "ENODEV")

(* The kernel calls release when the last user of the file is gone.        *)
Release(p, f) ==
  /\ fstate[f] = "open" /\ Callers(f) = {}
  /\ fstate' = [fstate EXCEPT ![f] = "closing"]
  /\ UNCHANGED <<dev, host_fd>>
  /\ Begin(p, [cmd |-> "CLOSE", file |-> f, arg |-> None])

Ioctl(p, c) ==
  /\ c.cmd \notin {"OPEN", "CLOSE"} /\ fstate[c.file] = "open"
  /\ \/ Begin(p, c) /\ UNCHANGED fileVars
     \/ c.cmd # "OTHER" /\ Refuse(p, "EFAULT")       \* copy_from_user

(* The part the three calls share: send a request, wait for an answer.     *)
(* Broken variant: nobody holds the others off. *)
LockUnguarded(p) ==
  /\ Move(p, "lock", "add")
  /\ lock' = [lock EXCEPT ![Device(p)] = p]
  /\ UNCHANGED <<call, fileVars, ringVars, hostVars, ret, up>>

Lock(p) ==
  /\ Move(p, "lock", "add")
  /\ lock[Device(p)] = None
  /\ lock' = [lock EXCEPT ![Device(p)] = p]
  /\ UNCHANGED <<call, fileVars, ringVars, hostVars, ret, up>>

InService(d) == IF serving # None /\ serving.dev = d THEN 1 ELSE 0
InFlight(d)  == Len(avail[d]) + InService(d) + Len(used[d])

AddSgs(p) ==
  /\ Move(p, "add", "kick")
  /\ avail' = IF InFlight(Device(p)) < QUEUE_SIZE
              THEN [avail EXCEPT ![Device(p)] = Append(@, p)]
              ELSE avail                             \* err, not looked at
  /\ UNCHANGED <<call, fileVars, lock, used, kicked, serving, hostVars, ret, up>>

Kick(p) ==
  /\ Move(p, "kick", "wait")
  /\ kicked' = [kicked EXCEPT ![Device(p)] = TRUE]
  /\ UNCHANGED <<call, fileVars, lock, avail, used, serving, hostVars, ret, up>>

(* Broken variant: an empty queue does not make the process wait. *)
GetBufOnce(p) ==
  /\ Move(p, "wait", "copy")
  /\ used' = IF used[Device(p)] = <<>> THEN used
             ELSE [used EXCEPT ![Device(p)] = Tail(@)]
  /\ lock' = [lock EXCEPT ![Device(p)] = None]
  /\ UNCHANGED <<call, fileVars, avail, kicked, serving, hostVars, ret, up>>

(* virtqueue_get_buf has something and the lock is given back. *)
GetBuf(p) ==
  /\ Move(p, "wait", "copy")
  /\ used[Device(p)] # <<>>
  /\ used' = [used EXCEPT ![Device(p)] = Tail(@)]
  /\ lock' = [lock EXCEPT ![Device(p)] = None]
  /\ UNCHANGED <<call, fileVars, avail, kicked, serving, hostVars, ret, up>>

(* After the lock.  A failed open leaves its crypto_open_file behind.      *)
Done(p) ==
  /\ Move(p, "copy", "user")
  /\ call' = [call EXCEPT ![p] = None]
  /\ answer' = [answer EXCEPT ![p] = Unwritten]
  /\ served' = served \ {p}
  /\ UNCHANGED <<lock, ringVars, host, up>>

Free(f) ==
  /\ fstate' = [fstate EXCEPT ![f] = "free"]
  /\ dev' = [dev EXCEPT ![f] = None]
  /\ host_fd' = [host_fd EXCEPT ![f] = None]

(* Broken variant: the descriptor is not looked at. *)
FinishOpenUnchecked(p) ==
  /\ call[p] # None /\ call[p].cmd = "OPEN"
  /\ Done(p) /\ Return(p, Ok(None))
  /\ fstate' = [fstate EXCEPT ![call[p].file] = "open"]
  /\ UNCHANGED <<dev, host_fd>>

FinishOpen(p) ==
  /\ call[p] # None /\ call[p].cmd = "OPEN"
  /\ Done(p)
  /\ LET f == call[p].file
     IN  IF host_fd[f] = None
         THEN Free(f) /\ Return(p, Err("ENODEV"))
         ELSE /\ fstate' = [fstate EXCEPT ![f] = "open"]
              /\ UNCHANGED <<dev, host_fd>>
              /\ Return(p, Ok(None))

FinishRelease(p) ==
  /\ call[p] # None /\ call[p].cmd = "CLOSE"
  /\ Done(p) /\ Free(call[p].file) /\ Return(p, Ok(None))

(* Broken variant: host_ret is not looked at. *)
FinishIoctlOptimist(p) ==
  /\ call[p] # None /\ call[p].cmd \notin {"OPEN", "CLOSE"}
  /\ Done(p) /\ UNCHANGED fileVars
  /\ Return(p, Ok(answer[p].value))

FinishIoctl(p) ==
  /\ call[p] # None /\ call[p].cmd \notin {"OPEN", "CLOSE"}
  /\ Done(p) /\ UNCHANGED fileVars
  /\ \/ Return(p, answer[p])
     \/ call[p].cmd # "OTHER" /\ Return(p, Err("EFAULT"))   \* copy_to_user

-----------------------------------------------------------------------------
(* The host: QEMU's main loop runs one handler at a time.                  *)
Pop(d) ==
  /\ up /\ serving = None /\ kicked[d]
  /\ kicked' = [kicked EXCEPT ![d] = FALSE]
  /\ IF avail[d] = <<>>
     THEN UNCHANGED <<avail, serving>>               \* no item to pop
     ELSE /\ serving' = [dev |-> d, proc |-> Head(avail[d]), done |-> FALSE]
          /\ avail' = [avail EXCEPT ![d] = Tail(@)]
  /\ UNCHANGED <<procVars, fileVars, lock, used, hostVars, ret, up>>

(* A request that has run, with what it wrote in the guest's memory.       *)
Ran(p, h, a) ==
  /\ serving' = [serving EXCEPT !.done = TRUE]
  /\ host' = h
  /\ answer' = [answer EXCEPT ![p] = a]
  /\ served' = served \cup {p}
  /\ UNCHANGED <<procVars, fstate, dev, lock, avail, used, kicked, ret, up>>

HostOpen(p, f) ==
  \/ \E fd \in Fds :
       /\ host[fd] = Closed
       /\ host_fd' = [host_fd EXCEPT ![f] = fd]
       /\ Ran(p, [host EXCEPT ![fd] = <<>>], Unwritten)
  \/ /\ host_fd' = [host_fd EXCEPT ![f] = None]           \* fd = -1
     /\ Ran(p, host, Unwritten)

(* Broken variant: the request is answered, the descriptor stays. *)
HostCloseForgets(p, f) ==
  /\ Ran(p, host, Unwritten)
  /\ UNCHANGED host_fd

HostClose(p, f) ==
  /\ Ran(p, [host EXCEPT ![host_fd[f]] = Closed], Unwritten)
  /\ UNCHANGED host_fd

(* The ioctls of cryptodev-linux, on the sessions of one descriptor.       *)
Without(sessions, sid) ==
  [s \in DOMAIN sessions \ {sid} |-> sessions[s]]
With(sessions, sid, key) ==
  [s \in DOMAIN sessions \cup {sid} |-> IF s = sid THEN key ELSE sessions[s]]

(* A process has a key and a text of its own, named after it.              *)
Cipher(key, text) == <<key, text>>

CreateSession(p, fd) ==
  \E sid \in Sids \ DOMAIN host[fd] :
    Ran(p, [host EXCEPT ![fd] = With(@, sid, p)], Ok(sid))

FinishSession(p, fd, sid) ==
  Ran(p, [host EXCEPT ![fd] = Without(@, sid)], Ok(None))

CryptoRun(p, fd, sid) ==
  /\ sid \in DOMAIN host[fd]
  /\ Ran(p, host, Ok(Cipher(host[fd][sid], p)))

HostIoctl(p, c) ==
  /\ LET fd == host_fd[c.file]
     IN  \/ c.cmd = "CIOCGSESSION" /\ CreateSession(p, fd)
         \/ c.cmd = "CIOCFSESSION" /\ FinishSession(p, fd, c.arg)
         \/ c.cmd = "CIOCCRYPT" /\ CryptoRun(p, fd, c.arg)
         \/ /\ c.cmd \in {"CIOCGSESSION", "CIOCCRYPT"}    \* error
            /\ Ran(p, host, Err("EPERM"))
         \/ /\ c.cmd = "OTHER"                            \* reads past out_sg
            /\ Ran(p, host, answer[p])
  /\ UNCHANGED host_fd

Syscall ==
  /\ up /\ serving # None /\ ~serving.done
  /\ LET p == serving.proc
         c == call[p]
     IN  CASE c.cmd = "OPEN"  -> HostOpen(p, c.file)
           [] c.cmd = "CLOSE" -> HostClose(p, c.file)
           [] OTHER           -> HostIoctl(p, c)

Push ==
  /\ up /\ serving # None /\ serving.done
  /\ used' = [used EXCEPT ![serving.dev] = Append(@, serving.proc)]
  /\ serving' = None
  /\ UNCHANGED <<procVars, fileVars, lock, avail, kicked, hostVars, ret, up>>

(* For an unsupported ioctl the guest sends two buffers and the handler    *)
(* reads a third: QEMU, and the guest in it, may not survive that.         *)
Crash ==
  /\ up /\ serving # None /\ ~serving.done
  /\ call[serving.proc] # None /\ call[serving.proc].cmd = "OTHER"
  /\ up' = FALSE
  /\ UNCHANGED <<procVars, fileVars, lock, ringVars, hostVars, ret>>

Down == ~up /\ UNCHANGED vars

-----------------------------------------------------------------------------
Calls(p) ==
  \/ \E f \in Files : \/ \E minor \in Minors : Open(p, f, minor)
                      \/ Release(p, f)
  \/ \E c \in Requests : Ioctl(p, c)

Driver(p) ==
  \/ AddSgs(p) \/ Kick(p) \/ GetBuf(p)
  \/ FinishOpen(p) \/ FinishRelease(p) \/ FinishIoctl(p)

Backend == (\E d \in Devices : Pop(d)) \/ Syscall \/ Push

Next ==
  \/ \E p \in Procs : Calls(p) \/ Lock(p) \/ Driver(p)
  \/ Backend \/ Crash \/ Down

Spec == Init /\ [][Next]_vars

(* Ticket spinlocks are granted in turn; processes inside the driver and   *)
(* QEMU's main loop, which takes its queues in turn, run on.               *)
FairSpec ==
  /\ Spec
  /\ \A p \in Procs : SF_vars(Lock(p)) /\ WF_vars(Driver(p))
  /\ \A d \in Devices : SF_vars(Pop(d))
  /\ WF_vars(Syscall \/ Push)

-----------------------------------------------------------------------------
Locations == {"user", "lock", "add", "kick", "wait", "copy"}

(* The types of the state; an open file has a device and a descriptor of  *)
(* QEMU: crypto_chrdev_open does not return success without one.           *)
TypeOK ==
  /\ pc \in [Procs -> Locations]
  /\ call \in [Procs -> Requests \cup {None}]
  /\ \A p \in Procs : call[p] = None <=> pc[p] = "user"
  /\ fstate \in [Files -> {"free", "opening", "open", "closing"}]
  /\ dev \in [Files -> Devices \cup {None}]
  /\ host_fd \in [Files -> Fds \cup {None}]
  /\ \A f \in Files : /\ fstate[f] # "free" => dev[f] # None
                      /\ fstate[f] \in {"open", "closing"} => host_fd[f] # None
  /\ lock \in [Devices -> Procs \cup {None}]
  /\ avail \in [Devices -> Seq(Procs)] /\ used \in [Devices -> Seq(Procs)]
  /\ kicked \in [Devices -> BOOLEAN]
  /\ serving \in Tasks \cup {None}
  /\ host \in [Fds -> Sessions \cup {Closed}]
  /\ answer \in [Procs -> Answers] /\ served \subseteq Procs
  /\ ret \in [Procs -> Answers \cup {None}] /\ up \in BOOLEAN

(* A virtqueue holds one request at a time, at the host or answered, and   *)
(* it is the one of the process that has the device's lock: a full queue,  *)
(* whose error nobody looks at, does not occur.                            *)
RingHasHolderOnly ==
  \A d \in Devices :
    /\ InFlight(d) <= 1
    /\ \A p \in Procs :
         p \in Range(avail[d]) \cup Range(used[d]) => lock[d] = p

(* Whoever stops waiting has his own request answered: virtqueue_get_buf,  *)
(* whose result only tells that something was answered, never returns a    *)
(* buffer of somebody else's.                                              *)
AnswerIsOwn ==
  \A p \in Procs : pc[p] = "copy" => p \in served

(* A file has its descriptor until QEMU has executed its close.            *)
HasHost(f) ==
  host_fd[f] # None /\ ~(fstate[f] = "closing" /\ Callers(f) \cap served # {})

(* QEMU's descriptors of /dev/crypto and the guest's files correspond one  *)
(* to one, whatever opens fail and descriptors are reused: none is leaked, *)
(* none is closed under a file that still has it.                          *)
HostFilesOwned ==
  /\ {fd \in Fds : host[fd] # Closed} =
       {host_fd[f] : f \in {g \in Files : HasHost(g)}}
  /\ \A f, g \in Files :
       HasHost(f) /\ HasHost(g) /\ host_fd[f] = host_fd[g] => f = g

(* What a call that has been executed is going to return.                  *)
Result(p) ==
  CASE call[p].cmd = "OPEN"  -> IF host_fd[call[p].file] = None
                                THEN Err("ENODEV") ELSE Ok(None)
    [] call[p].cmd = "CLOSE" -> Ok(None)
    [] OTHER                 -> answer[p]

Outcome == [p \in Procs |-> IF p \in served THEN Result(p) ELSE None]
Table   == [f \in Files |-> IF HasHost(f) THEN host[host_fd[f]] ELSE Closed]

Service == INSTANCE CryptoService WITH
  calls <- call, outcome <- Outcome, table <- Table

(* The guest's files behave as files of a /dev/crypto of its own: each call*)
(* of crypto_chrdev_open, _release and _ioctl takes effect on the host     *)
(* once, on the sessions of its own file, and returns that effect's answer.*)
LocalCryptodev == Service!ServiceSpec
=============================================================================
