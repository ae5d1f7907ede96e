---------------------------- MODULE LunixChrdev ----------------------------
(***************************************************************************)
(* One Lunix:TNG sensor and the open files of its character device.        *)
(*                                                                         *)
(* The line discipline runs lunix_sensor_update (lunix-sensors.c), which   *)
(* writes the measurement and its timestamp under the sensor's spinlock    *)
(* and wakes the sleepers.  Processes run lunix_chrdev_read                *)
(* (lunix-chrdev.c) on open files they may share after a fork: each open   *)
(* file has a semaphore, a formatted copy of one measurement and the       *)
(* timestamp that copy was taken with.                                     *)
(*                                                                         *)
(* One measurement type is modelled: the three types of a sensor are       *)
(* written together and differ only in the page they are written to.  The  *)
(* raw value of the n-th update is n itself, so that a value tells which   *)
(* measurement it is; TextLen gives the length of its formatted text.      *)
(***************************************************************************)
EXTENDS Integers

CONSTANTS
  Procs,        \* user processes
  Files,        \* open file descriptions (struct file)
  Writer,       \* the line discipline, as owner of the spinlock
  NoOne,        \* owner of a free spinlock
  MaxClock,     \* bound: last second get_seconds() returns
  MaxUpdates,   \* bound: number of measurements the sensor sends
  MaxPos,       \* bound: file position beyond which no read is taken
  TextLen,      \* length of the text of each measurement
  Counts,       \* byte counts read(2) is called with
  PosCopied     \* does read(2) hand the driver a private copy of the
                \* file position and store it back when the driver returns?

ASSUME ChrdevAssumption ==
  /\ Writer # NoOne /\ Writer \notin Procs /\ NoOne \notin Procs
  /\ MaxClock \in Nat \ {0} /\ MaxUpdates \in Nat /\ MaxPos \in Nat
  /\ TextLen \in [0..MaxUpdates -> Nat \ {0}]
  /\ Counts \subseteq Nat
  /\ PosCopied \in BOOLEAN

VARIABLES
  now,            \* get_seconds()
  values,         \* msr_data[type]->values[0]
  last_update,    \* msr_data[type]->last_update
  lock,           \* owner of sensor->lock
  wpc,            \* where lunix_sensor_update is
  wq,             \* processes queued on sensor->wq
  holders,        \* processes with a descriptor of the open file
  nonblock,       \* filp->f_flags & O_NONBLOCK
  f_pos,          \* position of the open file
  sem,            \* state->lock, a semaphore
  buf_timestamp,  \* state->buf_timestamp
  buf_data,       \* measurement whose text is in state->buf_data
  buf_lim,        \* state->buf_lim
  pc,             \* where each process is in lunix_chrdev_read
  file,           \* the open file the process reads
  pos,            \* *f_pos as the process sees it when PosCopied
  value,          \* local of lunix_chrdev_state_update
  current_timestamp, \* local of lunix_chrdev_state_update
  stamp,          \* history: the second each measurement was stamped with
  shared,         \* history: open files that were shared since they were opened
  given           \* history: measurement the last bytes of the file came from

sensorVars == <<values, last_update, wpc, stamp>>
fileVars   == <<holders, nonblock, shared>>
bufVars    == <<buf_timestamp, buf_data, buf_lim>>
localVars  == <<value, current_timestamp>>
posVars    == <<f_pos, pos, given>>
vars == <<now, sensorVars, lock, wq, fileVars, sem, bufVars, pc, file,
          localVars, posVars>>

WriterPCs == {"idle", "values", "stamp", "unlock", "wake"}
ReaderPCs == {"idle", "down", "redown", "grab", "stamp", "check", "format",
              "wait", "test", "sleep", "copy", "up", "fail", "return"}

(* Where a process holds the semaphore of the file it reads. *)
Inside == {"grab", "stamp", "check", "format", "copy", "up", "fail"}

Move(p, from, to) ==
  /\ pc[p] = from
  /\ pc' = [pc EXCEPT ![p] = to]

(* lunix_chrdev_state_needs_refresh: an unlocked look at the timestamp. *)
NeedsRefresh(f) == last_update # buf_timestamp[f]

(* *f_pos in lunix_chrdev_read. *)
Pos(p) == IF PosCopied THEN pos[p] ELSE f_pos[file[p]]

Init ==
  /\ now = 1
  /\ values = 0 /\ last_update = 0       \* get_zeroed_page
  /\ lock = NoOne /\ wpc = "idle" /\ wq = {}
  /\ holders = [f \in Files |-> {}]
  /\ nonblock = [f \in Files |-> FALSE]
  /\ f_pos = [f \in Files |-> 0]
  /\ sem = [f \in Files |-> 1]
  /\ buf_timestamp = [f \in Files |-> 0]
  /\ buf_data = [f \in Files |-> 0]
  /\ buf_lim = [f \in Files |-> 0]
  /\ pc = [p \in Procs |-> "idle"]
  /\ file \in [Procs -> Files]
  /\ pos = [p \in Procs |-> 0]
  /\ value = [p \in Procs |-> 0]
  /\ current_timestamp = [p \in Procs |-> 0]
  /\ stamp = [m \in 0..MaxUpdates |-> 0]
  /\ given = [f \in Files |-> 0]
  /\ shared = {}

Tick ==
  /\ now < MaxClock
  /\ now' = now + 1
  /\ UNCHANGED <<sensorVars, lock, wq, fileVars, sem, bufVars, pc, file,
                 localVars, posVars>>

-----------------------------------------------------------------------------
(* lunix_sensor_update; the tty layer never re-enters it. *)

WriterMove(from, to) ==
  /\ wpc = from
  /\ wpc' = to
  /\ UNCHANGED <<now, fileVars, sem, bufVars, pc, file, localVars, posVars>>

UpdateLock ==
  /\ values < MaxUpdates
  /\ lock = NoOne
  /\ lock' = Writer
  /\ WriterMove("idle", "values")
  /\ UNCHANGED <<values, last_update, stamp, wq>>

UpdateValues ==
  /\ values' = values + 1
  /\ WriterMove("values", "stamp")
  /\ UNCHANGED <<last_update, stamp, lock, wq>>

UpdateStamp ==
  /\ last_update' = now
  /\ stamp' = [stamp EXCEPT ![values] = now]
  /\ WriterMove("stamp", "unlock")
  /\ UNCHANGED <<values, lock, wq>>

UpdateUnlock ==
  /\ lock' = NoOne
  /\ WriterMove("unlock", "wake")
  /\ UNCHANGED <<values, last_update, stamp, wq>>

(* Broken variants, for checking that the properties notice them: a wake   *)
(* that picks one sleeper, and an update that forgets to wake.             *)
UpdateWakeOne ==
  /\ wq' = IF wq = {} THEN {} ELSE wq \ {CHOOSE p \in wq : TRUE}
  /\ WriterMove("wake", "idle")
  /\ UNCHANGED <<values, last_update, stamp, lock>>

UpdateWakeNobody ==
  /\ WriterMove("wake", "idle")
  /\ UNCHANGED <<values, last_update, stamp, lock, wq>>

UpdateWake ==                 \* wake_up_interruptible empties the queue
  /\ wq' = {}
  /\ WriterMove("wake", "idle")
  /\ UNCHANGED <<values, last_update, stamp, lock>>

SensorUpdate ==
  UpdateLock \/ UpdateValues \/ UpdateStamp \/ UpdateUnlock \/ UpdateWake

-----------------------------------------------------------------------------
(* Descriptors. *)

Open(p, f) ==
  /\ pc[p] = "idle" /\ holders[f] = {}
  /\ holders' = [holders EXCEPT ![f] = {p}]
  /\ \E b \in BOOLEAN : nonblock' = [nonblock EXCEPT ![f] = b]
  /\ f_pos' = [f_pos EXCEPT ![f] = 0]
  /\ buf_lim' = [buf_lim EXCEPT ![f] = 0]
  /\ buf_timestamp' = [buf_timestamp EXCEPT ![f] = 0]
  /\ buf_data' = [buf_data EXCEPT ![f] = 0]
  /\ sem' = [sem EXCEPT ![f] = 1]
  /\ given' = [given EXCEPT ![f] = 0]
  /\ shared' = shared \ {f}
  /\ UNCHANGED <<now, sensorVars, lock, wq, pc, file, localVars, pos>>

Fork(p, q, f) ==
  /\ pc[p] = "idle" /\ p \in holders[f] /\ q \notin holders[f]
  /\ holders' = [holders EXCEPT ![f] = @ \cup {q}]
  /\ shared' = shared \cup {f}
  /\ UNCHANGED <<now, sensorVars, lock, wq, nonblock, sem, bufVars, pc, file,
                 localVars, posVars>>

(* The last close runs lunix_chrdev_release, which frees the state: it is  *)
(* not looked at again before the next open sets every field.              *)
Close(p, f) ==
  /\ pc[p] = "idle" /\ p \in holders[f]
  /\ holders' = [holders EXCEPT ![f] = @ \ {p}]
  /\ UNCHANGED <<now, sensorVars, lock, wq, nonblock, shared, sem, bufVars, pc,
                 file, localVars, posVars>>

-----------------------------------------------------------------------------
(* lunix_chrdev_read and the system call around it. *)

Enter(p, f) ==
  /\ p \in holders[f]
  /\ Move(p, "idle", "down")
  /\ file' = [file EXCEPT ![p] = f]
  /\ pos' = [pos EXCEPT ![p] = f_pos[f]]
  /\ UNCHANGED <<now, sensorVars, lock, wq, fileVars, sem, bufVars,
                 localVars, f_pos, given>>

(* Broken variants of Down: one updates whatever the position is, one      *)
(* forgets to take the semaphore back after the sleep.                     *)
DownIgnoresPosition(p) ==
  /\ sem[file[p]] = 1
  /\ sem' = [sem EXCEPT ![file[p]] = 0]
  /\ Move(p, "down", "grab") \/ Move(p, "redown", "grab")
  /\ UNCHANGED <<now, sensorVars, lock, wq, fileVars, bufVars, file,
                 localVars, posVars>>

DownOnlyOnce(p) ==
  /\ \/ /\ sem[file[p]] = 1
        /\ sem' = [sem EXCEPT ![file[p]] = 0]
        /\ Move(p, "down", IF Pos(p) = 0 THEN "grab" ELSE "copy")
     \/ Move(p, "redown", "grab") /\ UNCHANGED sem
  /\ UNCHANGED <<now, sensorVars, lock, wq, fileVars, bufVars, file,
                 localVars, posVars>>

(* The file position is looked at once, the first time the semaphore is    *)
(* taken: a process that slept goes back to the update.                    *)
Down(p) ==
  /\ sem[file[p]] = 1
  /\ sem' = [sem EXCEPT ![file[p]] = 0]
  /\ \/ Move(p, "down", IF Pos(p) = 0 THEN "grab" ELSE "copy")
     \/ Move(p, "redown", "grab")
  /\ UNCHANGED <<now, sensorVars, lock, wq, fileVars, bufVars, file,
                 localVars, posVars>>

(* Broken variant: the signal path gives back a semaphore it never took. *)
InterruptUps(p) ==
  /\ pc[p] \in {"down", "redown", "sleep"}
  /\ pc' = [pc EXCEPT ![p] = "idle"]
  /\ wq' = wq \ {p}
  /\ sem' = [sem EXCEPT ![file[p]] = @ + 1]
  /\ UNCHANGED <<now, sensorVars, lock, fileVars, bufVars, file, localVars,
                 posVars>>

(* A signal while the process waits: -ERESTARTSYS. *)
Interrupt(p) ==
  /\ pc[p] \in {"down", "redown", "sleep"}
  /\ pc' = [pc EXCEPT ![p] = "idle"]
  /\ wq' = wq \ {p}
  /\ UNCHANGED <<now, sensorVars, lock, fileVars, sem, bufVars, file,
                 localVars, posVars>>

(* Broken variant: the pair is read without the spinlock. *)
GrabValueUnlocked(p) ==
  /\ value' = [value EXCEPT ![p] = values]
  /\ Move(p, "grab", "stamp")
  /\ UNCHANGED <<now, sensorVars, lock, wq, fileVars, sem, bufVars, file,
                 current_timestamp, posVars>>

(* lunix_chrdev_state_update: the pair is read under the spinlock ... *)
GrabValue(p) ==
  /\ lock = NoOne
  /\ lock' = p
  /\ value' = [value EXCEPT ![p] = values]
  /\ Move(p, "grab", "stamp")
  /\ UNCHANGED <<now, sensorVars, wq, fileVars, sem, bufVars, file,
                 current_timestamp, posVars>>

GrabStamp(p) ==
  /\ current_timestamp' = [current_timestamp EXCEPT ![p] = last_update]
  /\ lock' = NoOne
  /\ Move(p, "stamp", "check")
  /\ UNCHANGED <<now, sensorVars, wq, fileVars, sem, bufVars, file, value,
                 posVars>>

(* ... and compared with the live timestamp after the spinlock is free. *)
CheckFresh(p) ==
  /\ NeedsRefresh(file[p])
  /\ Move(p, "check", "format")
  /\ UNCHANGED <<now, sensorVars, lock, wq, fileVars, sem, bufVars, file,
                 localVars, posVars>>

(* Broken variant: O_NONBLOCK returns before the semaphore is given back. *)
CheckStaleKeepsSemaphore(p) ==
  /\ ~NeedsRefresh(file[p])
  /\ \/ /\ nonblock[file[p]]
        /\ Move(p, "check", "idle")
        /\ UNCHANGED sem
     \/ /\ ~nonblock[file[p]]
        /\ Move(p, "check", "wait")
        /\ sem' = [sem EXCEPT ![file[p]] = 1]
  /\ UNCHANGED <<now, sensorVars, lock, wq, fileVars, bufVars, file,
                 localVars, posVars>>

(* -EAGAIN: give the semaphore back, then return or go to sleep. *)
CheckStale(p) ==
  /\ ~NeedsRefresh(file[p])
  /\ Move(p, "check", IF nonblock[file[p]] THEN "idle" ELSE "wait")
  /\ sem' = [sem EXCEPT ![file[p]] = 1]
  /\ UNCHANGED <<now, sensorVars, lock, wq, fileVars, bufVars, file,
                 localVars, posVars>>

Format(p) ==
  /\ Move(p, "format", "copy")
  /\ buf_timestamp' = [buf_timestamp EXCEPT ![file[p]] = current_timestamp[p]]
  /\ buf_data' = [buf_data EXCEPT ![file[p]] = value[p]]
  /\ buf_lim' = [buf_lim EXCEPT ![file[p]] = TextLen[value[p]]]
  /\ UNCHANGED <<now, sensorVars, lock, wq, fileVars, sem, file, localVars,
                 posVars>>

(* wait_event_interruptible: queue, test the condition, sleep; a woken     *)
(* process queues again and tests again.                                   *)
Wait(p) ==
  /\ Move(p, "wait", "test")
  /\ wq' = wq \cup {p}
  /\ UNCHANGED <<now, sensorVars, lock, fileVars, sem, bufVars, file,
                 localVars, posVars>>

Test(p) ==
  /\ \/ /\ NeedsRefresh(file[p])
        /\ Move(p, "test", "redown")
        /\ wq' = wq \ {p}
     \/ /\ ~NeedsRefresh(file[p])
        /\ Move(p, "test", "sleep")
        /\ UNCHANGED wq
  /\ UNCHANGED <<now, sensorVars, lock, fileVars, sem, bufVars, file,
                 localVars, posVars>>

Awake(p) ==
  /\ p \notin wq
  /\ Move(p, "sleep", "wait")
  /\ UNCHANGED <<now, sensorVars, lock, wq, fileVars, sem, bufVars, file,
                 localVars, posVars>>

(* cnt is an unsigned size_t and remaining_bytes a signed ssize_t: when    *)
(* the position is beyond buf_lim the comparison leaves cnt as it is.      *)
Transferred(f, at, cnt) ==
  LET remaining_bytes == buf_lim[f] - at
  IN  IF remaining_bytes >= 0 /\ cnt >= remaining_bytes
        THEN remaining_bytes ELSE cnt

Rewind(f, at) == IF at = buf_lim[f] THEN 0 ELSE at

Copy(p) ==
  LET f == file[p]
  IN  /\ \/ \E cnt \in Counts :
              LET new == Rewind(f, Pos(p) + Transferred(f, Pos(p), cnt))
              IN  /\ new <= MaxPos
                  /\ Move(p, "copy", "up")
                  /\ pos' = [pos EXCEPT ![p] = new]
                  /\ f_pos' = IF PosCopied THEN f_pos
                              ELSE [f_pos EXCEPT ![f] = new]
                  /\ given' = [given EXCEPT ![f] = buf_data[f]]
         \/ /\ Move(p, "copy", "fail")         \* copy_to_user: -EFAULT
            /\ UNCHANGED posVars
      /\ UNCHANGED <<now, sensorVars, lock, wq, fileVars, sem, bufVars, file,
                     localVars>>

Up(p) ==
  /\ Move(p, "up", "return") \/ Move(p, "fail", "idle")
  /\ sem' = [sem EXCEPT ![file[p]] = 1]
  /\ UNCHANGED <<now, sensorVars, lock, wq, fileVars, bufVars, file,
                 localVars, posVars>>

Return(p) ==
  /\ Move(p, "return", "idle")
  /\ f_pos' = IF PosCopied THEN [f_pos EXCEPT ![file[p]] = pos[p]] ELSE f_pos
  /\ UNCHANGED <<now, sensorVars, lock, wq, fileVars, sem, bufVars, file,
                 localVars, pos, given>>

(* The steps a process inside read(2) takes without help from a user. *)
Read(p) ==
  \/ Down(p) \/ GrabValue(p) \/ GrabStamp(p) \/ CheckFresh(p)
  \/ CheckStale(p) \/ Format(p) \/ Wait(p) \/ Test(p) \/ Awake(p)
  \/ Copy(p) \/ Up(p) \/ Return(p)

Next ==
  \/ Tick
  \/ SensorUpdate
  \/ \E p \in Procs : Read(p) \/ Interrupt(p)
  \/ \E p \in Procs, f \in Files : Open(p, f) \/ Close(p, f) \/ Enter(p, f)
  \/ \E p, q \in Procs, f \in Files : Fork(p, q, f)

Spec == Init /\ [][Next]_vars

(* The tty worker runs, a running system call goes on, and both locks are  *)
(* served in order of arrival (ticket spinlock, FIFO semaphore): a process *)
(* that keeps asking for one gets it.                                      *)
Fairness ==
  /\ WF_vars(SensorUpdate /\ wpc # "idle")
  /\ \A p \in Procs : /\ SF_vars(Down(p)) /\ SF_vars(GrabValue(p))
                      /\ WF_vars(Read(p))

FairSpec == Spec /\ Fairness

-----------------------------------------------------------------------------
(* The variables have the types of the structures they stand for. *)
TypeOK ==
  /\ now \in 1..MaxClock
  /\ values \in 0..MaxUpdates /\ last_update \in 0..MaxClock
  /\ lock \in Procs \cup {Writer, NoOne}
  /\ wpc \in WriterPCs
  /\ wq \subseteq Procs
  /\ holders \in [Files -> SUBSET Procs]
  /\ nonblock \in [Files -> BOOLEAN] /\ shared \subseteq Files
  /\ f_pos \in [Files -> 0..MaxPos]
  /\ sem \in [Files -> {0, 1}]
  /\ buf_timestamp \in [Files -> 0..MaxClock]
  /\ buf_data \in [Files -> 0..MaxUpdates]
  /\ buf_lim \in [Files -> Nat]
  /\ pc \in [Procs -> ReaderPCs]
  /\ file \in [Procs -> Files]
  /\ pos \in [Procs -> 0..MaxPos]
  /\ value \in [Procs -> 0..MaxUpdates]
  /\ current_timestamp \in [Procs -> 0..MaxClock]
  /\ stamp \in [0..MaxUpdates -> 0..MaxClock]
  /\ given \in [Files -> 0..MaxUpdates]

(* The semaphore of an open file is held by at most one process, and it is *)
(* free exactly when no process is inside: no path of lunix_chrdev_read,   *)
(* with its three early returns and its sleep, leaves with it or gives it  *)
(* back twice.                                                             *)
SemaphoreExclusive ==
  /\ \A p, q \in Procs :
       pc[p] \in Inside /\ pc[q] \in Inside /\ file[p] = file[q] => p = q
  /\ \A p \in Procs : pc[p] \in Inside => sem[file[p]] = 0
  /\ \A f \in Files :
       holders[f] # {} /\ sem[f] = 0
         => \E p \in Procs : pc[p] \in Inside /\ file[p] = f

(* A measurement and a timestamp that a process or an open file holds      *)
(* together were written together by one lunix_sensor_update: the pair is  *)
(* only touched under the spinlock.                                        *)
PairsGoTogether ==
  /\ \A p \in Procs :
       pc[p] \in {"check", "format"} => current_timestamp[p] = stamp[value[p]]
  /\ \A f \in Files :
       holders[f] # {} => buf_timestamp[f] = stamp[buf_data[f]]

(* A process that sleeps on the sensor's queue although its file could be  *)
(* refreshed is about to be woken: no interleaving of the unlocked test in *)
(* wait_event_interruptible, of another reader of the file and of the      *)
(* update loses the wakeup.                                                *)
NoLostWakeup ==
  \A p \in Procs :
    pc[p] = "sleep" /\ p \in wq /\ NeedsRefresh(file[p])
      => wpc \in {"unlock", "wake"}

(* A position inside a text points into the text the bytes before it were  *)
(* taken from, and not past its end.                                       *)
Untorn(f) ==
  holders[f] # {} /\ f_pos[f] > 0
    => given[f] = buf_data[f] /\ f_pos[f] < buf_lim[f]

(* Short reads of an open file that was never shared do not mix the text   *)
(* of two measurements.                                                    *)
TextNotTorn == \A f \in Files \ shared : Untorn(f)

(* Nor do reads of a shared one: the semaphore keeps a child from changing *)
(* the position under its father.                                          *)
SharedTextNotTorn == \A f \in Files : Untorn(f)

(* What an open file shows never goes back to an earlier measurement:      *)
(* values are read inside the file's semaphore, in the order they are      *)
(* formatted.                                                              *)
NeverBackwards ==
  [][\A f \in Files : holders[f] # {} => buf_data'[f] >= buf_data[f]]_vars

(* A blocked reader of a file with fresh data gets out of the driver, or   *)
(* another reader of the same file takes the fresh data.                   *)
BlockedReaderServed ==
  \A p \in Procs, f \in Files :
    (file[p] = f /\ pc[p] # "idle" /\ NeedsRefresh(f))
      ~> (pc[p] = "idle" \/ ~NeedsRefresh(f))
=============================================================================
