--------------------------- MODULE CryptodevJobs ---------------------------
(***************************************************************************)
(* The asynchronous jobs of one open file of /dev/crypto (cryptodev-linux, *)
(* ioctl.c built with ENABLE_ASYNC): calls submit jobs and fetch their     *)
(* results, the worker runs them, poll waits for either, and the release   *)
(* of the file ends it all.  What a job does in its session is that of     *)
(* CryptodevSessions.                                                      *)
(***************************************************************************)
EXTENDS Integers, Sequences, FiniteSets

CONSTANTS
  Procs,               \* threads that share the file
  DEF_COP_RINGSIZE,    \* items a file starts with (16 in the code)
  MAX_COP_RINGSIZE,    \* items it may have (64 in the code)
  MaxJobs              \* bound: jobs submitted in the life of a file

ASSUME JobsAssumption ==
  /\ IsFiniteSet(Procs)
  /\ DEF_COP_RINGSIZE \in Nat /\ MAX_COP_RINGSIZE \in Nat
  /\ DEF_COP_RINGSIZE <= MAX_COP_RINGSIZE
  /\ MaxJobs \in Nat

VARIABLES
  file,               \* "closed", "open" or "releasing"
  pc,                 \* per thread: where its call is
  free, itemcount,    \* items of the free list, and items of the file
  todo, tmp, done,    \* the jobs waiting, being run, and finished
  pending,            \* the work is queued
  worker,             \* where cryptask_routine is
  woken,              \* threads woken since they last looked
  submitted,          \* history: jobs entered in todo; they are numbered
  fetched,            \*   jobs taken from done, in order
  unbacked            \*   items counted that kzalloc did not provide

jobs    == <<todo, tmp, done>>
history == <<submitted, fetched, unbacked>>
vars    == <<file, pc, free, itemcount, jobs, pending, worker, woken, history>>

Init ==
  /\ file = "closed" /\ pc = [p \in Procs |-> "idle"]
  /\ free = 0 /\ itemcount = 0
  /\ todo = <<>> /\ tmp = <<>> /\ done = <<>>
  /\ pending = FALSE /\ worker = "idle" /\ woken = {}
  /\ submitted = 0 /\ fetched = <<>> /\ unbacked = 0

Move(p, from, to) == pc[p] = from /\ pc' = [pc EXCEPT ![p] = to]

-----------------------------------------------------------------------------
(* cryptodev_open fills the ring, or frees what it allocated and fails.    *)
Open ==
  /\ file = "closed" /\ file' = "open"
  /\ free' = DEF_COP_RINGSIZE /\ itemcount' = DEF_COP_RINGSIZE
  /\ submitted' = 0 /\ fetched' = <<>> /\ unbacked' = 0
  /\ UNCHANGED <<pc, jobs, pending, worker, woken>>

-----------------------------------------------------------------------------
(* crypto_async_run: take an item off the free list, or count a new one.   *)
TakeItem(p) ==
  /\ file = "open" /\ pc[p] = "idle" /\ submitted < MaxJobs
  /\ \/ /\ free > 0 /\ free' = free - 1
        /\ Move(p, "idle", "queue") /\ UNCHANGED itemcount
     \/ /\ free = 0 /\ itemcount < MAX_COP_RINGSIZE
        /\ itemcount' = itemcount + 1
        /\ Move(p, "idle", "alloc") /\ UNCHANGED free
     \* otherwise -EBUSY
  /\ UNCHANGED <<file, jobs, pending, worker, woken, history>>

(* kzalloc of the new item may fail; the count stays.                      *)
Alloc(p) ==
  /\ \/ Move(p, "alloc", "queue") /\ UNCHANGED unbacked
     \/ Move(p, "alloc", "idle") /\ unbacked' = unbacked + 1
  /\ UNCHANGED <<file, free, itemcount, jobs, pending, worker, woken,
                 submitted, fetched>>

(* Broken variant: the job goes to the head of the list. *)
AddTodoFirst(p) ==
  /\ Move(p, "queue", "kick")
  /\ submitted' = submitted + 1 /\ todo' = <<submitted'>> \o todo
  /\ UNCHANGED <<file, free, itemcount, tmp, done, pending, worker, woken,
                 fetched, unbacked>>

AddTodo(p) ==
  /\ Move(p, "queue", "kick")
  /\ submitted' = submitted + 1 /\ todo' = Append(todo, submitted')
  /\ UNCHANGED <<file, free, itemcount, tmp, done, pending, worker, woken,
                 fetched, unbacked>>

(* Broken variant: the work is queued only when it is not running. *)
KickIdle(p) ==
  /\ Move(p, "kick", "idle") /\ pending' = (worker = "idle" \/ pending)
  /\ UNCHANGED <<file, free, itemcount, jobs, worker, woken, history>>

(* queue_work. *)
Kick(p) ==
  /\ Move(p, "kick", "idle") /\ pending' = TRUE
  /\ UNCHANGED <<file, free, itemcount, jobs, worker, woken, history>>

-----------------------------------------------------------------------------
(* The work queue starts cryptask_routine, one at a time for a file.       *)
StartWork ==
  /\ pending /\ worker = "idle"
  /\ pending' = FALSE /\ worker' = "cut"
  /\ UNCHANGED <<file, pc, free, itemcount, jobs, woken, history>>

(* It takes all that waits, runs it without a lock ...                     *)
Cut ==
  /\ worker = "cut" /\ worker' = "run"
  /\ tmp' = todo /\ todo' = <<>>
  /\ UNCHANGED <<file, pc, free, itemcount, done, pending, woken, history>>

(* ... and hands all of it over at once.                                   *)
Splice ==
  /\ worker = "run" /\ worker' = "wake"
  /\ done' = done \o tmp /\ tmp' = <<>>
  /\ UNCHANGED <<file, pc, free, itemcount, todo, pending, woken, history>>

(* wake_up_interruptible: sleepers look again, and so does who is about to *)
(* sleep.                                                                  *)
Polling == {"look_in", "look_out"}
Asleep  == {"sleep_in", "sleep_out"}
Woken(p) == CASE pc[p] = "sleep_in"  -> "look_in"
              [] pc[p] = "sleep_out" -> "look_out"
              [] OTHER               -> pc[p]

WakeUp == woken' = woken \cup {p \in Procs : pc[p] \in Polling}

EndWork ==
  /\ worker = "wake" /\ worker' = "idle"
  /\ pc' = [p \in Procs |-> Woken(p)] /\ WakeUp
  /\ UNCHANGED <<file, free, itemcount, jobs, pending, history>>

-----------------------------------------------------------------------------
(* crypto_async_fetch: take the first finished job, or return -EBUSY; copy *)
(* it, put the item back in the free list, and wake who waits for one.     *)
Fetch(p) ==
  /\ file = "open" /\ done # <<>> /\ Move(p, "idle", "refree")
  /\ done' = Tail(done) /\ fetched' = Append(fetched, Head(done))
  /\ UNCHANGED <<file, free, itemcount, todo, tmp, pending, worker, woken,
                 submitted, unbacked>>

(* Broken variant: the item is not put back. *)
RefreeNot(p) ==
  /\ Move(p, "refree", "wake") /\ free' = free
  /\ UNCHANGED <<file, itemcount, jobs, pending, worker, woken, history>>

Refree(p) ==
  /\ Move(p, "refree", "wake") /\ free' = free + 1
  /\ UNCHANGED <<file, itemcount, jobs, pending, worker, woken, history>>

(* Broken variant: nobody is woken. *)
EndFetchQuietly(p) ==
  /\ Move(p, "wake", "idle")
  /\ UNCHANGED <<file, free, itemcount, jobs, pending, worker, woken, history>>

EndFetch(p) ==
  /\ pc[p] = "wake"
  /\ pc' = [q \in Procs |-> IF q = p THEN "idle" ELSE Woken(q)] /\ WakeUp
  /\ UNCHANGED <<file, free, itemcount, jobs, pending, worker, history>>

-----------------------------------------------------------------------------
Readable == done # <<>>
Writable == free > 0 \/ itemcount < MAX_COP_RINGSIZE
Ready(p) == IF pc[p] \in {"look_in", "sleep_in"} THEN Readable ELSE Writable

(* cryptodev_poll: wait queue first, then the lists, without their locks.  *)
Poll(p) ==
  /\ file = "open"
  /\ Move(p, "idle", "look_in") \/ Move(p, "idle", "look_out")
  /\ woken' = woken \ {p}
  /\ UNCHANGED <<file, free, itemcount, jobs, pending, worker, history>>

(* The kernel sleeps after a look that found nothing, unless woken since.  *)
Look(p) ==
  /\ pc[p] \in Polling
  /\ \/ Ready(p) /\ pc' = [pc EXCEPT ![p] = "idle"]
     \/ ~Ready(p) /\ p \in woken /\ UNCHANGED pc
     \/ /\ ~Ready(p) /\ p \notin woken
        /\ \/ Move(p, "look_in", "sleep_in")
           \/ Move(p, "look_out", "sleep_out")
  /\ woken' = woken \ {p}
  /\ UNCHANGED <<file, free, itemcount, jobs, pending, worker, history>>

(* A signal ends the sleep. *)
Interrupt(p) ==
  /\ pc[p] \in Asleep /\ pc' = [pc EXCEPT ![p] = "idle"]
  /\ UNCHANGED <<file, free, itemcount, jobs, pending, worker, woken, history>>

-----------------------------------------------------------------------------
(* The last reference is gone.  cryptodev_release cancels the work, waits  *)
(* for the running one, ...                                                *)
Release ==
  /\ file = "open" /\ \A p \in Procs : pc[p] = "idle"
  /\ file' = "releasing" /\ pending' = FALSE
  /\ UNCHANGED <<pc, free, itemcount, jobs, worker, woken, history>>

(* Broken variant: the running work is not waited for. *)
FreeItemsAtOnce ==
  /\ file = "releasing" /\ file' = "closed"
  /\ todo' = <<>> /\ done' = <<>> /\ free' = 0 /\ itemcount' = 0
  /\ UNCHANGED <<pc, tmp, pending, worker, woken, history>>

(* ... and frees the items of the three lists, unfetched jobs and all.     *)
FreeItems ==
  /\ file = "releasing" /\ worker = "idle" /\ file' = "closed"
  /\ todo' = <<>> /\ done' = <<>> /\ free' = 0 /\ itemcount' = 0
  /\ UNCHANGED <<pc, tmp, pending, worker, woken, history>>

-----------------------------------------------------------------------------
Call(p) == TakeItem(p) \/ Fetch(p) \/ Poll(p)

Step(p) ==
  Alloc(p) \/ AddTodo(p) \/ Kick(p) \/ Refree(p) \/ EndFetch(p) \/ Look(p)

Work == StartWork \/ Cut \/ Splice \/ EndWork

Next ==
  \/ Open \/ Release \/ FreeItems \/ Work
  \/ \E p \in Procs : Call(p) \/ Step(p) \/ Interrupt(p)

Spec == Init /\ [][Next]_vars

(* The work queue runs what is queued, and a call that is not blocked      *)
(* returns; nobody has to make a call.                                     *)
Fairness == WF_vars(Work) /\ \A p \in Procs : WF_vars(Step(p))

FairSpec == Spec /\ Fairness

-----------------------------------------------------------------------------
Labels == Polling \cup Asleep \cup
          {"idle", "alloc", "queue", "kick", "refree", "wake"}

(* Type invariant: a file has at most MAX_COP_RINGSIZE items.              *)
TypeOK ==
  /\ file \in {"closed", "open", "releasing"}
  /\ pc \in [Procs -> Labels]
  /\ free \in Nat /\ itemcount \in 0..MAX_COP_RINGSIZE
  /\ todo \in Seq(Nat) /\ tmp \in Seq(Nat) /\ done \in Seq(Nat)
  /\ pending \in BOOLEAN /\ worker \in {"idle", "cut", "run", "wake"}
  /\ woken \subseteq Procs
  /\ submitted \in Nat /\ fetched \in Seq(Nat) /\ unbacked \in Nat

(* Items a call has in its hands. *)
InHand == {p \in Procs : pc[p] \in {"alloc", "queue", "refree"}}

(* Every item of an open file is in one of its lists or in the hands of a  *)
(* call, but for those kzalloc refused after they were counted: the loss   *)
(* the message of cryptodev_release is about has no other cause.           *)
ItemsAccounted ==
  file # "closed" =>
    free + Len(todo) + Len(tmp) + Len(done) + Cardinality(InHand) + unbacked
      = itemcount

(* Jobs are run and fetched once each, in the order in which they were     *)
(* submitted, whatever lists they pass through and however many threads    *)
(* submit and fetch.                                                       *)
OnceAndInOrder ==
  file # "closed" =>
    fetched \o done \o tmp \o todo = [j \in 1..submitted |-> j]

(* Nobody sleeps in poll on what is already there, unless who brought it   *)
(* is about to wake him: poll joins the wait queue before it looks.        *)
NoLostWakeup ==
  \A p \in Procs :
    /\ pc[p] = "sleep_in" /\ Readable => worker = "wake"
    /\ pc[p] = "sleep_out" /\ Writable => \E q \in Procs : pc[q] = "wake"

(* Once the file is freed no work of it runs or is queued, and no job is   *)
(* left behind: cancel_work_sync waits for the running work.               *)
NothingOutlivesFile ==
  file = "closed" => /\ worker = "idle" /\ ~pending
                     /\ todo = <<>> /\ tmp = <<>> /\ done = <<>>

(* A submitted job finishes, unless the file is closed first: its work is  *)
(* queued after it is in the list, also while the work is running.         *)
Finished(j) == \E i \in DOMAIN done : done[i] = j

JobsFinish ==
  \A j \in 1..MaxJobs :
    (\E i \in DOMAIN todo : todo[i] = j)
      ~> Finished(j) \/ j <= Len(fetched) \/ file # "open"
=============================================================================
