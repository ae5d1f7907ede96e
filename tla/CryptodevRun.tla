---------------------------- MODULE CryptodevRun ----------------------------
(***************************************************************************)
(* One session of /dev/crypto from its creation to its end: it is set up   *)
(* resource by resource (ioctl.c, cryptlib.c), threads prepare operations  *)
(* and run them in it one at a time (main.c, authenc.c, zc.c), and it is   *)
(* freed.  CryptodevSessions has the locking: here filling in the          *)
(* operation and running it are one step each, and anything may happen to  *)
(* the session between the two.                                            *)
(***************************************************************************)
EXTENDS CryptodevAuth

CONSTANTS
  Procs,       \* threads that share the session
  Kinds,       \* the sessions to create: [cipher, blocksize, hash]
  Ops,         \* the operations to try
  Perms,       \* how the user's pages are mapped
  InitMem,     \* what his memory holds
  MaxOps       \* bound: operations in the life of a session

CryptOp ==
  [mode : {"CRYPT"}, op : {"ENCRYPT", "DECRYPT"},
   flags : SUBSET {"NO_ZC", "UPDATE", "FINAL", "RESET"},
   len : Nat, src : Nat, dst : Nat \cup {None}, iv : (0..V - 1) \cup {None},
   nomem : BOOLEAN]

(* A tag is part of a digest: none is longer. *)
AuthOp ==
  [mode : {"TLS", "SRTP", "AEAD"}, op : {"ENCRYPT", "DECRYPT"},
   len : Nat, src : Nat, dst : Nat, auth_src : Nat, auth_len : Nat,
   tag : Nat \cup {None}, tag_len : 0..DIGESTSIZE, dst_len : Nat,
   iv : (0..V - 1) \cup {None}, nomem : BOOLEAN]

(* In SRTP the tag has an address, that of no memory if it is null, and    *)
(* the data is reached through the pages of what is authenticated; what    *)
(* the cipher gets of data that goes on after them is not modelled.        *)
SrtpWithin(k) ==
  k.mode = "SRTP" =>
    /\ k.tag # None
    /\ k.auth_len > 0 /\ k.src >= k.auth_src
         => k.src + k.len <= k.auth_src + k.auth_len

ASSUME RunAssumption ==
  /\ Kinds \subseteq [cipher : {None, "block", "stream", "aead"},
                      blocksize : Nat \ {0}, hash : BOOLEAN]
  /\ Ops \subseteq CryptOp \cup AuthOp
  /\ \A k \in Ops : SrtpWithin(k)
  /\ Perms \subseteq [Pages -> {"none", "ro", "rw"}]
  /\ InitMem \in [Addr -> 0..V - 1]
  /\ MaxOps \in Nat

VARIABLES
  setup,       \* "none", "building" or "live"
  res,         \* what the session has allocated
  m,           \* the machine: session, pinned pages and memory
  call,        \* per thread: the operation it has filled in
  ops,         \* operations so far
  last,        \* history: the operation run last, and the machine before it
  stream       \*   the data hashed since the last reset, or None

vars == <<setup, res, m, call, ops, last, stream>>

NoSession == [cipher |-> None, blocksize |-> 1, hash |-> FALSE]

Machine(kind, perm, mem) ==
  [cipher |-> kind.cipher, blocksize |-> kind.blocksize, hash |-> kind.hash,
   iv |-> 0, h |-> 0, authsize |-> DIGESTSIZE,
   pages |-> [i \in 1..DEFAULT_PREALLOC_PAGES |-> None], used_pages |-> 0,
   pins |-> [pg \in Pages |-> 0], oops |-> FALSE, spoiled |-> FALSE,
   mem |-> mem, perm |-> perm,
   ret |-> "0", digest |-> <<>>, len |-> 0]

Init ==
  /\ setup = "none" /\ res = {}
  /\ \E perm \in Perms : m = Machine(NoSession, perm, InitMem)
  /\ call = [p \in Procs |-> None] /\ ops = 0
  /\ last = None /\ stream = None

-----------------------------------------------------------------------------
CipherParts == {"cipher", "cipher_request"}
HashParts   == {"hash", "hash_request"}
Arrays      == {"pages", "sg"}

Order == <<"cipher", "cipher_request", "hash", "hash_request", "pages", "sg">>
Needed(mc) ==
  (IF mc.cipher = None THEN {} ELSE CipherParts) \cup
  (IF mc.hash THEN HashParts ELSE {}) \cup Arrays

NextPart == Order[Min({i \in DOMAIN Order : Order[i] \in Needed(m) \ res})]

(* crypto_create_session, for a request that makes sense.                  *)
CreateSession == \E kind \in Kinds :
  /\ setup = "none" /\ \A p \in Procs : call[p] = None
  /\ setup' = "building"
  /\ m' = Machine(kind, m.perm, InitMem)
  /\ ops' = 0 /\ last' = None /\ stream' = None
  /\ UNCHANGED <<res, call>>

Acquire ==
  /\ setup = "building"
  /\ res' = res \cup {NextPart}
  /\ setup' = IF Needed(m) \subseteq res' THEN "live" ELSE setup
  /\ UNCHANGED <<m, call, ops, last, stream>>

(* cipher_deinit and hash_deinit go by the init flags, which are set once  *)
(* the request is there.                                                   *)
Deinit(r) ==
  (IF "cipher_request" \in r THEN CipherParts ELSE {}) \cup
  (IF "hash_request" \in r THEN HashParts ELSE {})

(* cryptodev_cipher_init and cryptodev_hash_init free what they had when   *)
(* they fail.                                                              *)
InitUndoes(r) ==
  (IF "cipher_request" \in r THEN {} ELSE {"cipher"}) \cup
  (IF "hash_request" \in r THEN {} ELSE {"hash"})

(* Broken variant: a hash that cannot be set up is not freed. *)
SetupFailsLeaky ==
  /\ setup = "building" /\ setup' = "none"
  /\ res' = res \ ((InitUndoes(res) \ {"hash"}) \cup Deinit(res) \cup Arrays)
  /\ UNCHANGED <<m, call, ops, last, stream>>

(* Any step may fail: no memory, no such algorithm, a key refused.  What   *)
(* session_error does follows what the failing init has done.              *)
SetupFails ==
  /\ setup = "building" /\ setup' = "none"
  /\ res' = res \ (InitUndoes(res) \cup Deinit(res) \cup Arrays)
  /\ UNCHANGED <<m, call, ops, last, stream>>

(* crypto_destroy_session. *)
DestroySession ==
  /\ setup = "live" /\ setup' = "none"
  /\ res' = res \ (Deinit(res) \cup Arrays)
  /\ m' = Machine(NoSession, m.perm, InitMem)
  /\ last' = None /\ stream' = None
  /\ UNCHANGED <<call, ops>>

-----------------------------------------------------------------------------
(* fill_kcop_from_cop and fill_kcaop_from_caop. *)
Fill(p) == \E k \in Ops :
  /\ setup = "live" /\ ops < MaxOps /\ call[p] = None
  /\ k.mode = "CRYPT" => m.cipher # "aead" /\ (m.cipher # None => k.dst # None)
  /\ InPlaceOnly(k)
  /\ call' = [call EXCEPT ![p] = IF k.mode = "CRYPT" THEN k
                                 ELSE fill_kcaop_from_caop(m, k)]
  /\ ops' = ops + 1
  /\ UNCHANGED <<setup, res, m, last, stream>>

Result(mc, k) ==
  LET m0 == [mc EXCEPT !.ret = "0", !.digest = <<>>, !.len = 0]
  IN  IF k.mode = "CRYPT" THEN crypto_run(m0, k) ELSE crypto_auth_run(m0, k)

(* History: the plaintext hashed so far.  A call without a cipher that     *)
(* "decrypts" one buffer to another has no plaintext of its own: the zero  *)
(* copy way hashes the destination, the copying way the source.            *)
NoPlaintext(k) == m.cipher = None /\ k.op = "DECRYPT" /\ k.src # k.dst

Streamed(k) ==
  LET before == IF Resets(k) THEN <<>> ELSE stream
      data   == IF k.op = "ENCRYPT" THEN Read(m.mem, k.src, k.len)
                                    ELSE Read(m'.mem, k.dst, k.len)
  IN  IF m'.ret # "0" \/ before = None \/ Finals(k) \/ NoPlaintext(k)
      THEN None ELSE before \o data

(* crypto_run and crypto_auth_run. *)
Run(p) ==
  /\ setup = "live" /\ call[p] # None
  /\ m' = Result(m, call[p])
  /\ last' = [k |-> call[p], before |-> m, stream |-> stream]
  /\ stream' = IF m.hash /\ call[p].mode = "CRYPT" THEN Streamed(call[p])
                                                   ELSE None
  /\ call' = [call EXCEPT ![p] = None]
  /\ UNCHANGED <<setup, res, ops>>

(* The session is gone when it is looked up again: -EINVAL. *)
RunTooLate(p) ==
  /\ setup # "live" /\ call[p] # None
  /\ call' = [call EXCEPT ![p] = None]
  /\ UNCHANGED <<setup, res, m, ops, last, stream>>

Next ==
  \/ CreateSession \/ Acquire \/ SetupFails \/ DestroySession
  \/ \E p \in Procs : Fill(p) \/ Run(p) \/ RunTooLate(p)

Spec == Init /\ [][Next]_vars

-----------------------------------------------------------------------------
(* Type invariant; the room for pages only grows.                          *)
TypeOK ==
  /\ setup \in {"none", "building", "live"}
  /\ res \subseteq CipherParts \cup HashParts \cup Arrays
  /\ m.iv \in 0..V - 1 /\ m.h \in 0..V * V - 1
  /\ m.authsize \in 1..DIGESTSIZE
  /\ Len(m.pages) >= DEFAULT_PREALLOC_PAGES
  /\ m.mem \in [Addr -> 0..V - 1]
  /\ ops \in 0..MaxOps

ResourcesMatch ==
  /\ setup = "none" => res = {}
  /\ setup = "live" => res = Needed(m)

PinsBalanced == m.spoiled \/ (~m.oops /\ \A pg \in Pages : m.pins[pg] = 0)

(* A session that could not be set up, or is destroyed, leaves nothing     *)
(* allocated, and one that is live has all it needs.  Between operations   *)
(* no page of the user is pinned, none has been given back that was not    *)
(* pinned, and no entry of the array was used that was never filled; but   *)
(* not after a pinning that got only some of its pages, nor after one of   *)
(* a destination failed (FIXME at zc.c:215).                               *)
NothingLeaks == ResourcesMatch /\ PinsBalanced

Ran(mode) == last # None /\ last.k.mode = mode
Succeeded(mode) == Ran(mode) /\ m.ret = "0"

(* The code does not look whether two buffers overlap.  If they do, a page *)
(* that is copied out may be one that is still to be copied in.            *)
Apart(k) ==
  k.dst # None => k.src = k.dst \/ Span(k.src, k.len) \cap Span(k.dst, k.len) = {}
BuffersApart == \A k \in Ops : k.mode = "CRYPT" => Apart(k)

(* Zero copy, copying page by page, and the fallback from one to the other *)
(* all encrypt and decrypt the buffer as a whole, and leave the iv behind  *)
(* for the next call.                                                      *)
CryptsWholeBuffer ==
  Succeeded("CRYPT") /\ m.cipher # None =>
    LET k    == last.k
        iv   == IF k.iv = None THEN last.before.iv ELSE k.iv
        data == Read(last.before.mem, k.src, k.len)
        out  == IF k.op = "ENCRYPT" THEN Encrypt(iv, data) ELSE Decrypt(iv, data)
    IN  /\ m.mem = Write(last.before.mem, k.dst, out)
        /\ m.iv = NextIv(iv, IF k.op = "ENCRYPT" THEN out ELSE data)

(* A digest is of the plaintext of all calls since the last reset, in      *)
(* order, however each of them was run.                                    *)
DigestOfStream ==
  Succeeded("CRYPT") /\ m.digest # <<>> =>
    LET k      == last.k
        before == IF Resets(k) THEN <<>> ELSE last.stream
        data   == IF k.op = "ENCRYPT" THEN Read(last.before.mem, k.src, k.len)
                                      ELSE Read(m.mem, k.dst, k.len)
    IN  before # None /\ ~NoPlaintext(k)
          => m.digest = Digest(Hash(0, before \o data))

(* An operation writes within the destination whose pages it has pinned:   *)
(* the length was computed before the session was locked for the run.      *)
StaysInBuffer ==
  last # None /\ last.k.dst # None =>
    \A a \in Addr : m.mem[a] # last.before.mem[a] =>
      \/ last.k.mode = "CRYPT" /\ a \in Span(last.k.dst, last.k.len)
      \/ last.k.mode # "CRYPT" /\ a \in Span(last.k.dst, last.k.dst_len)
      \/ last.k.mode = "SRTP" /\ a \in Span(last.k.tag, last.k.tag_len)

(* The code looks neither whether what is authenticated lies in the        *)
(* destination, with room for any session's tag and padding, nor whether   *)
(* the tag lies in what is authenticated; SRTP decrypts no text that is    *)
(* shorter than its tag, though it encrypts it, and TLS nothing of no      *)
(* length, which is what an empty text without tag and padding becomes.    *)
Undoable(k) ==
  /\ k.mode = "SRTP" =>
       /\ k.len >= DIGESTSIZE
       /\ Span(k.tag, DIGESTSIZE) \cap Span(k.auth_src, k.auth_len) = {}
  /\ k.mode # "SRTP" =>
       \A kind \in Kinds : Span(k.dst, k.len + DIGESTSIZE + kind.blocksize)
                            \cap Span(k.auth_src, k.auth_len) = {}
  /\ k.mode = "TLS" => k.len > 0
OpsUndoable ==
  \A k \in Ops : k.mode # "CRYPT" /\ k.op = "ENCRYPT" => Undoable(k)

(* The length of a padding is a unit. *)
PaddingFits == \A kind \in Kinds : kind.blocksize <= V

(* The operation that undoes the last one. *)
Undo ==
  LET iv == IF last.k.iv = None THEN last.before.iv ELSE last.k.iv
      k  == [last.k EXCEPT !.op = "DECRYPT", !.src = last.k.dst, !.iv = iv]
  IN  IF k.mode = "CRYPT" THEN k
      ELSE fill_kcaop_from_caop(m, [k EXCEPT !.len = m.len])

Encrypted == /\ last # None /\ last.k.op = "ENCRYPT" /\ m.ret = "0"
             /\ m.cipher # None /\ last.k.mode # "none"

(* What was encrypted, with tag and padding where the mode adds them,      *)
(* decrypts to what it was, and to the length it had.                      *)
RoundTrip ==
  Encrypted =>
    \A r \in {Result(m, Undo)} :
      /\ r.ret = "0"
      /\ Read(r.mem, last.k.dst, last.k.len)
           = Read(last.before.mem, last.k.src, last.k.len)
      /\ last.k.mode # "CRYPT" => r.len = last.k.len

(* With a whole tag, a change to what was authenticated is noticed; in     *)
(* SRTP, where the tag is looked at first, nothing is decrypted then.      *)
Changed(mc, a) == [mc EXCEPT !.mem[a] = (@ + 1) % V]

ForgeryRefused ==
  /\ Encrypted /\ last.k.mode # "CRYPT"
  /\ last.k.auth_len > 0 /\ last.k.tag_len = DIGESTSIZE
  /\ m.hash \/ m.cipher = "aead"
  => LET forged == Changed(m, last.k.auth_src)
     IN  \A r \in {Result(forged, Undo)} :
           /\ r.ret = "EBADMSG"
           /\ last.k.mode = "SRTP" => r.mem = forged.mem
=============================================================================
