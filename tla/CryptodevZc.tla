---------------------------- MODULE CryptodevZc ----------------------------
(***************************************************************************)
(* What a session of cryptodev-linux works with: the cipher and the hash   *)
(* of the kernel, the memory of the user, and the pages of that memory it  *)
(* pins to work on them without copying (zc.c).  A machine m is a record   *)
(* of the session, the memory and the pins; the operators say what a       *)
(* function of the code does to it.                                        *)
(***************************************************************************)
EXTENDS Integers, Sequences, SequencesExt, FiniteSets, Functions

CONSTANTS
  PAGE_SIZE,                 \* units of memory in a page
  MaxAddr,                   \* the memory is 0..MaxAddr, whole pages
  DEFAULT_PREALLOC_PAGES,    \* pages a new session has room for (32)
  None

ASSUME ZcAssumption ==
  /\ PAGE_SIZE \in Nat \ {0}
  /\ MaxAddr \in Nat /\ (MaxAddr + 1) % PAGE_SIZE = 0
  /\ DEFAULT_PREALLOC_PAGES \in Nat \ {0}
  /\ None \notin Int

(***************************************************************************)
(* The kernel's crypto API.  A toy cipher that chains, so that order and   *)
(* iv matter, and a toy hash that tells any one changed unit.              *)
(***************************************************************************)
V == 4                       \* values of a unit of memory

Encrypt(iv, s) ==
  LET c[i \in 0..Len(s)] == IF i = 0 THEN iv ELSE (s[i] + c[i - 1] + 1) % V
  IN  [i \in 1..Len(s) |-> c[i]]

Decrypt(iv, s) ==
  [i \in 1..Len(s) |-> (s[i] - (IF i = 1 THEN iv ELSE s[i - 1]) - 1) % V]

(* The iv the cipher is left with: its last unit of ciphertext. *)
NextIv(iv, c) == IF c = <<>> THEN iv ELSE c[Len(c)]

Hash(h, s) ==
  LET a[i \in 0..Len(s)] ==
        IF i = 0 THEN h ELSE (3 * a[i - 1] + s[i] + 1) % (V * V)
  IN  a[Len(s)]
Digest(h)  == <<h % V, h \div V>>
DIGESTSIZE == 2

-----------------------------------------------------------------------------
Addr   == 0..MaxAddr
Page(a) == a \div PAGE_SIZE
Pages  == {Page(a) : a \in Addr}
Span(a, n) == a..a + n - 1

Read(mem, a, n) == [i \in 1..n |-> mem[a + i - 1]]
Write(mem, a, s) ==
  [b \in DOMAIN mem |-> IF b \in Span(a, Len(s)) THEN s[b - a + 1] ELSE mem[b]]

(* The user maps his pages readable ("ro"), writable ("rw") or not.        *)
Allows(perm, pg, write) == perm[pg] = "rw" \/ (perm[pg] = "ro" /\ ~write)
Accessible(perm, a, n, write) ==
  \A b \in Span(a, n) : b \in Addr /\ Allows(perm, Page(b), write)

PAGECOUNT(buf, len) ==
  IF len = 0 THEN 0 ELSE Page(buf + len - 1) - Page(buf) + 1

-----------------------------------------------------------------------------
(* __get_userbuf: pin pgcount pages from addr on and enter them in the     *)
(* array after the first off.  The kernel pins as many as it can; with     *)
(* fewer than asked for the call fails and they stay pinned.  (spoiled is  *)
(* a history of that, and of a destination refused by get_userbuf, which   *)
(* releases entries it has not filled.)                                    *)
Pin(m, addr, write, pgcount, off) ==
  LET bad(first) == {i \in 0..pgcount - 1 :
                ~(first + i \in Pages /\ Allows(m.perm, first + i, write))}
      Got(first, got) ==
        [ok |-> got = pgcount,
         m  |-> [m EXCEPT
            !.spoiled = @ \/ got \in 1..pgcount - 1,
            !.pins = [pg \in Pages |->
                        IF pg \in Span(first, got) THEN @[pg] + 1 ELSE @[pg]],
            !.pages = [i \in 1..Len(@) |->
                         IF i - off \in 1..got THEN first + i - off - 1
                                               ELSE @[i]]]]
  IN  IF pgcount = 0 THEN [ok |-> TRUE, m |-> m]
      ELSE Got(Page(addr), Min(bad(Page(addr)) \cup {pgcount}))

(* adjust_sg_array doubles the room until it is enough. *)
adjust_sg_array(m, count) ==
  LET array_size[i \in 0..count] ==
        IF i = 0 THEN Len(m.pages) ELSE 2 * array_size[i - 1]
      size == array_size[Min({i \in 0..count : array_size[i] >= count})]
  IN  [m EXCEPT !.pages = @ \o [i \in 1..size - Len(m.pages) |-> None]]

(* Broken variant: the last page is forgotten. *)
ReleaseAllButLast(m) ==
  [m EXCEPT !.used_pages = 0,
            !.oops = @ \/ \E i \in 1..m.used_pages - 1 : m.pages[i] = None,
            !.pins = [pg \in Pages |-> @[pg] -
               Cardinality({i \in 1..m.used_pages - 1 : m.pages[i] = pg})]]

(* release_user_pages gives back what the first used_pages entries of the  *)
(* array point to; an entry never filled is a null pointer.                *)
release_user_pages(m) ==
  [m EXCEPT !.used_pages = 0,
            !.oops = @ \/ \E i \in 1..m.used_pages : m.pages[i] = None,
            !.pins = [pg \in Pages |-> @[pg] -
               Cardinality({i \in 1..m.used_pages : m.pages[i] = pg})]]

(* get_userbuf: pages for src to read and dst to write, which may be one   *)
(* buffer or absent.  nomem: the larger array cannot be had.               *)
get_userbuf(m, src, src_len, dst, dst_len, nomem) ==
  LET n(buf, len) == IF buf = None THEN 0 ELSE PAGECOUNT(buf, len)
      ns == n(src, src_len)
      nd == n(dst, dst_len)
      used == IF src # dst THEN ns + nd ELSE IF ns < nd THEN nd ELSE ns
      Undo(out) == IF out.ok THEN out
                   ELSE [ok |-> FALSE,
                         m  |-> [release_user_pages(out.m) EXCEPT !.spoiled = TRUE]]
      PinDst(in) == IF in.ok THEN Undo(Pin(in.m, dst, TRUE, nd, ns)) ELSE in
      PinAll(mr) == IF src = dst THEN Pin(mr, src, TRUE, used, 0)
                                 ELSE PinDst(Pin(mr, src, FALSE, ns, 0))
      m0 == [m EXCEPT !.used_pages = used]
  IN  IF used <= Len(m.pages) THEN PinAll(m0)
      ELSE IF nomem THEN [ok |-> FALSE, m |-> m0]
      ELSE PinAll(adjust_sg_array(m0, used))
=============================================================================
