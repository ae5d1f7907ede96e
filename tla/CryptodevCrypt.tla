--------------------------- MODULE CryptodevCrypt ---------------------------
(***************************************************************************)
(* CIOCCRYPT (main.c): crypto_run on a machine m, as the call sees it with *)
(* the session locked.  k is its struct kernel_crypt_op; k.iv is None when *)
(* the user gives none.  Every operator returns the machine after, with    *)
(* the error in ret ("0" for success).                                     *)
(***************************************************************************)
EXTENDS CryptodevZc

Ret(m, r) == [m EXCEPT !.ret = r]

(* Broken variant: the hash is of what leaves, not of the plaintext. *)
HashCryptedOnly(m, op, data, dst) ==
  LET out == IF m.cipher = None THEN dst
             ELSE IF op = "ENCRYPT" THEN Encrypt(m.iv, data)
                                    ELSE Decrypt(m.iv, data)
  IN  [m |-> [m EXCEPT
        !.iv = IF m.cipher = None THEN @
               ELSE NextIv(@, IF op = "ENCRYPT" THEN out ELSE data),
        !.h = IF m.hash THEN Hash(@, IF op = "ENCRYPT" THEN out ELSE data)
                        ELSE @],
       out |-> out]

(* hash_n_crypt: hash before encrypting and after decrypting.  dst is what *)
(* the destination holds; without a cipher it is left, and a decryption    *)
(* hashes it.                                                              *)
hash_n_crypt(m, op, data, dst) ==
  LET out == IF m.cipher = None THEN dst
             ELSE IF op = "ENCRYPT" THEN Encrypt(m.iv, data)
                                    ELSE Decrypt(m.iv, data)
  IN  [m |-> [m EXCEPT
        !.iv = IF m.cipher = None THEN @
               ELSE NextIv(@, IF op = "ENCRYPT" THEN out ELSE data),
        !.h = IF m.hash THEN Hash(@, IF op = "ENCRYPT" THEN data ELSE out)
                        ELSE @],
       out |-> out]

(* One turn of the copying loop: a page in, through the session, and out.  *)
RunChunk(m, k, off) ==
  LET n    == IF k.len - off < PAGE_SIZE THEN k.len - off ELSE PAGE_SIZE
      data == Read(m.mem, k.src + off, n)
      r    == hash_n_crypt(m, k.op, data, data)
  IN  IF m.ret # "0" THEN m
      ELSE IF ~Accessible(m.perm, k.src + off, n, FALSE) THEN Ret(m, "EFAULT")
      ELSE IF m.cipher = None THEN r.m
      ELSE IF ~Accessible(m.perm, k.dst + off, n, TRUE) THEN Ret(r.m, "EFAULT")
      ELSE [r.m EXCEPT !.mem = Write(@, k.dst + off, r.out)]

__crypto_run_std(m, k) ==
  LET turns == (k.len + PAGE_SIZE - 1) \div PAGE_SIZE
      after[i \in 0..turns] ==
        IF i = 0 THEN m ELSE RunChunk(after[i - 1], k, (i - 1) * PAGE_SIZE)
  IN  after[turns]

(* __crypto_run_zc works on the pages of the user, all at once, and falls  *)
(* back to copying when it cannot have them.                               *)
OnPages(m, k) ==
  LET dst == IF k.dst = None THEN <<>> ELSE Read(m.mem, k.dst, k.len)
      Done(r) == IF m.cipher = None THEN r.m
                 ELSE [r.m EXCEPT !.mem = Write(@, k.dst, r.out)]
  IN  Done(hash_n_crypt(m, k.op, Read(m.mem, k.src, k.len), dst))

__crypto_run_zc(m, k) ==
  LET Use(u) == IF u.ok THEN release_user_pages(OnPages(u.m, k))
                        ELSE __crypto_run_std(u.m, k)
  IN  Use(get_userbuf(m, k.src, k.len, k.dst, k.len, k.nomem))

(* A call with no flag but NO_ZC continues the hash of the call before.    *)
Resets(k) == k.flags = {} \/ "RESET" \in k.flags

Finals(k) == "FINAL" \in k.flags \/ "UPDATE" \notin k.flags \/ k.len = 0

(* Broken variant: the iv of the call before is used. *)
OldIv(m, k) == m

SetIv(m, k) == IF m.cipher = None \/ k.iv = None THEN m
               ELSE [m EXCEPT !.iv = k.iv]

CryptOrHash(m, k) ==
  IF k.len = 0 THEN m
  ELSE IF "NO_ZC" \in k.flags THEN __crypto_run_std(m, k)
                              ELSE __crypto_run_zc(m, k)

crypto_run(m, k) ==
  LET m1 == IF m.hash /\ Resets(k) THEN [m EXCEPT !.h = 0] ELSE m
      Final(mr) == IF mr.ret = "0" /\ m.hash /\ Finals(k)
                   THEN [mr EXCEPT !.digest = Digest(mr.h)] ELSE mr
  IN  IF m.cipher # None /\ k.len % m.blocksize # 0 THEN Ret(m1, "EINVAL")
      ELSE Final(CryptOrHash(SetIv(m1, k), k))
=============================================================================
