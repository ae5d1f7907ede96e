--------------------------- MODULE CryptodevAuth ---------------------------
(***************************************************************************)
(* CIOCAUTHCRYPT (authenc.c): crypto_auth_run on a machine m.  k is the    *)
(* struct kernel_crypt_auth_op that fill_kcaop_from_caop made when it      *)
(* looked at the session, before the call looked it up again to run.       *)
(***************************************************************************)
EXTENDS CryptodevCrypt

cryptodev_get_tag_len(m) ==
  IF m.hash THEN DIGESTSIZE ELSE IF m.cipher = "aead" THEN m.authsize ELSE 0

PadLen(n, bs) == bs - (n % bs)

(* Broken variant: no room for the padding. *)
DstLenUnpadded(m, k) ==
  IF k.op = "DECRYPT" THEN k.len ELSE k.len + k.tag_len

(* The length of the destination, in the expectation that the user has     *)
(* allocated it: tag and padding come after what is encrypted.             *)
cryptodev_get_dst_len(m, k) ==
  IF k.op = "DECRYPT" THEN k.len
  ELSE LET n == k.len + k.tag_len
       IN  IF k.mode = "TLS" THEN n + PadLen(n, m.blocksize) ELSE n

fill_kcaop_from_caop(m, k) ==
  LET k1 == IF k.tag_len = 0 THEN [k EXCEPT !.tag_len = cryptodev_get_tag_len(m)]
                             ELSE k
  IN  [k1 EXCEPT !.dst_len = cryptodev_get_dst_len(m, k1)]

InPlaceOnly(k) == k.mode \in {"TLS", "SRTP"} => k.src = k.dst

-----------------------------------------------------------------------------
(* What a function hands back: the data to write at the destination, the   *)
(* length to tell the user, the iv and the verdict.                        *)
Out(ret, data, len, iv) == [ret |-> ret, data |-> data, len |-> len, iv |-> iv]

MacOf(auth, data, tag_len) ==
  SubSeq(Digest(Hash(Hash(0, auth), data)), 1, tag_len)

(* pad_record: at least one unit, each with the number of the others.      *)
pad_record(rec, bs) ==
  LET n == PadLen(Len(rec), bs) IN rec \o [i \in 1..n |-> n - 1]

(* Broken variant: one unit of the padding stays. *)
PadLeavesOne(rec) ==
  LET p == Last(rec)
  IN  IF p + 1 <= Len(rec) /\ \A i \in 1..p : rec[Len(rec) - i] = p THEN p
                                                                  ELSE -1

(* verify_tls_record_pad: the length of the padding, or -1.                *)
verify_tls_record_pad(rec) ==
  LET p == Last(rec)
  IN  IF p + 1 <= Len(rec) /\ \A i \in 1..p : rec[Len(rec) - i] = p THEN p + 1
                                                                  ELSE -1

(* tls_auth_n_crypt: authenticate the plaintext, pad, and encrypt; in the  *)
(* other direction the tag decides, if there is a hash, and the padding is *)
(* only remembered.                                                        *)
TlsEncrypt(m, k, auth, data) ==
  LET rec == IF m.hash THEN data \o MacOf(auth, data, k.tag_len) ELSE data
      pad == IF m.blocksize > 1 THEN pad_record(rec, m.blocksize) ELSE rec
      c   == Encrypt(m.iv, pad)
  IN  Out("0", c, Len(pad), NextIv(m.iv, c))

TlsDecrypt(m, k, auth, data) ==
  LET rec == Decrypt(m.iv, data)
      pad == IF m.blocksize > 1 THEN verify_tls_record_pad(rec) ELSE 0
      len == IF pad = -1 THEN k.len ELSE k.len - pad
      n   == len - k.tag_len
      iv  == NextIv(m.iv, data)
      mac == MacOf(auth, SubSeq(rec, 1, n), k.tag_len)
  IN  IF k.len % m.blocksize # 0 THEN Out("EINVAL", <<>>, k.dst_len, m.iv)
      ELSE IF ~m.hash THEN Out("0", rec, len, iv)
      ELSE IF n < 0 THEN Out("EINVAL", rec, k.dst_len, iv)
      ELSE IF mac # SubSeq(rec, n + 1, len) \/ pad = -1
           THEN Out("EBADMSG", rec, k.dst_len, iv)
      ELSE Out("0", rec, n, iv)

(* get_userbuf_tls: all of the destination, to read and write.             *)
TlsPages(m, k) ==
  LET n  == PAGECOUNT(k.dst, k.dst_len)
      m1 == [m EXCEPT !.used_pages = n]
  IN  IF k.dst_len = 0 THEN [ok |-> FALSE, m |-> m]
      ELSE IF k.nomem /\ n > Len(m.pages) THEN [ok |-> FALSE, m |-> m1]
      ELSE Pin(adjust_sg_array(m1, n), k.dst, TRUE, n, 0)

(* In place, with room for what is to come.                                *)
crypto_auth_zc_tls(m, k) ==
  LET auth == Read(m.mem, k.auth_src, k.auth_len)
      data == Read(m.mem, k.dst, k.len)
      u    == TlsPages(m, k)
      o    == IF k.op = "ENCRYPT" THEN TlsEncrypt(m, k, auth, data)
                                  ELSE TlsDecrypt(m, k, auth, data)
      w    == [u.m EXCEPT !.mem = Write(@, k.dst, o.data), !.iv = o.iv,
                          !.len = o.len, !.ret = o.ret]
  IN  IF k.auth_len > PAGE_SIZE THEN Ret(m, "EINVAL")
      ELSE IF ~Accessible(m.perm, k.auth_src, k.auth_len, FALSE)
           THEN Ret(m, "EFAULT")
      ELSE IF ~u.ok THEN Ret(u.m, "EINVAL")
      ELSE release_user_pages(w)

-----------------------------------------------------------------------------
(* Broken variant: the payload is decrypted before the tag is looked at. *)
SrtpDecryptFirst(m, k, auth) ==
  LET data == Read(m.mem, k.src, k.len)
      tag  == SubSeq(Digest(Hash(0, auth)), 1, k.tag_len)
  IN  IF m.hash /\ Read(m.mem, k.tag, k.tag_len) # tag
      THEN Out("EBADMSG", Decrypt(m.iv, data), k.dst_len, m.iv)
      ELSE Out("0", Decrypt(m.iv, data), k.len, NextIv(m.iv, data))

(* srtp_auth_n_crypt authenticates the ciphertext with all around it, and  *)
(* looks at the tag before it decrypts.                                    *)
SrtpDecrypt(m, k, auth) ==
  LET data == Read(m.mem, k.src, k.len)
      tag  == SubSeq(Digest(Hash(0, auth)), 1, k.tag_len)
      Fail(e) == Out(e, <<>>, k.dst_len, m.iv)
  IN  IF m.hash /\ k.tag_len > k.len THEN Fail("EINVAL")
      ELSE IF m.hash /\ ~Accessible(m.perm, k.tag, k.tag_len, FALSE)
           THEN Fail("EFAULT")
      ELSE IF m.hash /\ Read(m.mem, k.tag, k.tag_len) # tag THEN Fail("EBADMSG")
      ELSE Out("0", Decrypt(m.iv, data), k.len, NextIv(m.iv, data))

SrtpEncrypt(m, k) ==
  LET c == Encrypt(m.iv, Read(m.mem, k.src, k.len))
  IN  Out(IF m.hash /\ ~Accessible(m.perm, k.tag, k.tag_len, TRUE)
          THEN "EFAULT" ELSE "0", c, k.len, NextIv(m.iv, c))

SrtpTag(m, k) ==
  SubSeq(Digest(Hash(0, Read(m.mem, k.auth_src, k.auth_len))), 1, k.tag_len)

(* get_userbuf_srtp: what is authenticated; the destination lies in it.    *)
(* (The two may be 256 bytes apart, more than the memory here.)            *)
SrtpPages(m, k) ==
  LET n == PAGECOUNT(k.auth_src, k.auth_len)
      u == Pin(adjust_sg_array(m, 2 * n), k.auth_src, TRUE, n, 0)
  IN  IF \/ k.dst_len = 0 \/ k.auth_len = 0 \/ k.src < k.auth_src
         \/ k.nomem /\ 2 * n > Len(m.pages)
      THEN [ok |-> FALSE, m |-> m]
      ELSE IF u.ok THEN [u EXCEPT !.m.used_pages = n] ELSE u

crypto_auth_zc_srtp(m, k) ==
  LET u  == SrtpPages(m, k)
      o  == IF k.op = "ENCRYPT" THEN SrtpEncrypt(m, k)
            ELSE SrtpDecrypt(m, k, Read(m.mem, k.auth_src, k.auth_len))
      w  == [u.m EXCEPT !.mem = Write(@, k.dst, o.data), !.iv = o.iv,
                        !.ret = o.ret,
                        !.len = IF o.ret = "0" THEN o.len ELSE k.dst_len]
      t  == IF k.op = "ENCRYPT" /\ m.hash /\ o.ret = "0"
            THEN [w EXCEPT !.mem = Write(@, k.tag, SrtpTag(w, k))] ELSE w
  IN  IF m.cipher # "stream" THEN Ret(m, "EINVAL")
      ELSE IF ~u.ok THEN Ret(u.m, "EINVAL")
      ELSE release_user_pages(t)

-----------------------------------------------------------------------------
(* The kernel's AEAD cipher: the tag, of authsize units, after the data.   *)
AeadEncrypt(m, auth, data) ==
  LET c == Encrypt(m.iv, data)
  IN  Out("0", c \o MacOf(auth, c, m.authsize), 0, m.iv)

AeadDecrypt(m, auth, data) ==
  LET n == Len(data) - m.authsize
      c == SubSeq(data, 1, n)
  IN  IF n < 0 THEN Out("EINVAL", <<>>, 0, m.iv)
      ELSE IF MacOf(auth, c, m.authsize) # SubSeq(data, n + 1, Len(data))
           THEN Out("EBADMSG", <<>>, 0, m.iv)
           ELSE Out("0", Decrypt(m.iv, c), 0, m.iv)

(* Broken variant: the cipher is not told the size of the tag. *)
TagSizeKept(m, k) == IF k.tag_len > m.authsize THEN Ret(m, "EINVAL") ELSE m

(* auth_n_crypt: a tag not longer than the cipher's, whose size it becomes *)
(* from then on.                                                           *)
TagSize(m, k) ==
  IF k.tag_len > m.authsize THEN Ret(m, "EINVAL")
  ELSE IF k.tag_len = 0 THEN m
  ELSE [m EXCEPT !.authsize = k.tag_len]

auth_n_crypt(m, k, auth, data) ==
  LET m1 == TagSize(m, k)
      o  == IF k.op = "ENCRYPT" THEN AeadEncrypt(m1, auth, data)
                                ELSE AeadDecrypt(m1, auth, data)
      n  == k.len + (IF k.op = "ENCRYPT" THEN 1 ELSE -1) * m1.authsize
  IN  IF m1.ret # "0" THEN m1
      ELSE [m1 EXCEPT !.mem = Write(@, k.dst, o.data), !.ret = o.ret,
                      !.len = IF o.ret = "0" THEN n ELSE k.dst_len]

crypto_auth_zc_aead(m, k) ==
  LET auth == Read(m.mem, k.auth_src, k.auth_len)
      u    == get_userbuf(m, k.src, k.len, k.dst, k.dst_len, k.nomem)
  IN  IF m.cipher = "block" \/ k.auth_len > PAGE_SIZE THEN Ret(m, "EINVAL")
      ELSE IF ~u.ok THEN Ret(u.m, "EINVAL")
      ELSE IF ~Accessible(m.perm, k.auth_src, k.auth_len, FALSE)
           THEN Ret(release_user_pages(u.m), "EFAULT")
      ELSE release_user_pages(
             auth_n_crypt(u.m, k, auth, Read(m.mem, k.src, k.len)))

(* __crypto_auth_run_zc picks the way by the flags and the cipher.         *)
crypto_auth_run(m, k) ==
  LET m1 == SetIv([m EXCEPT !.h = 0], k)
  IN  IF m.cipher = None THEN Ret(m, "EINVAL")
      ELSE IF k.mode = "SRTP" THEN crypto_auth_zc_srtp(m1, k)
      ELSE IF m.cipher = "aead" THEN crypto_auth_zc_aead(m1, k)
      ELSE IF k.mode = "TLS" THEN crypto_auth_zc_tls(m1, k)
      ELSE Ret(m1, "EINVAL")
=============================================================================
