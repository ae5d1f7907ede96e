--------------------------- MODULE MCCryptodevRun ---------------------------
(***************************************************************************)
(* Sessions, operations and mappings for the model checker: a memory of    *)
(* five pages of two units, buffers that start and end anywhere in a page, *)
(* in place or apart, of none to four units.                               *)
(***************************************************************************)
EXTENDS CryptodevRun

MCKinds ==
  {[cipher |-> "block", blocksize |-> 2, hash |-> TRUE],
   [cipher |-> "block", blocksize |-> 2, hash |-> FALSE],
   [cipher |-> "stream", blocksize |-> 1, hash |-> TRUE],
   [cipher |-> "aead", blocksize |-> 1, hash |-> FALSE],
   [cipher |-> None, blocksize |-> 1, hash |-> TRUE]}

MCInitMem == [a \in Addr |-> (a * a + 1) % V]

(* All writable; the first two pages read-only, or not mapped; only one of *)
(* the first three not mapped; nothing writable after the first two.       *)
Mapped(S, perm) == [pg \in Pages |-> IF pg \in S THEN perm ELSE "rw"]
MCPerms == {Mapped({}, "rw"), Mapped({0, 1}, "ro"), Mapped({0, 1}, "none"),
            Mapped({1}, "none"), Mapped({2, 3, 4}, "ro")}

(* One value per field, so that a set of operations names what varies. *)
Crypts(dirs, flags, lens, places, ivs, nomem) ==
  {[mode |-> "CRYPT", op |-> o, flags |-> f, len |-> n, src |-> pl[1],
    dst |-> pl[2], iv |-> v, nomem |-> b] :
      o \in dirs, f \in flags, n \in lens, pl \in places, v \in ivs, b \in nomem}

Both == {"ENCRYPT", "DECRYPT"}

CryptOps ==
  Crypts(Both, {{}}, {0, 3, 4}, {<<0, 0>>, <<1, 1>>, <<0, 5>>}, {None, 2}, {FALSE})
  \cup Crypts(Both, {{"NO_ZC"}}, {3, 4}, {<<1, 1>>, <<1, 5>>}, {2}, {FALSE})
  \cup Crypts(Both, {{}}, {4}, {<<0, 0>>, <<1, 5>>}, {2}, {TRUE})
  \cup Crypts({"ENCRYPT"}, {{"UPDATE", "RESET"}, {"UPDATE"}, {"FINAL"}, {"RESET"}},
              {0, 2, 4}, {<<1, None>>, <<1, 1>>}, {None}, {FALSE})
  \cup Crypts({"DECRYPT"}, {{"UPDATE", "RESET"}, {"FINAL"}}, {4}, {<<0, 4>>},
              {None}, {FALSE})

Auths(mode, lens, places, auths, tag, tag_lens) ==
  {[mode |-> mode, op |-> o, len |-> n, src |-> pl[1], dst |-> pl[2],
    auth_src |-> a[1], auth_len |-> a[2], tag |-> tag, tag_len |-> t,
    dst_len |-> 0, iv |-> 1, nomem |-> FALSE] :
      o \in Both, n \in lens, pl \in places, a \in auths, t \in tag_lens}

AuthOps ==
  Auths("TLS", {1, 2, 3, 4}, {<<0, 0>>}, {<<8, 0>>, <<8, 2>>}, None, {0, 1, 2})
  \cup Auths("SRTP", {2, 3}, {<<1, 1>>}, {<<0, 4>>, <<0, 5>>}, 6, {0, 2})
  \cup Auths("AEAD", {2, 4}, {<<0, 0>>}, {<<8, 0>>, <<8, 2>>}, None, {0, 1, 2})
  \cup Auths("AEAD", {2, 4}, {<<0, 4>>}, {<<8, 0>>}, None, {0, 1, 2})

MCOps == CryptOps \cup AuthOps

(* As the properties of the data need it. *)
ASSUME MCBuffersApart == BuffersApart
ASSUME MCOpsUndoable == OpsUndoable
ASSUME MCPaddingFits == PaddingFits

Symmetry == Permutations(Procs)
=============================================================================
