--------------------------- MODULE MCLunixProtocol --------------------------
EXTENDS LunixProtocol

Copies(b, n) == [i \in 1..n |-> b]

(* The header of a packet with a payload of 20, which does not fit a buffer*)
(* of 24, more of the payload than is parsed in one call, and bytes that   *)
(* end, escape and count.                                                  *)
MCBuffers == {<<126, 66, 1, 1, 11, 1, 20>>, Copies(1, 9), <<125, 1, 126>>}
=============================================================================
