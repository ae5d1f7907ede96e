--------------------------- MODULE MCLunixChrdev ---------------------------
(* Instances of LunixChrdev for TLC. *)
EXTENDS LunixChrdev, TLC

(* Texts that grow and shrink from one measurement to the next. *)
MCTextLen == [m \in 0..MaxUpdates |-> IF m = 1 THEN 3 ELSE 2]

MCSymmetry == Permutations(Procs) \cup Permutations(Files)
=============================================================================
