--------------------------- MODULE MCSessionLogout ---------------------------
(* Instances of SessionLogout for TLC. *)
EXTENDS SessionLogout, TLC

(* Tabs differ only by their session identifier. *)
Symmetry == Permutations(Tab)
=============================================================================
