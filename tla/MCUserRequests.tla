--------------------------- MODULE MCUserRequests ---------------------------
(* Two handlers of one user, two days, two texts. *)
EXTENDS UserRequests, TLC

Symmetry == Permutations(Handlers) \cup Permutations(Contents)
=============================================================================
