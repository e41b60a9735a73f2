--------------------------- MODULE MCPresenceWake ---------------------------
(* Instances of PresenceWake for TLC.                                      *)
EXTENDS PresenceWake, TLC

Symmetry == Permutations(Handlers)

=============================================================================
