------------------------------ MODULE MCImages ------------------------------
(* Model-checking instance of Images.                                      *)
EXTENDS Images, TLC

CONSTANTS h1, h2, h3, f1, f2

(* Two uploads of the same content and a reader at once.                   *)
MCHandlers == {h1, h2, h3}
MCFiles == {f1, f2}

MCSymmetry == Permutations(Handlers) \cup Permutations(Files)

=============================================================================
