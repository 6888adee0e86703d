--------------------------- MODULE MCApprovalGate ---------------------------
(* Model-checking instance of ApprovalGate.                                  *)
EXTENDS ApprovalGate, TLC

Symmetry == Permutations(Calls) \union Permutations(Answers) \union Permutations(Codes)
=============================================================================
