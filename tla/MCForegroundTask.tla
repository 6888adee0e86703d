-------------------------- MODULE MCForegroundTask --------------------------
(* Model-checking instance of ForegroundTask: the calls of one session and   *)
(* the control requests are interchangeable model values.                    *)
EXTENDS ForegroundTask, TLC

Symmetry == Permutations(Calls) \union Permutations(Requests)
=============================================================================
