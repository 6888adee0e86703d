-------------------------- MODULE MCSupervisedTask --------------------------
(* Model-checking instance of SupervisedTask: the runs after the first, the  *)
(* requests and the recovery tasks are interchangeable.                      *)
EXTENDS SupervisedTask, TLC

Symmetry ==
    Permutations(Runs \ {First}) \union Permutations(Requests) \union Permutations(Watchers)
=============================================================================
