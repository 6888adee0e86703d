-------------------------- MODULE MCCronScheduler --------------------------
(* Model-checking instance of CronScheduler: every id has a shard of its own *)
(* and requests, executions and ids are interchangeable.                     *)
EXTENDS CronScheduler, TLC

OwnShard == [i \in Ids |-> i]

Symmetry == Permutations(Users) \union Permutations(Execs) \union Permutations(Ids)
=============================================================================
