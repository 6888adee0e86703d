-------------------------- MODULE MCContinuousTask --------------------------
(* Model-checking instance of ContinuousTask: a chain of three steps, the    *)
(* same chain with a step budget of two, a step that depends on a later one, *)
(* a plan without steps and one whose budget admits no step.                 *)
EXTENDS ContinuousTask

SmallPlans ==
    { [depends |-> <<{}, {1}, {2}>>, maxSteps |-> 3],
      [depends |-> <<{}, {1}, {2}>>, maxSteps |-> 2],
      [depends |-> <<{}, {3}, {}>>, maxSteps |-> 3],
      [depends |-> <<>>, maxSteps |-> 1],
      [depends |-> <<{}>>, maxSteps |-> 0] }
=============================================================================
