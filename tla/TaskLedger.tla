----------------------------- MODULE TaskLedger -----------------------------
(***************************************************************************)
(* What a continuous task promises about its artifact, without retries,    *)
(* pauses, failures of the store, or the threads and rewrites that bring   *)
(* an output to the file: the planned steps are delivered one after the    *)
(* other, each is confirmed before the next is delivered, the task is      *)
(* complete only when every planned step is confirmed, and as long as the  *)
(* artifact is sound nothing is ever missing from it.  ContinuousTask      *)
(* implements it.                                                          *)
(***************************************************************************)
EXTENDS Naturals

CONSTANT Steps          \* how many steps a plan may have

VARIABLES planned,      \* how many steps the task has
          delivered,    \* the steps that are in the artifact or on their way to it
          sound,        \* nothing has happened yet that may lose an output
          confirmed,    \* how many steps are confirmed
          phase         \* "open", "complete" or "stopped"

vars == <<planned, delivered, sound, confirmed, phase>>

Init ==
    /\ planned \in Steps
    /\ delivered = {} /\ sound = TRUE
    /\ confirmed = 0
    /\ phase = "open"

\* A step is delivered once, and not before the one before it is confirmed.
Deliver ==
    /\ phase = "open"
    /\ confirmed < planned
    /\ confirmed + 1 \notin delivered
    /\ delivered' = delivered \union {confirmed + 1}
    /\ UNCHANGED <<planned, sound, confirmed, phase>>

Confirm ==
    /\ phase = "open"
    /\ sound => confirmed + 1 \in delivered
    /\ confirmed' = confirmed + 1
    /\ UNCHANGED <<planned, delivered, sound, phase>>

Complete ==
    /\ phase = "open"
    /\ planned > 0 /\ confirmed = planned
    /\ phase' = "complete"
    /\ UNCHANGED <<planned, delivered, sound, confirmed>>

\* Something goes wrong with the file, at any time and also after the end:
\* outputs may be missing from now on, but none comes back or comes anew.
Spoil ==
    /\ sound' = FALSE
    /\ delivered' \subseteq delivered
    /\ UNCHANGED <<planned, confirmed>>

Damage == Spoil /\ UNCHANGED phase

\* The task may end early at any time.
Stop ==
    /\ phase = "open"
    /\ phase' = "stopped"
    /\ Spoil \/ UNCHANGED <<planned, delivered, sound, confirmed>>

Next == Deliver \/ Confirm \/ Complete \/ Damage \/ Stop

Spec == Init /\ [][Next]_vars
=============================================================================
