--------------------------- MODULE MCProjectLock ---------------------------
(* ProjectLock with two tasks in one process and one in another.            *)
EXTENDS ProjectLock, TLC

CONSTANTS t1, t2, t3, p1, p2

MCProcessOf == t1 :> p1 @@ t2 :> p1 @@ t3 :> p2
=============================================================================
