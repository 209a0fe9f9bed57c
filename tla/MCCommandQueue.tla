--------------------------- MODULE MCCommandQueue ---------------------------
(* Instances of CommandQueue for TLC. *)
EXTENDS CommandQueue, TLC

CONSTANTS c1, c2, c3, t1, t2

\* Two commands compete for one thread, a third has a thread of its own.
TwoAndOne == c1 :> t1 @@ c2 :> t1 @@ c3 :> t2
=============================================================================
