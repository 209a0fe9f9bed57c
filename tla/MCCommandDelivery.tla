-------------------------- MODULE MCCommandDelivery --------------------------
(* Instances of CommandDelivery for TLC. *)
EXTENDS CommandDelivery, TLC

CONSTANTS c1, c2, t1

\* Both commands are for one thread.
Interchangeable == Permutations(Command)

OneThread == [c \in Command |-> t1]

\* A behaviour has one fault: the connector dies or, with the handler that is not
\* awaited, a connection breaks or the server restarts.
OneFault == IF awaits THEN disconnects = 0 ELSE restarts + disconnects <= 1
=============================================================================
