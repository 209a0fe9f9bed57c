--------------------------- MODULE WorkflowRunLife ---------------------------
(***************************************************************************)
(* What the server may count on in the engine of a connector: which runs   *)
(* it executes, and the status it last reported of each.  WorkflowEngine   *)
(* implements it, WorkflowSystem composes it with the server.              *)
(***************************************************************************)
CONSTANT Run

VARIABLES live,     \* the runs being executed
          last      \* the status last reported of each run

lifeVars == <<live, last>>

LifeInit == live = {} /\ last = [r \in Run |-> "none"]

\* A dispatched run that is not executed is taken up, and said to be running.
Take(r) ==
    /\ r \notin live
    /\ live' = live \cup {r}
    /\ last' = [last EXCEPT ![r] = "running"]

\* Only a run that is executed ends, once, with the status that is reported.
End(r, status) ==
    /\ r \in live
    /\ live' = live \ {r}
    /\ last' = [last EXCEPT ![r] = status]

\* The process dies and comes back with the runs `kept`; of those it comes back
\* without it may report a failure.
Die(kept, failed) ==
    /\ kept \cap failed = {}
    /\ live' = kept
    /\ last' = [r \in Run |-> IF r \in failed THEN "failed" ELSE last[r]]

LifeNext ==
    \/ \E r \in Run : Take(r) \/ \E status \in {"completed", "failed", "cancelled"} : End(r, status)
    \/ \E kept, failed \in SUBSET Run : Die(kept, failed)

LifeSpec == LifeInit /\ [][LifeNext]_lifeVars
=============================================================================
