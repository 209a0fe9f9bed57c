---------------------------- MODULE CommandLatch ----------------------------
(***************************************************************************)
(* What the connector promises about remote session commands, without the  *)
(* queues, clients, retries and restarts that keep the promise             *)
(* (docs/technology-decisions.md, ADR-014): a command causes at most one   *)
(* turn/start, a command that was refused causes none, and a command whose *)
(* outcome is unknown latches its thread, for ever, against every other    *)
(* command of that thread.                                                 *)
(***************************************************************************)
EXTENDS Naturals

CONSTANTS Command,    \* session commands, by commandId
          Thread,     \* agent threads, by threadId
          thread      \* the thread each command is bound to

VARIABLES fate,       \* the durable outcome of each command
          starts      \* how often turn/start was written for each command

vars == <<fate, starts>>

Fate == {"open", "sent_unknown", "delivered", "failed"}

Siblings(c) == {d \in Command \ {c} : thread[d] = thread[c]}

Init ==
    /\ fate = [c \in Command |-> "open"]
    /\ starts = [c \in Command |-> 0]

\* Commands are refused before anything was written for them; a connector that
\* stops may refuse several.
Refuse(C) ==
    /\ \A c \in C : fate[c] = "open"
    /\ fate' = [c \in Command |-> IF c \in C THEN "failed" ELSE fate[c]]
    /\ UNCHANGED starts

\* The outcome becomes unknown; turn/start is written once, or, when the
\* connector or its agent dies at that very point, not at all.
Start(c) ==
    /\ fate[c] = "open"
    /\ \A d \in Siblings(c) : fate[d] # "sent_unknown"
    /\ fate' = [fate EXCEPT ![c] = "sent_unknown"]
    /\ \/ starts' = [starts EXCEPT ![c] = @ + 1]
       \/ UNCHANGED starts

\* The agent named the turn that turn/start created.
Confirm(c) ==
    /\ fate[c] = "sent_unknown"
    /\ starts[c] = 1
    /\ fate' = [fate EXCEPT ![c] = "delivered"]
    /\ UNCHANGED starts

Next ==
    \/ \E C \in SUBSET Command : Refuse(C)
    \/ \E c \in Command : Start(c) \/ Confirm(c)

Spec == Init /\ [][Next]_vars
=============================================================================
