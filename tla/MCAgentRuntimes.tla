-------------------------- MODULE MCAgentRuntimes --------------------------
(* Instances of AgentRuntimes for TLC. *)
EXTENDS AgentRuntimes

CONSTANTS t1, t2

\* Text and permissions do not depend on each other: a behaviour has one of them.
TextOrAsks == (watched = {} /\ \A t \in Thread : text[t] = 0) \/ \A a \in Ask : ask[a].agent = "none"

\* A second life of the connector finds one permission of the first, not two.
OneBefore == phase = "down" => ask[2].agent = "none"
=============================================================================
