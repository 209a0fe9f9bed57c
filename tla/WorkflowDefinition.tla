-------------------------- MODULE WorkflowDefinition --------------------------
(***************************************************************************)
(* From a drawing to the definition that runs: the canvas on which a       *)
(* workflow is drawn, what is sent when it is saved, and what the server   *)
(* accepts, stores and gives back.                                         *)
(*   src/apps/web/src/workflow-canvas.tsx     the canvas                    *)
(*   src/apps/server/src/app.ts               the routes                    *)
(*   src/apps/server/src/workflow-repository.ts   definitions               *)
(* A drawing has a sequence of nodes, in the order in which they were      *)
(* added, and a set of edges, pairs of node ids.                           *)
(***************************************************************************)
EXTENDS Integers, Sequences, FiniteSets

CONSTANTS NodeId, Agent, Workstation,
          Blank, Words,     \* a text that trims to nothing, and one that does not
          Absent            \* a field that is left out

ASSUME TextAssumption == Absent \notin {Blank, Words} /\ Blank # Words

Text == {Blank, Words}

ConditionKind == {"agent_confirm", "criteria_check", "manual_gate"}

CanvasNode == [id : NodeId, agent : Agent, task : Text, handoff : Text, kind : ConditionKind,
               criteria : Text, maxRetries : Nat, turnBudget : Nat, timeoutMs : Nat]

IdsOf(nodes) == {nodes[i].id : i \in DOMAIN nodes}
-----------------------------------------------------------------------------
\* Editing.

EmptyNode(id, agent) ==
    [id |-> id, agent |-> agent, task |-> Blank, handoff |-> Blank, kind |-> "agent_confirm",
     criteria |-> Blank, maxRetries |-> 1, turnBudget |-> 5, timeoutMs |-> 600000]

\* A new node is chained to the node that was added last, wherever that is drawn.
AddNode(canvas, id, agent) ==
    [nodes |-> Append(canvas.nodes, EmptyNode(id, agent)),
     edges |-> IF canvas.nodes = <<>> THEN canvas.edges
               ELSE canvas.edges \cup {<<canvas.nodes[Len(canvas.nodes)].id, id>>}]

Connect(canvas, source, target) ==
    [canvas EXCEPT !.edges = @ \cup {<<source, target>>}]

UpdateNode(canvas, id, patched) ==
    [canvas EXCEPT !.nodes =
        [i \in DOMAIN canvas.nodes |-> IF canvas.nodes[i].id = id THEN patched ELSE canvas.nodes[i]]]

\* Opening a definition draws its nodes in their order, one after the other.
OpenDefinition(definition) ==
    [nodes |-> [i \in DOMAIN definition |->
                  [id |-> definition[i].id, agent |-> definition[i].agent, task |-> definition[i].task,
                   handoff |-> IF definition[i].handoff = Absent THEN Blank ELSE definition[i].handoff,
                   kind |-> definition[i].kind,
                   criteria |-> IF definition[i].criteria = Absent THEN Blank ELSE definition[i].criteria,
                   maxRetries |-> definition[i].maxRetries, turnBudget |-> definition[i].turnBudget,
                   timeoutMs |-> definition[i].timeoutMs]],
     edges |-> {<<definition[i].id, definition[i + 1].id>> : i \in 1..(Len(definition) - 1)}]

\* The agents that can be chosen: those of any session, and codex.
AgentKinds(sessions, workstations) ==
    {"codex"} \cup {s.agent : s \in {r \in sessions : r.workstation \in workstations /\ r.agent # Absent}}
-----------------------------------------------------------------------------
\* validateLinear. An edge of which an end is gone is not counted.

Edges(canvas) ==
    {e \in canvas.edges : e[1] \in IdsOf(canvas.nodes) /\ e[2] \in IdsOf(canvas.nodes)}

Successors(canvas, id) == {e[2] : e \in {f \in Edges(canvas) : f[1] = id}}

Roots(canvas) == {id \in IdsOf(canvas.nodes) : \A e \in Edges(canvas) : e[2] # id}

\* Where the walk from the root is after each step, with no branch on its way.
Walk(canvas) ==
    LET at[k \in 0..Len(canvas.nodes)] ==
            IF k = 0 THEN Roots(canvas)
            ELSE UNION {Successors(canvas, id) : id \in at[k - 1]}
    IN  at

Loops(canvas) ==
    LET at == Walk(canvas) IN
    \E j, k \in 0..Len(canvas.nodes) : j < k /\ at[j] \cap at[k] # {}

Visited(canvas) ==
    LET at == Walk(canvas) IN UNION {at[k] : k \in 0..Len(canvas.nodes)}

ValidateLinear(canvas) ==
    CASE canvas.nodes = <<>> -> "empty"
      [] Len(canvas.nodes) > 0 /\ Cardinality(Roots(canvas)) # 1 -> "not_linear"
      [] OTHER ->
            CASE \E id \in IdsOf(canvas.nodes) : Cardinality(Successors(canvas, id)) > 1 -> "branch"
              [] Loops(canvas) -> "loop"
              [] Visited(canvas) # IdsOf(canvas.nodes) -> "not_connected"
              [] OTHER -> "valid"

\* The edges lead from node to node along one line through all of them.
IsLine(canvas, s) ==
    /\ \A i, j \in DOMAIN s : s[i] = s[j] => i = j
    /\ {s[i] : i \in DOMAIN s} = IdsOf(canvas.nodes)
    /\ Edges(canvas) = {<<s[i], s[i + 1]>> : i \in 1..(Len(s) - 1)}

\* validate: what the explicit save and the run ask for; autosave asks for nothing.
Validate(canvas) ==
    /\ ValidateLinear(canvas) = "valid"
    /\ \A i \in DOMAIN canvas.nodes :
          /\ canvas.nodes[i].task # Blank
          /\ canvas.nodes[i].kind = "criteria_check" => canvas.nodes[i].criteria # Blank

AutoSaves(canvas, name, goal) == name # Blank /\ goal # Blank /\ canvas.nodes # <<>>
-----------------------------------------------------------------------------
\* nodeToInput and the body of a save: the nodes in their order, no edges.

NodeToInput(node) ==
    [id |-> node.id, agent |-> node.agent, task |-> node.task,
     handoff |-> IF node.handoff = Blank THEN Absent ELSE node.handoff,
     kind |-> node.kind,
     criteria |-> IF node.kind = "criteria_check" THEN node.criteria ELSE Absent,
     maxRetries |-> IF node.kind = "manual_gate" THEN 0 ELSE node.maxRetries,
     turnBudget |-> node.turnBudget, timeoutMs |-> node.timeoutMs]

SavedNodes(canvas) == [i \in DOMAIN canvas.nodes |-> NodeToInput(canvas.nodes[i])]

\* The routes read a body without asking for types: what is no array has no nodes.
ReadNodes(body) == IF body.nodes = Absent THEN <<>> ELSE body.nodes

\* validateDefinition, and the snapshot that is stored if it passes.
ValidateDefinition(nodes) ==
    /\ nodes # <<>>
    /\ \A i, j \in DOMAIN nodes : nodes[i].id = nodes[j].id => i = j
    /\ \A i \in DOMAIN nodes :
          /\ nodes[i].task # Blank
          /\ nodes[i].turnBudget >= 1
          /\ nodes[i].timeoutMs >= 1000
          /\ nodes[i].maxRetries >= 0

\* A workflow as the server has it: the workstation it is for, its nodes, and
\* whether a run of it is pending or running.
Accepts(nodes) == ValidateDefinition(nodes)

CreateWorkflow(body) == [workstation |-> body.workstation, nodes |-> ReadNodes(body), active |-> FALSE]

MayUpdate(workflow, body) ==
    Accepts(ReadNodes(body)) /\ (workflow.active => body.workstation = workflow.workstation)

UpdateWorkflow(workflow, body) ==
    [workflow EXCEPT !.workstation = body.workstation, !.nodes = ReadNodes(body)]

MayDelete(workflow) == ~workflow.active

\* Every four seconds: the newest run if it is pending or running, none if it
\* is over, and what was shown if the workflow has no run.
ShownRun(shown, runs) ==
    CASE runs = <<>> -> shown
      [] OTHER -> IF runs[1].status \in {"pending", "running"} THEN runs[1] ELSE Absent

\* handleRun: the drawing is validated, what the server has stored is run.
RunsStored(canvas, selected) == Validate(canvas) /\ selected # Absent

=============================================================================
