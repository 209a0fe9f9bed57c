-------------------------- MODULE MCWorkflowEngine --------------------------
(* Instances of WorkflowEngine for TLC, and WorkflowDefinition over small    *)
(* drawings: the definitions that run.                                       *)
EXTENDS WorkflowEngine, WorkflowDefinition
CONSTANTS r1,
          MaxFaults  \* bound: crashes and lost connections together

MCNext == EngineNext /\ crashes' + breaks' <= MaxFaults

MCFairSpec == EngineInit /\ [][MCNext]_engineVars /\ WF_engineVars(EngineStep)
-----------------------------------------------------------------------------
Orders ==
    UNION {{s \in [1..n -> NodeId] : \A i, j \in 1..n : s[i] = s[j] => i = j} : n \in 0..Cardinality(NodeId)}

SmallNode(id) == EmptyNode(id, CHOOSE a \in Agent : TRUE)

Drawings == [nodes : {[i \in DOMAIN s |-> SmallNode(s[i])] : s \in Orders}, edges : SUBSET (NodeId \X NodeId)]

\* validateLinear finds exactly the lines, and each of its errors occurs.
ASSUME LinesAreFound ==
    /\ \A c \in Drawings : ValidateLinear(c) = "valid" <=> \E s \in Orders : s # <<>> /\ IsLine(c, s)
    /\ {ValidateLinear(c) : c \in Drawings}
           = {"valid", "empty", "not_linear", "branch", "loop", "not_connected"}

\* A line that a node is added to may end elsewhere than at the node that was
\* added last: it then branches.  One that is not drawn by hand stays a line.
ASSUME AddedNodesAreChained ==
    \A c \in Drawings, id \in NodeId :
        /\ c.nodes # <<>> /\ id \notin IdsOf(c.nodes) /\ IsLine(c, [i \in DOMAIN c.nodes |-> c.nodes[i].id])
        /\ \A e \in c.edges : e[1] # id /\ e[2] # id
        => LET next == AddNode(c, id, CHOOSE a \in Agent : TRUE) IN
           IsLine(next, [i \in DOMAIN next.nodes |-> next.nodes[i].id])
-----------------------------------------------------------------------------
Configured ==
    {n \in [id : NodeId, agent : Agent, task : Text, handoff : Text, kind : ConditionKind, criteria : Text,
            maxRetries : {0, 1}, turnBudget : {0, 5}, timeoutMs : {999, 600000}] :
        \/ n.task = Words /\ n.turnBudget = 5
        \/ n = [EmptyNode(n.id, n.agent) EXCEPT !.turnBudget = 0]}

SmallDefinitions == UNION {[1..n -> {NodeToInput(c) : c \in Configured}] : n \in 0..1}

\* A definition that is opened is a line, and saves as itself: the saving that
\* nobody asked for (autosave) changes nothing.
ASSUME OpenedSavesAsItself ==
    \A d \in SmallDefinitions :
        /\ SavedNodes(OpenDefinition(d)) = d
        /\ ValidateDefinition(d) => ValidateLinear(OpenDefinition(d)) = "valid"

\* What the canvas lets through the server accepts, with the budgets and times
\* that nobody can edit.
ASSUME ValidIsAccepted ==
    \A n \in {c \in Configured : c.turnBudget = 5 /\ c.timeoutMs = 600000} :
        LET canvas == [nodes |-> <<n>>, edges |-> {}] IN
        Validate(canvas) => Accepts(SavedNodes(canvas))

\* A workflow with an active run keeps its workstation and is not deleted.
ASSUME ActiveWorkflowsStay ==
    \A u, v \in Workstation, d \in {x \in SmallDefinitions : ValidateDefinition(x)} :
        LET workflow == [CreateWorkflow([workstation |-> u, nodes |-> d]) EXCEPT !.active = TRUE]
            body == [workstation |-> v, nodes |-> d] IN
        /\ ~MayDelete(workflow)
        /\ MayUpdate(workflow, body) => UpdateWorkflow(workflow, body).workstation = u
=============================================================================
