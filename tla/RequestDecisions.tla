--------------------------- MODULE RequestDecisions ---------------------------
(***************************************************************************)
(* What a decision says on its way from the request view of a collaborator *)
(* to Codex, and which decisions each stage lets through:                  *)
(*   src/src/codex/adapter.ts              what Codex asks, what it is told *)
(*   src/src/connector/runtime.ts          the request sent to the server   *)
(*   src/apps/web/src/request-detail.tsx   the decisions the view offers    *)
(*   src/apps/server/src/{app,repository}.ts   what the server accepts      *)
(*   src/src/transport/connector-cloud-client.ts   what the connector reads *)
(* Module ApprovalDelivery has the order in which this happens; here are   *)
(* the functions of the data.  A text is its number of characters, before  *)
(* and after trimming.                                                     *)
(***************************************************************************)
EXTENDS Integers, Sequences, FiniteSets

CONSTANTS Absent,  \* undefined, or of another type than the one expected
          Text     \* the texts a collaborator writes

Trimmed(t) == [length |-> t.trimmed, trimmed |-> t.trimmed]

ASSUME TextAssumption ==
    /\ Text \subseteq [length : Nat, trimmed : Nat]
    /\ \A t \in Text : t.trimmed <= t.length /\ Trimmed(t) \in Text
    /\ Absent \notin Text

MaxAnswers == 50
MaxValues == 10
MaxAnswerLength == 4000
MinReason == 3
MaxShownEntries == 50
-----------------------------------------------------------------------------
\* What Codex asks: a method and its parameters.

CategoryOf(method) ==
    CASE method = "item/commandExecution/requestApproval" -> "command"
      [] method = "item/fileChange/requestApproval" -> "fileChange"
      [] method = "item/permissions/requestApproval" -> "permissions"
      [] OTHER -> Absent

IsApproval(r) == CategoryOf(r.method) \in {"command", "fileChange", "permissions"}

IsQuestion(r) == ~IsApproval(r) /\ r.method = "item/tool/requestUserInput"

HasPlace(p) == Absent \notin {p.threadId, p.turnId, p.itemId}

\* A question is read when it has an id, a header and a text.
ReadableQuestion(q) == Absent \notin {q.id, q.header, q.question}

\* adaptServerRequest neither throws nor returns null.
Adapts(r) ==
    \/ IsApproval(r) /\ HasPlace(r.params) /\ r.params.startedAt # Absent
    \/ /\ IsQuestion(r) /\ HasPlace(r.params)
       /\ \A i \in DOMAIN r.params.questions : ReadableQuestion(r.params.questions[i])

\* The same item asked again, with whatever else in it, has the same id.
StableRequestId(r) ==
    <<r.method, r.params.threadId, r.params.turnId, r.params.itemId, r.params.approvalId>>

\* A path of a permission request, as far as it is known how to show it.
SummarizePath(path) ==
    IF path.type \in {"path", "glob_pattern", "special"} THEN path.value ELSE Absent

Shows(entry) == entry.path # Absent /\ SummarizePath(entry.path) # Absent

SummarizePermissions(permissions) ==
    [network |-> permissions.network,
     fileSystem |->
        {[access |-> permissions.entries[i].access, path |-> SummarizePath(permissions.entries[i].path)] :
            i \in {j \in DOMAIN permissions.entries : j <= MaxShownEntries /\ Shows(permissions.entries[j])}}]

\* What the collaborator is shown of the request, beside its reason.
ApprovalContext(r) ==
    [command |-> IF CategoryOf(r.method) = "command" THEN r.params.command ELSE Absent,
     grantRoot |-> IF CategoryOf(r.method) = "fileChange" THEN r.params.grantRoot ELSE Absent,
     requestedPermissions |->
        IF CategoryOf(r.method) = "permissions" /\ r.params.permissions # Absent
        THEN SummarizePermissions(r.params.permissions) ELSE Absent]

\* A command is dangerous, notable or plain by the words it has.
ClassifyRisk(r) ==
    IF CategoryOf(r.method) = "permissions" THEN "high"
    ELSE IF ApprovalContext(r).command = Absent THEN "medium"
    ELSE CASE ApprovalContext(r).command.words = "dangerous" -> "high"
           [] ApprovalContext(r).command.words = "notable" -> "medium"
           [] OTHER -> "low"

\* toRequestPayload, and the row the server makes of it.
RequestPayload(r) ==
    IF IsApproval(r)
    THEN [kind |-> "approval", category |-> CategoryOf(r.method), risk |-> ClassifyRisk(r),
          context |-> ApprovalContext(r), questions |-> <<>>]
    ELSE [kind |-> "question", category |-> "userInput", risk |-> "low",
          context |-> Absent, questions |-> r.params.questions]
-----------------------------------------------------------------------------
\* The request view.  It offers decisions while the request is pending.

QuestionIds(row) == {row.questions[i].id : i \in DOMAIN row.questions}

DialogDeny(reason) ==
    [decision |-> "deny", reason |-> Trimmed(reason), highRiskConfirmed |-> FALSE, answers |-> Absent]

DialogApprove(row) ==
    [decision |-> "approve", reason |-> Absent, highRiskConfirmed |-> (row.risk = "high"), answers |-> Absent]

FormAnswer(answers) ==
    [decision |-> "answer", reason |-> Absent, highRiskConfirmed |-> FALSE, answers |-> answers]

\* A question with options has a choice of them, one without a text field,
\* which is disabled when the answer is secret.
CanFill(q) == q.options # <<>> \/ ~q.isSecret

\* Two buttons and their dialog decide an approval.
ViewDecides(row, input) ==
    /\ row.kind \in {"approval", "workflow_gate"}
    /\ \/ input = DialogApprove(row)
       \/ \E reason \in Text : reason.trimmed >= MinReason /\ input = DialogDeny(reason)

\* A form that is sent when every question has an answer.
ViewAnswers(row, input) ==
    /\ row.kind = "question" /\ QuestionIds(row) # {}
    /\ \A i \in DOMAIN row.questions : CanFill(row.questions[i])
    /\ \E answer \in [QuestionIds(row) -> {t \in Text : t.trimmed > 0}] :
          input = FormAnswer([q \in QuestionIds(row) |-> <<answer[q]>>])

\* The collaborator can send this decision from the view of the request.
ViewSends(row, input) == ViewDecides(row, input) \/ ViewAnswers(row, input)
-----------------------------------------------------------------------------
\* What the server accepts of a body, in the order of its checks.

ReadAnswers(answers) ==
    /\ Cardinality(DOMAIN answers) <= MaxAnswers
    /\ \A q \in DOMAIN answers :
          /\ Len(answers[q]) \in 1..MaxValues
          /\ \A i \in DOMAIN answers[q] : answers[q][i].length <= MaxAnswerLength

ReadDecisionInput(input) ==
    /\ input.decision \in {"approve", "deny", "answer"}
    /\ input.reason = Absent \/ input.reason.length > 0
    /\ input.answers = Absent \/ ReadAnswers(input.answers)

ValidateDecision(input) ==
    /\ input.decision = "deny" => input.reason # Absent /\ input.reason.trimmed >= MinReason
    /\ input.decision = "answer" => input.answers # Absent /\ DOMAIN input.answers # {}

Answered(q, answers) ==
    /\ q.id \in DOMAIN answers /\ Len(answers[q.id]) > 0
    /\ \A i \in DOMAIN answers[q.id] : answers[q.id][i].trimmed > 0

ValidateDecisionForRequest(row, input) ==
    /\ row.kind = "approval" => input.decision # "answer"
    /\ row.kind = "question" =>
          /\ input.decision = "answer"
          /\ DOMAIN input.answers \subseteq QuestionIds(row)
          /\ \A i \in DOMAIN row.questions :
                Answered(row.questions[i], input.answers) /\ ~row.questions[i].isSecret

Confirmed(row, input) ==
    row.risk = "high" /\ input.decision = "approve" => input.highRiskConfirmed

\* A pending request that has not expired takes this decision.
Accepts(row, input) ==
    /\ ReadDecisionInput(input) /\ ValidateDecision(input)
    /\ ValidateDecisionForRequest(row, input) /\ Confirmed(row, input)
-----------------------------------------------------------------------------
\* The connector.

ReadRemoteDecision(input) == input.decision \in {"approve", "deny", "answer"}

ApprovalDecisions == {"approve", "deny"}

\* #handleDecision finds what to tell Codex without throwing.
Answers(r, input) ==
    /\ ReadRemoteDecision(input)
    /\ IsApproval(r) => input.decision \in ApprovalDecisions
    /\ ~IsApproval(r) =>
          /\ input.decision = "answer" /\ input.answers # Absent
          /\ QuestionIds(r.params) \subseteq DOMAIN input.answers

\* createCodexResponse for an approval: what is granted, and for how long.
NoPermissions == [network |-> Absent, entries |-> <<>>]

PermissionsResponse(r, decision) ==
    [permissions |-> IF decision = "approve" /\ r.params.permissions # Absent
                     THEN r.params.permissions ELSE NoPermissions,
     scope |-> "turn"]

ApprovalResponse(decision) ==
    [decision |-> CASE decision = "approve" -> "accept"
                    [] decision = "deny" -> "decline"
                    [] OTHER -> "cancel"]

QuestionResponse(input) ==
    [answers |-> [q \in DOMAIN input.answers |-> [answers |-> input.answers[q]]]]

CodexResponse(r, input) ==
    IF ~IsApproval(r) THEN QuestionResponse(input)
    ELSE IF CategoryOf(r.method) = "permissions" THEN PermissionsResponse(r, input.decision)
    ELSE ApprovalResponse(input.decision)
=============================================================================
