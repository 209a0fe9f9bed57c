------------------------- MODULE MCApprovalDelivery -------------------------
(* Instances of ApprovalDelivery for TLC: approvals over a restart of the    *)
(* connector, or questions, or requests of another agent.  The decisions     *)
(* that travel are those of RequestDecisions, checked over small inputs.     *)
EXTENDS ApprovalDelivery, RequestDecisions

\* Bound: events not applied yet, in a behaviour with a restart.
CONSTANT MaxQueued

Asked(kind) == \E r \in kind : status[r] # "none" \/ \E i \in DOMAIN events : events[i].req = r

OneKind ==
    /\ \A k, l \in {Approval, Question, Foreign} : Asked(k) /\ Asked(l) => k = l
    /\ restarts > 0 => ~Asked(Question) /\ ~Asked(Foreign) /\ Len(events) <= MaxQueued

MCNext == Next /\ OneKind'

MCSpec == Init /\ [][MCNext]_vars /\ Fairness
-----------------------------------------------------------------------------
Lengths == {0, 2, 3, MaxAnswerLength + 1}

SmallTexts == {t \in [length : Lengths, trimmed : Lengths] : t.trimmed <= t.length}

Granted == [network |-> "enabled", entries |-> <<[access |-> "write", path |-> [type |-> "path", value |-> "/"]]>>]

SmallQuestions ==
    [id : {"a"}, header : {"h"}, question : {"q", Absent}, options : {<<>>, <<"yes">>}, isSecret : BOOLEAN]
        \cup {[id |-> "b", header |-> "h", question |-> "q", options |-> <<>>, isSecret |-> FALSE]}

Asks ==
    [method : {"item/commandExecution/requestApproval", "item/fileChange/requestApproval",
               "item/permissions/requestApproval", "item/tool/requestUserInput", "item/other"},
     params : [threadId : {"t", Absent}, turnId : {"u"}, itemId : {"i"}, approvalId : {Absent}, startedAt : {1},
               command : {Absent, [words |-> "plain"], [words |-> "dangerous"]}, grantRoot : {Absent},
               permissions : {Absent, Granted},
               questions : UNION {[1..n -> SmallQuestions] : n \in 0..2}]]

\* What can be asked of the connector, without the repetitions in its unused fields.
SmallAsks ==
    {r \in Asks : IF IsQuestion(r) THEN r.params.command = Absent /\ r.params.permissions = Absent
                  ELSE r.params.questions = <<>>}

Given == {<<>>, <<[length |-> 3, trimmed |-> 3]>>, <<[length |-> 3, trimmed |-> 0]>>,
          <<[length |-> MaxAnswerLength + 1, trimmed |-> 3]>>}

SmallInputs ==
    [decision : {"approve", "deny", "answer", "cancel"}, reason : SmallTexts \cup {Absent},
     highRiskConfirmed : BOOLEAN, answers : {Absent} \cup UNION {[q -> Given] : q \in SUBSET {"a", "b"}}]

\* Of the inputs that differ only in a reason or in answers that are not read one is enough.
Inputs ==
    {i \in SmallInputs : /\ i.decision = "answer" => i.reason = Absent /\ ~i.highRiskConfirmed
                         /\ i.decision # "answer" => i.answers = Absent}

\* What is accepted can be answered; permissions that are granted were confirmed.
ASSUME DecisionsAreAnswerable ==
    \A r \in {ask \in SmallAsks : Adapts(ask)}, i \in Inputs :
        Accepts(RequestPayload(r), i) =>
            /\ Answers(r, i)
            /\ CategoryOf(r.method) = "permissions" /\ CodexResponse(r, i).permissions # NoPermissions =>
                  i.decision = "approve" /\ i.highRiskConfirmed
            /\ IsQuestion(r) => DOMAIN CodexResponse(r, i).answers = QuestionIds(r.params)

\* What the view sends is accepted, apart from answers that are too long.
ASSUME ViewIsAccepted ==
    \A r \in {ask \in SmallAsks : Adapts(ask)}, i \in Inputs :
        /\ ViewSends(RequestPayload(r), i)
        /\ \A k \in DOMAIN r.params.questions : ~r.params.questions[k].isSecret
        /\ i.decision = "answer" => ReadAnswers(i.answers)
        => Accepts(RequestPayload(r), i)

\* Some decision of every kind is sent and accepted.
ASSUME EveryDecisionOccurs ==
    \A d \in {"approve", "deny", "answer"} :
        \E r \in {ask \in SmallAsks : Adapts(ask)}, i \in Inputs :
            i.decision = d /\ ViewSends(RequestPayload(r), i) /\ Accepts(RequestPayload(r), i)
=============================================================================
