----------------------- MODULE WorkstationPairingProofs -----------------------
(***************************************************************************)
(* What the server knows of a workstation: whom a pairing code lets in, for *)
(* every number of competing setups and of sockets; what a refresh of the   *)
(* sessions does to its list; and what becomes of a workflow run, for every *)
(* number of connections and of cancellations.                              *)
(*                                                                         *)
(* The claim of a row is set once, and what the user was shown is that     *)
(* claim or nothing.  The row that is approved stays so, hence it creates  *)
(* one workstation, and every token is the one of its claim.  After a      *)
(* revocation no socket becomes known any more: what is left to attach had *)
(* been looked up before, which is what Missed remembers.                  *)
(*                                                                         *)
(* Of a run, the last report under way says what the engine does; when     *)
(* none is under way the row says it.                                      *)
(***************************************************************************)
EXTENDS WorkstationPairing, SessionInventory, FiniteSetTheorems, WorkflowSystem, TLAPS

\* What a setup was answered: a text, and with the approval a token.
Text == {"none", "waiting_for_device", "pending_approval", "approved", "cancelled", "expired", "refused"}

AnswersTyped == answer \in [Setup -> [text : Text, token : Token \cup {Nobody}]]

LinkState == [client : BOOLEAN, gone : BOOLEAN,
              server : {"none", "asking", "known", "attached", "closed"}]

\* The claim is set while nothing was shown; an approved row stays approved and
\* has created its workstation.
RowAgrees ==
    /\ status \in {"none", "waiting_for_device"} => claimedBy = Nobody
    /\ shown \in {claimedBy, Nobody}
    /\ status = "approved" => shown # Nobody
    /\ workstations = IF status = "approved" THEN 1 ELSE 0
    /\ authorized => status = "approved"

\* Every token there is belongs to the claim of the approved row.
TokensAgree ==
    /\ {credential, config} \subseteq {Nobody, TokenOf(claimedBy)}
    /\ \A s \in Setup : answer[s].token # Nobody => s = claimedBy /\ answer[s].token = TokenOf(s)
    /\ status # "approved" => /\ credential = Nobody /\ config = Nobody
                              /\ \A s \in Setup : answer[s].token = Nobody
    /\ \A s \in Setup : phase[s] = "saving" => answer[s].token # Nobody

\* After the answer to a revocation no socket is known, and none that is attached
\* has a connector at its other end.
KeptOut ==
    workstations = 1 /\ ~authorized /\ ~revoking /\ ~escaped =>
        \A l \in Link : /\ links[l].server # "known"
                        /\ links[l].server = "attached" => ~links[l].client

PairingInv == TypeOK /\ AnswersTyped /\ RowAgrees /\ TokensAgree /\ KeptOut

LEMMA InitPairing == Init => PairingInv
  <1> SUFFICES ASSUME Init  PROVE PairingInv
    OBVIOUS
  <1> USE PairingAssumption DEF Init
  <1>1. links \in [Link -> LinkState]
    BY DEF LinkState
  <1>2. TypeOK
    <2>1. \A s \in Setup : answer[s].token = Nobody
      OBVIOUS
    <2>2. registry \in 0..MaxLinks /\ deliveries \in 0..MaxTokens
      OBVIOUS
    <2>3. {authorized, revoking, escaped} \subseteq BOOLEAN
      BY Zenon
    <2>4. /\ {claimedBy, shown} \subseteq Setup \cup {Nobody}
          /\ {credential, config} \subseteq Token \cup {Nobody}
          /\ time \in 0..2 /\ workstations \in 0..2
          /\ registry \in 0..MaxLinks
      OBVIOUS
    <2>5. /\ phase \in [Setup -> {"idle", "claiming", "polling", "saving"} \cup Ended]
          /\ call \in [Setup -> {"none", "sent", "answered", "failed"}]
      OBVIOUS
    <2>6. status \in {"none", "waiting_for_device", "pending_approval", "approved", "cancelled", "expired"}
      OBVIOUS
    <2>7. \A s \in Setup : answer[s].token \in Token \cup {Nobody}
      BY <2>1
    <2> QED
      BY <1>1, <2>2, <2>3, <2>4, <2>5, <2>6, <2>7, Zenon DEF TypeOK, LinkState
  <1>3. AnswersTyped
    BY DEF AnswersTyped, Text
  <1>4. RowAgrees /\ TokensAgree /\ KeptOut
    BY DEF RowAgrees, TokensAgree, KeptOut
  <1> QED
    BY <1>2, <1>3, <1>4 DEF PairingInv

LEMMA PairingTypesStep ==
    ASSUME TypeOK, AnswersTyped, RowAgrees, [Next]_vars
    PROVE  TypeOK' /\ AnswersTyped'
  <1> USE PairingAssumption DEF TypeOK, AnswersTyped, Text, RowAgrees, Token, Ended, rowVars, keyVars, setupVars, linkVars
  <1>1. CASE CreatePairing
    BY <1>1 DEF CreatePairing
  <1>2. CASE ListPairings
    BY <1>2 DEF ListPairings, Late
  <1>3. CASE ApprovePairing
    BY <1>3 DEF ApprovePairing, Late
  <1>4. CASE CancelPairing
    BY <1>4 DEF CancelPairing
  <1>5. CASE TimePasses
    BY <1>5 DEF TimePasses
  <1>6. CASE Revoke
    BY <1>6 DEF Revoke
  <1>7. CASE RevokeCloses
    <2>1. links' \in [Link -> LinkState]
      BY <1>7 DEF RevokeCloses, LinkState
    <2>2. escaped' \in BOOLEAN
      BY <1>7, Zenon DEF RevokeCloses
    <2>3. /\ registry' = 0 /\ revoking' = FALSE
          /\ UNCHANGED <<rowVars, time, keyVars, setupVars>>
      BY <1>7, Zenon DEF RevokeCloses
    <2>4. {authorized, revoking, escaped}' \subseteq BOOLEAN
      BY <2>2, <2>3, Zenon
    <2> QED
      BY <2>1, <2>3, <2>4 DEF LinkState
  <1>8. ASSUME NEW s \in Setup, StartSetup(s)  PROVE TypeOK' /\ AnswersTyped'
    BY <1>8 DEF StartSetup
  <1>9. ASSUME NEW s \in Setup, CallFails(s)  PROVE TypeOK' /\ AnswersTyped'
    BY <1>9 DEF CallFails
  <1>10. ASSUME NEW s \in Setup, RetryClaim(s)  PROVE TypeOK' /\ AnswersTyped'
    BY <1>10 DEF RetryClaim
  <1>11. ASSUME NEW s \in Setup, GiveUpClaim(s)  PROVE TypeOK' /\ AnswersTyped'
    BY <1>11 DEF GiveUpClaim
  <1>12. ASSUME NEW s \in Setup, Claim(s)  PROVE TypeOK' /\ AnswersTyped'
    BY <1>12 DEF Claim, Late, Reply
  <1>13. ASSUME NEW s \in Setup, ClaimAnswered(s)  PROVE TypeOK' /\ AnswersTyped'
    BY <1>13 DEF ClaimAnswered
  <1>14. ASSUME NEW s \in Setup, Poll(s)  PROVE TypeOK' /\ AnswersTyped'
    BY <1>14 DEF Poll
  <1>15. ASSUME NEW s \in Setup, Result(s)  PROVE TypeOK' /\ AnswersTyped'
    <2>1. TokenOf(s) \in Token
      BY DEF TokenOf
    <2>2. CASE answer' = [answer EXCEPT ![s] = [text |-> "approved", token |-> TokenOf(s)]]
      BY <1>15, <2>1, <2>2 DEF Result, Reply, Deliver
    <2>3. CASE \E text \in Text : answer' = [answer EXCEPT ![s] = [text |-> text, token |-> Nobody]]
      BY <1>15, <2>1, <2>3 DEF Result, Reply, Deliver
    <2> QED
      BY <1>15, <2>2, <2>3 DEF Result, Reply, Deliver
  <1>16. ASSUME NEW s \in Setup, ResultAnswered(s)  PROVE TypeOK' /\ AnswersTyped'
    BY <1>16 DEF ResultAnswered
  <1>17. ASSUME NEW s \in Setup, Save(s)  PROVE TypeOK' /\ AnswersTyped'
    BY <1>17 DEF Save
  <1>18. ASSUME NEW s \in Setup, SetupDies(s)  PROVE TypeOK' /\ AnswersTyped'
    BY <1>18 DEF SetupDies
  <1>19. ASSUME NEW l \in Link, Connect(l)  PROVE TypeOK' /\ AnswersTyped'
    BY <1>19 DEF Connect
  <1>20. ASSUME NEW l \in Link, Identify(l)  PROVE TypeOK' /\ AnswersTyped'
    BY <1>20 DEF Identify
  <1>21. ASSUME NEW l \in Link, Register(l)  PROVE TypeOK' /\ AnswersTyped'
    <2>1. links' \in [Link -> LinkState]
      BY <1>21 DEF Register, LinkState
    <2>2. registry' \in 0..MaxLinks
      BY <1>21 DEF Register, Link
    <2> QED
      BY <1>21, <2>1, <2>2 DEF Register, LinkState
  <1>22. ASSUME NEW l \in Link, ClientLoses(l)  PROVE TypeOK' /\ AnswersTyped'
    <2>1. links' \in [Link -> LinkState]
      <3> DEFINE m == [links[l] EXCEPT !.client = FALSE]
      <3>0. links[l] \in LinkState
        BY DEF LinkState
      <3>1. m \in LinkState
        BY <3>0 DEF LinkState
      <3>2. links' = [links EXCEPT ![l] = m] /\ links \in [Link -> LinkState]
        BY <1>22 DEF ClientLoses, LinkState
      <3> HIDE DEF m, LinkState
      <3> QED
        BY <3>1, <3>2
    <2>2. UNCHANGED <<rowVars, time, keyVars, setupVars, registry, revoking, escaped>>
      BY <1>22, Zenon DEF ClientLoses
    <2> QED
      BY <2>1, <2>2 DEF LinkState
  <1>23. ASSUME NEW l \in Link, ServerLoses(l)  PROVE TypeOK' /\ AnswersTyped'
    <2>1. links' \in [Link -> LinkState]
      <3>1. links[l] \in LinkState
        BY DEF LinkState
      <3>2. PICK server \in {links[l].server, "closed"} :
               links' = [links EXCEPT ![l].gone = TRUE, ![l].server = server]
        BY <1>23 DEF ServerLoses
      <3> DEFINE m == [links[l] EXCEPT !.gone = TRUE, !.server = server]
      <3>3. m \in LinkState
        BY <3>1 DEF LinkState
      <3>4. links' = [links EXCEPT ![l] = m] /\ links \in [Link -> LinkState]
        BY <3>2 DEF LinkState
      <3> HIDE DEF m, LinkState
      <3> QED
        BY <3>3, <3>4
    <2>2. registry' \in 0..MaxLinks
      BY <1>23 DEF ServerLoses
    <2> QED
      BY <1>23, <2>1, <2>2 DEF ServerLoses, LinkState
  <1>24. CASE UNCHANGED vars
    BY <1>24 DEF vars
  <1> QED
    BY <1>1, <1>2, <1>3, <1>4, <1>5, <1>6, <1>7, <1>8, <1>9, <1>10, <1>11, <1>12, <1>13, <1>14, <1>15, <1>16, <1>17, <1>18, <1>19, <1>20, <1>21, <1>22, <1>23, <1>24
       DEF Next, SetupStep

LEMMA RowStep ==
    ASSUME TypeOK, RowAgrees, [Next]_vars
    PROVE  RowAgrees'
  <1> USE PairingAssumption DEF TypeOK, RowAgrees, rowVars, keyVars, setupVars, linkVars
  <1>1. CASE CreatePairing
    BY <1>1 DEF CreatePairing
  <1>2. CASE ListPairings
    BY <1>2 DEF ListPairings, Late
  <1>3. CASE ApprovePairing
    BY <1>3 DEF ApprovePairing, Late
  <1>4. CASE CancelPairing
    BY <1>4 DEF CancelPairing
  <1>5. CASE TimePasses
    BY <1>5 DEF TimePasses
  <1>6. CASE Revoke
    BY <1>6 DEF Revoke
  <1>7. CASE RevokeCloses
    BY <1>7 DEF RevokeCloses, Missed
  <1>8. ASSUME NEW s \in Setup, StartSetup(s)  PROVE RowAgrees'
    BY <1>8 DEF StartSetup
  <1>9. ASSUME NEW s \in Setup, CallFails(s)  PROVE RowAgrees'
    BY <1>9 DEF CallFails
  <1>10. ASSUME NEW s \in Setup, RetryClaim(s)  PROVE RowAgrees'
    BY <1>10 DEF RetryClaim
  <1>11. ASSUME NEW s \in Setup, GiveUpClaim(s)  PROVE RowAgrees'
    BY <1>11 DEF GiveUpClaim
  <1>12. ASSUME NEW s \in Setup, Claim(s)  PROVE RowAgrees'
    BY <1>12 DEF Claim, Late, Reply
  <1>13. ASSUME NEW s \in Setup, ClaimAnswered(s)  PROVE RowAgrees'
    BY <1>13 DEF ClaimAnswered
  <1>14. ASSUME NEW s \in Setup, Poll(s)  PROVE RowAgrees'
    BY <1>14 DEF Poll
  <1>15. ASSUME NEW s \in Setup, Result(s)  PROVE RowAgrees'
    BY <1>15 DEF Result, Late, Reply, Deliver, TokenOf
  <1>16. ASSUME NEW s \in Setup, ResultAnswered(s)  PROVE RowAgrees'
    BY <1>16 DEF ResultAnswered
  <1>17. ASSUME NEW s \in Setup, Save(s)  PROVE RowAgrees'
    BY <1>17 DEF Save
  <1>18. ASSUME NEW s \in Setup, SetupDies(s)  PROVE RowAgrees'
    BY <1>18 DEF SetupDies
  <1>19. ASSUME NEW l \in Link, Connect(l)  PROVE RowAgrees'
    BY <1>19 DEF Connect
  <1>20. ASSUME NEW l \in Link, Identify(l)  PROVE RowAgrees'
    BY <1>20 DEF Identify
  <1>21. ASSUME NEW l \in Link, Register(l)  PROVE RowAgrees'
    BY <1>21 DEF Register
  <1>22. ASSUME NEW l \in Link, ClientLoses(l)  PROVE RowAgrees'
    BY <1>22 DEF ClientLoses
  <1>23. ASSUME NEW l \in Link, ServerLoses(l)  PROVE RowAgrees'
    BY <1>23 DEF ServerLoses
  <1>24. CASE UNCHANGED vars
    BY <1>24 DEF vars
  <1> QED
    BY <1>1, <1>2, <1>3, <1>4, <1>5, <1>6, <1>7, <1>8, <1>9, <1>10, <1>11, <1>12, <1>13, <1>14, <1>15, <1>16, <1>17, <1>18, <1>19, <1>20, <1>21, <1>22, <1>23, <1>24
       DEF Next, SetupStep

LEMMA TokensStep ==
    ASSUME TypeOK, AnswersTyped, RowAgrees, TokensAgree, [Next]_vars
    PROVE  TokensAgree'
  <1> USE PairingAssumption DEF TypeOK, AnswersTyped, RowAgrees, TokensAgree, TokenOf, rowVars, keyVars, setupVars, linkVars
  <1>1. CASE CreatePairing
    BY <1>1 DEF CreatePairing
  <1>2. CASE ListPairings
    BY <1>2 DEF ListPairings, Late
  <1>3. CASE ApprovePairing
    BY <1>3 DEF ApprovePairing, Late
  <1>4. CASE CancelPairing
    BY <1>4 DEF CancelPairing
  <1>5. CASE TimePasses
    BY <1>5 DEF TimePasses
  <1>6. CASE Revoke
    BY <1>6 DEF Revoke
  <1>7. CASE RevokeCloses
    BY <1>7 DEF RevokeCloses, Missed
  <1>8. ASSUME NEW s \in Setup, StartSetup(s)  PROVE TokensAgree'
    BY <1>8 DEF StartSetup
  <1>9. ASSUME NEW s \in Setup, CallFails(s)  PROVE TokensAgree'
    BY <1>9 DEF CallFails
  <1>10. ASSUME NEW s \in Setup, RetryClaim(s)  PROVE TokensAgree'
    BY <1>10 DEF RetryClaim
  <1>11. ASSUME NEW s \in Setup, GiveUpClaim(s)  PROVE TokensAgree'
    BY <1>11 DEF GiveUpClaim
  <1>12. ASSUME NEW s \in Setup, Claim(s)  PROVE TokensAgree'
    BY <1>12 DEF Claim, Late, Reply
  <1>13. ASSUME NEW s \in Setup, ClaimAnswered(s)  PROVE TokensAgree'
    BY <1>13 DEF ClaimAnswered
  <1>14. ASSUME NEW s \in Setup, Poll(s)  PROVE TokensAgree'
    BY <1>14 DEF Poll
  <1>15. ASSUME NEW s \in Setup, Result(s)  PROVE TokensAgree'
    BY <1>15 DEF Result, Late, Reply, Deliver, TokenOf
  <1>16. ASSUME NEW s \in Setup, ResultAnswered(s)  PROVE TokensAgree'
    BY <1>16 DEF ResultAnswered
  <1>17. ASSUME NEW s \in Setup, Save(s)  PROVE TokensAgree'
    BY <1>17 DEF Save
  <1>18. ASSUME NEW s \in Setup, SetupDies(s)  PROVE TokensAgree'
    BY <1>18 DEF SetupDies
  <1>19. ASSUME NEW l \in Link, Connect(l)  PROVE TokensAgree'
    BY <1>19 DEF Connect
  <1>20. ASSUME NEW l \in Link, Identify(l)  PROVE TokensAgree'
    BY <1>20 DEF Identify
  <1>21. ASSUME NEW l \in Link, Register(l)  PROVE TokensAgree'
    BY <1>21 DEF Register
  <1>22. ASSUME NEW l \in Link, ClientLoses(l)  PROVE TokensAgree'
    BY <1>22 DEF ClientLoses
  <1>23. ASSUME NEW l \in Link, ServerLoses(l)  PROVE TokensAgree'
    BY <1>23 DEF ServerLoses
  <1>24. CASE UNCHANGED vars
    BY <1>24 DEF vars
  <1> QED
    BY <1>1, <1>2, <1>3, <1>4, <1>5, <1>6, <1>7, <1>8, <1>9, <1>10, <1>11, <1>12, <1>13, <1>14, <1>15, <1>16, <1>17, <1>18, <1>19, <1>20, <1>21, <1>22, <1>23, <1>24
       DEF Next, SetupStep

LEMMA KeptOutStep ==
    ASSUME TypeOK, RowAgrees, KeptOut, [Next]_vars
    PROVE  KeptOut'
  <1> USE PairingAssumption DEF TypeOK, RowAgrees, KeptOut, Link, rowVars, keyVars, setupVars, linkVars
  <1>1. CASE CreatePairing
    BY <1>1 DEF CreatePairing
  <1>2. CASE ListPairings
    BY <1>2 DEF ListPairings, Late
  <1>3. CASE ApprovePairing
    BY <1>3 DEF ApprovePairing, Late
  <1>4. CASE CancelPairing
    BY <1>4 DEF CancelPairing
  <1>5. CASE TimePasses
    BY <1>5 DEF TimePasses
  <1>6. CASE Revoke
    BY <1>6 DEF Revoke
  <1>7. CASE RevokeCloses
    BY <1>7 DEF RevokeCloses, Missed
  <1>8. ASSUME NEW s \in Setup, StartSetup(s)  PROVE KeptOut'
    BY <1>8 DEF StartSetup
  <1>9. ASSUME NEW s \in Setup, CallFails(s)  PROVE KeptOut'
    BY <1>9 DEF CallFails
  <1>10. ASSUME NEW s \in Setup, RetryClaim(s)  PROVE KeptOut'
    BY <1>10 DEF RetryClaim
  <1>11. ASSUME NEW s \in Setup, GiveUpClaim(s)  PROVE KeptOut'
    BY <1>11 DEF GiveUpClaim
  <1>12. ASSUME NEW s \in Setup, Claim(s)  PROVE KeptOut'
    BY <1>12 DEF Claim, Late, Reply
  <1>13. ASSUME NEW s \in Setup, ClaimAnswered(s)  PROVE KeptOut'
    BY <1>13 DEF ClaimAnswered
  <1>14. ASSUME NEW s \in Setup, Poll(s)  PROVE KeptOut'
    BY <1>14 DEF Poll
  <1>15. ASSUME NEW s \in Setup, Result(s)  PROVE KeptOut'
    BY <1>15 DEF Result, Late, Reply, Deliver, TokenOf
  <1>16. ASSUME NEW s \in Setup, ResultAnswered(s)  PROVE KeptOut'
    BY <1>16 DEF ResultAnswered
  <1>17. ASSUME NEW s \in Setup, Save(s)  PROVE KeptOut'
    BY <1>17 DEF Save
  <1>18. ASSUME NEW s \in Setup, SetupDies(s)  PROVE KeptOut'
    BY <1>18 DEF SetupDies
  <1>19. ASSUME NEW l \in Link, Connect(l)  PROVE KeptOut'
    BY <1>19 DEF Connect
  <1>20. ASSUME NEW l \in Link, Identify(l)  PROVE KeptOut'
    BY <1>20 DEF Identify
  <1>21. ASSUME NEW l \in Link, Register(l)  PROVE KeptOut'
    BY <1>21 DEF Register
  <1>22. ASSUME NEW l \in Link, ClientLoses(l)  PROVE KeptOut'
    BY <1>22 DEF ClientLoses
  <1>23. ASSUME NEW l \in Link, ServerLoses(l)  PROVE KeptOut'
    BY <1>23 DEF ServerLoses
  <1>24. CASE UNCHANGED vars
    BY <1>24 DEF vars
  <1> QED
    BY <1>1, <1>2, <1>3, <1>4, <1>5, <1>6, <1>7, <1>8, <1>9, <1>10, <1>11, <1>12, <1>13, <1>14, <1>15, <1>16, <1>17, <1>18, <1>19, <1>20, <1>21, <1>22, <1>23, <1>24
       DEF Next, SetupStep

LEMMA PairingInvHolds == Spec => []PairingInv
  <1>1. PairingInv /\ [Next]_vars => PairingInv'
    BY PairingTypesStep, RowStep, TokensStep, KeptOutStep DEF PairingInv
  <1> QED
    BY InitPairing, <1>1, PTL DEF Spec

\* Type correctness; among the rest, a pairing creates one workstation at most.
THEOREM PairingTypes == Spec => []TypeOK
  <1>1. PairingInv => TypeOK
    BY DEF PairingInv
  <1> QED
    BY PairingInvHolds, <1>1, PTL

\* The device that an approval lets in is the one whose fingerprint the user was
\* shown, however many devices compete for the code (pairing-repository.ts).
THEOREM ApprovesWhatWasShown == Spec => []ApprovedWasShown
  <1>1. PairingInv => ApprovedWasShown
    BY DEF PairingInv, RowAgrees, ApprovedWasShown
  <1> QED
    BY PairingInvHolds, <1>1, PTL

\* The token that config.json keeps, and the one whose hash lets a socket in, are
\* those of the device that was shown: no other setup ever gets one.
TokensOfTheShown ==
    /\ config # Nobody => config = TokenOf(shown)
    /\ credential # Nobody => credential = TokenOf(shown)
    /\ \A s \in Setup : answer[s].token # Nobody => s = shown

\* deriveConnectorToken of setup.ts and getConnectorPairingResult: a setup that
\* competes for the code without being shown is never sent a token.
THEOREM TokensForTheShown == Spec => []TokensOfTheShown
  <1>1. PairingInv => TokensOfTheShown
    BY DEF PairingInv, RowAgrees, TokensAgree, TokensOfTheShown
  <1> QED
    BY PairingInvHolds, <1>1, PTL

\* A revoked workstation stays out, but for the windows of Missed: what has been
\* looked up before the revocation (connector.ts) is all that can still attach.
THEOREM RevokedIsOut == Spec => []RevokedStaysOut
  <1>1. PairingInv => RevokedStaysOut
    BY DEF PairingInv, KeptOut, RevokedStaysOut
  <1> QED
    BY PairingInvHolds, <1>1, PTL
-----------------------------------------------------------------------------
(* The list of the sessions. *)

\* What the connector found: payloads of one agent, each under its thread.
FoundBy(found, a) ==
    /\ DOMAIN found \subseteq Thread
    /\ \A t \in DOMAIN found :
          /\ found[t] \in [agent : {a}, thread : {t}, project : Project \cup {"unclassified"},
                           status : Status, sync : SyncState, at : Nat]
          /\ found[t] # Absent

\* A thread the connector has sent on this connection has a row.
Registered(signatures, sessions, a) ==
    \A t \in Thread : signatures[t] # Absent => sessions[<<a, t>>] # Absent

\* The sessions after the server has applied what one refresh sends.
AfterRefresh(sessions, signatures, found, a) ==
    ApplyInventory(ApplyUpserts(sessions, RefreshUpserts(signatures, found)), Inventory(found, a))

\* A row stays one, with a time that does not go back, whatever is reported of it.
LEMMA UpsertedRow ==
    ASSUME NEW entry \in Session \cup {Absent}, NEW p,
           p.project \in Project \cup {"unclassified"}, p.status \in Status,
           p.sync \in SyncState, p.at \in Nat
    PROVE  UpsertRow(entry, p) \in Session
<1>1. UpsertStatus(entry, p) \in Status \/ entry = Absent
  BY DEF UpsertStatus, Session, Status
<1>2. (IF entry = Absent THEN p.status ELSE UpsertStatus(entry, p)) \in Status
  BY <1>1
<1>3. (IF entry # Absent /\ entry.at > p.at THEN entry.at ELSE p.at) \in Nat
  BY DEF Session
<1> QED BY <1>2, <1>3 DEF UpsertRow, Session

\* A report that is older than the row it is about changes neither its time nor,
\* unless it calls the session historical, its status (session.upsert).
THEOREM OlderReportLosesToNewer ==
    ASSUME NEW entry \in Session, NEW p, p.at \in Nat, p.at < entry.at
    PROVE  /\ UpsertRow(entry, p).at = entry.at
           /\ p.sync # "historical" => UpsertRow(entry, p).status = entry.status
<1>1. entry # Absent
  BY AbsentIsNoSession
<1>2. entry.at \in Nat
  BY DEF Session
<1> QED BY <1>1, <1>2 DEF UpsertRow, UpsertStatus

\* The rows after the reports of a refresh: those that are reported exist.
LEMMA UpsertedSessions ==
    ASSUME NEW a \in Agent, NEW found, FoundBy(found, a), NEW signatures,
           NEW sessions \in Sessions, Registered(signatures, sessions, a)
    PROVE  /\ ApplyUpserts(sessions, RefreshUpserts(signatures, found)) \in Sessions
           /\ \A t \in DOMAIN found :
                 ApplyUpserts(sessions, RefreshUpserts(signatures, found))[<<a, t>>] # Absent
           /\ \A k \in Agent \X Thread : k[1] # a =>
                 ApplyUpserts(sessions, RefreshUpserts(signatures, found))[k] = sessions[k]
<1> DEFINE sent == RefreshUpserts(signatures, found)
           concerns(k, p) == p.agent = k[1] /\ p.thread = k[2]
           after == ApplyUpserts(sessions, sent)
<1>1. \A p \in sent : \E t \in DOMAIN found :
          p = found[t] /\ p.agent = a /\ p.thread = t /\ signatures[t] # found[t]
  BY DEF RefreshUpserts, FoundBy
<1>2. \A p \in sent : p.agent = a /\ p.project \in Project \cup {"unclassified"} /\ p.status \in Status
                      /\ p.sync \in SyncState /\ p.at \in Nat
  BY <1>1 DEF FoundBy
<1>3. ASSUME NEW k \in Agent \X Thread, \E p \in sent : concerns(k, p)
      PROVE  after[k] \in Session
  <2> DEFINE p == CHOOSE q \in sent : concerns(k, q)
  <2>1. p \in sent /\ concerns(k, p)
    BY <1>3
  <2>2. after[k] = UpsertRow(sessions[k], p)
    BY <1>3 DEF ApplyUpserts
  <2>3. sessions[k] \in Session \cup {Absent}
    BY DEF Sessions
  <2> HIDE DEF p
  <2> QED BY <2>1, <2>2, <2>3, <1>2, UpsertedRow
<1>4. ASSUME NEW k \in Agent \X Thread, ~\E p \in sent : concerns(k, p)
      PROVE  after[k] = sessions[k]
  BY <1>4 DEF ApplyUpserts
<1>5. after \in Sessions
  <2>1. \A k \in Agent \X Thread : after[k] \in Session \cup {Absent}
    <3> TAKE k \in Agent \X Thread
    <3>1. CASE \E p \in sent : concerns(k, p)
      BY <3>1, <1>3
    <3>2. CASE ~\E p \in sent : concerns(k, p)
      BY <3>2, <1>4 DEF Sessions
    <3> QED BY <3>1, <3>2
  <2>2. after = [k \in Agent \X Thread |-> after[k]]
    BY DEF ApplyUpserts
  <2> HIDE DEF after
  <2> QED BY <2>1, <2>2 DEF Sessions
<1>6. ASSUME NEW t \in DOMAIN found PROVE after[<<a, t>>] # Absent
  <2>0. t \in Thread /\ found[t] # Absent /\ found[t].agent = a /\ found[t].thread = t
    BY <1>6 DEF FoundBy
  <2>1. CASE signatures[t] = found[t]
    <3>1. sessions[<<a, t>>] # Absent
      BY <2>0, <2>1 DEF Registered
    <3>2. CASE \E p \in sent : concerns(<<a, t>>, p)
      <4>1. after[<<a, t>>] \in Session
        BY <2>0, <3>2, <1>3
      <4> QED BY <4>1, AbsentIsNoSession
    <3>3. CASE ~\E p \in sent : concerns(<<a, t>>, p)
      <4>1. after[<<a, t>>] = sessions[<<a, t>>]
        BY <2>0, <3>3, <1>4
      <4> QED BY <4>1, <3>1
    <3> QED BY <3>2, <3>3
  <2>2. CASE signatures[t] # found[t]
    <3>1. found[t] \in sent
      BY <2>2, <1>6 DEF RefreshUpserts
    <3>2. \E p \in sent : concerns(<<a, t>>, p)
      BY <3>1, <2>0
    <3>3. after[<<a, t>>] \in Session
      BY <2>0, <3>2, <1>3
    <3> QED BY <3>3, AbsentIsNoSession
  <2> QED BY <2>1, <2>2
<1>7. ASSUME NEW k \in Agent \X Thread, k[1] # a PROVE after[k] = sessions[k]
  <2>1. ~\E p \in sent : concerns(k, p)
    BY <1>2, <1>7
  <2> QED BY <2>1, <1>4
<1> QED BY <1>5, <1>6, <1>7

\* A row after an inventory.
LEMMA InventoriedRow ==
    ASSUME NEW a \in Agent, NEW found, NEW sessions \in Sessions, NEW k \in Agent \X Thread
    PROVE  LET after == ApplyInventory(sessions, Inventory(found, a))[k] IN
           /\ sessions[k] = Absent => after = Absent
           /\ sessions[k] # Absent /\ k[2] \in DOMAIN found =>
                 /\ after \in Session
                 /\ after.sync # "stale"
                 /\ after.sync = "live" <=> after.status \in {"running", "waiting"}
           /\ sessions[k] # Absent /\ k[2] \notin DOMAIN found /\ k[1] = a =>
                 after \in Session /\ after.sync = "stale"
           /\ sessions[k] # Absent /\ k[2] \notin DOMAIN found /\ k[1] # a => after = sessions[k]
<1> DEFINE after == ApplyInventory(sessions, Inventory(found, a))[k]
           listed == Inventory(found, a)
<1>0. sessions[k] \in Session \cup {Absent}
  BY DEF Sessions
<1>1. listed.agent = a /\ listed.threads = DOMAIN found
  BY DEF Inventory
<1>2. CASE sessions[k] = Absent
  BY <1>2 DEF ApplyInventory
<1>3. CASE sessions[k] # Absent /\ k[2] \in DOMAIN found
  <2>1. after = Refreshed(sessions[k])
    BY <1>1, <1>3 DEF ApplyInventory
  <2>2. sessions[k] \in Session
    BY <1>0, <1>3
  <2>3. Refreshed(sessions[k]).status = sessions[k].status
    BY <2>2 DEF Refreshed, Session
  <2>4. Refreshed(sessions[k]).sync
            = IF sessions[k].status \in {"running", "waiting"} THEN "live" ELSE "historical"
    BY <2>2 DEF Refreshed, Session
  <2>5. Refreshed(sessions[k]) \in Session
    BY <2>2 DEF Refreshed, Session, SyncState
  <2> QED BY <1>3, <2>1, <2>3, <2>4, <2>5
<1>4. CASE sessions[k] # Absent /\ k[2] \notin DOMAIN found /\ k[1] = a
  <2>1. after = [sessions[k] EXCEPT !.sync = "stale"]
    BY <1>1, <1>4 DEF ApplyInventory
  <2>2. sessions[k] \in Session
    BY <1>0, <1>4
  <2> QED BY <1>4, <2>1, <2>2 DEF Session, SyncState
<1>5. CASE sessions[k] # Absent /\ k[2] \notin DOMAIN found /\ k[1] # a
  BY <1>1, <1>5 DEF ApplyInventory
<1> QED BY <1>2, <1>3, <1>4, <1>5

\* After a refresh the server shows, of that agent, exactly the threads Codex
\* listed: also those whose report was left out as already sent, as long as
\* what was sent on this connection has reached the server.
THEOREM RefreshShowsTheList ==
    ASSUME NEW a \in Agent, NEW found, FoundBy(found, a), NEW signatures,
           NEW sessions \in Sessions, Registered(signatures, sessions, a)
    PROVE  \A t \in Thread :
              <<a, t>> \in Shown(AfterRefresh(sessions, signatures, found, a)) <=> t \in DOMAIN found
<1> DEFINE middle == ApplyUpserts(sessions, RefreshUpserts(signatures, found))
           refreshed == ApplyInventory(middle, Inventory(found, a))
<1>1. middle \in Sessions /\ \A t \in DOMAIN found : middle[<<a, t>>] # Absent
  BY UpsertedSessions
<1>2. AfterRefresh(sessions, signatures, found, a) = refreshed
  BY DEF AfterRefresh
<1> HIDE DEF middle
<1> SUFFICES ASSUME NEW t \in Thread
             PROVE  <<a, t>> \in Shown(refreshed) <=> t \in DOMAIN found
  BY <1>2
<1> DEFINE k == <<a, t>>
<1>3. k \in Agent \X Thread /\ k[1] = a /\ k[2] = t
  OBVIOUS
<1>4. CASE t \in DOMAIN found
  <2>1. middle[k] # Absent
    BY <1>1, <1>4
  <2>2. refreshed[k] \in Session /\ refreshed[k].sync # "stale"
    BY <1>1, <1>3, <1>4, <2>1, InventoriedRow
  <2> QED BY <1>3, <1>4, <2>2, AbsentIsNoSession DEF Shown
<1>5. CASE t \notin DOMAIN found
  <2>1. refreshed[k] = Absent \/ refreshed[k].sync = "stale"
    BY <1>1, <1>3, <1>5, InventoriedRow
  <2> QED BY <1>3, <1>5, <2>1 DEF Shown
<1> QED BY <1>4, <1>5

\* A refresh of one agent hides no session of another.
THEOREM RefreshHidesNoOtherAgent ==
    ASSUME NEW a \in Agent, NEW found, FoundBy(found, a), NEW signatures,
           NEW sessions \in Sessions, Registered(signatures, sessions, a)
    PROVE  \A k \in Shown(sessions) :
              k[1] # a => k \in Shown(AfterRefresh(sessions, signatures, found, a))
<1> DEFINE middle == ApplyUpserts(sessions, RefreshUpserts(signatures, found))
           refreshed == ApplyInventory(middle, Inventory(found, a))
<1>1. middle \in Sessions /\ \A k \in Agent \X Thread : k[1] # a => middle[k] = sessions[k]
  BY UpsertedSessions
<1>2. AfterRefresh(sessions, signatures, found, a) = refreshed
  BY DEF AfterRefresh
<1> HIDE DEF middle
<1> SUFFICES ASSUME NEW k \in Agent \X Thread, k[1] # a,
                    sessions[k] # Absent, sessions[k].sync # "stale"
             PROVE  refreshed[k] # Absent /\ refreshed[k].sync # "stale"
  BY <1>2 DEF Shown
<1>3. middle[k] = sessions[k] /\ middle[k] # Absent
  BY <1>1
<1>4. CASE k[2] \in DOMAIN found
  <2>1. refreshed[k] \in Session /\ refreshed[k].sync # "stale"
    BY <1>1, <1>3, <1>4, InventoriedRow
  <2> QED BY <2>1, AbsentIsNoSession
<1>5. CASE k[2] \notin DOMAIN found
  <2>1. refreshed[k] = middle[k]
    BY <1>1, <1>3, <1>5, InventoriedRow
  <2> QED BY <2>1, <1>3
<1> QED BY <1>4, <1>5

\* After a refresh a listed session is live when it runs or waits, and only then:
\* what is counted as active is what is shown as live.
THEOREM LiveIsActive ==
    ASSUME NEW a \in Agent, NEW found, FoundBy(found, a), NEW signatures,
           NEW sessions \in Sessions, Registered(signatures, sessions, a), NEW t \in DOMAIN found
    PROVE  LET entry == AfterRefresh(sessions, signatures, found, a)[<<a, t>>] IN
           entry.sync = "live" <=> entry.status \in {"running", "waiting"}
<1> DEFINE middle == ApplyUpserts(sessions, RefreshUpserts(signatures, found))
           refreshed == ApplyInventory(middle, Inventory(found, a))
           k == <<a, t>>
<1>0. t \in Thread
  BY DEF FoundBy
<1>1. middle \in Sessions /\ middle[k] # Absent
  BY UpsertedSessions
<1>2. AfterRefresh(sessions, signatures, found, a) = refreshed
  BY DEF AfterRefresh
<1> HIDE DEF middle
<1>3. k \in Agent \X Thread /\ k[2] = t
  BY <1>0
<1>4. refreshed[k].sync = "live" <=> refreshed[k].status \in {"running", "waiting"}
  BY <1>1, <1>3, InventoriedRow
<1> QED BY <1>2, <1>4
-----------------------------------------------------------------------------
(* Runs of a workflow.  The argument, until the connector dies: the last       *)
(* report on a run that is under way says what the engine does with it; when   *)
(* none is under way, the row of the server says so too, or a dispatch or a    *)
(* cancellation that the engine has not processed is in the outbox.  Ids that  *)
(* are acknowledged are ids of processed rows.                                 *)

KnownStatus == RunStatus \cup {"none"}

\* The message is one that was asked for.
Asked(m) == m.n <= cancels[m.run]

AskedRows == {w \in OutboxRow : Asked(w)}
AskedMessages == {m \in Message : Asked(m)}

Reports == [run : Run, status : RunStatus]

\* Until the connector dies.
SystemTypes ==
    /\ live \subseteq Run /\ last \in [Run -> KnownStatus]
    /\ row \in [Run -> KnownStatus]
    /\ cancels \in [Run -> 0..MaxCancels]
    /\ outbox \subseteq AskedRows /\ pushes \subseteq AskedRows
    /\ processed \subseteq AskedRows /\ acks \subseteq processed
    /\ down \in Seq(AskedMessages)
    /\ reports \in Seq(Reports)
    /\ IsFiniteSet(outbox)

\* The engine as its reports tell it.
Told(r) ==
    /\ r \in live <=> last[r] = "running"
    /\ Quiet(r) \/ \E i \in DOMAIN reports : IsLast(r, i) /\ reports[i].status = last[r]
    /\ last[r] = "cancelled" => cancels[r] > 0

\* The row of the server, when no report is under way.
Shows(r) ==
    /\ last[r] # "none" => row[r] \in {last[r], "cancelled"}
    /\ row[r] = "running" /\ last[r] = "none" => Row(r, 0) \in outbox
    /\ row[r] = "cancelled" /\ r \in live => Row(r, cancels[r]) \in outbox \ processed
    /\ row[r] = "cancelled" => cancels[r] > 0

\* A dispatch that is processed was taken up.
TakenUp(r) == Row(r, 0) \in processed => last[r] # "none"

Agrees(r) == Told(r) /\ (Quiet(r) => Shows(r)) /\ TakenUp(r)

Whole == SystemTypes /\ \A r \in Run : Agrees(r)

SystemInv == deaths \in Nat /\ (deaths = 0 => Whole)
-----------------------------------------------------------------------------
\* A report is appended.
LEMMA ReportAppends ==
    ASSUME SystemTypes, NEW r \in Run, NEW s \in RunStatus, Report(r, s), NEW q \in Run
    PROVE  /\ reports' \in Seq(Reports)
           /\ q = r => ~Quiet(q)' /\ \E i \in DOMAIN reports' : IsLast(q, i)' /\ reports'[i].status = s
           /\ q # r => /\ Quiet(q)' <=> Quiet(q)
                       /\ \A i \in DOMAIN reports : IsLast(q, i) =>
                             i \in DOMAIN reports' /\ IsLast(q, i)' /\ reports'[i] = reports[i]
<1> DEFINE p == [run |-> r, status |-> s]
<1>1. reports \in Seq(Reports) /\ p \in Reports
    BY DEF SystemTypes, Reports
<1>2. reports' = Append(reports, p)
    BY DEF Report
<1> HIDE DEF p
<1>3. /\ reports' \in Seq(Reports)
      /\ Len(reports) \in Nat /\ DOMAIN reports = 1..Len(reports)
      /\ DOMAIN reports' = 1..(Len(reports) + 1)
      /\ \A i \in 1..Len(reports) : reports'[i] = reports[i]
      /\ reports'[Len(reports) + 1] = p
    BY <1>1, <1>2
<1>4. p.run = r /\ p.status = s
    BY DEF p
<1>5. ASSUME q = r
      PROVE  ~Quiet(q)' /\ \E i \in DOMAIN reports' : IsLast(q, i)' /\ reports'[i].status = s
    <2>1. PICK e \in DOMAIN reports' : e = Len(reports) + 1
        BY <1>3
    <2>2. reports'[e].run = q /\ reports'[e].status = s
        BY <1>3, <1>4, <1>5, <2>1
    <2>3. IsLast(q, e)'
        BY <1>3, <2>1, <2>2 DEF IsLast
    <2> QED
        BY <2>1, <2>2, <2>3 DEF Quiet
<1>6. ASSUME q # r PROVE Quiet(q)' <=> Quiet(q)
    BY <1>3, <1>4, <1>6 DEF Quiet
<1>7. ASSUME q # r, NEW i \in DOMAIN reports, IsLast(q, i)
      PROVE  i \in DOMAIN reports' /\ IsLast(q, i)' /\ reports'[i] = reports[i]
    BY <1>3, <1>4, <1>7 DEF IsLast
<1> QED
    BY <1>3, <1>5, <1>6, <1>7

\* The engine does something with run r and reports the status s.
Reported(r, s) ==
    /\ Report(r, s)
    /\ last' = [last EXCEPT ![r] = s]
    /\ live' \subseteq Run
    /\ r \in live' <=> s = "running"
    /\ s = "cancelled" => cancels[r] > 0
    /\ \A q \in Run : q # r => (q \in live' <=> q \in live)
    /\ \A q \in Run, n \in 0..MaxCancels : q # r => (Row(q, n) \in processed' <=> Row(q, n) \in processed)

LEMMA ReportedAgrees ==
    ASSUME Whole, NEW r \in Run, NEW s \in RunStatus, Reported(r, s),
           UNCHANGED <<row, cancels, outbox>>, NEW q \in Run
    PROVE  Agrees(q)'
<1>1. SystemTypes /\ Agrees(q) /\ last \in [Run -> KnownStatus] /\ cancels \in [Run -> 0..MaxCancels]
    BY DEF Whole, SystemTypes
<1>2. Report(r, s)
    BY DEF Reported
<1>3. CASE q = r
    <2>1. last'[q] = s
        BY <1>1, <1>3 DEF Reported
    <2>2. ~Quiet(q)' /\ \E i \in DOMAIN reports' : IsLast(q, i)' /\ reports'[i].status = s
        BY <1>1, <1>2, <1>3, ReportAppends
    <2>3. Told(q)'
        <3>1. (q \in live' <=> last'[q] = "running") /\ (last'[q] = "cancelled" => cancels'[q] > 0)
            BY <1>3, <2>1 DEF Reported
        <3> QED
            BY <2>1, <2>2, <3>1 DEF Told
    <2>4. s # "none"
        BY DEF RunStatus
    <2> QED
        BY <2>1, <2>2, <2>3, <2>4 DEF Agrees, TakenUp
<1>4. CASE q # r
    <2>1. last'[q] = last[q]
        BY <1>1, <1>4 DEF Reported
    <2>2. Quiet(q)' <=> Quiet(q)
        BY <1>1, <1>2, <1>4, ReportAppends
    <2>3. \A i \in DOMAIN reports : IsLast(q, i) =>
             i \in DOMAIN reports' /\ IsLast(q, i)' /\ reports'[i] = reports[i]
        BY <1>1, <1>2, <1>4, ReportAppends
    <2>4. q \in live' <=> q \in live
        BY <1>4 DEF Reported
    <2>5. /\ Row(q, 0) \in processed' <=> Row(q, 0) \in processed
          /\ Row(q, cancels[q]) \in processed' <=> Row(q, cancels[q]) \in processed
        <3>1. 0 \in 0..MaxCancels /\ cancels[q] \in 0..MaxCancels
            BY <1>1, SystemAssumption
        <3> QED
            BY <1>4, <3>1 DEF Reported
    <2>6. Told(q)'
        <3>1. Told(q)
            BY <1>1 DEF Agrees
        <3> QED
            BY <2>1, <2>2, <2>3, <2>4, <3>1 DEF Told
    <2>7. Row(q, 0)' = Row(q, 0) /\ Row(q, cancels[q])' = Row(q, cancels[q])
        BY DEF Row
    <2>8. Shows(q) => Shows(q)'
        BY <2>1, <2>4, <2>5, <2>7 DEF Shows
    <2>9. TakenUp(q)'
        BY <1>1, <2>1, <2>5, <2>7 DEF Agrees, TakenUp
    <2> QED
        BY <1>1, <2>2, <2>6, <2>8, <2>9 DEF Agrees
<1> QED
    BY <1>3, <1>4

\* The engine and its reports stay, and so do the rows: runs agree as before.
LEMMA NothingToldAgrees ==
    ASSUME Whole, UNCHANGED <<live, last, reports, row, cancels, outbox, processed>>, NEW q \in Run
    PROVE  Agrees(q)'
<1>1. Agrees(q)
    BY DEF Whole
<1> QED
    BY <1>1 DEF Agrees, Told, Quiet, IsLast, Shows, TakenUp, Row

\* The messages that were asked for.
LEMMA DownTyped ==
    ASSUME Whole, down # <<>>
    PROVE  /\ Head(down) \in AskedMessages
           /\ Tail(down) \in Seq(AskedMessages)
<1>1. down \in Seq(AskedMessages)
    BY DEF Whole, SystemTypes
<1> QED
    BY <1>1

LEMMA CheckRunKeeps ==
    ASSUME Whole, NEW r \in Run, CheckRun(r)
    PROVE  Whole'
<1>1. UNCHANGED <<live, last, reports, row, cancels, outbox, pushes, processed, acks, down>>
    BY DEF CheckRun, lifeVars, connectionVars, inboxVars
<1>2. SystemTypes'
    BY <1>1 DEF Whole, SystemTypes, Asked, AskedRows, AskedMessages
<1> QED
    BY <1>1, <1>2, NothingToldAgrees DEF Whole

LEMMA DisconnectKeeps ==
    ASSUME Whole, Disconnect
    PROVE  Whole'
<1>1. UNCHANGED <<live, last, reports, row, cancels, outbox, pushes, processed>> /\ down' = <<>> /\ acks' = {}
    BY DEF Disconnect, LinkEnds, lifeVars, serverVars, inboxVars
<1>2. SystemTypes'
    BY <1>1 DEF Whole, SystemTypes, Asked, AskedRows, AskedMessages
<1> QED
    BY <1>1, <1>2, NothingToldAgrees DEF Whole

LEMMA PushKeeps ==
    ASSUME Whole, NEW w \in OutboxRow, Push(w)
    PROVE  Whole'
<1>1. UNCHANGED <<live, last, reports, row, cancels, outbox, processed, acks>>
      /\ pushes' \subseteq pushes /\ w \in pushes
    BY DEF Push, lifeVars, inboxVars
<1>2. down' \in Seq(AskedMessages)
    <2> DEFINE m == AsMessage(w, TRUE)
    <2>1. w \in OutboxRow /\ Asked(w) /\ down \in Seq(AskedMessages)
        BY <1>1 DEF Whole, SystemTypes, AskedRows
    <2>2. m \in AskedMessages
        BY <2>1 DEF AsMessage, OutboxRow, Message, Asked, AskedMessages
    <2>3. down' = Append(down, m) \/ down' = down
        BY DEF Push
    <2> HIDE DEF m
    <2> QED
        BY <2>1, <2>2, <2>3
<1>3. SystemTypes'
    BY <1>1, <1>2 DEF Whole, SystemTypes, Asked, AskedRows, AskedMessages
<1> QED
    BY <1>1, <1>3, NothingToldAgrees DEF Whole

\* A row that was asked for stays one.
LEMMA AskedLasts ==
    ASSUME Whole, NEW r \in Run, cancels[r] < MaxCancels, cancels' = [cancels EXCEPT ![r] = @ + 1]
    PROVE  /\ cancels' \in [Run -> 0..MaxCancels] /\ cancels'[r] = cancels[r] + 1
           /\ \A q \in Run : q # r => cancels'[q] = cancels[q]
           /\ AskedRows \subseteq AskedRows' /\ AskedMessages \subseteq AskedMessages'
<1>1. cancels \in [Run -> 0..MaxCancels] /\ MaxCancels \in Nat
    BY SystemAssumption DEF Whole, SystemTypes
<1>2. cancels' \in [Run -> 0..MaxCancels] /\ cancels'[r] = cancels[r] + 1
      /\ \A q \in Run : q # r => cancels'[q] = cancels[q]
    BY <1>1
<1>3. \A q \in Run : cancels[q] <= cancels'[q]
    BY <1>1, <1>2
<1>4. AskedRows \subseteq AskedRows'
    BY <1>1, <1>2, <1>3 DEF AskedRows, Asked, OutboxRow
<1>5. AskedMessages \subseteq AskedMessages'
    BY <1>1, <1>2, <1>3 DEF AskedMessages, Asked, Message
<1> QED
    BY <1>2, <1>4, <1>5

LEMMA InsertRunKeeps ==
    ASSUME Whole, NEW r \in Run, InsertRun(r)
    PROVE  Whole'
<1>1. /\ UNCHANGED <<live, last, reports, cancels, processed, acks, down>>
      /\ row[r] = "none" /\ row' = [row EXCEPT ![r] = "running"]
      /\ outbox' = outbox \cup {Row(r, 0)} /\ pushes' = pushes \cup {Row(r, 0)}
    BY DEF InsertRun, lifeVars, connectionVars, inboxVars
<1>2. SystemTypes
    BY DEF Whole
<1>3. Row(r, 0) \in AskedRows
    <2>1. cancels[r] \in 0..MaxCancels /\ 0 \in 0..MaxCancels
        BY <1>2, SystemAssumption DEF SystemTypes
    <2> QED
        BY <2>1 DEF Row, AskedRows, Asked, OutboxRow
<1>4. IsFiniteSet(outbox')
    BY <1>1, <1>2, FS_AddElement DEF SystemTypes
<1>5. SystemTypes'
    <2>1. row' \in [Run -> KnownStatus]
        BY <1>1, <1>2 DEF SystemTypes, KnownStatus, RunStatus
    <2>2. AskedRows' = AskedRows /\ AskedMessages' = AskedMessages
        BY <1>1 DEF AskedRows, AskedMessages, Asked
    <2> QED
        BY <1>1, <1>2, <1>3, <1>4, <2>1, <2>2 DEF SystemTypes
<1>6. ASSUME NEW q \in Run PROVE Agrees(q)'
    <2>1. Agrees(q) /\ row \in [Run -> KnownStatus]
        BY <1>2 DEF Whole, SystemTypes
    <2>2. Told(q)' /\ TakenUp(q)' /\ (Quiet(q)' <=> Quiet(q)) /\ Row(q, 0)' = Row(q, 0)
          /\ Row(q, cancels[q])' = Row(q, cancels[q])
        BY <1>1, <2>1 DEF Agrees, Told, Quiet, IsLast, TakenUp, Row
    <2>3. ASSUME Quiet(q) PROVE Shows(q)'
        <3>1. Shows(q)
            BY <2>1, <2>3 DEF Agrees
        <3>2. CASE q = r
            <4>1. row'[q] = "running" /\ row[q] = "none"
                BY <1>1, <2>1, <3>2
            <4>2. last[q] = "none"
                BY <3>1, <4>1 DEF Shows
            <4> QED
                BY <1>1, <2>2, <3>2, <4>1, <4>2 DEF Shows
        <3>3. CASE q # r
            <4>1. row'[q] = row[q]
                BY <2>1, <1>1, <3>3
            <4> QED
                BY <1>1, <2>2, <3>1, <4>1 DEF Shows
        <3> QED
            BY <3>2, <3>3
    <2> QED
        BY <2>2, <2>3 DEF Agrees
<1> QED
    BY <1>5, <1>6 DEF Whole

LEMMA RequestCancelKeeps ==
    ASSUME Whole, NEW r \in Run, RequestCancel(r)
    PROVE  Whole'
<1> DEFINE c == cancels[r] + 1
<1>1. /\ UNCHANGED <<live, last, reports, processed, acks, down>>
      /\ row[r] = "running" /\ row' = [row EXCEPT ![r] = "cancelled"]
      /\ cancels[r] < MaxCancels /\ cancels' = [cancels EXCEPT ![r] = @ + 1]
      /\ outbox' = outbox \cup {Row(r, c)} /\ pushes' = pushes \cup {Row(r, c)}
    BY DEF RequestCancel, lifeVars, connectionVars, inboxVars
<1>2. SystemTypes
    BY DEF Whole
<1>3. /\ cancels' \in [Run -> 0..MaxCancels] /\ cancels'[r] = c
      /\ \A q \in Run : q # r => cancels'[q] = cancels[q]
      /\ AskedRows \subseteq AskedRows' /\ AskedMessages \subseteq AskedMessages'
    BY <1>1, AskedLasts
<1>4. Row(r, c) \in AskedRows' /\ Row(r, c) \notin processed
    <2>1. cancels[r] \in 0..MaxCancels /\ c \in 0..MaxCancels
        BY <1>1, <1>2, SystemAssumption DEF SystemTypes
    <2>2. Row(r, c) \in AskedRows'
        BY <1>3, <2>1 DEF Row, AskedRows, Asked, OutboxRow
    <2>3. Row(r, c) \notin AskedRows
        BY <2>1 DEF Row, AskedRows, Asked
    <2> QED
        BY <1>2, <2>2, <2>3 DEF SystemTypes
<1> HIDE DEF c
<1>5. IsFiniteSet(outbox')
    BY <1>1, <1>2, FS_AddElement DEF SystemTypes
<1>6. SystemTypes'
    <2>1. row' \in [Run -> KnownStatus]
        BY <1>1, <1>2 DEF SystemTypes, KnownStatus, RunStatus
    <2>2. down' \in Seq(AskedMessages')
        BY <1>1, <1>2, <1>3 DEF SystemTypes
    <2> QED
        BY <1>1, <1>2, <1>3, <1>4, <1>5, <2>1, <2>2 DEF SystemTypes
<1>7. ASSUME NEW q \in Run PROVE Agrees(q)'
    <2>1. Agrees(q) /\ row \in [Run -> KnownStatus]
        BY <1>2 DEF Whole, SystemTypes
    <2>0. cancels[q] > 0 => cancels'[q] > 0
        <3>1. cancels[r] \in 0..MaxCancels
            BY <1>2 DEF SystemTypes
        <3> QED
            BY <1>3, <1>7, <3>1 DEF c
    <2>2. Told(q)' /\ TakenUp(q)' /\ (Quiet(q)' <=> Quiet(q)) /\ Row(q, 0)' = Row(q, 0)
        BY <1>1, <2>0, <2>1 DEF Agrees, Told, Quiet, IsLast, TakenUp, Row
    <2>3. ASSUME Quiet(q) PROVE Shows(q)'
        <3>1. Shows(q)
            BY <2>1, <2>3 DEF Agrees
        <3>2. CASE q = r
            <4>1. row'[q] = "cancelled"
                BY <1>1, <2>1, <3>2
            <4>2. Row(q, cancels[q])' = Row(r, c)
                BY <1>3, <3>2 DEF Row
            <4>3. cancels'[q] > 0
                <5>1. cancels[r] \in 0..MaxCancels
                    BY <1>2 DEF SystemTypes
                <5> QED
                    BY <1>3, <3>2, <5>1 DEF c
            <4> QED
                BY <1>1, <1>4, <4>1, <4>2, <4>3 DEF Shows
        <3>3. CASE q # r
            <4>1. row'[q] = row[q]
                BY <2>1, <1>1, <3>3
            <4>2. Row(q, cancels[q])' = Row(q, cancels[q])
                BY <1>3, <3>3 DEF Row
            <4> QED
                BY <1>1, <2>0, <2>2, <3>1, <4>1, <4>2 DEF Shows
        <3> QED
            BY <3>2, <3>3
    <2> QED
        BY <2>2, <2>3 DEF Agrees
<1> QED
    BY <1>6, <1>7 DEF Whole

LEMMA LinkStartsKeeps ==
    ASSUME Whole, LinkStarts
    PROVE  Whole'
<1>1. UNCHANGED <<live, last, reports, row, cancels, outbox, pushes, processed, acks>>
    BY DEF LinkStarts, lifeVars, serverVars, inboxVars
<1>2. SystemTypes
    BY DEF Whole
<1>3. PICK q \in SetToSeqs(outbox) : down' = [k \in DOMAIN q |-> AsMessage(q[k], FALSE)]
    BY DEF LinkStarts
<1>4. q \in [1..Cardinality(outbox) -> outbox] /\ Cardinality(outbox) \in Nat
    BY <1>2, FS_CardinalityType DEF SetToSeqs, SystemTypes
<1>5. \A k \in 1..Cardinality(outbox) : AsMessage(q[k], FALSE) \in AskedMessages
    <2>1. SUFFICES ASSUME NEW k \in 1..Cardinality(outbox) PROVE AsMessage(q[k], FALSE) \in AskedMessages
        OBVIOUS
    <2>2. PICK w \in AskedRows : w = q[k]
        BY <1>2, <1>4 DEF SystemTypes
    <2> QED
        BY <2>2 DEF AsMessage, AskedRows, OutboxRow, AskedMessages, Message, Asked
<1>6. down' \in Seq(AskedMessages)
    <2> DEFINE n == Cardinality(outbox)
               f == [k \in DOMAIN q |-> AsMessage(q[k], FALSE)]
    <2>1. f \in [1..n -> AskedMessages] /\ n \in Nat /\ down' = f
        BY <1>3, <1>4, <1>5
    <2> HIDE DEF n, f
    <2> QED
        BY <2>1
<1>7. SystemTypes'
    BY <1>1, <1>2, <1>6 DEF SystemTypes, Asked, AskedRows, AskedMessages
<1> QED
    BY <1>1, <1>7, NothingToldAgrees DEF Whole

LEMMA AckArrivesKeeps ==
    ASSUME Whole, NEW w \in OutboxRow, AckArrives(w)
    PROVE  Whole'
<1>1. /\ UNCHANGED <<live, last, reports, row, cancels, pushes, processed, down>>
      /\ w \in acks /\ acks' = acks \ {w} /\ outbox' = outbox \ {w}
    BY DEF AckArrives, lifeVars, inboxVars
<1>2. SystemTypes
    BY DEF Whole
<1>3. SystemTypes'
    <2>1. IsFiniteSet(outbox')
        BY <1>1, <1>2, FS_Subset DEF SystemTypes
    <2>2. AskedRows' = AskedRows /\ AskedMessages' = AskedMessages
        BY <1>1 DEF AskedRows, AskedMessages, Asked
    <2> QED
        BY <1>1, <1>2, <2>1, <2>2 DEF SystemTypes
<1>4. ASSUME NEW q \in Run PROVE Agrees(q)'
    <2>1. Agrees(q) /\ w \in processed
        BY <1>1, <1>2 DEF Whole, SystemTypes
    <2>2. Told(q)' /\ TakenUp(q)' /\ (Quiet(q)' <=> Quiet(q)) /\ Row(q, 0)' = Row(q, 0)
          /\ Row(q, cancels[q])' = Row(q, cancels[q])
        BY <1>1, <2>1 DEF Agrees, Told, Quiet, IsLast, TakenUp, Row
    <2>3. w = Row(q, 0) => last[q] # "none"
        BY <2>1 DEF Agrees, TakenUp
    <2>4. Shows(q) => Shows(q)'
        BY <1>1, <2>1, <2>2, <2>3 DEF Shows
    <2> QED
        BY <2>1, <2>2, <2>4 DEF Agrees
<1> QED
    BY <1>3, <1>4 DEF Whole
-----------------------------------------------------------------------------
\* A step of the engine that reports keeps the types, whatever it processes.
LEMMA ReportedKeeps ==
    ASSUME Whole, NEW r \in Run, NEW s \in RunStatus, Reported(r, s),
           UNCHANGED <<row, cancels, outbox, pushes>>,
           processed' \subseteq AskedRows, acks' \subseteq processed', down' \in Seq(AskedMessages)
    PROVE  Whole'
<1>1. SystemTypes
    BY DEF Whole
<1>2. SystemTypes'
    <2>1. last' \in [Run -> KnownStatus]
        BY <1>1 DEF SystemTypes, Reported, KnownStatus
    <2>2. reports' \in Seq(Reports)
        BY <1>1, ReportAppends DEF Reported
    <2>3. AskedRows' = AskedRows /\ AskedMessages' = AskedMessages
        BY DEF AskedRows, AskedMessages, Asked
    <2> QED
        BY <1>1, <2>1, <2>2, <2>3 DEF SystemTypes, Reported
<1>3. \A q \in Run : Agrees(q)'
    BY ReportedAgrees
<1> QED
    BY <1>2, <1>3 DEF Whole

\* What Handled does with a message that was asked for.
LEMMA HandledRows ==
    ASSUME Whole, NEW m \in AskedMessages, Handled(m)
    PROVE  /\ processed' \subseteq AskedRows /\ acks' \subseteq processed'
           /\ processed' \subseteq processed \cup {RowOf(m)} /\ processed \subseteq processed'
<1>1. RowOf(m) \in AskedRows
    BY DEF RowOf, Row, AskedMessages, Message, AskedRows, OutboxRow, Asked
<1>2. SystemTypes
    BY DEF Whole
<1> QED
    BY <1>1, <1>2 DEF Handled, SystemTypes

\* A message is taken off.
MessageTaken ==
    /\ down' \in Seq(AskedMessages)
    /\ UNCHANGED <<row, cancels, outbox, pushes>>

\* The engine is left alone; what is processed is of a run that was taken up, or a
\* cancellation of one that is not executed.
LEMMA SilentKeeps ==
    ASSUME Whole, NEW m \in AskedMessages, MessageTaken, UNCHANGED <<live, last, reports>>,
           processed' \subseteq AskedRows, acks' \subseteq processed',
           processed' \subseteq processed \cup {RowOf(m)}, processed \subseteq processed',
           RowOf(m) \in processed \/ processed' = processed \/ (m.n > 0 /\ m.run \notin live)
    PROVE  Whole'
<1>1. SystemTypes /\ AskedRows' = AskedRows /\ AskedMessages' = AskedMessages
    BY DEF Whole, AskedRows, AskedMessages, Asked, MessageTaken
<1>2. SystemTypes'
    BY <1>1 DEF SystemTypes, MessageTaken
<1>3. ASSUME NEW q \in Run PROVE Agrees(q)'
    <2>1. Agrees(q) /\ cancels \in [Run -> 0..MaxCancels]
        BY DEF Whole, SystemTypes
    <2>2. Told(q)' /\ (Quiet(q)' <=> Quiet(q)) /\ Row(q, 0)' = Row(q, 0)
          /\ Row(q, cancels[q])' = Row(q, cancels[q])
        BY <2>1 DEF Agrees, Told, Quiet, IsLast, Row, MessageTaken
    <2>3. m.n > 0 => Row(q, 0) # RowOf(m)
        BY DEF Row, RowOf
    <2>4. TakenUp(q)'
        BY <2>1, <2>2, <2>3 DEF Agrees, TakenUp
    <2>5. m.run # q => Row(q, cancels[q]) # RowOf(m)
        BY DEF Row, RowOf
    <2>6. q \in live => (Row(q, cancels[q]) \notin processed => Row(q, cancels[q]) \notin processed')
        BY <2>5
    <2>7. Shows(q) => Shows(q)'
        BY <2>2, <2>6 DEF Shows, MessageTaken
    <2> QED
        BY <2>1, <2>2, <2>4, <2>7 DEF Agrees
<1> QED
    BY <1>2, <1>3 DEF Whole

\* A run begins or ends and says so.
LEMMA TellingKeeps ==
    ASSUME Whole, NEW m \in AskedMessages, MessageTaken, NEW s \in RunStatus, Report(m.run, s),
           last' = [last EXCEPT ![m.run] = s], Handled(m), s = "cancelled" => cancels[m.run] > 0,
           \/ s = "running" /\ live' = live \cup {m.run}
           \/ s # "running" /\ live' = live \ {m.run}
    PROVE  Whole'
<1>1. m \in AskedMessages /\ m.run \in Run
    BY DEF AskedMessages, Message
<1>2. /\ processed' \subseteq AskedRows /\ acks' \subseteq processed'
      /\ processed' \subseteq processed \cup {RowOf(m)} /\ processed \subseteq processed'
    BY <1>1, HandledRows
<1>3. \A q \in Run, n \in 0..MaxCancels :
         q # m.run => (Row(q, n) \in processed' <=> Row(q, n) \in processed)
    BY <1>2 DEF Row, RowOf
<1>4. live' \subseteq Run /\ (m.run \in live' <=> s = "running")
      /\ \A q \in Run : q # m.run => (q \in live' <=> q \in live)
    BY <1>1 DEF Whole, SystemTypes
<1>5. Reported(m.run, s)
    BY <1>3, <1>4 DEF Reported
<1> QED
    BY <1>1, <1>2, <1>5, ReportedKeeps DEF MessageTaken

LEMMA ReceiveKeeps ==
    ASSUME Whole, Receive
    PROVE  Whole'
<1>1. down # <<>> /\ down' = Tail(down) /\ UNCHANGED <<row, cancels, outbox, pushes>>
    BY DEF Receive, serverVars
<1>2. PICK m \in AskedMessages : m = Head(down)
    BY <1>1, DownTyped
<1>3. MessageTaken
    BY <1>1, <1>2, DownTyped DEF MessageTaken
<1>4. HandleKnown(m) \/ HandleDispatch(m) \/ HandleCancel(m)
    BY <1>2 DEF Receive
<1>5. CASE HandleKnown(m)
    <2>1. RowOf(m) \in processed /\ Handled(m) /\ UNCHANGED <<live, last, reports>>
        BY <1>5 DEF HandleKnown, lifeVars
    <2> QED
        BY <1>2, <1>3, <2>1, HandledRows, SilentKeeps
<1>6. CASE HandleDispatch(m) /\ DispatchThrows(m)
    <2>1. UNCHANGED <<live, last, reports, processed, acks>>
        BY <1>6 DEF DispatchThrows, lifeVars
    <2>2. processed' \subseteq AskedRows /\ acks' \subseteq processed'
        BY <2>1 DEF Whole, SystemTypes
    <2> QED
        BY <1>2, <1>3, <2>1, <2>2, SilentKeeps
<1>7. CASE HandleDispatch(m) /\ ~DispatchThrows(m)
    <2>1. Take(m.run) /\ Report(m.run, "running") /\ Handled(m)
        BY <1>7 DEF HandleDispatch
    <2>2. live' = live \cup {m.run} /\ last' = [last EXCEPT ![m.run] = "running"]
        BY <2>1 DEF Take
    <2>3. "running" \in RunStatus
        BY DEF RunStatus
    <2> QED
        BY <1>2, <1>3, <2>1, <2>2, <2>3, TellingKeeps
<1>8. CASE HandleCancel(m)
    <2>1. CASE m.run \in live
        <3>1. End(m.run, "cancelled") /\ Report(m.run, "cancelled") /\ Handled(m)
            BY <1>8, <2>1 DEF HandleCancel
        <3>2. live' = live \ {m.run} /\ last' = [last EXCEPT ![m.run] = "cancelled"]
            BY <3>1 DEF End
        <3>3. "cancelled" \in RunStatus
            BY DEF RunStatus
        <3>4. cancels[m.run] > 0
            <4>1. m.n \in 0..MaxCancels /\ m.n > 0 /\ m.n <= cancels[m.run] /\ m.run \in Run
                BY <1>8 DEF AskedMessages, Asked, Message, HandleCancel
            <4>2. cancels \in [Run -> 0..MaxCancels] /\ MaxCancels \in Nat
                BY SystemAssumption DEF Whole, SystemTypes
            <4>3. cancels[m.run] \in 0..MaxCancels
                BY <4>1, <4>2
            <4> QED
                BY <4>1, <4>2, <4>3
        <3> QED
            BY <1>2, <1>3, <3>1, <3>2, <3>3, <3>4, TellingKeeps
    <2>2. CASE m.run \notin live
        <3>1. UNCHANGED <<live, last, reports>> /\ Handled(m) /\ m.n > 0
            BY <1>8, <2>2 DEF HandleCancel, lifeVars
        <3> QED
            BY <1>2, <1>3, <2>2, <3>1, HandledRows, SilentKeeps
    <2> QED
        BY <2>1, <2>2
<1> QED
    BY <1>4, <1>5, <1>6, <1>7, <1>8

LEMMA RunOverKeeps ==
    ASSUME Whole, NEW r \in Run, RunOver(r)
    PROVE  Whole'
<1>1. PICK s \in {"completed", "failed"} : End(r, s) /\ Report(r, s)
    BY DEF RunOver
<1>2. UNCHANGED <<row, cancels, outbox, pushes, processed, acks, down>>
    BY DEF RunOver, serverVars, connectionVars, inboxVars
<1>3. SystemTypes
    BY DEF Whole
<1>4. s \in RunStatus /\ s # "running"
    BY DEF RunStatus
<1>5. Reported(r, s)
    <2>1. live' = live \ {r} /\ last' = [last EXCEPT ![r] = s]
        BY <1>1 DEF End
    <2>2. \A q \in Run, n \in 0..MaxCancels : Row(q, n) \in processed' <=> Row(q, n) \in processed
        BY <1>2
    <2>3. live' \subseteq Run /\ \A q \in Run : q # r => (q \in live' <=> q \in live)
        BY <1>3, <2>1 DEF SystemTypes
    <2> QED
        BY <1>1, <1>4, <2>1, <2>2, <2>3 DEF Reported
<1> QED
    BY <1>2, <1>3, <1>4, <1>5, ReportedKeeps DEF SystemTypes

\* A report is taken off.
LEMMA HeadTaken ==
    ASSUME SystemTypes, reports # <<>>, reports' = Tail(reports)
    PROVE  /\ reports' \in Seq(Reports) /\ Head(reports) = reports[1]
           /\ Len(reports) \in Nat \ {0} /\ DOMAIN reports = 1..Len(reports)
           /\ DOMAIN reports' = 1..(Len(reports) - 1)
           /\ \A j \in 1..(Len(reports) - 1) : reports'[j] = reports[j + 1]
           /\ 1 \in DOMAIN reports
           /\ Head(reports).run \in Run /\ Head(reports).status \in RunStatus
<1>1. reports \in Seq(Reports)
    BY DEF SystemTypes
<1>2. reports' \in Seq(Reports) /\ Head(reports) = reports[1]
    BY <1>1
<1>3. Len(reports) \in Nat \ {0} /\ DOMAIN reports = 1..Len(reports)
    BY <1>1
<1>4. Len(reports') = Len(reports) - 1
    BY <1>1
<1>5. DOMAIN reports' = 1..(Len(reports) - 1)
    BY <1>2, <1>4
<1>6. \A j \in 1..(Len(reports) - 1) : reports'[j] = reports[j + 1]
    BY <1>1, <1>3
<1>7. 1 \in DOMAIN reports /\ reports[1] \in Reports
    <2>1. 1 \in 1..Len(reports)
        BY <1>3
    <2> QED
        BY <1>1, <1>3, <2>1
<1>8. Head(reports).run \in Run /\ Head(reports).status \in RunStatus
    BY <1>2, <1>7 DEF Reports
<1> QED
    BY <1>2, <1>3, <1>5, <1>6, <1>7, <1>8

LEMMA ReportTaken ==
    ASSUME SystemTypes, reports # <<>>, reports' = Tail(reports), NEW q \in Run
    PROVE  /\ q # Head(reports).run => (Quiet(q)' <=> Quiet(q))
           /\ IsLast(q, 1) => Quiet(q)'
           /\ \A i \in DOMAIN reports : IsLast(q, i) /\ i # 1 =>
                 \E j \in DOMAIN reports' : IsLast(q, j)' /\ reports'[j] = reports[i]
<1>2. /\ Head(reports) = reports[1]
      /\ Len(reports) \in Nat \ {0} /\ DOMAIN reports = 1..Len(reports)
      /\ DOMAIN reports' = 1..(Len(reports) - 1)
      /\ \A j \in 1..(Len(reports) - 1) : reports'[j] = reports[j + 1]
    BY HeadTaken
<1>5. \A i \in 2..Len(reports) : i - 1 \in DOMAIN reports' /\ reports'[i - 1] = reports[i]
    BY <1>2
<1>6. ASSUME q # Head(reports).run PROVE Quiet(q)' <=> Quiet(q)
    <2>1. ASSUME Quiet(q) PROVE Quiet(q)'
        BY <1>2, <2>1 DEF Quiet
    <2>2. ASSUME Quiet(q)' PROVE Quiet(q)
        <3>1. ASSUME NEW i \in DOMAIN reports PROVE reports[i].run # q
            <4>1. CASE i = 1
                BY <1>2, <1>6, <4>1
            <4>2. CASE i # 1
                <5>1. i \in 2..Len(reports)
                    BY <1>2, <4>2
                <5> QED
                    BY <1>5, <2>2, <5>1 DEF Quiet
            <4> QED
                BY <4>1, <4>2
        <3> QED
            BY <3>1 DEF Quiet
    <2> QED
        BY <2>1, <2>2
<1>7. ASSUME IsLast(q, 1) PROVE Quiet(q)'
    BY <1>2, <1>7 DEF IsLast, Quiet
<1>8. ASSUME NEW i \in DOMAIN reports, IsLast(q, i), i # 1
      PROVE  \E j \in DOMAIN reports' : IsLast(q, j)' /\ reports'[j] = reports[i]
    <2>1. i \in 2..Len(reports)
        BY <1>2, <1>8
    <2>2. PICK j \in DOMAIN reports' : j = i - 1
        BY <1>5, <2>1
    <2>3. reports'[j] = reports[i]
        BY <1>5, <2>1, <2>2
    <2>4. IsLast(q, j)'
        <3>1. ASSUME NEW k \in DOMAIN reports', j < k PROVE reports'[k].run # q
            <4>1. k + 1 \in DOMAIN reports /\ i < k + 1 /\ reports'[k] = reports[k + 1]
                BY <1>2, <2>1, <2>2, <3>1
            <4> QED
                BY <1>8, <4>1 DEF IsLast
        <3>2. reports'[j].run = q
            BY <1>8, <2>3 DEF IsLast
        <3> QED
            BY <3>1, <3>2 DEF IsLast
    <2> QED
        BY <2>3, <2>4
<1> QED
    BY <1>6, <1>7, <1>8

LEMMA ApplyReportKeeps ==
    ASSUME Whole, ApplyReport
    PROVE  Whole'
<1> DEFINE h == Head(reports)
<1>1. /\ UNCHANGED <<live, last, cancels, outbox, pushes, processed, acks, down>>
      /\ reports # <<>> /\ reports' = Tail(reports) /\ row' = [row EXCEPT ![h.run] = h.status]
    BY DEF ApplyReport, lifeVars, connectionVars, inboxVars
<1>2. SystemTypes
    BY DEF Whole
<1>3. /\ reports' \in Seq(Reports) /\ h = reports[1] /\ 1 \in DOMAIN reports
      /\ h.run \in Run /\ h.status \in RunStatus
    BY <1>1, <1>2, HeadTaken
<1> HIDE DEF h
<1>4. SystemTypes'
    <2>1. row' \in [Run -> KnownStatus]
        BY <1>1, <1>2, <1>3 DEF SystemTypes, KnownStatus
    <2>2. AskedRows' = AskedRows /\ AskedMessages' = AskedMessages
        BY <1>1 DEF AskedRows, AskedMessages, Asked
    <2> QED
        BY <1>1, <1>2, <1>3, <2>1, <2>2 DEF SystemTypes
<1>5. ASSUME NEW q \in Run PROVE Agrees(q)'
    <2>1. Agrees(q) /\ row \in [Run -> KnownStatus]
        BY <1>2 DEF Whole, SystemTypes
    <2>2. Row(q, 0)' = Row(q, 0) /\ Row(q, cancels[q])' = Row(q, cancels[q])
        BY <1>1 DEF Row
    <2>3. TakenUp(q)'
        BY <1>1, <2>1, <2>2 DEF Agrees, TakenUp
    <2>4. ASSUME NEW i \in DOMAIN reports, IsLast(q, i), i # 1, reports[i].status = last[q]
          PROVE  Told(q)' /\ ~Quiet(q)'
        <3>1. PICK j \in DOMAIN reports' : IsLast(q, j)' /\ reports'[j] = reports[i]
            BY <1>1, <1>2, <2>4, ReportTaken
        <3>2. reports'[j].status = last'[q]
            BY <1>1, <2>4, <3>1
        <3>3. ~Quiet(q)'
            BY <3>1 DEF IsLast, Quiet
        <3>4. (q \in live' <=> last'[q] = "running") /\ (last'[q] = "cancelled" => cancels'[q] > 0)
            BY <1>1, <2>1 DEF Agrees, Told
        <3> QED
            BY <3>1, <3>2, <3>3, <3>4 DEF Told
    <2>5. CASE q # h.run
        <3>1. row'[q] = row[q] /\ (Quiet(q)' <=> Quiet(q))
            BY <1>1, <1>2, <1>3, <2>1, <2>5, ReportTaken DEF h
        <3>2. Shows(q) => Shows(q)'
            BY <1>1, <2>2, <3>1 DEF Shows
        <3>3. Told(q)'
            <4>1. CASE Quiet(q)
                BY <1>1, <2>1, <3>1, <4>1 DEF Agrees, Told
            <4>2. CASE ~Quiet(q)
                <5>1. PICK i \in DOMAIN reports : IsLast(q, i) /\ reports[i].status = last[q]
                    BY <2>1, <4>2 DEF Agrees, Told
                <5>2. i # 1
                    BY <1>3, <2>5, <5>1 DEF IsLast
                <5> QED
                    BY <2>4, <5>1, <5>2
            <4> QED
                BY <4>1, <4>2
        <3> QED
            BY <2>1, <2>3, <3>1, <3>2, <3>3 DEF Agrees
    <2>6. CASE q = h.run
        <3>1. ~Quiet(q)
            BY <1>3, <2>6 DEF Quiet
        <3>2. PICK i \in DOMAIN reports : IsLast(q, i) /\ reports[i].status = last[q]
            BY <2>1, <3>1 DEF Agrees, Told
        <3>3. CASE i # 1
            BY <2>3, <2>4, <3>2, <3>3 DEF Agrees
        <3>4. CASE i = 1
            <4>1. Quiet(q)'
                BY <1>1, <1>2, <3>2, <3>4, ReportTaken
            <4>2. row'[q] = last[q] /\ last[q] \in RunStatus
                BY <1>1, <1>3, <2>1, <2>6, <3>2, <3>4
            <4>3. (q \in live <=> last[q] = "running") /\ (last[q] = "cancelled" => cancels[q] > 0)
                BY <2>1 DEF Agrees, Told
            <4>4. Told(q)'
                BY <1>1, <4>1, <4>3 DEF Told
            <4>5. Shows(q)'
                BY <1>1, <4>2, <4>3 DEF Shows, RunStatus
            <4> QED
                BY <2>3, <4>4, <4>5 DEF Agrees
        <3> QED
            BY <3>3, <3>4
    <2> QED
        BY <2>5, <2>6
<1> QED
    BY <1>4, <1>5 DEF Whole
-----------------------------------------------------------------------------
LEMMA SystemStarts == SystemInit => SystemInv
<1> SUFFICES ASSUME SystemInit PROVE Whole /\ deaths = 0
    BY DEF SystemInv
<1>1. SystemTypes
    <2>1. cancels \in [Run -> 0..MaxCancels]
        BY SystemAssumption DEF SystemInit
    <2>2. IsFiniteSet(outbox)
        BY FS_EmptySet DEF SystemInit
    <2> QED
        BY <2>1, <2>2 DEF SystemInit, LifeInit, SystemTypes, KnownStatus
<1>2. ASSUME NEW r \in Run PROVE Agrees(r)
    BY DEF SystemInit, LifeInit, Agrees, Told, Quiet, Shows, TakenUp
<1> QED
    BY <1>1, <1>2 DEF Whole, SystemInit

LEMMA SystemStep == SystemInv /\ [SystemNext]_systemVars => SystemInv'
<1> SUFFICES ASSUME SystemInv, [SystemNext]_systemVars PROVE SystemInv'
    OBVIOUS
<1>1. CASE Crash
    BY <1>1 DEF Crash, SystemInv
<1>2. ASSUME ~Crash PROVE deaths' = deaths
    BY <1>2 DEF SystemNext, LinkStarts, Disconnect, Receive, ApplyReport, Push, AckArrives, CheckRun,
       InsertRun, RequestCancel, RunOver, inboxVars, systemVars
<1>3. CASE ~Crash /\ deaths = 0
    <2>1. Whole
        BY <1>3 DEF SystemInv
    <2>2. CASE UNCHANGED systemVars
        <3>1. UNCHANGED <<live, last, reports, row, cancels, outbox, pushes, processed, acks, down>>
            BY <2>2 DEF systemVars, lifeVars, serverVars, connectionVars, inboxVars
        <3>2. SystemTypes'
            BY <2>1, <3>1 DEF Whole, SystemTypes, Asked, AskedRows, AskedMessages
        <3> QED
            BY <1>2, <1>3, <2>1, <3>1, <3>2, NothingToldAgrees DEF SystemInv, Whole
    <2>3. CASE SystemNext
        <3>1. Whole'
            BY <1>3, <2>1, <2>3, LinkStartsKeeps, DisconnectKeeps, ReceiveKeeps, ApplyReportKeeps,
               PushKeeps, AckArrivesKeeps, CheckRunKeeps, InsertRunKeeps, RequestCancelKeeps, RunOverKeeps
            DEF SystemNext
        <3> QED
            BY <1>2, <1>3, <3>1 DEF SystemInv
    <2> QED
        BY <2>2, <2>3
<1> QED
    BY <1>1, <1>2, <1>3 DEF SystemInv

\* The last report on a run, when its reports agree with the engine.
LEMMA LastIsTold ==
    ASSUME Whole, NEW r \in Run
    PROVE  IF Quiet(r) THEN LastReport(r) = "none"
           ELSE LastReport(r) = last[r] /\ LastReport(r) \in RunStatus
<1>1. CASE Quiet(r)
    BY <1>1 DEF LastReport
<1>2. CASE ~Quiet(r)
    <2>1. PICK i \in DOMAIN reports : IsLast(r, i) /\ reports[i].status = last[r]
        BY <1>2 DEF Whole, Agrees, Told
    <2>2. reports \in Seq(Reports)
        BY DEF Whole, SystemTypes
    <2>3. \A j \in DOMAIN reports : IsLast(r, j) => j = i
        <3>1. DOMAIN reports = 1..Len(reports) /\ Len(reports) \in Nat
            BY <2>2
        <3> QED
            BY <2>1, <3>1 DEF IsLast
    <2>4. LastReport(r) = reports[i].status
        BY <1>2, <2>1, <2>3 DEF LastReport
    <2>5. reports[i].status \in RunStatus
        <3>1. DOMAIN reports = 1..Len(reports)
            BY <2>2
        <3>2. reports[i] \in Reports
            BY <2>1, <2>2, <3>1
        <3> QED
            BY <3>2 DEF Reports
    <2> QED
        BY <1>2, <2>1, <2>4, <2>5
<1> QED
    BY <1>1, <1>2

\* What the server shows of a run, with the reports under way, is what the engine does
\* with it, for every number of dispatches, cancellations and connections, until the
\* connector dies (workflow-repository.ts, connector-repository.ts).
THEOREM ServerAlwaysKnows == SystemSpec => []ServerKnows
<1>1. ASSUME SystemInv PROVE ServerKnows
    <2>1. CASE deaths = 0
        <3>1. ASSUME NEW r \in Run
              PROVE  LET displayed == IF LastReport(r) = "none" THEN row[r] ELSE LastReport(r)
                     IN  /\ displayed = "running" => r \in live \/ Row(r, 0) \in outbox \/ deaths > 0
                         /\ r \in live => displayed \in {"running", "cancelled"} \/ deaths > 0
            <4>1. Whole
                BY <1>1, <2>1 DEF SystemInv
            <4>2. Told(r) /\ (Quiet(r) => Shows(r))
                BY <4>1 DEF Whole, Agrees
            <4>3. CASE Quiet(r)
                <5>1. LastReport(r) = "none"
                    BY <4>1, <4>3, LastIsTold
                <5> QED
                    BY <4>2, <4>3, <5>1 DEF Told, Shows
            <4>4. CASE ~Quiet(r)
                <5>1. LastReport(r) = last[r] /\ LastReport(r) # "none"
                    BY <4>1, <4>4, LastIsTold DEF RunStatus
                <5> QED
                    BY <4>2, <5>1 DEF Told
            <4> QED
                BY <4>3, <4>4
        <3> QED
            BY <3>1 DEF ServerKnows
    <2>2. CASE deaths # 0
        BY <1>1, <2>2 DEF SystemInv, ServerKnows
    <2> QED
        BY <2>1, <2>2
<1> QED
    BY <1>1, SystemStarts, SystemStep, PTL DEF SystemSpec

\* A run that is shown as cancelled and executed, with no report under way, has its last
\* cancellation in the outbox, until the connector dies: however pushes, replays and
\* lost acknowledgements interleave (workflow-repository.ts, connector-cloud-client.ts).
THEOREM CancelsReach == SystemSpec => []CancelReaches
<1>1. ASSUME SystemInv PROVE CancelReaches
    <2>1. SUFFICES ASSUME NEW r \in live, row[r] = "cancelled", LastReport(r) = "none", deaths = 0
                   PROVE  cancels[r] > 0 /\ Row(r, cancels[r]) \in outbox
        BY DEF CancelReaches
    <2>2. Whole
        BY <1>1, <2>1 DEF SystemInv
    <2>3. r \in Run
        BY <2>1, <2>2 DEF Whole, SystemTypes
    <2>4. Quiet(r)
        BY <2>1, <2>2, <2>3, LastIsTold DEF RunStatus
    <2> QED
        BY <2>1, <2>2, <2>3, <2>4 DEF Whole, Agrees, Shows
<1> QED
    BY <1>1, SystemStarts, SystemStep, PTL DEF SystemSpec
=============================================================================
