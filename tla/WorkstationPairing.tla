------------------------- MODULE WorkstationPairing -------------------------
(***************************************************************************)
(* From a pairing code to a connector that is let in, and out again:       *)
(*   connector  src/connector/setup.ts                                     *)
(*   server     apps/server/src/pairing-repository.ts, management-         *)
(*              repository.ts (revokeWorkstation), connector-repository.ts *)
(*              (findConnectorIdentity), connector.ts, session-relay/      *)
(*              connector-links.ts                                         *)
(* Setups compete for one code; each has a claim secret of its own, which  *)
(* is only in its memory.  The workstation that an approval creates gets   *)
(* its credential with the first answer that carries the token.            *)
(***************************************************************************)
EXTENDS Naturals, FiniteSets

CONSTANTS Setup,      \* runs of `yurupager setup` with this code
          Nobody,     \* no setup, no token
          MaxLinks,   \* bound: how many sockets the paired connector opens
          MaxTokens   \* bound of the tokens a faulty server could make up

ASSUME PairingAssumption == Nobody \notin Setup /\ MaxLinks \in Nat /\ MaxTokens \in Nat

VARIABLES status,       \* workstation_pairings.status
          claimedBy,    \* whose public key and claim secret the row has
          time,         \* 0; 1: the code's ten minutes are over; 2: also those of the approval
          shown,        \* the device whose fingerprint the user was shown
          workstations, \* how many workstations this pairing created
          authorized,   \* the workstation exists and is not revoked
          credential,   \* workstations.credential_hash: the token it is the hash of
          deliveries,   \* tokens sent
          phase,        \* how far each setup is
          call,         \* its HTTP request
          answer,       \* and the answer to it
          config,       \* the token in config.json
          links,        \* the sockets of the connector
          registry,     \* ConnectorLinks: the socket of the workstation, 0 for none
          revoking,     \* revoked, and the connection not closed yet
          escaped       \* history: what the closing missed, see Missed

rowVars == <<status, claimedBy, shown, workstations>>
keyVars == <<authorized, credential, deliveries>>
setupVars == <<phase, call, answer, config>>
linkVars == <<links, registry, revoking, escaped>>
vars == <<rowVars, time, keyVars, setupVars, linkVars>>
-----------------------------------------------------------------------------
Link == 1..MaxLinks

Token == Setup \X (0..MaxTokens)

\* deriveConnectorToken: the same for the same pairing and claim secret.
TokenOf(s) == <<s, 0>>

Late == IF status = "approved" THEN time = 2 ELSE time >= 1

Reply(s, text, token) ==
    /\ answer' = [answer EXCEPT ![s] = [text |-> text, token |-> token]]
    /\ call' = [call EXCEPT ![s] = "answered"]

Ended == {"saved", "failed", "crashed"}

Init ==
    /\ status = "none" /\ claimedBy = Nobody /\ time = 0 /\ shown = Nobody
    /\ workstations = 0 /\ authorized = FALSE /\ credential = Nobody /\ deliveries = 0
    /\ phase = [s \in Setup |-> "idle"]
    /\ call = [s \in Setup |-> "none"]
    /\ answer = [s \in Setup |-> [text |-> "none", token |-> Nobody]]
    /\ config = Nobody
    /\ links = [l \in Link |-> [client |-> FALSE, server |-> "none", gone |-> FALSE]]
    /\ registry = 0 /\ revoking = FALSE /\ escaped = FALSE
-----------------------------------------------------------------------------
(* The users, in the browser. *)

\* createPairing; a repeated request finds the row.
CreatePairing ==
    /\ status = "none"
    /\ status' = "waiting_for_device"
    /\ UNCHANGED <<claimedBy, shown, workstations, time, keyVars, setupVars, linkVars>>

\* listPairings, with expirePairings.
ListPairings ==
    /\ status # "none"
    /\ status' = IF Late /\ status \in {"waiting_for_device", "pending_approval"}
                 THEN "expired" ELSE status
    /\ shown' = claimedBy
    /\ UNCHANGED <<claimedBy, workstations, time, keyVars, setupVars, linkVars>>

\* approvePairing names the pairing, not the device.  It puts the end of the row
\* off; when the code has expired, markExpired is rolled back with the rest.
ApprovePairing ==
    /\ shown # Nobody
    /\ status = "pending_approval" /\ ~Late
    /\ status' = "approved"
    /\ workstations' = workstations + 1
    /\ authorized' = TRUE
    /\ UNCHANGED <<claimedBy, shown, time, credential, deliveries, setupVars, linkVars>>

CancelPairing ==
    /\ status \in {"waiting_for_device", "pending_approval"}
    /\ status' = "cancelled"
    /\ UNCHANGED <<claimedBy, shown, workstations, time, keyVars, setupVars, linkVars>>

TimePasses ==
    /\ status # "none"
    /\ time < (IF status = "approved" THEN 2 ELSE 1)
    /\ time' = time + 1
    /\ UNCHANGED <<rowVars, keyVars, setupVars, linkVars>>
-----------------------------------------------------------------------------
(* The setup on the workstation. *)

\* runSetup up to its first request.
StartSetup(s) ==
    /\ phase[s] = "idle" /\ status # "none"
    /\ phase' = [phase EXCEPT ![s] = "claiming"]
    /\ call' = [call EXCEPT ![s] = "sent"]
    /\ UNCHANGED <<rowVars, time, keyVars, answer, config, linkVars>>

\* A request or its answer is lost, or takes longer than fifteen seconds.
CallFails(s) ==
    /\ call[s] \in {"sent", "answered"}
    /\ call' = [call EXCEPT ![s] = "failed"]
    /\ UNCHANGED <<rowVars, time, keyVars, phase, answer, config, linkVars>>

\* retryTransient: again, until ten minutes after the start of the setup, which
\* are over some time after those of the code.
RetryClaim(s) ==
    /\ phase[s] = "claiming" /\ call[s] = "failed"
    /\ call' = [call EXCEPT ![s] = "sent"]
    /\ UNCHANGED <<rowVars, time, keyVars, phase, answer, config, linkVars>>

GiveUpClaim(s) ==
    /\ phase[s] = "claiming" /\ call[s] = "failed" /\ time >= 1
    /\ phase' = [phase EXCEPT ![s] = "failed"]
    /\ UNCHANGED <<rowVars, time, keyVars, call, answer, config, linkVars>>

\* Faulty variant: a device that comes later replaces the first.
ClaimReplaces(s) ==
    /\ phase[s] = "claiming" /\ call[s] = "sent"
    /\ status \in {"waiting_for_device", "pending_approval"} /\ ~Late
    /\ status' = "pending_approval" /\ claimedBy' = s
    /\ Reply(s, "pending_approval", Nobody)
    /\ UNCHANGED <<shown, workstations, time, keyVars, phase, config, linkVars>>

\* claimPairing.  A code whose time is over is marked expired, even one that was
\* cancelled.  The claim of an approved pairing is answered without the token.
Claim(s) ==
    /\ phase[s] = "claiming" /\ call[s] = "sent"
    /\ \/ /\ Late /\ status # "approved"
          /\ status' = "expired"
          /\ Reply(s, "refused", Nobody)
          /\ UNCHANGED claimedBy
       \/ /\ ~Late /\ status = "waiting_for_device"
          /\ status' = "pending_approval" /\ claimedBy' = s
          /\ Reply(s, "pending_approval", Nobody)
       \/ /\ ~(Late /\ status # "approved") /\ status # "waiting_for_device"
          /\ Reply(s, IF claimedBy = s THEN status ELSE "refused", Nobody)
          /\ UNCHANGED <<status, claimedBy>>
    /\ UNCHANGED <<shown, workstations, time, keyVars, phase, config, linkVars>>

ClaimAnswered(s) ==
    /\ phase[s] = "claiming" /\ call[s] = "answered"
    /\ phase' = [phase EXCEPT ![s] = IF answer[s].text = "pending_approval" THEN "polling" ELSE "failed"]
    /\ call' = [call EXCEPT ![s] = "none"]
    /\ UNCHANGED <<rowVars, time, keyVars, answer, config, linkVars>>

\* Faulty variant: the loop only ends with an answer.
PollForever(s) ==
    /\ phase[s] = "polling" /\ call[s] \in {"none", "failed"}
    /\ call' = [call EXCEPT ![s] = "sent"]
    /\ UNCHANGED <<rowVars, time, keyVars, phase, answer, config, linkVars>>

\* The loop of runSetup: its deadline is the one of the claim's answer, which an
\* approval does not put off.
Poll(s) ==
    /\ phase[s] = "polling" /\ call[s] \in {"none", "failed"}
    /\ IF time >= 1
       THEN phase' = [phase EXCEPT ![s] = "failed"] /\ UNCHANGED call
       ELSE call' = [call EXCEPT ![s] = "sent"] /\ UNCHANGED phase
    /\ UNCHANGED <<rowVars, time, keyVars, answer, config, linkVars>>

\* The first delivery sets the hash, unless the workstation was revoked; the
\* answer has the token in any case.
Deliver(s) ==
    /\ credential' = IF authorized /\ credential = Nobody THEN TokenOf(s) ELSE credential
    /\ Reply(s, "approved", TokenOf(s))

\* getConnectorPairingResult.
Result(s) ==
    /\ phase[s] = "polling" /\ call[s] = "sent"
    /\ \/ /\ claimedBy # s \/ (status = "approved" /\ Late)
          /\ Reply(s, "refused", Nobody)
          /\ UNCHANGED <<status, credential, deliveries>>
       \/ /\ claimedBy = s /\ status = "approved" /\ ~Late
          /\ Deliver(s)
          /\ deliveries' = IF deliveries < MaxTokens THEN deliveries + 1 ELSE deliveries
          /\ UNCHANGED status
       \/ /\ claimedBy = s /\ status # "approved"
          /\ status' = IF Late THEN "expired" ELSE status
          /\ Reply(s, status', Nobody)
          /\ UNCHANGED <<credential, deliveries>>
    /\ UNCHANGED <<claimedBy, shown, workstations, time, authorized, phase, config, linkVars>>

ResultAnswered(s) ==
    /\ phase[s] = "polling" /\ call[s] = "answered"
    /\ phase' = [phase EXCEPT ![s] =
                    CASE answer[s].token # Nobody -> "saving"
                      [] answer[s].text = "pending_approval" -> "polling"
                      [] OTHER -> "failed"]
    /\ call' = [call EXCEPT ![s] = "none"]
    /\ UNCHANGED <<rowVars, time, keyVars, answer, config, linkVars>>

\* writePrivateJson, a rename.
Save(s) ==
    /\ phase[s] = "saving"
    /\ phase' = [phase EXCEPT ![s] = "saved"]
    /\ config' = answer[s].token
    /\ UNCHANGED <<rowVars, time, keyVars, call, answer, linkVars>>

\* The claim secret is lost.
SetupDies(s) ==
    /\ phase[s] \in {"claiming", "polling", "saving"}
    /\ phase' = [phase EXCEPT ![s] = "crashed"]
    /\ UNCHANGED <<rowVars, time, keyVars, call, answer, config, linkVars>>
-----------------------------------------------------------------------------
(* The connection of the paired connector. *)

Connect(l) ==
    /\ config # Nobody
    /\ links[l].server = "none"
    /\ \A k \in Link : k < l => links[k].server # "none" /\ ~links[k].client
    /\ links' = [links EXCEPT ![l].client = TRUE, ![l].server = "asking"]
    /\ UNCHANGED <<rowVars, time, keyVars, setupVars, registry, revoking, escaped>>

\* findConnectorIdentity reads the hash of the token and revoked_at.
Identify(l) ==
    /\ links[l].server = "asking"
    /\ links' = [links EXCEPT ![l].server =
                    IF authorized /\ credential = config THEN "known" ELSE "closed"]
    /\ UNCHANGED <<rowVars, time, keyVars, setupVars, registry, revoking, escaped>>

\* registerPendingConnector, in the continuation of that query.  Neither the
\* socket nor the workstation is looked at again, and the close handler is only
\* added here.
Register(l) ==
    /\ links[l].server = "known"
    /\ links' = [links EXCEPT ![l].server = "attached"]
    /\ registry' = l
    /\ UNCHANGED <<rowVars, time, keyVars, setupVars, revoking, escaped>>

\* The connector loses the socket, or is told that it was closed.
ClientLoses(l) ==
    /\ links[l].client
    /\ links' = [links EXCEPT ![l].client = FALSE]
    /\ UNCHANGED <<rowVars, time, keyVars, setupVars, registry, revoking, escaped>>

\* The close event: detachConnector, if there is a handler yet.
ServerLoses(l) ==
    /\ ~links[l].client /\ ~links[l].gone
    /\ links[l].server \in {"asking", "known", "attached"}
    /\ links' = [links EXCEPT ![l].gone = TRUE,
                              ![l].server = IF @ = "attached" THEN "closed" ELSE @]
    /\ registry' = IF links[l].server = "attached" /\ registry = l THEN 0 ELSE registry
    /\ UNCHANGED <<rowVars, time, keyVars, setupVars, revoking, escaped>>

\* revokeWorkstation.
Revoke ==
    /\ authorized
    /\ authorized' = FALSE /\ credential' = Nobody
    /\ revoking' = TRUE
    /\ UNCHANGED <<rowVars, time, deliveries, setupVars, links, registry, escaped>>

\* The two connections that disconnectConnector cannot find: one whose token was
\* already looked up, and one that the late registration of an older, dead socket
\* has superseded.
Missed == \E l \in Link :
    \/ links[l].server = "known"
    \/ links[l].server = "attached" /\ links[l].client /\ registry # l

\* Faulty variant: the connection is left to its heartbeat.
RevokeLeaves ==
    /\ revoking
    /\ revoking' = FALSE
    /\ escaped' = (escaped \/ Missed)
    /\ UNCHANGED <<rowVars, time, keyVars, setupVars, links, registry>>

\* The rest of the route: disconnectConnector closes the registered socket.
RevokeCloses ==
    /\ revoking
    /\ revoking' = FALSE
    /\ escaped' = (escaped \/ Missed)
    /\ links' = [l \in Link |-> IF l = registry THEN [links[l] EXCEPT !.server = "closed"] ELSE links[l]]
    /\ registry' = 0
    /\ UNCHANGED <<rowVars, time, keyVars, setupVars>>
-----------------------------------------------------------------------------
SetupStep(s) ==
    \/ RetryClaim(s) \/ GiveUpClaim(s) \/ Claim(s) \/ ClaimAnswered(s)
    \/ Poll(s) \/ Result(s) \/ ResultAnswered(s) \/ Save(s)

Next ==
    \/ CreatePairing \/ ListPairings \/ ApprovePairing \/ CancelPairing
    \/ TimePasses \/ Revoke \/ RevokeCloses
    \/ \E s \in Setup : StartSetup(s) \/ CallFails(s) \/ SetupStep(s) \/ SetupDies(s)
    \/ \E l \in Link : Connect(l) \/ Identify(l) \/ Register(l) \/ ClientLoses(l) \/ ServerLoses(l)

Spec == Init /\ [][Next]_vars

\* The clock runs, and a setup that is not stuck in a call goes on; its calls may
\* all fail: of those that fail again and again, one fails after the deadline of
\* retryTransient.
FairSpec ==
    /\ Spec
    /\ WF_vars(TimePasses)
    /\ \A s \in Setup : WF_vars(SetupStep(s)) /\ SF_vars(GiveUpClaim(s))
-----------------------------------------------------------------------------
(* Properties *)

TypeOK ==
    /\ status \in {"none", "waiting_for_device", "pending_approval", "approved", "cancelled", "expired"}
    /\ {claimedBy, shown} \subseteq Setup \cup {Nobody}
    /\ time \in 0..2 /\ workstations \in 0..2 /\ deliveries \in 0..MaxTokens
    /\ {authorized, revoking, escaped} \subseteq BOOLEAN
    /\ {credential, config} \subseteq Token \cup {Nobody}
    /\ phase \in [Setup -> {"idle", "claiming", "polling", "saving"} \cup Ended]
    /\ call \in [Setup -> {"none", "sent", "answered", "failed"}]
    /\ \A s \in Setup : answer[s].token \in Token \cup {Nobody}
    /\ registry \in 0..MaxLinks
    /\ links \in [Link -> [client : BOOLEAN, gone : BOOLEAN,
                           server : {"none", "asking", "known", "attached", "closed"}]]

\* The device that an approval lets in is the one whose fingerprint the user was
\* shown, although the request does not name it and other devices compete for
\* the code.
ApprovedWasShown == status = "approved" => shown # Nobody /\ claimedBy = shown

\* After a revocation was answered, no connector stays connected, but for the two
\* windows of Missed.
RevokedStaysOut ==
    workstations = 1 /\ ~authorized /\ ~revoking /\ ~escaped =>
        \A l \in Link : links[l].server = "attached" => ~links[l].client

\* A setup ends, although its requests may all be lost and nobody may ever
\* confirm or cancel.
SetupEnds == \A s \in Setup : (phase[s] # "idle") ~> (phase[s] \in Ended)
=============================================================================
