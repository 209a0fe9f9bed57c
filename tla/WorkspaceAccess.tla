---------------------------- MODULE WorkspaceAccess ----------------------------
(***************************************************************************)
(* Who may do what in a workspace: members and their roles, invitations,   *)
(* what is granted at a workstation, what a snapshot shows of it, and the  *)
(* subscriptions that are notified of a request.                           *)
(*   src/apps/server/src/management-repository.ts   the operations          *)
(*   src/apps/server/db/migrations/0001_initial_alpha_schema.sql  app_can_* *)
(*   src/apps/server/src/repository.ts              getSnapshot             *)
(*   src/apps/server/src/push-service.ts            notifications           *)
(*   src/apps/server/src/auth.ts                    web sessions            *)
(* Each operation is one transaction; its operator takes the tables of one *)
(* workspace and gives the next ones.  A transaction that checks and       *)
(* writes without a lock has an operator for each half.                    *)
(***************************************************************************)
EXTENDS Integers, FiniteSets

CONSTANTS User, Workstation,
          Key,         \* idempotency keys of invitations
          Endpoint,    \* of push subscriptions
          Absent

Manager  == {"owner", "admin"}
Role     == Manager \cup {"member"}
Editable == {"view", "respond", "highRisk", "manage", "preview"}
Grant    == Editable \cup {"orchestrate"}

Invite == [by : User, role : {"admin", "member"}, due : BOOLEAN, joined : BOOLEAN]

ASSUME AccessAssumption == Absent \notin Role /\ Absent \notin Invite

\* Granted to nobody is a row that is not there.
Tables == [members  : [User -> Role \cup {Absent}],
           access   : [Workstation \X User -> SUBSET Grant],
           stations : [Workstation -> {"none", "open", "revoked"}],
           invites  : [Key -> Invite \cup {Absent}]]
-----------------------------------------------------------------------------
\* The functions on which every row policy rests.  Only the first two and the
\* last one look at the members; a grant is good without a membership.

CanViewWorkspace(s, u) == s.members[u] # Absent

CanManageWorkspace(s, u) == s.members[u] \in Manager

CanViewWorkstation(s, w, u) ==
    CanManageWorkspace(s, u) \/ s.access[<<w, u>>] \cap {"view", "preview"} # {}

CanRespond(s, w, u, highRisk) ==
    \/ CanManageWorkspace(s, u)
    \/ "respond" \in s.access[<<w, u>>] /\ (highRisk => "highRisk" \in s.access[<<w, u>>])

CanManageWorkstations(s, u) ==
    CanManageWorkspace(s, u) \/ \E w \in Workstation : "manage" \in s.access[<<w, u>>]

CanPreviewWorkstation(s, w, u) ==
    CanManageWorkspace(s, u) \/ "preview" \in s.access[<<w, u>>]

\* requireOrchestration: owners and admins need the grant as well.
CanOrchestrate(s, w, u) == CanViewWorkspace(s, u) /\ "orchestrate" \in s.access[<<w, u>>]
-----------------------------------------------------------------------------
\* Workspaces, invitations and members.

CreateWorkspace(u) ==
    [members  |-> [v \in User |-> IF v = u THEN "owner" ELSE Absent],
     access   |-> [k \in Workstation \X User |-> {}],
     stations |-> [w \in Workstation |-> "none"],
     invites  |-> [k \in Key |-> Absent]]

\* createWorkspace with a key that was used before: the same one, or refused.
CreateOutcome(existing, name, kind) ==
    CASE existing = Absent -> "created"
      [] existing # Absent /\ existing.name = name /\ existing.kind = kind -> "replayed"
      [] OTHER -> "refused"

\* The token is derived from the workspace, the actor and the key.
InviteOutcome(s, actor, key, role) ==
    CASE ~CanManageWorkspace(s, actor) -> "denied"
      [] CanManageWorkspace(s, actor) /\ s.invites[key] = Absent -> "created"
      [] OTHER -> IF s.invites[key].role = role /\ s.invites[key].by = actor THEN "replayed" ELSE "refused"

CreateInvite(s, actor, key, role) ==
    IF InviteOutcome(s, actor, key, role) = "created"
    THEN [s EXCEPT !.invites[key] = [by |-> actor, role |-> role, due |-> FALSE, joined |-> FALSE]]
    ELSE s

Joinable(s, key) == s.invites[key] # Absent /\ ~s.invites[key].joined /\ ~s.invites[key].due

\* A member who joins again keeps the role, and uses the invitation up.
Join(s, u, key) ==
    IF ~Joinable(s, key) THEN s
    ELSE [s EXCEPT !.members[u] = IF @ = Absent THEN s.invites[key].role ELSE @,
                   !.invites[key] = [@ EXCEPT !.joined = TRUE]]

\* Of oneself, too; of the owner never.
MayChange(s, actor, u) == CanManageWorkspace(s, actor) /\ s.members[u] \in Role \ {"owner"}

UpdateMemberRole(s, actor, u, role) ==
    IF MayChange(s, actor, u) THEN [s EXCEPT !.members[u] = role] ELSE s

RemoveMember(s, actor, u) ==
    IF ~MayChange(s, actor, u) THEN s
    ELSE [s EXCEPT !.members[u] = Absent,
                   !.access = [k \in DOMAIN @ |-> IF k[2] = u THEN {} ELSE @[k]]]
-----------------------------------------------------------------------------
\* Workstations and what is granted at them.

\* approvePairing: who connects a workstation gets all but preview and workflows.
AddWorkstation(s, w, u) ==
    [s EXCEPT !.stations[w] = "open", !.access[<<w, u>>] = {"view", "respond", "highRisk", "manage"}]

AccessChecked(s, actor, w, u) ==
    CanManageWorkspace(s, actor) /\ s.stations[w] = "open" /\ CanViewWorkspace(s, u)

\* A row that is written keeps what its statement does not name.
WriteAccess(s, w, u, granted) ==
    [s EXCEPT !.access[<<w, u>>] = IF granted = {} THEN {} ELSE granted \cup (@ \ Editable)]

UpdateWorkstationAccess(s, actor, w, u, granted) ==
    IF AccessChecked(s, actor, w, u) THEN WriteAccess(s, w, u, granted) ELSE s

RevokeWorkstation(s, actor, w) ==
    IF CanManageWorkspace(s, actor) /\ s.stations[w] = "open" THEN [s EXCEPT !.stations[w] = "revoked"] ELSE s
-----------------------------------------------------------------------------
\* getSnapshot, for one user.

ShownWorkstations(s, u) == {w \in Workstation : s.stations[w] = "open" /\ CanViewWorkstation(s, w, u)}

\* The workstations whose sessions and requests it has.
ShownSessionsOf(s, u) == {w \in Workstation : s.stations[w] # "none" /\ CanViewWorkstation(s, w, u)}

ShownGrants(s, w, member) ==
    IF CanManageWorkspace(s, member) THEN Editable ELSE s.access[<<w, member>>] \cap Editable

\* Of each member, at the workstations that the reader may see: also the revoked.
WorkstationCount(s, reader, member) ==
    Cardinality({w \in ShownSessionsOf(s, reader) : "view" \in ShownGrants(s, w, member)})

\* getMember answers a change of role without the revoked.
MemberCount(s, reader, member) ==
    Cardinality({w \in ShownWorkstations(s, reader) : "view" \in ShownGrants(s, w, member)})

\* The view sends all five, four of them as its snapshot has them.
Toggled(shown, permission) ==
    IF permission \in shown THEN shown \ {permission} ELSE shown \cup {permission}
-----------------------------------------------------------------------------
\* Web sessions: a token that was issued, is not revoked and not twelve hours old.

Login(localMode, known, matches, u) ==
    IF localMode /\ known /\ matches THEN [user |-> u, due |-> FALSE, revoked |-> FALSE] ELSE Absent

Logout(session) == IF session = Absent THEN Absent ELSE [session EXCEPT !.revoked = TRUE]

Authenticated(session) == session # Absent /\ ~session.revoked /\ ~session.due
-----------------------------------------------------------------------------
\* Push subscriptions, one for each endpoint.  A row keeps its id when it is
\* registered again, by whomever.

Subscription == [id : Nat, user : User, due : BOOLEAN, failures : Nat]

RegisterPush(subscriptions, endpoint, u, fresh) ==
    [subscriptions EXCEPT ![endpoint] =
        [id |-> IF @ = Absent THEN fresh ELSE @.id, user |-> u, due |-> FALSE, failures |-> 0]]

UnregisterPush(subscriptions, endpoint, u) ==
    IF subscriptions[endpoint] # Absent /\ subscriptions[endpoint].user = u
    THEN [subscriptions EXCEPT ![endpoint] = Absent] ELSE subscriptions

\* A request that is new: members who manage, or may respond there.
PushTargets(s, w, subscriptions) ==
    {e \in Endpoint :
        /\ subscriptions[e] # Absent /\ ~subscriptions[e].due
        /\ CanViewWorkspace(s, subscriptions[e].user)
        /\ CanManageWorkspace(s, subscriptions[e].user) \/ "respond" \in s.access[<<w, subscriptions[e].user>>]}

\* What the push service answered, about the row that was read before.
PushAnswered(subscriptions, id, answer) ==
    [e \in Endpoint |->
        IF subscriptions[e] = Absent \/ subscriptions[e].id # id THEN subscriptions[e]
        ELSE CASE answer = "taken" -> [subscriptions[e] EXCEPT !.failures = 0]
               [] answer = "gone" -> Absent
               [] OTHER -> [subscriptions[e] EXCEPT !.failures = @ + 1]]

=============================================================================
