-------------------------- MODULE MCPreviewAccess --------------------------
(* Instances of PreviewAccess for TLC, and WorkspaceAccess over small tables: *)
(* who is permitted.                                                        *)
EXTENDS PreviewAccess, WorkspaceAccess, TLC

CONSTANTS p1, p2, q1

Browsers == Permutations(Post)
-----------------------------------------------------------------------------
SmallGrants == SUBSET {"view", "respond"}

SmallTables ==
    [members  : [User -> Role \cup {Absent}],
     access   : [Workstation \X User -> SmallGrants],
     stations : [Workstation -> {"none", "open", "revoked"}],
     invites  : [Key -> Invite \cup {Absent}]]

\* There is one owner, and what is granted is granted to members, at
\* workstations that there are.
InOrder(s) ==
    /\ Cardinality({u \in User : s.members[u] = "owner"}) = 1
    /\ \A w \in Workstation, u \in User :
          s.access[<<w, u>>] # {} => s.members[u] # Absent /\ s.stations[w] # "none"

OrderlyTables == {s \in SmallTables : InOrder(s)}

NextTables(s) ==
    UNION {UNION {{CreateInvite(s, a, k, r), UpdateMemberRole(s, a, u, r), RemoveMember(s, a, u), Join(s, u, k)} :
                     a \in User, u \in User, k \in Key, r \in {"admin", "member"}},
           UNION {{UpdateWorkstationAccess(s, a, w, u, g), RevokeWorkstation(s, a, w)} :
                     a \in User, u \in User, w \in Workstation, g \in SmallGrants},
           {AddWorkstation(s, w, u) : w \in {v \in Workstation : s.stations[v] = "none"},
                                      u \in {v \in User : CanManageWorkstations(s, v)}}}

\* Transactions that run one after the other keep the tables in order, and
\* none of them grants workflows to anybody.
ASSUME SerialOrder ==
    /\ \A u \in User : InOrder(CreateWorkspace(u))
    /\ \A s \in OrderlyTables : \A t \in NextTables(s) :
          /\ InOrder(t)
          /\ \A w \in Workstation, u \in User : ~CanOrchestrate(t, w, u)

\* Between the halves of an update of grants a removal leaves a grant without a
\* member, at a workstation that is then still shown; nobody is notified of it.
ASSUME RemovalBetweenTheHalves ==
    \A s \in OrderlyTables, a, u \in User, w \in Workstation :
        AccessChecked(s, a, w, u) /\ s.members[u] # "owner" =>
            LET left == WriteAccess(RemoveMember(s, a, u), w, u, {"view", "respond"}) IN
            /\ ~InOrder(left) /\ left.members[u] = Absent
            /\ w \in ShownWorkstations(left, u) /\ CanRespond(left, w, u, FALSE)
            /\ \A e \in Endpoint : PushTargets(left, w,
                   RegisterPush([f \in Endpoint |-> Absent], e, u, 1)) = {}

\* A removed member who is invited again starts without grants, and an
\* invitation is good once.
ASSUME Rejoining ==
    \A s \in OrderlyTables, a, u \in User, k \in Key :
        MayChange(s, a, u) /\ Joinable(s, k) =>
            LET back == Join(RemoveMember(s, a, u), u, k) IN
            /\ back.members[u] = s.invites[k].role
            /\ \A w \in Workstation : back.access[<<w, u>>] = {}
            /\ ~Joinable(back, k) /\ \A v \in User : Join(back, v, k) = back

\* Who is notified may answer a request that is not of high risk, and every
\* member who may and has a subscription is notified.
ASSUME NotifiedMayAnswer ==
    \A s \in OrderlyTables, w \in Workstation, e \in Endpoint, u \in User :
        (e \in PushTargets(s, w, RegisterPush([f \in Endpoint |-> Absent], e, u, 1)))
            <=> CanRespond(s, w, u, FALSE)

\* Asking again for an invitation, a workspace or a subscription adds none.
ASSUME Replays ==
    /\ \A s \in OrderlyTables, a \in User, k \in Key, r \in {"admin", "member"} :
          LET once == CreateInvite(s, a, k, r) IN CreateInvite(once, a, k, r) = once
    /\ \A x, y \in {"name", "other"} :
          CreateOutcome([name |-> x, kind |-> "team"], y, "team") = "replayed" <=> x = y
    /\ \A e \in Endpoint, u, v \in User :
          LET once == RegisterPush([f \in Endpoint |-> Absent], e, u, 1)
              again == RegisterPush(PushAnswered(once, 1, "failed"), e, v, 2) IN
          /\ again[e] = [id |-> 1, user |-> v, due |-> FALSE, failures |-> 0]
          /\ UnregisterPush(again, e, u)[e] = IF u = v THEN Absent ELSE again[e]

\* A session that was ended stays ended.
ASSUME EndedSessions ==
    \A u \in User : Authenticated(Login(TRUE, TRUE, TRUE, u)) /\ ~Authenticated(Logout(Login(TRUE, TRUE, TRUE, u)))
=============================================================================
