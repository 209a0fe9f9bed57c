--------------------------- MODULE SessionInventory ---------------------------
(***************************************************************************)
(* Which sessions of a workstation there are: how the connector lists the  *)
(* threads of Codex, and what the server makes of the list and of the      *)
(* events in between.                                                      *)
(*   src/src/connector/runtime.ts      discovery, #refreshSessions, titles  *)
(*   src/apps/server/src/connector-repository.ts   agent_sessions           *)
(*   src/apps/server/src/repository.ts     the sessions a snapshot shows    *)
(* The operators take a state and give the next one.                       *)
(***************************************************************************)
EXTENDS Integers, Sequences, FiniteSets

CONSTANTS Agent, Thread, Project,
          Cursor,      \* what a page of thread/list points at the next one with
          MaxTitles,   \* 200 in the code
          Absent

Status == {"running", "waiting", "completed", "failed", "interrupted"}
SyncState == {"live", "historical", "stale"}
-----------------------------------------------------------------------------
\* thread/list: an entry that has an id is kept, whatever else it lacks.
SessionStatus(entry) ==
    CASE entry.type = "systemError" -> [status |-> "failed", sync |-> "live"]
      [] entry.type = "active" ->
            [status |-> IF entry.flags > 0 THEN "waiting" ELSE "running", sync |-> "live"]
      [] OTHER -> [status |-> "completed", sync |-> "historical"]

\* A thread belongs to the project of its directory, unless git knows nothing of it.
ProjectIdentity(entry) == IF entry.cwd # Absent /\ entry.git THEN entry.cwd ELSE "unclassified"

SessionPayload(entry, agent) ==
    [agent |-> agent, thread |-> entry.id, project |-> ProjectIdentity(entry),
     status |-> SessionStatus(entry).status, sync |-> SessionStatus(entry).sync,
     at |-> entry.updatedAt]

ListedIds(page) == {page.entries[i].id : i \in DOMAIN page.entries} \ {Absent}

\* The pages up to one that points nowhere; a cursor that comes back is an error.
Repeats(pages) ==
    \E i, j \in DOMAIN pages : i < j /\ pages[i].next # Absent /\ pages[i].next = pages[j].next

Complete(pages) ==
    /\ pages # <<>> /\ pages[Len(pages)].next = Absent
    /\ \A i \in 1..(Len(pages) - 1) : pages[i].next # Absent

Discovers(pages) == Complete(pages) /\ ~Repeats(pages)

\* The places a thread has in the list, and the last of them.
Places(pages, t) ==
    UNION {{<<i, j>> : j \in {k \in DOMAIN pages[i].entries : pages[i].entries[k].id = t}} :
              i \in DOMAIN pages}

Before(p, q) == p[1] < q[1] \/ (p[1] = q[1] /\ p[2] < q[2])

\* Of a thread that was listed twice the later entry counts.
LastEntry(pages, t) ==
    LET last == CHOOSE p \in Places(pages, t) : \A q \in Places(pages, t) : q = p \/ Before(q, p) IN
    pages[last[1]].entries[last[2]]

DiscoveredThreads(pages) == UNION {ListedIds(pages[i]) : i \in DOMAIN pages}

DiscoveredSessions(pages, agent) ==
    [t \in DiscoveredThreads(pages) |-> SessionPayload(LastEntry(pages, t), agent)]

SanitizeTitle(entry) == entry.title # Absent /\ ~entry.blank

\* Titles of the first MaxTitles threads that have one: of a longer list the
\* rest have none.
TitledPlaces(pages) ==
    {p \in UNION {Places(pages, t) : t \in DiscoveredThreads(pages)} :
        SanitizeTitle(pages[p[1]].entries[p[2]])}

DiscoveredTitles(pages) ==
    {t \in DiscoveredThreads(pages) :
        \E p \in Places(pages, t) \cap TitledPlaces(pages) :
            Cardinality({pages[q[1]].entries[q[2]].id : q \in {r \in TitledPlaces(pages) : Before(r, p)}} \ {t})
                < MaxTitles}

\* A title that is learnt later goes to the end, and the oldest are dropped.
RememberTitle(titles, t) ==
    LET appended == Append(SelectSeq(titles, LAMBDA u : u # t), t) IN
    IF Len(appended) > MaxTitles THEN SubSeq(appended, Len(appended) - MaxTitles + 1, Len(appended))
    ELSE appended
-----------------------------------------------------------------------------
\* #refreshSessions: what it sends, in this order, and what it remembers.
\* signatures has what was last sent of each thread, and is cleared when the
\* connection comes up.

RefreshUpserts(signatures, sessions) ==
    {sessions[t] : t \in {u \in DOMAIN sessions : signatures[u] # sessions[u]}}

RefreshSignatures(signatures, sessions) ==
    [t \in Thread |-> IF t \in DOMAIN sessions THEN sessions[t] ELSE signatures[t]]

Inventory(sessions, agent) == [agent |-> agent, threads |-> DOMAIN sessions]

\* #sendSession: the session of a request, in the project it was discovered in.
WaitingSession(sessions, t, agent, fallback, now) ==
    [agent |-> agent, thread |-> t,
     project |-> IF t \in DOMAIN sessions THEN sessions[t].project ELSE fallback,
     status |-> "waiting", sync |-> "live", at |-> now]
-----------------------------------------------------------------------------
\* agent_sessions, by agent and thread.

Session == [project : Project \cup {"unclassified"}, status : Status, sync : SyncState, at : Nat]

ASSUME AbsentIsNoSession == Absent \notin Session

Sessions == [Agent \X Thread -> Session \cup {Absent}]

\* applyPayload session.upsert: a report that is older than the row changes
\* everything but its status and its time.
UpsertStatus(row, p) ==
    CASE p.sync = "historical" -> "completed"
      [] p.sync # "historical" /\ p.at >= row.at -> p.status
      [] OTHER -> row.status

UpsertRow(row, p) ==
    [project |-> p.project, sync |-> p.sync,
     status |-> IF row = Absent THEN p.status ELSE UpsertStatus(row, p),
     at |-> IF row # Absent /\ row.at > p.at THEN row.at ELSE p.at]

\* The reports of one refresh are about different threads.
ApplyUpserts(sessions, payloads) ==
    [k \in Agent \X Thread |->
        IF \E p \in payloads : p.agent = k[1] /\ p.thread = k[2]
        THEN UpsertRow(sessions[k], CHOOSE p \in payloads : p.agent = k[1] /\ p.thread = k[2])
        ELSE sessions[k]]

\* applyPayload session.inventory: what is not listed becomes stale, for the
\* agent of the inventory; what is listed comes back, for every agent.
Refreshed(row) ==
    [row EXCEPT !.sync = IF row.status \in {"running", "waiting"} THEN "live" ELSE "historical"]

ApplyInventory(sessions, inventory) ==
    [k \in Agent \X Thread |->
        CASE sessions[k] = Absent -> Absent
          [] sessions[k] # Absent /\ k[2] \in inventory.threads -> Refreshed(sessions[k])
          [] sessions[k] # Absent /\ k[2] \notin inventory.threads /\ k[1] = inventory.agent ->
                [sessions[k] EXCEPT !.sync = "stale"]
          [] OTHER -> sessions[k]]

\* request.created and turn.completed find their session by its thread alone.
SessionOf(sessions, t) == {k \in Agent \X Thread : k[2] = t /\ sessions[k] # Absent}

ApplyRequest(sessions, k, now) ==
    [sessions EXCEPT ![k] = [@ EXCEPT !.status = "waiting", !.at = now]]

ApplyTurnCompleted(sessions, k, status, now) ==
    [sessions EXCEPT ![k] = [@ EXCEPT !.status = status, !.sync = "live", !.at = now]]

\* What a snapshot shows, and what can be opened.
Shown(sessions) == {k \in Agent \X Thread : sessions[k] # Absent /\ sessions[k].sync # "stale"}

ActiveCount(sessions) ==
    Cardinality({k \in Shown(sessions) : sessions[k].status \in {"running", "waiting"}})

=============================================================================
