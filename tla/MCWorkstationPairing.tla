------------------------ MODULE MCWorkstationPairing ------------------------
(* Instances of WorkstationPairing for TLC, and SessionInventory over small  *)
(* lists: the sessions of a workstation that is paired.                      *)
EXTENDS WorkstationPairing, SessionInventory, TLC

CONSTANTS s1, s2, w
-----------------------------------------------------------------------------
SmallEntries ==
    {e \in [id : Thread \cup {Absent}, type : {"idle", "active"}, flags : {0, 1}, cwd : {w}, git : {TRUE},
            updatedAt : {1}, title : {Absent, "title"}, blank : {FALSE}] :
        e.flags = 1 <=> e.type = "active"}

Pages == [entries : UNION {[1..n -> SmallEntries] : n \in 0..1}, next : Cursor \cup {Absent}]

Lists == UNION {[1..n -> Pages] : n \in 1..2}

Rows == [project : {w}, status : {"running", "completed"}, sync : {"live", "stale"}, at : {0, 2}] \cup {Absent}

\* Rows of one agent are given, the other has one session that is shown.
SmallSessions(a) ==
    {[k \in Agent \X Thread |->
        IF k[1] = a THEN own[k[2]] ELSE [project |-> w, status |-> "completed", sync |-> "live", at |-> 0]] :
        own \in [Thread -> Rows]}

\* What is found in a list that ends is what is shown after the refresh, and a
\* list that ends has a page more than it has cursors.
ASSUME ListsAreShown ==
    \A pages \in Lists : Discovers(pages) =>
        LET a == CHOOSE b \in Agent : TRUE
            found == DiscoveredSessions(pages, a) IN
        /\ Cardinality({pages[i].next : i \in DOMAIN pages}) = Len(pages)
        /\ Cardinality(DiscoveredTitles(pages)) <= MaxTitles
        /\ \A rows \in SmallSessions(a) :
              LET none == [t \in Thread |-> Absent]
                  after == ApplyInventory(ApplyUpserts(rows, RefreshUpserts(none, found)), Inventory(found, a)) IN
              /\ {k \in Shown(after) : k[1] = a} = {<<a, t>> : t \in DOMAIN found}
              /\ {k \in Shown(rows) : k[1] # a} \subseteq Shown(after)
              /\ ActiveCount(after) <= Cardinality(Shown(after))
              /\ RefreshUpserts(RefreshSignatures(none, found), found) = {}

\* Titles stay without repetition, within their bound and in the order they came.
ASSUME TitlesAreBounded ==
    \A titles \in UNION {[1..n -> Thread] : n \in 0..MaxTitles}, t \in Thread :
        (\A i, j \in DOMAIN titles : titles[i] = titles[j] => i = j) =>
            LET next == RememberTitle(titles, t) IN
            /\ Len(next) <= MaxTitles /\ next[Len(next)] = t
            /\ \A i, j \in DOMAIN next : next[i] = next[j] => i = j
=============================================================================
