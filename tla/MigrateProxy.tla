---------------------------- MODULE MigrateProxy ----------------------------
(***************************************************************************)
(* The migration from persons with a list of trees to one proxy per person *)
(* and tree (bin/migrate_proxy.rs).  It runs alone, before the server, in  *)
(* phases; it may be stopped at any statement and be run again.  A         *)
(* statement the database refuses is reported or goes unread, and the run  *)
(* goes on.  Trees are numbered in the order of their names.               *)
(***************************************************************************)
EXTENDS Naturals, FiniteSetsExt

CONSTANTS
    OldPersons,     \* person
    TreesOf,        \* person.trees of each
    OldEdges,       \* edges between persons: [rel, from, to, via]
    OldEvents,      \* life events of persons
    EventPerson,    \* life_event.person_id of each
    Unset           \* no proxy, no via person

ASSUME MigrateAssumption ==
    /\ \A c \in OldPersons :
          TreesOf[c] # {} => \E t \in TreesOf[c] : \A s \in TreesOf[c] : t <= s
    \* The unique indexes of the edge tables.
    /\ \A e, f \in OldEdges :
          e.rel = f.rel /\ e.from = f.from /\ e.to = f.to => e = f
    /\ \A e \in OldEdges : {e.from, e.to} \subseteq OldPersons
    /\ \A e \in OldEvents : EventPerson[e] \in OldPersons
    /\ Unset \notin OldPersons
    /\ \A c \in OldPersons : \A t \in TreesOf[c] : Unset # <<c, t>>

VARIABLES
    phase,      \* "idle", "proxies", "edges" or "events"
    todo,       \* what the phase has still to do
    lookup,     \* the proxies found after the first phase
    mproxy,     \* person_proxy, one per person and tree: <<person, tree>>
    medges,     \* edges between proxies
    mevent,     \* life_event.person_proxy_id
    lastRun,    \* how the last run ended: "clean", "failures", "stopped" or "never"
    runFailed,  \* some statement of this run was refused
    everFailed  \* some statement of any run was

migrateVars ==
    <<phase, todo, lookup, mproxy, medges, mevent, lastRun, runFailed, everFailed>>

MigrateInit ==
    /\ phase = "idle" /\ todo = {} /\ lookup = {}
    /\ mproxy = {} /\ medges = {}
    /\ mevent = [e \in OldEvents |-> Unset]
    /\ lastRun = "never" /\ runFailed = FALSE /\ everFailed = FALSE

OldPlaces == UNION {{<<c, t>> : t \in TreesOf[c]} : c \in OldPersons}

InTree(S, c) == {t \in UNION {TreesOf[d] : d \in OldPersons} : <<c, t>> \in S}

\* Step C: an edge of persons in each tree that both are in.
EdgesToMake(S) ==
    UNION {{<<e, t>> : t \in InTree(S, e.from) \cap InTree(S, e.to)} : e \in OldEdges}

\* Mutant: the via person's proxy is taken in the first tree, whichever that is.
ViaFirst(S, e, t) ==
    IF e.via = Unset \/ InTree(S, e.via) = {} THEN Unset
    ELSE <<e.via, Min(InTree(S, e.via))>>

Via(S, e, t) ==
    IF e.via # Unset /\ <<e.via, t>> \in S THEN <<e.via, t>> ELSE Unset

ProxyEdge(S, e, t) ==
    [rel |-> e.rel, from |-> <<e.from, t>>, to |-> <<e.to, t>>, via |-> Via(S, e, t)]
-----------------------------------------------------------------------------
BeginRun ==
    /\ phase = "idle"
    /\ phase' = "proxies" /\ todo' = OldPlaces
    /\ lookup' = {} /\ runFailed' = FALSE
    /\ UNCHANGED <<mproxy, medges, mevent, lastRun, everFailed>>

\* A statement that is carried out, or refused unseen.
Did(w) == todo' = todo \ {w} /\ UNCHANGED <<phase, lookup, lastRun>>
Carried == UNCHANGED <<runFailed, everFailed>>
Refused == runFailed' = TRUE /\ everFailed' = TRUE

\* Mutant: a person with a proxy is taken for one that is done.
PersonKnown(w) == \E t \in InTree(mproxy, w[1]) : TRUE

ProxyKnown(w) == w \in mproxy

\* Step A.
MakeProxy(w) ==
    /\ phase = "proxies" /\ w \in todo /\ Did(w)
    /\ \/ /\ ProxyKnown(w) /\ UNCHANGED mproxy /\ Carried
       \/ /\ ~ProxyKnown(w) /\ mproxy' = mproxy \cup {w} /\ Carried
       \/ /\ ~ProxyKnown(w) /\ UNCHANGED mproxy /\ Refused
    /\ UNCHANGED <<medges, mevent>>

\* Step B, and the queries that begin step C.
BuildLookup ==
    /\ phase = "proxies" /\ todo = {}
    /\ lookup' = mproxy
    /\ phase' = "edges" /\ todo' = EdgesToMake(mproxy)
    /\ UNCHANGED <<mproxy, medges, mevent, lastRun, runFailed, everFailed>>

EdgeKnown(e, t) ==
    \E x \in medges : x.rel = e.rel /\ x.from = <<e.from, t>> /\ x.to = <<e.to, t>>

\* Step C.
MakeEdge(e, t) ==
    /\ phase = "edges" /\ <<e, t>> \in todo /\ Did(<<e, t>>)
    /\ \/ /\ EdgeKnown(e, t) /\ UNCHANGED medges /\ Carried
       \/ /\ ~EdgeKnown(e, t) /\ Carried
          /\ medges' = medges \cup {ProxyEdge(lookup, e, t)}
       \/ /\ ~EdgeKnown(e, t) /\ UNCHANGED medges /\ Refused
    /\ UNCHANGED <<mproxy, mevent>>

ReadEvents ==
    /\ phase = "edges" /\ todo = {}
    /\ phase' = "events" /\ todo' = {e \in OldEvents : mevent[e] = Unset}
    /\ UNCHANGED <<lookup, mproxy, medges, mevent, lastRun, runFailed, everFailed>>

\* Step D: the person's first tree.
MoveEvent(e) ==
    LET trees == InTree(lookup, EventPerson[e]) IN
    /\ phase = "events" /\ e \in todo /\ Did(e)
    /\ \/ trees = {} /\ UNCHANGED mevent /\ Carried
       \/ /\ trees # {} /\ Carried
          /\ mevent' = [mevent EXCEPT ![e] = <<EventPerson[e], Min(trees)>>]
       \/ trees # {} /\ UNCHANGED mevent /\ Refused
    /\ UNCHANGED <<mproxy, medges>>

\* Step E only reports.
EndRun ==
    /\ phase = "events" /\ todo = {}
    /\ phase' = "idle"
    /\ lastRun' = IF runFailed THEN "failures" ELSE "clean"
    /\ UNCHANGED <<todo, lookup, mproxy, medges, mevent, runFailed, everFailed>>

\* The process dies, or a read fails.
StopRun ==
    /\ phase # "idle"
    /\ phase' = "idle" /\ todo' = {} /\ lastRun' = "stopped"
    /\ UNCHANGED <<lookup, mproxy, medges, mevent, runFailed, everFailed>>

MigrateNext ==
    \/ BeginRun \/ BuildLookup \/ ReadEvents \/ EndRun \/ StopRun
    \/ \E w \in OldPlaces : MakeProxy(w)
    \/ \E w \in EdgesToMake(OldPlaces) : MakeEdge(w[1], w[2])
    \/ \E e \in OldEvents : MoveEvent(e)

MigrateSpec == MigrateInit /\ [][MigrateNext]_migrateVars
-----------------------------------------------------------------------------
\* What the migration is for: each edge in every tree of both its ends, with the
\* via person's proxy of that tree, and each event in its person's first tree.
Migrated ==
    /\ mproxy = OldPlaces
    /\ medges = {LET e == w[1]
                     t == w[2]
                 IN [rel |-> e.rel, from |-> <<e.from, t>>, to |-> <<e.to, t>>,
                     via |-> IF e.via # Unset /\ <<e.via, t>> \in OldPlaces
                             THEN <<e.via, t>> ELSE Unset] :
                     w \in {x \in OldEdges \X UNION {TreesOf[c] : c \in OldPersons} :
                            x[2] \in TreesOf[x[1].from] \cap TreesOf[x[1].to]}}
    /\ \A e \in OldEvents :
          LET trees == TreesOf[EventPerson[e]] IN
          mevent[e] = IF trees = {} THEN Unset ELSE <<EventPerson[e], Min(trees)>>

\* Whatever earlier runs left behind, after a run none of whose statements was
\* refused every person, edge and event has been carried over ("safe to re-run
\* after partial failure").
CleanRunCompletes ==
    phase = "idle" /\ lastRun = "clean" =>
        /\ mproxy = OldPlaces
        /\ \A w \in EdgesToMake(OldPlaces) : EdgeKnown(w[1], w[2])
        /\ \A e \in OldEvents : TreesOf[EventPerson[e]] # {} => mevent[e] # Unset

\* Runs that were stopped, at whatever statement, leave no trace in the result:
\* siblings keep their via parent and events go to the first tree.
StopsHarmless ==
    phase = "idle" /\ lastRun = "clean" /\ ~everFailed => Migrated
=============================================================================
