---------------------------- MODULE StartupSeed -----------------------------
(***************************************************************************)
(* The life events each start of the server adds for what persons and      *)
(* marriages record (db.rs, seed_life_events), with what handlers do to    *)
(* facts, marriages and events while it serves.  A start may end at any    *)
(* statement and be repeated.  The proxies are numbered in the order of    *)
(* their ids; a proxy that is gone is one about which nothing is recorded. *)
(***************************************************************************)
EXTENDS Naturals, FiniteSets, Functions

CONSTANTS
    SeedProxies,    \* proxies, numbers
    SeedKinds,      \* <<proxy, event type>> looked at
    MaxEvents,      \* bound: events of one proxy and type, by users
    MaxRows         \* bound: rows of marriages

ASSUME SeedAssumption ==
    /\ SeedProxies \subseteq Nat
    /\ SeedProxies \X {"Marriage"} \subseteq SeedKinds
    /\ SeedKinds \subseteq SeedProxies \X {"Birth", "Death", "Marriage"}
    /\ MaxEvents \in Nat /\ MaxRows \in Nat

FactTypes == {"Birth", "Death"}
SeedFacts == {x \in SeedKinds : x[2] \in FactTypes}

VARIABLES
    server,     \* "down", "seeding" persons, "marrying" pairs, or "up"
    items,      \* what the running phase has still to look at
    known,      \* <<proxy, fact>>: its canonical has a date or place for it
    wed,        \* has_spouse: <<in, out>> of each row
    events,     \* the number of life events of each proxy and type
    before      \* history: events when the server last stopped serving

seedVars == <<server, items, known, wed, events, before>>
facts == <<known, wed>>

NoEvents == [x \in SeedKinds |-> 0]

SeedInit ==
    /\ server = "down" /\ items = {} /\ known = {} /\ wed = {}
    /\ events = NoEvents /\ before = NoEvents
-----------------------------------------------------------------------------
(* A start.                                                                *)

\* Mutant: any event of the proxy will do.
AnyEventExists(x) == \E y \in SeedKinds : y[1] = x[1] /\ events[y] > 0

\* Mutant: the check is made for births and deaths only.
FactEventExists(x) == x[2] # "Marriage" /\ events[x] > 0

LifeEventExists(x) == events[x] > 0

\* connect, as far as the seed: the proxies with something to seed are read once.
Boot ==
    /\ server = "down"
    /\ server' = "seeding" /\ items' = known
    /\ UNCHANGED <<facts, events, before>>

\* Check and CREATE for proxy and type x.
Seeded(x) ==
    /\ events' = IF LifeEventExists(x) THEN events ELSE [events EXCEPT ![x] = @ + 1]
    /\ UNCHANGED <<server, facts, before>>

SeedFact(x) == server = "seeding" /\ items' = items \ {x} /\ Seeded(x)

\* Of the rows of a marriage the one whose in is the lower proxy.
ReadMarriages ==
    /\ server = "seeding" /\ items = {}
    /\ server' = "marrying"
    /\ items' = {m \in wed : m[1] < m[2]}
    /\ UNCHANGED <<facts, events, before>>

SeedMarriage(m) ==
    server = "marrying" /\ items' = items \ {m} /\ Seeded(<<m[1], "Marriage">>)

Serve ==
    /\ server = "marrying" /\ items = {}
    /\ server' = "up" /\ before' = NoEvents
    /\ UNCHANGED <<items, facts, events>>

\* The process ends, or a start fails at a query.
Crash ==
    /\ server # "down"
    /\ server' = "down" /\ items' = {}
    /\ before' = IF server = "up" THEN events ELSE before
    /\ UNCHANGED <<facts, events>>
-----------------------------------------------------------------------------
(* Handlers.  Trees and write checks are left out: any proxies will do.    *)
(* Each changes these rows in one query, but for the two of AddMarriage.   *)

Handled == server = "up" /\ UNCHANGED <<server, items, before>>

\* create_person, add_person_to_tree, update_canonical: a person whose proxies are
\* S has fact f; none of them takes a date or place away.
RecordFact(S, f) ==
    /\ Handled
    /\ known' = known \cup {x \in SeedFacts : x[1] \in S /\ x[2] = f}
    /\ UNCHANGED <<wed, events>>

\* accept_merge_proposal points S to a canonical with facts F, or with none when
\* it deletes that one, as delete_tree may do.
PointTo(S, F) ==
    /\ Handled
    /\ known' = {x \in SeedFacts : IF x[1] \in S THEN x[2] \in F ELSE x \in known}
    /\ UNCHANGED <<wed, events>>

\* add_relationship: two RELATEs, of which each may be refused without anyone
\* looking; p may be q.
AddMarriage(p, q, W) ==
    /\ Handled
    /\ W \subseteq {<<p, q>>, <<q, p>>}
    /\ wed' = wed \cup W
    /\ Cardinality(wed') <= MaxRows
    /\ UNCHANGED <<known, events>>

\* delete_relationship of a spouse: both directions.
DeleteMarriage(p, q) ==
    /\ Handled
    /\ wed' = wed \ {<<p, q>>, <<q, p>>}
    /\ UNCHANGED <<known, events>>

\* create_life_event; or update_life_event gives an event of another type type x[2].
AddEvent(x) ==
    /\ Handled
    /\ events[x] < MaxEvents
    /\ events' = [events EXCEPT ![x] = @ + 1]
    /\ UNCHANGED facts

\* delete_life_event; or update_life_event gives the event a type that is not seeded.
TakeEvent(x) ==
    /\ Handled
    /\ events[x] > 0
    /\ events' = [events EXCEPT ![x] = @ - 1]
    /\ UNCHANGED facts

\* update_life_event: an event of x gets the type of y.
RetypeEvent(x, y) ==
    /\ Handled
    /\ x[1] = y[1] /\ x # y
    /\ events[x] > 0 /\ events[y] < MaxEvents
    /\ events' = [events EXCEPT ![x] = @ - 1, ![y] = @ + 1]
    /\ UNCHANGED facts

\* delete_person, remove_person_from_tree, delete_tree.
DeleteProxies(S) ==
    /\ Handled
    /\ known' = {x \in known : x[1] \notin S}
    /\ wed' = {m \in wed : m[1] \notin S /\ m[2] \notin S}
    /\ events' = [x \in SeedKinds |-> IF x[1] \in S THEN 0 ELSE events[x]]

\* One UPDATE and DELETE of a collapse of l into s at one end of the rows W: a row
\* is re-pointed only while s has none, the others go (PersonHandlers, Rewritten).
MovedRows(W, end, l, s) ==
    LET mine == {m \in W : m[end] = l}
        movable == {m \in mine : \A n \in W : n[end] # s}
    IN  {W \ mine} \cup {(W \ mine) \cup {[m EXCEPT ![end] = s]} : m \in movable}

EventsAt(x) == IF x \in SeedKinds THEN events[x] ELSE 0

\* collapse_same_tree_duplicate of l into s: the events follow, the proxy goes. With
\* l = s the events stay behind at a proxy that is gone.
Collapse(l, s) ==
    /\ Handled
    /\ \E W \in MovedRows(wed, 1, l, s) : wed' \in MovedRows(W, 2, l, s)
    /\ known' = {x \in known : x[1] # l}
    /\ events' = [x \in SeedKinds |->
                    CASE l # s /\ x[1] = s -> events[x] + EventsAt(<<l, x[2]>>)
                      [] l # s /\ x[1] = l -> 0
                      [] OTHER -> events[x]]
    /\ \A x \in SeedKinds : events'[x] <= MaxEvents
-----------------------------------------------------------------------------
StartStep ==
    \/ Boot \/ ReadMarriages \/ Serve \/ Crash
    \/ \E x \in items : SeedFact(x) \/ SeedMarriage(x)

HandlerStep ==
    \/ \E S \in SUBSET SeedProxies :
         \/ \E f \in FactTypes : RecordFact(S, f)
         \/ \E F \in SUBSET FactTypes : PointTo(S, F)
         \/ DeleteProxies(S)
    \/ \E p, q \in SeedProxies :
         \/ \E W \in SUBSET {<<p, q>>, <<q, p>>} : AddMarriage(p, q, W)
         \/ DeleteMarriage(p, q) \/ Collapse(p, q)
    \/ \E x \in SeedKinds :
         \/ AddEvent(x) \/ TakeEvent(x)
         \/ \E y \in SeedKinds : RetypeEvent(x, y)

SeedNext == StartStep \/ HandlerStep

SeedSpec == SeedInit /\ [][SeedNext]_seedVars
-----------------------------------------------------------------------------
(* Properties.                                                             *)

\* When the server begins to serve, whatever starts were cut off before and
\* whatever handlers did, each recorded birth and death has an event, and so has
\* one end of each marriage of two proxies that has both its rows. (A row whose in
\* is the higher proxy and that has lost the other gets none.)
SeedComplete ==
    [][server = "marrying" /\ server' = "up" =>
          /\ \A x \in known : events[x] > 0
          /\ \A m \in wed :
               m[1] # m[2] /\ <<m[2], m[1]>> \in wed =>
                  \E a \in {m[1], m[2]} : events[<<a, "Marriage">>] > 0]_seedVars

\* What a start looks for: facts, and rows of marriages with the lower proxy first.
Due == known \cup {<<m[1], "Marriage">> : m \in {w \in wed : w[1] < w[2]}}

\* However many starts are cut off and repeated between two times the server
\* serves, they add one event at most for a proxy and type, and only where
\* there was none and something is recorded. (Users can make doubles: with
\* create_life_event, by changing an event's type, by a collapse.)
NoSeedDoubles ==
    server # "up" => \A x \in SeedKinds :
        events[x] = before[x] \/ (before[x] = 0 /\ events[x] = 1 /\ x \in Due)
=============================================================================
