----------------------------- MODULE DeskProofs -----------------------------
(***************************************************************************)
(* Five of the parts that stand by themselves, for any number of sessions, *)
(* proxies, texts, requests and old persons: chat messages, the events     *)
(* seeded at each start, the duplicate search, the connection, and the     *)
(* migration to proxies, whose runs are stopped, refused statements and    *)
(* repeated in any order.                                                  *)
(***************************************************************************)
EXTENDS AssistantHandlers, StartupSeed, DuplicateSearch, ConnectionLock, MigrateProxy,
        SequenceTheorems, TLAPS

-----------------------------------------------------------------------------
(* Chat sessions.                                                          *)

ChatInv ==
    /\ AssistantTypeOK
    /\ \A m \in MessageIds : message[m] # NoSession => message[m] \in sessions

\* No sessions at the start.
LEMMA ChatInitInv == AssistantInit => ChatInv
BY DEF AssistantInit, ChatInv, AssistantTypeOK

\* The invariant of sessions and messages is inductive.
LEMMA ChatNextInv == ChatInv /\ [AssistantNext]_assistantVars => ChatInv'
<1> SUFFICES ASSUME ChatInv, [AssistantNext]_assistantVars
             PROVE  ChatInv'
    OBVIOUS
<1> USE DEF ChatInv, AssistantTypeOK
<1>1. ASSUME NEW s \in SessionIds, CreateSession(s)
      PROVE  ChatInv'
    BY <1>1 DEF CreateSession
<1>2. ASSUME NEW s \in SessionIds, NEW m \in MessageIds, AppendMessage(s, m)
      PROVE  ChatInv'
    BY <1>2 DEF AppendMessage
<1>3. ASSUME NEW s \in SessionIds, NEW cut \in BOOLEAN, DeleteSession(s, cut)
      PROVE  ChatInv'
    <2>1. message' \in [MessageIds -> SessionIds \cup {NoSession}]
        BY <1>3 DEF DeleteSession, MessagesThenSession, MessagesWithout
    <2>2. ASSUME NEW m \in MessageIds, message'[m] # NoSession
          PROVE  message'[m] = message[m] /\ message[m] # s
        BY <1>3, <2>2 DEF DeleteSession, MessagesThenSession, MessagesWithout
    <2>3. sessions \ {s} \subseteq sessions' /\ sessions' \subseteq sessions
        BY <1>3 DEF DeleteSession, MessagesThenSession
    <2>4. UNCHANGED <<spent, aiSettings>>
        BY <1>3 DEF DeleteSession
    <2> QED
        BY <2>1, <2>2, <2>3, <2>4
<1>4. ASSUME NEW u \in AiUsers,
             DeleteAiSettings(u) \/ \E v \in Settings : UpsertAiSettings(u, v)
      PROVE  ChatInv'
    BY <1>4 DEF DeleteAiSettings, UpsertAiSettings
<1>5. CASE UNCHANGED assistantVars
    BY <1>5 DEF assistantVars
<1> QED
    BY <1>1, <1>2, <1>3, <1>4, <1>5 DEF AssistantNext

\* Every stored message can be read through its session, wherever deletions
\* were cut off (chat_session.rs, delete_session and append_message).
THEOREM MessagesReachableCorrect == AssistantSpec => []MessagesReachable
<1>1. ChatInv => MessagesReachable
    BY AssistantAssumption
    DEF ChatInv, AssistantTypeOK, MessagesReachable, ListedMessages
<1> QED
    BY <1>1, ChatInitInv, ChatNextInv, PTL DEF AssistantSpec

-----------------------------------------------------------------------------
(* The start of the server.                                                *)

SeedTypes ==
    /\ server \in {"down", "seeding", "marrying", "up"}
    /\ known \subseteq SeedFacts
    /\ wed \subseteq SeedProxies \X SeedProxies
    /\ events \in [SeedKinds -> Nat]
    /\ before \in [SeedKinds -> Nat]

LowerFirst == {m \in wed : m[1] < m[2]}

\* What a start has still to look at is recorded, and is all that may lack an event.
FactsLeft ==
    server = "seeding" =>
        /\ items \subseteq known
        /\ \A x \in known : x \in items \/ events[x] > 0

MarriagesLeft ==
    server = "marrying" =>
        /\ items \subseteq LowerFirst
        /\ \A x \in known : events[x] > 0
        /\ \A m \in LowerFirst : m \in items \/ events[<<m[1], "Marriage">>] > 0

SeedInv == SeedTypes /\ NoSeedDoubles /\ FactsLeft /\ MarriagesLeft

\* Nothing is recorded at the start.
LEMMA SeedInitInv == SeedInit => SeedInv
BY DEF SeedInit, NoEvents, SeedInv, SeedTypes, NoSeedDoubles, FactsLeft, MarriagesLeft

\* What is due is looked at under a kind the seed knows.
LEMMA DueKinds ==
    ASSUME SeedTypes
    PROVE  /\ Due \subseteq SeedKinds
           /\ \A m \in LowerFirst : <<m[1], "Marriage">> \in Due
<1>1. \A m \in wed : <<m[1], "Marriage">> \in SeedKinds
    BY SeedAssumption DEF SeedTypes
<1> QED
    BY <1>1 DEF Due, SeedFacts, SeedTypes, LowerFirst

\* Looking at x leaves it with an event, and takes none from anybody.
LEMMA SeededInv ==
    ASSUME SeedInv, NEW x \in Due, Seeded(x), server # "up"
    PROVE  /\ SeedTypes' /\ NoSeedDoubles'
           /\ events'[x] > 0
           /\ \A y \in SeedKinds : events[y] > 0 => events'[y] > 0
<1>1. x \in SeedKinds /\ events[x] \in Nat
    BY DueKinds DEF SeedInv, SeedTypes
<1>2. UNCHANGED <<server, known, wed, before>> /\ Due' = Due
    BY DEF Seeded, facts, Due
<1>3. CASE LifeEventExists(x)
    BY <1>1, <1>2, <1>3 DEF SeedInv, SeedTypes, Seeded, LifeEventExists, NoSeedDoubles
<1>4. CASE ~LifeEventExists(x)
    <2>1. events[x] = 0 /\ events' = [events EXCEPT ![x] = 1]
        <3>1. events[x] = 0
            BY <1>1, <1>4 DEF LifeEventExists
        <3>2. events' = [events EXCEPT ![x] = events[x] + 1]
            BY <1>4 DEF Seeded
        <3> QED
            BY <3>1, <3>2
    <2>2. events' \in [SeedKinds -> Nat] /\ events'[x] = 1
        BY <1>1, <2>1 DEF SeedInv, SeedTypes
    <2>3. \A y \in SeedKinds : y # x => events'[y] = events[y]
        BY <2>1 DEF SeedInv, SeedTypes
    <2>4. before[x] = 0
        BY <1>1, <2>1 DEF SeedInv, SeedTypes, NoSeedDoubles
    <2>5. NoSeedDoubles'
        BY <1>1, <1>2, <2>2, <2>3, <2>4 DEF SeedInv, NoSeedDoubles
    <2> QED
        BY <1>1, <1>2, <2>1, <2>2, <2>3, <2>5 DEF SeedInv, SeedTypes
<1> QED
    BY <1>3, <1>4

\* Re-pointed rows are rows between proxies.
LEMMA MovedRowsKept ==
    ASSUME NEW W \in SUBSET (SeedProxies \X SeedProxies), NEW l \in SeedProxies,
           NEW s \in SeedProxies, NEW end \in {1, 2}, NEW V \in MovedRows(W, end, l, s)
    PROVE  V \in SUBSET (SeedProxies \X SeedProxies)
<1>1. ASSUME NEW m \in W
      PROVE  [m EXCEPT ![end] = s] \in SeedProxies \X SeedProxies
    <2>1. m \in SeedProxies \X SeedProxies /\ m = <<m[1], m[2]>>
        OBVIOUS
    <2>2. CASE end = 1
        <3>1. [m EXCEPT ![end] = s] = <<s, m[2]>>
            BY <2>1, <2>2
        <3> QED
            BY <2>1, <3>1
    <2>3. CASE end = 2
        <3>1. [m EXCEPT ![end] = s] = <<m[1], s>>
            BY <2>1, <2>3
        <3> QED
            BY <2>1, <3>1
    <2> QED
        BY <2>2, <2>3
<1> QED
    BY <1>1 DEF MovedRows

\* Handlers run while the server serves, and keep the types.
LEMMA HandlerTypes ==
    ASSUME SeedInv, HandlerStep
    PROVE  server = "up" /\ server' = "up" /\ SeedTypes'
<1> SUFFICES ASSUME Handled
             PROVE  /\ known' \subseteq SeedFacts
                    /\ wed' \subseteq SeedProxies \X SeedProxies
                    /\ events' \in [SeedKinds -> Nat]
    BY DEF Handled, SeedInv, SeedTypes, HandlerStep, RecordFact, PointTo, DeleteProxies,
           AddMarriage, DeleteMarriage, Collapse, AddEvent, TakeEvent, RetypeEvent
<1> USE DEF SeedInv, SeedTypes
<1>1. ASSUME NEW S \in SUBSET SeedProxies,
             \/ \E f \in FactTypes : RecordFact(S, f)
             \/ \E F \in SUBSET FactTypes : PointTo(S, F)
      PROVE  known' \subseteq SeedFacts /\ UNCHANGED <<wed, events>>
    BY <1>1 DEF RecordFact, PointTo
<1>2. ASSUME NEW S \in SUBSET SeedProxies, DeleteProxies(S)
      PROVE  /\ known' \subseteq known /\ wed' \subseteq wed
             /\ events' \in [SeedKinds -> Nat]
    BY <1>2 DEF DeleteProxies
<1>3. ASSUME NEW p \in SeedProxies, NEW q \in SeedProxies,
             \/ \E W \in SUBSET {<<p, q>>, <<q, p>>} : AddMarriage(p, q, W)
             \/ DeleteMarriage(p, q)
      PROVE  wed' \subseteq SeedProxies \X SeedProxies /\ UNCHANGED <<known, events>>
    BY <1>3 DEF AddMarriage, DeleteMarriage
<1>4. ASSUME NEW l \in SeedProxies, NEW s \in SeedProxies, Collapse(l, s)
      PROVE  /\ known' \subseteq known
             /\ wed' \subseteq SeedProxies \X SeedProxies
             /\ events' \in [SeedKinds -> Nat]
    <2>1. wed' \subseteq SeedProxies \X SeedProxies
        <3>1. PICK W \in MovedRows(wed, 1, l, s) : wed' \in MovedRows(W, 2, l, s)
            BY <1>4 DEF Collapse
        <3>2. W \in SUBSET (SeedProxies \X SeedProxies)
            BY <3>1, MovedRowsKept
        <3> QED
            BY <3>1, <3>2, MovedRowsKept
    <2>2. events' \in [SeedKinds -> Nat]
        BY <1>4 DEF Collapse, EventsAt
    <2> QED
        BY <1>4, <2>1, <2>2 DEF Collapse
<1>5. ASSUME NEW x \in SeedKinds,
             AddEvent(x) \/ TakeEvent(x) \/ \E y \in SeedKinds : RetypeEvent(x, y)
      PROVE  UNCHANGED <<known, wed>> /\ events' \in [SeedKinds -> Nat]
    BY <1>5 DEF AddEvent, TakeEvent, RetypeEvent, facts
<1> QED
    BY <1>1, <1>2, <1>3, <1>4, <1>5 DEF HandlerStep

\* The invariant of the start is inductive.
LEMMA SeedNextInv == SeedInv /\ [SeedNext]_seedVars => SeedInv'
<1> SUFFICES ASSUME SeedInv, [SeedNext]_seedVars
             PROVE  SeedInv'
    OBVIOUS
<1>1. CASE Boot \/ Crash \/ UNCHANGED seedVars
    <2>1. CASE Boot
        BY <2>1 DEF Boot, facts, SeedInv, SeedTypes, NoSeedDoubles, Due, FactsLeft,
                    MarriagesLeft
    <2>2. CASE Crash
        <3>1. SeedTypes'
            BY <2>2 DEF Crash, facts, SeedInv, SeedTypes
        <3>2. NoSeedDoubles'
            BY <2>2 DEF Crash, facts, SeedInv, NoSeedDoubles, Due
        <3> QED
            BY <2>2, <3>1, <3>2 DEF Crash, SeedInv, FactsLeft, MarriagesLeft
    <2>3. CASE UNCHANGED seedVars
        BY <2>3 DEF seedVars, SeedInv, SeedTypes, NoSeedDoubles, Due, FactsLeft,
                    MarriagesLeft, LowerFirst
    <2> QED
        BY <1>1, <2>1, <2>2, <2>3
<1>2. CASE ReadMarriages
    BY <1>2 DEF ReadMarriages, facts, SeedInv, SeedTypes, NoSeedDoubles, Due, FactsLeft,
                MarriagesLeft, LowerFirst
<1>3. ASSUME NEW x \in items, SeedFact(x)
      PROVE  SeedInv'
    <2>1. /\ server = "seeding" /\ Seeded(x) /\ items' = items \ {x}
          /\ UNCHANGED <<server, known>>
        BY <1>3 DEF SeedFact, Seeded, facts
    <2>2. x \in Due /\ known \subseteq SeedKinds
        BY <2>1, <1>3, DueKinds DEF SeedInv, FactsLeft, Due
    <2>3. FactsLeft' /\ MarriagesLeft'
        BY <2>1, <2>2, SeededInv DEF SeedInv, FactsLeft, MarriagesLeft
    <2> QED
        BY <2>1, <2>2, <2>3, SeededInv DEF SeedInv
<1>4. ASSUME NEW m \in items, SeedMarriage(m)
      PROVE  SeedInv'
    <2>1. /\ server = "marrying" /\ Seeded(<<m[1], "Marriage">>) /\ items' = items \ {m}
          /\ UNCHANGED <<server, known, wed>>
        BY <1>4 DEF SeedMarriage, Seeded, facts
    <2>2. <<m[1], "Marriage">> \in Due /\ known \subseteq SeedKinds
        BY <2>1, <1>4, DueKinds DEF SeedInv, MarriagesLeft, Due
    <2>3. \A n \in LowerFirst : <<n[1], "Marriage">> \in SeedKinds
        BY DueKinds DEF SeedInv
    <2>4. /\ SeedTypes' /\ NoSeedDoubles' /\ events'[<<m[1], "Marriage">>] > 0
          /\ \A y \in SeedKinds : events[y] > 0 => events'[y] > 0
        BY <2>1, <2>2, SeededInv
    <2>5. FactsLeft' /\ MarriagesLeft'
        BY <2>1, <2>2, <2>3, <2>4 DEF SeedInv, FactsLeft, MarriagesLeft, LowerFirst
    <2> QED
        BY <2>4, <2>5 DEF SeedInv
<1>5. CASE Serve
    BY <1>5 DEF Serve, NoEvents, facts, SeedInv, SeedTypes, NoSeedDoubles, FactsLeft,
                MarriagesLeft
<1>6. CASE HandlerStep
    BY <1>6, HandlerTypes DEF SeedInv, NoSeedDoubles, FactsLeft, MarriagesLeft
<1> QED
    BY <1>1, <1>2, <1>3, <1>4, <1>5, <1>6 DEF SeedNext, StartStep

\* However many starts are cut off and repeated, what they add they add once, and only
\* where there was none and something is recorded (db.rs, life_event_exists).
THEOREM NoSeedDoublesCorrect == SeedSpec => []NoSeedDoubles
<1>1. SeedInv => NoSeedDoubles
    BY DEF SeedInv
<1> QED
    BY <1>1, SeedInitInv, SeedNextInv, PTL DEF SeedSpec

\* The step behind SeedComplete.
CompleteWhenServing ==
    server = "marrying" /\ server' = "up" =>
        /\ \A x \in known : events[x] > 0
        /\ \A m \in wed :
             m[1] # m[2] /\ <<m[2], m[1]>> \in wed =>
                \E a \in {m[1], m[2]} : events[<<a, "Marriage">>] > 0

\* The server serves only after every fact and marriage has been looked at.
LEMMA CompleteStep == SeedInv /\ [SeedNext]_seedVars => [CompleteWhenServing]_seedVars
<1> SUFFICES ASSUME SeedInv, SeedNext, server = "marrying", server' = "up"
             PROVE  /\ \A x \in known : events[x] > 0
                    /\ \A m \in wed :
                         m[1] # m[2] /\ <<m[2], m[1]>> \in wed =>
                            \E a \in {m[1], m[2]} : events[<<a, "Marriage">>] > 0
    BY DEF CompleteWhenServing
<1>1. items = {}
    <2>1. ~HandlerStep
        BY HandlerTypes
    <2> QED
        BY <2>1 DEF SeedNext, StartStep, Boot, ReadMarriages, Serve, Crash, SeedFact,
                    SeedMarriage, Seeded
<1>2. /\ \A x \in known : events[x] > 0
      /\ \A m \in wed : m[1] < m[2] => events[<<m[1], "Marriage">>] > 0
    BY <1>1 DEF SeedInv, MarriagesLeft, LowerFirst
<1>3. ASSUME NEW m \in wed, m[1] # m[2], <<m[2], m[1]>> \in wed
      PROVE  \E a \in {m[1], m[2]} : events[<<a, "Marriage">>] > 0
    <2>1. m[1] \in Nat /\ m[2] \in Nat
        BY SeedAssumption DEF SeedInv, SeedTypes
    <2>2. CASE m[1] < m[2]
        BY <1>2, <2>2
    <2>3. CASE m[2] < m[1]
        BY <1>2, <1>3, <2>3
    <2> QED
        BY <1>3, <2>1, <2>2, <2>3
<1> QED
    BY <1>2, <1>3

\* When the server begins to serve, every recorded birth and death has its event, and
\* so has every marriage of two proxies that still has both its rows, whatever starts
\* were cut off before (db.rs, seed_life_events).
THEOREM SeedCompleteCorrect == SeedSpec => SeedComplete
BY SeedInitInv, SeedNextInv, CompleteStep, PTL
DEF SeedSpec, SeedComplete, CompleteWhenServing

-----------------------------------------------------------------------------
(* The duplicate search.                                                   *)

\* Neither years nor places score differently from the other side.
LEMMA ScoresSymmetric ==
    ASSUME NEW a, NEW b
    PROVE  /\ YearScore(a, b) = YearScore(b, a)
           /\ PlaceScore(a, b) = PlaceScore(b, a)
<1>1. YearScore(a, b) = YearScore(b, a)
    <2> DEFINE Y(y, z) == IF y = NoYear \/ z = NoYear THEN 0
                          ELSE IF y = z THEN 2
                          ELSE IF y + 1 = z \/ z + 1 = y THEN 1
                          ELSE 0
    <2>1. \A y, z : Y(y, z) = Y(z, y)
        OBVIOUS
    <2>2. /\ YearScore(a, b) = Y(ExtractYear(a), ExtractYear(b))
          /\ YearScore(b, a) = Y(ExtractYear(b), ExtractYear(a))
        BY DEF YearScore
    <2> HIDE DEF Y
    <2> QED
        BY <2>1, <2>2
<1>2. ContainsEitherWay(a, b) = ContainsEitherWay(b, a)
    BY DEF ContainsEitherWay
<1>3. SharesSignificantWord(a, b) = SharesSignificantWord(b, a)
    BY DEF SharesSignificantWord
<1>4. PlaceScore(a, b) = PlaceScore(b, a)
    BY <1>2, <1>3 DEF PlaceScore
<1> QED
    BY <1>1, <1>4

\* For all texts, a match found from one of two persons is found from the other,
\* with the same score and confidence (person.rs, find_duplicates).
THEOREM DuplicatesAreMutualCorrect == SearchSpec => []DuplicatesAreMutual
<1>1. ASSUME NEW d, NEW c
      PROVE  RestMatch(d, c) = RestMatch(c, d)
    BY ScoresSymmetric DEF RestMatch
<1>2. DuplicatesAreMutual
    BY <1>1 DEF DuplicatesAreMutual
<1> QED
    BY <1>2, PTL

\* The application and the assistant find the same duplicates of a person with
\* both names, with the same score and confidence (find_duplicates, twice).
THEOREM RestAndToolAgreeCorrect == SearchSpec => []RestAndToolAgree
<1>1. RestAndToolAgree
    <2>1. \A a, b : ToolYearScore(a, b) = YearScore(a, b)
        BY DEF YearScore, ToolYearScore, ExtractYear, ToolExtractYear
    <2>2. \A a, b : ToolPlaceScore(a, b) = PlaceScore(a, b)
        BY DEF PlaceScore, ToolPlaceScore
    <2> QED
        BY <2>1, <2>2 DEF RestAndToolAgree, RestMatch, ToolMatch
<1> QED
    BY <1>1, PTL

-----------------------------------------------------------------------------
(* The migration to proxies.  Progress says what the present run has done  *)
(* already or has still on its list, as long as no statement of it was     *)
(* refused; Faithful says what rows there can be at all, as long as no     *)
(* statement was ever refused.                                             *)

EdgesThere == \A w \in EdgesToMake(OldPlaces) : EdgeKnown(w[1], w[2])

EventsThere == \A e \in OldEvents : TreesOf[EventPerson[e]] # {} => mevent[e] # Unset

Rows ==
    /\ mproxy \subseteq OldPlaces
    /\ mevent = [e \in OldEvents |-> mevent[e]]
    /\ phase \in {"idle", "proxies", "edges", "events"}
    /\ phase # "idle" /\ runFailed => everFailed

Progress ==
    /\ phase = "proxies" /\ ~runFailed => OldPlaces \subseteq mproxy \cup todo
    /\ phase \in {"edges", "events"} /\ ~runFailed =>
          mproxy = OldPlaces /\ lookup = OldPlaces
    /\ phase = "edges" /\ ~runFailed =>
          \A w \in EdgesToMake(OldPlaces) : w \in todo \/ EdgeKnown(w[1], w[2])
    /\ phase = "events" /\ ~runFailed =>
          /\ EdgesThere
          /\ \A e \in OldEvents :
                TreesOf[EventPerson[e]] # {} => e \in todo \/ mevent[e] # Unset

FirstPlace(e) == <<EventPerson[e], Min(TreesOf[EventPerson[e]])>>

EdgesOf == {ProxyEdge(OldPlaces, w[1], w[2]) : w \in EdgesToMake(OldPlaces)}

Faithful ==
    ~everFailed =>
        /\ medges \subseteq EdgesOf
        /\ \A e \in OldEvents :
              \/ mevent[e] = Unset
              \/ TreesOf[EventPerson[e]] # {} /\ mevent[e] = FirstPlace(e)

MigrateInv == Rows /\ Progress /\ Faithful /\ CleanRunCompletes
-----------------------------------------------------------------------------
\* Once every proxy is there, a person is in the trees the old list names.
LEMMA TreesFound ==
    ASSUME NEW c \in OldPersons
    PROVE  InTree(OldPlaces, c) = TreesOf[c]
BY DEF InTree, OldPlaces

\* The first of a person's trees is one of them, and gives a place.
LEMMA FirstTree ==
    ASSUME NEW c \in OldPersons, TreesOf[c] # {}
    PROVE  <<c, Min(TreesOf[c])>> # Unset
<1>1. Min(TreesOf[c]) \in TreesOf[c]
    BY MigrateAssumption DEF Min
<1> QED
    BY <1>1, MigrateAssumption

\* The pairs of an edge and a tree, spelled out.
LEMMA EdgePairs ==
    ASSUME NEW S
    PROVE  \A w : w \in EdgesToMake(S) <=>
              \E e \in OldEdges : \E t \in InTree(S, e.from) \cap InTree(S, e.to) : w = <<e, t>>
BY DEF EdgesToMake

\* Before the first run nothing is migrated.
LEMMA MigrateInitInv == MigrateInit => MigrateInv
BY DEF MigrateInit, MigrateInv, Rows, Progress, Faithful, CleanRunCompletes

\* A run starts from whatever stopped runs left.
LEMMA BeginInv == ASSUME MigrateInv, BeginRun PROVE MigrateInv'
BY DEF MigrateInv, BeginRun, Rows, Progress, Faithful, CleanRunCompletes

\* A run that stops leaves what it has written.
LEMMA StopInv == ASSUME MigrateInv, StopRun PROVE MigrateInv'
BY DEF MigrateInv, StopRun, Rows, Progress, Faithful, CleanRunCompletes

\* Step A: a proxy per person and tree.
LEMMA MakeProxyInv ==
    ASSUME MigrateInv, NEW w \in OldPlaces, MakeProxy(w)
    PROVE  MigrateInv'
<1>1. /\ phase = "proxies" /\ todo' = todo \ {w}
      /\ UNCHANGED <<phase, lookup, lastRun, medges, mevent>>
      /\ \/ w \in mproxy /\ UNCHANGED mproxy /\ Carried
         \/ mproxy' = mproxy \cup {w} /\ Carried
         \/ UNCHANGED mproxy /\ Refused
    BY DEF MakeProxy, Did, ProxyKnown
<1>2. Rows'
    BY <1>1 DEF MigrateInv, Rows, Carried, Refused
<1>3. Progress'
    BY <1>1 DEF MigrateInv, Progress, Carried, Refused
<1>4. Faithful'
    BY <1>1 DEF MigrateInv, Faithful, Carried, Refused
<1> QED
    BY <1>1, <1>2, <1>3, <1>4 DEF MigrateInv, CleanRunCompletes

\* The lookup holds every proxy there is.
LEMMA BuildLookupInv ==
    ASSUME MigrateInv, BuildLookup
    PROVE  MigrateInv'
<1>1. ~runFailed => mproxy = OldPlaces
    BY DEF MigrateInv, BuildLookup, Rows, Progress
<1> QED
    BY <1>1 DEF MigrateInv, BuildLookup, Rows, Progress, Faithful, CleanRunCompletes

\* Step B: an edge in each tree of its first end.
LEMMA MakeEdgeInv ==
    ASSUME MigrateInv, NEW w \in EdgesToMake(OldPlaces), MakeEdge(w[1], w[2])
    PROVE  MigrateInv'
<1>1. PICK e, t : e \in OldEdges /\ w = <<e, t>>
    BY EdgePairs
<1> DEFINE new == ProxyEdge(lookup, e, t)
<1>2. /\ phase = "edges" /\ UNCHANGED <<phase, lookup, lastRun, mproxy, mevent>>
      /\ todo' = todo \ {w}
      /\ \/ EdgeKnown(e, t) /\ UNCHANGED medges /\ Carried
         \/ medges' = medges \cup {new} /\ Carried
         \/ UNCHANGED medges /\ Refused
    BY <1>1 DEF MakeEdge, Did
<1>3. medges \subseteq medges'
    BY <1>2
<1>4. \A f, s : EdgeKnown(f, s) => EdgeKnown(f, s)'
    BY <1>3 DEF EdgeKnown
<1>5. Rows'
    BY <1>2 DEF MigrateInv, Rows, Carried, Refused
<1>6. Progress'
    <2>1. CASE EdgeKnown(e, t) /\ UNCHANGED medges /\ Carried
        BY <1>1, <1>2, <1>4, <2>1 DEF MigrateInv, Progress, Carried
    <2>2. CASE medges' = medges \cup {new} /\ Carried
        <3>1. EdgeKnown(e, t)'
            <4>1. /\ new \in medges' /\ new.rel = e.rel
                  /\ new.from = <<e.from, t>> /\ new.to = <<e.to, t>>
                BY <2>2 DEF ProxyEdge
            <4> QED
                BY <4>1 DEF EdgeKnown
        <3> QED
            BY <1>1, <1>2, <1>4, <2>2, <3>1 DEF MigrateInv, Progress, Carried
    <2>3. CASE UNCHANGED medges /\ Refused
        BY <1>2, <2>3 DEF Progress, Refused
    <2> QED
        BY <1>2, <2>1, <2>2, <2>3
<1>7. Faithful'
    <2>1. CASE medges' = medges \cup {new} /\ Carried
        <3>1. ~everFailed => lookup = OldPlaces
            BY <1>2 DEF MigrateInv, Rows, Progress
        <3>2. ~everFailed => new \in EdgesOf
            BY <1>1, <3>1 DEF EdgesOf
        <3> QED
            BY <1>2, <2>1, <3>2 DEF MigrateInv, Faithful, Carried
    <2>2. CASE UNCHANGED medges /\ (Carried \/ Refused)
        BY <1>2, <2>2 DEF MigrateInv, Faithful, Carried, Refused
    <2> QED
        BY <1>2, <2>1, <2>2
<1> QED
    BY <1>2, <1>5, <1>6, <1>7 DEF MigrateInv, CleanRunCompletes

\* Step C reads the events before it moves them.
LEMMA ReadEventsInv ==
    ASSUME MigrateInv, ReadEvents
    PROVE  MigrateInv'
<1>1. ~runFailed => EdgesThere
    BY DEF MigrateInv, ReadEvents, Progress, EdgesThere
<1>2. EdgesThere => EdgesThere'
    BY DEF ReadEvents, EdgesThere, EdgeKnown
<1>3. Progress'
    BY <1>1, <1>2 DEF MigrateInv, ReadEvents, Progress
<1> QED
    BY <1>3 DEF MigrateInv, ReadEvents, Rows, Faithful, CleanRunCompletes

\* Step C: an event goes to a proxy of its person.
LEMMA MoveEventInv ==
    ASSUME MigrateInv, NEW e \in OldEvents, MoveEvent(e)
    PROVE  MigrateInv'
<1> DEFINE found == InTree(lookup, EventPerson[e])
           place == <<EventPerson[e], Min(found)>>
<1>1. /\ phase = "events" /\ todo' = todo \ {e}
      /\ UNCHANGED <<phase, lookup, lastRun, mproxy, medges>>
      /\ \/ found = {} /\ UNCHANGED mevent /\ Carried
         \/ found # {} /\ Carried /\ mevent' = [mevent EXCEPT ![e] = place]
         \/ UNCHANGED mevent /\ Refused
    BY DEF MoveEvent, Did
<1>2. EventPerson[e] \in OldPersons
    BY MigrateAssumption
<1>3. ~runFailed => found = TreesOf[EventPerson[e]]
    BY <1>1, <1>2, TreesFound DEF MigrateInv, Progress
<1>4. EdgesThere => EdgesThere'
    BY <1>1 DEF EdgesThere, EdgeKnown
<1>5. Rows'
    BY <1>1 DEF MigrateInv, Rows, Carried, Refused
<1>6. CASE UNCHANGED mevent /\ Refused
    BY <1>1, <1>5, <1>6 DEF MigrateInv, Progress, Faithful, Refused, CleanRunCompletes
<1>7. CASE found = {} /\ UNCHANGED mevent /\ Carried
    <2>1. Progress'
        BY <1>1, <1>3, <1>4, <1>7 DEF MigrateInv, Progress, Carried
    <2> QED
        BY <1>1, <1>5, <1>7, <2>1 DEF MigrateInv, Faithful, Carried, CleanRunCompletes
<1>8. CASE found # {} /\ Carried /\ mevent' = [mevent EXCEPT ![e] = place]
    <2>1. \A f \in OldEvents : mevent'[f] = IF f = e THEN place ELSE mevent[f]
        BY <1>8 DEF MigrateInv, Rows
    <2>2. ~runFailed => place = FirstPlace(e) /\ Min(found) = Min(TreesOf[EventPerson[e]])
        BY <1>3 DEF FirstPlace
    <2>3. ~runFailed => place # Unset
        <3>1. SUFFICES ASSUME ~runFailed, place = Unset
                       PROVE  FALSE
            OBVIOUS
        <3> QED
            BY <1>2, <1>3, <1>8, <3>1, FirstTree
    <2>4. Progress'
        BY <1>1, <1>4, <1>8, <2>1, <2>3 DEF MigrateInv, Progress, Carried
    <2>5. Faithful'
        <3>1. ~everFailed => ~runFailed
            BY <1>1 DEF MigrateInv, Rows
        <3> QED
            BY <1>1, <1>3, <1>8, <2>1, <2>2, <3>1 DEF MigrateInv, Faithful, Carried
    <2> QED
        BY <1>1, <1>5, <2>4, <2>5 DEF MigrateInv, CleanRunCompletes
<1> QED
    BY <1>1, <1>6, <1>7, <1>8

\* A run that ends has been through all steps.
LEMMA EndRunInv ==
    ASSUME MigrateInv, EndRun
    PROVE  MigrateInv'
<1>1. EdgesThere => EdgesThere'
    BY DEF EndRun, EdgesThere, EdgeKnown
<1>2. CASE runFailed
    BY <1>2 DEF EndRun, MigrateInv, Rows, Progress, Faithful, CleanRunCompletes
<1>3. CASE ~runFailed
    <2>1. mproxy = OldPlaces /\ EdgesThere'
        BY <1>1, <1>3 DEF EndRun, MigrateInv, Progress
    <2>2. \A e \in OldEvents : TreesOf[EventPerson[e]] # {} => mevent[e] # Unset
        BY <1>3 DEF EndRun, MigrateInv, Progress
    <2>3. CleanRunCompletes'
        BY <2>1, <2>2 DEF EndRun, CleanRunCompletes, EdgesThere
    <2> QED
        BY <2>3 DEF EndRun, MigrateInv, Rows, Progress, Faithful
<1> QED
    BY <1>2, <1>3

\* The invariant is inductive.
LEMMA MigrateNextInv == MigrateInv /\ [MigrateNext]_migrateVars => MigrateInv'
<1> SUFFICES ASSUME MigrateInv, [MigrateNext]_migrateVars
             PROVE  MigrateInv'
    OBVIOUS
<1>1. CASE UNCHANGED migrateVars
    <2>1. EdgesThere => EdgesThere'
        BY <1>1 DEF EdgesThere, EdgeKnown, migrateVars
    <2> QED
        BY <1>1, <2>1 DEF migrateVars, MigrateInv, Rows, Progress, Faithful,
                          CleanRunCompletes, EdgeKnown
<1> QED
    BY <1>1, BeginInv, StopInv, MakeProxyInv, BuildLookupInv, MakeEdgeInv, ReadEventsInv,
       MoveEventInv, EndRunInv DEF MigrateNext

\* A run none of whose statements was refused ends with everything carried over,
\* whatever stopped or failed before it (migrate_proxy.rs, main).
THEOREM CleanRunCompletesCorrect == MigrateSpec => []CleanRunCompletes
<1>1. MigrateInv => CleanRunCompletes
    BY DEF MigrateInv
<1> QED
    BY <1>1, MigrateInitInv, MigrateNextInv, PTL DEF MigrateSpec
-----------------------------------------------------------------------------
\* What Migrated asks of the edges is what step C makes of complete proxies.
LEMMA EdgesSpelledOut ==
    EdgesOf =
        {LET e == w[1]
             t == w[2]
         IN [rel |-> e.rel, from |-> <<e.from, t>>, to |-> <<e.to, t>>,
             via |-> IF e.via # Unset /\ <<e.via, t>> \in OldPlaces
                     THEN <<e.via, t>> ELSE Unset] :
             w \in {x \in OldEdges \X UNION {TreesOf[c] : c \in OldPersons} :
                    x[2] \in TreesOf[x[1].from] \cap TreesOf[x[1].to]}}
<1> DEFINE W == {x \in OldEdges \X UNION {TreesOf[c] : c \in OldPersons} :
                    x[2] \in TreesOf[x[1].from] \cap TreesOf[x[1].to]}
<1>1. \A e \in OldEdges : /\ InTree(OldPlaces, e.from) = TreesOf[e.from]
                          /\ InTree(OldPlaces, e.to) = TreesOf[e.to]
                          /\ e.from \in OldPersons
    BY TreesFound, MigrateAssumption
<1>2. EdgesToMake(OldPlaces) = W
    <2>1. ASSUME NEW w, w \in EdgesToMake(OldPlaces)
          PROVE  w \in W
        <3>1. PICK e, t :
                 e \in OldEdges /\ w = <<e, t>> /\ t \in TreesOf[e.from] \cap TreesOf[e.to]
            BY <1>1, <2>1, EdgePairs
        <3> QED
            BY <1>1, <3>1
    <2>2. ASSUME NEW w \in W
          PROVE  w \in EdgesToMake(OldPlaces)
        <3>1. PICK e \in OldEdges, t \in UNION {TreesOf[c] : c \in OldPersons} :
                 w = <<e, t>> /\ t \in TreesOf[e.from] \cap TreesOf[e.to]
            OBVIOUS
        <3> QED
            BY <1>1, <3>1, EdgePairs
    <2> QED
        BY <2>1, <2>2
<1> HIDE DEF W
<1>3. EdgesOf = {ProxyEdge(OldPlaces, w[1], w[2]) : w \in W}
    BY <1>2 DEF EdgesOf
<1> QED
    BY <1>3 DEF ProxyEdge, Via, W

\* If no statement was ever refused, what a run that was not stopped leaves is
\* what one undisturbed run would have left: stops leave no trace.
THEOREM StopsHarmlessCorrect == MigrateSpec => []StopsHarmless
<1>1. ASSUME MigrateInv, phase = "idle", lastRun = "clean", ~everFailed
      PROVE  Migrated
    <2>1. mproxy = OldPlaces /\ EdgesThere
        BY <1>1 DEF MigrateInv, CleanRunCompletes, EdgesThere
    <2>2. EdgesOf \subseteq medges
        <3>1. SUFFICES ASSUME NEW w \in EdgesToMake(OldPlaces)
                       PROVE  ProxyEdge(OldPlaces, w[1], w[2]) \in medges
            BY DEF EdgesOf
        <3>2. PICK x \in medges :
                 x.rel = w[1].rel /\ x.from = <<w[1].from, w[2]>> /\ x.to = <<w[1].to, w[2]>>
            BY <2>1 DEF EdgesThere, EdgeKnown
        <3>3. PICK v \in EdgesToMake(OldPlaces) : x = ProxyEdge(OldPlaces, v[1], v[2])
            BY <1>1, <3>2 DEF MigrateInv, Faithful, EdgesOf
        <3>4. /\ w[1] \in OldEdges /\ v[1] \in OldEdges
              /\ w = <<w[1], w[2]>> /\ v = <<v[1], v[2]>>
            BY EdgePairs
        <3>5. /\ v[1].rel = w[1].rel /\ v[1].from = w[1].from /\ v[1].to = w[1].to
              /\ v[2] = w[2]
            BY <3>2, <3>3 DEF ProxyEdge
        <3>6. v = w
            BY <3>4, <3>5, MigrateAssumption
        <3> QED
            BY <3>2, <3>3, <3>6
    <2>3. medges = EdgesOf
        BY <1>1, <2>2 DEF MigrateInv, Faithful
    <2>4. ASSUME NEW e \in OldEvents
          PROVE  mevent[e] = IF TreesOf[EventPerson[e]] = {} THEN Unset ELSE FirstPlace(e)
        BY <1>1 DEF MigrateInv, Faithful, CleanRunCompletes
    <2> QED
        BY <2>1, <2>3, <2>4, EdgesSpelledOut DEF Migrated, FirstPlace
<1>2. MigrateInv => StopsHarmless
    BY <1>1 DEF StopsHarmless
<1> QED
    BY <1>2, MigrateInitInv, MigrateNextInv, PTL DEF MigrateSpec
-----------------------------------------------------------------------------
(* The connection.                                                         *)

Operations == {"lock", "unlock", "call"}

\* A program that releases the connection right after it got it, and never else.
Sectioned(P) ==
    /\ P \in Seq(Operations) /\ Len(P) \in Nat \ {0}
    /\ P[1] # "unlock" /\ P[Len(P)] # "lock"
    /\ \A i \in 1 .. Len(P) - 1 : P[i] = "lock" <=> P[i + 1] = "unlock"

\* Such programs can be put one after the other.
LEMMA SectionedConcat ==
    ASSUME NEW P, NEW Q, Sectioned(P), Sectioned(Q)
    PROVE  Sectioned(P \o Q)
<1> DEFINE R == P \o Q
           n == Len(P)
           m == Len(Q)
<1>1. /\ P \in Seq(Operations) /\ Q \in Seq(Operations)
      /\ n \in Nat \ {0} /\ m \in Nat \ {0}
    BY DEF Sectioned
<1>2. R \in Seq(Operations) /\ Len(R) = n + m
    BY <1>1, ConcatProperties
<1>3. \A i \in 1 .. n + m : R[i] = IF i <= n THEN P[i] ELSE Q[i - n]
    BY <1>1, ConcatProperties
<1>4. /\ P[1] # "unlock" /\ P[n] # "lock" /\ Q[1] # "unlock" /\ Q[m] # "lock"
      /\ \A i \in 1 .. n - 1 : P[i] = "lock" <=> P[i + 1] = "unlock"
      /\ \A i \in 1 .. m - 1 : Q[i] = "lock" <=> Q[i + 1] = "unlock"
    BY DEF Sectioned
<1> HIDE DEF R, n, m
<1>5. R[1] = P[1] /\ R[n + m] = Q[m]
    BY <1>1, <1>3
<1>6. ASSUME NEW i \in 1 .. n + m - 1
      PROVE  R[i] = "lock" <=> R[i + 1] = "unlock"
    <2>1. CASE i < n
        <3>1. /\ i \in 1 .. n - 1 /\ i \in 1 .. n + m /\ i + 1 \in 1 .. n + m
              /\ i <= n /\ i + 1 <= n
            BY <1>1, <2>1
        <3>2. R[i] = P[i] /\ R[i + 1] = P[i + 1]
            BY <1>3, <3>1
        <3> QED
            BY <1>4, <3>1, <3>2
    <2>2. CASE i = n
        <3>1. i \in 1 .. n + m /\ i + 1 \in 1 .. n + m /\ ~ (i + 1 <= n) /\ (i + 1) - n = 1
            BY <1>1, <2>2
        <3>2. R[i] = P[n] /\ R[i + 1] = Q[1]
            BY <1>3, <2>2, <3>1
        <3> QED
            BY <1>4, <3>2
    <2>3. CASE i > n
        <3>1. /\ i - n \in 1 .. m - 1 /\ i \in 1 .. n + m /\ i + 1 \in 1 .. n + m
              /\ ~ (i <= n) /\ ~ (i + 1 <= n) /\ (i + 1) - n = (i - n) + 1
            BY <1>1, <2>3
        <3>2. R[i] = Q[i - n] /\ R[i + 1] = Q[(i - n) + 1]
            BY <1>3, <3>1
        <3> QED
            BY <1>4, <3>1, <3>2
    <2> QED
        BY <1>1, <2>1, <2>2, <2>3
<1>7. Sectioned(R)
    BY <1>1, <1>2, <1>4, <1>5, <1>6 DEF Sectioned
<1> QED
    BY <1>7 DEF R

\* The handlers are such programs.
LEMMA ProgramsSectioned ==
    ASSUME NEW k \in Kinds
    PROVE  Sectioned(Program(k))
<1>1. Sectioned(Section)
    <2>1. /\ Section = <<"lock", "unlock">> /\ Len(Section) = 2
          /\ Section[1] = "lock" /\ Section[2] = "unlock"
        BY DEF Section
    <2>2. Section \in Seq(Operations)
        BY DEF Section, Operations
    <2> QED
        BY <2>1, <2>2 DEF Sectioned
<1>2. Sectioned(Call)
    <2>1. Call = <<"call">> /\ Len(Call) = 1 /\ Call[1] = "call"
        BY DEF Call
    <2>2. Call \in Seq(Operations)
        BY DEF Call, Operations
    <2> QED
        BY <2>1, <2>2 DEF Sectioned
<1>3. Sectioned(PlainProgram)
    BY <1>1 DEF PlainProgram
<1>4. Sectioned(ViewProgram)
    BY <1>1, SectionedConcat DEF ViewProgram
<1>5. Sectioned(FolderProgram)
    BY <1>1, <1>2, SectionedConcat DEF FolderProgram
<1>6. Sectioned(UploadProgram)
    BY <1>1, <1>2, SectionedConcat DEF UploadProgram
<1>7. Sectioned(NoteProgram)
    BY <1>1, <1>2, SectionedConcat DEF NoteProgram
<1> QED
    BY <1>3, <1>4, <1>5, <1>6, <1>7, LockAssumption DEF Program

\* What the request of handler k, at operation n, does next.
InSection(k, n) == k # Idle /\ Program(k)[n + 1] = "unlock"

PlacesOf(L, r) == {i \in 1 .. Len(L) : L[i] = r}

Stands(L, r) == \E i \in PlacesOf(L, r) : PlacesOf(L, r) = {i}

LockTypeOK ==
    /\ kind \in [Requests -> Kinds \cup {Idle}]
    /\ pc \in [Requests -> Nat]
    /\ line \in Seq(Requests)
    /\ \A r \in Requests :
         IF kind[r] = Idle THEN pc[r] = 0 ELSE pc[r] < Len(Program(kind[r]))

LockInv == LockTypeOK /\ HeldInSections

\* The invariant, request by request.
LEMMA HeldBy ==
    /\ HeldInSections <=>
         \A r \in Requests :
            IF InSection(kind[r], pc[r]) THEN Stands(line, r) ELSE PlacesOf(line, r) = {}
    /\ HeldInSections' <=>
         \A r \in Requests :
            IF InSection(kind'[r], pc'[r]) THEN Stands(line', r) ELSE PlacesOf(line', r) = {}
BY DEF HeldInSections, InSection, Stands, PlacesOf

\* One at the end of the line more.
LEMMA PlacesAppend ==
    ASSUME NEW L \in Seq(Requests), NEW r \in Requests, PlacesOf(L, r) = {}
    PROVE  /\ Append(L, r) \in Seq(Requests)
           /\ Stands(Append(L, r), r)
           /\ \A q \in Requests \ {r} : PlacesOf(Append(L, r), q) = PlacesOf(L, q)
<1> DEFINE A == Append(L, r)
           n == Len(L)
<1>1. /\ A \in Seq(Requests) /\ n \in Nat /\ Len(A) = n + 1
      /\ A[n + 1] = r /\ \A i \in 1 .. n : A[i] = L[i]
    OBVIOUS
<1> HIDE DEF A
<1>2. PlacesOf(A, r) = {n + 1} /\ n + 1 \in PlacesOf(A, r)
    BY <1>1 DEF PlacesOf
<1>3. \A q \in Requests \ {r} : PlacesOf(A, q) = PlacesOf(L, q)
    BY <1>1 DEF PlacesOf
<1> QED
    BY <1>1, <1>2, <1>3 DEF A, Stands

\* One less: the first, or one that leaves.
LEMMA PlacesLess ==
    ASSUME NEW L \in Seq(Requests), NEW r \in Requests, NEW k \in 1 .. Len(L), L[k] = r,
           Stands(L, r), NEW M \in Seq(Requests), Len(M) = Len(L) - 1,
           \A i \in 1 .. Len(M) : M[i] = IF i < k THEN L[i] ELSE L[i + 1]
    PROVE  /\ PlacesOf(M, r) = {}
           /\ \A q \in Requests \ {r} :
                 /\ Stands(L, q) => Stands(M, q)
                 /\ PlacesOf(L, q) = {} => PlacesOf(M, q) = {}
<1>1. Len(L) \in Nat /\ Len(M) \in Nat
    OBVIOUS
<1>2. PlacesOf(L, r) = {k}
    BY DEF Stands, PlacesOf
<1>3. PlacesOf(M, r) = {}
    BY <1>1, <1>2 DEF PlacesOf
<1>4. ASSUME NEW q \in Requests \ {r}, PlacesOf(L, q) = {} PROVE PlacesOf(M, q) = {}
    <2>1. \A j \in 1 .. Len(L) : L[j] # q
        BY <1>4 DEF PlacesOf
    <2>2. ASSUME NEW j \in 1 .. Len(M) PROVE M[j] # q
        <3>1. j \in 1 .. Len(L) /\ j + 1 \in 1 .. Len(L)
            BY <1>1
        <3> QED
            BY <2>1, <3>1
    <2> QED
        BY <2>2 DEF PlacesOf
<1>5. ASSUME NEW q \in Requests \ {r}, Stands(L, q) PROVE Stands(M, q)
    <2>1. PICK i \in 1 .. Len(L) : L[i] = q /\ PlacesOf(L, q) = {i}
        BY <1>5 DEF Stands, PlacesOf
    <2>2. i # k
        BY <2>1
    <2>3. \A j \in 1 .. Len(L) : L[j] = q => j = i
        BY <2>1 DEF PlacesOf
    <2> DEFINE h == IF i < k THEN i ELSE i - 1
    <2>4. h \in 1 .. Len(M) /\ M[h] = q
        BY <1>1, <2>1, <2>2
    <2>5. \A j \in 1 .. Len(M) : M[j] = q => j = h
        BY <1>1, <2>2, <2>3
    <2> HIDE DEF h
    <2>6. PlacesOf(M, q) = {h} /\ h \in PlacesOf(M, q)
        BY <2>4, <2>5 DEF PlacesOf
    <2> QED
        BY <2>6 DEF Stands
<1> QED
    BY <1>3, <1>4, <1>5

\* The line without its place k.
LEMMA LeaveAt ==
    ASSUME NEW L \in Seq(Requests), NEW k \in 1 .. Len(L)
    PROVE  LET M == SubSeq(L, 1, k - 1) \o SubSeq(L, k + 1, Len(L)) IN
           /\ M \in Seq(Requests) /\ Len(M) = Len(L) - 1
           /\ \A i \in 1 .. Len(M) : M[i] = IF i < k THEN L[i] ELSE L[i + 1]
<1> DEFINE A == SubSeq(L, 1, k - 1)
           B == SubSeq(L, k + 1, Len(L))
<1>1. Len(L) \in Nat /\ \A i \in 1 .. Len(L) : L[i] \in Requests
    OBVIOUS
<1>2. A \in Seq(Requests) /\ Len(A) = k - 1 /\ \A i \in 1 .. k - 1 : A[i] = L[i]
    BY <1>1, SubSeqProperties
<1>3. /\ B \in Seq(Requests) /\ Len(B) = Len(L) - k
      /\ \A i \in 1 .. Len(L) - k : B[i] = L[k + i]
    BY <1>1, SubSeqProperties
<1> HIDE DEF A, B
<1>4. /\ A \o B \in Seq(Requests) /\ Len(A \o B) = Len(L) - 1
      /\ \A i \in 1 .. Len(L) - 1 : (A \o B)[i] = IF i <= k - 1 THEN A[i] ELSE B[i - (k - 1)]
    BY <1>1, <1>2, <1>3, ConcatProperties
<1>5. \A i \in 1 .. Len(L) - 1 : (A \o B)[i] = IF i < k THEN L[i] ELSE L[i + 1]
    <2> SUFFICES ASSUME NEW i \in 1 .. Len(L) - 1
                 PROVE  (A \o B)[i] = IF i < k THEN L[i] ELSE L[i + 1]
        OBVIOUS
    <2>1. CASE i < k
        <3>1. i <= k - 1 /\ i \in 1 .. k - 1
            BY <2>1
        <3> QED
            BY <1>2, <1>4, <2>1, <3>1
    <2>2. CASE ~ (i < k)
        <3>1. ~ (i <= k - 1) /\ i - (k - 1) \in 1 .. Len(L) - k /\ k + (i - (k - 1)) = i + 1
            BY <1>1, <2>2
        <3>2. (A \o B)[i] = B[i - (k - 1)]
            BY <1>4, <3>1
        <3>3. B[i - (k - 1)] = L[k + (i - (k - 1))]
            BY <1>3, <3>1
        <3> QED
            BY <2>2, <3>1, <3>2, <3>3
    <2> QED
        BY <2>1, <2>2
<1> QED
    BY <1>4, <1>5 DEF A, B

\* How an operation leaves a program.
LEMMA NextOperation ==
    ASSUME NEW k \in Kinds, NEW n \in Nat, n < Len(Program(k))
    PROVE  /\ Len(Program(k)) \in Nat /\ ~ InSection(k, 0) /\ 0 < Len(Program(k))
           /\ Program(k)[n + 1] = "lock" =>
                 n + 1 < Len(Program(k)) /\ InSection(k, n + 1)
           /\ Program(k)[n + 1] # "lock" /\ n + 1 < Len(Program(k)) =>
                 ~ InSection(k, n + 1)
<1>1. PICK P : P = Program(k)
    OBVIOUS
<1>2. /\ Len(P) \in Nat \ {0} /\ P[1] # "unlock" /\ P[Len(P)] # "lock"
      /\ \A i \in 1 .. Len(P) - 1 : P[i] = "lock" <=> P[i + 1] = "unlock"
    BY <1>1, ProgramsSectioned DEF Sectioned
<1>3. k # Idle
    BY LockAssumption
<1>4. P[0 + 1] # "unlock"
    BY <1>2
<1>5. P[n + 1] = "lock" => n + 1 < Len(P) /\ P[(n + 1) + 1] = "unlock"
    BY <1>1, <1>2
<1>6. P[n + 1] # "lock" /\ n + 1 < Len(P) => P[(n + 1) + 1] # "unlock"
    BY <1>1, <1>2
<1> QED
    BY <1>1, <1>2, <1>3, <1>4, <1>5, <1>6 DEF InSection

\* A step of request r that leaves the other requests where they are and stand.
LEMMA HeldAfter ==
    ASSUME LockInv, NEW r \in Requests, NEW k \in Kinds \cup {Idle}, NEW n \in Nat,
           NEW M \in Seq(Requests),
           kind' = [kind EXCEPT ![r] = k], pc' = [pc EXCEPT ![r] = n], line' = M,
           IF k = Idle THEN n = 0 ELSE n < Len(Program(k)),
           IF InSection(k, n) THEN Stands(M, r) ELSE PlacesOf(M, r) = {},
           \A q \in Requests \ {r} :
              /\ Stands(line, q) => Stands(M, q)
              /\ PlacesOf(line, q) = {} => PlacesOf(M, q) = {}
    PROVE  LockInv'
<1>1. kind \in [Requests -> Kinds \cup {Idle}] /\ pc \in [Requests -> Nat]
    BY DEF LockInv, LockTypeOK
<1>2. /\ kind' \in [Requests -> Kinds \cup {Idle}] /\ pc' \in [Requests -> Nat]
      /\ kind'[r] = k /\ pc'[r] = n
      /\ \A q \in Requests \ {r} : kind'[q] = kind[q] /\ pc'[q] = pc[q]
    BY <1>1
<1>3. \A q \in Requests :
         IF kind'[q] = Idle THEN pc'[q] = 0 ELSE pc'[q] < Len(Program(kind'[q]))
    BY <1>2 DEF LockInv, LockTypeOK
<1>4. LockTypeOK'
    BY <1>2, <1>3 DEF LockTypeOK
<1>5. ASSUME NEW q \in Requests
      PROVE  IF InSection(kind'[q], pc'[q]) THEN Stands(line', q) ELSE PlacesOf(line', q) = {}
    <2>1. CASE q = r
        BY <1>2, <2>1
    <2>2. CASE q # r
        <3>1. IF InSection(kind[q], pc[q]) THEN Stands(line, q) ELSE PlacesOf(line, q) = {}
            BY HeldBy DEF LockInv
        <3> QED
            BY <1>2, <2>2, <3>1
    <2> QED
        BY <2>1, <2>2
<1> QED
    BY <1>4, <1>5, HeldBy DEF LockInv

\* Every step keeps the invariant.
LEMMA LockStep ==
    ASSUME LockInv, NEW r \in Requests,
           (\E k \in Kinds : Arrive(r, k)) \/ Lock(r) \/ Unlock(r) \/ Answered(r) \/ Drop(r)
    PROVE  LockInv'
<1>1. /\ kind \in [Requests -> Kinds \cup {Idle}] /\ pc \in [Requests -> Nat]
      /\ line \in Seq(Requests)
      /\ IF kind[r] = Idle THEN pc[r] = 0 ELSE pc[r] < Len(Program(kind[r]))
      /\ IF InSection(kind[r], pc[r]) THEN Stands(line, r) ELSE PlacesOf(line, r) = {}
    BY HeldBy DEF LockInv, LockTypeOK
<1>2. PICK L : L = line
    OBVIOUS
<1>3. PICK k : k = kind[r]
    OBVIOUS
<1>4. PICK n : n = pc[r]
    OBVIOUS
<1>5. L \in Seq(Requests) /\ n \in Nat /\ k \in Kinds \cup {Idle} /\ Idle \notin Kinds
    BY <1>1, <1>2, <1>3, <1>4, LockAssumption
\* The operation of a program.
<1>6. ASSUME NEW o, Op(r, o)
      PROVE  /\ k \in Kinds /\ n < Len(Program(k)) /\ Program(k)[n + 1] = o /\ ~ Waiting(r)
             /\ \E h \in Kinds \cup {Idle}, m \in Nat :
                   /\ kind' = [kind EXCEPT ![r] = h] /\ pc' = [pc EXCEPT ![r] = m]
                   /\ IF h = Idle THEN m = 0 ELSE m < Len(Program(h))
                   /\ InSection(h, m) <=> o = "lock"
    <2>1. k \in Kinds /\ n < Len(Program(k)) /\ Program(k)[n + 1] = o /\ ~ Waiting(r)
        BY <1>1, <1>3, <1>4, <1>5, <1>6 DEF Op
    <2>2. CASE n + 1 = Len(Program(k))
        <3>1. kind' = [kind EXCEPT ![r] = Idle] /\ pc' = [pc EXCEPT ![r] = 0]
            BY <1>3, <1>4, <1>6, <2>2 DEF Op
        <3>2. ~ InSection(Idle, 0)
            BY DEF InSection
        <3>3. o # "lock"
            BY <1>5, <2>1, <2>2, NextOperation
        <3> QED
            BY <2>1, <3>1, <3>2, <3>3
    <2>3. CASE n + 1 # Len(Program(k))
        <3>1. pc' = [pc EXCEPT ![r] = n + 1] /\ kind' = kind
            BY <1>3, <1>4, <1>6, <2>3 DEF Op
        <3>2. kind' = [kind EXCEPT ![r] = k]
            BY <1>1, <1>3, <3>1
        <3>3. Len(Program(k)) \in Nat /\ n + 1 < Len(Program(k))
            BY <1>5, <2>1, <2>3, NextOperation
        <3>4. InSection(k, n + 1) <=> o = "lock"
            BY <1>5, <2>1, <3>3, NextOperation
        <3> QED
            <4>1. PICK m \in Nat : m = n + 1
                BY <1>5
            <4>2. PICK h \in Kinds \cup {Idle} : h = k
                BY <1>5
            <4>3. /\ kind' = [kind EXCEPT ![r] = h] /\ pc' = [pc EXCEPT ![r] = m]
                  /\ IF h = Idle THEN m = 0 ELSE m < Len(Program(h))
                  /\ InSection(h, m) <=> o = "lock"
                BY <1>5, <2>1, <3>1, <3>2, <3>3, <3>4, <4>1, <4>2
            <4> QED
                BY <2>1, <4>3
    <2> QED
        BY <2>2, <2>3
<1>7. ASSUME NEW h \in Kinds, Arrive(r, h) PROVE LockInv'
    <2>1. k = Idle /\ n = 0 /\ line' = L
        BY <1>1, <1>2, <1>3, <1>4, <1>7 DEF Arrive
    <2>2. kind' = [kind EXCEPT ![r] = h] /\ pc' = [pc EXCEPT ![r] = 0]
        BY <1>1, <1>4, <1>7, <2>1 DEF Arrive
    <2>3. PlacesOf(L, r) = {}
        BY <1>1, <1>2, <1>3, <1>4, <2>1 DEF InSection
    <2>4. 0 < Len(Program(h)) /\ ~ InSection(h, 0)
        <3>1. Len(Program(h)) \in Nat \ {0}
            BY ProgramsSectioned DEF Sectioned
        <3>2. 0 < Len(Program(h))
            BY <3>1
        <3> QED
            BY <3>2, NextOperation
    <2> QED
        BY <1>2, <1>5, <2>1, <2>2, <2>3, <2>4, HeldAfter
<1>8. CASE Lock(r)
    <2>1. PICK h \in Kinds \cup {Idle}, m \in Nat :
             /\ kind' = [kind EXCEPT ![r] = h] /\ pc' = [pc EXCEPT ![r] = m]
             /\ IF h = Idle THEN m = 0 ELSE m < Len(Program(h))
             /\ InSection(h, m)
        BY <1>6, <1>8 DEF Lock
    <2>2. Program(k)[n + 1] = "lock" /\ line' = Append(L, r)
        BY <1>2, <1>6, <1>8 DEF Lock
    <2>3. PlacesOf(L, r) = {}
        BY <1>1, <1>2, <1>3, <1>4, <2>2 DEF InSection
    <2>4. /\ Append(L, r) \in Seq(Requests) /\ Stands(Append(L, r), r)
          /\ \A q \in Requests \ {r} : PlacesOf(Append(L, r), q) = PlacesOf(L, q)
        BY <1>5, <2>3, PlacesAppend
    <2>5. PICK M : M = Append(L, r)
        OBVIOUS
    <2>6. \A q \in Requests \ {r} :
             /\ Stands(line, q) => Stands(M, q)
             /\ PlacesOf(line, q) = {} => PlacesOf(M, q) = {}
        BY <1>2, <2>4, <2>5 DEF Stands
    <2> QED
        BY <2>1, <2>2, <2>4, <2>5, <2>6, HeldAfter
<1>9. CASE Unlock(r)
    <2>1. PICK h \in Kinds \cup {Idle}, m \in Nat :
             /\ kind' = [kind EXCEPT ![r] = h] /\ pc' = [pc EXCEPT ![r] = m]
             /\ IF h = Idle THEN m = 0 ELSE m < Len(Program(h))
             /\ ~ InSection(h, m)
        BY <1>6, <1>9 DEF Unlock
    <2>2. /\ Program(k)[n + 1] = "unlock" /\ ~ Waiting(r) /\ line' = Tail(L) /\ k # Idle
        BY <1>2, <1>5, <1>6, <1>9 DEF Unlock
    <2>3. Stands(L, r)
        BY <1>1, <1>2, <1>3, <1>4, <2>2 DEF InSection
    <2>4. 1 \in 1 .. Len(L) /\ L[1] = r /\ L # <<>>
        <3>1. PICK i \in 1 .. Len(L) : L[i] = r
            BY <2>3 DEF Stands, PlacesOf
        <3>2. Len(L) \in Nat
            BY <1>5
        <3>3. i \notin 2 .. Len(L)
            BY <1>2, <2>2, <3>1 DEF Waiting
        <3>4. i = 1
            BY <3>1, <3>2, <3>3
        <3> QED
            BY <1>5, <3>1, <3>2, <3>4
    <2>5. PICK M : M = Tail(L)
        OBVIOUS
    <2>6. /\ M \in Seq(Requests) /\ Len(M) = Len(L) - 1
          /\ \A i \in 1 .. Len(M) : M[i] = IF i < 1 THEN L[i] ELSE L[i + 1]
        BY <1>5, <2>4, <2>5, HeadTailProperties
    <2>7. /\ PlacesOf(M, r) = {}
          /\ \A q \in Requests \ {r} :
                /\ Stands(L, q) => Stands(M, q)
                /\ PlacesOf(L, q) = {} => PlacesOf(M, q) = {}
        BY <1>5, <2>3, <2>4, <2>6, PlacesLess
    <2> QED
        BY <1>2, <2>1, <2>2, <2>5, <2>6, <2>7, HeldAfter
<1>10. CASE Answered(r)
    <2>1. PICK h \in Kinds \cup {Idle}, m \in Nat :
             /\ kind' = [kind EXCEPT ![r] = h] /\ pc' = [pc EXCEPT ![r] = m]
             /\ IF h = Idle THEN m = 0 ELSE m < Len(Program(h))
             /\ ~ InSection(h, m)
        BY <1>6, <1>10 DEF Answered
    <2>2. Program(k)[n + 1] = "call" /\ line' = L
        BY <1>2, <1>6, <1>10 DEF Answered
    <2>3. PlacesOf(L, r) = {}
        BY <1>1, <1>2, <1>3, <1>4, <2>2 DEF InSection
    <2> QED
        BY <1>2, <1>5, <2>1, <2>2, <2>3, HeldAfter
<1>11. CASE Drop(r)
    <2>1. kind' = [kind EXCEPT ![r] = Idle] /\ pc' = [pc EXCEPT ![r] = 0]
        BY <1>11 DEF Drop
    <2>2. ~ InSection(Idle, 0)
        BY DEF InSection
    <2>3. CASE line' = L /\ \A i \in 1 .. Len(L) : L[i] # r
        <3>1. PlacesOf(L, r) = {}
            BY <2>3 DEF PlacesOf
        <3> QED
            BY <1>2, <1>5, <2>1, <2>2, <2>3, <3>1, HeldAfter
    <2>4. ASSUME NEW i \in 1 .. Len(L), L[i] = r,
                 line' = SubSeq(L, 1, i - 1) \o SubSeq(L, i + 1, Len(L))
          PROVE  LockInv'
        <3>1. PICK M : M = SubSeq(L, 1, i - 1) \o SubSeq(L, i + 1, Len(L))
            OBVIOUS
        <3>2. /\ M \in Seq(Requests) /\ Len(M) = Len(L) - 1
              /\ \A j \in 1 .. Len(M) : M[j] = IF j < i THEN L[j] ELSE L[j + 1]
            BY <1>5, <3>1, LeaveAt
        <3>3. Stands(L, r)
            <4>1. i \in PlacesOf(L, r)
                BY <2>4 DEF PlacesOf
            <4> QED
                BY <1>1, <1>2, <4>1
        <3>4. /\ PlacesOf(M, r) = {}
              /\ \A q \in Requests \ {r} :
                    /\ Stands(L, q) => Stands(M, q)
                    /\ PlacesOf(L, q) = {} => PlacesOf(M, q) = {}
            BY <1>5, <2>4, <3>2, <3>3, PlacesLess
        <3> QED
            BY <1>2, <2>1, <2>2, <2>4, <3>1, <3>2, <3>4, HeldAfter
    <2> QED
        BY <1>2, <1>11, <2>3, <2>4 DEF Drop
<1> QED
    BY <1>7, <1>8, <1>9, <1>10, <1>11

\* Nobody holds the connection at the start.
LEMMA LockInitInv == LockInit => LockInv
<1> SUFFICES ASSUME LockInit PROVE LockInv
    OBVIOUS
<1>1. LockTypeOK
    BY DEF LockInit, LockTypeOK
<1>2. ASSUME NEW r \in Requests
      PROVE  IF InSection(kind[r], pc[r]) THEN Stands(line, r) ELSE PlacesOf(line, r) = {}
    <2>1. kind[r] = Idle /\ PlacesOf(line, r) = {}
        BY DEF LockInit, PlacesOf
    <2> QED
        BY <2>1 DEF InSection
<1> QED
    BY <1>1, <1>2, HeldBy DEF LockInv

\* The invariant of the connection.
THEOREM LockInvCorrect == LockSpec => []LockInv
<1>1. LockInv /\ [LockNext]_lockVars => LockInv'
    <2> SUFFICES ASSUME LockInv, [LockNext]_lockVars PROVE LockInv'
        OBVIOUS
    <2>1. CASE UNCHANGED lockVars
        BY <2>1, HeldBy DEF LockInv, LockTypeOK, lockVars
    <2>2. CASE LockNext
        BY <2>2, LockStep DEF LockNext
    <2> QED
        BY <2>1, <2>2
<1> QED
    BY <1>1, LockInitInv, PTL DEF LockSpec

\* Those in line for the connection are the requests inside a section, each once: no
\* handler keeps it over a call out of the process or asks for it twice (db.rs).
THEOREM HeldInSectionsCorrect == LockSpec => []HeldInSections
<1>1. LockInv => HeldInSections
    BY DEF LockInv
<1> QED
    BY LockInvCorrect, <1>1, PTL
=============================================================================
