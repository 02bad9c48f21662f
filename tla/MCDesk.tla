------------------------------- MODULE MCDesk -------------------------------
(***************************************************************************)
(* Small instances of the parts that share no state: plan limits, contact  *)
(* requests, chat sessions, the connection, the duplicate search, the      *)
(* migration and the start of the server.  A behavior is about one part,   *)
(* the variables of the others stay as they begin.                         *)
(***************************************************************************)
EXTENDS ClannServer, ContactRequests, AssistantHandlers, ConnectionLock,
        DuplicateSearch, MigrateProxy, StartupSeed

CONSTANTS
    Parts,
    PlanProxies,    \* proxies of the part about plans
    t1, c1, c2, p1, alice,
    n1, n2, n3, v1, \* persons and an event to migrate
    dub, lin, co    \* syllables

VARIABLE part

LimitOne == [u \in Callers |-> 1]
LimitTwo == [u \in Callers |-> 2]
NoTeamOwner == {}

MCBirths == {<<1, 8, 5, 0>>, <<1, 8, 5, 1>>, <<0, 3, Gap, 1, 8, 5, 0>>,
             <<1, 8, 5, 1, 1, 8, 5, 0>>, <<Gap, co>>}
MCPlaces == {<<>>, <<co>>, <<dub, lin>>, <<dub, lin, Gap, co>>,
             <<lin, dub, Gap, dub, lin>>, <<co, Gap, lin, dub>>}

MCTreesOf == n1 :> {1, 2} @@ n2 :> {2} @@ n3 :> {1, 2}
MCOldEdges == {[rel |-> "has_sibling", from |-> n1, to |-> n2, via |-> n3]}
MCEventPerson == v1 :> n1

\* The births of one proxy, and everybody's marriages.
MCSeedKinds == {<<1, "Birth">>} \cup SeedProxies \X {"Marriage"}

\* Contacts are between the proxies of two persons in one tree: one that alice
\* created, one whose creator is not recorded.
MCStoreInit ==
    IF part = "contact"
    THEN /\ trees = [t \in TreeNames |->
                IF t = t1 THEN [owner |-> alice, primary |-> TRUE, team |-> NoTeam]
                ELSE Absent]
         /\ person = [c \in PersonIds |-> [creator |-> Nobody, cert |-> NoCert]]
         /\ proxy = [p \in ProxyIds |->
                [person |-> IF p = p1 THEN c1 ELSE c2, tree |-> t1,
                 creator |-> IF p = p1 THEN alice ELSE Nobody]]
         /\ issued = PersonIds \cup ProxyIds
         /\ editors = {} /\ edges = {}
         /\ lifeEvent = [e \in EventIds |-> Absent]
         /\ proposal = [m \in ProposalIds |-> Absent]
    ELSE Init

MCInit ==
    /\ part \in Parts
    /\ MCStoreInit /\ ContactInit /\ AssistantInit /\ LockInit
    /\ SearchInit /\ MigrateInit /\ SeedInit
    /\ part # "search" => described[1].sex = "Male" /\ described[1].name = EmptyName

Plan == INSTANCE ClannServer WITH ProxyIds <- PlanProxies

deskVars == <<vars, contactVars, assistantVars, lockVars, described, migrateVars,
              seedVars>>

MCNext ==
    /\ UNCHANGED part
    /\ \/ /\ part = "plan" /\ Plan!Next
          /\ UNCHANGED <<contactVars, assistantVars, lockVars, described,
                         migrateVars, seedVars>>
       \/ /\ part = "contact" /\ ContactNext
          /\ UNCHANGED <<assistantVars, lockVars, described, migrateVars, seedVars>>
       \/ /\ part = "chat" /\ AssistantNext
          /\ UNCHANGED <<vars, contactVars, lockVars, described, migrateVars, seedVars>>
       \/ /\ part = "lock" /\ LockNext
          /\ UNCHANGED <<vars, contactVars, assistantVars, described, migrateVars,
                         seedVars>>
       \/ /\ part = "search" /\ SearchNext
          /\ UNCHANGED <<vars, contactVars, assistantVars, lockVars, migrateVars,
                         seedVars>>
       \/ /\ part = "migrate" /\ MigrateNext
          /\ UNCHANGED <<vars, contactVars, assistantVars, lockVars, described, seedVars>>
       \/ /\ part = "start" /\ SeedNext
          /\ UNCHANGED <<vars, contactVars, assistantVars, lockVars, described,
                         migrateVars>>

MCSpec == MCInit /\ [][MCNext]_<<part, deskVars>> /\ LockFairness
=============================================================================
