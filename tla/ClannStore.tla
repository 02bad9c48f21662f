----------------------------- MODULE ClannStore -----------------------------
(***************************************************************************)
(* The SurrealDB tables of clann-server that the person and tree handlers  *)
(* share, with the unique indexes, row filters and write checks the        *)
(* handlers use on them.                                                   *)
(*                                                                         *)
(* A handler holds the connection mutex (db.rs: Db = Arc<Mutex<..>>) from  *)
(* its first query to its reply, so no other handler sees the tables       *)
(* between two of its queries.  Its queries are not a transaction though:  *)
(* when the process dies, the connection drops or the client goes away,    *)
(* the queries already sent stay applied.  A handler is therefore one      *)
(* action with a parameter that says how far it got.                       *)
(***************************************************************************)
EXTENDS Naturals, FiniteSets

CONSTANTS
    TreeNames,    \* names (slugs) of family trees
    PersonIds,    \* record ids of canonical persons
    ProxyIds,     \* record ids of person proxies
    EventIds,     \* record ids of life events
    ProposalIds,  \* record ids of merge proposals
    Users,        \* users; a username and a user id are one identity here
    Teams,        \* teams of the user-management service
    Certs,        \* birth certificates (authority and number together)
    Dates,        \* values of a spouse edge's date fields
    Rels,         \* relationship tables in use
    NoAuth,       \* the caller when no token validator is configured
    Admin,        \* the user named by ADMIN_USERNAME
    TeamOwners,   \* <<user, team>>: the user's token carries role "owner"
    TreeLimit,    \* trees a caller's plan allows
    MemberLimit,  \* persons a caller's plan allows
    Unlimited,    \* a plan without the limit
    EmptyCountIsZero, \* see DeleteTree in TreeHandlers
    Nobody, NoTeam, NoCert, NoDate, \* the NONE of the optional columns
    Absent        \* no row

Callers == Users \cup {NoAuth}

RelTables == {"has_father", "has_mother", "has_sibling", "has_spouse"}
ParentRels == {"has_father", "has_mother"}
Pedigrees == {"birth", "half", "adopted"}
Statuses == {"pending", "accepted", "rejected"}

TreeRow == [owner: Users, primary: BOOLEAN, team: Teams \cup {NoTeam}]
PersonRow == [creator: Users \cup {Nobody}, cert: Certs \cup {NoCert}]
ProxyRow == [person: PersonIds, tree: TreeNames, creator: Users \cup {Nobody}]
EventRow == [proxy: ProxyIds, tree: TreeNames, canonical: BOOLEAN]
ProposalRow == [from: ProxyIds, to: ProxyIds, status: Statuses]
\* pedigree is NONE on a spouse edge; via (has_sibling.via_parent_id) and
\* since (spouse_from, spouse_to) are NONE on the tables without the column.
EdgeRow == [rel: RelTables, in: ProxyIds, out: ProxyIds,
            pedigree: Pedigrees \cup {Nobody},
            via: ProxyIds \cup {Nobody}, since: Dates \cup {NoDate}]

RecordIds == PersonIds \cup ProxyIds \cup EventIds \cup ProposalIds

ASSUME NoRowAssumption ==
    /\ Absent \notin TreeRow
    /\ Absent \notin PersonRow
    /\ Absent \notin ProxyRow
    /\ Absent \notin EventRow
    /\ Absent \notin ProposalRow

ASSUME OptionAssumption ==
    /\ Nobody \notin Users \cup ProxyIds \cup Pedigrees
    /\ NoTeam \notin Teams
    /\ NoCert \notin Certs
    /\ NoDate \notin Dates
    /\ NoAuth \notin Users

\* Record ids of different tables differ: they carry the table's name.
ASSUME RecordIdAssumption ==
    /\ PersonIds \cap ProxyIds = {}
    /\ PersonIds \cap EventIds = {}
    /\ PersonIds \cap ProposalIds = {}
    /\ ProxyIds \cap EventIds = {}
    /\ ProxyIds \cap ProposalIds = {}
    /\ EventIds \cap ProposalIds = {}

ASSUME PlanAssumption ==
    /\ Unlimited \notin Nat
    /\ TreeLimit \in [Callers -> Nat \cup {Unlimited}]
    /\ MemberLimit \in [Callers -> Nat \cup {Unlimited}]
    /\ TeamOwners \subseteq Users \X Teams
    /\ Rels \subseteq RelTables
    /\ EmptyCountIsZero \in BOOLEAN

VARIABLES
    trees,     \* family_tree, by its unique name
    editors,   \* tree_editor: grants <<tree name, user>>
    person,    \* person: canonical persons
    proxy,     \* person_proxy
    edges,     \* has_father, has_mother, has_sibling, has_spouse
    lifeEvent, \* life_event
    proposal,  \* person_merge_proposal
    issued     \* record ids handed out so far; an id is never handed out twice

vars == <<trees, editors, person, proxy, edges, lifeEvent, proposal, issued>>
-----------------------------------------------------------------------------
Live(table) == {k \in DOMAIN table : table[k] # Absent}

\* An id generator that looks for an id no row has any more.
Unused(ids) ==
    ids \ (Live(person) \cup Live(proxy) \cup Live(lifeEvent) \cup Live(proposal))

Fresh(ids) == ids \ issued

ProxiesOf(c) == {p \in Live(proxy) : proxy[p].person = c}

\* A tree's proxies, as two slips in the query would give them: those its
\* owner created, and those of all persons who have one in it.
ProxiesByOwnerIn(t) ==
    {p \in Live(proxy) : proxy[p].tree = t /\ proxy[p].creator = trees[t].owner}
ProxiesOfPersonsIn(t) ==
    {p \in Live(proxy) :
        \E q \in ProxiesOf(proxy[p].person) : proxy[q].tree = t}

ProxiesIn(t) == {p \in Live(proxy) : proxy[p].tree = t}

Dropped(table, keys) ==
    [k \in DOMAIN table |-> IF k \in keys THEN Absent ELSE table[k]]

\* A membership check that asks for the person only.
ProxySlotOfPerson(c, t) == t \in Live(trees) /\ c \notin Fresh(PersonIds)

\* unique_proxy_canonical_tree: may a proxy of c be created in tree t?
ProxySlotFree(c, t) ==
    \A p \in Live(proxy) : ~(proxy[p].person = c /\ proxy[p].tree = t)

\* A check at creation that a correction forgets.
CertFreeAtCreation(cert, c) ==
    cert = NoCert \/ c \in Live(person)
        \/ \A d \in Live(person) : person[d].cert # cert

\* unique_birth_cert: rows without a certificate are outside the index.
CertFree(cert, c) ==
    cert = NoCert \/ \A d \in Live(person) \ {c} : person[d].cert # cert

\* fetch_proxy_and_canonical answers with both records, or 404.
Fetchable(p) == p \in Live(proxy) /\ proxy[p].person \in Live(person)

\* The DELETE batch a handler sends for the proxies it removes.
EdgesWithout(ps) == {e \in edges : e.in \notin ps /\ e.out \notin ps}
\* A batch that spares the events shared beyond the tree.
PrivateEventsOf(ps) ==
    {e \in Live(lifeEvent) : lifeEvent[e].proxy \in ps /\ ~lifeEvent[e].canonical}

EventsOf(ps) == {e \in Live(lifeEvent) : lifeEvent[e].proxy \in ps}

CascadeProxies(ps) ==
    /\ edges' = EdgesWithout(ps)
    /\ lifeEvent' = Dropped(lifeEvent, EventsOf(ps))
    /\ proxy' = Dropped(proxy, ps)

IsTreeEditor(u, t) == <<t, u>> \in editors

IsTeamOwner(u, t) == <<u, trees[t].team>> \in TeamOwners

CanWriteToProxy(u, p) ==
    \/ u = NoAuth
    \/ u = Admin
    \/ proxy[p].creator = u
    \/ proxy[p].tree \in Live(trees) /\ IsTeamOwner(u, proxy[p].tree)
    \/ IsTreeEditor(u, proxy[p].tree)
-----------------------------------------------------------------------------
Init ==
    /\ trees = [t \in TreeNames |-> Absent]
    /\ editors = {}
    /\ person = [c \in PersonIds |-> Absent]
    /\ proxy = [p \in ProxyIds |-> Absent]
    /\ edges = {}
    /\ lifeEvent = [e \in EventIds |-> Absent]
    /\ proposal = [m \in ProposalIds |-> Absent]
    /\ issued = {}

\* Every table holds rows of its schema, and only ids that were handed out.
TypeOK ==
    /\ trees \in [TreeNames -> TreeRow \cup {Absent}]
    /\ editors \subseteq TreeNames \X Users
    /\ person \in [PersonIds -> PersonRow \cup {Absent}]
    /\ proxy \in [ProxyIds -> ProxyRow \cup {Absent}]
    /\ edges \subseteq EdgeRow
    /\ lifeEvent \in [EventIds -> EventRow \cup {Absent}]
    /\ proposal \in [ProposalIds -> ProposalRow \cup {Absent}]
    /\ issued \subseteq RecordIds
=============================================================================
