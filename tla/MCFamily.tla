------------------------------ MODULE MCFamily ------------------------------
(***************************************************************************)
(* Small instances about relationships: one caller who may write           *)
(* everything, and persons who are there from the start, all but one in    *)
(* the first tree.  Nothing is created but edges.  A behavior is about     *)
(* marriages, about parents and siblings, or about the reading of a family *)
(* while its edges change.                                                 *)
(***************************************************************************)
EXTENDS ClannClaims, FamilyView, TLC

CONSTANTS
    Parts, Owner, HomeTree, Stranger, Reader,
    KinProxies,  \* proxies that get parents and siblings
    KinRels,     \* their relationship tables
    ReadProxies, \* proxies whose family is read
    MaxEdges,    \* edges recorded at a time, marriages apart
    MaxChanges   \* edges changed during a view

VARIABLE part

\* Every caller unlimited.
NoLimit == [u \in Callers |-> Unlimited]
\* Nobody owns a team.
NoTeamOwner == {}

PersonFor == CHOOSE f \in [ProxyIds -> PersonIds] :
    \A p, q \in ProxyIds : f[p] = f[q] => p = q

EdgeOf(rel, p, q) ==
    [rel |-> rel, in |-> p, out |-> q, via |-> Nobody, since |-> NoDate,
     pedigree |-> IF rel = "has_spouse" THEN Nobody ELSE "birth"]

\* Edges a family may have when it is read.
ReadEdges ==
    {e \in {EdgeOf(rel, p, q) : rel \in ParentRels, p, q \in ReadProxies} : e.in # e.out}
    \cup {EdgeOf("has_spouse", Reader, q) : q \in ReadProxies \ {Reader}}
    \cup {EdgeOf("has_sibling", q, Reader) : q \in ReadProxies \ {Reader}}

MCInit ==
    /\ part \in Parts
    /\ trees = [t \in TreeNames |->
                   [owner |-> Owner, primary |-> FALSE, team |-> NoTeam]]
    /\ editors = {}
    /\ IF part = "view"
       THEN \E S \in {T \in SUBSET ReadEdges : Cardinality(T) <= MaxEdges} : edges = S
       ELSE edges = {}
    /\ issued = PersonIds \cup ProxyIds
    /\ person = [c \in PersonIds |-> [creator |-> Nobody, cert |-> NoCert]]
    /\ \E away \in TreeNames \ {HomeTree} :
          proxy = [p \in ProxyIds |->
              [person |-> PersonFor[p],
               tree |-> IF p = Stranger THEN away ELSE HomeTree,
               creator |-> Nobody]]
    /\ lifeEvent = [e \in EventIds |-> Absent]
    /\ proposal = [m \in ProposalIds |-> Absent]
    /\ view = Absent

Wed == INSTANCE ClannServer WITH Rels <- {"has_spouse"}
Kin == INSTANCE ClannServer WITH Rels <- KinRels, ProxyIds <- KinProxies

Marriage ==
    \/ Wed!RelationshipStep(NoAuth)
    \/ \E t \in TreeNames : DeleteTree(t)
    \/ \E p \in ProxyIds : DeletePerson(NoAuth, p, FALSE)
    \/ \E p \in ProxyIds : RemovePersonFromTree(NoAuth, p)
    \/ \E l, s \in ProxyIds : CollapseSameTree(NoAuth, l, s, FALSE)
    \/ Wed!Interrupted(NoAuth)

Kinship ==
    \/ Kin!RelationshipStep(NoAuth) /\ Cardinality(edges') <= MaxEdges
    \/ \E t \in TreeNames : DeleteTree(t)
    \/ \E p \in KinProxies : DeletePerson(NoAuth, p, FALSE)
    \/ \E p \in KinProxies : RemovePersonFromTree(NoAuth, p)
    \/ \E l, s \in KinProxies : CollapseSameTree(NoAuth, l, s, FALSE)
    \/ Kin!Interrupted(NoAuth)

\* Somebody changes edges while a family is read.
Change ==
    \/ \E p \in ReadProxies : \E q \in ReadProxies \ {p}, rel \in ParentRels :
          AddParent(NoAuth, p, q, rel, "birth")
    \/ \E e \in edges : e.rel \in ParentRels /\ DeleteRelationship(NoAuth, e.in, e.out, e.rel)
    \/ \E p \in ReadProxies : DeletePerson(NoAuth, p, FALSE)

Reading ==
    \/ StartView(Reader) \/ AskRoot \/ AskParent \/ EndView
    \/ /\ view # Absent
       /\ Meanwhile(Change)
       /\ Cardinality(edges') <= MaxEdges
       /\ Cardinality(view'.ever \ view'.kept) <= MaxChanges

MCNext ==
    /\ UNCHANGED part
    /\ \/ part = "marriage" /\ Marriage /\ UNCHANGED view
       \/ part = "kin" /\ Kinship /\ UNCHANGED view
       \/ part = "view" /\ Reading

MCSpec == MCInit /\ [][MCNext]_<<part, vars, view>>
=============================================================================
