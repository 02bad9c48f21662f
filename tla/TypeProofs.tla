----------------------------- MODULE TypeProofs -----------------------------
(***************************************************************************)
(* Every handler, complete or cut off, keeps the rows of all tables within *)
(* the schema: TypeOK is an invariant of ClannServer for all constants.    *)
(* One lemma per handler; the handlers that only use an operator of a      *)
(* table share a lemma on the operator.                                    *)
(***************************************************************************)
EXTENDS ClannServer, TLAPS

\* Removing rows leaves a table of the same rows.
LEMMA DroppedType ==
    ASSUME NEW D, NEW R, NEW table \in [D -> R \cup {Absent}], NEW keys
    PROVE  Dropped(table, keys) \in [D -> R \cup {Absent}]
BY DEF Dropped

\* The DELETE batch for some proxies leaves its three tables well typed.
LEMMA CascadeType ==
    ASSUME TypeOK, NEW ps, CascadeProxies(ps)
    PROVE  /\ edges' \subseteq EdgeRow
           /\ lifeEvent' \in [EventIds -> EventRow \cup {Absent}]
           /\ proxy' \in [ProxyIds -> ProxyRow \cup {Absent}]
<1>1. edges' \subseteq EdgeRow
    BY DEF TypeOK, CascadeProxies, EdgesWithout
<1>2. lifeEvent' \in [EventIds -> EventRow \cup {Absent}]
    BY DroppedType DEF TypeOK, CascadeProxies
<1>3. proxy' \in [ProxyIds -> ProxyRow \cup {Absent}]
    BY DroppedType DEF TypeOK, CascadeProxies
<1> QED
    BY <1>1, <1>2, <1>3

\* A row that is there is a row of the schema.
LEMMA LiveRows ==
    ASSUME TypeOK
    PROVE  /\ \A t \in Live(trees) : t \in TreeNames /\ trees[t] \in TreeRow
           /\ \A c \in Live(person) : c \in PersonIds /\ person[c] \in PersonRow
           /\ \A p \in Live(proxy) : p \in ProxyIds /\ proxy[p] \in ProxyRow
           /\ \A e \in Live(lifeEvent) :
                  e \in EventIds /\ lifeEvent[e] \in EventRow
           /\ \A m \in Live(proposal) :
                  m \in ProposalIds /\ proposal[m] \in ProposalRow
BY DEF TypeOK, Live
-----------------------------------------------------------------------------
(* Trees and editors.                                                      *)

\* The primary flag of a row may be set either way.
LEMMA PrimarySet ==
    ASSUME NEW r \in TreeRow, NEW b \in BOOLEAN
    PROVE  /\ [r EXCEPT !.primary = b] \in TreeRow
           /\ [r EXCEPT !.primary = b].owner = r.owner
           /\ [r EXCEPT !.primary = b].primary = b
BY DEF TreeRow

\* Clearing an owner's primary flags leaves trees of the same names, owners
\* and teams, and none of the owner's is primary.
LEMMA WithoutPrimaryRows ==
    ASSUME TypeOK, NEW o
    PROVE  /\ WithoutPrimary(o) \in [TreeNames -> TreeRow \cup {Absent}]
           /\ Live(WithoutPrimary(o)) = Live(trees)
           /\ \A t \in Live(trees) :
                 /\ WithoutPrimary(o)[t] \in TreeRow
                 /\ WithoutPrimary(o)[t].owner = trees[t].owner
                 /\ WithoutPrimary(o)[t].primary
                        = (trees[t].owner # o /\ trees[t].primary)
<1>1. ASSUME NEW t \in TreesOwnedBy(o)
      PROVE  /\ WithoutPrimary(o)[t] \in TreeRow
             /\ WithoutPrimary(o)[t].owner = trees[t].owner
             /\ WithoutPrimary(o)[t].primary = FALSE
    <2>1. t \in TreeNames /\ trees[t] \in TreeRow
        BY <1>1, LiveRows DEF TreesOwnedBy
    <2>2. WithoutPrimary(o)[t] = [trees[t] EXCEPT !.primary = FALSE]
        BY <1>1, <2>1 DEF WithoutPrimary
    <2> QED
        BY <2>1, <2>2, PrimarySet
<1>2. ASSUME NEW t \in TreeNames, t \notin TreesOwnedBy(o)
      PROVE  WithoutPrimary(o)[t] = trees[t]
    BY <1>2 DEF WithoutPrimary
<1>3. DOMAIN WithoutPrimary(o) = TreeNames
    BY DEF WithoutPrimary
<1>4. WithoutPrimary(o) \in [TreeNames -> TreeRow \cup {Absent}]
    <2>1. \A t \in TreeNames : WithoutPrimary(o)[t] \in TreeRow \cup {Absent}
        BY <1>1, <1>2 DEF TypeOK
    <2>2. WithoutPrimary(o) = [t \in TreeNames |-> WithoutPrimary(o)[t]]
        BY DEF WithoutPrimary
    <2> QED
        BY <2>1, <2>2
<1>5. Live(WithoutPrimary(o)) = Live(trees)
    <2>1. \A t \in TreesOwnedBy(o) : WithoutPrimary(o)[t] # Absent
        BY <1>1, NoRowAssumption
    <2>2. \A t \in TreesOwnedBy(o) : trees[t] # Absent
        BY DEF TreesOwnedBy, Live
    <2> QED
        BY <1>2, <1>3, <2>1, <2>2 DEF Live, TypeOK
<1>6. ASSUME NEW t \in Live(trees)
      PROVE  /\ WithoutPrimary(o)[t] \in TreeRow
             /\ WithoutPrimary(o)[t].owner = trees[t].owner
             /\ WithoutPrimary(o)[t].primary
                    = (trees[t].owner # o /\ trees[t].primary)
    <2>1. t \in TreeNames /\ trees[t] \in TreeRow
        BY LiveRows
    <2>2. CASE trees[t].owner = o
        BY <2>2, <1>1 DEF TreesOwnedBy
    <2>3. CASE trees[t].owner # o
        <3>1. WithoutPrimary(o)[t] = trees[t]
            BY <2>1, <2>3, <1>2 DEF TreesOwnedBy
        <3>2. trees[t].primary \in BOOLEAN
            BY <2>1 DEF TreeRow
        <3> QED
            BY <2>1, <2>3, <3>1, <3>2
    <2> QED
        BY <2>2, <2>3
<1> QED
    BY <1>4, <1>5, <1>6

LEMMA TypeCreateTree ==
    ASSUME TypeOK,
           NEW u \in Callers, NEW t \in TreeNames, NEW o \in Users,
           NEW primary \in BOOLEAN, NEW interrupted \in BOOLEAN,
           CreateTree(u, t, o, primary, interrupted)
    PROVE  TypeOK'
<1> DEFINE cleared == IF primary THEN WithoutPrimary(o) ELSE trees
           row == [owner |-> o, primary |-> primary, team |-> NoTeam]
<1>1. cleared \in [TreeNames -> TreeRow \cup {Absent}]
    BY WithoutPrimaryRows DEF TypeOK
<1>2. row \in TreeRow
    BY DEF TreeRow
<1>3. trees' = cleared \/ trees' = [cleared EXCEPT ![t] = row]
    BY DEF CreateTree
<1>4. trees' \in [TreeNames -> TreeRow \cup {Absent}]
    <2> HIDE DEF cleared, row
    <2> QED  BY <1>1, <1>2, <1>3
<1> QED
    BY <1>4 DEF TypeOK, CreateTree

LEMMA TypeSetPrimaryTree ==
    ASSUME TypeOK, NEW t \in TreeNames, SetPrimaryTree(t)
    PROVE  TypeOK'
<1> DEFINE W == WithoutPrimary(trees[t].owner)
<1>1. W \in [TreeNames -> TreeRow \cup {Absent}] /\ W[t] \in TreeRow
    BY WithoutPrimaryRows DEF SetPrimaryTree
<1>2. [W[t] EXCEPT !.primary = TRUE] \in TreeRow
    BY <1>1, PrimarySet
<1>3. trees' = [W EXCEPT ![t] = [W[t] EXCEPT !.primary = TRUE]]
    BY DEF SetPrimaryTree
<1>4. trees' \in [TreeNames -> TreeRow \cup {Absent}]
    BY <1>1, <1>2, <1>3
<1> QED
    BY <1>4 DEF TypeOK, SetPrimaryTree

LEMMA TypeSetTreeTeam ==
    ASSUME TypeOK, NEW t \in TreeNames, NEW team \in Teams \cup {NoTeam},
           SetTreeTeam(t, team)
    PROVE  TypeOK'
<1>1. [trees[t] EXCEPT !.team = team] \in TreeRow
    BY LiveRows DEF SetTreeTeam, TreeRow
<1>2. trees' \in [TreeNames -> TreeRow \cup {Absent}]
    BY <1>1 DEF TypeOK, SetTreeTeam
<1> QED
    BY <1>2 DEF TypeOK, SetTreeTeam

LEMMA TypeDeleteTree ==
    ASSUME TypeOK, NEW t \in TreeNames, DeleteTree(t)
    PROVE  TypeOK'
<1>1. person' \in [PersonIds -> PersonRow \cup {Absent}]
    BY DroppedType DEF TypeOK, DeleteTree
<1> QED
    BY <1>1, CascadeType DEF TypeOK, DeleteTree

LEMMA TypeTreeEditors ==
    ASSUME TypeOK,
           NEW u \in Callers, NEW t \in TreeNames, NEW v \in Users,
           AddTreeEditor(u, t, v) \/ RemoveTreeEditor(u, t, v)
    PROVE  TypeOK'
BY DEF TypeOK, AddTreeEditor, RemoveTreeEditor
-----------------------------------------------------------------------------
(* Persons.                                                                *)

LEMMA TypeCreatePerson ==
    ASSUME TypeOK,
           NEW u \in Callers, NEW t \in TreeNames, NEW cr \in Users \cup {Nobody},
           NEW cert \in Certs \cup {NoCert}, NEW c \in PersonIds,
           NEW p \in ProxyIds, NEW interrupted \in BOOLEAN,
           CreatePerson(u, t, cr, cert, c, p, interrupted)
    PROVE  TypeOK'
BY DEF TypeOK, CreatePerson, PersonRow, ProxyRow, RecordIds

LEMMA TypeUpdatePerson ==
    ASSUME TypeOK, NEW u \in Callers, NEW p \in ProxyIds, NEW cr \in Users,
           UpdatePerson(u, p, cr)
    PROVE  TypeOK'
<1>1. proxy[p] \in ProxyRow
    BY LiveRows DEF UpdatePerson, Fetchable
<1>2. [proxy[p] EXCEPT !.creator = cr] \in ProxyRow
    BY <1>1 DEF ProxyRow
<1>3. proxy' \in [ProxyIds -> ProxyRow \cup {Absent}]
    BY <1>2 DEF TypeOK, UpdatePerson
<1> QED
    BY <1>3 DEF TypeOK, UpdatePerson

\* A certificate of the constants may be written to any person there is.
LEMMA CertSet ==
    ASSUME TypeOK, NEW c \in Live(person), NEW cert \in Certs
    PROVE  [person EXCEPT ![c].cert = cert]
               \in [PersonIds -> PersonRow \cup {Absent}]
<1>1. c \in PersonIds /\ [person[c] EXCEPT !.cert = cert] \in PersonRow
    BY LiveRows DEF PersonRow
<1> QED
    BY <1>1 DEF TypeOK

LEMMA TypeUpdateCanonical ==
    ASSUME TypeOK, NEW u \in Callers, NEW p \in ProxyIds, NEW cert \in Certs,
           UpdateCanonical(u, p, cert)
    PROVE  TypeOK'
<1>1. person' \in [PersonIds -> PersonRow \cup {Absent}]
    BY CertSet DEF UpdateCanonical, Fetchable
<1> QED
    BY <1>1 DEF TypeOK, UpdateCanonical

LEMMA TypeDeletePerson ==
    ASSUME TypeOK, NEW u \in Callers, NEW p \in ProxyIds,
           NEW interrupted \in BOOLEAN, DeletePerson(u, p, interrupted)
    PROVE  TypeOK'
<1>1. person' \in [PersonIds -> PersonRow \cup {Absent}]
    BY DroppedType DEF TypeOK, DeletePerson
<1> QED
    BY <1>1, CascadeType DEF TypeOK, DeletePerson

LEMMA TypeAddPersonToTree ==
    ASSUME TypeOK,
           NEW u \in Callers, NEW p \in ProxyIds, NEW t \in TreeNames,
           NEW q \in ProxyIds, AddPersonToTree(u, p, t, q)
    PROVE  TypeOK'
<1>1. [proxy[p] EXCEPT !.tree = t] \in ProxyRow
    BY LiveRows DEF AddPersonToTree, Fetchable, ProxyRow
<1> QED
    BY <1>1 DEF TypeOK, AddPersonToTree, RecordIds

LEMMA TypeRemovePersonFromTree ==
    ASSUME TypeOK, NEW u \in Callers, NEW p \in ProxyIds,
           RemovePersonFromTree(u, p)
    PROVE  TypeOK'
BY CascadeType DEF TypeOK, RemovePersonFromTree

\* Rewriting one end of some edges to a proxy, and dropping the others at
\* that end, leaves edges.
LEMMA RedirectedType ==
    ASSUME NEW E, E \subseteq EdgeRow, NEW l \in ProxyIds, NEW s \in ProxyIds,
           NEW end \in {"in", "out"}, NEW M \in Rewritten(E, end, l, s)
    PROVE  Redirected(E, M, end, l, s) \subseteq EdgeRow
<1>1. M \subseteq EdgeRow
    BY DEF Rewritten, Movable
<1>2. \A e \in M : [e EXCEPT !["in"] = s] \in EdgeRow
    BY <1>1 DEF EdgeRow
<1>3. \A e \in M : [e EXCEPT !["out"] = s] \in EdgeRow
    BY <1>1 DEF EdgeRow
<1> QED
    BY <1>2, <1>3 DEF Redirected

LEMMA EventsMovedType ==
    ASSUME TypeOK, NEW l \in ProxyIds, NEW s \in ProxyIds
    PROVE  EventsMoved(l, s) \in [EventIds -> EventRow \cup {Absent}]
<1>1. ASSUME NEW e \in EventsOf({l})
      PROVE  [lifeEvent[e] EXCEPT !.proxy = s] \in EventRow
    BY <1>1, LiveRows DEF EventsOf, EventRow
<1> QED
    BY <1>1, Zenon DEF TypeOK, EventsMoved

LEMMA TypeCollapseSameTree ==
    ASSUME TypeOK,
           NEW u \in Callers, NEW l \in ProxyIds, NEW s \in ProxyIds,
           NEW interrupted \in BOOLEAN, CollapseSameTree(u, l, s, interrupted)
    PROVE  TypeOK'
<1>1. edges' \subseteq EdgeRow
    <2>1. PICK M \in Rewritten(edges, "in", l, s) :
             \E N \in Rewritten(Redirected(edges, M, "in", l, s), "out", l, s) :
                edges' = Redirected(Redirected(edges, M, "in", l, s),
                                    N, "out", l, s)
        BY DEF CollapseSameTree
    <2>2. Redirected(edges, M, "in", l, s) \subseteq EdgeRow
        BY RedirectedType DEF TypeOK
    <2> QED
        BY <2>1, <2>2, RedirectedType
<1>2. lifeEvent' \in [EventIds -> EventRow \cup {Absent}]
    BY EventsMovedType DEF CollapseSameTree
<1>3. proxy' \in [ProxyIds -> ProxyRow \cup {Absent}]
    BY DroppedType DEF TypeOK, CollapseSameTree
<1>4. person' \in [PersonIds -> PersonRow \cup {Absent}]
    BY DroppedType DEF TypeOK, CollapseSameTree
<1> QED
    BY <1>1, <1>2, <1>3, <1>4 DEF TypeOK, CollapseSameTree
-----------------------------------------------------------------------------
(* Merges, relationships and life events.                                  *)

LEMMA TypeCreateMergeProposal ==
    ASSUME TypeOK,
           NEW u \in Callers, NEW p \in ProxyIds, NEW q \in ProxyIds,
           NEW m \in ProposalIds, CreateMergeProposal(u, p, q, m)
    PROVE  TypeOK'
BY DEF TypeOK, CreateMergeProposal, NewProposal, ProposalRow, Statuses, RecordIds

\* A proposal that is there may take any status.
LEMMA StatusSet ==
    ASSUME TypeOK, NEW m \in Live(proposal), NEW status \in Statuses
    PROVE  [proposal EXCEPT ![m].status = status]
               \in [ProposalIds -> ProposalRow \cup {Absent}]
<1>1. m \in ProposalIds /\ [proposal[m] EXCEPT !.status = status] \in ProposalRow
    BY LiveRows DEF ProposalRow
<1> QED
    BY <1>1 DEF TypeOK

LEMMA TypeRejectMergeProposal ==
    ASSUME TypeOK, NEW u \in Callers, NEW m \in ProposalIds,
           RejectMergeProposal(u, m)
    PROVE  TypeOK'
<1>1. proposal' \in [ProposalIds -> ProposalRow \cup {Absent}]
    BY StatusSet DEF RejectMergeProposal, MayDecide, Pending, Statuses
<1> QED
    BY <1>1 DEF TypeOK, RejectMergeProposal

\* Re-pointing proxies leaves their trees and creators.
LEMMA RepointedRows ==
    ASSUME TypeOK, NEW a \in PersonIds, NEW b
    PROVE  /\ Repointed(a, b) \in [ProxyIds -> ProxyRow \cup {Absent}]
           /\ Live(Repointed(a, b)) = Live(proxy)
           /\ \A p \in Live(proxy) :
                 /\ Repointed(a, b)[p].tree = proxy[p].tree
                 /\ Repointed(a, b)[p].person =
                        IF ~Overlap(a, b) /\ proxy[p].person = b
                        THEN a ELSE proxy[p].person
<1>1. CASE Overlap(a, b)
    BY <1>1 DEF Repointed, TypeOK
<1>2. CASE ~Overlap(a, b)
    <2> DEFINE R == Repointed(a, b)
    <2>1. R = [p \in ProxyIds |->
                  IF p \in ProxiesOf(b) THEN [proxy[p] EXCEPT !.person = a]
                                        ELSE proxy[p]]
        BY <1>2 DEF Repointed
    <2>2. ASSUME NEW p \in ProxiesOf(b)
          PROVE  /\ p \in Live(proxy) /\ p \in ProxyIds
                 /\ R[p] \in ProxyRow
                 /\ R[p].tree = proxy[p].tree
                 /\ R[p].person = a
        <3>1. p \in Live(proxy) /\ p \in ProxyIds /\ proxy[p] \in ProxyRow
            BY <2>2, LiveRows DEF ProxiesOf
        <3>2. R[p] = [proxy[p] EXCEPT !.person = a]
            BY <2>1, <2>2, <3>1
        <3> QED
            BY <3>1, <3>2 DEF ProxyRow
    <2>3. \A p \in ProxyIds : p \notin ProxiesOf(b) => R[p] = proxy[p]
        BY <2>1
    <2>4. \A p \in ProxyIds : R[p] \in ProxyRow \cup {Absent}
        BY <2>2, <2>3 DEF TypeOK
    <2>5. R \in [ProxyIds -> ProxyRow \cup {Absent}]
        BY <2>1, <2>4
    <2>6. Live(R) = Live(proxy)
        <3>1. DOMAIN R = ProxyIds /\ DOMAIN proxy = ProxyIds
            BY <2>5 DEF TypeOK
        <3>2. \A p \in ProxiesOf(b) : R[p] # Absent /\ proxy[p] # Absent
            BY <2>2, NoRowAssumption DEF Live
        <3> HIDE DEF R
        <3> QED
            BY <2>3, <3>1, <3>2 DEF Live
    <2>7. \A p \in Live(proxy) :
             /\ R[p].tree = proxy[p].tree
             /\ R[p].person = IF proxy[p].person = b THEN a ELSE proxy[p].person
        BY <2>2, <2>3, LiveRows DEF ProxiesOf
    <2> QED
        BY <1>2, <2>5, <2>6, <2>7
<1> QED
    BY <1>1, <1>2

LEMMA TypeAcceptMergeProposal ==
    ASSUME TypeOK,
           NEW u \in Callers, NEW m \in ProposalIds, NEW resolution \in BOOLEAN,
           NEW cert \in Certs \cup {NoCert}, NEW done \in 1..4,
           AcceptMergeProposal(u, m, resolution, cert, done)
    PROVE  TypeOK'
<1> DEFINE a == CanonicalA(m)
           b == CanonicalB(m)
<1>1. a \in Live(person) /\ a \in PersonIds
    BY LiveRows DEF AcceptMergeProposal
<1>2. Resolved(a, cert) \in [PersonIds -> PersonRow \cup {Absent}]
    <2> HIDE DEF a
    <2>1. CASE cert = NoCert
        BY <2>1 DEF Resolved, TypeOK
    <2>2. CASE cert \in Certs
        BY <2>2, <1>1, CertSet, OptionAssumption DEF Resolved
    <2> QED
        BY <2>1, <2>2
<1>3. person' \in [PersonIds -> PersonRow \cup {Absent}]
    BY <1>2, DroppedType DEF AcceptMergeProposal
<1>4. proxy' \in [ProxyIds -> ProxyRow \cup {Absent}]
    BY <1>1, RepointedRows DEF AcceptMergeProposal, TypeOK
<1>5. proposal' \in [ProposalIds -> ProposalRow \cup {Absent}]
    BY StatusSet DEF AcceptMergeProposal, MayDecide, Pending, Statuses, TypeOK
<1> QED
    BY <1>3, <1>4, <1>5 DEF TypeOK, AcceptMergeProposal

\* RELATE adds at most the row it is given.
LEMMA TypeAddRelationship ==
    ASSUME TypeOK,
           NEW u \in Callers, NEW p \in ProxyIds, NEW q \in ProxyIds,
           \/ \E rel \in RelTables, pedigree \in Pedigrees :
                 AddParent(u, p, q, rel, pedigree)
           \/ \E pedigree \in Pedigrees, via \in ProxyIds \cup {Nobody} :
                 AddSibling(u, p, q, pedigree, via)
           \/ \E since \in Dates \cup {NoDate} : AddSpouse(u, p, q, since)
    PROVE  TypeOK'
<1>1. \A E, row : E \subseteq EdgeRow /\ row \in EdgeRow
                      => Related(E, row) \subseteq EdgeRow
    BY DEF Related
<1>2. CASE \E rel \in RelTables, pedigree \in Pedigrees :
              AddParent(u, p, q, rel, pedigree)
    <2> PICK rel \in RelTables, pedigree \in Pedigrees :
                AddParent(u, p, q, rel, pedigree)
        BY <1>2
    <2> DEFINE row == [rel |-> rel, in |-> p, out |-> q, pedigree |-> pedigree,
                       via |-> Nobody, since |-> NoDate]
    <2>1. row \in EdgeRow
        BY DEF EdgeRow
    <2>2. edges' = Related(edges, row)
        BY DEF AddParent
    <2> QED
        BY <1>1, <2>1, <2>2 DEF TypeOK, AddParent, EdgesUntouched
<1>3. CASE \E pedigree \in Pedigrees, via \in ProxyIds \cup {Nobody} :
              AddSibling(u, p, q, pedigree, via)
    <2> PICK pedigree \in Pedigrees, via \in ProxyIds \cup {Nobody} :
                AddSibling(u, p, q, pedigree, via)
        BY <1>3
    <2> DEFINE row == [rel |-> "has_sibling", in |-> p, out |-> q,
                       pedigree |-> pedigree, via |-> via, since |-> NoDate]
    <2>1. row \in EdgeRow
        BY DEF EdgeRow, RelTables
    <2>2. edges' = Related(edges, row)
        BY DEF AddSibling
    <2> QED
        BY <1>1, <2>1, <2>2 DEF TypeOK, AddSibling, EdgesUntouched
<1>4. CASE \E since \in Dates \cup {NoDate} : AddSpouse(u, p, q, since)
    <2> PICK since \in Dates \cup {NoDate} : AddSpouse(u, p, q, since)
        BY <1>4
    <2>1. SpouseRow(p, q, since) \in EdgeRow /\ SpouseRow(q, p, since) \in EdgeRow
        BY DEF SpouseRow, EdgeRow, RelTables
    <2>2. edges' = Related(Related(edges, SpouseRow(p, q, since)),
                           SpouseRow(q, p, since))
        BY DEF AddSpouse
    <2>3. edges' \subseteq EdgeRow
        BY <1>1, <2>1, <2>2 DEF TypeOK
    <2> QED
        BY <2>3 DEF TypeOK, AddSpouse, EdgesUntouched
<1> QED
    BY <1>2, <1>3, <1>4

\* One row for each pair of ends in a table.
UniqueEnds(E) == \A e, f \in E : SameEnds(e, f.rel, f.in, f.out) => e = f

\* F comes from E by deleting rows and updating columns other than the ends.
Updated(E, F) ==
    /\ \A f \in F : \E e \in E : SameEnds(f, e.rel, e.in, e.out)
    /\ UniqueEnds(E) => UniqueEnds(F)

\* An update that rewrites rows one by one and leaves their ends.
LEMMA RowByRow ==
    ASSUME NEW E, NEW F, NEW g, F \subseteq {g[e] : e \in E},
           \A e \in E : SameEnds(g[e], e.rel, e.in, e.out)
    PROVE  Updated(E, F)
BY DEF Updated, UniqueEnds, SameEnds

LEMMA UpdatedTwice ==
    ASSUME NEW E, NEW F, NEW G, Updated(E, F), Updated(F, G)
    PROVE  Updated(E, G)
BY DEF Updated, SameEnds

\* The update of a parent's edge.
LEMMA ParentEdgeRows ==
    ASSUME NEW E, E \subseteq EdgeRow, NEW p, NEW q, NEW rel,
           NEW pedigree \in Pedigrees
    PROVE  /\ ParentEdgeSet(E, p, q, rel, pedigree) \subseteq EdgeRow
           /\ Updated(E, ParentEdgeSet(E, p, q, rel, pedigree))
<1>1. CASE pedigree = "half"
    <2>1. ParentEdgeSet(E, p, q, rel, pedigree) = E
        BY <1>1 DEF ParentEdgeSet
    <2> QED
        BY <2>1 DEF Updated, SameEnds
<1>2. CASE pedigree # "half"
    <2> DEFINE g == [e \in E |-> IF SameEnds(e, rel, p, q)
                                 THEN [e EXCEPT !.pedigree = pedigree] ELSE e]
    <2>1. \A e \in E : g[e] \in EdgeRow /\ SameEnds(g[e], e.rel, e.in, e.out)
        BY DEF EdgeRow, SameEnds
    <2>2. ParentEdgeSet(E, p, q, rel, pedigree) = {g[e] : e \in E}
        BY <1>2 DEF ParentEdgeSet
    <2> HIDE DEF g
    <2> QED
        BY <2>1, <2>2, RowByRow
<1> QED
    BY <1>1, <1>2

\* The update of the sibling edges at p.
LEMMA SiblingRows ==
    ASSUME NEW E, E \subseteq EdgeRow, NEW p, NEW q, NEW pedigree \in Pedigrees
    PROVE  /\ SiblingsVia(E, p, q, pedigree) \subseteq EdgeRow
           /\ Updated(E, SiblingsVia(E, p, q, pedigree))
<1> DEFINE g == [e \in E |->
        IF e.rel = "has_sibling" /\ p \in {e.in, e.out} /\ e.via = q
        THEN [e EXCEPT !.pedigree = pedigree] ELSE e]
<1>1. \A e \in E : g[e] \in EdgeRow /\ SameEnds(g[e], e.rel, e.in, e.out)
    BY DEF EdgeRow, SameEnds
<1>2. SiblingsVia(E, p, q, pedigree) = {g[e] : e \in E}
    BY DEF SiblingsVia
<1> HIDE DEF g
<1> QED
    BY <1>1, <1>2, RowByRow

\* No request but an addition or a collapse changes the ends of an edge.
LEMMA EdgeUpdateRows ==
    ASSUME TypeOK,
           NEW u \in Callers, NEW p \in ProxyIds, NEW q \in ProxyIds,
           \/ \E rel \in RelTables : DeleteRelationship(u, p, q, rel)
           \/ \E rel \in RelTables, pedigree \in Pedigrees, cut \in BOOLEAN :
                 UpdateParentPedigree(u, p, q, rel, pedigree, cut)
           \/ \E pedigree \in Pedigrees, via \in ProxyIds \cup {Nobody} :
                 UpdateSiblingPedigree(u, p, q, pedigree, via)
           \/ \E since \in Dates \cup {NoDate} :
                 UpdateSpouseDates(u, p, q, since)
    PROVE  edges' \subseteq EdgeRow /\ Updated(edges, edges') /\ EdgesUntouched
<1>1. edges \subseteq EdgeRow
    BY DEF TypeOK
<1>2. CASE \E rel \in RelTables : DeleteRelationship(u, p, q, rel)
    BY <1>1, <1>2 DEF DeleteRelationship, Updated, UniqueEnds, SameEnds
<1>3. CASE \E rel \in RelTables, pedigree \in Pedigrees, cut \in BOOLEAN :
              UpdateParentPedigree(u, p, q, rel, pedigree, cut)
    <2> PICK rel \in RelTables, pedigree \in Pedigrees, cut \in BOOLEAN :
                UpdateParentPedigree(u, p, q, rel, pedigree, cut)
        BY <1>3
    <2> DEFINE E == ParentEdgeSet(edges, p, q, rel, pedigree)
               sib == IF pedigree = "adopted" THEN "adopted" ELSE "birth"
    <2>1. E \subseteq EdgeRow /\ Updated(edges, E)
        BY <1>1, ParentEdgeRows
    <2>2. /\ SiblingsVia(E, p, q, sib) \subseteq EdgeRow
          /\ Updated(E, SiblingsVia(E, p, q, sib))
        <3>1. sib \in Pedigrees
            BY DEF Pedigrees
        <3> HIDE DEF E, sib
        <3> QED
            BY <2>1, <3>1, SiblingRows
    <2>3. edges' = E \/ edges' = SiblingsVia(E, p, q, sib)
        BY DEF UpdateParentPedigree, ParentPedigreeSet
    <2>4. edges' \subseteq EdgeRow /\ Updated(edges, edges')
        <3> HIDE DEF E, sib
        <3> QED
            BY <2>1, <2>2, <2>3, UpdatedTwice
    <2> QED
        BY <2>4 DEF UpdateParentPedigree
<1>4. CASE \E pedigree \in Pedigrees, via \in ProxyIds \cup {Nobody} :
              UpdateSiblingPedigree(u, p, q, pedigree, via)
    <2> PICK pedigree \in Pedigrees, via \in ProxyIds \cup {Nobody} :
                UpdateSiblingPedigree(u, p, q, pedigree, via)
        BY <1>4
    <2> DEFINE g == [e \in edges |->
            IF SameEnds(e, "has_sibling", p, q) \/ SameEnds(e, "has_sibling", q, p)
            THEN [e EXCEPT !.pedigree = pedigree, !.via = via] ELSE e]
    <2>1. \A e \in edges : g[e] \in EdgeRow /\ SameEnds(g[e], e.rel, e.in, e.out)
        <3>1. \A e \in edges :
                 LET f == [e EXCEPT !.pedigree = pedigree, !.via = via]
                 IN f \in EdgeRow /\ SameEnds(f, e.rel, e.in, e.out)
            BY <1>1 DEF EdgeRow, SameEnds
        <3>2. \A e \in edges : SameEnds(e, e.rel, e.in, e.out)
            BY DEF SameEnds
        <3> QED
            BY <1>1, <3>1, <3>2
    <2>2. edges' = {g[e] : e \in edges}
        BY DEF UpdateSiblingPedigree
    <2> HIDE DEF g
    <2> QED
        BY <2>1, <2>2, RowByRow DEF UpdateSiblingPedigree
<1>5. CASE \E since \in Dates \cup {NoDate} : UpdateSpouseDates(u, p, q, since)
    <2> PICK since \in Dates \cup {NoDate} : UpdateSpouseDates(u, p, q, since)
        BY <1>5
    <2> DEFINE g == [e \in edges |-> IF e \in Addressed("has_spouse", p, q)
                                     THEN [e EXCEPT !.since = since] ELSE e]
    <2>1. \A e \in edges : g[e] \in EdgeRow /\ SameEnds(g[e], e.rel, e.in, e.out)
        BY <1>1 DEF EdgeRow, SameEnds
    <2>2. edges' = {g[e] : e \in edges}
        BY DEF UpdateSpouseDates
    <2> HIDE DEF g
    <2> QED
        BY <2>1, <2>2, RowByRow DEF UpdateSpouseDates
<1> QED
    BY <1>2, <1>3, <1>4, <1>5

LEMMA TypeLifeEvents ==
    ASSUME TypeOK, NEW u \in Callers, NEW e \in EventIds,
           \/ \E p \in ProxyIds, canonical \in BOOLEAN :
                 CreateLifeEvent(u, p, canonical, e)
           \/ DeleteLifeEvent(u, e)
           \/ PromoteLifeEvent(u, e)
    PROVE  TypeOK'
<1>1. CASE \E p \in ProxyIds, canonical \in BOOLEAN :
              CreateLifeEvent(u, p, canonical, e)
    <2> PICK p \in ProxyIds, canonical \in BOOLEAN :
                CreateLifeEvent(u, p, canonical, e)
        BY <1>1
    <2>1. [proxy |-> p, tree |-> proxy[p].tree, canonical |-> canonical]
              \in EventRow
        BY LiveRows DEF CreateLifeEvent, Fetchable, ProxyRow, EventRow
    <2> QED
        BY <2>1 DEF TypeOK, CreateLifeEvent, RecordIds
<1>2. CASE DeleteLifeEvent(u, e)
    BY <1>2, DroppedType DEF TypeOK, DeleteLifeEvent
<1>3. CASE PromoteLifeEvent(u, e)
    <2>1. [lifeEvent[e] EXCEPT !.canonical = TRUE] \in EventRow
        BY <1>3, LiveRows DEF PromoteLifeEvent, MayChangeEvent, EventRow
    <2>2. lifeEvent' \in [EventIds -> EventRow \cup {Absent}]
        BY <1>3, <2>1 DEF TypeOK, PromoteLifeEvent
    <2> QED
        BY <1>3, <2>2 DEF TypeOK, PromoteLifeEvent
<1> QED
    BY <1>1, <1>2, <1>3
-----------------------------------------------------------------------------
(* All steps.                                                              *)

LEMMA TypeInit == Init => TypeOK
BY DEF Init, TypeOK

LEMMA TypeTreeStep ==
    ASSUME TypeOK, NEW u \in Callers, TreeStep(u)
    PROVE  TypeOK'
<1>1. CASE \E t \in TreeNames, o \in Users, primary \in BOOLEAN :
              CreateTree(u, t, o, primary, FALSE)
    BY <1>1, TypeCreateTree
<1>2. CASE \E t \in TreeNames : SetPrimaryTree(t)
    BY <1>2, TypeSetPrimaryTree
<1>3. CASE \E t \in TreeNames, team \in Teams \cup {NoTeam} :
              SetTreeTeam(t, team)
    BY <1>3, TypeSetTreeTeam
<1>4. CASE \E t \in TreeNames : DeleteTree(t)
    BY <1>4, TypeDeleteTree
<1>5. CASE \E t \in TreeNames, v \in Users :
              AddTreeEditor(u, t, v) \/ RemoveTreeEditor(u, t, v)
    BY <1>5, TypeTreeEditors
<1> QED
    BY <1>1, <1>2, <1>3, <1>4, <1>5 DEF TreeStep

LEMMA TypePersonStep ==
    ASSUME TypeOK, NEW u \in Callers, PersonStep(u)
    PROVE  TypeOK'
<1>1. CASE \E t \in TreeNames, cr \in Users \cup {Nobody},
              cert \in Certs \cup {NoCert}, c \in PersonIds, p \in ProxyIds :
              CreatePerson(u, t, cr, cert, c, p, FALSE)
    BY <1>1, TypeCreatePerson
<1>2. CASE \E p \in ProxyIds, cr \in Users : UpdatePerson(u, p, cr)
    BY <1>2, TypeUpdatePerson
<1>3. CASE \E p \in ProxyIds, cert \in Certs : UpdateCanonical(u, p, cert)
    BY <1>3, TypeUpdateCanonical
<1>4. CASE \E p \in ProxyIds : DeletePerson(u, p, FALSE)
    BY <1>4, TypeDeletePerson
<1>5. CASE \E p, q \in ProxyIds, t \in TreeNames : AddPersonToTree(u, p, t, q)
    BY <1>5, TypeAddPersonToTree
<1>6. CASE \E p \in ProxyIds : RemovePersonFromTree(u, p)
    BY <1>6, TypeRemovePersonFromTree
<1>7. CASE \E l, s \in ProxyIds : CollapseSameTree(u, l, s, FALSE)
    BY <1>7, TypeCollapseSameTree
<1> QED
    BY <1>1, <1>2, <1>3, <1>4, <1>5, <1>6, <1>7 DEF PersonStep

LEMMA TypeMergeStep ==
    ASSUME TypeOK, NEW u \in Callers, MergeStep(u)
    PROVE  TypeOK'
BY TypeCreateMergeProposal, TypeRejectMergeProposal, TypeAcceptMergeProposal
   DEF MergeStep

\* A relationship step adds edges or updates them.
LEMMA RelationshipCases ==
    ASSUME NEW u \in Callers, RelationshipStep(u)
    PROVE  \E p, q \in ProxyIds :
              \/ \E rel \in RelTables, pedigree \in Pedigrees :
                    AddParent(u, p, q, rel, pedigree)
              \/ \E pedigree \in Pedigrees, via \in ProxyIds \cup {Nobody} :
                    AddSibling(u, p, q, pedigree, via)
              \/ \E since \in Dates \cup {NoDate} : AddSpouse(u, p, q, since)
              \/ \E rel \in RelTables : DeleteRelationship(u, p, q, rel)
              \/ \E rel \in RelTables, pedigree \in Pedigrees, cut \in BOOLEAN :
                    UpdateParentPedigree(u, p, q, rel, pedigree, cut)
              \/ \E pedigree \in Pedigrees, via \in ProxyIds \cup {Nobody} :
                    UpdateSiblingPedigree(u, p, q, pedigree, via)
              \/ \E since \in Dates \cup {NoDate} :
                    UpdateSpouseDates(u, p, q, since)
<1>1. Rels \subseteq RelTables
    BY PlanAssumption
<1> QED
    BY <1>1 DEF RelationshipStep

LEMMA TypeRelationshipStep ==
    ASSUME TypeOK, NEW u \in Callers, RelationshipStep(u)
    PROVE  TypeOK'
<1>1. PICK p \in ProxyIds, q \in ProxyIds :
          \/ \E rel \in RelTables, pedigree \in Pedigrees :
                AddParent(u, p, q, rel, pedigree)
          \/ \E pedigree \in Pedigrees, via \in ProxyIds \cup {Nobody} :
                AddSibling(u, p, q, pedigree, via)
          \/ \E since \in Dates \cup {NoDate} : AddSpouse(u, p, q, since)
          \/ edges' \subseteq EdgeRow /\ EdgesUntouched
    BY RelationshipCases, EdgeUpdateRows
<1>2. CASE edges' \subseteq EdgeRow /\ EdgesUntouched
    BY <1>2 DEF TypeOK, EdgesUntouched
<1> QED
    BY <1>1, <1>2, TypeAddRelationship

LEMMA TypeInterrupted ==
    ASSUME TypeOK, NEW u \in Callers, Interrupted(u)
    PROVE  TypeOK'
<1>1. CASE \E t \in TreeNames, o \in Users : CreateTree(u, t, o, TRUE, TRUE)
    BY <1>1, TypeCreateTree
<1>2. CASE \E t \in TreeNames, cr \in Users \cup {Nobody},
              cert \in Certs \cup {NoCert}, c \in PersonIds, p \in ProxyIds :
              CreatePerson(u, t, cr, cert, c, p, TRUE)
    BY <1>2, TypeCreatePerson
<1>3. CASE \E p \in ProxyIds : DeletePerson(u, p, TRUE)
    BY <1>3, TypeDeletePerson
<1>4. CASE \E l, s \in ProxyIds : CollapseSameTree(u, l, s, TRUE)
    BY <1>4, TypeCollapseSameTree
<1>5. CASE \E m \in ProposalIds, resolution \in BOOLEAN,
              cert \in Certs \cup {NoCert}, done \in 1..3 :
              AcceptMergeProposal(u, m, resolution, cert, done)
    BY <1>5, TypeAcceptMergeProposal
<1>6. CASE \E p, q \in ProxyIds, rel \in Rels \cap ParentRels,
              pedigree \in Pedigrees :
              UpdateParentPedigree(u, p, q, rel, pedigree, TRUE)
    <2>1. edges' \subseteq EdgeRow /\ EdgesUntouched
        <3>1. Rels \subseteq RelTables
            BY PlanAssumption
        <3> QED
            BY <1>6, <3>1, EdgeUpdateRows
    <2> QED
        BY <2>1 DEF TypeOK, EdgesUntouched
<1> QED
    BY <1>1, <1>2, <1>3, <1>4, <1>5, <1>6 DEF Interrupted

LEMMA TypeNext == TypeOK /\ [Next]_vars => TypeOK'
<1> SUFFICES ASSUME TypeOK, [Next]_vars
             PROVE  TypeOK'
    OBVIOUS
<1>1. CASE UNCHANGED vars
    BY <1>1 DEF TypeOK, vars
<1>2. ASSUME NEW u \in Callers, LifeEventStep(u)
      PROVE  TypeOK'
    BY <1>2, TypeLifeEvents DEF LifeEventStep
<1> QED
    BY <1>1, <1>2, TypeTreeStep, TypePersonStep, TypeMergeStep,
       TypeRelationshipStep, TypeInterrupted DEF Next

\* Whatever requests arrive and wherever they are cut off, every table holds
\* rows of its schema, for every set of trees, persons, users and plans.
THEOREM TypeCorrect == Spec => []TypeOK
BY TypeInit, TypeNext, PTL DEF Spec
=============================================================================
