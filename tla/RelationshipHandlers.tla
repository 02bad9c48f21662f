------------------------- MODULE RelationshipHandlers -----------------------
(***************************************************************************)
(* handlers/relationship.rs: the handlers that write the four edge tables. *)
(***************************************************************************)
EXTENDS ClannStore

SameEnds(e, rel, p, q) == e.rel = rel /\ e.in = p /\ e.out = q

\* RELATE on a table without the index.
RelatedAgain(E, row) == E \cup {row}

\* RELATE one row: the (in, out) index of its table rejects a second one,
\* the pedigree assertion of the parent tables rejects "half".  The handler
\* does not read the statement's result, and answers 201 either way.
Related(E, row) ==
    IF \/ \E e \in E : SameEnds(e, row.rel, row.in, row.out)
       \/ row.rel \in ParentRels /\ row.pedigree = "half"
    THEN E ELSE E \cup {row}

\* The two proxies exist.
RelatableAnywhere(p, q) == Fetchable(p) /\ q \in Live(proxy)

\* The two proxies exist, in one tree.
Relatable(p, q) ==
    /\ Fetchable(p)
    /\ q \in Live(proxy)
    /\ proxy[q].tree = proxy[p].tree

EdgesUntouched == UNCHANGED <<trees, editors, person, proxy, lifeEvent,
                              proposal, issued>>

AddParent(u, p, q, rel, pedigree) ==
    /\ Relatable(p, q)
    /\ CanWriteToProxy(u, p)
    /\ rel \in ParentRels
    /\ edges' = Related(edges, [rel |-> rel, in |-> p, out |-> q,
          pedigree |-> pedigree, via |-> Nobody, since |-> NoDate])
    /\ EdgesUntouched

\* via is whatever id the client names, or none.
AddSibling(u, p, q, pedigree, via) ==
    /\ Relatable(p, q)
    /\ CanWriteToProxy(u, p)
    /\ edges' = Related(edges, [rel |-> "has_sibling", in |-> p, out |-> q,
          pedigree |-> pedigree, via |-> via, since |-> NoDate])
    /\ EdgesUntouched

SpouseRow(p, q, since) == [rel |-> "has_spouse", in |-> p, out |-> q,
    pedigree |-> Nobody, via |-> Nobody, since |-> since]

\* One query with a RELATE in each direction; each may fail on its own.
AddSpouse(u, p, q, since) ==
    /\ Relatable(p, q)
    /\ CanWriteToProxy(u, p)
    /\ edges' = Related(Related(edges, SpouseRow(p, q, since)),
                        SpouseRow(q, p, since))
    /\ EdgesUntouched

\* The rows in the direction of the request.
AddressedOneWay(rel, p, q) == {e \in edges : SameEnds(e, rel, p, q)}

\* The rows a request about (p, q) addresses: a spouse's in both directions.
Addressed(rel, p, q) ==
    {e \in edges : \/ SameEnds(e, rel, p, q)
                   \/ rel = "has_spouse" /\ SameEnds(e, rel, q, p)}

\* The related id is not checked.
DeleteRelationship(u, p, q, rel) ==
    /\ Fetchable(p)
    /\ CanWriteToProxy(u, p)
    /\ edges' = edges \ Addressed(rel, p, q)
    /\ EdgesUntouched

\* UPDATE of the parent's edge; the table's assertion rejects "half".
ParentEdgeSet(E, p, q, rel, pedigree) ==
    IF pedigree = "half" THEN E
    ELSE {IF SameEnds(e, rel, p, q) THEN [e EXCEPT !.pedigree = pedigree]
                                    ELSE e : e \in E}

\* UPDATE has_sibling: every sibling edge at p that names q as the shared
\* parent.
SiblingsVia(E, p, q, pedigree) ==
    {IF e.rel = "has_sibling" /\ p \in {e.in, e.out} /\ e.via = q
     THEN [e EXCEPT !.pedigree = pedigree] ELSE e : e \in E}

\* An update that spares the siblings when the parent's edge did not change.
PedigreeSetIfChanged(E, p, q, rel, pedigree) ==
    LET updated == ParentEdgeSet(E, p, q, rel, pedigree)
    IN IF updated = E THEN E
       ELSE SiblingsVia(updated, p, q,
                        IF pedigree = "adopted" THEN "adopted" ELSE "birth")

\* Both updates, one after the other.
ParentPedigreeSet(E, p, q, rel, pedigree) ==
    SiblingsVia(ParentEdgeSet(E, p, q, rel, pedigree), p, q,
                IF pedigree = "adopted" THEN "adopted" ELSE "birth")

\* interrupted: the parent edge was updated, the sibling edges were not.
UpdateParentPedigree(u, p, q, rel, pedigree, interrupted) ==
    /\ Fetchable(p)
    /\ CanWriteToProxy(u, p)
    /\ rel \in ParentRels
    /\ edges' = IF interrupted THEN ParentEdgeSet(edges, p, q, rel, pedigree)
                ELSE ParentPedigreeSet(edges, p, q, rel, pedigree)
    /\ EdgesUntouched

UpdateSiblingPedigree(u, p, q, pedigree, via) ==
    /\ Fetchable(p)
    /\ CanWriteToProxy(u, p)
    /\ edges' = {IF \/ SameEnds(e, "has_sibling", p, q)
                    \/ SameEnds(e, "has_sibling", q, p)
                 THEN [e EXCEPT !.pedigree = pedigree, !.via = via] ELSE e
                 : e \in edges}
    /\ EdgesUntouched

UpdateSpouseDates(u, p, q, since) ==
    /\ Fetchable(p)
    /\ CanWriteToProxy(u, p)
    /\ edges' = {IF e \in Addressed("has_spouse", p, q)
                 THEN [e EXCEPT !.since = since] ELSE e : e \in edges}
    /\ EdgesUntouched
=============================================================================
