---------------------------- MODULE ClannServer -----------------------------
(***************************************************************************)
(* The tree, person, merge, relationship and life-event handlers running   *)
(* over one database, and what their interplay must preserve.              *)
(***************************************************************************)
EXTENDS TreeHandlers, PersonHandlers, MergeHandlers, RelationshipHandlers,
        LifeEventHandlers

TreeStep(u) ==
    \/ \E t \in TreeNames, o \in Users, primary \in BOOLEAN :
          CreateTree(u, t, o, primary, FALSE)
    \/ \E t \in TreeNames : SetPrimaryTree(t)
    \/ \E t \in TreeNames, team \in Teams \cup {NoTeam} : SetTreeTeam(t, team)
    \/ \E t \in TreeNames : DeleteTree(t)
    \/ \E t \in TreeNames, v \in Users : AddTreeEditor(u, t, v)
    \/ \E t \in TreeNames, v \in Users : RemoveTreeEditor(u, t, v)

PersonStep(u) ==
    \/ \E t \in TreeNames, cr \in Users \cup {Nobody},
          cert \in Certs \cup {NoCert}, c \in PersonIds, p \in ProxyIds :
          CreatePerson(u, t, cr, cert, c, p, FALSE)
    \/ \E p \in ProxyIds, cr \in Users : UpdatePerson(u, p, cr)
    \/ \E p \in ProxyIds, cert \in Certs : UpdateCanonical(u, p, cert)
    \/ \E p \in ProxyIds : DeletePerson(u, p, FALSE)
    \/ \E p, q \in ProxyIds, t \in TreeNames : AddPersonToTree(u, p, t, q)
    \/ \E p \in ProxyIds : RemovePersonFromTree(u, p)
    \/ \E l, s \in ProxyIds : CollapseSameTree(u, l, s, FALSE)

MergeStep(u) ==
    \/ \E p, q \in ProxyIds, m \in ProposalIds : CreateMergeProposal(u, p, q, m)
    \/ \E m \in ProposalIds : RejectMergeProposal(u, m)
    \/ \E m \in ProposalIds, resolution \in BOOLEAN, cert \in Certs \cup {NoCert} :
          AcceptMergeProposal(u, m, resolution, cert, 4)

RelationshipStep(u) ==
    \/ \E p, q \in ProxyIds, rel \in Rels \cap ParentRels, pedigree \in Pedigrees :
          AddParent(u, p, q, rel, pedigree)
    \/ \E p, q \in ProxyIds, rel \in Rels \cap ParentRels, pedigree \in Pedigrees :
          UpdateParentPedigree(u, p, q, rel, pedigree, FALSE)
    \/ \E p, q \in ProxyIds, rel \in Rels \cap {"has_sibling"},
          pedigree \in Pedigrees, via \in ProxyIds \cup {Nobody} :
          AddSibling(u, p, q, pedigree, via)
    \/ \E p, q \in ProxyIds, rel \in Rels \cap {"has_sibling"},
          pedigree \in Pedigrees, via \in ProxyIds \cup {Nobody} :
          UpdateSiblingPedigree(u, p, q, pedigree, via)
    \/ \E p, q \in ProxyIds, rel \in Rels \cap {"has_spouse"},
          since \in Dates \cup {NoDate} : AddSpouse(u, p, q, since)
    \/ \E p, q \in ProxyIds, rel \in Rels \cap {"has_spouse"},
          since \in Dates \cup {NoDate} : UpdateSpouseDates(u, p, q, since)
    \/ \E p, q \in ProxyIds, rel \in Rels : DeleteRelationship(u, p, q, rel)

LifeEventStep(u) ==
    \/ \E p \in ProxyIds, canonical \in BOOLEAN, e \in EventIds :
          CreateLifeEvent(u, p, canonical, e)
    \/ \E e \in EventIds : DeleteLifeEvent(u, e)
    \/ \E e \in EventIds : PromoteLifeEvent(u, e)

\* A handler that stops between two of its writes: the client hung up and the
\* server dropped the future, the database went away or refused the next
\* write, or the process died.  The mutex is free again afterwards.
Interrupted(u) ==
    \/ \E t \in TreeNames, o \in Users : CreateTree(u, t, o, TRUE, TRUE)
    \/ \E t \in TreeNames, cr \in Users \cup {Nobody},
          cert \in Certs \cup {NoCert}, c \in PersonIds, p \in ProxyIds :
          CreatePerson(u, t, cr, cert, c, p, TRUE)
    \/ \E p \in ProxyIds : DeletePerson(u, p, TRUE)
    \/ \E l, s \in ProxyIds : CollapseSameTree(u, l, s, TRUE)
    \/ \E m \in ProposalIds, resolution \in BOOLEAN,
          cert \in Certs \cup {NoCert}, done \in 1..3 :
          AcceptMergeProposal(u, m, resolution, cert, done)
    \/ \E p, q \in ProxyIds, rel \in Rels \cap ParentRels, pedigree \in Pedigrees :
          UpdateParentPedigree(u, p, q, rel, pedigree, TRUE)

Next ==
    \E u \in Callers :
        \/ TreeStep(u)
        \/ PersonStep(u)
        \/ MergeStep(u)
        \/ RelationshipStep(u)
        \/ LifeEventStep(u)
        \/ Interrupted(u)

Spec == Init /\ [][Next]_vars
-----------------------------------------------------------------------------
(* Invariants.                                                             *)

\* A proxy is always in a registered tree: a tree goes only with its proxies,
\* and no handler lets a proxy in that outlives or precedes its tree.
ProxyTreeExists == \A p \in Live(proxy) : proxy[p].tree \in Live(trees)

\* A relationship joins two existing proxies of one tree, through deletes,
\* collapses, tree removals and whatever a cut-off handler leaves behind.
EdgesWithinTree ==
    \A e \in edges :
        /\ e.in \in Live(proxy) /\ e.out \in Live(proxy)
        /\ proxy[e.in].tree = proxy[e.out].tree

\* A life event is filed under the tree its proxy is in, also after a
\* collapse handed it to another proxy.
EventTreeMatches ==
    \A e \in Live(lifeEvent) :
        lifeEvent[e].proxy \in Live(proxy) =>
            lifeEvent[e].tree = proxy[lifeEvent[e].proxy].tree

\* A person has one proxy per tree at most, also when a merge gathers the
\* proxies of two persons.
OneProxyPerTree ==
    \A p, q \in Live(proxy) :
        /\ proxy[p].person = proxy[q].person
        /\ proxy[p].tree = proxy[q].tree
        => p = q

\* One row per pair of ends in an edge table, also when a collapse rewrites
\* rows onto the survivor.
OneEdgePerPair ==
    \A e, f \in edges : SameEnds(e, f.rel, f.in, f.out) => e = f

\* Two proxies have one undecided proposal between them at most, in whichever
\* direction it was made.
OnePendingPerPair ==
    \A m, n \in ProposalIds :
        /\ Pending(m) /\ Pending(n)
        /\ Between(m, proposal[n].from, proposal[n].to)
        => m = n

\* A pedigree change that was cut off, or whose answer was lost, can be sent
\* again: it then ends where it would have ended the first time, with the
\* sibling edges adjusted too.
PedigreeRetryRepairs ==
    \A p, q \in Live(proxy), rel \in ParentRels, pedigree \in Pedigrees :
        LET whole(E) == ParentPedigreeSet(E, p, q, rel, pedigree)
            once == whole(edges)
        IN /\ whole(ParentEdgeSet(edges, p, q, rel, pedigree)) = once
           /\ whole(once) = once

\* An owner has one primary tree at most, whatever trees are created, made
\* primary or deleted, and wherever create_tree is cut off.
AtMostOnePrimary ==
    \A s, t \in Live(trees) :
        /\ trees[s].owner = trees[t].owner
        /\ trees[s].primary /\ trees[t].primary
        => s = t

\* When every caller has a limited plan, no owner gets more trees and no
\* creator more persons than one of those plans allows: no sequence of
\* creations, memberships, merges and cut-off requests gets around the count.
PlanLimitsHold ==
    /\ (\A u \in Callers : TreeLimit[u] # Unlimited) =>
          \A o \in Users : \E u \in Callers :
              Cardinality(TreesOwnedBy(o)) <= TreeLimit[u]
    /\ (\A u \in Callers : MemberLimit[u] # Unlimited) =>
          \A o \in Users : \E u \in Callers :
              Cardinality(PersonsCreatedBy(o)) <= MemberLimit[u]

\* A birth certificate identifies one person, through creations, corrections
\* and the resolutions of merges.
CertHeldOnce ==
    \A c, d \in Live(person) :
        person[c].cert = person[d].cert /\ person[c].cert # NoCert => c = d

\* Rows have and name only ids that were handed out, so what a deleted row
\* left behind is never taken for what belongs to a new one.
OnlyIssuedIds ==
    /\ Live(person) \cup Live(proxy) \subseteq issued
    /\ Live(lifeEvent) \cup Live(proposal) \subseteq issued
    /\ \A p \in Live(proxy) : proxy[p].person \in issued
    /\ \A e \in Live(lifeEvent) : lifeEvent[e].proxy \in issued
-----------------------------------------------------------------------------
(* What a step may and may not do.                                         *)

\* Every proxy has its canonical person, without which every handler that
\* takes the proxy answers 404 (fetch_proxy_and_canonical).
CanonicalsExist ==
    \A p \in Live(proxy) : proxy[p].person \in Live(person)

\* The proposal's two canonicals became one, or share a tree, since it was made.
Outdated(m) ==
    \/ CanonicalA(m) = CanonicalB(m)
    \/ Overlap(CanonicalA(m), CanonicalB(m))

AcceptOutdated ==
    \E u \in Callers, m \in ProposalIds, resolution \in BOOLEAN,
       cert \in Certs \cup {NoCert}, done \in 3..4 :
       AcceptMergeProposal(u, m, resolution, cert, done) /\ Outdated(m)

TreeSweep == \E t \in TreeNames : DeleteTree(t)

CollapseStep(u, l, s) ==
    \E interrupted \in BOOLEAN : CollapseSameTree(u, l, s, interrupted)

SelfCollapse == \E u \in Callers, p \in ProxyIds : CollapseStep(u, p, p)

\* Every handler keeps the canonical of every proxy, wherever it is cut off,
\* but two: accepting an outdated proposal, and delete_tree where the count
\* of no row is 0 (both have a run of their own that shows the loss).
CanonicalsKept ==
    [][CanonicalsExist =>
          \/ CanonicalsExist'
          \/ AcceptOutdated
          \/ EmptyCountIsZero /\ TreeSweep]_vars

Orphans == {c \in Live(person) : ProxiesOf(c) = {}}

\* The handlers that take a proxy from a person, run to their end: all but
\* the collapse of a proxy into itself and delete_tree.
TakesProxies(u) ==
    \/ \E p \in ProxyIds : DeletePerson(u, p, FALSE)
    \/ \E p \in ProxyIds : RemovePersonFromTree(u, p)
    \/ \E l, s \in ProxyIds : l # s /\ CollapseSameTree(u, l, s, FALSE)
    \/ MergeStep(u)

\* Such a handler leaves no canonical behind that nobody can reach any more
\* (it has no proxy), whatever earlier requests and cut-off handlers did to
\* the person's other proxies.
NoNewOrphans ==
    [][(\E u \in Callers : TakesProxies(u)) => Orphans' \subseteq Orphans]_vars

EventsAttached ==
    \A e \in Live(lifeEvent) : lifeEvent[e].proxy \in Live(proxy)

\* Life events go or move with their proxy in every handler, except that a
\* self-collapse leaves them behind.
EventsKept == [][EventsAttached => EventsAttached' \/ SelfCollapse]_vars

\* Both directions of a marriage are recorded, with the same dates.
SpousesAgree ==
    \A e \in edges : e.rel = "has_spouse" =>
        \E f \in edges : /\ SameEnds(f, "has_spouse", e.out, e.in)
                         /\ f.since = e.since

\* No handler but collapse separates the two directions of a marriage.
SpousesKept ==
    [][SpousesAgree =>
          \/ SpousesAgree'
          \/ \E u \in Callers, l, s \in ProxyIds : CollapseStep(u, l, s)]_vars

\* Everything filed under one tree: its proxies, their edges and life events.
FiledUnder(t) ==
    <<{p \in Live(proxy) : proxy[p].tree = t},
      {e \in edges : proxy[e.in].tree = t},
      {<<e, lifeEvent[e]>> : e \in {k \in Live(lifeEvent) : lifeEvent[k].tree = t}}>>

\* No request changes what is filed under two trees: merging persons re-points
\* proxies in many trees but moves nothing between or out of them.
OneTreePerStep ==
    [][\A s, t \in TreeNames :
          s = t \/ UNCHANGED FiledUnder(s) \/ UNCHANGED FiledUnder(t)]_vars

\* A decided proposal is history: no later or repeated decision, and no
\* deletion of its proxies or trees, changes it.
DecidedIsFinal ==
    [][\A m \in Live(proposal) :
          ~Pending(m) => proposal'[m] = proposal[m]]_vars

SamePerson(p, q) == proxy[p].person = proxy[q].person

\* The identity layer: the persons are merged as PersonIdentity says.
Identity == INSTANCE PersonIdentity WITH
    Proxies <- ProxyIds,
    present <- Live(proxy),
    same <- {pq \in Live(proxy) \X Live(proxy) : SamePerson(pq[1], pq[2])},
    open <- {{proposal[m].from, proposal[m].to} :
                m \in {n \in Live(proposal) : Pending(n)}}

\* Whatever happens to trees, proxies and proposals, and wherever an accept
\* is cut off, proxies known to be one person stay one person, and two become
\* one only while a proposal between two of their proxies is pending.
ImplementsIdentity == Identity!Spec
=============================================================================
