----------------------------- MODULE ClannClaims ----------------------------
(***************************************************************************)
(* What comments, API descriptions and the README say of the handlers and  *)
(* the code does not do.  Each property is violated by a run of its own.   *)
(***************************************************************************)
EXTENDS ClannServer

\* merge.rs:239, "Winning canonical: canonical_a": the canonical that wins a
\* merge is there when the proposal has been accepted.
WinnerSurvives ==
    [][\A m \in ProposalIds :
          Pending(m) /\ proposal'[m].status = "accepted" =>
              person'[CanonicalA(m)] # Absent]_vars

\* merge.rs:176, "Accepted - canonicals merged": after an acceptance the two
\* proxies of the proposal have one canonical.
AcceptedMeansMerged ==
    [][\A m \in ProposalIds :
          Pending(m) /\ proposal'[m].status = "accepted" =>
              SamePerson(proposal[m].from, proposal[m].to)']_vars

\* family_tree.rs:288, "auto-delete any canonical persons that have no
\* remaining proxies": delete_tree deletes the canonicals of its proxies that
\* are left without one, and no other.
SweepsUnusedCanonicals ==
    [][\A t \in TreeNames :
          t \in Live(trees) /\ t \notin Live(trees') =>
              Live(person') = Live(person) \
                  {proxy[p].person : p \in {q \in ProxiesIn(t) :
                      ProxiesOf(proxy[q].person) \subseteq ProxiesIn(t)}}]_vars

\* person.rs:794, "re-pointing their edges": whom the loser had as a parent,
\* child, sibling or spouse the survivor has after the collapse, also when
\* the survivor had an edge of that kind before.
EdgesRepointed ==
    [][\A l, s \in ProxyIds :
          l # s /\ CollapseStep(NoAuth, l, s) =>
              \A e \in edges :
                  /\ e.in = l
                  /\ e.out \notin {l, s}
                  /\ \E f \in edges : f.rel = e.rel /\ f.in = s
                  => \E f \in edges' : SameEnds(f, e.rel, s, e.out)]_vars

\* The birth parents two proxies share, as the edges E record them.
SharedBirthParents(E, p, q) ==
    {x \in ProxyIds : \A k \in {p, q} : \E e \in E :
        e.rel \in ParentRels /\ e.in = k /\ e.out = x /\ e.pedigree = "birth"}

\* README.md:241, "half: Half sibling - shares exactly one biological parent":
\* recording a parent's pedigree does not turn half siblings who share just
\* this parent into full ones.
HalfSiblingsStayHalf ==
    [][\A p, q \in ProxyIds, rel \in ParentRels :
          UpdateParentPedigree(NoAuth, p, q, rel, "birth", FALSE) =>
              \A e \in edges :
                  /\ e.rel = "has_sibling" /\ e.pedigree = "half"
                  /\ Cardinality(SharedBirthParents(edges', e.in, e.out)) = 1
                  => e \in edges']_vars
=============================================================================
