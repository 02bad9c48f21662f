---------------------------- MODULE MergeHandlers ---------------------------
(***************************************************************************)
(* handlers/merge.rs: proposals to merge the canonical persons behind two  *)
(* proxies of different trees, and their acceptance or rejection.          *)
(***************************************************************************)
EXTENDS ClannStore

Between(m, p, q) == {proposal[m].from, proposal[m].to} = {p, q}

Pending(m) == m \in Live(proposal) /\ proposal[m].status = "pending"

\* A duplicate check that looks at one direction only.
PendingFromTo(p, q) ==
    \E m \in ProposalIds :
        Pending(m) /\ proposal[m].from = p /\ proposal[m].to = q

PendingBetween(p, q) == \E m \in ProposalIds : Pending(m) /\ Between(m, p, q)

\* The row with the persons' ids in place of the proxies'.
ProposalOfPersons(p, q) ==
    [from |-> proxy[p].person, to |-> proxy[q].person, status |-> "pending"]

NewProposal(p, q) == [from |-> p, to |-> q, status |-> "pending"]

CreateMergeProposal(u, p, q, m) ==
    /\ p \in Live(proxy) /\ q \in Live(proxy)
    /\ proxy[p].tree # proxy[q].tree
    /\ proxy[p].person # proxy[q].person
    /\ CanWriteToProxy(u, p)
    /\ ~PendingBetween(p, q)
    /\ m \in Fresh(ProposalIds)
    /\ proposal' = [proposal EXCEPT ![m] = NewProposal(p, q)]
    /\ issued' = issued \cup {m}
    /\ UNCHANGED <<trees, editors, person, proxy, edges, lifeEvent>>

\* A decision that may be taken again.
MayDecideAgain(u, m) ==
    /\ m \in Live(proposal)
    /\ proposal[m].to \in Live(proxy)
    /\ CanWriteToProxy(u, proposal[m].to)

\* Pending, and its target proxy is there and writable for the caller.
MayDecide(u, m) ==
    /\ Pending(m)
    /\ proposal[m].to \in Live(proxy)
    /\ CanWriteToProxy(u, proposal[m].to)

RejectMergeProposal(u, m) ==
    /\ MayDecide(u, m)
    /\ proposal' = [proposal EXCEPT ![m].status = "rejected"]
    /\ UNCHANGED <<trees, editors, person, proxy, edges, lifeEvent, issued>>
-----------------------------------------------------------------------------
\* The canonicals as they are when the proposal is accepted.
CanonicalA(m) == proxy[proposal[m].from].person
CanonicalB(m) == proxy[proposal[m].to].person

\* The hard fields conflict.  The model keeps one of the six, the birth
\* certificate; a conflict on the others changes no row.
Conflict(a, b) ==
    /\ NoCert \notin {person[a].cert, person[b].cert}
    /\ person[a].cert # person[b].cert

\* The resolution's certificate, NoCert if it names none, written to a.
Resolved(a, cert) ==
    IF cert = NoCert THEN person ELSE [person EXCEPT ![a].cert = cert]

\* Some tree has a proxy of a and one of b: pointing both to a would break
\* unique_proxy_canonical_tree.
Overlap(a, b) ==
    /\ a # b
    /\ \E p \in ProxiesOf(a), q \in ProxiesOf(b) : proxy[p].tree = proxy[q].tree

\* An update that re-points one of the proxies.
RepointedOne(a, b) ==
    IF Overlap(a, b) \/ ProxiesOf(b) = {} THEN proxy
    ELSE [proxy EXCEPT ![CHOOSE p \in ProxiesOf(b) : TRUE].person = a]

\* UPDATE person_proxy SET person_id = $a WHERE person_id = $b.  One row the
\* index rejects undoes the statement, and the handler never asks for the
\* statement's result.
Repointed(a, b) ==
    IF Overlap(a, b) THEN proxy
    ELSE [p \in ProxyIds |->
             IF p \in ProxiesOf(b) THEN [proxy[p] EXCEPT !.person = a]
                                   ELSE proxy[p]]

\* The handler's four writes in order; done counts those that took effect.
\* The last one may also be refused by the database: it sets the column
\* resolution, an option<object>, from JSON, null when none was given.
AcceptMergeProposal(u, m, resolution, cert, done) ==
    /\ MayDecide(u, m)
    /\ proposal[m].from \in Live(proxy)
    /\ LET a == CanonicalA(m)
           b == CanonicalB(m)
       IN /\ a \in Live(person) /\ b \in Live(person)
          /\ Conflict(a, b) => resolution
          /\ ~resolution => cert = NoCert
          /\ CertFree(cert, a)
          /\ person' = IF done >= 3 THEN Dropped(Resolved(a, cert), {b})
                                    ELSE Resolved(a, cert)
          /\ proxy' = IF done >= 2 THEN Repointed(a, b) ELSE proxy
          /\ proposal' = IF done = 4
                         THEN [proposal EXCEPT ![m].status = "accepted"]
                         ELSE proposal
    /\ UNCHANGED <<trees, editors, edges, lifeEvent, issued>>
=============================================================================
