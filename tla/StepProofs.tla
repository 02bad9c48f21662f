----------------------------- MODULE StepProofs -----------------------------
(***************************************************************************)
(* What no step of the server does, for all values of the constants: the   *)
(* action properties, from the invariants of ClannServerProofs.  The last  *)
(* section shows that the server implements PersonIdentity.                *)
(***************************************************************************)
EXTENDS ClannServerProofs

\* Who writes which tables.
LEMMA TreeStepWrites ==
    ASSUME NEW u \in Callers, TreeStep(u), ~TreeSweep
    PROVE  UNCHANGED <<person, proxy, edges, lifeEvent, proposal, issued>>
BY DEF TreeStep, TreeSweep, CreateTree, SetPrimaryTree, SetTreeTeam,
       AddTreeEditor, RemoveTreeEditor

LEMMA RelationshipStepWrites ==
    ASSUME NEW u \in Callers, RelationshipStep(u)
    PROVE  EdgesUntouched
BY DEF RelationshipStep, AddParent, AddSibling, AddSpouse, DeleteRelationship,
       UpdateParentPedigree, UpdateSiblingPedigree, UpdateSpouseDates

LEMMA LifeEventStepWrites ==
    ASSUME NEW u \in Callers, LifeEventStep(u)
    PROVE  UNCHANGED <<trees, editors, person, proxy, edges, proposal>>
BY DEF LifeEventStep, CreateLifeEvent, DeleteLifeEvent, PromoteLifeEvent
-----------------------------------------------------------------------------
(* A decided proposal stays as it was decided.                             *)

LEMMA DecidedKept ==
    ASSUME IInv, [Next]_vars, NEW m \in Live(proposal), ~Pending(m)
    PROVE  proposal'[m] = proposal[m]
<1>1. CASE UNCHANGED proposal
    BY <1>1
<1>2. ASSUME NEW u \in Callers, NEW p \in ProxyIds, NEW q \in ProxyIds,
             NEW n \in ProposalIds, CreateMergeProposal(u, p, q, n)
      PROVE  proposal'[m] = proposal[m]
    <2>1. n # m
        BY <1>2 DEF CreateMergeProposal, Fresh, OnlyIssuedIds, IInv
    <2> QED
        BY <1>2, <2>1 DEF CreateMergeProposal
<1>3. ASSUME NEW u \in Callers, NEW n \in ProposalIds, RejectMergeProposal(u, n)
      PROVE  proposal'[m] = proposal[m]
    <2>1. n # m
        BY <1>3 DEF RejectMergeProposal, MayDecide
    <2> QED
        BY <1>3, <2>1 DEF RejectMergeProposal
<1>4. ASSUME NEW u \in Callers, NEW n \in ProposalIds, NEW resolution \in BOOLEAN,
             NEW cert \in Certs \cup {NoCert}, NEW done \in 1..4,
             AcceptMergeProposal(u, n, resolution, cert, done)
      PROVE  proposal'[m] = proposal[m]
    <2>1. n # m
        BY <1>4 DEF AcceptMergeProposal, MayDecide
    <2> DEFINE row == [proposal[n] EXCEPT !.status = "accepted"]
    <2>2. proposal' = [proposal EXCEPT ![n] = row] \/ proposal' = proposal
        BY <1>4 DEF AcceptMergeProposal
    <2> HIDE DEF row
    <2> QED
        BY <2>1, <2>2 DEF Live
<1>5. ASSUME NEW u \in Callers, TreeStep(u)
      PROVE  UNCHANGED proposal
    BY <1>5, TreeStepWrites DEF TreeSweep, DeleteTree
<1>6. ASSUME NEW u \in Callers, PersonStep(u)
      PROVE  UNCHANGED proposal
    BY <1>6 DEF PersonStep, CreatePerson, UpdatePerson, UpdateCanonical,
       DeletePerson, AddPersonToTree, RemovePersonFromTree, CollapseSameTree
<1>7. ASSUME NEW u \in Callers, MergeStep(u)
      PROVE  proposal'[m] = proposal[m]
    BY <1>2, <1>3, <1>4, <1>7 DEF MergeStep
<1>8. ASSUME NEW u \in Callers, Interrupted(u)
      PROVE  proposal'[m] = proposal[m]
    <2>1. CASE \E n \in ProposalIds, resolution \in BOOLEAN,
                  cert \in Certs \cup {NoCert}, done \in 1..3 :
                  AcceptMergeProposal(u, n, resolution, cert, done)
        BY <1>4, <2>1
    <2>2. CASE ~\E n \in ProposalIds, resolution \in BOOLEAN,
                   cert \in Certs \cup {NoCert}, done \in 1..3 :
                   AcceptMergeProposal(u, n, resolution, cert, done)
        <3>1. UNCHANGED proposal
            BY <1>8, <2>2 DEF Interrupted, CreateTree, CreatePerson, DeletePerson,
               CollapseSameTree, UpdateParentPedigree, EdgesUntouched
        <3> QED
            BY <3>1
    <2> QED
        BY <2>1, <2>2
<1>9. CASE UNCHANGED vars
    BY <1>9 DEF vars
<1> QED
    BY <1>1, <1>5, <1>6, <1>7, <1>8, <1>9, RelationshipStepWrites,
       LifeEventStepWrites DEF Next, EdgesUntouched

\* Nothing that happens after a decision changes it: no repeated decision, no
\* deletion of the proxies or trees, no later proposal.
THEOREM DecidedIsFinalCorrect == Spec => DecidedIsFinal
<1>1. IInv /\ [Next]_vars =>
         [\A m \in Live(proposal) : ~Pending(m) => proposal'[m] = proposal[m]]_vars
    BY DecidedKept
<1> QED
    BY <1>1, IInvCorrect, PTL DEF Spec, DecidedIsFinal
-----------------------------------------------------------------------------
(* Canonicals are there for their proxies.                                 *)

LEMMA CanonicalsKeptByTreeStep ==
    ASSUME IInv, CanonicalsExist, NEW u \in Callers, TreeStep(u)
    PROVE  CanonicalsExist' \/ (EmptyCountIsZero /\ TreeSweep)
<1>1. CASE ~TreeSweep
    BY <1>1, TreeStepWrites DEF CanonicalsExist, Live
<1>2. CASE TreeSweep /\ ~EmptyCountIsZero
    <2>1. PICK t \in TreeNames : DeleteTree(t)
        BY <1>2 DEF TreeSweep
    <2>2. Live(person') = Live(person)
        <3>1. SweptCanonicals(t) = {}
            BY <1>2 DEF SweptCanonicals
        <3>2. person' = Dropped(person, {})
            BY <2>1, <3>1 DEF DeleteTree
        <3>3. Live(Dropped(person, {})) = Live(person) \ {}
            BY LiveDropped
        <3> QED
            BY <3>2, <3>3
    <2>3. /\ Live(proxy') \subseteq Live(proxy)
          /\ \A p \in Live(proxy') : proxy'[p] = proxy[p]
        <3>1. proxy' = Dropped(proxy, ProxiesIn(t))
            BY <2>1 DEF DeleteTree, CascadeProxies
        <3> QED
            BY <3>1, LiveDropped
    <2> QED
        BY <2>2, <2>3 DEF CanonicalsExist
<1> QED
    BY <1>1, <1>2

LEMMA CanonicalsKeptByDelete ==
    ASSUME IInv, CanonicalsExist, NEW u \in Callers, NEW p \in ProxyIds,
           \/ \E interrupted \in BOOLEAN : DeletePerson(u, p, interrupted)
           \/ RemovePersonFromTree(u, p)
    PROVE  CanonicalsExist'
<1>1. /\ Live(proxy') = Live(proxy) \ {p}
      /\ \A q \in Live(proxy') : proxy'[q] = proxy[q]
    BY LiveDropped DEF DeletePerson, RemovePersonFromTree, CascadeProxies
<1>2. \/ person' = person
      \/ LastProxy(p) /\ Live(person') = Live(person) \ {proxy[p].person}
    BY LiveDropped DEF DeletePerson, RemovePersonFromTree
<1>3. LastProxy(p) => \A q \in Live(proxy) : proxy[q].person = proxy[p].person
                                                => q = p
    BY DEF LastProxy, ProxiesOf
<1> QED
    BY <1>1, <1>2, <1>3 DEF CanonicalsExist

LEMMA CanonicalsKeptByCollapse ==
    ASSUME IInv, CanonicalsExist,
           NEW u \in Callers, NEW l \in ProxyIds, NEW s \in ProxyIds,
           NEW interrupted \in BOOLEAN, CollapseSameTree(u, l, s, interrupted)
    PROVE  CanonicalsExist'
<1>1. /\ Live(proxy') = Live(proxy) \ {l}
      /\ \A q \in Live(proxy') : proxy'[q] = proxy[q]
    BY LiveDropped DEF CollapseSameTree
<1>2. \/ person' = person
      \/ LastProxy(l) /\ Live(person') = Live(person) \ {proxy[l].person}
    BY LiveDropped DEF CollapseSameTree
<1>3. LastProxy(l) => \A q \in Live(proxy) : proxy[q].person = proxy[l].person
                                                => q = l
    BY DEF LastProxy, ProxiesOf
<1> QED
    BY <1>1, <1>2, <1>3 DEF CanonicalsExist

LEMMA CanonicalsKeptByCreatePerson ==
    ASSUME IInv, CanonicalsExist,
           NEW u \in Callers, NEW t \in TreeNames, NEW cr \in Users \cup {Nobody},
           NEW cert \in Certs \cup {NoCert}, NEW c \in PersonIds,
           NEW p \in ProxyIds, NEW interrupted \in BOOLEAN,
           CreatePerson(u, t, cr, cert, c, p, interrupted)
    PROVE  CanonicalsExist'
<1> DEFINE canonical == [creator |-> cr, cert |-> cert]
           row == [person |-> c, tree |-> t, creator |-> cr]
<1>1. Live(person) \cup {c} \subseteq Live(person')
    <2>1. person' = [person EXCEPT ![c] = canonical]
        BY DEF CreatePerson
    <2>2. canonical # Absent
        BY NoRowAssumption DEF PersonRow
    <2> HIDE DEF canonical
    <2> QED
        BY <2>1, <2>2 DEF Live, IInv, TypeOK
<1>2. proxy' = proxy \/ proxy' = [proxy EXCEPT ![p] = row]
    BY DEF CreatePerson
<1>3. \A q \in Live(proxy') :
         \/ q \in Live(proxy) /\ proxy'[q] = proxy[q]
         \/ proxy'[q].person = c
    <2>1. row.person = c
        OBVIOUS
    <2> HIDE DEF row
    <2> QED
        BY <1>2, <2>1 DEF Live, IInv, TypeOK
<1> QED
    BY <1>1, <1>3 DEF CanonicalsExist

LEMMA CanonicalsKeptByProxyUpdate ==
    ASSUME IInv, CanonicalsExist,
           NEW u \in Callers, NEW p \in ProxyIds,
           \/ \E cr \in Users : UpdatePerson(u, p, cr)
           \/ \E cert \in Certs : UpdateCanonical(u, p, cert)
           \/ \E t \in TreeNames, q \in ProxyIds : AddPersonToTree(u, p, t, q)
    PROVE  CanonicalsExist'
<1>1. p \in Live(proxy) /\ proxy[p] \in ProxyRow /\ proxy[p].person \in Live(person)
    BY LiveRows DEF UpdatePerson, UpdateCanonical, AddPersonToTree, Fetchable, IInv
<1>2. CASE \E cr \in Users : UpdatePerson(u, p, cr)
    <2> PICK cr \in Users : UpdatePerson(u, p, cr)
        BY <1>2
    <2>1. /\ proxy' = [proxy EXCEPT ![p] = [proxy[p] EXCEPT !.creator = cr]]
          /\ person' = person
        BY DEF UpdatePerson
    <2>2. [proxy[p] EXCEPT !.creator = cr].person = proxy[p].person
        BY <1>1 DEF ProxyRow
    <2> QED
        BY <1>1, <2>1, <2>2 DEF CanonicalsExist, Live, IInv, TypeOK
<1>3. CASE \E cert \in Certs : UpdateCanonical(u, p, cert)
    <2> PICK cert \in Certs : UpdateCanonical(u, p, cert)
        BY <1>3
    <2>1. PICK c \in Live(person) :
             /\ CertFree(cert, c) /\ proxy' = proxy
             /\ person' = [person EXCEPT ![c].cert = cert]
        BY DEF UpdateCanonical, Fetchable
    <2>2. LET P == [person EXCEPT ![c].cert = cert] IN Live(P) = Live(person)
        BY <2>1, CertWritten
    <2> QED
        BY <2>1, <2>2 DEF CanonicalsExist
<1>4. CASE \E t \in TreeNames, q \in ProxyIds : AddPersonToTree(u, p, t, q)
    <2> PICK t \in TreeNames, q \in ProxyIds : AddPersonToTree(u, p, t, q)
        BY <1>4
    <2>1. /\ proxy' = [proxy EXCEPT ![q] = [proxy[p] EXCEPT !.tree = t]]
          /\ person' = person
        BY DEF AddPersonToTree
    <2>2. [proxy[p] EXCEPT !.tree = t].person = proxy[p].person
        BY <1>1 DEF ProxyRow
    <2> QED
        BY <1>1, <2>1, <2>2 DEF CanonicalsExist, Live, IInv, TypeOK
<1> QED
    BY <1>2, <1>3, <1>4

LEMMA CanonicalsKeptByAccept ==
    ASSUME IInv, CanonicalsExist,
           NEW u \in Callers, NEW m \in ProposalIds, NEW resolution \in BOOLEAN,
           NEW cert \in Certs \cup {NoCert}, NEW done \in 1..4,
           AcceptMergeProposal(u, m, resolution, cert, done)
    PROVE  CanonicalsExist' \/ AcceptOutdated
<1> DEFINE a == CanonicalA(m)
           b == CanonicalB(m)
<1>1. /\ a \in Live(person) /\ b \in Live(person) /\ a \in PersonIds
      /\ CertFree(cert, a)
    BY LiveRows DEF AcceptMergeProposal, IInv
<1>2. /\ person' = IF done >= 3 THEN Dropped(Resolved(a, cert), {b})
                                ELSE Resolved(a, cert)
      /\ proxy' = IF done >= 2 THEN Repointed(a, b) ELSE proxy
    BY DEF AcceptMergeProposal
<1> HIDE DEF a, b
<1>3. Live(Resolved(a, cert)) = Live(person)
    <2>1. CASE cert = NoCert
        BY <2>1 DEF Resolved
    <2>2. CASE cert # NoCert
        <3>1. LET P == [person EXCEPT ![a].cert = cert] IN Live(P) = Live(person)
            BY <1>1, <2>2, CertWritten
        <3> QED
            BY <2>2, <3>1 DEF Resolved
    <2> QED
        BY <2>1, <2>2
<1>4. /\ Live(Repointed(a, b)) = Live(proxy)
      /\ \A p \in Live(proxy) :
            Repointed(a, b)[p].person = IF ~Overlap(a, b) /\ proxy[p].person = b
                                        THEN a ELSE proxy[p].person
    BY <1>1, RepointedRows DEF IInv
<1>5. CASE done < 3
    BY <1>1, <1>2, <1>3, <1>4, <1>5 DEF CanonicalsExist
<1>6. CASE done >= 3 /\ (a = b \/ Overlap(a, b))
    <2>1. done \in 3..4 /\ Outdated(m)
        BY <1>6 DEF Outdated, a, b
    <2> QED
        BY <2>1 DEF AcceptOutdated
<1>7. CASE done >= 3 /\ a # b /\ ~Overlap(a, b)
    <2>1. Live(person') = Live(person) \ {b}
        BY <1>2, <1>3, <1>7, LiveDropped
    <2>2. proxy' = Repointed(a, b)
        BY <1>2, <1>7
    <2> QED
        BY <1>1, <1>4, <1>7, <2>1, <2>2 DEF CanonicalsExist
<1> QED
    BY <1>5, <1>6, <1>7

LEMMA CanonicalsKeptByStep ==
    ASSUME IInv, CanonicalsExist, [Next]_vars
    PROVE  \/ CanonicalsExist'
           \/ AcceptOutdated
           \/ EmptyCountIsZero /\ TreeSweep
<1>1. CASE UNCHANGED <<person, proxy>>
    BY <1>1 DEF CanonicalsExist, Live
<1>2. ASSUME NEW u \in Callers, PersonStep(u)
      PROVE  CanonicalsExist'
    BY <1>2, CanonicalsKeptByCreatePerson, CanonicalsKeptByProxyUpdate,
       CanonicalsKeptByDelete, CanonicalsKeptByCollapse DEF PersonStep
<1>3. ASSUME NEW u \in Callers, MergeStep(u)
      PROVE  CanonicalsExist' \/ AcceptOutdated
    <2>1. CASE \E m \in ProposalIds, resolution \in BOOLEAN,
                  cert \in Certs \cup {NoCert} :
                  AcceptMergeProposal(u, m, resolution, cert, 4)
        BY <2>1, CanonicalsKeptByAccept
    <2>2. CASE UNCHANGED <<person, proxy>>
        BY <1>1, <2>2 DEF CanonicalsExist, Live
    <2> QED
        BY <1>3, <2>1, <2>2 DEF MergeStep, CreateMergeProposal, RejectMergeProposal
<1>4. ASSUME NEW u \in Callers, Interrupted(u)
      PROVE  CanonicalsExist' \/ AcceptOutdated
    <2>1. CASE \E t \in TreeNames, cr \in Users \cup {Nobody},
                  cert \in Certs \cup {NoCert}, c \in PersonIds, p \in ProxyIds :
                  CreatePerson(u, t, cr, cert, c, p, TRUE)
        BY <2>1, CanonicalsKeptByCreatePerson
    <2>2. CASE \E p \in ProxyIds : DeletePerson(u, p, TRUE)
        BY <2>2, CanonicalsKeptByDelete
    <2>3. CASE \E l, s \in ProxyIds : CollapseSameTree(u, l, s, TRUE)
        BY <2>3, CanonicalsKeptByCollapse
    <2>4. CASE \E m \in ProposalIds, resolution \in BOOLEAN,
                  cert \in Certs \cup {NoCert}, done \in 1..3 :
                  AcceptMergeProposal(u, m, resolution, cert, done)
        BY <2>4, CanonicalsKeptByAccept
    <2>5. CASE UNCHANGED <<person, proxy>>
        BY <2>5 DEF CanonicalsExist, Live
    <2> QED
        BY <1>4, <2>1, <2>2, <2>3, <2>4, <2>5 DEF Interrupted, CreateTree,
           UpdateParentPedigree, EdgesUntouched
<1>5. CASE UNCHANGED vars
    BY <1>1, <1>5 DEF vars
<1> QED
    BY <1>1, <1>2, <1>3, <1>4, <1>5, CanonicalsKeptByTreeStep,
       RelationshipStepWrites, LifeEventStepWrites DEF Next, EdgesUntouched

\* A canonical is not taken from a proxy by any handler, complete or cut off,
\* but the two this states.
THEOREM CanonicalsKeptCorrect == Spec => CanonicalsKept
<1>1. IInv /\ [Next]_vars =>
         [CanonicalsExist => \/ CanonicalsExist'
                             \/ AcceptOutdated
                             \/ EmptyCountIsZero /\ TreeSweep]_vars
    BY CanonicalsKeptByStep
<1> QED
    BY <1>1, IInvCorrect, PTL DEF Spec, CanonicalsKept
-----------------------------------------------------------------------------
(* Life events stay with a proxy.                                          *)

\* The DELETE batch takes the events of the proxies it takes.
LEMMA EventsCascade ==
    ASSUME EventsAttached, NEW ps, CascadeProxies(ps)
    PROVE  EventsAttached'
<1>1. Live(proxy') = Live(proxy) \ ps
    BY LiveDropped DEF CascadeProxies
<1>2. /\ Live(lifeEvent') = Live(lifeEvent) \ EventsOf(ps)
      /\ \A e \in Live(lifeEvent') : lifeEvent'[e] = lifeEvent[e]
    BY LiveDropped DEF CascadeProxies
<1> QED
    BY <1>1, <1>2 DEF EventsAttached, EventsOf

\* A collapse hands the loser's events to the survivor, which stays.
LEMMA EventsCollapse ==
    ASSUME IInv, EventsAttached,
           NEW u \in Callers, NEW l \in ProxyIds, NEW s \in ProxyIds,
           NEW interrupted \in BOOLEAN, CollapseSameTree(u, l, s, interrupted)
    PROVE  EventsAttached' \/ SelfCollapse
<1>1. CASE l = s
    BY <1>1 DEF SelfCollapse, CollapseStep
<1>2. CASE l # s
    <2>1. Live(proxy') = Live(proxy) \ {l} /\ s \in Live(proxy)
        BY LiveDropped DEF CollapseSameTree
    <2>2. /\ Live(lifeEvent') = Live(lifeEvent)
          /\ \A e \in Live(lifeEvent) :
                lifeEvent'[e].proxy = IF lifeEvent[e].proxy = l THEN s
                                      ELSE lifeEvent[e].proxy
        BY EventsMovedRows DEF CollapseSameTree, IInv
    <2> QED
        BY <1>2, <2>1, <2>2 DEF EventsAttached
<1> QED
    BY <1>1, <1>2

\* Handlers that create proxies or change columns of theirs.
LEMMA ProxiesStay ==
    ASSUME IInv, NEW u \in Callers,
           \/ \E t \in TreeNames, cr \in Users \cup {Nobody},
                 cert \in Certs \cup {NoCert}, c \in PersonIds, p \in ProxyIds,
                 interrupted \in BOOLEAN :
                 CreatePerson(u, t, cr, cert, c, p, interrupted)
           \/ \E p \in ProxyIds, cr \in Users : UpdatePerson(u, p, cr)
           \/ \E p, q \in ProxyIds, t \in TreeNames : AddPersonToTree(u, p, t, q)
           \/ \E m \in ProposalIds, resolution \in BOOLEAN,
                 cert \in Certs \cup {NoCert}, done \in 1..4 :
                 AcceptMergeProposal(u, m, resolution, cert, done)
    PROVE  Live(proxy) \subseteq Live(proxy') /\ UNCHANGED lifeEvent
<1>1. \A p \in Fresh(ProxyIds) : \A row :
         Live(proxy) \subseteq Live([proxy EXCEPT ![p] = row])
    BY DEF Fresh, Live, OnlyIssuedIds, IInv
<1>2. ASSUME NEW t \in TreeNames, NEW cr \in Users \cup {Nobody},
             NEW cert \in Certs \cup {NoCert}, NEW c \in PersonIds,
             NEW p \in ProxyIds, NEW interrupted \in BOOLEAN,
             CreatePerson(u, t, cr, cert, c, p, interrupted)
      PROVE  Live(proxy) \subseteq Live(proxy') /\ UNCHANGED lifeEvent
    BY <1>1, <1>2 DEF CreatePerson
<1>3. ASSUME NEW p \in ProxyIds, NEW cr \in Users, UpdatePerson(u, p, cr)
      PROVE  Live(proxy) \subseteq Live(proxy') /\ UNCHANGED lifeEvent
    <2> DEFINE row == [proxy[p] EXCEPT !.creator = cr]
    <2>1. p \in Live(proxy) /\ proxy[p] \in ProxyRow /\ DOMAIN proxy = ProxyIds
        BY <1>3, LiveRows DEF UpdatePerson, Fetchable, IInv, TypeOK
    <2>2. proxy' = [proxy EXCEPT ![p] = row] /\ UNCHANGED lifeEvent
        BY <1>3 DEF UpdatePerson
    <2>3. row # Absent
        <3>1. row \in ProxyRow
            BY <2>1 DEF ProxyRow
        <3> QED
            BY <3>1, NoRowAssumption
    <2> HIDE DEF row
    <2> QED
        BY <2>1, <2>2, <2>3 DEF Live
<1>4. ASSUME NEW p \in ProxyIds, NEW q \in ProxyIds, NEW t \in TreeNames,
             AddPersonToTree(u, p, t, q)
      PROVE  Live(proxy) \subseteq Live(proxy') /\ UNCHANGED lifeEvent
    BY <1>1, <1>4 DEF AddPersonToTree
<1>5. ASSUME NEW m \in ProposalIds, NEW resolution \in BOOLEAN,
             NEW cert \in Certs \cup {NoCert}, NEW done \in 1..4,
             AcceptMergeProposal(u, m, resolution, cert, done)
      PROVE  Live(proxy) \subseteq Live(proxy') /\ UNCHANGED lifeEvent
    <2>1. CanonicalA(m) \in PersonIds
        BY <1>5, LiveRows DEF AcceptMergeProposal, IInv
    <2>2. /\ proxy' = proxy \/ proxy' = Repointed(CanonicalA(m), CanonicalB(m))
          /\ UNCHANGED lifeEvent
        BY <1>5 DEF AcceptMergeProposal
    <2> QED
        BY <2>1, <2>2, RepointedRows DEF IInv
<1> QED
    BY <1>2, <1>3, <1>4, <1>5

\* An event is created for a proxy there is; a promotion leaves it with its proxy.
LEMMA EventsByLifeEventStep ==
    ASSUME IInv, EventsAttached, NEW u \in Callers, LifeEventStep(u)
    PROVE  EventsAttached'
<1>1. UNCHANGED proxy
    BY LifeEventStepWrites
<1>2. ASSUME NEW p \in ProxyIds, NEW canonical \in BOOLEAN, NEW e \in EventIds,
             CreateLifeEvent(u, p, canonical, e)
      PROVE  EventsAttached'
    <2> DEFINE row == [proxy |-> p, tree |-> proxy[p].tree, canonical |-> canonical]
    <2>1. p \in Live(proxy) /\ lifeEvent' = [lifeEvent EXCEPT ![e] = row]
        BY <1>2 DEF CreateLifeEvent, Fetchable
    <2>2. row.proxy = p
        OBVIOUS
    <2> HIDE DEF row
    <2> QED
        BY <1>1, <2>1, <2>2 DEF EventsAttached, Live, IInv, TypeOK
<1>3. ASSUME NEW e \in EventIds, DeleteLifeEvent(u, e)
      PROVE  EventsAttached'
    BY <1>1, <1>3, LiveDropped DEF DeleteLifeEvent, EventsAttached
<1>4. ASSUME NEW e \in EventIds, PromoteLifeEvent(u, e)
      PROVE  EventsAttached'
    <2> DEFINE row == [lifeEvent[e] EXCEPT !.canonical = TRUE]
    <2>1. /\ e \in Live(lifeEvent) /\ lifeEvent[e] \in EventRow
          /\ lifeEvent' = [lifeEvent EXCEPT ![e] = row]
        BY <1>4, LiveRows DEF PromoteLifeEvent, MayChangeEvent, IInv
    <2>2. row.proxy = lifeEvent[e].proxy
        BY <2>1 DEF EventRow
    <2> HIDE DEF row
    <2> QED
        BY <1>1, <2>1, <2>2 DEF EventsAttached, Live, IInv, TypeOK
<1> QED
    BY <1>2, <1>3, <1>4 DEF LifeEventStep

\* No step of a handler detaches an event, but the collapse of a proxy into itself.
LEMMA EventsKeptByStep ==
    ASSUME IInv, EventsAttached, [Next]_vars
    PROVE  EventsAttached' \/ SelfCollapse
<1>1. CASE UNCHANGED <<proxy, lifeEvent>>
    BY <1>1 DEF EventsAttached, Live
<1>2. ASSUME Live(proxy) \subseteq Live(proxy') /\ UNCHANGED lifeEvent
      PROVE  EventsAttached'
    BY <1>2 DEF EventsAttached
<1>3. ASSUME NEW u \in Callers, TreeStep(u)
      PROVE  EventsAttached'
    <2>1. CASE TreeSweep
        BY <2>1, EventsCascade DEF TreeSweep, DeleteTree
    <2>2. CASE ~TreeSweep
        BY <1>3, <2>2, TreeStepWrites DEF EventsAttached, Live
    <2> QED
        BY <2>1, <2>2
<1>4. ASSUME NEW u \in Callers, PersonStep(u)
      PROVE  EventsAttached' \/ SelfCollapse
    <2>1. CASE \E p \in ProxyIds :
                  DeletePerson(u, p, FALSE) \/ RemovePersonFromTree(u, p)
        BY <2>1, EventsCascade DEF DeletePerson, RemovePersonFromTree
    <2>2. CASE \E l, s \in ProxyIds : CollapseSameTree(u, l, s, FALSE)
        BY <2>2, EventsCollapse
    <2>3. CASE \E p \in ProxyIds, cert \in Certs : UpdateCanonical(u, p, cert)
        BY <1>1, <2>3 DEF UpdateCanonical
    <2> QED
        BY <1>2, <1>4, <2>1, <2>2, <2>3, ProxiesStay DEF PersonStep
<1>5. ASSUME NEW u \in Callers, MergeStep(u)
      PROVE  EventsAttached'
    <2>1. CASE \E m \in ProposalIds, resolution \in BOOLEAN,
                  cert \in Certs \cup {NoCert} :
                  AcceptMergeProposal(u, m, resolution, cert, 4)
        BY <1>2, <2>1, ProxiesStay
    <2>2. CASE UNCHANGED <<proxy, lifeEvent>>
        BY <2>2 DEF EventsAttached, Live
    <2> QED
        BY <1>5, <2>1, <2>2 DEF MergeStep, CreateMergeProposal, RejectMergeProposal
<1>6. ASSUME NEW u \in Callers, Interrupted(u)
      PROVE  EventsAttached' \/ SelfCollapse
    <2>1. CASE \E p \in ProxyIds : DeletePerson(u, p, TRUE)
        BY <2>1, EventsCascade DEF DeletePerson
    <2>2. CASE \E l, s \in ProxyIds : CollapseSameTree(u, l, s, TRUE)
        BY <2>2, EventsCollapse
    <2>3. CASE \E m \in ProposalIds, resolution \in BOOLEAN,
                  cert \in Certs \cup {NoCert}, done \in 1..3 :
                  AcceptMergeProposal(u, m, resolution, cert, done)
        BY <1>2, <2>3, ProxiesStay
    <2>4. CASE \E t \in TreeNames, cr \in Users \cup {Nobody},
                  cert \in Certs \cup {NoCert}, c \in PersonIds, p \in ProxyIds :
                  CreatePerson(u, t, cr, cert, c, p, TRUE)
        BY <1>2, <2>4, ProxiesStay
    <2>5. CASE UNCHANGED <<proxy, lifeEvent>>
        BY <1>1, <2>5
    <2> QED
        BY <1>6, <2>1, <2>2, <2>3, <2>4, <2>5 DEF Interrupted, CreateTree,
           UpdateParentPedigree, EdgesUntouched
<1>7. CASE UNCHANGED vars
    BY <1>1, <1>7 DEF vars
<1> QED
    BY <1>1, <1>3, <1>4, <1>5, <1>6, <1>7, RelationshipStepWrites,
       EventsByLifeEventStep DEF Next, EdgesUntouched

\* Life events go or move with their proxy in every handler, complete or cut off,
\* but the collapse of a proxy into itself.
THEOREM EventsKeptCorrect == Spec => EventsKept
<1>1. IInv /\ [Next]_vars => [EventsAttached => EventsAttached' \/ SelfCollapse]_vars
    BY EventsKeptByStep
<1> QED
    BY <1>1, IInvCorrect, PTL DEF Spec, EventsKept

\* Writing a resolution's certificate leaves the canonicals there are.
LEMMA LiveResolved ==
    ASSUME IInv, NEW a \in Live(person), NEW cert \in Certs \cup {NoCert},
           CertFree(cert, a)
    PROVE  Live(Resolved(a, cert)) = Live(person)
<1>1. CASE cert = NoCert
    BY <1>1 DEF Resolved
<1>2. CASE cert # NoCert
    <2>1. LET P == [person EXCEPT ![a].cert = cert] IN Live(P) = Live(person)
        BY <1>2, CertWritten
    <2> QED
        BY <1>2, <2>1 DEF Resolved
<1> QED
    BY <1>1, <1>2

-----------------------------------------------------------------------------
(* No canonical is left without a proxy.                                   *)

\* The last proxy of a canonical goes, and the canonical with it.
LEMMA OrphansByRemoval ==
    ASSUME NEW p, Live(proxy') = Live(proxy) \ {p},
           \A q \in Live(proxy') : proxy'[q] = proxy[q],
           Live(person') \subseteq Live(person),
           LastProxy(p) => proxy[p].person \notin Live(person')
    PROVE  Orphans' \subseteq Orphans
<1> SUFFICES ASSUME NEW c \in Live(person'), ProxiesOf(c)' = {},
                    ProxiesOf(c) # {}
             PROVE  FALSE
    BY DEF Orphans
<1>1. ProxiesOf(c) = {p}
    BY DEF ProxiesOf
<1> QED
    BY <1>1 DEF LastProxy, ProxiesOf

\* A collapse takes the loser's canonical when the loser was its last proxy.
LEMMA OrphansByCollapse ==
    ASSUME NEW u \in Callers, NEW l \in ProxyIds, NEW s \in ProxyIds, l # s,
           CollapseSameTree(u, l, s, FALSE)
    PROVE  Orphans' \subseteq Orphans
<1>1. /\ Live(proxy') = Live(proxy) \ {l} /\ s \in Live(proxy)
      /\ \A q \in Live(proxy') : proxy'[q] = proxy[q]
    BY LiveDropped DEF CollapseSameTree
<1>2. /\ Live(person') \subseteq Live(person)
      /\ proxy[l].person # proxy[s].person /\ LastProxy(l) =>
            proxy[l].person \notin Live(person')
    BY LiveDropped DEF CollapseSameTree
<1>3. LastProxy(l) => proxy[l].person # proxy[s].person
    BY <1>1 DEF LastProxy, ProxiesOf
<1> QED
    BY <1>1, <1>2, <1>3, OrphansByRemoval

\* An accepted merge hands the proxies of b to a before it drops b.
LEMMA OrphansByMerge ==
    ASSUME IInv, NEW u \in Callers, MergeStep(u)
    PROVE  Orphans' \subseteq Orphans
<1>1. CASE UNCHANGED <<person, proxy>>
    BY <1>1 DEF Orphans, ProxiesOf, Live
<1>2. ASSUME NEW m \in ProposalIds, NEW resolution \in BOOLEAN,
             NEW cert \in Certs \cup {NoCert},
             AcceptMergeProposal(u, m, resolution, cert, 4)
      PROVE  Orphans' \subseteq Orphans
    <2> DEFINE a == CanonicalA(m)
               b == CanonicalB(m)
    <2>1. a \in Live(person) /\ a \in PersonIds /\ CertFree(cert, a)
        BY <1>2, LiveRows DEF AcceptMergeProposal, IInv
    <2>2. person' = Dropped(Resolved(a, cert), {b}) /\ proxy' = Repointed(a, b)
        BY <1>2 DEF AcceptMergeProposal
    <2> HIDE DEF a, b
    <2>3. Live(Resolved(a, cert)) = Live(person)
        BY <2>1, LiveResolved
    <2>4. Live(person') = Live(person) \ {b}
        BY <2>2, <2>3, LiveDropped
    <2>5. /\ Live(proxy') = Live(proxy)
          /\ \A p \in Live(proxy) :
                proxy[p].person # b => proxy'[p].person = proxy[p].person
        BY <2>1, <2>2, RepointedRows DEF IInv
    <2> QED
        BY <2>4, <2>5 DEF Orphans, ProxiesOf
<1> QED
    BY <1>1, <1>2 DEF MergeStep, CreateMergeProposal, RejectMergeProposal

\* The handlers that take proxies, run to their end.
LEMMA NoNewOrphansByStep ==
    ASSUME IInv, NEW u \in Callers, TakesProxies(u)
    PROVE  Orphans' \subseteq Orphans
<1>1. ASSUME NEW p \in ProxyIds, DeletePerson(u, p, FALSE) \/ RemovePersonFromTree(u, p)
      PROVE  Orphans' \subseteq Orphans
    <2>1. /\ Live(proxy') = Live(proxy) \ {p}
          /\ \A q \in Live(proxy') : proxy'[q] = proxy[q]
        BY <1>1, LiveDropped DEF DeletePerson, RemovePersonFromTree, CascadeProxies
    <2>2. /\ Live(person') \subseteq Live(person)
          /\ LastProxy(p) => proxy[p].person \notin Live(person')
        BY <1>1, LiveDropped DEF DeletePerson, RemovePersonFromTree
    <2> QED
        BY <2>1, <2>2, OrphansByRemoval
<1> QED
    BY <1>1, OrphansByCollapse, OrphansByMerge DEF TakesProxies

\* Deletions, removals, merges and collapses of two proxies that run to their end
\* leave no canonical behind that has no proxy any more.
THEOREM NoNewOrphansCorrect == Spec => NoNewOrphans
<1>1. IInv /\ [Next]_vars =>
         [(\E u \in Callers : TakesProxies(u)) => Orphans' \subseteq Orphans]_vars
    BY NoNewOrphansByStep
<1> QED
    BY <1>1, IInvCorrect, PTL DEF Spec, NoNewOrphans
-----------------------------------------------------------------------------
(* A request changes what is filed under one tree.                         *)

\* The trees other than x are as they were.
Elsewhere(x) == \A t \in TreeNames : t # x => UNCHANGED FiledUnder(t)

\* F differs from the edges in tree x only.
EdgesElsewhere(F, x) ==
    /\ \A e \in edges : proxy[e.in].tree # x => e \in F
    /\ \A e \in F : proxy[e.in].tree # x => e \in edges

\* What a step must leave alone, row by row.
LEMMA FiledKept ==
    ASSUME IInv, IInv', NEW x,
           \A p \in Live(proxy) : p \in Live(proxy') =>
                proxy'[p].tree = proxy[p].tree,
           \A p \in Live(proxy) : proxy[p].tree # x => p \in Live(proxy'),
           \A p \in Live(proxy') : proxy'[p].tree # x => p \in Live(proxy),
           EdgesElsewhere(edges', x),
           \A e \in Live(lifeEvent) : lifeEvent[e].tree # x =>
                e \in Live(lifeEvent') /\ lifeEvent'[e] = lifeEvent[e],
           \A e \in Live(lifeEvent') : lifeEvent'[e].tree # x =>
                e \in Live(lifeEvent) /\ lifeEvent'[e] = lifeEvent[e]
    PROVE  Elsewhere(x)
<1> SUFFICES ASSUME NEW t \in TreeNames, t # x
             PROVE  UNCHANGED FiledUnder(t)
    BY DEF Elsewhere
<1>1. {p \in Live(proxy) : proxy[p].tree = t}
          = {p \in Live(proxy') : proxy'[p].tree = t}
    OBVIOUS
<1>2. {e \in edges : proxy[e.in].tree = t} = {e \in edges' : proxy'[e.in].tree = t}
    <2>1. \A e \in edges : e.in \in Live(proxy)
        BY DEF IInv, EdgesWithinTree
    <2>2. \A e \in edges' : e.in \in Live(proxy')
        <3>1. EdgesWithinTree'
            BY DEF IInv
        <3> QED
            BY <3>1 DEF EdgesWithinTree, Live
    <2>3. ASSUME NEW e \in edges, proxy[e.in].tree = t
          PROVE  e \in edges' /\ proxy'[e.in].tree = t
        BY <2>1, <2>2, <2>3 DEF EdgesElsewhere
    <2>4. ASSUME NEW e \in edges', proxy'[e.in].tree = t
          PROVE  e \in edges /\ proxy[e.in].tree = t
        <3>1. e.in \in Live(proxy)
            BY <2>2, <2>4
        <3>2. proxy[e.in].tree = t
            BY <2>2, <2>4, <3>1
        <3> QED
            BY <3>2 DEF EdgesElsewhere
    <2> QED
        BY <2>3, <2>4
<1>3. {<<e, lifeEvent[e]>> : e \in {k \in Live(lifeEvent) : lifeEvent[k].tree = t}}
        = {<<e, lifeEvent'[e]>> :
                e \in {k \in Live(lifeEvent') : lifeEvent'[k].tree = t}}
    <2> DEFINE old == {k \in Live(lifeEvent) : lifeEvent[k].tree = t}
               new == {k \in Live(lifeEvent') : lifeEvent'[k].tree = t}
    <2>1. old = new
        OBVIOUS
    <2>2. \A e \in old : lifeEvent'[e] = lifeEvent[e]
        OBVIOUS
    <2> HIDE DEF old, new
    <2>3. {<<e, lifeEvent[e]>> : e \in old} = {<<e, lifeEvent'[e]>> : e \in new}
        BY <2>1, <2>2
    <2> QED
        BY <2>3 DEF old, new
<1> QED
    BY <1>1, <1>2, <1>3 DEF FiledUnder, Live

\* Steps that write none of the three tables.
LEMMA FiledUntouched ==
    ASSUME NEW x, UNCHANGED proxy, UNCHANGED edges, UNCHANGED lifeEvent
    PROVE  Elsewhere(x)
BY DEF Elsewhere, FiledUnder, Live

\* The DELETE batch for proxies of one tree.
LEMMA ElsewhereByCascade ==
    ASSUME IInv, IInv', NEW x, NEW ps \in SUBSET Live(proxy),
           CascadeProxies(ps), \A p \in ps : proxy[p].tree = x
    PROVE  Elsewhere(x)
<1>1. /\ Live(proxy') = Live(proxy) \ ps
      /\ \A p \in Live(proxy') : proxy'[p] = proxy[p]
    BY LiveDropped DEF CascadeProxies
<1>2. /\ Live(lifeEvent') = Live(lifeEvent) \ EventsOf(ps)
      /\ \A e \in Live(lifeEvent') : lifeEvent'[e] = lifeEvent[e]
    BY LiveDropped DEF CascadeProxies
<1>3. \A e \in EventsOf(ps) : lifeEvent[e].tree = x
    BY DEF EventsOf, EventTreeMatches, IInv
<1>4. EdgesElsewhere(edges', x)
    BY DEF EdgesElsewhere, CascadeProxies, EdgesWithout, EdgesWithinTree, IInv
<1> QED
    BY <1>1, <1>2, <1>3, <1>4, FiledKept

\* A collapse re-points edges and events within the tree of the two proxies.
LEMMA ElsewhereByCollapse ==
    ASSUME IInv, IInv',
           NEW u \in Callers, NEW l \in ProxyIds, NEW s \in ProxyIds,
           NEW interrupted \in BOOLEAN, CollapseSameTree(u, l, s, interrupted)
    PROVE  Elsewhere(proxy[l].tree)
<1> DEFINE x == proxy[l].tree
<1>1. /\ l \in Live(proxy) /\ s \in Live(proxy) /\ proxy[s].tree = x
      /\ Live(proxy') = Live(proxy) \ {l}
      /\ \A p \in Live(proxy') : proxy'[p] = proxy[p]
    BY LiveDropped DEF CollapseSameTree, MayCollapse
<1>2. /\ Live(lifeEvent') = Live(lifeEvent)
      /\ \A e \in Live(lifeEvent) : lifeEvent[e].tree # x =>
            lifeEvent'[e] = lifeEvent[e]
    <2>1. Live(lifeEvent') = Live(lifeEvent)
        BY EventsMovedRows DEF CollapseSameTree, IInv
    <2>2. ASSUME NEW e \in Live(lifeEvent), lifeEvent[e].tree # x
          PROVE  lifeEvent'[e] = lifeEvent[e]
        <3>1. lifeEvent[e].proxy # l
            BY <1>1, <2>2 DEF EventTreeMatches, IInv
        <3>2. e \in EventIds
            BY LiveRows DEF IInv
        <3> QED
            BY <3>1, <3>2 DEF CollapseSameTree, EventsMoved, EventsOf
    <2> QED
        BY <2>1, <2>2
<1>3. \A e \in Live(lifeEvent) : lifeEvent'[e].tree # x => lifeEvent[e].tree # x
    BY EventsMovedRows DEF CollapseSameTree, IInv
<1>4. PICK M \in Rewritten(edges, "in", l, s), E \in SUBSET EdgeRow :
         /\ E = Redirected(edges, M, "in", l, s)
         /\ \E N \in Rewritten(E, "out", l, s) :
               edges' = Redirected(E, N, "out", l, s)
    BY RedirectedType DEF CollapseSameTree, IInv, TypeOK
<1>5. PICK N \in Rewritten(E, "out", l, s) : edges' = Redirected(E, N, "out", l, s)
    BY <1>4
<1>6. edges \subseteq EdgeRow /\ E \subseteq EdgeRow
    BY DEF IInv, TypeOK
<1>7. /\ \A e \in edges : e.in # l => e \in E
      /\ \A f \in E : f \in edges \/ f.in = s
    <2>1. M \subseteq edges
        BY DEF Rewritten, Movable
    <2>2. \A e \in EdgeRow : [e EXCEPT !["in"] = s].in = s
        BY DEF EdgeRow
    <2>3. E = {e \in edges : e.in # l} \cup {[e EXCEPT !["in"] = s] : e \in M}
        BY <1>4 DEF Redirected, EdgeRow
    <2> QED
        BY <1>6, <2>1, <2>2, <2>3
<1>8. /\ \A e \in E : e.out # l => e \in edges'
      /\ \A f \in edges' : f \in E \/ \E e \in E : e.out = l /\ f.in = e.in
    <2>1. N \subseteq E /\ \A e \in N : e.out = l
        BY <1>6 DEF Rewritten, Movable, EdgeRow
    <2>2. \A e \in EdgeRow : [e EXCEPT !["out"] = s].in = e.in
        BY DEF EdgeRow
    <2>3. edges' = {e \in E : e.out # l} \cup {[e EXCEPT !["out"] = s] : e \in N}
        BY <1>5 DEF Redirected, EdgeRow
    <2> QED
        BY <1>6, <2>1, <2>2, <2>3
<1>9. \A e \in edges : e.in = l \/ e.out = l => proxy[e.in].tree = x
    BY <1>1 DEF EdgesWithinTree, IInv
<1>10. EdgesElsewhere(edges', x)
    <2>1. ASSUME NEW e \in edges, proxy[e.in].tree # x
          PROVE  e \in edges'
        BY <1>7, <1>8, <1>9, <2>1
    <2>2. ASSUME NEW f \in edges', proxy[f.in].tree # x
          PROVE  f \in edges
        <3>1. \A e \in E : proxy[e.in].tree # x => e \in edges /\ e.out # l
            BY <1>1, <1>7, <1>9
        <3>2. f \in E
            BY <1>8, <2>2, <3>1
        <3> QED
            BY <2>2, <3>1, <3>2
    <2> QED
        BY <2>1, <2>2 DEF EdgesElsewhere
<1>11. \A p \in Live(proxy) : proxy[p].tree # x => p \in Live(proxy')
    BY <1>1
<1> HIDE DEF x
<1> QED
    <2>1. Elsewhere(x)
        BY <1>1, <1>2, <1>3, <1>10, <1>11, FiledKept
    <2> QED
        BY <2>1 DEF x

\* Edges change in the tree of x only: a request about edges writes nothing else.
LEMMA ElsewhereByEdges ==
    ASSUME IInv, IInv', NEW x, EdgesUntouched, EdgesElsewhere(edges', x)
    PROVE  Elsewhere(x)
<1>1. UNCHANGED proxy /\ UNCHANGED lifeEvent
    BY DEF EdgesUntouched
<1> QED
    BY <1>1, FiledKept DEF Live

\* Rows that are related, or rewritten in place, at p.
LEMMA EdgesRelatedAt ==
    ASSUME NEW E, NEW row, NEW x, EdgesElsewhere(E, x), proxy[row.in].tree = x
    PROVE  EdgesElsewhere(Related(E, row), x)
BY DEF EdgesElsewhere, Related

\* What an update of some edges rewrites at a tree.
LEMMA EdgesRewrittenAt ==
    ASSUME IInv, NEW p, NEW g,
           \A e \in edges : g[e].in = e.in /\ (p \in {e.in, e.out} \/ g[e] = e)
    PROVE  EdgesElsewhere({g[e] : e \in edges}, proxy[p].tree)
<1>1. \A e \in edges : p \in {e.in, e.out} => proxy[e.in].tree = proxy[p].tree
    BY DEF EdgesWithinTree, IInv
<1> QED
    BY <1>1 DEF EdgesElsewhere

\* A relationship handler writes edges of the tree its two proxies are in.
LEMMA ElsewhereByRelationship ==
    ASSUME IInv, IInv', NEW u \in Callers, NEW p \in ProxyIds, NEW q \in ProxyIds,
           \/ \E rel \in RelTables, pedigree \in Pedigrees :
                 AddParent(u, p, q, rel, pedigree)
           \/ \E pedigree \in Pedigrees, via \in ProxyIds \cup {Nobody} :
                 AddSibling(u, p, q, pedigree, via)
           \/ \E since \in Dates \cup {NoDate} : AddSpouse(u, p, q, since)
           \/ \E rel \in RelTables : DeleteRelationship(u, p, q, rel)
           \/ \E rel \in RelTables, pedigree \in Pedigrees, cut \in BOOLEAN :
                 UpdateParentPedigree(u, p, q, rel, pedigree, cut)
           \/ \E pedigree \in Pedigrees, via \in ProxyIds \cup {Nobody} :
                 UpdateSiblingPedigree(u, p, q, pedigree, via)
           \/ \E since \in Dates \cup {NoDate} : UpdateSpouseDates(u, p, q, since)
    PROVE  Elsewhere(proxy[p].tree)
<1> DEFINE x == proxy[p].tree
<1>1. EdgesElsewhere(edges, x)
    BY DEF EdgesElsewhere
<1>2. edges \subseteq EdgeRow
    BY DEF IInv, TypeOK
<1>3. \A e \in EdgeRow :
         /\ \A d : [e EXCEPT !.pedigree = d].in = e.in
         /\ \A d, v : [e EXCEPT !.pedigree = d, !.via = v].in = e.in
         /\ \A d : [e EXCEPT !.since = d].in = e.in
    BY DEF EdgeRow
<1>4. \A e \in edges : p \in {e.in, e.out} => proxy[e.in].tree = x
    BY DEF EdgesWithinTree, IInv
<1>5. CASE \E rel \in RelTables, pedigree \in Pedigrees :
              AddParent(u, p, q, rel, pedigree)
    BY <1>1, <1>5, EdgesRelatedAt, ElsewhereByEdges DEF AddParent
<1>6. CASE \E pedigree \in Pedigrees, via \in ProxyIds \cup {Nobody} :
              AddSibling(u, p, q, pedigree, via)
    BY <1>1, <1>6, EdgesRelatedAt, ElsewhereByEdges DEF AddSibling
<1>7. CASE \E since \in Dates \cup {NoDate} : AddSpouse(u, p, q, since)
    <2> PICK since \in Dates \cup {NoDate} : AddSpouse(u, p, q, since)
        BY <1>7
    <2> DEFINE r1 == SpouseRow(p, q, since)
               r2 == SpouseRow(q, p, since)
    <2>1. r1.in = p /\ r2.in = q /\ proxy[q].tree = x
        BY DEF SpouseRow, AddSpouse, Relatable
    <2>2. edges' = Related(Related(edges, r1), r2) /\ EdgesUntouched
        BY DEF AddSpouse
    <2> HIDE DEF r1, r2
    <2> QED
        BY <1>1, <2>1, <2>2, EdgesRelatedAt, ElsewhereByEdges
<1>8. CASE \E rel \in RelTables : DeleteRelationship(u, p, q, rel)
    <2>1. EdgesElsewhere(edges', x) /\ EdgesUntouched
        BY <1>4, <1>8 DEF DeleteRelationship, Addressed, SameEnds, EdgesElsewhere
    <2> QED
        BY <2>1, ElsewhereByEdges
<1>9. CASE \E rel \in RelTables, pedigree \in Pedigrees, cut \in BOOLEAN :
              UpdateParentPedigree(u, p, q, rel, pedigree, cut)
    <2> PICK rel \in RelTables, pedigree \in Pedigrees, cut \in BOOLEAN :
                UpdateParentPedigree(u, p, q, rel, pedigree, cut)
        BY <1>9
    <2> DEFINE sib == IF pedigree = "adopted" THEN "adopted" ELSE "birth"
               E == ParentEdgeSet(edges, p, q, rel, pedigree)
    <2>1. \A e \in E : /\ e \in EdgeRow
                       /\ \E d \in edges : /\ e.in = d.in /\ e.out = d.out
                                           /\ e = d \/ p = d.in
        BY <1>2 DEF ParentEdgeSet, SameEnds, EdgeRow
    <2>2. \A e \in edges : e.in # p => e \in E
        BY DEF ParentEdgeSet, SameEnds
    <2>3. \A e \in SiblingsVia(E, p, q, sib) :
             \E d \in E : e.in = d.in /\ (e = d \/ p \in {d.in, d.out})
        <3> HIDE DEF E, sib
        <3>1. \A e \in SiblingsVia(E, p, q, sib) : \E d \in E :
                 \/ e = d
                 \/ p \in {d.in, d.out} /\ e = [d EXCEPT !.pedigree = sib]
            BY DEF SiblingsVia
        <3>2. \A d \in E : [d EXCEPT !.pedigree = sib].in = d.in
            BY <1>3, <2>1
        <3> QED
            BY <3>1, <3>2
    <2>4. \A e \in E : p \notin {e.in, e.out} => e \in SiblingsVia(E, p, q, sib)
        BY DEF SiblingsVia
    <2>5. EdgesUntouched /\ (edges' = E \/ edges' = SiblingsVia(E, p, q, sib))
        BY DEF UpdateParentPedigree, ParentPedigreeSet
    <2> HIDE DEF E, sib
    <2>6. \A e \in edges : proxy[e.in].tree # x => e \in E /\ p \notin {e.in, e.out}
        BY <1>4, <2>2
    <2>7. \A e \in E : proxy[e.in].tree # x => e \in edges
        BY <1>4, <2>1
    <2>8. \A e \in E : p \in {e.in, e.out} => proxy[e.in].tree = x
        BY <1>4, <2>1
    <2>9. EdgesElsewhere(E, x)
        BY <2>6, <2>7 DEF EdgesElsewhere
    <2>10. EdgesElsewhere(SiblingsVia(E, p, q, sib), x)
        BY <2>3, <2>4, <2>6, <2>7, <2>8 DEF EdgesElsewhere
    <2> QED
        BY <2>5, <2>9, <2>10, ElsewhereByEdges
<1>10. CASE \E pedigree \in Pedigrees, via \in ProxyIds \cup {Nobody} :
               UpdateSiblingPedigree(u, p, q, pedigree, via)
    <2> PICK pedigree \in Pedigrees, via \in ProxyIds \cup {Nobody} :
                UpdateSiblingPedigree(u, p, q, pedigree, via)
        BY <1>10
    <2> DEFINE g == [e \in edges |->
            IF SameEnds(e, "has_sibling", p, q) \/ SameEnds(e, "has_sibling", q, p)
            THEN [e EXCEPT !.pedigree = pedigree, !.via = via] ELSE e]
    <2>1. \A e \in edges : g[e].in = e.in /\ (p \in {e.in, e.out} \/ g[e] = e)
        BY <1>2, <1>3 DEF SameEnds
    <2>2. edges' = {g[e] : e \in edges} /\ EdgesUntouched
        BY DEF UpdateSiblingPedigree
    <2> HIDE DEF g
    <2> QED
        BY <2>1, <2>2, EdgesRewrittenAt, ElsewhereByEdges
<1>11. CASE \E since \in Dates \cup {NoDate} : UpdateSpouseDates(u, p, q, since)
    <2> PICK since \in Dates \cup {NoDate} : UpdateSpouseDates(u, p, q, since)
        BY <1>11
    <2> DEFINE g == [e \in edges |-> IF e \in Addressed("has_spouse", p, q)
                                     THEN [e EXCEPT !.since = since] ELSE e]
    <2>1. \A e \in edges : g[e].in = e.in /\ (p \in {e.in, e.out} \/ g[e] = e)
        BY <1>2, <1>3 DEF SameEnds, Addressed
    <2>2. edges' = {g[e] : e \in edges} /\ EdgesUntouched
        BY DEF UpdateSpouseDates
    <2> HIDE DEF g
    <2> QED
        BY <2>1, <2>2, EdgesRewrittenAt, ElsewhereByEdges
<1> QED
    BY <1>5, <1>6, <1>7, <1>8, <1>9, <1>10, <1>11

\* Proxies are created in one tree, or keep their tree.
LEMMA ElsewhereByNewProxy ==
    ASSUME IInv, IInv', NEW x, NEW p \in Fresh(ProxyIds), NEW row,
           proxy' = [proxy EXCEPT ![p] = row], row.tree = x,
           UNCHANGED edges, UNCHANGED lifeEvent
    PROVE  Elsewhere(x)
<1>1. DOMAIN proxy = ProxyIds /\ p \in ProxyIds /\ p \notin Live(proxy)
    BY DEF Fresh, OnlyIssuedIds, IInv, TypeOK
<1>2. \A q \in ProxyIds : q # p => proxy'[q] = proxy[q]
    BY <1>1
<1>3. proxy'[p].tree = x
    BY <1>1
<1>4. DOMAIN proxy' = ProxyIds
    BY <1>1
<1>5. EdgesElsewhere(edges', x)
    BY DEF EdgesElsewhere
<1>6. /\ \A q \in Live(proxy) : q \in Live(proxy') /\ proxy'[q].tree = proxy[q].tree
      /\ \A q \in Live(proxy') : proxy'[q].tree # x => q \in Live(proxy)
    BY <1>1, <1>2, <1>3, <1>4 DEF Live
<1>7. Live(lifeEvent') = Live(lifeEvent)
    BY DEF Live
<1> QED
    BY <1>5, <1>6, <1>7, FiledKept

\* A handler that changes columns of proxies but no tree moves nothing.
LEMMA ElsewhereByProxyColumns ==
    ASSUME IInv, IInv', NEW x, Live(proxy') = Live(proxy),
           \A p \in Live(proxy) : proxy'[p].tree = proxy[p].tree,
           UNCHANGED edges, UNCHANGED lifeEvent
    PROVE  Elsewhere(x)
<1>1. EdgesElsewhere(edges', x)
    BY DEF EdgesElsewhere
<1>2. Live(lifeEvent') = Live(lifeEvent)
    BY DEF Live
<1> QED
    BY <1>1, <1>2, FiledKept

\* A handler of persons writes the tree of the proxy it is given or makes.
LEMMA ElsewhereByPersonHandler ==
    ASSUME IInv, IInv', NEW u \in Callers, NEW p \in ProxyIds,
           \/ \E t \in TreeNames, cr \in Users \cup {Nobody},
                 cert \in Certs \cup {NoCert}, c \in PersonIds,
                 interrupted \in BOOLEAN :
                 CreatePerson(u, t, cr, cert, c, p, interrupted)
           \/ \E cr \in Users : UpdatePerson(u, p, cr)
           \/ \E cert \in Certs : UpdateCanonical(u, p, cert)
           \/ \E interrupted \in BOOLEAN : DeletePerson(u, p, interrupted)
           \/ \E t \in TreeNames, q \in ProxyIds : AddPersonToTree(u, p, t, q)
           \/ RemovePersonFromTree(u, p)
    PROVE  \E x : Elsewhere(x)
<1>1. CASE \E t \in TreeNames, cr \in Users \cup {Nobody},
              cert \in Certs \cup {NoCert}, c \in PersonIds,
              interrupted \in BOOLEAN :
              CreatePerson(u, t, cr, cert, c, p, interrupted)
    <2> PICK t \in TreeNames, cr \in Users \cup {Nobody},
                cert \in Certs \cup {NoCert}, c \in PersonIds,
                interrupted \in BOOLEAN :
                CreatePerson(u, t, cr, cert, c, p, interrupted)
        BY <1>1
    <2> DEFINE row == [person |-> c, tree |-> t, creator |-> cr]
    <2>1. /\ proxy' = proxy \/ proxy' = [proxy EXCEPT ![p] = row]
          /\ p \in Fresh(ProxyIds) /\ UNCHANGED edges /\ UNCHANGED lifeEvent
        BY DEF CreatePerson
    <2>2. row.tree = t
        OBVIOUS
    <2> HIDE DEF row
    <2> QED
        BY <2>1, <2>2, FiledUntouched, ElsewhereByNewProxy
<1>2. CASE \E cr \in Users : UpdatePerson(u, p, cr)
    <2> PICK cr \in Users : UpdatePerson(u, p, cr)
        BY <1>2
    <2> DEFINE row == [proxy[p] EXCEPT !.creator = cr]
    <2>1. p \in Live(proxy) /\ proxy[p] \in ProxyRow /\ DOMAIN proxy = ProxyIds
        BY LiveRows DEF UpdatePerson, Fetchable, IInv, TypeOK
    <2>2. /\ proxy' = [proxy EXCEPT ![p] = row]
          /\ UNCHANGED edges /\ UNCHANGED lifeEvent
        BY DEF UpdatePerson
    <2>3. row \in ProxyRow /\ row.tree = proxy[p].tree
        BY <2>1 DEF ProxyRow, UpdatePerson
    <2> HIDE DEF row
    <2>4. /\ Live(proxy') = Live(proxy)
          /\ \A q \in Live(proxy) : proxy'[q].tree = proxy[q].tree
        BY <2>1, <2>2, <2>3, NoRowAssumption DEF Live
    <2> QED
        BY <2>2, <2>4, ElsewhereByProxyColumns
<1>3. CASE \E cert \in Certs : UpdateCanonical(u, p, cert)
    BY <1>3, FiledUntouched DEF UpdateCanonical
<1>4. CASE \/ \E interrupted \in BOOLEAN : DeletePerson(u, p, interrupted)
           \/ RemovePersonFromTree(u, p)
    <2>1. {p} \in SUBSET Live(proxy) /\ CascadeProxies({p})
        BY <1>4 DEF DeletePerson, RemovePersonFromTree
    <2>2. \A q \in {p} : proxy[q].tree = proxy[p].tree
        OBVIOUS
    <2> QED
        BY <2>1, <2>2, ElsewhereByCascade
<1>5. CASE \E t \in TreeNames, q \in ProxyIds : AddPersonToTree(u, p, t, q)
    <2> PICK t \in TreeNames, q \in ProxyIds : AddPersonToTree(u, p, t, q)
        BY <1>5
    <2> DEFINE row == [proxy[p] EXCEPT !.tree = t]
    <2>1. proxy[p] \in ProxyRow
        BY LiveRows DEF AddPersonToTree, Fetchable, IInv
    <2>2. /\ proxy' = [proxy EXCEPT ![q] = row] /\ q \in Fresh(ProxyIds)
          /\ UNCHANGED edges /\ UNCHANGED lifeEvent
        BY DEF AddPersonToTree
    <2>3. row.tree = t
        BY <2>1 DEF ProxyRow
    <2> HIDE DEF row
    <2> QED
        BY <2>2, <2>3, ElsewhereByNewProxy
<1> QED
    BY <1>1, <1>2, <1>3, <1>4, <1>5

\* An acceptance re-points proxies and leaves them in their trees.
LEMMA ElsewhereByAccept ==
    ASSUME IInv, IInv', NEW u \in Callers, NEW m \in ProposalIds,
           NEW resolution \in BOOLEAN, NEW cert \in Certs \cup {NoCert},
           NEW done \in 1..4, AcceptMergeProposal(u, m, resolution, cert, done)
    PROVE  \E x : Elsewhere(x)
<1>1. CanonicalA(m) \in PersonIds
    BY LiveRows DEF AcceptMergeProposal, IInv
<1>2. /\ proxy' = proxy \/ proxy' = Repointed(CanonicalA(m), CanonicalB(m))
      /\ UNCHANGED edges /\ UNCHANGED lifeEvent
    BY DEF AcceptMergeProposal
<1>3. /\ Live(proxy') = Live(proxy)
      /\ \A p \in Live(proxy) : proxy'[p].tree = proxy[p].tree
    BY <1>1, <1>2, RepointedRows DEF IInv
<1> QED
    BY <1>2, <1>3, ElsewhereByProxyColumns

\* An event is filed under one tree.
LEMMA ElsewhereByLifeEvent ==
    ASSUME IInv, IInv', NEW u \in Callers, LifeEventStep(u)
    PROVE  \E x : Elsewhere(x)
<1>1. UNCHANGED proxy /\ UNCHANGED edges
    BY LifeEventStepWrites
<1>2. ASSUME NEW x, NEW e \in EventIds, lifeEvent'[e] # Absent => lifeEvent'[e].tree = x,
             e \in Live(lifeEvent) => lifeEvent[e].tree = x,
             DOMAIN lifeEvent' = EventIds,
             \A d \in EventIds : d # e => lifeEvent'[d] = lifeEvent[d]
      PROVE  Elsewhere(x)
    <2>1. /\ \A d \in Live(lifeEvent) : lifeEvent[d].tree # x =>
                d \in Live(lifeEvent') /\ lifeEvent'[d] = lifeEvent[d]
          /\ \A d \in Live(lifeEvent') : lifeEvent'[d].tree # x =>
                d \in Live(lifeEvent) /\ lifeEvent'[d] = lifeEvent[d]
        BY <1>2 DEF Live, IInv, TypeOK
    <2>2. EdgesElsewhere(edges', x)
        BY <1>1 DEF EdgesElsewhere
    <2>3. Live(proxy') = Live(proxy)
        BY <1>1 DEF Live
    <2> QED
        BY <1>1, <2>1, <2>2, <2>3, FiledKept
<1>3. DOMAIN lifeEvent = EventIds
    BY DEF IInv, TypeOK
<1>4. ASSUME NEW p \in ProxyIds, NEW canonical \in BOOLEAN, NEW e \in EventIds,
             CreateLifeEvent(u, p, canonical, e)
      PROVE  \E x : Elsewhere(x)
    <2> DEFINE row == [proxy |-> p, tree |-> proxy[p].tree, canonical |-> canonical]
    <2>1. row.tree = proxy[p].tree
        OBVIOUS
    <2>2. lifeEvent' = [lifeEvent EXCEPT ![e] = row] /\ e \notin Live(lifeEvent)
        BY <1>4 DEF CreateLifeEvent, Fresh, OnlyIssuedIds, IInv
    <2> HIDE DEF row
    <2> QED
        BY <1>2, <1>3, <2>1, <2>2
<1>5. ASSUME NEW e \in EventIds, DeleteLifeEvent(u, e)
      PROVE  \E x : Elsewhere(x)
    BY <1>2, <1>3, <1>5 DEF DeleteLifeEvent, Dropped
<1>6. ASSUME NEW e \in EventIds, PromoteLifeEvent(u, e)
      PROVE  \E x : Elsewhere(x)
    <2> DEFINE row == [lifeEvent[e] EXCEPT !.canonical = TRUE]
    <2>1. lifeEvent[e] \in EventRow /\ lifeEvent' = [lifeEvent EXCEPT ![e] = row]
        BY <1>6, LiveRows DEF PromoteLifeEvent, MayChangeEvent, IInv
    <2>2. row.tree = lifeEvent[e].tree
        BY <2>1 DEF EventRow
    <2> HIDE DEF row
    <2> QED
        BY <1>2, <1>3, <2>1, <2>2
<1> QED
    BY <1>4, <1>5, <1>6 DEF LifeEventStep

\* Every step leaves all trees but one as they were.
LEMMA OneTreeByStep ==
    ASSUME IInv, [Next]_vars
    PROVE  \E x : Elsewhere(x)
<1>1. IInv'
    BY InvNext
<1>2. ASSUME UNCHANGED proxy, UNCHANGED edges, UNCHANGED lifeEvent
      PROVE  \E x : Elsewhere(x)
    BY <1>2, FiledUntouched
<1>3. ASSUME NEW u \in Callers, TreeStep(u)
      PROVE  \E x : Elsewhere(x)
    <2>1. CASE TreeSweep
        BY <1>1, <2>1, ElsewhereByCascade DEF TreeSweep, DeleteTree, ProxiesIn
    <2>2. CASE ~TreeSweep
        BY <1>2, <1>3, <2>2, TreeStepWrites
    <2> QED
        BY <2>1, <2>2
<1>4. ASSUME NEW u \in Callers, PersonStep(u)
      PROVE  \E x : Elsewhere(x)
    BY <1>1, <1>4, ElsewhereByPersonHandler, ElsewhereByCollapse DEF PersonStep
<1>5. ASSUME NEW u \in Callers, MergeStep(u)
      PROVE  \E x : Elsewhere(x)
    <2>1. CASE \E m \in ProposalIds, resolution \in BOOLEAN,
                  cert \in Certs \cup {NoCert} :
                  AcceptMergeProposal(u, m, resolution, cert, 4)
        BY <1>1, <2>1, ElsewhereByAccept
    <2>2. CASE \/ \E p, q \in ProxyIds, m \in ProposalIds : CreateMergeProposal(u, p, q, m)
               \/ \E m \in ProposalIds : RejectMergeProposal(u, m)
        BY <1>2, <2>2 DEF CreateMergeProposal, RejectMergeProposal
    <2> QED
        BY <1>5, <2>1, <2>2 DEF MergeStep
<1>6. ASSUME NEW u \in Callers, RelationshipStep(u)
      PROVE  \E x : Elsewhere(x)
    BY <1>1, <1>6, RelationshipCases, ElsewhereByRelationship
<1>7. ASSUME NEW u \in Callers, Interrupted(u)
      PROVE  \E x : Elsewhere(x)
    <2>1. CASE \E t \in TreeNames, o \in Users : CreateTree(u, t, o, TRUE, TRUE)
        BY <1>2, <2>1 DEF CreateTree
    <2>2. CASE \/ \E t \in TreeNames, cr \in Users \cup {Nobody},
                     cert \in Certs \cup {NoCert}, c \in PersonIds, p \in ProxyIds :
                     CreatePerson(u, t, cr, cert, c, p, TRUE)
               \/ \E p \in ProxyIds : DeletePerson(u, p, TRUE)
        BY <1>1, <2>2, ElsewhereByPersonHandler
    <2>3. CASE \E l, s \in ProxyIds : CollapseSameTree(u, l, s, TRUE)
        BY <1>1, <2>3, ElsewhereByCollapse
    <2>4. CASE \E m \in ProposalIds, resolution \in BOOLEAN,
                  cert \in Certs \cup {NoCert}, done \in 1..3 :
                  AcceptMergeProposal(u, m, resolution, cert, done)
        BY <1>1, <2>4, ElsewhereByAccept
    <2>5. CASE \E p, q \in ProxyIds, rel \in Rels \cap ParentRels,
                  pedigree \in Pedigrees :
                  UpdateParentPedigree(u, p, q, rel, pedigree, TRUE)
        <3>1. Rels \subseteq RelTables
            BY PlanAssumption
        <3> QED
            BY <1>1, <2>5, <3>1, ElsewhereByRelationship
    <2> QED
        BY <1>7, <2>1, <2>2, <2>3, <2>4, <2>5 DEF Interrupted
<1>8. CASE UNCHANGED vars
    BY <1>2, <1>8 DEF vars
<1> QED
    BY <1>1, <1>3, <1>4, <1>5, <1>6, <1>7, <1>8, ElsewhereByLifeEvent DEF Next

\* A request changes what is filed under one tree at most: its proxies, their
\* relationships and their life events.
THEOREM OneTreePerStepCorrect == Spec => OneTreePerStep
<1>1. ASSUME IInv, [Next]_vars, NEW s \in TreeNames, NEW t \in TreeNames
      PROVE  s = t \/ UNCHANGED FiledUnder(s) \/ UNCHANGED FiledUnder(t)
    <2> PICK x : Elsewhere(x)
        BY <1>1, OneTreeByStep
    <2> QED
        BY DEF Elsewhere
<1>2. IInv /\ [Next]_vars =>
         [\A s, t \in TreeNames :
             s = t \/ UNCHANGED FiledUnder(s) \/ UNCHANGED FiledUnder(t)]_vars
    BY <1>1
<1> QED
    BY <1>2, IInvCorrect, PTL DEF Spec, OneTreePerStep
-----------------------------------------------------------------------------
(* A marriage is recorded in both directions.                              *)

\* Every marriage in F has its other direction, with the same dates.
Mutual(F) ==
    \A e \in F : e.rel = "has_spouse" =>
        \E f \in F : SameEnds(f, "has_spouse", e.out, e.in) /\ f.since = e.since

\* Steps that leave the marriages, or take all those of some proxies.
LEMMA MutualUntouched ==
    ASSUME Mutual(edges), NEW F,
           \A e \in F : e.rel = "has_spouse" => e \in edges,
           \A e \in edges : e.rel = "has_spouse" => e \in F
    PROVE  Mutual(F)
BY DEF Mutual, SameEnds

\* The DELETE batch takes both directions of an edge.
LEMMA MutualCascade ==
    ASSUME Mutual(edges), NEW ps
    PROVE  Mutual(EdgesWithout(ps))
BY DEF Mutual, EdgesWithout, SameEnds

\* Rows of other tables are rewritten.
LEMMA MutualOtherTables ==
    ASSUME NEW E, Mutual(E), NEW g,
           \A e \in E : g[e].rel = e.rel /\ (e.rel = "has_spouse" => g[e] = e)
    PROVE  Mutual({g[e] : e \in E})
BY DEF Mutual, SameEnds

\* Both directions are related, unless they were already.
LEMMA MutualAddSpouse ==
    ASSUME Mutual(edges), NEW p, NEW q, NEW since
    PROVE  Mutual(Related(Related(edges, SpouseRow(p, q, since)),
                          SpouseRow(q, p, since)))
<1> DEFINE r1 == SpouseRow(p, q, since)
           r2 == SpouseRow(q, p, since)
<1>1. /\ SameEnds(r1, "has_spouse", p, q) /\ SameEnds(r2, "has_spouse", q, p)
      /\ r1.since = since /\ r2.since = since
      /\ p = q => r1 = r2
    BY DEF SpouseRow, SameEnds
<1>2. /\ \A E : Related(E, r1) = IF \E e \in E : SameEnds(e, "has_spouse", p, q)
                                 THEN E ELSE E \cup {r1}
      /\ \A E : Related(E, r2) = IF \E e \in E : SameEnds(e, "has_spouse", q, p)
                                 THEN E ELSE E \cup {r2}
    BY DEF Related, SpouseRow, ParentRels
<1> HIDE DEF r1, r2
<1>3. (\E e \in edges : SameEnds(e, "has_spouse", p, q))
          <=> (\E e \in edges : SameEnds(e, "has_spouse", q, p))
    BY DEF Mutual, SameEnds
<1>4. CASE \E e \in edges : SameEnds(e, "has_spouse", p, q)
    <2>1. Related(Related(edges, r1), r2) = edges
        BY <1>2, <1>3, <1>4
    <2> QED
        BY <2>1 DEF r1, r2
<1>5. CASE ~\E e \in edges : SameEnds(e, "has_spouse", p, q)
    <2>1. Related(Related(edges, r1), r2) = edges \cup {r1, r2}
        <3>1. Related(edges, r1) = edges \cup {r1}
            BY <1>2, <1>5
        <3>2. CASE p = q
            BY <1>1, <1>2, <3>1, <3>2
        <3>3. CASE p # q
            <4>1. ~SameEnds(r1, "has_spouse", q, p)
                BY <1>1, <3>3 DEF SameEnds
            <4>2. ~\E e \in edges \cup {r1} : SameEnds(e, "has_spouse", q, p)
                BY <1>3, <1>5, <4>1
            <4>3. Related(edges \cup {r1}, r2) = (edges \cup {r1}) \cup {r2}
                BY <1>2, <4>2
            <4> QED
                BY <3>1, <4>3
        <3> QED
            BY <3>2, <3>3
    <2>2. Mutual(edges \cup {r1, r2})
        BY <1>1 DEF Mutual, SameEnds
    <2> QED
        BY <2>1, <2>2 DEF r1, r2
<1> QED
    BY <1>4, <1>5

\* New dates are written to both directions.
Dated(p, q, since) ==
    {IF e \in Addressed("has_spouse", p, q)
     THEN [e EXCEPT !.since = since] ELSE e : e \in edges}

\* The dates of a marriage are written to both directions.
LEMMA MutualDates ==
    ASSUME Mutual(edges), edges \subseteq EdgeRow, NEW p, NEW q, NEW since
    PROVE  Mutual(Dated(p, q, since))
<1> DEFINE at(e) == SameEnds(e, "has_spouse", p, q) \/ SameEnds(e, "has_spouse", q, p)
           g == [e \in edges |-> IF e \in Addressed("has_spouse", p, q)
                                 THEN [e EXCEPT !.since = since] ELSE e]
<1>1. \A e \in edges : /\ g[e].rel = e.rel /\ g[e].in = e.in /\ g[e].out = e.out
                       /\ g[e].since = IF at(e) THEN since ELSE e.since
    BY DEF Addressed, EdgeRow
<1>2. \A e, f : SameEnds(f, "has_spouse", e.out, e.in) /\ e.rel = "has_spouse" =>
          (at(e) <=> at(f))
    BY DEF SameEnds
<1>3. Dated(p, q, since) = {g[e] : e \in edges}
    BY DEF Dated
<1> HIDE DEF g
<1>4. ASSUME NEW e \in edges, g[e].rel = "has_spouse"
      PROVE  \E f \in edges : /\ SameEnds(g[f], "has_spouse", g[e].out, g[e].in)
                              /\ g[f].since = g[e].since
    <2>1. e.rel = "has_spouse"
        BY <1>1, <1>4
    <2>2. PICK f \in edges : /\ SameEnds(f, "has_spouse", e.out, e.in)
                             /\ f.since = e.since
        BY <2>1 DEF Mutual
    <2>3. at(e) <=> at(f)
        BY <1>2, <2>1, <2>2
    <2>4. g[f].since = g[e].since
        BY <1>1, <2>2, <2>3
    <2>5. SameEnds(g[f], "has_spouse", g[e].out, g[e].in)
        BY <1>1, <2>2 DEF SameEnds
    <2> QED
        BY <2>4, <2>5
<1>5. Mutual({g[e] : e \in edges})
    BY <1>4 DEF Mutual
<1> QED
    BY <1>3, <1>5

\* Every relationship handler keeps or removes both directions.
LEMMA SpousesByRelationship ==
    ASSUME IInv, Mutual(edges), NEW u \in Callers, NEW p \in ProxyIds,
           NEW q \in ProxyIds,
           \/ \E rel \in RelTables, pedigree \in Pedigrees :
                 AddParent(u, p, q, rel, pedigree)
           \/ \E pedigree \in Pedigrees, via \in ProxyIds \cup {Nobody} :
                 AddSibling(u, p, q, pedigree, via)
           \/ \E since \in Dates \cup {NoDate} : AddSpouse(u, p, q, since)
           \/ \E rel \in RelTables : DeleteRelationship(u, p, q, rel)
           \/ \E rel \in RelTables, pedigree \in Pedigrees, cut \in BOOLEAN :
                 UpdateParentPedigree(u, p, q, rel, pedigree, cut)
           \/ \E pedigree \in Pedigrees, via \in ProxyIds \cup {Nobody} :
                 UpdateSiblingPedigree(u, p, q, pedigree, via)
           \/ \E since \in Dates \cup {NoDate} : UpdateSpouseDates(u, p, q, since)
    PROVE  Mutual(edges')
<1>1. edges \subseteq EdgeRow
    BY DEF IInv, TypeOK
<1>2. \A E, row : row.rel # "has_spouse" =>
         /\ \A e \in Related(E, row) : e.rel = "has_spouse" => e \in E
         /\ \A e \in E : e \in Related(E, row)
    BY DEF Related
<1>3. CASE \E rel \in RelTables, pedigree \in Pedigrees :
              AddParent(u, p, q, rel, pedigree)
    <2> PICK rel \in RelTables, pedigree \in Pedigrees :
                AddParent(u, p, q, rel, pedigree)
        BY <1>3
    <2> DEFINE row == [rel |-> rel, in |-> p, out |-> q, pedigree |-> pedigree,
                       via |-> Nobody, since |-> NoDate]
    <2>1. row.rel # "has_spouse" /\ edges' = Related(edges, row)
        BY DEF AddParent, ParentRels
    <2> HIDE DEF row
    <2> QED
        BY <1>2, <2>1, MutualUntouched
<1>4. CASE \E pedigree \in Pedigrees, via \in ProxyIds \cup {Nobody} :
              AddSibling(u, p, q, pedigree, via)
    <2> PICK pedigree \in Pedigrees, via \in ProxyIds \cup {Nobody} :
                AddSibling(u, p, q, pedigree, via)
        BY <1>4
    <2> DEFINE row == [rel |-> "has_sibling", in |-> p, out |-> q,
                       pedigree |-> pedigree, via |-> via, since |-> NoDate]
    <2>1. row.rel # "has_spouse" /\ edges' = Related(edges, row)
        BY DEF AddSibling
    <2> HIDE DEF row
    <2> QED
        BY <1>2, <2>1, MutualUntouched
<1>5. CASE \E since \in Dates \cup {NoDate} : AddSpouse(u, p, q, since)
    BY <1>5, MutualAddSpouse DEF AddSpouse
<1>6. CASE \E rel \in RelTables : DeleteRelationship(u, p, q, rel)
    <2> PICK rel \in RelTables : DeleteRelationship(u, p, q, rel)
        BY <1>6
    <2>1. edges' = edges \ Addressed(rel, p, q)
        BY DEF DeleteRelationship
    <2>2. CASE rel = "has_spouse"
        BY <2>1, <2>2 DEF Mutual, Addressed, SameEnds
    <2>3. CASE rel # "has_spouse"
        BY <2>1, <2>3, MutualUntouched DEF Addressed, SameEnds
    <2> QED
        BY <2>2, <2>3
<1>7. CASE \E rel \in RelTables, pedigree \in Pedigrees, cut \in BOOLEAN :
              UpdateParentPedigree(u, p, q, rel, pedigree, cut)
    <2> PICK rel \in RelTables, pedigree \in Pedigrees, cut \in BOOLEAN :
                UpdateParentPedigree(u, p, q, rel, pedigree, cut)
        BY <1>7
    <2> DEFINE sib == IF pedigree = "adopted" THEN "adopted" ELSE "birth"
               E == ParentEdgeSet(edges, p, q, rel, pedigree)
               g == [e \in edges |-> IF SameEnds(e, rel, p, q)
                                     THEN [e EXCEPT !.pedigree = pedigree] ELSE e]
               h == [e \in E |->
                        IF e.rel = "has_sibling" /\ p \in {e.in, e.out} /\ e.via = q
                        THEN [e EXCEPT !.pedigree = sib] ELSE e]
    <2>1. rel # "has_spouse"
        BY DEF UpdateParentPedigree, ParentRels
    <2>2. \A e \in EdgeRow : \A d : [e EXCEPT !.pedigree = d].rel = e.rel
        BY DEF EdgeRow
    <2>3. Mutual(E) /\ E \subseteq EdgeRow
        <3>1. \A e \in edges : g[e].rel = e.rel /\ (e.rel = "has_spouse" => g[e] = e)
            BY <1>1, <2>1, <2>2 DEF SameEnds
        <3>2. E = edges \/ E = {g[e] : e \in edges}
            BY DEF ParentEdgeSet
        <3>3. E \subseteq EdgeRow
            BY <1>1, ParentEdgeRows
        <3> HIDE DEF g, E
        <3> QED
            BY <3>1, <3>2, <3>3, MutualOtherTables
    <2>4. Mutual(SiblingsVia(E, p, q, sib))
        <3> HIDE DEF E, sib
        <3>1. \A e \in E : h[e].rel = e.rel /\ (e.rel = "has_spouse" => h[e] = e)
            BY <2>2, <2>3
        <3>2. SiblingsVia(E, p, q, sib) = {h[e] : e \in E}
            BY DEF SiblingsVia
        <3> HIDE DEF h
        <3> QED
            BY <2>3, <3>1, <3>2, MutualOtherTables
    <2>5. edges' = E \/ edges' = SiblingsVia(E, p, q, sib)
        BY DEF UpdateParentPedigree, ParentPedigreeSet
    <2> HIDE DEF E, sib
    <2> QED
        BY <2>3, <2>4, <2>5
<1>8. CASE \E pedigree \in Pedigrees, via \in ProxyIds \cup {Nobody} :
              UpdateSiblingPedigree(u, p, q, pedigree, via)
    <2> PICK pedigree \in Pedigrees, via \in ProxyIds \cup {Nobody} :
                UpdateSiblingPedigree(u, p, q, pedigree, via)
        BY <1>8
    <2> DEFINE g == [e \in edges |->
            IF SameEnds(e, "has_sibling", p, q) \/ SameEnds(e, "has_sibling", q, p)
            THEN [e EXCEPT !.pedigree = pedigree, !.via = via] ELSE e]
    <2>1. \A e \in EdgeRow :
             [e EXCEPT !.pedigree = pedigree, !.via = via].rel = e.rel
        BY DEF EdgeRow
    <2>2. \A e \in edges : g[e].rel = e.rel /\ (e.rel = "has_spouse" => g[e] = e)
        BY <1>1, <2>1 DEF SameEnds
    <2>3. edges' = {g[e] : e \in edges}
        BY DEF UpdateSiblingPedigree
    <2> HIDE DEF g
    <2> QED
        BY <2>2, <2>3, MutualOtherTables
<1>9. CASE \E since \in Dates \cup {NoDate} : UpdateSpouseDates(u, p, q, since)
    <2> PICK since \in Dates \cup {NoDate} : UpdateSpouseDates(u, p, q, since)
        BY <1>9
    <2>1. edges' = Dated(p, q, since)
        BY DEF UpdateSpouseDates, Dated
    <2> QED
        BY <1>1, <2>1, MutualDates
<1> QED
    BY <1>3, <1>4, <1>5, <1>6, <1>7, <1>8, <1>9

\* No step of a handler but collapse parts the two directions.
LEMMA SpousesKeptByStep ==
    ASSUME IInv, Mutual(edges), [Next]_vars
    PROVE  Mutual(edges') \/ \E u \in Callers, l, s \in ProxyIds : CollapseStep(u, l, s)
<1>1. CASE UNCHANGED edges
    BY <1>1
<1>2. ASSUME NEW ps, CascadeProxies(ps)
      PROVE  Mutual(edges')
    BY <1>2, MutualCascade DEF CascadeProxies
<1>3. ASSUME NEW u \in Callers, TreeStep(u)
      PROVE  Mutual(edges')
    <2>1. CASE TreeSweep
        BY <1>2, <2>1 DEF TreeSweep, DeleteTree
    <2>2. CASE ~TreeSweep
        BY <1>1, <1>3, <2>2, TreeStepWrites
    <2> QED
        BY <2>1, <2>2
<1>4. ASSUME NEW u \in Callers, PersonStep(u)
      PROVE  Mutual(edges') \/ \E l, s \in ProxyIds : CollapseStep(u, l, s)
    BY <1>1, <1>2, <1>4 DEF PersonStep, CreatePerson, UpdatePerson, UpdateCanonical,
       DeletePerson, AddPersonToTree, RemovePersonFromTree, CollapseStep
<1>5. ASSUME NEW u \in Callers, MergeStep(u) \/ LifeEventStep(u)
      PROVE  Mutual(edges')
    BY <1>1, <1>5, LifeEventStepWrites DEF MergeStep, CreateMergeProposal,
       RejectMergeProposal, AcceptMergeProposal
<1>6. ASSUME NEW u \in Callers, RelationshipStep(u)
      PROVE  Mutual(edges')
    BY <1>6, RelationshipCases, SpousesByRelationship
<1>7. ASSUME NEW u \in Callers, Interrupted(u)
      PROVE  Mutual(edges') \/ \E l, s \in ProxyIds : CollapseStep(u, l, s)
    <2>1. CASE \E p, q \in ProxyIds, rel \in Rels \cap ParentRels,
                  pedigree \in Pedigrees :
                  UpdateParentPedigree(u, p, q, rel, pedigree, TRUE)
        <3>1. Rels \subseteq RelTables
            BY PlanAssumption
        <3> QED
            BY <2>1, <3>1, SpousesByRelationship
    <2>2. CASE \E l, s \in ProxyIds : CollapseSameTree(u, l, s, TRUE)
        BY <2>2 DEF CollapseStep
    <2>3. CASE \E p \in ProxyIds : DeletePerson(u, p, TRUE)
        BY <1>2, <2>3 DEF DeletePerson
    <2> QED
        BY <1>1, <1>7, <2>1, <2>2, <2>3 DEF Interrupted, CreateTree, CreatePerson,
           AcceptMergeProposal
<1>8. CASE UNCHANGED vars
    BY <1>1, <1>8 DEF vars
<1> QED
    BY <1>3, <1>4, <1>5, <1>6, <1>7, <1>8 DEF Next

\* A marriage recorded in both directions with the same dates stays so in every
\* handler, complete or cut off, but a collapse.
THEOREM SpousesKeptCorrect == Spec => SpousesKept
<1>1. ASSUME IInv, [Next]_vars, SpousesAgree
      PROVE  SpousesAgree' \/ \E u \in Callers, l, s \in ProxyIds : CollapseStep(u, l, s)
    <2>1. Mutual(edges)
        BY <1>1 DEF SpousesAgree, Mutual
    <2>2. CASE Mutual(edges')
        BY <2>2 DEF SpousesAgree, Mutual, SameEnds
    <2> QED
        BY <1>1, <2>1, <2>2, SpousesKeptByStep
<1>2. IInv /\ [Next]_vars =>
         [SpousesAgree =>
             \/ SpousesAgree'
             \/ \E u \in Callers, l, s \in ProxyIds : CollapseStep(u, l, s)]_vars
    BY <1>1
<1> QED
    BY <1>2, IInvCorrect, PTL DEF Spec, SpousesKept
-----------------------------------------------------------------------------
(* The server implements the identity layer.                               *)

\* What Identity substitutes for same and for open.
Same == {pq \in Live(proxy) \X Live(proxy) : SamePerson(pq[1], pq[2])}

Open == {{proposal[m].from, proposal[m].to} :
             m \in {n \in Live(proposal) : Pending(n)}}

\* The pairs of a square.
LEMMA Square ==
    ASSUME NEW G
    PROVE  /\ \A x \in G \X G : \E p, q \in G : x = <<p, q>>
           /\ \A p, q : <<p, q>> \in G \X G <=> p \in G /\ q \in G
OBVIOUS

\* The pairs of proxies of one person, before a step and after it.
LEMMA SameMembers ==
    \A p, q : <<p, q>> \in Same <=>
       p \in Live(proxy) /\ q \in Live(proxy) /\ proxy[p].person = proxy[q].person
BY DEF Same, SamePerson

\* They are pairs.
LEMMA SamePairs == \A x \in Same : \E p, q : x = <<p, q>>
<1>1. \A x \in Same : x \in Live(proxy) \X Live(proxy)
    BY DEF Same
<1> QED
    BY <1>1, Square

\* A set of pairs with those members is Same after the step.
LEMMA SamePairsNext ==
    ASSUME NEW B,
           \A x \in B : \E p, q : x = <<p, q>>,
           \A p, q : <<p, q>> \in B <=>
              p \in Live(proxy') /\ q \in Live(proxy')
                  /\ proxy'[p].person = proxy'[q].person
    PROVE  Same' = B
<1>1. Same' = {pq \in Live(proxy') \X Live(proxy') :
                  proxy'[pq[1]].person = proxy'[pq[2]].person}
    BY DEF Same, SamePerson, Live
<1>2. \A x \in Same' : x \in Live(proxy') \X Live(proxy')
    BY <1>1
<1>3. \A x \in Same' : \E p, q : x = <<p, q>>
    BY <1>2, Square
<1>4. \A p, q : <<p, q>> \in Same' <=>
         p \in Live(proxy') /\ q \in Live(proxy') /\ proxy'[p].person = proxy'[q].person
    BY <1>1
<1>5. \A x \in B : x \in Same'
    BY <1>4
<1>6. \A x \in Same' : x \in B
    BY <1>3, <1>4
<1> QED
    BY <1>5, <1>6

\* The steps of the identity layer in terms of proxies and proposals.
LEMMA GroupMembers ==
    ASSUME NEW p \in Live(proxy)
    PROVE  \A r : r \in Identity!Group(p) <=>
              r \in Live(proxy) /\ proxy[r].person = proxy[p].person
<1>1. Identity!Group(p) = {r \in Live(proxy) : <<p, r>> \in Same}
    BY DEF Identity!Group, Same
<1> QED
    BY <1>1, SameMembers

LEMMA Stuttering ==
    ASSUME UNCHANGED Live(proxy), UNCHANGED Same, UNCHANGED Open
    PROVE  UNCHANGED Identity!vars
BY DEF Identity!vars, Same, Open

LEMMA Appearing ==
    ASSUME NEW p, p \notin Live(proxy), Live(proxy)' = Live(proxy) \cup {p},
           Same' = Same \cup {<<p, p>>}, UNCHANGED Open
    PROVE  Identity!Appear(p)
BY DEF Identity!Appear, Same, Open

LEMMA AppearingAs ==
    ASSUME NEW p, NEW q \in Live(proxy), p \notin Live(proxy),
           Live(proxy)' = Live(proxy) \cup {p},
           Same' = Same \cup (({p} \cup Identity!Group(q)) \X ({p} \cup Identity!Group(q))),
           UNCHANGED Open
    PROVE  Identity!AppearAs(p, q)
BY DEF Identity!AppearAs, Same, Open

LEMMA Vanishing ==
    ASSUME NEW ps, Live(proxy)' = Live(proxy) \ ps,
           Same' = Same \cap (Live(proxy)' \X Live(proxy)'), UNCHANGED Open
    PROVE  Identity!Vanish(ps)
BY DEF Identity!Vanish, Same, Open

LEMMA Proposing ==
    ASSUME NEW p \in Live(proxy), NEW q \in Live(proxy), <<p, q>> \notin Same,
           {p, q} \notin Open, Open' = Open \cup {{p, q}},
           UNCHANGED Live(proxy), UNCHANGED Same
    PROVE  Identity!Propose(p, q)
BY DEF Identity!Propose, Same, Open

LEMMA Closing ==
    ASSUME NEW p, NEW q, {p, q} \in Open, Open' = Open \ {{p, q}},
           UNCHANGED Live(proxy), UNCHANGED Same
    PROVE  Identity!Close(p, q)
BY DEF Identity!Close, Same, Open

LEMMA Joining ==
    ASSUME NEW p \in Live(proxy), NEW q \in Live(proxy), {p, q} \in Open,
           Same' = Same \cup ((Identity!Group(p) \cup Identity!Group(q))
                                 \X (Identity!Group(p) \cup Identity!Group(q))),
           Open' \in {Open, Open \ {{p, q}}}, UNCHANGED Live(proxy)
    PROVE  Identity!Join(p, q)
BY DEF Identity!Join, Identity!Joined, Same, Open

\* Steps that leave persons and proposals, and steps that take proxies.
LEMMA IdentityStays ==
    ASSUME Live(proxy') = Live(proxy),
           \A p \in Live(proxy) : proxy'[p].person = proxy[p].person
    PROVE  UNCHANGED Live(proxy) /\ UNCHANGED Same
<1>1. Live(proxy)' = Live(proxy)
    BY DEF Live
<1>2. \A p, q : <<p, q>> \in Same <=>
         p \in Live(proxy') /\ q \in Live(proxy')
             /\ proxy'[p].person = proxy'[q].person
    BY SameMembers
<1>3. Same' = Same
    BY <1>2, SamePairs, SamePairsNext
<1> QED
    BY <1>1, <1>3

\* Who writes no proposal leaves the open ones.
LEMMA OpenStays == UNCHANGED proposal => UNCHANGED Open
BY DEF Open, Pending, Live

\* Proxies go and take what was known about them along.
LEMMA IdentityVanish ==
    ASSUME NEW ps \in SUBSET ProxyIds, UNCHANGED proposal,
           Live(proxy') = Live(proxy) \ ps,
           \A p \in Live(proxy') : proxy'[p] = proxy[p]
    PROVE  Identity!Next
<1>1. Live(proxy)' = Live(proxy) \ ps
    BY DEF Live
<1>2. Same' = Same \cap (Live(proxy') \X Live(proxy'))
    <2> DEFINE B == Same \cap (Live(proxy') \X Live(proxy'))
    <2>1. \A x \in B : \E p, q : x = <<p, q>>
        BY SamePairs
    <2>2. \A p, q : <<p, q>> \in B <=>
             p \in Live(proxy') /\ q \in Live(proxy')
                 /\ proxy'[p].person = proxy'[q].person
        <3>1. \A p, q : <<p, q>> \in B <=>
                 <<p, q>> \in Same /\ p \in Live(proxy') /\ q \in Live(proxy')
            BY Square
        <3>2. \A p, q : <<p, q>> \in B <=>
                 /\ p \in Live(proxy) /\ q \in Live(proxy)
                 /\ proxy[p].person = proxy[q].person
                 /\ p \in Live(proxy') /\ q \in Live(proxy')
            BY <3>1, SameMembers
        <3>3. ASSUME NEW p, NEW q, p \in Live(proxy'), q \in Live(proxy')
              PROVE  /\ p \in Live(proxy) /\ q \in Live(proxy)
                     /\ proxy'[p] = proxy[p] /\ proxy'[q] = proxy[q]
            BY <3>3
        <3> HIDE DEF B
        <3> QED
            BY <3>2, <3>3
    <2> HIDE DEF B
    <2>3. Same' = B
        BY <2>1, <2>2, SamePairsNext
    <2> QED
        BY <2>3 DEF B
<1>3. Identity!Vanish(ps)
    BY <1>1, <1>2, OpenStays, Vanishing DEF Live
<1> QED
    BY <1>3 DEF Identity!Next

\* A proxy of a new person.
LEMMA IdentityAppear ==
    ASSUME NEW p \in ProxyIds, p \notin Live(proxy), UNCHANGED proposal,
           Live(proxy') = Live(proxy) \cup {p},
           \A q \in Live(proxy) : /\ proxy'[q].person = proxy[q].person
                                  /\ proxy[q].person # proxy'[p].person
    PROVE  Identity!Next
<1> DEFINE B == Same \cup {<<p, p>>}
<1>1. Live(proxy)' = Live(proxy) \cup {p}
    BY DEF Live
<1>2. \A x \in B : \E a, b : x = <<a, b>>
    BY SamePairs
<1>3. \A a, b : <<a, b>> \in B <=>
         a \in Live(proxy') /\ b \in Live(proxy') /\ proxy'[a].person = proxy'[b].person
    <2>1. \A a, b : <<a, b>> \in B <=> <<a, b>> \in Same \/ (a = p /\ b = p)
        OBVIOUS
    <2> HIDE DEF B
    <2> QED
        BY <2>1, SameMembers
<1> HIDE DEF B
<1>4. Same' = B /\ UNCHANGED Open
    BY <1>2, <1>3, SamePairsNext, OpenStays
<1>5. Identity!Appear(p)
    BY <1>1, <1>4, Appearing DEF B
<1> QED
    BY <1>5 DEF Identity!Next

\* A further proxy of the person behind q.
LEMMA IdentityAppearAs ==
    ASSUME NEW p \in ProxyIds, NEW q \in ProxyIds, q \in Live(proxy),
           p \notin Live(proxy), UNCHANGED proposal,
           Live(proxy') = Live(proxy) \cup {p},
           \A r \in Live(proxy) : proxy'[r].person = proxy[r].person,
           proxy'[p].person = proxy[q].person
    PROVE  Identity!Next
<1> DEFINE G == {p} \cup Identity!Group(q)
           B == Same \cup (G \X G)
<1>1. Live(proxy)' = Live(proxy) \cup {p}
    BY DEF Live
<1>2. \A r : r \in G <=> r = p \/ (r \in Live(proxy) /\ proxy[r].person = proxy[q].person)
    BY GroupMembers
<1> HIDE DEF G
<1>3. \A x \in B : \E a, b : x = <<a, b>>
    BY SamePairs, Square
<1>4. \A a, b : <<a, b>> \in B <=>
         a \in Live(proxy') /\ b \in Live(proxy') /\ proxy'[a].person = proxy'[b].person
    <2>1. \A a, b : <<a, b>> \in B <=> <<a, b>> \in Same \/ (a \in G /\ b \in G)
        BY Square
    <2>2. \A a, b : <<a, b>> \in B <=>
             \/ /\ a \in Live(proxy) /\ b \in Live(proxy)
                /\ proxy[a].person = proxy[b].person
             \/ a \in G /\ b \in G
        BY <2>1, SameMembers
    <2>3. \A a : a \in Live(proxy') <=> a \in Live(proxy) \/ a = p
        OBVIOUS
    <2> HIDE DEF B
    <2> QED
        BY <1>2, <2>2, <2>3
<1> HIDE DEF B
<1>5. Same' = B /\ UNCHANGED Open
    BY <1>3, <1>4, SamePairsNext, OpenStays
<1>6. Identity!AppearAs(p, q)
    BY <1>1, <1>5, AppearingAs DEF B, G
<1> QED
    BY <1>6 DEF Identity!Next

\* What proposing and deciding do to the open proposals.
LEMMA OpenByPropose ==
    ASSUME IInv, NEW m \in Fresh(ProposalIds), NEW p \in ProxyIds,
           NEW q \in ProxyIds, proposal' = [proposal EXCEPT ![m] = NewProposal(p, q)]
    PROVE  Open' = Open \cup {{p, q}}
<1> DEFINE row == NewProposal(p, q)
<1>1. m \in ProposalIds /\ m \notin Live(proposal) /\ DOMAIN proposal = ProposalIds
    BY DEF Fresh, OnlyIssuedIds, IInv, TypeOK
<1>2. row \in ProposalRow /\ row.from = p /\ row.to = q /\ row.status = "pending"
    BY DEF NewProposal, ProposalRow, Statuses
<1> HIDE DEF row
<1>3. /\ Live(proposal') = Live(proposal) \cup {m}
      /\ \A n \in Live(proposal) : proposal'[n] = proposal[n]
      /\ proposal'[m] = row
    BY <1>1, <1>2, NoRowAssumption DEF Live, row
<1>4. Open' = {{proposal'[n].from, proposal'[n].to} :
                  n \in {k \in Live(proposal') : proposal'[k].status = "pending"}}
    BY DEF Open, Pending, Live
<1>5. Open = {{proposal[n].from, proposal[n].to} :
                  n \in {k \in Live(proposal) : proposal[k].status = "pending"}}
    BY DEF Open, Pending
<1> QED
    BY <1>1, <1>2, <1>3, <1>4, <1>5

\* A decision closes the one open proposal of its pair.
LEMMA OpenByDecide ==
    ASSUME IInv, NEW m \in ProposalIds, Pending(m),
           NEW status \in {"accepted", "rejected"},
           proposal' = [proposal EXCEPT ![m].status = status]
    PROVE  /\ {proposal[m].from, proposal[m].to} \in Open
           /\ Open' = Open \ {{proposal[m].from, proposal[m].to}}
<1> DEFINE row == [proposal[m] EXCEPT !.status = status]
<1>1. m \in Live(proposal) /\ proposal[m] \in ProposalRow /\ DOMAIN proposal = ProposalIds
    BY LiveRows DEF Pending, IInv, TypeOK
<1>2. /\ row \in ProposalRow /\ row.from = proposal[m].from /\ row.to = proposal[m].to
      /\ row.status = status
    BY <1>1 DEF ProposalRow, Statuses
<1>3. proposal' = [proposal EXCEPT ![m] = row]
    OBVIOUS
<1> HIDE DEF row
<1>4. /\ Live(proposal') = Live(proposal)
      /\ \A n \in Live(proposal) : n # m => proposal'[n] = proposal[n]
      /\ proposal'[m] = row
    BY <1>1, <1>2, <1>3, NoRowAssumption DEF Live
<1>5. Open' = {{proposal'[n].from, proposal'[n].to} :
                  n \in {k \in Live(proposal') : proposal'[k].status = "pending"}}
    BY DEF Open, Pending, Live
<1>6. Open = {{proposal[n].from, proposal[n].to} :
                  n \in {k \in Live(proposal) : proposal[k].status = "pending"}}
    BY DEF Open, Pending
<1>7. \A n \in Live(proposal) :
         /\ proposal[n].status = "pending"
         /\ {proposal[n].from, proposal[n].to} = {proposal[m].from, proposal[m].to}
         => n = m
    BY LiveRows DEF OnePendingPerPair, Pending, Between, IInv
<1>8. status # "pending" /\ proposal[m].status = "pending"
    BY DEF Pending
<1> QED
    BY <1>1, <1>2, <1>4, <1>5, <1>6, <1>7, <1>8

\* Re-pointing joins the two groups, or changes nothing.
LEMMA SameJoined ==
    ASSUME NEW p \in Live(proxy), NEW q \in Live(proxy), Live(proxy') = Live(proxy),
           \A r \in Live(proxy) :
              proxy'[r].person = IF proxy[r].person = proxy[q].person
                                 THEN proxy[p].person ELSE proxy[r].person
    PROVE  Same' = Same \cup ((Identity!Group(p) \cup Identity!Group(q))
                                 \X (Identity!Group(p) \cup Identity!Group(q)))
<1> DEFINE G == Identity!Group(p) \cup Identity!Group(q)
           B == Same \cup (G \X G)
<1>1. \A r : r \in G <=> /\ r \in Live(proxy)
                         /\ \/ proxy[r].person = proxy[p].person
                            \/ proxy[r].person = proxy[q].person
    BY GroupMembers
<1> HIDE DEF G
<1>2. \A x \in B : \E r, s : x = <<r, s>>
    BY SamePairs, Square
<1>3. \A r, s : <<r, s>> \in B <=>
         r \in Live(proxy') /\ s \in Live(proxy') /\ proxy'[r].person = proxy'[s].person
    <2>1. \A r, s : <<r, s>> \in B <=> <<r, s>> \in Same \/ (r \in G /\ s \in G)
        BY Square
    <2>2. \A r, s : <<r, s>> \in B <=>
             \/ /\ r \in Live(proxy) /\ s \in Live(proxy)
                /\ proxy[r].person = proxy[s].person
             \/ r \in G /\ s \in G
        BY <2>1, SameMembers
    <2> HIDE DEF B
    <2> QED
        BY <1>1, <2>2
<1> HIDE DEF B
<1>4. Same' = B
    BY <1>2, <1>3, SamePairsNext
<1> QED
    BY <1>4 DEF B, G

\* The update of an accept, done or refused by the index.
LEMMA IdentityRepointed ==
    ASSUME IInv, NEW p \in Live(proxy), NEW q \in Live(proxy),
           proxy' = Repointed(proxy[p].person, proxy[q].person)
    PROVE  /\ UNCHANGED Live(proxy)
           /\ \/ UNCHANGED Same
              \/ Same' = Same \cup ((Identity!Group(p) \cup Identity!Group(q))
                                       \X (Identity!Group(p) \cup Identity!Group(q)))
<1> DEFINE a == proxy[p].person
           b == proxy[q].person
<1>1. a \in PersonIds
    BY LiveRows DEF IInv, ProxyRow
<1>2. /\ Live(proxy') = Live(proxy)
      /\ \A r \in Live(proxy) :
            proxy'[r].person = IF ~Overlap(a, b) /\ proxy[r].person = b THEN a
                               ELSE proxy[r].person
    BY <1>1, RepointedRows DEF IInv
<1>3. UNCHANGED Live(proxy)
    BY <1>2 DEF Live
<1>4. CASE Overlap(a, b)
    BY <1>2, <1>4, IdentityStays
<1>5. CASE ~Overlap(a, b)
    BY <1>2, <1>3, <1>5, SameJoined
<1> QED
    BY <1>4, <1>5

\* A step of the identity layer, or none.
IdentityStep == Identity!Next \/ UNCHANGED Identity!vars

\* Handlers that write neither proxies nor proposals.
LEMMA IdentityUntouched ==
    UNCHANGED <<proxy, proposal>> => IdentityStep
<1> SUFFICES ASSUME UNCHANGED <<proxy, proposal>>
             PROVE  IdentityStep
    OBVIOUS
<1>1. UNCHANGED Live(proxy) /\ UNCHANGED Same
    BY IdentityStays
<1> QED
    BY <1>1, OpenStays, Stuttering DEF IdentityStep

\* The handlers, one by one.
LEMMA IdentityByCreatePerson ==
    ASSUME IInv, NEW u \in Callers, NEW t \in TreeNames,
           NEW cr \in Users \cup {Nobody}, NEW cert \in Certs \cup {NoCert},
           NEW c \in PersonIds, NEW p \in ProxyIds, NEW interrupted \in BOOLEAN,
           CreatePerson(u, t, cr, cert, c, p, interrupted)
    PROVE  IdentityStep
<1>1. CASE interrupted
    BY <1>1, IdentityUntouched DEF CreatePerson
<1>2. CASE ~interrupted
    <2> DEFINE row == [person |-> c, tree |-> t, creator |-> cr]
    <2>1. /\ proxy' = [proxy EXCEPT ![p] = row]
          /\ proposal' = proposal
          /\ c \notin issued /\ p \notin issued
        BY <1>2 DEF CreatePerson, Fresh
    <2>2. row \in ProxyRow /\ row.person = c
        BY DEF ProxyRow
    <2> HIDE DEF row
    <2>3. /\ p \notin Live(proxy)
          /\ \A q \in Live(proxy) : q # p /\ proxy[q].person # c
        BY <2>1 DEF IInv, OnlyIssuedIds
    <2>4. /\ Live(proxy') = Live(proxy) \cup {p}
          /\ \A q \in Live(proxy) : proxy'[q] = proxy[q]
          /\ proxy'[p] = row
        BY <2>1, <2>2, <2>3, NoRowAssumption DEF Live, IInv, TypeOK
    <2>5. \A q \in Live(proxy) : /\ proxy'[q].person = proxy[q].person
                                 /\ proxy[q].person # proxy'[p].person
        BY <2>2, <2>3, <2>4
    <2> QED
        BY <2>1, <2>3, <2>4, <2>5, IdentityAppear DEF IdentityStep
<1> QED
    BY <1>1, <1>2

LEMMA IdentityByUpdatePerson ==
    ASSUME IInv, NEW u \in Callers, NEW p \in ProxyIds, NEW cr \in Users,
           UpdatePerson(u, p, cr)
    PROVE  IdentityStep
<1> DEFINE row == [proxy[p] EXCEPT !.creator = cr]
<1>1. /\ p \in Live(proxy) /\ proxy[p] \in ProxyRow
      /\ proxy' = [proxy EXCEPT ![p] = row] /\ UNCHANGED proposal
    BY LiveRows DEF UpdatePerson, Fetchable, IInv
<1>2. row \in ProxyRow /\ row.person = proxy[p].person
    BY <1>1 DEF ProxyRow
<1> HIDE DEF row
<1>3. /\ Live(proxy') = Live(proxy)
      /\ \A q \in Live(proxy) : proxy'[q].person = proxy[q].person
    BY <1>1, <1>2, NoRowAssumption DEF Live, IInv, TypeOK
<1>4. UNCHANGED Live(proxy) /\ UNCHANGED Same
    BY <1>3, IdentityStays
<1> QED
    BY <1>1, <1>4, OpenStays, Stuttering DEF IdentityStep

LEMMA IdentityByAddPersonToTree ==
    ASSUME IInv, NEW u \in Callers, NEW p \in ProxyIds, NEW t \in TreeNames,
           NEW q \in ProxyIds, AddPersonToTree(u, p, t, q)
    PROVE  IdentityStep
<1> DEFINE row == [proxy[p] EXCEPT !.tree = t]
<1>1. /\ p \in Live(proxy) /\ proxy[p] \in ProxyRow
      /\ proxy' = [proxy EXCEPT ![q] = row] /\ UNCHANGED proposal
      /\ q \notin issued
    BY LiveRows DEF AddPersonToTree, Fetchable, Fresh, IInv
<1>2. row \in ProxyRow /\ row.person = proxy[p].person
    BY <1>1 DEF ProxyRow
<1> HIDE DEF row
<1>3. q \notin Live(proxy)
    BY <1>1 DEF IInv, OnlyIssuedIds
<1>4. /\ Live(proxy') = Live(proxy) \cup {q}
      /\ \A r \in Live(proxy) : proxy'[r] = proxy[r]
      /\ proxy'[q] = row
    BY <1>1, <1>2, <1>3, NoRowAssumption DEF Live, IInv, TypeOK
<1>5. /\ \A r \in Live(proxy) : proxy'[r].person = proxy[r].person
      /\ proxy'[q].person = proxy[p].person
    BY <1>2, <1>4
<1> QED
    BY <1>1, <1>3, <1>4, <1>5, IdentityAppearAs DEF IdentityStep

\* Whoever removes proxies removes them whole, and changes no other.
LEMMA IdentityByRemoval ==
    ASSUME IInv, NEW ps, proxy' = Dropped(proxy, ps), UNCHANGED proposal
    PROVE  IdentityStep
<1> DEFINE qs == ps \cap ProxyIds
<1>1. /\ Live(proxy') = Live(proxy) \ ps
      /\ \A p \in Live(proxy') : proxy'[p] = proxy[p]
    BY LiveDropped
<1>2. Live(proxy') = Live(proxy) \ qs
    BY <1>1, LiveRows DEF IInv
<1>3. qs \in SUBSET ProxyIds
    OBVIOUS
<1> HIDE DEF qs
<1> QED
    BY <1>1, <1>2, <1>3, IdentityVanish DEF IdentityStep

LEMMA IdentityByPersonHandler ==
    ASSUME IInv, NEW u \in Callers, NEW interrupted \in BOOLEAN,
           \/ \E t \in TreeNames, cr \in Users \cup {Nobody},
                 cert \in Certs \cup {NoCert}, c \in PersonIds, p \in ProxyIds :
                 CreatePerson(u, t, cr, cert, c, p, interrupted)
           \/ \E p \in ProxyIds, cr \in Users : UpdatePerson(u, p, cr)
           \/ \E p \in ProxyIds, cert \in Certs : UpdateCanonical(u, p, cert)
           \/ \E p \in ProxyIds : DeletePerson(u, p, interrupted)
           \/ \E p, q \in ProxyIds, t \in TreeNames : AddPersonToTree(u, p, t, q)
           \/ \E p \in ProxyIds : RemovePersonFromTree(u, p)
           \/ \E l, s \in ProxyIds : CollapseSameTree(u, l, s, interrupted)
    PROVE  IdentityStep
<1>1. CASE \E p \in ProxyIds, cert \in Certs : UpdateCanonical(u, p, cert)
    BY <1>1, IdentityUntouched DEF UpdateCanonical
<1>2. CASE \E p \in ProxyIds :
              DeletePerson(u, p, interrupted) \/ RemovePersonFromTree(u, p)
    BY <1>2, IdentityByRemoval DEF DeletePerson, RemovePersonFromTree, CascadeProxies
<1>3. CASE \E l, s \in ProxyIds : CollapseSameTree(u, l, s, interrupted)
    BY <1>3, IdentityByRemoval DEF CollapseSameTree
<1> QED
    BY <1>1, <1>2, <1>3, IdentityByCreatePerson, IdentityByUpdatePerson,
       IdentityByAddPersonToTree

LEMMA IdentityByTreeStep ==
    ASSUME IInv, NEW u \in Callers, TreeStep(u)
    PROVE  IdentityStep
<1>1. CASE TreeSweep
    BY <1>1, IdentityByRemoval DEF TreeSweep, DeleteTree, CascadeProxies
<1>2. CASE ~TreeSweep
    BY <1>2, TreeStepWrites, IdentityUntouched
<1> QED
    BY <1>1, <1>2

LEMMA IdentityByPropose ==
    ASSUME IInv, NEW u \in Callers, NEW p \in ProxyIds, NEW q \in ProxyIds,
           NEW m \in ProposalIds, CreateMergeProposal(u, p, q, m)
    PROVE  IdentityStep
<1>1. /\ p \in Live(proxy) /\ q \in Live(proxy) /\ <<p, q>> \notin Same
      /\ m \in Fresh(ProposalIds) /\ ~PendingBetween(p, q)
      /\ proposal' = [proposal EXCEPT ![m] = NewProposal(p, q)]
      /\ UNCHANGED proxy
    BY SameMembers DEF CreateMergeProposal
<1>2. {p, q} \notin Open
    BY <1>1, LiveRows DEF Open, PendingBetween, Between, Pending, IInv
<1>3. Open' = Open \cup {{p, q}}
    BY <1>1, OpenByPropose
<1>4. UNCHANGED Live(proxy) /\ UNCHANGED Same
    BY <1>1, IdentityStays
<1>5. Identity!Propose(p, q)
    BY <1>1, <1>2, <1>3, <1>4, Proposing
<1> QED
    BY <1>5 DEF IdentityStep, Identity!Next

LEMMA IdentityByReject ==
    ASSUME IInv, NEW u \in Callers, NEW m \in ProposalIds,
           RejectMergeProposal(u, m)
    PROVE  IdentityStep
<1>1. /\ Pending(m) /\ UNCHANGED proxy
      /\ proposal' = [proposal EXCEPT ![m].status = "rejected"]
    BY DEF RejectMergeProposal, MayDecide
<1>2. proposal[m].from \in ProxyIds /\ proposal[m].to \in ProxyIds
    BY <1>1, LiveRows DEF Pending, ProposalRow, IInv
<1> PICK p \in ProxyIds, q \in ProxyIds : p = proposal[m].from /\ q = proposal[m].to
    BY <1>2
<1>3. {p, q} \in Open /\ Open' = Open \ {{p, q}}
    BY <1>1, OpenByDecide
<1>4. UNCHANGED Live(proxy) /\ UNCHANGED Same
    BY <1>1, IdentityStays
<1>5. Identity!Close(p, q)
    BY <1>3, <1>4, Closing
<1> QED
    BY <1>5 DEF IdentityStep, Identity!Next

\* The acceptance joins what it re-points, wherever it is cut off; it closes
\* the proposal when it gets to its end.
LEMMA IdentityByAccept ==
    ASSUME IInv, NEW u \in Callers, NEW m \in ProposalIds,
           NEW resolution \in BOOLEAN, NEW cert \in Certs \cup {NoCert},
           NEW done \in 1..4, AcceptMergeProposal(u, m, resolution, cert, done)
    PROVE  IdentityStep
<1>1. Pending(m) /\ proposal[m].from \in Live(proxy) /\ proposal[m].to \in Live(proxy)
    BY DEF AcceptMergeProposal, MayDecide
<1>2. proposal[m].from \in ProxyIds /\ proposal[m].to \in ProxyIds
    BY <1>1, LiveRows DEF IInv
<1> PICK p \in ProxyIds, q \in ProxyIds : p = proposal[m].from /\ q = proposal[m].to
    BY <1>2
<1> DEFINE R == Repointed(proxy[p].person, proxy[q].person)
           G == Identity!Group(p) \cup Identity!Group(q)
<1>3. /\ p \in Live(proxy) /\ q \in Live(proxy)
      /\ proxy' = proxy \/ proxy' = R
      /\ done # 4 => proposal' = proposal
      /\ done = 4 => /\ proposal' = [proposal EXCEPT ![m].status = "accepted"]
                     /\ proxy' = R
    BY DEF AcceptMergeProposal, MayDecide, CanonicalA, CanonicalB
<1>4. {p, q} \in Open
    BY <1>1 DEF Open, Pending
<1>5. CASE proxy' = proxy /\ proposal' = proposal
    BY <1>5, IdentityUntouched
<1>6. CASE proxy' = R /\ (done = 4 \/ proposal' = proposal)
    <2>1. /\ UNCHANGED Live(proxy)
          /\ UNCHANGED Same \/ Same' = Same \cup (G \X G)
        BY <1>3, <1>6, IdentityRepointed
    <2>2. Open' = Open \/ Open' = Open \ {{p, q}}
        BY <1>1, <1>3, <1>6, OpenByDecide, OpenStays
    <2>3. CASE UNCHANGED Same /\ Open' = Open
        BY <2>1, <2>3, Stuttering DEF IdentityStep
    <2>4. CASE UNCHANGED Same /\ Open' = Open \ {{p, q}}
        <3>1. Identity!Close(p, q)
            BY <1>4, <2>1, <2>4, Closing
        <3> QED
            BY <3>1 DEF IdentityStep, Identity!Next
    <2>5. CASE Same' = Same \cup (G \X G)
        <3>1. Identity!Join(p, q)
            BY <1>3, <1>4, <2>1, <2>2, <2>5, Joining
        <3> QED
            BY <3>1 DEF IdentityStep, Identity!Next
    <2> QED
        BY <2>1, <2>2, <2>3, <2>4, <2>5
<1> QED
    BY <1>3, <1>5, <1>6

\* Every step of the server is a step of the identity layer, or none.
LEMMA IdentityByStep ==
    ASSUME IInv, [Next]_vars
    PROVE  IdentityStep
<1>1. ASSUME NEW u \in Callers, PersonStep(u)
      PROVE  IdentityStep
    BY <1>1, IdentityByPersonHandler DEF PersonStep
<1>2. ASSUME NEW u \in Callers, MergeStep(u)
      PROVE  IdentityStep
    BY <1>2, IdentityByPropose, IdentityByReject, IdentityByAccept DEF MergeStep
<1>3. ASSUME NEW u \in Callers, Interrupted(u)
      PROVE  IdentityStep
    <2>1. CASE \E m \in ProposalIds, resolution \in BOOLEAN,
                  cert \in Certs \cup {NoCert}, done \in 1..3 :
                  AcceptMergeProposal(u, m, resolution, cert, done)
        BY <2>1, IdentityByAccept
    <2>2. CASE \/ \E t \in TreeNames, cr \in Users \cup {Nobody},
                     cert \in Certs \cup {NoCert}, c \in PersonIds, p \in ProxyIds :
                     CreatePerson(u, t, cr, cert, c, p, TRUE)
               \/ \E p \in ProxyIds : DeletePerson(u, p, TRUE)
               \/ \E l, s \in ProxyIds : CollapseSameTree(u, l, s, TRUE)
        BY <2>2, IdentityByPersonHandler
    <2>3. CASE UNCHANGED <<proxy, proposal>>
        BY <2>3, IdentityUntouched
    <2> QED
        BY <1>3, <2>1, <2>2, <2>3 DEF Interrupted, CreateTree,
           UpdateParentPedigree, EdgesUntouched
<1>4. CASE UNCHANGED vars
    BY <1>4, IdentityUntouched DEF vars
<1> QED
    BY <1>1, <1>2, <1>3, <1>4, IdentityByTreeStep, IdentityUntouched,
       RelationshipStepWrites, LifeEventStepWrites DEF Next, EdgesUntouched

\* The empty database knows nothing about anyone.
LEMMA IdentityInit == Init => Identity!Init
<1> SUFFICES ASSUME Init
             PROVE  Identity!Init
    OBVIOUS
<1>1. Live(proxy) = {} /\ Live(proposal) = {}
    BY DEF Init, Live
<1>2. \A S : S = {} => {pq \in S \X S : SamePerson(pq[1], pq[2])} = {}
    OBVIOUS
<1> QED
    BY <1>1, <1>2 DEF Identity!Init

\* The server implements the identity layer: whatever happens to trees, proxies
\* and proposals and wherever an accept is cut off, proxies of one person stay
\* proxies of one person, and two become one only by an open proposal.
THEOREM ImplementsIdentityCorrect == Spec => ImplementsIdentity
<1>1. IInv /\ [Next]_vars => [Identity!Next]_(Identity!vars)
    BY IdentityByStep DEF IdentityStep
<1> QED
    BY <1>1, IdentityInit, IInvCorrect, PTL DEF Spec, ImplementsIdentity, Identity!Spec
=============================================================================
