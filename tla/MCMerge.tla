------------------------------ MODULE MCMerge -------------------------------
(***************************************************************************)
(* A small instance about persons, their proxies and merge proposals.  It  *)
(* starts with all trees registered, and looks at one caller who may write *)
(* everything; trees can go, edges and life events are not created.        *)
(***************************************************************************)
EXTENDS ClannClaims, TLC

CONSTANT Owner

\* Nobody owns a team.
NoTeamOwner == {}

\* Every caller unlimited.
NoLimit == [u \in Callers |-> Unlimited]

\* Record ids are interchangeable: one fresh id stands for all of them.
OneFresh(ids) == IF Fresh(ids) = {} THEN {} ELSE {CHOOSE i \in Fresh(ids) : TRUE}

\* Trees are interchangeable, and so are certificates.
TreeSymmetry == Permutations(TreeNames) \cup Permutations(Certs)

MCInit ==
    /\ trees = [t \in TreeNames |->
                   [owner |-> Owner, primary |-> FALSE, team |-> NoTeam]]
    /\ editors = {} /\ edges = {} /\ issued = {}
    /\ person = [c \in PersonIds |-> Absent]
    /\ proxy = [p \in ProxyIds |-> Absent]
    /\ lifeEvent = [e \in EventIds |-> Absent]
    /\ proposal = [m \in ProposalIds |-> Absent]

MCNext ==
    \/ \E t \in TreeNames : DeleteTree(t)
    \/ \E t \in TreeNames, cert \in Certs \cup {NoCert},
          c \in OneFresh(PersonIds), p \in OneFresh(ProxyIds), cut \in BOOLEAN :
          CreatePerson(NoAuth, t, Nobody, cert, c, p, cut)
    \/ \E p \in ProxyIds, cert \in Certs : UpdateCanonical(NoAuth, p, cert)
    \/ \E p \in ProxyIds, cut \in BOOLEAN : DeletePerson(NoAuth, p, cut)
    \/ \E p \in ProxyIds, t \in TreeNames, q \in OneFresh(ProxyIds) :
          AddPersonToTree(NoAuth, p, t, q)
    \/ \E p \in ProxyIds : RemovePersonFromTree(NoAuth, p)
    \/ \E l, s \in ProxyIds, cut \in BOOLEAN :
          CollapseSameTree(NoAuth, l, s, cut)
    \/ \E p, q \in ProxyIds, m \in OneFresh(ProposalIds) :
          CreateMergeProposal(NoAuth, p, q, m)
    \/ \E m \in ProposalIds : RejectMergeProposal(NoAuth, m)
    \/ \E m \in ProposalIds, resolution \in BOOLEAN,
          cert \in Certs \cup {NoCert}, done \in 1..4 :
          AcceptMergeProposal(NoAuth, m, resolution, cert, done)

MCSpec == MCInit /\ [][MCNext]_vars
=============================================================================
