-------------------------- MODULE AlongsideProofs ---------------------------
(***************************************************************************)
(* Contact requests and the reading of a family, whose steps come between  *)
(* those of the whole server, for any number of persons, trees, edges,     *)
(* recipients and messages.  Both need the schema of all tables            *)
(* (TypeProofs).                                                           *)
(***************************************************************************)
EXTENDS ContactRequests, FamilyView, TypeProofs, SequenceTheorems

-----------------------------------------------------------------------------
(* Contact requests.  ContactInv joins the tables to what the loop of the  *)
(* creators needs to keep its promises: somebody is left to write to as    *)
(* long as it runs.                                                        *)

ContactInv ==
    /\ TypeOK
    /\ ContactTypeOK
    /\ sending # Absent => Len(sending.left) >= 1
    /\ OnePendingContact
    /\ TalkNeedsConsent

cvars == <<vars, contactVars>>
-----------------------------------------------------------------------------
\* A call names at least one recipient.
LEMMA RecipientsType ==
    ASSUME NEW S, NEW tos \in Recipients(S)
    PROVE  tos \in Seq(S) /\ Len(tos) >= 1
<1>1. PICK n \in 1 .. MaxRecipients : tos \in [1 .. n -> S]
    BY DEF Recipients
<1>2. n \in Nat /\ n >= 1
    BY <1>1, ContactAssumption
<1> QED
    BY <1>1, <1>2

\* What is left of a loop that is not at its last turn.
LEMMA TailType ==
    ASSUME NEW S, NEW s \in Seq(S), s # <<>>, Len(s) # 1
    PROVE  Tail(s) \in Seq(S) /\ Len(Tail(s)) >= 1
<1>1. Tail(s) \in Seq(S) /\ Len(Tail(s)) = Len(s) - 1
    BY HeadTailProperties
<1>2. Len(s) \in Nat /\ Len(s) # 0
    BY EmptySeq, LenProperties
<1> QED
    BY <1>1, <1>2

\* The rows of a table of contact requests after one of them is replaced.
LEMMA ContactSet ==
    ASSUME ContactTypeOK, NEW k \in ContactIds, NEW r \in ContactRow
    PROVE  /\ [contact EXCEPT ![k] = r] \in [ContactIds -> ContactRow \cup {Absent}]
           /\ Live([contact EXCEPT ![k] = r]) = Live(contact) \cup {k}
           /\ Live(contact) \subseteq ContactIds
           /\ \A j \in Live(contact) : contact[j] \in ContactRow
<1> r # Absent
    BY ContactAssumption
<1> QED
    BY DEF ContactTypeOK, Live

\* No requests at the start.
LEMMA ContactInitInv == Init /\ ContactInit => ContactInv
<1> SUFFICES ASSUME Init, ContactInit
             PROVE  ContactInv
    OBVIOUS
<1>1. TypeOK
    BY TypeInit
<1>2. Live(contact) = {}
    BY DEF ContactInit, Live
<1> QED
    BY <1>1, <1>2 DEF ContactInit, ContactInv, ContactTypeOK, OnePendingContact,
                      TalkNeedsConsent
-----------------------------------------------------------------------------
\* Beginning a loop, over REST or by the tool.
LEMMA StartInv ==
    ASSUME ContactInv, UNCHANGED vars, NEW p \in ProxyIds,
           \/ \E u \in Callers, tos \in Recipients(Names) : StartContact(u, p, tos)
           \/ \E targets \in Recipients(ProxyIds) : StartToolContact(p, targets)
    PROVE  ContactInv'
<1>1. \A q \in Live(proxy) : proxy[q].creator \in Names
    BY DEF ContactInv, TypeOK, Live, ProxyRow, Names
<1>2. sending' \in Sending /\ Len(sending'.left) >= 1 /\ UNCHANGED contact
    <2>1. CASE \E u \in Callers, tos \in Recipients(Names) : StartContact(u, p, tos)
        <3>1. PICK u \in Callers, tos \in Recipients(Names) : StartContact(u, p, tos)
            BY <2>1
        <3>2. tos \in Seq(Names) /\ Len(tos) >= 1
            BY RecipientsType
        <3>3. sending'.caller \in Names
            BY <1>1, <3>1 DEF StartContact, Names
        <3> QED
            BY <3>1, <3>2, <3>3 DEF StartContact, Sending
    <2>2. CASE \E targets \in Recipients(ProxyIds) : StartToolContact(p, targets)
        <3>1. PICK targets \in Recipients(ProxyIds) : StartToolContact(p, targets)
            BY <2>2
        <3>2. targets \in Seq(ProxyIds) /\ Len(targets) >= 1
            BY RecipientsType
        <3>3. \A i \in DOMAIN targets : OwnerOf(targets[i]) \in Names
            BY <1>1 DEF OwnerOf, Names
        <3> DEFINE owners == [i \in DOMAIN targets |-> OwnerOf(targets[i])]
        <3>4. owners \in Seq(Names) /\ Len(owners) >= 1
            BY <3>2, <3>3
        <3> QED
            BY <1>1, <3>1, <3>4 DEF StartToolContact, Sending
    <2> QED
        BY <2>1, <2>2
<1>3. sending' # Absent
    BY <1>2, ContactAssumption
<1> QED
    BY <1>2, <1>3 DEF ContactInv, ContactTypeOK, OnePendingContact, TalkNeedsConsent,
                      TypeOK, vars, Live

\* A turn of the loop.
LEMMA SendInv ==
    ASSUME ContactInv, UNCHANGED vars, NEW k \in ContactIds, NEW refused \in BOOLEAN,
           SendOne(k, refused)
    PROVE  ContactInv'
<1> DEFINE to == Head(sending.left)
<1>1. sending \in Sending /\ sending.left \in Seq(Names) /\ sending.left # <<>>
    BY DEF ContactInv, ContactTypeOK, SendOne, Sending
<1>2. to \in Names
    BY <1>1
<1>3. /\ sending' \in Sending \cup {Absent}
      /\ sending' # Absent => Len(sending'.left) >= 1
    <2>1. CASE Len(sending.left) = 1
        BY <2>1 DEF SendOne
    <2>2. CASE Len(sending.left) # 1
        <3>1. Tail(sending.left) \in Seq(Names) /\ Len(Tail(sending.left)) >= 1
            BY <1>1, <2>2, TailType
        <3>2. sending' = [sending EXCEPT !.left = Tail(sending.left)]
            BY <2>2 DEF SendOne
        <3> QED
            BY <1>1, <3>1, <3>2 DEF Sending
    <2> QED
        BY <2>1, <2>2
<1>4. CASE refused \/ Skipped(sending, to)
    <2>1. UNCHANGED contact
        BY <1>4 DEF SendOne
    <2> QED
        BY <1>3, <2>1 DEF ContactInv, ContactTypeOK, OnePendingContact,
                          TalkNeedsConsent, TypeOK, vars, Live
<1>5. CASE ~refused /\ ~Skipped(sending, to)
    <2> DEFINE r == NewContact(sending, to)
    <2>1. contact[k] = Absent /\ contact' = [contact EXCEPT ![k] = r]
        BY <1>5 DEF SendOne
    <2>2. r \in ContactRow /\ r.from_user # r.to_user
        <3>1. sending.proxy \in ProxyIds /\ sending.caller \in Names
            BY <1>1 DEF Sending
        <3>2. to # sending.caller
            BY <1>5 DEF Skipped
        <3>3. PICK c : c = to
            OBVIOUS
        <3> HIDE DEF to
        <3>4. r = [from_proxy |-> sending.proxy, from_user |-> sending.caller,
                   to_user |-> c, status |-> "pending", messages |-> 0]
            BY <3>3 DEF NewContact
        <3> HIDE DEF r
        <3> QED
            BY <1>2, <3>1, <3>2, <3>3, <3>4, ContactAssumption
            DEF ContactRow, ContactStatuses
    <2>3. Live(contact') = Live(contact) \cup {k} /\ k \notin Live(contact)
        BY <2>1, <2>2, ContactSet DEF ContactInv, Live
    <2>4. contact'[k] = r /\ \A j \in Live(contact) : contact'[j] = contact[j]
        BY <2>1, <2>3, ContactSet, <2>2 DEF ContactInv, ContactTypeOK
    <2>5. ContactTypeOK'
        BY <1>3, <2>1, <2>2, <2>3, <2>4, ContactSet DEF ContactInv, ContactTypeOK
    <2>6. OnePendingContact'
        BY <1>5, <2>3, <2>4
        DEF ContactInv, OnePendingContact, Skipped, PendingContact, NewContact
    <2>7. TalkNeedsConsent'
        BY <2>3, <2>4 DEF ContactInv, TalkNeedsConsent, NewContact
    <2> QED
        BY <1>3, <2>5, <2>6, <2>7 DEF ContactInv, TypeOK, vars
<1> QED
    BY <1>4, <1>5

\* Answers and messages replace one row, whose parties stay.
LEMMA AnswerInv ==
    ASSUME ContactInv, UNCHANGED vars, NEW u \in Callers, NEW k \in ContactIds,
           AcceptContact(u, k) \/ IgnoreContact(u, k) \/ AppendContactMessage(u, k)
    PROVE  ContactInv'
<1> DEFINE r == contact'[k]
<1>1. /\ k \in Live(contact) /\ contact[k] \in ContactRow
      /\ UNCHANGED sending
    BY ContactSet DEF ContactInv, ContactTypeOK, Live, AcceptContact, IgnoreContact,
                      AppendContactMessage, Answerable, Talkable
<1>2. /\ contact' = [contact EXCEPT ![k] = r]
      /\ r \in ContactRow
      /\ r.from_proxy = contact[k].from_proxy
      /\ r.from_user = contact[k].from_user /\ r.to_user = contact[k].to_user
      /\ r.status = "pending" => contact[k].status = "pending"
      /\ r.messages > 0 => r.status = "accepted"
    <2>1. CASE AcceptContact(u, k)
        BY <1>1, <2>1 DEF AcceptContact, ContactInv, ContactTypeOK, ContactRow,
                          ContactStatuses
    <2>2. CASE IgnoreContact(u, k)
        <3>1. ~(contact[k].messages > 0)
            BY <1>1, <2>2 DEF IgnoreContact, Answerable, ContactInv, TalkNeedsConsent
        <3> QED
            BY <1>1, <2>2, <3>1 DEF IgnoreContact, ContactInv, ContactTypeOK, ContactRow,
                                    ContactStatuses
    <2>3. CASE AppendContactMessage(u, k)
        BY <1>1, <2>3, ContactAssumption
        DEF AppendContactMessage, Talkable, ContactInv, ContactTypeOK, ContactRow
    <2> QED
        BY <2>1, <2>2, <2>3
<1>3. Live(contact') = Live(contact)
    BY <1>1, <1>2, ContactSet, ContactAssumption DEF ContactInv, ContactTypeOK, Live
<1>4. \A j \in Live(contact) : j # k => contact'[j] = contact[j]
    BY <1>2, ContactSet DEF ContactInv, ContactTypeOK
<1>5. ContactTypeOK'
    BY <1>1, <1>2, <1>3, <1>4, ContactSet DEF ContactInv, ContactTypeOK
<1>6. OnePendingContact'
    BY <1>1, <1>2, <1>3, <1>4 DEF ContactInv, OnePendingContact
<1>7. TalkNeedsConsent'
    BY <1>1, <1>2, <1>3, <1>4 DEF ContactInv, TalkNeedsConsent
<1> QED
    BY <1>1, <1>5, <1>6, <1>7 DEF ContactInv, TypeOK, vars

\* Other handlers do not touch contact requests, nor run during a loop.
LEMMA StoreStepInv ==
    ASSUME ContactInv, UNCHANGED contactVars, TypeOK'
    PROVE  ContactInv'
BY DEF ContactInv, contactVars, ContactTypeOK, OnePendingContact, TalkNeedsConsent, Live

\* The invariant is inductive.
LEMMA ContactNextInv == ContactInv /\ [ContactNext]_cvars => ContactInv'
<1> SUFFICES ASSUME ContactInv, [ContactNext]_cvars
             PROVE  ContactInv'
    OBVIOUS
<1>1. CASE UNCHANGED cvars
    BY <1>1, StoreStepInv DEF cvars, vars, ContactInv, TypeOK
<1>2. CASE ContactStep /\ UNCHANGED vars
    <2>1. CASE SendingCut
        BY <1>2, <2>1 DEF SendingCut, ContactInv, ContactTypeOK, OnePendingContact,
                          TalkNeedsConsent, TypeOK, vars, Live
    <2> QED
        BY <1>2, <2>1, StartInv, SendInv, AnswerInv DEF ContactStep
<1>3. CASE /\ UNCHANGED contactVars
           /\ \/ \E u \in Callers, p \in ProxyIds, cut \in BOOLEAN :
                    DeletePerson(u, p, cut)
              \/ \E u \in Callers, p, q \in ProxyIds, t \in TreeNames :
                    AddPersonToTree(u, p, t, q)
    <2>1. TypeOK'
        BY <1>3, TypeDeletePerson, TypeAddPersonToTree DEF ContactInv
    <2> QED
        BY <1>3, <2>1, StoreStepInv
<1> QED
    BY <1>1, <1>2, <1>3 DEF ContactNext

\* The inductive invariant holds throughout.
THEOREM ContactInvCorrect == ContactSpec => []ContactInv
BY ContactInitInv, ContactNextInv, PTL DEF ContactSpec, cvars

\* Contact requests keep to their schema, and nobody asks themselves.
THEOREM ContactTypeCorrect == ContactSpec => []ContactTypeOK
<1>1. ContactInv => ContactTypeOK
    BY DEF ContactInv
<1> QED
    BY <1>1, ContactInvCorrect, PTL

\* One recipient has one pending request about a proxy at most, whichever
\* interface made it and wherever loops were cut off.
THEOREM OnePendingContactCorrect == ContactSpec => []OnePendingContact
<1>1. ContactInv => OnePendingContact
    BY DEF ContactInv
<1> QED
    BY <1>1, ContactInvCorrect, PTL

\* Only accepted requests carry messages.
THEOREM TalkNeedsConsentCorrect == ContactSpec => []TalkNeedsConsent
<1>1. ContactInv => TalkNeedsConsent
    BY DEF ContactInv
<1> QED
    BY <1>1, ContactInvCorrect, PTL
-----------------------------------------------------------------------------
\* The step behind DecidedContactIsFinal.
KeepsDecided ==
    \A k \in Live(contact) :
        contact[k].status # "pending" =>
            /\ k \in Live(contact)'
            /\ contact'[k].status = contact[k].status
            /\ contact'[k].from_proxy = contact[k].from_proxy
            /\ contact'[k].from_user = contact[k].from_user
            /\ contact'[k].to_user = contact[k].to_user

\* No step changes what was decided.
LEMMA DecidedStep == ContactInv /\ [ContactNext]_cvars => [KeepsDecided]_cvars
<1> SUFFICES ASSUME ContactInv, ContactNext
             PROVE  KeepsDecided
    BY DEF cvars
<1>1. CASE UNCHANGED contact
    BY <1>1 DEF KeepsDecided, Live
<1>2. ASSUME NEW k \in ContactIds, NEW refused \in BOOLEAN,
             SendOne(k, refused), contact' # contact
      PROVE  KeepsDecided
    BY <1>2 DEF SendOne, KeepsDecided, Live, ContactInv, ContactTypeOK
<1>3. ASSUME NEW k \in ContactIds, NEW u \in Callers,
             AcceptContact(u, k) \/ IgnoreContact(u, k) \/ AppendContactMessage(u, k)
      PROVE  KeepsDecided
    <2>1. k \in Live(contact) /\ contact[k] \in ContactRow
        BY <1>3, ContactSet DEF ContactInv, AcceptContact, IgnoreContact,
                          AppendContactMessage, Answerable, Talkable, ContactTypeOK, Live
    <2>2. \A r \in ContactRow : r # Absent
        BY ContactAssumption
    <2>3. CASE AcceptContact(u, k) \/ IgnoreContact(u, k)
        BY <2>1, <2>3 DEF AcceptContact, IgnoreContact, Answerable, KeepsDecided, Live,
                          ContactInv, ContactTypeOK
    <2>4. CASE AppendContactMessage(u, k)
        <3> DEFINE r == [contact[k] EXCEPT !.messages = @ + 1]
        <3>1. r \in ContactRow
            BY <2>1, <2>4, ContactAssumption DEF AppendContactMessage, ContactRow
        <3>2. /\ r.status = contact[k].status /\ r.from_proxy = contact[k].from_proxy
              /\ r.from_user = contact[k].from_user /\ r.to_user = contact[k].to_user
            BY <2>1 DEF ContactRow
        <3>3. contact' = [contact EXCEPT ![k] = r]
            BY <2>4 DEF AppendContactMessage
        <3> HIDE DEF r
        <3> QED
            BY <2>2, <3>1, <3>2, <3>3 DEF KeepsDecided, Live, ContactInv, ContactTypeOK
    <2> QED
        BY <1>3, <2>3, <2>4
<1> QED
    BY <1>1, <1>2, <1>3
    DEF ContactNext, ContactStep, StartContact, StartToolContact, SendingCut, contactVars

\* An answer is not taken back, and its request stays between the same two.
THEOREM DecidedContactIsFinalCorrect == ContactSpec => DecidedContactIsFinal
<1>1. ContactInv /\ [ContactNext]_cvars => [KeepsDecided]_cvars
    BY DecidedStep
<1> QED
    BY <1>1, ContactInvCorrect, PTL
    DEF ContactSpec, DecidedContactIsFinal, KeepsDecided, cvars

-----------------------------------------------------------------------------
(* The reading of a family.  The edges a query sees are between those that *)
(* stayed and those that were there at some moment: kept shrinks and ever  *)
(* grows with each step of another handler.  NoneInvented bounds the       *)
(* answer from above.  NoneMissed bounds it from below, by the queries     *)
(* already made; those still to be made are named by next and grand.       *)

\* One view at a time beside all other handlers.
ViewNext == ViewStep \/ Meanwhile(Next)
ViewInit == Init /\ view = Absent
ViewSpec == ViewInit /\ [][ViewNext]_<<vars, view>>

ViewRecord ==
    [root : ProxyIds, next : 1 .. 6, grand : SUBSET (ParentRels \X ProxyIds),
     answer : SUBSET Entry, kept : SUBSET EdgeRow, ever : SUBSET EdgeRow]

\* What the answer v.answer shows, or is still asked for, was there once.
NoneInvented(v) ==
    /\ v.answer \subseteq FamilyOf(v.ever, v.root)
    /\ \A g \in v.grand : \E rel \in ParentRels : Edge(v.ever, rel, v.root, g[2])

\* What the queries already made had to find is in the answer, and the parents
\* found have been asked about or are in grand.
NoneMissed(v) ==
    \A k \in 1 .. (v.next - 1) : \A q \in Found(v.kept, RootQueries[k], v.root) :
        /\ <<RootQueries[k], v.root, q>> \in v.answer
        /\ RootQueries[k] \in ParentRels =>
             \A rel \in ParentRels :
                \/ <<rel, q>> \in v.grand
                \/ \A o \in ParentsBy(v.kept, rel, q) : <<rel, q, o>> \in v.answer

ViewInv ==
    /\ TypeOK
    /\ view # Absent =>
         /\ view \in ViewRecord
         /\ view.kept \subseteq edges /\ edges \subseteq view.ever
         /\ NoneInvented(view)
         /\ NoneMissed(view)
-----------------------------------------------------------------------------
(* What the queries find.                                                  *)

Queries == {"children", "spouse", "siblings"} \cup ParentRels

\* The five queries about the root.
LEMMA FiveQueries ==
    /\ RootQueries \in [1 .. 5 -> Queries]
    /\ \A a \in Queries : \E k \in 1 .. 5 : RootQueries[k] = a
<1>1. /\ RootQueries[1] = "children" /\ RootQueries[2] = "spouse"
      /\ RootQueries[3] = "siblings" /\ RootQueries[4] = "has_father"
      /\ RootQueries[5] = "has_mother" /\ DOMAIN RootQueries = 1 .. 5
    BY DEF RootQueries
<1>2. RootQueries = [k \in 1 .. 5 |-> RootQueries[k]]
    BY <1>1 DEF RootQueries
<1>3. \A k \in 1 .. 5 : k = 1 \/ k = 2 \/ k = 3 \/ k = 4 \/ k = 5
    OBVIOUS
<1>4. \A k \in 1 .. 5 : RootQueries[k] \in Queries
    BY <1>1, <1>3 DEF Queries, ParentRels
<1>5. RootQueries \in [1 .. 5 -> Queries]
    BY <1>2, <1>4
<1>6. ASSUME NEW a \in Queries
      PROVE  \E k \in 1 .. 5 : RootQueries[k] = a
    BY <1>1 DEF Queries, ParentRels
<1> QED
    BY <1>5, <1>6

\* A query finds more among more edges.
LEMMA FoundMore ==
    ASSUME NEW E, NEW F, E \subseteq F, NEW a, NEW p
    PROVE  /\ Found(E, a, p) \subseteq Found(F, a, p)
           /\ ParentsBy(E, a, p) \subseteq ParentsBy(F, a, p)
BY DEF Found, Children, SpousesOf, SiblingsOf, ParentsBy

\* A query finds proxies, those that the edges of its table join.
LEMMA FoundEdges ==
    ASSUME NEW E \in SUBSET EdgeRow, NEW p, NEW q
    PROVE  /\ q \in Found(E, "children", p) <=>
                 q \in ProxyIds /\ \E rel \in ParentRels : Edge(E, rel, q, p)
           /\ q \in Found(E, "spouse", p) <=> q \in ProxyIds /\ Edge(E, "has_spouse", p, q)
           /\ q \in Found(E, "siblings", p) <=>
                 q \in ProxyIds /\ (Edge(E, "has_sibling", p, q) \/ Edge(E, "has_sibling", q, p))
           /\ \A rel \in ParentRels :
                 /\ q \in Found(E, rel, p) <=> q \in ProxyIds /\ Edge(E, rel, p, q)
                 /\ q \in ParentsBy(E, rel, p) <=> q \in ProxyIds /\ Edge(E, rel, p, q)
<1>1. \A e \in E : e.in \in ProxyIds /\ e.out \in ProxyIds
    BY DEF EdgeRow
<1>2. q \in Children(E, p) <=> q \in ProxyIds /\ \E rel \in ParentRels : Edge(E, rel, q, p)
    BY <1>1 DEF Children, Edge, SameEnds
<1>3. q \in SpousesOf(E, p) <=> q \in ProxyIds /\ Edge(E, "has_spouse", p, q)
    BY <1>1 DEF SpousesOf, Edge, SameEnds
<1>4. q \in SiblingsOf(E, p) <=>
          q \in ProxyIds /\ (Edge(E, "has_sibling", p, q) \/ Edge(E, "has_sibling", q, p))
    BY <1>1 DEF SiblingsOf, Edge, SameEnds
<1>5. \A rel : q \in ParentsBy(E, rel, p) <=> q \in ProxyIds /\ Edge(E, rel, p, q)
    BY <1>1 DEF ParentsBy, Edge, SameEnds
<1>6. /\ Found(E, "children", p) = Children(E, p)
      /\ Found(E, "spouse", p) = SpousesOf(E, p)
      /\ Found(E, "siblings", p) = SiblingsOf(E, p)
      /\ \A rel \in ParentRels : Found(E, rel, p) = ParentsBy(E, rel, p)
    BY DEF Found, ParentRels
<1> QED
    BY <1>2, <1>3, <1>4, <1>5, <1>6

\* The family of a proxy, query by query.
LEMMA FamilyByQueries ==
    ASSUME NEW E \in SUBSET EdgeRow, NEW root \in ProxyIds, NEW a, NEW p, NEW q
    PROVE  <<a, p, q>> \in FamilyOf(E, root) <=>
             /\ a \in Queries /\ p \in ProxyIds /\ q \in ProxyIds
             /\ \/ p = root /\ q \in Found(E, a, root)
                \/ /\ a \in ParentRels /\ q \in ParentsBy(E, a, p)
                   /\ \E rel \in ParentRels : p \in ParentsBy(E, rel, root)
<1>1. <<a, p, q>> \in Entry <=> a \in Queries /\ p \in ProxyIds /\ q \in ProxyIds
    BY DEF Entry, Queries, ParentRels
<1>2. <<a, p, q>> \in FamilyOf(E, root) <=>
        /\ <<a, p, q>> \in Entry
        /\ \/ p = root /\
                \/ a = "children" /\ \E rel \in ParentRels : Edge(E, rel, q, root)
                \/ a = "spouse" /\ Edge(E, "has_spouse", root, q)
                \/ a = "siblings" /\ \/ Edge(E, "has_sibling", root, q)
                                     \/ Edge(E, "has_sibling", q, root)
           \/ /\ a \in ParentRels /\ Edge(E, a, p, q)
              /\ p = root \/ \E rel \in ParentRels : Edge(E, rel, root, p)
    BY DEF FamilyOf
<1>3. ASSUME a \in Queries, p \in ProxyIds, q \in ProxyIds
      PROVE  /\ q \in Found(E, a, root) <=>
                   \/ a = "children" /\ \E rel \in ParentRels : Edge(E, rel, q, root)
                   \/ a = "spouse" /\ Edge(E, "has_spouse", root, q)
                   \/ a = "siblings" /\ \/ Edge(E, "has_sibling", root, q)
                                        \/ Edge(E, "has_sibling", q, root)
                   \/ a \in ParentRels /\ Edge(E, a, root, q)
             /\ a \in ParentRels => (q \in ParentsBy(E, a, p) <=> Edge(E, a, p, q))
             /\ \A rel \in ParentRels :
                   p \in ParentsBy(E, rel, root) <=> Edge(E, rel, root, p)
    BY <1>3, FoundEdges DEF Queries, ParentRels
<1> QED
    BY <1>1, <1>2, <1>3
-----------------------------------------------------------------------------
(* The invariant, step by step.                                            *)

WithAnswer(v, n, A, G) == [v EXCEPT !.next = n, !.answer = A, !.grand = G]
WithEdges(v, K, E) == [v EXCEPT !.kept = K, !.ever = E]

\* What a query changes of a view.
LEMMA Asked ==
    ASSUME NEW v \in ViewRecord, NEW n \in 1 .. 6, NEW A \in SUBSET Entry,
           NEW G \in SUBSET (ParentRels \X ProxyIds)
    PROVE  /\ WithAnswer(v, n, A, G) \in ViewRecord
           /\ WithAnswer(v, n, A, G).root = v.root
           /\ WithAnswer(v, n, A, G).kept = v.kept
           /\ WithAnswer(v, n, A, G).ever = v.ever
           /\ WithAnswer(v, n, A, G).next = n
           /\ WithAnswer(v, n, A, G).answer = A
           /\ WithAnswer(v, n, A, G).grand = G
BY DEF WithAnswer, ViewRecord

\* What another handler changes of it.
LEMMA Disturbed ==
    ASSUME NEW v \in ViewRecord, NEW K \in SUBSET EdgeRow, NEW E \in SUBSET EdgeRow
    PROVE  /\ WithEdges(v, K, E) \in ViewRecord
           /\ WithEdges(v, K, E).root = v.root
           /\ WithEdges(v, K, E).next = v.next
           /\ WithEdges(v, K, E).answer = v.answer
           /\ WithEdges(v, K, E).grand = v.grand
           /\ WithEdges(v, K, E).kept = K
           /\ WithEdges(v, K, E).ever = E
BY DEF WithEdges, ViewRecord

\* A family has more relatives by more edges.
LEMMA FamilyMore ==
    ASSUME NEW E, NEW F, E \subseteq F, NEW root
    PROVE  /\ FamilyOf(E, root) \subseteq FamilyOf(F, root)
           /\ \A rel, p, q : Edge(E, rel, p, q) => Edge(F, rel, p, q)
BY DEF FamilyOf, Edge

\* Steps that only read.
LEMMA ReadOnly ==
    ASSUME ViewInv, UNCHANGED vars
    PROVE  TypeOK' /\ edges' = edges /\ edges \in SUBSET EdgeRow
<1>1. TypeOK'
    BY TypeNext DEF ViewInv
<1>2. edges' = edges
    BY DEF vars
<1> QED
    BY <1>1, <1>2 DEF ViewInv, TypeOK

\* A view that begins.
LEMMA InvStartView ==
    ASSUME ViewInv, NEW p \in ProxyIds, StartView(p)
    PROVE  ViewInv'
<1> DEFINE v == [root |-> p, next |-> 1, grand |-> {}, answer |-> {},
                 kept |-> edges, ever |-> edges]
<1>1. TypeOK' /\ edges' = edges /\ edges \in SUBSET EdgeRow
    BY ReadOnly DEF StartView
<1>2. /\ v \in ViewRecord
      /\ v.root = p /\ v.next = 1 /\ v.grand = {} /\ v.answer = {}
      /\ v.kept = edges /\ v.ever = edges
    BY <1>1 DEF ViewRecord
<1>3. view' = v
    BY DEF StartView
<1> HIDE DEF v
<1>4. NoneInvented(v) /\ NoneMissed(v)
    BY <1>2 DEF NoneInvented, NoneMissed
<1> QED
    BY <1>1, <1>2, <1>3, <1>4 DEF ViewInv, NoneInvented, NoneMissed

\* The next query about the root.
LEMMA InvAskRoot ==
    ASSUME ViewInv, AskRoot
    PROVE  ViewInv'
<1> DEFINE a == RootQueries[view.next]
           found == Found(edges, a, view.root)
<1>1. TypeOK' /\ edges' = edges /\ edges \in SUBSET EdgeRow
    BY ReadOnly DEF AskRoot
<1>2. view \in ViewRecord /\ view # Absent /\ view.next <= 5
    BY DEF AskRoot, ViewInv
<1>3. /\ view.root \in ProxyIds /\ view.next \in 1 .. 5
      /\ view.grand \subseteq ParentRels \X ProxyIds /\ view.answer \subseteq Entry
      /\ view.kept \in SUBSET EdgeRow /\ view.ever \in SUBSET EdgeRow
      /\ view.kept \subseteq edges /\ edges \subseteq view.ever
      /\ NoneInvented(view) /\ NoneMissed(view)
    BY <1>2 DEF ViewRecord, ViewInv
<1>4. a \in Queries
    BY <1>3, FiveQueries DEF Queries
<1>5. \A q \in found : q \in ProxyIds
    BY <1>1, <1>4, FoundEdges DEF Queries
<1>6. GrandQueries(a, found) \subseteq ParentRels \X ProxyIds
    BY <1>5 DEF GrandQueries
<1>7. {a} \X {view.root} \X found \subseteq Entry
    BY <1>3, <1>4, <1>5 DEF Entry, Queries, ParentRels
<1>8. PICK u \in ViewRecord, n \in 1 .. 6, A \in SUBSET Entry,
           G \in SUBSET (ParentRels \X ProxyIds) :
         /\ u = view /\ n = view.next + 1
         /\ A = view.answer \cup ({a} \X {view.root} \X found)
         /\ G = view.grand \cup GrandQueries(a, found)
    <2>1. /\ view.next + 1 \in 1 .. 6
          /\ view.answer \cup ({a} \X {view.root} \X found) \in SUBSET Entry
          /\ view.grand \cup GrandQueries(a, found) \in SUBSET (ParentRels \X ProxyIds)
        BY <1>3, <1>6, <1>7
    <2> QED
        BY <1>2, <2>1
<1> DEFINE v == WithAnswer(u, n, A, G)
<1>9. view' = v
    BY <1>8 DEF AskRoot, WithAnswer
<1>10. /\ v \in ViewRecord
       /\ v.root = view.root /\ v.kept = view.kept /\ v.ever = view.ever
       /\ v.next = view.next + 1
       /\ v.answer = view.answer \cup ({a} \X {view.root} \X found)
       /\ v.grand = view.grand \cup GrandQueries(a, found)
    BY <1>8, Asked
<1> HIDE DEF v
<1>11. found \subseteq Found(view.ever, a, view.root)
    BY <1>3, FoundMore
<1>12. NoneInvented(v)
    <2>1. ASSUME NEW q \in found
          PROVE  <<a, view.root, q>> \in FamilyOf(view.ever, view.root)
        BY <1>3, <1>4, <1>5, <1>11, FamilyByQueries
    <2>2. v.answer \subseteq FamilyOf(v.ever, v.root)
        BY <1>3, <1>10, <2>1 DEF NoneInvented
    <2>3. ASSUME NEW g \in GrandQueries(a, found)
          PROVE  \E rel \in ParentRels : Edge(view.ever, rel, view.root, g[2])
        <3>1. a \in ParentRels /\ g[2] \in found
            BY <2>3 DEF GrandQueries
        <3> QED
            BY <1>3, <1>11, <3>1, FoundEdges
    <2> QED
        BY <1>3, <1>10, <2>2, <2>3 DEF NoneInvented
<1>13. NoneMissed(v)
    <2> SUFFICES ASSUME NEW k \in 1 .. view.next,
                        NEW q \in Found(view.kept, RootQueries[k], view.root)
                 PROVE  /\ <<RootQueries[k], view.root, q>> \in v.answer
                        /\ RootQueries[k] \in ParentRels =>
                             \A rel \in ParentRels :
                                \/ <<rel, q>> \in v.grand
                                \/ \A o \in ParentsBy(view.kept, rel, q) :
                                      <<rel, q, o>> \in v.answer
        BY <1>3, <1>10 DEF NoneMissed
    <2>1. CASE k = view.next
        <3>1. q \in found
            BY <1>3, <2>1, FoundMore
        <3> HIDE DEF found
        <3>2. <<a, view.root, q>> \in v.answer
            BY <1>10, <3>1
        <3>3. a \in ParentRels => \A rel \in ParentRels : <<rel, q>> \in v.grand
            BY <1>10, <3>1 DEF GrandQueries
        <3> QED
            BY <2>1, <3>2, <3>3
    <2>2. CASE k # view.next
        BY <1>3, <1>10, <2>2 DEF NoneMissed
    <2> QED
        BY <2>1, <2>2
<1> QED
    BY <1>1, <1>3, <1>9, <1>10, <1>12, <1>13 DEF ViewInv, NoneInvented, NoneMissed

\* A query about a parent found.
LEMMA InvAskParent ==
    ASSUME ViewInv, AskParent
    PROVE  ViewInv'
<1>1. TypeOK' /\ edges' = edges /\ edges \in SUBSET EdgeRow
    BY ReadOnly DEF AskParent
<1>2. PICK g \in view.grand :
         view' = [view EXCEPT
                    !.grand = @ \ {g},
                    !.answer = @ \cup ({g[1]} \X {g[2]} \X Found(edges, g[1], g[2]))]
    BY DEF AskParent
<1> DEFINE found == Found(edges, g[1], g[2])
<1>3. view \in ViewRecord /\ view # Absent
    BY DEF AskParent, ViewInv
<1>4. /\ view.root \in ProxyIds /\ view.next \in 1 .. 6
      /\ view.grand \subseteq ParentRels \X ProxyIds /\ view.answer \subseteq Entry
      /\ view.kept \in SUBSET EdgeRow /\ view.ever \in SUBSET EdgeRow
      /\ view.kept \subseteq edges /\ edges \subseteq view.ever
      /\ NoneInvented(view) /\ NoneMissed(view)
    BY <1>3 DEF ViewRecord, ViewInv
<1>5. PICK r \in ParentRels, p \in ProxyIds : g = <<r, p>>
    BY <1>4
<1>6. g[1] = r /\ g[2] = p
    BY <1>5
<1>7. /\ \A q \in found : q \in ProxyIds /\ q \in ParentsBy(view.ever, r, p)
      /\ \A q \in ParentsBy(view.kept, r, p) : q \in found
    <2>1. Found(edges, r, p) = ParentsBy(edges, r, p)
        BY DEF Found, ParentRels
    <2>2. \A q \in ParentsBy(edges, r, p) : q \in ProxyIds
        BY <1>1, FoundEdges
    <2>3. /\ ParentsBy(edges, r, p) \subseteq ParentsBy(view.ever, r, p)
          /\ ParentsBy(view.kept, r, p) \subseteq ParentsBy(edges, r, p)
        BY <1>4, FoundMore
    <2>4. found = ParentsBy(edges, r, p)
        BY <1>6, <2>1
    <2> HIDE DEF found
    <2> QED
        BY <2>2, <2>3, <2>4
<1>8. {r} \X {p} \X found \subseteq Entry
    BY <1>7 DEF Entry, ParentRels
<1>9. PICK u \in ViewRecord, n \in 1 .. 6, A \in SUBSET Entry,
           G \in SUBSET (ParentRels \X ProxyIds) :
         /\ u = view /\ n = view.next
         /\ A = view.answer \cup ({r} \X {p} \X found)
         /\ G = view.grand \ {g}
    BY <1>3, <1>4, <1>8
<1> DEFINE v == WithAnswer(u, n, A, G)
<1>10. view' = v
    BY <1>2, <1>6, <1>9 DEF ViewRecord, WithAnswer
<1>11. /\ v \in ViewRecord
       /\ v.root = view.root /\ v.kept = view.kept /\ v.ever = view.ever
       /\ v.next = view.next /\ v.grand = view.grand \ {g}
       /\ v.answer = view.answer \cup ({r} \X {p} \X found)
    BY <1>9, Asked
<1> HIDE DEF v, found
<1>12. NoneInvented(v)
    <2>1. \E rel \in ParentRels : p \in ParentsBy(view.ever, rel, view.root)
        BY <1>4, <1>6, FoundEdges DEF NoneInvented
    <2>2. ASSUME NEW q \in found
          PROVE  <<r, p, q>> \in FamilyOf(view.ever, view.root)
        BY <1>4, <1>7, <2>1, FamilyByQueries DEF Queries
    <2>3. v.answer \subseteq FamilyOf(v.ever, v.root)
        BY <1>4, <1>11, <2>2 DEF NoneInvented
    <2> QED
        BY <1>4, <1>11, <2>3 DEF NoneInvented
<1>13. NoneMissed(v)
    <2> SUFFICES ASSUME NEW k \in 1 .. (view.next - 1),
                        NEW q \in Found(view.kept, RootQueries[k], view.root)
                 PROVE  /\ <<RootQueries[k], view.root, q>> \in v.answer
                        /\ RootQueries[k] \in ParentRels =>
                             \A rel \in ParentRels :
                                \/ <<rel, q>> \in v.grand
                                \/ \A o \in ParentsBy(view.kept, rel, q) :
                                      <<rel, q, o>> \in v.answer
        BY <1>11 DEF NoneMissed
    <2>1. <<RootQueries[k], view.root, q>> \in v.answer
        BY <1>4, <1>11 DEF NoneMissed
    <2>2. ASSUME RootQueries[k] \in ParentRels, NEW rel \in ParentRels,
                 <<rel, q>> \notin v.grand, NEW o \in ParentsBy(view.kept, rel, q)
          PROVE  <<rel, q, o>> \in v.answer
        <3>1. CASE <<rel, q>> = g
            <4>1. rel = r /\ q = p
                BY <1>5, <3>1
            <4> QED
                BY <1>7, <1>11, <2>2, <4>1
        <3>2. CASE <<rel, q>> # g
            BY <1>4, <1>11, <2>2, <3>2 DEF NoneMissed
        <3> QED
            BY <3>1, <3>2
    <2> QED
        BY <2>1, <2>2
<1> QED
    BY <1>1, <1>4, <1>10, <1>11, <1>12, <1>13 DEF ViewInv, NoneInvented, NoneMissed

\* Another handler comes in between.
LEMMA InvMeanwhile ==
    ASSUME ViewInv, Meanwhile(Next)
    PROVE  ViewInv'
<1>1. TypeOK' /\ edges' \in SUBSET EdgeRow
    <2>1. TypeOK'
        BY TypeNext DEF ViewInv, Meanwhile
    <2> QED
        BY <2>1 DEF TypeOK
<1>2. CASE view = Absent
    BY <1>1, <1>2 DEF Meanwhile, ViewInv
<1>3. CASE view # Absent
    <2>1. view \in ViewRecord
        BY <1>3 DEF ViewInv
    <2>2. /\ view.root \in ProxyIds /\ view.next \in 1 .. 6
          /\ view.grand \subseteq ParentRels \X ProxyIds /\ view.answer \subseteq Entry
          /\ view.kept \in SUBSET EdgeRow /\ view.ever \in SUBSET EdgeRow
          /\ NoneInvented(view) /\ NoneMissed(view)
        BY <1>3, <2>1 DEF ViewRecord, ViewInv
    <2>3. PICK u \in ViewRecord, K \in SUBSET EdgeRow, E \in SUBSET EdgeRow :
             u = view /\ K = view.kept \cap edges' /\ E = view.ever \cup edges'
        BY <1>1, <2>1, <2>2
    <2> DEFINE v == WithEdges(u, K, E)
    <2>4. view' = v
        BY <1>3, <2>3 DEF Meanwhile, WithEdges
    <2>5. /\ v \in ViewRecord
          /\ v.root = view.root /\ v.next = view.next /\ v.answer = view.answer
          /\ v.grand = view.grand
          /\ v.kept = view.kept \cap edges' /\ v.ever = view.ever \cup edges'
        BY <2>3, Disturbed
    <2> HIDE DEF v
    <2>6. v.kept \subseteq view.kept /\ view.ever \subseteq v.ever
        BY <2>5
    <2>7. NoneInvented(v)
        <3>1. FamilyOf(view.ever, view.root) \subseteq FamilyOf(v.ever, view.root)
            BY <2>6, FamilyMore
        <3>2. \A rel, p, q : Edge(view.ever, rel, p, q) => Edge(v.ever, rel, p, q)
            BY <2>6, FamilyMore
        <3> QED
            BY <2>2, <2>5, <3>1, <3>2 DEF NoneInvented
    <2>8. NoneMissed(v)
        <3> SUFFICES ASSUME NEW k \in 1 .. (view.next - 1),
                            NEW q \in Found(v.kept, RootQueries[k], view.root)
                     PROVE  /\ <<RootQueries[k], view.root, q>> \in view.answer
                            /\ RootQueries[k] \in ParentRels =>
                                 \A rel \in ParentRels :
                                    \/ <<rel, q>> \in view.grand
                                    \/ \A o \in ParentsBy(v.kept, rel, q) :
                                          <<rel, q, o>> \in view.answer
            BY <2>5 DEF NoneMissed
        <3>1. q \in Found(view.kept, RootQueries[k], view.root)
            BY <2>6, FoundMore
        <3>2. \A rel \in ParentRels :
                ParentsBy(v.kept, rel, q) \subseteq ParentsBy(view.kept, rel, q)
            BY <2>6, FoundMore
        <3> QED
            BY <2>2, <3>1, <3>2 DEF NoneMissed
    <2>9. NoneInvented(view)'
        BY <2>4, <2>7 DEF NoneInvented
    <2>10. NoneMissed(view)'
        BY <2>4, <2>8 DEF NoneMissed
    <2>11. view'.kept \subseteq edges' /\ edges' \subseteq view'.ever
        BY <2>4, <2>5
    <2> QED
        BY <1>1, <2>4, <2>5, <2>9, <2>10, <2>11 DEF ViewInv
<1> QED
    BY <1>2, <1>3

\* Nothing is read at the start.
LEMMA ViewInitInv == ViewInit => ViewInv
BY TypeInit DEF ViewInit, ViewInv

\* The invariant of a view and the edges it reads is inductive.
LEMMA ViewNextInv == ViewInv /\ [ViewNext]_<<vars, view>> => ViewInv'
<1> SUFFICES ASSUME ViewInv, [ViewNext]_<<vars, view>>
             PROVE  ViewInv'
    OBVIOUS
<1>1. CASE EndView
    BY <1>1, ReadOnly DEF EndView, ViewInv
<1>2. CASE UNCHANGED <<vars, view>>
    <2>1. TypeOK' /\ edges' = edges /\ view' = view
        BY <1>2, ReadOnly
    <2> QED
        BY <2>1 DEF ViewInv, NoneInvented, NoneMissed
<1> QED
    BY <1>1, <1>2, InvStartView, InvAskRoot, InvAskParent, InvMeanwhile
    DEF ViewNext, ViewStep
-----------------------------------------------------------------------------
(* What a view and the tool show.                                          *)

\* The answer of a view has no relative too many and none too few.
LEMMA AnswerBetween == ViewInv => ViewBetween
<1> SUFFICES ASSUME ViewInv, view # Absent, view.next = 6, view.grand = {}
             PROVE  /\ FamilyOf(view.kept, view.root) \subseteq view.answer
                    /\ view.answer \subseteq FamilyOf(view.ever, view.root)
    BY DEF ViewBetween, Answered
<1>1. /\ view.root \in ProxyIds /\ view.kept \in SUBSET EdgeRow
      /\ NoneInvented(view) /\ NoneMissed(view)
    BY DEF ViewInv, ViewRecord
<1>2. ASSUME NEW x \in FamilyOf(view.kept, view.root)
      PROVE  x \in view.answer
    <2>1. PICK a, p, q : x = <<a, p, q>>
        BY DEF FamilyOf, Entry
    <2>2. /\ a \in Queries
          /\ \/ p = view.root /\ q \in Found(view.kept, a, view.root)
             \/ /\ a \in ParentRels /\ q \in ParentsBy(view.kept, a, p)
                /\ \E rel \in ParentRels : p \in ParentsBy(view.kept, rel, view.root)
        BY <1>1, <2>1, FamilyByQueries
    <2>3. CASE p = view.root /\ q \in Found(view.kept, a, view.root)
        <3>1. PICK k \in 1 .. (view.next - 1) : RootQueries[k] = a
            BY <2>2, FiveQueries DEF Queries
        <3> QED
            BY <1>1, <2>1, <2>3, <3>1 DEF NoneMissed
    <2>4. ASSUME a \in ParentRels, q \in ParentsBy(view.kept, a, p),
                 NEW rel \in ParentRels, p \in ParentsBy(view.kept, rel, view.root)
          PROVE  x \in view.answer
        <3>1. PICK k \in 1 .. (view.next - 1) : RootQueries[k] = rel
            <4>1. rel \in Queries /\ view.next - 1 = 5
                BY DEF Queries
            <4> QED
                BY <4>1, FiveQueries
        <3>2. p \in Found(view.kept, rel, view.root)
            BY <2>4 DEF Found, ParentRels
        <3>3. <<a, p, q>> \in view.answer
            BY <1>1, <2>4, <3>1, <3>2 DEF NoneMissed
        <3> QED
            BY <2>1, <3>3
    <2> QED
        BY <2>2, <2>3, <2>4
<1> QED
    BY <1>1, <1>2 DEF NoneInvented

\* The tool lists the parents, spouses and children of a family.
LEMMA ToolByEdges ==
    ASSUME NEW E \in SUBSET EdgeRow, NEW p \in ProxyIds
    PROVE  ToolFamily(E, p) = {x \in FamilyOf(E, p) : x[2] = p /\ x[1] # "siblings"}
<1> DEFINE F == {x \in FamilyOf(E, p) : x[2] = p /\ x[1] # "siblings"}
<1>1. \A e \in E : /\ e.in \in ProxyIds /\ e.out \in ProxyIds
                   /\ e.rel \in ParentRels \cup {"has_sibling", "has_spouse"}
    BY DEF EdgeRow, RelTables, ParentRels
<1>2. ASSUME NEW e \in E, e.in = p, e.rel # "has_sibling"
      PROVE  <<IF e.rel = "has_spouse" THEN "spouse" ELSE e.rel, p, e.out>> \in F
    <2>1. Edge(E, e.rel, p, e.out)
        BY <1>2 DEF Edge, SameEnds
    <2>2. CASE e.rel = "has_spouse"
        <3>1. e.out \in Found(E, "spouse", p)
            BY <1>1, <2>1, <2>2, FoundEdges
        <3>2. <<"spouse", p, e.out>> \in FamilyOf(E, p)
            BY <1>1, <3>1, FamilyByQueries DEF Queries
        <3> QED
            BY <2>2, <3>2
    <2>3. CASE e.rel \in ParentRels
        <3>1. <<e.rel, p, e.out>> \in FamilyOf(E, p)
            BY <1>1, <2>1, <2>3, FoundEdges, FamilyByQueries DEF Queries
        <3> QED
            BY <2>3, <3>1 DEF ParentRels
    <2> QED
        BY <1>1, <1>2, <2>2, <2>3
<1>3. ASSUME NEW e \in E, e.out = p, e.rel \in ParentRels
      PROVE  <<"children", p, e.in>> \in F
    <2>1. Edge(E, e.rel, e.in, p)
        BY <1>3 DEF Edge, SameEnds
    <2>2. <<"children", p, e.in>> \in FamilyOf(E, p)
        BY <1>1, <1>3, <2>1, FoundEdges, FamilyByQueries DEF Queries
    <2> QED
        BY <2>2
<1>4. ASSUME NEW x \in F
      PROVE  x \in ToolFamily(E, p)
    <2>1. PICK a, q : x = <<a, p, q>>
        BY DEF FamilyOf, Entry
    <2>2. a \in Queries /\ a # "siblings" /\ (a \in ParentRels \/ q \in Found(E, a, p))
          /\ (a \in ParentRels => q \in ParentsBy(E, a, p))
        <3>1. /\ a \in Queries
              /\ \/ q \in Found(E, a, p)
                 \/ a \in ParentRels /\ q \in ParentsBy(E, a, p)
            BY <2>1, FamilyByQueries
        <3>2. a \in ParentRels => Found(E, a, p) = ParentsBy(E, a, p)
            BY DEF Found, ParentRels
        <3> QED
            BY <2>1, <3>1, <3>2
    <2>3. CASE a = "children"
        <3>1. PICK e \in E : e.rel \in ParentRels /\ e.in = q /\ e.out = p
            BY <2>2, <2>3, FoundEdges DEF Edge, SameEnds, ParentRels
        <3> QED
            BY <2>1, <2>3, <3>1 DEF ToolFamily
    <2>4. CASE a = "spouse"
        <3>1. q \in SpousesOf(E, p)
            BY <2>2, <2>4 DEF Found, ParentRels
        <3>2. PICK e \in E : e.rel = "has_spouse" /\ e.in = p /\ e.out = q
            BY <3>1 DEF SpousesOf
        <3> QED
            BY <2>1, <2>4, <3>2 DEF ToolFamily
    <2>5. CASE a \in ParentRels
        <3>1. PICK e \in E : e.rel = a /\ e.in = p /\ e.out = q
            BY <2>2, <2>5 DEF ParentsBy
        <3>2. e.rel # "has_spouse" /\ e.rel # "has_sibling"
            BY <2>5, <3>1 DEF ParentRels
        <3> QED
            BY <2>1, <3>1, <3>2 DEF ToolFamily
    <2> QED
        BY <2>2, <2>3, <2>4, <2>5 DEF Queries
<1> HIDE DEF F
<1>5. \A x \in ToolFamily(E, p) : x \in F
    BY <1>2, <1>3 DEF ToolFamily
<1> QED
    BY <1>4, <1>5 DEF F

\* Each sibling of the tool shares the parent by whom it was found, and a parent
\* is looked for in the table that has the children.
LEMMA SiblingsByParent ==
    ASSUME edges \in SUBSET EdgeRow
    PROVE  SiblingsShareParent
<1> DEFINE Fathers == {e.out : e \in {f \in edges : f.rel = "has_father"}}
           Mothers == {e.out : e \in {f \in edges : f.rel = "has_mother"}}
           Sharing(p) == {q \in ProxyIds \ {p} :
                            ParentsOf(edges, p) \cap ParentsOf(edges, q) # {}}
<1>1. \A e \in edges : e.in \in ProxyIds /\ e.out \in ProxyIds
    BY DEF EdgeRow
<1>2. ASSUME NEW p \in ProxyIds, NEW s \in ToolSiblings(edges, p)
      PROVE  s \in Sharing(p)
    <2>1. PICK q \in ParentsBy(edges, "has_father", p) \cup ParentsBy(edges, "has_mother", p) :
             s \in {e.in : e \in {f \in edges : /\ f.rel = ParentEdge(edges, p, q)
                                             /\ f.out = q /\ f.in # p}}
        BY <1>2 DEF ToolSiblings
    <2>2. PICK e \in edges : /\ e.rel = ParentEdge(edges, p, q) /\ e.out = q /\ e.in # p
                            /\ s = e.in
        BY <2>1
    <2>3. e.rel \in ParentRels
        BY <2>2 DEF ParentEdge, ParentRels
    <2>4. q \in ParentsOf(edges, p)
        BY <2>1 DEF ParentsBy, ParentsOf, ParentRels
    <2>5. q \in ParentsOf(edges, s)
        BY <2>2, <2>3 DEF ParentsOf
    <2> QED
        BY <1>1, <2>2, <2>4, <2>5
<1>3. ASSUME Fathers \cap Mothers = {}, NEW p \in ProxyIds, NEW s \in Sharing(p)
      PROVE  s \in ToolSiblings(edges, p)
    <2>1. PICK q : q \in ParentsOf(edges, p) /\ q \in ParentsOf(edges, s)
        BY <1>3
    <2>2. PICK e \in edges : e.rel \in ParentRels /\ e.in = p /\ e.out = q
        BY <2>1 DEF ParentsOf
    <2>3. PICK f \in edges : f.rel \in ParentRels /\ f.in = s /\ f.out = q
        BY <2>1 DEF ParentsOf
    <2>4. e.rel = f.rel
        BY <1>3, <2>2, <2>3 DEF ParentRels
    <2>5. q \in ParentsBy(edges, e.rel, p)
        BY <2>2 DEF ParentsBy
    <2>6. e.rel = ParentEdge(edges, p, q)
        <3>1. e.rel = "has_mother" => q \notin ParentsBy(edges, "has_father", p)
            BY <1>3, <2>2 DEF ParentsBy
        <3> QED
            BY <2>2, <2>5, <3>1 DEF ParentEdge, ParentRels
    <2>7. q \in ParentsBy(edges, "has_father", p) \cup ParentsBy(edges, "has_mother", p)
        BY <2>2, <2>5 DEF ParentRels
    <2>8. s \in {d.in : d \in {g \in edges : /\ g.rel = ParentEdge(edges, p, q)
                                          /\ g.out = q /\ g.in # p}}
        BY <1>3, <2>3, <2>4, <2>6
    <2> QED
        BY <2>7, <2>8 DEF ToolSiblings
<1> QED
    BY <1>2, <1>3 DEF SiblingsShareParent
-----------------------------------------------------------------------------
(* The specification.                                                      *)

\* The invariant of the view.
THEOREM ViewInvCorrect == ViewSpec => []ViewInv
BY ViewInitInv, ViewNextInv, PTL DEF ViewSpec

\* However the handlers of the whole server come between the queries of a view,
\* it shows every relative reached by edges that stayed and none by edges that
\* were never there (get_family_tree).
THEOREM ViewBetweenCorrect == ViewSpec => []ViewBetween
BY ViewInvCorrect, AnswerBetween, PTL

\* A view nobody disturbed and the MCP tool show the same parents, spouses and
\* children, of any family (get_family_tree, get_family).
THEOREM ToolAgreesWithViewCorrect == ViewSpec => []ToolAgreesWithView
<1>1. ASSUME ViewInv, Answered, view.kept = view.ever
      PROVE  ToolFamily(edges, view.root) =
                {x \in view.answer : x[2] = view.root /\ x[1] # "siblings"}
    <2>1. /\ view.root \in ProxyIds /\ edges \in SUBSET EdgeRow
          /\ view.kept = edges /\ view.ever = edges
        BY <1>1 DEF ViewInv, Answered, ViewRecord, TypeOK
    <2>2. view.answer = FamilyOf(edges, view.root)
        BY <1>1, <2>1, AnswerBetween DEF ViewBetween
    <2> QED
        BY <2>1, <2>2, ToolByEdges
<1>2. ViewInv => ToolAgreesWithView
    BY <1>1 DEF ToolAgreesWithView
<1> QED
    BY ViewInvCorrect, <1>2, PTL

\* The siblings of the MCP tool are those who share a parent, as long as nobody
\* is father of one person and mother of another (get_family).
THEOREM SiblingsShareParentCorrect == ViewSpec => []SiblingsShareParent
<1>1. ViewInv => SiblingsShareParent
    BY SiblingsByParent DEF ViewInv, TypeOK
<1> QED
    BY ViewInvCorrect, <1>1, PTL
=============================================================================
