------------------------- MODULE ClannServerProofs --------------------------
(***************************************************************************)
(* The invariants of ClannServer, for all values of the constants.         *)
(*                                                                         *)
(* They are proved together.  That an id is handed out once (OnlyIssuedIds)*)
(* is what keeps a new proxy clear of the edges, events and proxies that   *)
(* deleted rows left behind, and the rows' trees and persons are what the  *)
(* write batches of delete, collapse and merge are built on.               *)
(***************************************************************************)
EXTENDS TypeProofs, FiniteSetTheorems

\* The inductive invariant.
IInv ==
    /\ TypeOK
    /\ OnlyIssuedIds
    /\ ProxyTreeExists
    /\ EdgesWithinTree
    /\ EventTreeMatches
    /\ OneProxyPerTree
    /\ OneEdgePerPair
    /\ OnePendingPerPair
    /\ AtMostOnePrimary
    /\ CertHeldOnce

\* What is left of a table when rows are removed.
LEMMA LiveDropped ==
    ASSUME NEW table, NEW keys
    PROVE  /\ Live(Dropped(table, keys)) = Live(table) \ keys
           /\ \A k \in Live(Dropped(table, keys)) : Dropped(table, keys)[k] = table[k]
BY DEF Live, Dropped

\* Invariants that mention no table the handler writes stay true.
LEMMA PersonsUntouched ==
    ASSUME IInv, TypeOK', UNCHANGED <<person, proxy, edges, lifeEvent, proposal, issued>>
    PROVE  /\ OnlyIssuedIds' /\ EdgesWithinTree' /\ EventTreeMatches'
           /\ OneProxyPerTree' /\ OneEdgePerPair' /\ OnePendingPerPair'
           /\ CertHeldOnce'
BY DEF IInv, OnlyIssuedIds, EdgesWithinTree, EventTreeMatches, OneProxyPerTree,
       OneEdgePerPair, SameEnds, OnePendingPerPair, Pending, Between,
       CertHeldOnce, Live

LEMMA InvCreateTree ==
    ASSUME IInv,
           NEW u \in Callers, NEW t \in TreeNames, NEW o \in Users,
           NEW primary \in BOOLEAN, NEW interrupted \in BOOLEAN,
           CreateTree(u, t, o, primary, interrupted)
    PROVE  IInv'
<1> DEFINE cleared == IF primary THEN WithoutPrimary(o) ELSE trees
           row == [owner |-> o, primary |-> primary, team |-> NoTeam]
<1>1. TypeOK'
    BY TypeCreateTree DEF IInv
<1>2. /\ DOMAIN cleared = TreeNames
      /\ Live(cleared) = Live(trees)
      /\ \A s \in Live(trees) :
            /\ cleared[s].owner = trees[s].owner
            /\ cleared[s].primary => trees[s].primary
            /\ primary /\ trees[s].owner = o => ~cleared[s].primary
    <2>1. CASE primary
        BY <2>1, WithoutPrimaryRows DEF IInv
    <2>2. CASE ~primary
        BY <2>2 DEF IInv, TypeOK
    <2> QED
        BY <2>1, <2>2
<1>3. t \notin Live(trees)
    BY DEF CreateTree, Live
<1>4. trees' = cleared \/ trees' = [cleared EXCEPT ![t] = row]
    BY DEF CreateTree
<1>5. /\ Live(trees) \subseteq Live(trees')
      /\ AtMostOnePrimary'
    <2>1. CASE trees' = cleared
        <3> HIDE DEF cleared
        <3> QED
            BY <1>2, <2>1 DEF AtMostOnePrimary, IInv
    <2>2. CASE trees' = [cleared EXCEPT ![t] = row]
        <3>1. /\ Live(trees') = Live(trees) \cup {t}
              /\ trees'[t] = row
              /\ \A s \in Live(trees) : trees'[s] = cleared[s]
            <4>1. row # Absent
                BY NoRowAssumption DEF TreeRow
            <4> HIDE DEF cleared, row
            <4> QED
                BY <1>2, <1>3, <2>2, <4>1 DEF Live
        <3>2. row.owner = o /\ row.primary = primary
            OBVIOUS
        <3> HIDE DEF cleared, row
        <3> QED
            BY <1>2, <1>3, <3>1, <3>2 DEF AtMostOnePrimary, IInv
    <2> QED
        BY <1>4, <2>1, <2>2
<1>6. ProxyTreeExists'
    BY <1>5 DEF ProxyTreeExists, IInv, CreateTree, Live
<1> QED
    BY <1>1, <1>5, <1>6, PersonsUntouched DEF IInv, CreateTree

LEMMA InvSetPrimaryTree ==
    ASSUME IInv, NEW t \in TreeNames, SetPrimaryTree(t)
    PROVE  IInv'
<1> DEFINE W == WithoutPrimary(trees[t].owner)
<1>1. TypeOK'
    BY TypeSetPrimaryTree DEF IInv
<1>2. /\ t \in Live(trees) /\ DOMAIN W = TreeNames
      /\ Live(W) = Live(trees)
      /\ \A s \in Live(trees) :
            /\ W[s] \in TreeRow
            /\ W[s].owner = trees[s].owner
            /\ W[s].primary => trees[s].owner # trees[t].owner /\ trees[s].primary
    BY WithoutPrimaryRows DEF IInv, SetPrimaryTree
<1>3. /\ trees' = [W EXCEPT ![t] = [W[t] EXCEPT !.primary = TRUE]]
      /\ [W[t] EXCEPT !.primary = TRUE] \in TreeRow
      /\ [W[t] EXCEPT !.primary = TRUE].owner = trees[t].owner
    BY <1>2, PrimarySet DEF SetPrimaryTree
<1>4. /\ Live(trees') = Live(trees)
      /\ trees'[t].owner = trees[t].owner
      /\ \A s \in Live(trees) : s # t => trees'[s] = W[s]
    <2> HIDE DEF W
    <2> QED
        BY <1>2, <1>3, NoRowAssumption DEF Live
<1>5. AtMostOnePrimary'
    <2> HIDE DEF W
    <2> QED
        BY <1>2, <1>4 DEF AtMostOnePrimary, IInv
<1>6. ProxyTreeExists'
    BY <1>4 DEF ProxyTreeExists, IInv, SetPrimaryTree
<1> QED
    BY <1>1, <1>5, <1>6, PersonsUntouched DEF IInv, SetPrimaryTree

LEMMA InvSetTreeTeam ==
    ASSUME IInv, NEW t \in TreeNames, NEW team \in Teams \cup {NoTeam},
           SetTreeTeam(t, team)
    PROVE  IInv'
<1>1. TypeOK'
    BY TypeSetTreeTeam DEF IInv
<1>2. /\ [trees[t] EXCEPT !.team = team] \in TreeRow
      /\ [trees[t] EXCEPT !.team = team].owner = trees[t].owner
      /\ [trees[t] EXCEPT !.team = team].primary = trees[t].primary
    BY LiveRows DEF IInv, SetTreeTeam, TreeRow
<1>3. /\ Live(trees') = Live(trees)
      /\ \A s \in Live(trees) : /\ trees'[s].owner = trees[s].owner
                                /\ trees'[s].primary => trees[s].primary
    <2>1. /\ DOMAIN trees = TreeNames /\ t \in Live(trees)
          /\ trees' = [trees EXCEPT ![t] = [trees[t] EXCEPT !.team = team]]
        BY DEF SetTreeTeam, IInv, TypeOK
    <2> QED
        BY <1>2, <2>1, NoRowAssumption DEF Live
<1>4. AtMostOnePrimary'
    BY <1>3 DEF AtMostOnePrimary, IInv
<1>5. ProxyTreeExists'
    <2>1. proxy' = proxy
        BY DEF SetTreeTeam
    <2> QED
        BY <1>3, <2>1 DEF ProxyTreeExists, IInv
<1> QED
    BY <1>1, <1>4, <1>5, PersonsUntouched DEF IInv, SetTreeTeam

LEMMA InvTreeEditors ==
    ASSUME IInv,
           NEW u \in Callers, NEW t \in TreeNames, NEW v \in Users,
           AddTreeEditor(u, t, v) \/ RemoveTreeEditor(u, t, v)
    PROVE  IInv'
<1>1. TypeOK'
    BY TypeTreeEditors DEF IInv
<1>2. UNCHANGED <<trees, person, proxy, edges, lifeEvent, proposal, issued>>
    BY DEF AddTreeEditor, RemoveTreeEditor
<1>3. AtMostOnePrimary' /\ ProxyTreeExists'
    BY <1>2 DEF AtMostOnePrimary, ProxyTreeExists, IInv, Live
<1> QED
    BY <1>1, <1>2, <1>3, PersonsUntouched DEF IInv
-----------------------------------------------------------------------------
(* Handlers that delete proxies and what hangs on them.                    *)

\* The DELETE batch, with any persons deleted beside it.
LEMMA InvCascade ==
    ASSUME IInv, TypeOK', NEW ps, NEW cs, CascadeProxies(ps),
           person' = Dropped(person, cs), UNCHANGED <<proposal, issued>>
    PROVE  /\ OnlyIssuedIds' /\ EdgesWithinTree' /\ EventTreeMatches'
           /\ OneProxyPerTree' /\ OneEdgePerPair' /\ OnePendingPerPair'
           /\ CertHeldOnce'
           /\ Live(proxy') = Live(proxy) \ ps
           /\ \A p \in Live(proxy') : proxy'[p] = proxy[p]
<1>1. /\ Live(proxy') = Live(proxy) \ ps
      /\ \A p \in Live(proxy') : proxy'[p] = proxy[p]
    BY LiveDropped DEF CascadeProxies
<1>2. /\ Live(lifeEvent') \subseteq Live(lifeEvent)
      /\ \A e \in Live(lifeEvent') : lifeEvent'[e] = lifeEvent[e]
    BY LiveDropped DEF CascadeProxies
<1>3. /\ Live(person') \subseteq Live(person)
      /\ \A c \in Live(person') : person'[c] = person[c]
    BY LiveDropped
<1>4. OnlyIssuedIds'
    BY <1>1, <1>2, <1>3 DEF OnlyIssuedIds, IInv, Live
<1>5. edges' = {e \in edges : e.in \notin ps /\ e.out \notin ps}
    BY DEF CascadeProxies, EdgesWithout
<1>6. EdgesWithinTree'
    BY <1>1, <1>5 DEF EdgesWithinTree, IInv
<1>7. EventTreeMatches'
    BY <1>1, <1>2 DEF EventTreeMatches, IInv
<1>8. OneProxyPerTree'
    BY <1>1 DEF OneProxyPerTree, IInv
<1>9. OneEdgePerPair'
    BY <1>5 DEF OneEdgePerPair, SameEnds, IInv
<1>10. OnePendingPerPair'
    BY DEF OnePendingPerPair, Pending, Between, Live, IInv
<1>11. CertHeldOnce'
    BY <1>3 DEF CertHeldOnce, IInv
<1> QED
    BY <1>1, <1>4, <1>6, <1>7, <1>8, <1>9, <1>10, <1>11

LEMMA InvDeleteTree ==
    ASSUME IInv, NEW t \in TreeNames, DeleteTree(t)
    PROVE  IInv'
<1>1. TypeOK'
    BY TypeDeleteTree DEF IInv
<1>2. /\ OnlyIssuedIds' /\ EdgesWithinTree' /\ EventTreeMatches'
      /\ OneProxyPerTree' /\ OneEdgePerPair' /\ OnePendingPerPair'
      /\ CertHeldOnce'
      /\ Live(proxy') = Live(proxy) \ ProxiesIn(t)
      /\ \A p \in Live(proxy') : proxy'[p] = proxy[p]
    BY <1>1, InvCascade DEF DeleteTree
<1>3. /\ Live(trees') = Live(trees) \ {t}
      /\ \A s \in Live(trees') : trees'[s] = trees[s]
    BY DEF DeleteTree, Live, IInv, TypeOK
<1>4. ProxyTreeExists'
    BY <1>2, <1>3 DEF ProxyTreeExists, ProxiesIn, IInv
<1>5. AtMostOnePrimary'
    BY <1>3 DEF AtMostOnePrimary, IInv
<1> QED
    BY <1>1, <1>2, <1>4, <1>5 DEF IInv

LEMMA InvDeletePerson ==
    ASSUME IInv, NEW u \in Callers, NEW p \in ProxyIds,
           \/ \E interrupted \in BOOLEAN : DeletePerson(u, p, interrupted)
           \/ RemovePersonFromTree(u, p)
    PROVE  IInv'
<1>1. TypeOK'
    BY TypeDeletePerson, TypeRemovePersonFromTree DEF IInv
<1>2. /\ CascadeProxies({p})
      /\ UNCHANGED <<trees, proposal, issued>>
      /\ \E cs : person' = Dropped(person, cs)
    <2>1. person = Dropped(person, {})
        BY DEF Dropped, IInv, TypeOK
    <2> QED
        BY <2>1 DEF DeletePerson, RemovePersonFromTree
<1>3. /\ OnlyIssuedIds' /\ EdgesWithinTree' /\ EventTreeMatches'
      /\ OneProxyPerTree' /\ OneEdgePerPair' /\ OnePendingPerPair'
      /\ CertHeldOnce'
      /\ Live(proxy') = Live(proxy) \ {p}
      /\ \A q \in Live(proxy') : proxy'[q] = proxy[q]
    BY <1>1, <1>2, InvCascade
<1>4. ProxyTreeExists' /\ AtMostOnePrimary'
    BY <1>2, <1>3 DEF ProxyTreeExists, AtMostOnePrimary, Live, IInv
<1> QED
    BY <1>1, <1>3, <1>4 DEF IInv
-----------------------------------------------------------------------------
(* Handlers that create or change proxies and persons.                     *)

\* A new proxy, whose id was never handed out, in a tree where its person has
\* none: no edge, event or proxy can name it yet.
LEMMA InvNewProxy ==
    ASSUME IInv, NEW q \in Fresh(ProxyIds), NEW row \in ProxyRow,
           row.tree \in Live(trees), ProxySlotFree(row.person, row.tree),
           proxy' = [proxy EXCEPT ![q] = row],
           UNCHANGED <<trees, edges, lifeEvent>>
    PROVE  /\ Live(proxy') = Live(proxy) \cup {q}
           /\ \A p \in Live(proxy) : proxy'[p] = proxy[p]
           /\ proxy'[q] = row
           /\ ProxyTreeExists' /\ EdgesWithinTree' /\ EventTreeMatches'
           /\ OneProxyPerTree'
<1>1. q \notin Live(proxy) /\ q \in ProxyIds
    BY DEF Fresh, OnlyIssuedIds, IInv
<1>2. /\ Live(proxy') = Live(proxy) \cup {q}
      /\ \A p \in Live(proxy) : proxy'[p] = proxy[p]
      /\ proxy'[q] = row
    BY <1>1, NoRowAssumption DEF Live, IInv, TypeOK
<1>3. ProxyTreeExists'
    BY <1>2 DEF ProxyTreeExists, IInv, Live
<1>4. EdgesWithinTree'
    BY <1>1, <1>2 DEF EdgesWithinTree, IInv
<1>5. EventTreeMatches'
    <2>1. \A e \in Live(lifeEvent) : lifeEvent[e].proxy # q
        BY DEF Fresh, OnlyIssuedIds, IInv
    <2> QED
        BY <1>2, <2>1 DEF EventTreeMatches, IInv, Live
<1>6. OneProxyPerTree'
    BY <1>2 DEF OneProxyPerTree, ProxySlotFree, IInv
<1> QED
    BY <1>2, <1>3, <1>4, <1>5, <1>6

LEMMA InvCreatePerson ==
    ASSUME IInv,
           NEW u \in Callers, NEW t \in TreeNames, NEW cr \in Users \cup {Nobody},
           NEW cert \in Certs \cup {NoCert}, NEW c \in PersonIds,
           NEW p \in ProxyIds, NEW interrupted \in BOOLEAN,
           CreatePerson(u, t, cr, cert, c, p, interrupted)
    PROVE  IInv'
<1> DEFINE canonical == [creator |-> cr, cert |-> cert]
           row == [person |-> c, tree |-> t, creator |-> cr]
<1>1. TypeOK'
    BY TypeCreatePerson DEF IInv
<1>2. /\ c \notin Live(person) /\ c \in PersonIds
      /\ c \in Fresh(PersonIds) /\ p \in Fresh(ProxyIds)
      /\ UNCHANGED <<trees, edges, lifeEvent, proposal>>
    BY DEF CreatePerson, Fresh, OnlyIssuedIds, IInv
<1>3. /\ Live(person') = Live(person) \cup {c}
      /\ person'[c] = canonical
      /\ \A d \in Live(person) : person'[d] = person[d]
    <2>1. person' = [person EXCEPT ![c] = canonical]
        BY DEF CreatePerson
    <2>2. canonical # Absent
        BY NoRowAssumption DEF PersonRow
    <2> HIDE DEF canonical
    <2> QED
        BY <1>2, <2>1, <2>2 DEF Live, IInv, TypeOK
<1>4. CertHeldOnce'
    <2>1. canonical.cert = cert /\ CertFree(cert, c)
        BY DEF CreatePerson
    <2> HIDE DEF canonical
    <2> QED
        BY <1>2, <1>3, <2>1 DEF CertHeldOnce, CertFree, IInv
<1>5. /\ ProxyTreeExists' /\ EdgesWithinTree' /\ EventTreeMatches'
      /\ OneProxyPerTree' /\ OnlyIssuedIds'
    <2>1. CASE interrupted
        <3>1. proxy' = proxy /\ issued' = issued \cup {c}
            BY <2>1 DEF CreatePerson
        <3>2. OnlyIssuedIds'
            BY <1>2, <1>3, <3>1 DEF OnlyIssuedIds, IInv, Live
        <3> QED
            BY <1>2, <3>1, <3>2 DEF ProxyTreeExists, EdgesWithinTree,
               EventTreeMatches, OneProxyPerTree, IInv, Live
    <2>2. CASE ~interrupted
        <3>1. proxy' = [proxy EXCEPT ![p] = row] /\ issued' = issued \cup {c, p}
            BY <2>2 DEF CreatePerson
        <3>2. row \in ProxyRow /\ row.tree = t /\ row.person = c
            BY DEF ProxyRow
        <3>3. t \in Live(trees) /\ ProxySlotFree(c, t)
            BY <1>2 DEF CreatePerson, ProxySlotFree, Fresh, OnlyIssuedIds, IInv
        <3> HIDE DEF row
        <3>4. /\ Live(proxy') = Live(proxy) \cup {p}
              /\ \A q \in Live(proxy) : proxy'[q] = proxy[q]
              /\ proxy'[p] = row
              /\ ProxyTreeExists' /\ EdgesWithinTree' /\ EventTreeMatches'
              /\ OneProxyPerTree'
            BY <1>2, <3>1, <3>2, <3>3, InvNewProxy
        <3>5. OnlyIssuedIds'
            BY <1>2, <1>3, <3>1, <3>2, <3>4 DEF OnlyIssuedIds, IInv, Live
        <3> QED
            BY <3>4, <3>5
    <2> QED
        BY <2>1, <2>2
<1>6. OneEdgePerPair' /\ OnePendingPerPair' /\ AtMostOnePrimary'
    BY <1>2 DEF OneEdgePerPair, SameEnds, OnePendingPerPair, Pending, Between,
       AtMostOnePrimary, Live, IInv
<1> QED
    BY <1>1, <1>4, <1>5, <1>6 DEF IInv

LEMMA InvAddPersonToTree ==
    ASSUME IInv,
           NEW u \in Callers, NEW p \in ProxyIds, NEW t \in TreeNames,
           NEW q \in ProxyIds, AddPersonToTree(u, p, t, q)
    PROVE  IInv'
<1> DEFINE row == [proxy[p] EXCEPT !.tree = t]
<1>1. TypeOK'
    BY TypeAddPersonToTree DEF IInv
<1>2. /\ p \in Live(proxy) /\ proxy[p] \in ProxyRow /\ q \in Fresh(ProxyIds)
      /\ t \in Live(trees) /\ ProxySlotFree(proxy[p].person, t)
      /\ proxy' = [proxy EXCEPT ![q] = row]
      /\ issued' = issued \cup {q}
      /\ UNCHANGED <<trees, person, edges, lifeEvent, proposal>>
    BY LiveRows DEF AddPersonToTree, Fetchable, IInv
<1>3. row \in ProxyRow /\ row.tree = t /\ row.person = proxy[p].person
    BY <1>2 DEF ProxyRow
<1> HIDE DEF row
<1>4. /\ Live(proxy') = Live(proxy) \cup {q}
      /\ \A s \in Live(proxy) : proxy'[s] = proxy[s]
      /\ proxy'[q] = row
      /\ ProxyTreeExists' /\ EdgesWithinTree' /\ EventTreeMatches'
      /\ OneProxyPerTree'
    BY <1>2, <1>3, InvNewProxy
<1>5. OnlyIssuedIds'
    BY <1>2, <1>3, <1>4 DEF OnlyIssuedIds, IInv, Live
<1>6. OneEdgePerPair' /\ OnePendingPerPair' /\ AtMostOnePrimary' /\ CertHeldOnce'
    BY <1>2 DEF OneEdgePerPair, SameEnds, OnePendingPerPair, Pending, Between,
       AtMostOnePrimary, CertHeldOnce, Live, IInv
<1> QED
    BY <1>1, <1>4, <1>5, <1>6 DEF IInv

\* Handlers that leave every proxy its tree, and its person unless a merge
\* gathers persons without overlap.
LEMMA InvSameProxies ==
    ASSUME IInv, Live(proxy') = Live(proxy),
           \A p \in Live(proxy) : proxy'[p].tree = proxy[p].tree,
           UNCHANGED <<trees, edges, lifeEvent>>
    PROVE  /\ ProxyTreeExists' /\ EdgesWithinTree' /\ EventTreeMatches'
           /\ OneEdgePerPair' /\ AtMostOnePrimary'
<1>1. ProxyTreeExists'
    BY DEF ProxyTreeExists, IInv, Live
<1>2. EdgesWithinTree'
    BY DEF EdgesWithinTree, IInv
<1>3. EventTreeMatches'
    BY DEF EventTreeMatches, IInv, Live
<1> QED
    BY <1>1, <1>2, <1>3 DEF OneEdgePerPair, SameEnds, AtMostOnePrimary, Live, IInv

LEMMA InvUpdatePerson ==
    ASSUME IInv, NEW u \in Callers, NEW p \in ProxyIds, NEW cr \in Users,
           UpdatePerson(u, p, cr)
    PROVE  IInv'
<1> DEFINE row == [proxy[p] EXCEPT !.creator = cr]
<1>1. TypeOK'
    BY TypeUpdatePerson DEF IInv
<1>2. /\ p \in Live(proxy) /\ proxy[p] \in ProxyRow
      /\ proxy' = [proxy EXCEPT ![p] = row]
      /\ UNCHANGED <<trees, person, edges, lifeEvent, proposal, issued>>
    BY LiveRows DEF UpdatePerson, Fetchable, IInv
<1>3. row \in ProxyRow /\ row.tree = proxy[p].tree /\ row.person = proxy[p].person
    BY <1>2 DEF ProxyRow
<1> HIDE DEF row
<1>4. /\ Live(proxy') = Live(proxy)
      /\ \A q \in Live(proxy) : /\ proxy'[q].tree = proxy[q].tree
                                /\ proxy'[q].person = proxy[q].person
    BY <1>2, <1>3, NoRowAssumption DEF Live, IInv, TypeOK
<1>5. OnlyIssuedIds' /\ OneProxyPerTree'
    BY <1>2, <1>4 DEF OnlyIssuedIds, OneProxyPerTree, IInv, Live
<1>6. OnePendingPerPair' /\ CertHeldOnce'
    BY <1>2 DEF OnePendingPerPair, Pending, Between, CertHeldOnce, Live, IInv
<1> QED
    BY <1>1, <1>2, <1>4, <1>5, <1>6, InvSameProxies DEF IInv

\* Writing a certificate no other person holds.
LEMMA CertWritten ==
    ASSUME IInv, NEW c \in Live(person), NEW cert \in Certs, CertFree(cert, c)
    PROVE  LET P == [person EXCEPT ![c].cert = cert]
           IN /\ Live(P) = Live(person)
              /\ \A d, f \in Live(P) :
                    P[d].cert = P[f].cert /\ P[d].cert # NoCert => d = f
<1> DEFINE P == [person EXCEPT ![c].cert = cert]
           row == [person[c] EXCEPT !.cert = cert]
<1>1. person[c] \in PersonRow /\ c \in PersonIds /\ DOMAIN person = PersonIds
    BY LiveRows DEF IInv, TypeOK
<1>2. row \in PersonRow /\ row.cert = cert
    BY <1>1 DEF PersonRow
<1>3. P = [person EXCEPT ![c] = row]
    OBVIOUS
<1> HIDE DEF row, P
<1>4. /\ Live(P) = Live(person)
      /\ P[c].cert = cert
      /\ \A d \in Live(person) : d # c => P[d] = person[d]
    BY <1>1, <1>2, <1>3, NoRowAssumption DEF Live
<1>5. \A d, f \in Live(P) : P[d].cert = P[f].cert /\ P[d].cert # NoCert => d = f
    BY <1>4 DEF CertHeldOnce, CertFree, IInv
<1> QED
    BY <1>4, <1>5 DEF P

LEMMA InvUpdateCanonical ==
    ASSUME IInv, NEW u \in Callers, NEW p \in ProxyIds, NEW cert \in Certs,
           UpdateCanonical(u, p, cert)
    PROVE  IInv'
<1>1. TypeOK'
    BY TypeUpdateCanonical DEF IInv
<1>2. Live(person') = Live(person) /\ CertHeldOnce'
    <2>1. PICK c \in Live(person) :
             CertFree(cert, c) /\ person' = [person EXCEPT ![c].cert = cert]
        BY DEF UpdateCanonical, Fetchable
    <2> DEFINE P == [person EXCEPT ![c].cert = cert]
    <2>2. /\ Live(P) = Live(person)
          /\ \A d, f \in Live(P) :
                P[d].cert = P[f].cert /\ P[d].cert # NoCert => d = f
        BY <2>1, CertWritten
    <2>3. person' = P
        BY <2>1
    <2> HIDE DEF P
    <2> QED
        BY <2>2, <2>3 DEF CertHeldOnce
<1>3. UNCHANGED <<trees, proxy, edges, lifeEvent, proposal, issued>>
    BY DEF UpdateCanonical
<1>4. OnlyIssuedIds' /\ OneProxyPerTree' /\ OnePendingPerPair'
    BY <1>2, <1>3 DEF OnlyIssuedIds, OneProxyPerTree, OnePendingPerPair, Pending,
       Between, Live, IInv
<1> QED
    BY <1>1, <1>2, <1>3, <1>4, InvSameProxies DEF IInv
-----------------------------------------------------------------------------
(* collapse_same_tree_duplicate.                                           *)

\* Redirecting the edges that start at l to s: no edge starts at l any more,
\* each edge there is comes from one that differs in its start at most, and
\* no two edges of a table get the same ends.
LEMMA RedirectedIn ==
    ASSUME NEW E, E \subseteq EdgeRow, NEW l \in ProxyIds, NEW s \in ProxyIds,
           NEW M \in Rewritten(E, "in", l, s)
    PROVE  LET R == Redirected(E, M, "in", l, s)
           IN /\ \A f \in R : \E e \in E :
                    /\ f.rel = e.rel /\ f.out = e.out
                    /\ f.in = e.in \/ (e.in = l /\ f.in = s)
              /\ \A f \in R : f.in # l
              /\ UniqueEnds(E) => UniqueEnds(R)
<1> DEFINE R == Redirected(E, M, "in", l, s)
<1>1. /\ M \subseteq E
      /\ \A e \in M : e.in = l /\ ~\E f \in E : f.rel = e.rel /\ f.in = s
      /\ \A e, f \in M : e.rel = f.rel => e = f
    BY DEF Rewritten, Movable, EdgeRow
<1>2. \A f \in R : \/ f \in E /\ f.in # l
                   \/ \E e \in M : /\ f = [e EXCEPT !["in"] = s]
                                   /\ f.rel = e.rel /\ f.out = e.out
                                   /\ f.in = s
    BY <1>1 DEF Redirected, EdgeRow
<1>3. M # {} => l # s
    BY <1>1
<1> HIDE DEF R
<1>4. \A f \in R : \E e \in E :
         /\ f.rel = e.rel /\ f.out = e.out
         /\ f.in = e.in \/ (e.in = l /\ f.in = s)
    BY <1>1, <1>2
<1>5. \A f \in R : f.in # l
    BY <1>2, <1>3
<1>6. UniqueEnds(E) => UniqueEnds(R)
    BY <1>1, <1>2 DEF UniqueEnds, SameEnds
<1> QED
    BY <1>4, <1>5, <1>6 DEF R

\* The same of the edges that end at l.
LEMMA RedirectedOut ==
    ASSUME NEW E, E \subseteq EdgeRow, NEW l \in ProxyIds, NEW s \in ProxyIds,
           NEW M \in Rewritten(E, "out", l, s)
    PROVE  LET R == Redirected(E, M, "out", l, s)
           IN /\ \A f \in R : \E e \in E :
                    /\ f.rel = e.rel /\ f.in = e.in
                    /\ f.out = e.out \/ (e.out = l /\ f.out = s)
              /\ \A f \in R : f.out # l
              /\ UniqueEnds(E) => UniqueEnds(R)
<1> DEFINE R == Redirected(E, M, "out", l, s)
<1>1. /\ M \subseteq E
      /\ \A e \in M : e.out = l /\ ~\E f \in E : f.rel = e.rel /\ f.out = s
      /\ \A e, f \in M : e.rel = f.rel => e = f
    BY DEF Rewritten, Movable, EdgeRow
<1>2. \A f \in R : \/ f \in E /\ f.out # l
                   \/ \E e \in M : /\ f = [e EXCEPT !["out"] = s]
                                   /\ f.rel = e.rel /\ f.in = e.in
                                   /\ f.out = s
    BY <1>1 DEF Redirected, EdgeRow
<1>3. M # {} => l # s
    BY <1>1
<1> HIDE DEF R
<1>4. \A f \in R : \E e \in E :
         /\ f.rel = e.rel /\ f.in = e.in
         /\ f.out = e.out \/ (e.out = l /\ f.out = s)
    BY <1>1, <1>2
<1>5. \A f \in R : f.out # l
    BY <1>2, <1>3
<1>6. UniqueEnds(E) => UniqueEnds(R)
    BY <1>1, <1>2 DEF UniqueEnds, SameEnds
<1> QED
    BY <1>4, <1>5, <1>6 DEF R

\* The life events of l are s's, the others as they were.
LEMMA EventsMovedRows ==
    ASSUME TypeOK, NEW l \in ProxyIds, NEW s \in ProxyIds
    PROVE  LET moved == EventsMoved(l, s)
           IN /\ Live(moved) = Live(lifeEvent)
              /\ \A e \in Live(lifeEvent) :
                    /\ moved[e].tree = lifeEvent[e].tree
                    /\ moved[e].proxy = IF lifeEvent[e].proxy = l THEN s
                                        ELSE lifeEvent[e].proxy
<1> DEFINE moved == EventsMoved(l, s)
<1>1. ASSUME NEW e \in EventsOf({l})
      PROVE  /\ e \in Live(lifeEvent) /\ lifeEvent[e].proxy = l
             /\ moved[e] \in EventRow
             /\ moved[e].tree = lifeEvent[e].tree /\ moved[e].proxy = s
    <2>1. /\ e \in Live(lifeEvent) /\ lifeEvent[e].proxy = l
          /\ e \in EventIds /\ lifeEvent[e] \in EventRow
        BY <1>1, LiveRows DEF EventsOf
    <2>2. moved[e] = [lifeEvent[e] EXCEPT !.proxy = s]
        BY <1>1, <2>1 DEF EventsMoved
    <2> QED
        BY <2>1, <2>2 DEF EventRow
<1>2. \A e \in EventIds : e \notin EventsOf({l}) => moved[e] = lifeEvent[e]
    BY DEF EventsMoved
<1>3. DOMAIN moved = EventIds /\ DOMAIN lifeEvent = EventIds
    BY DEF EventsMoved, TypeOK
<1>4. \A e \in Live(lifeEvent) :
         e \notin EventsOf({l}) => lifeEvent[e].proxy # l
    BY DEF EventsOf
<1> HIDE DEF moved
<1>5. Live(moved) = Live(lifeEvent)
    BY <1>1, <1>2, <1>3, NoRowAssumption DEF Live
<1>6. ASSUME NEW e \in Live(lifeEvent)
      PROVE  /\ moved[e].tree = lifeEvent[e].tree
             /\ moved[e].proxy = IF lifeEvent[e].proxy = l THEN s
                                 ELSE lifeEvent[e].proxy
    <2>1. e \in EventIds
        BY LiveRows
    <2> QED
        BY <1>1, <1>2, <1>4, <2>1
<1> QED
    BY <1>5, <1>6 DEF moved

LEMMA InvCollapseSameTree ==
    ASSUME IInv,
           NEW u \in Callers, NEW l \in ProxyIds, NEW s \in ProxyIds,
           NEW interrupted \in BOOLEAN, CollapseSameTree(u, l, s, interrupted)
    PROVE  IInv'
<1>1. TypeOK'
    BY TypeCollapseSameTree DEF IInv
<1>2. /\ l \in Live(proxy) /\ s \in Live(proxy) /\ proxy[l].tree = proxy[s].tree
      /\ Live(proxy') = Live(proxy) \ {l}
      /\ \A p \in Live(proxy') : proxy'[p] = proxy[p]
    BY LiveDropped DEF CollapseSameTree, MayCollapse
<1>3. /\ Live(person') \subseteq Live(person)
      /\ \A c \in Live(person') : person'[c] = person[c]
    BY LiveDropped DEF CollapseSameTree
<1>4. /\ Live(lifeEvent') = Live(lifeEvent)
      /\ \A e \in Live(lifeEvent) :
            /\ lifeEvent'[e].tree = lifeEvent[e].tree
            /\ lifeEvent'[e].proxy = IF lifeEvent[e].proxy = l THEN s
                                     ELSE lifeEvent[e].proxy
    BY EventsMovedRows DEF CollapseSameTree, IInv
<1>5. UNCHANGED <<trees, editors, proposal, issued>>
    BY DEF CollapseSameTree
<1>6. PICK M \in Rewritten(edges, "in", l, s), E \in SUBSET EdgeRow :
         /\ E = Redirected(edges, M, "in", l, s)
         /\ \E N \in Rewritten(E, "out", l, s) :
               edges' = Redirected(E, N, "out", l, s)
    BY RedirectedType DEF CollapseSameTree, IInv, TypeOK
<1>7. PICK N \in Rewritten(E, "out", l, s) : edges' = Redirected(E, N, "out", l, s)
    BY <1>6
<1>8. edges \subseteq EdgeRow /\ E \subseteq EdgeRow
    BY DEF IInv, TypeOK
<1>9. /\ \A f \in E : \E e \in edges :
            /\ f.rel = e.rel /\ f.out = e.out
            /\ f.in = e.in \/ (e.in = l /\ f.in = s)
      /\ \A f \in E : f.in # l
      /\ UniqueEnds(E)
    <2>1. UniqueEnds(edges)
        BY DEF OneEdgePerPair, UniqueEnds, IInv
    <2> QED
        BY <1>6, <1>8, <2>1, RedirectedIn
<1>10. /\ \A f \in edges' : \E e \in E :
             /\ f.rel = e.rel /\ f.in = e.in
             /\ f.out = e.out \/ (e.out = l /\ f.out = s)
       /\ \A f \in edges' : f.out # l
       /\ UniqueEnds(edges')
    <2>1. UniqueEnds(E)
        BY <1>9
    <2>2. \A f \in edges' : \E e \in E :
             /\ f.rel = e.rel /\ f.in = e.in
             /\ f.out = e.out \/ (e.out = l /\ f.out = s)
        BY <1>7, <1>8, RedirectedOut
    <2>3. \A f \in edges' : f.out # l
        BY <1>7, <1>8, RedirectedOut
    <2>4. UniqueEnds(edges')
        BY <1>7, <1>8, <2>1, RedirectedOut
    <2> QED
        BY <2>2, <2>3, <2>4
<1>11. \A f \in edges' :
          /\ f.in # l /\ f.out # l
          /\ \E e \in edges :
                /\ f.in = e.in \/ (e.in = l /\ f.in = s)
                /\ f.out = e.out \/ (e.out = l /\ f.out = s)
    BY <1>9, <1>10
<1>12. EdgesWithinTree'
    BY <1>2, <1>11 DEF EdgesWithinTree, IInv
<1>13. OneEdgePerPair'
    BY <1>10 DEF OneEdgePerPair, UniqueEnds
<1>14. OnlyIssuedIds'
    BY <1>2, <1>3, <1>4, <1>5 DEF OnlyIssuedIds, IInv, Live
<1>15. EventTreeMatches'
    BY <1>2, <1>4 DEF EventTreeMatches, IInv
<1>16. ProxyTreeExists' /\ OneProxyPerTree' /\ CertHeldOnce'
    BY <1>2, <1>3, <1>5 DEF ProxyTreeExists, OneProxyPerTree, CertHeldOnce,
       Live, IInv
<1>17. OnePendingPerPair' /\ AtMostOnePrimary'
    BY <1>5 DEF OnePendingPerPair, Pending, Between, AtMostOnePrimary, Live, IInv
<1> QED
    BY <1>1, <1>12, <1>13, <1>14, <1>15, <1>16, <1>17 DEF IInv
-----------------------------------------------------------------------------
(* Merge proposals.                                                        *)

LEMMA InvCreateMergeProposal ==
    ASSUME IInv,
           NEW u \in Callers, NEW p \in ProxyIds, NEW q \in ProxyIds,
           NEW m \in ProposalIds, CreateMergeProposal(u, p, q, m)
    PROVE  IInv'
<1> DEFINE row == NewProposal(p, q)
<1>1. TypeOK'
    BY TypeCreateMergeProposal DEF IInv
<1>2. /\ UNCHANGED <<trees, editors, person, proxy, edges, lifeEvent>>
      /\ issued' = issued \cup {m}
      /\ proposal' = [proposal EXCEPT ![m] = row]
      /\ \A n \in ProposalIds : Pending(n) => ~Between(n, p, q)
    BY DEF CreateMergeProposal, PendingBetween
<1>3. row \in ProposalRow /\ row.from = p /\ row.to = q
    BY DEF NewProposal, ProposalRow, Statuses
<1> HIDE DEF row
<1>4. /\ Live(proposal') = Live(proposal) \cup {m}
      /\ proposal'[m] = row
      /\ \A n \in ProposalIds : n # m => proposal'[n] = proposal[n]
    BY <1>2, <1>3, NoRowAssumption DEF Live, IInv, TypeOK
<1>5. OnePendingPerPair'
    <2> SUFFICES ASSUME NEW n \in ProposalIds, NEW k \in ProposalIds,
                        Pending(n)', Pending(k)',
                        Between(n, proposal[k].from, proposal[k].to)', n # k
                 PROVE  FALSE
        BY DEF OnePendingPerPair
    <2>1. CASE n # m /\ k # m
        <3>1. Pending(n) /\ Pending(k) /\ Between(n, proposal[k].from, proposal[k].to)
            BY <1>4, <2>1 DEF Pending, Between
        <3> QED
            BY <3>1 DEF OnePendingPerPair, IInv
    <2>2. CASE n = m
        <3>1. Pending(k) /\ Between(k, p, q)
            BY <1>3, <1>4, <2>2 DEF Pending, Between
        <3> QED
            BY <1>2, <3>1
    <2>3. CASE k = m
        <3>1. Pending(n) /\ Between(n, p, q)
            BY <1>3, <1>4, <2>3 DEF Pending, Between
        <3> QED
            BY <1>2, <3>1
    <2> QED
        BY <2>1, <2>2, <2>3
<1>6. OnlyIssuedIds'
    BY <1>2, <1>4 DEF OnlyIssuedIds, Live, IInv
<1>7. OneProxyPerTree' /\ CertHeldOnce'
    BY <1>2 DEF OneProxyPerTree, CertHeldOnce, Live, IInv
<1>8. /\ ProxyTreeExists' /\ EdgesWithinTree' /\ EventTreeMatches'
      /\ OneEdgePerPair' /\ AtMostOnePrimary'
    BY <1>2, InvSameProxies DEF Live
<1> QED
    BY <1>1, <1>5, <1>6, <1>7, <1>8 DEF IInv

\* Deciding a proposal leaves its two proxies and makes no other pending.
LEMMA Decided ==
    ASSUME IInv, NEW m \in Live(proposal), NEW status \in Statuses,
           status # "pending", proposal' = [proposal EXCEPT ![m].status = status]
    PROVE  /\ OnePendingPerPair'
           /\ Live(proposal') = Live(proposal)
<1> DEFINE row == [proposal[m] EXCEPT !.status = status]
<1>1. m \in ProposalIds /\ proposal[m] \in ProposalRow
    BY LiveRows DEF IInv
<1>2. row \in ProposalRow /\ row.status # "pending"
    BY <1>1 DEF ProposalRow
<1>3. proposal' = [proposal EXCEPT ![m] = row]
    OBVIOUS
<1> HIDE DEF row
<1>4. /\ Live(proposal') = Live(proposal)
      /\ proposal'[m] = row
      /\ \A n \in ProposalIds : n # m => proposal'[n] = proposal[n]
    BY <1>1, <1>2, <1>3, NoRowAssumption DEF Live, IInv, TypeOK
<1>5. \A n \in ProposalIds : Pending(n)' => Pending(n) /\ proposal'[n] = proposal[n]
    BY <1>2, <1>4 DEF Pending
<1>6. OnePendingPerPair'
    BY <1>5 DEF OnePendingPerPair, Between, IInv
<1> QED
    BY <1>4, <1>6

LEMMA InvRejectMergeProposal ==
    ASSUME IInv, NEW u \in Callers, NEW m \in ProposalIds,
           RejectMergeProposal(u, m)
    PROVE  IInv'
<1>1. TypeOK'
    BY TypeRejectMergeProposal DEF IInv
<1>2. OnePendingPerPair' /\ Live(proposal') = Live(proposal)
    BY Decided DEF RejectMergeProposal, MayDecide, Pending, Statuses
<1>3. UNCHANGED <<trees, editors, person, proxy, edges, lifeEvent, issued>>
    BY DEF RejectMergeProposal
<1>4. OnlyIssuedIds'
    BY <1>2, <1>3 DEF OnlyIssuedIds, IInv, Live
<1>5. OneProxyPerTree' /\ CertHeldOnce'
    BY <1>3 DEF OneProxyPerTree, CertHeldOnce, Live, IInv
<1>6. /\ ProxyTreeExists' /\ EdgesWithinTree' /\ EventTreeMatches'
      /\ OneEdgePerPair' /\ AtMostOnePrimary'
    BY <1>3, InvSameProxies
<1> QED
    BY <1>1, <1>2, <1>4, <1>5, <1>6 DEF IInv

LEMMA InvAcceptMergeProposal ==
    ASSUME IInv,
           NEW u \in Callers, NEW m \in ProposalIds, NEW resolution \in BOOLEAN,
           NEW cert \in Certs \cup {NoCert}, NEW done \in 1..4,
           AcceptMergeProposal(u, m, resolution, cert, done)
    PROVE  IInv'
<1>1. TypeOK'
    BY TypeAcceptMergeProposal DEF IInv
<1>2. UNCHANGED <<trees, editors, edges, lifeEvent, issued>>
    BY DEF AcceptMergeProposal
<1>3. PICK a \in Live(person), b \in Live(person) :
         /\ a = CanonicalA(m)
         /\ CertFree(cert, a)
         /\ \/ person' = Resolved(a, cert)
            \/ person' = Dropped(Resolved(a, cert), {b})
         /\ proxy' = Repointed(a, b) \/ proxy' = proxy
    BY DEF AcceptMergeProposal
<1>4. /\ Live(Resolved(a, cert)) = Live(person)
      /\ \A c, d \in Live(person) :
            /\ Resolved(a, cert)[c].cert = Resolved(a, cert)[d].cert
            /\ Resolved(a, cert)[c].cert # NoCert
            => c = d
    <2>1. CASE cert = NoCert
        BY <2>1 DEF Resolved, CertHeldOnce, IInv
    <2>2. CASE cert # NoCert
        <3> DEFINE P == [person EXCEPT ![a].cert = cert]
        <3>1. /\ Live(P) = Live(person)
              /\ \A c, d \in Live(P) :
                    P[c].cert = P[d].cert /\ P[c].cert # NoCert => c = d
            BY <1>3, <2>2, CertWritten
        <3>2. Resolved(a, cert) = P
            BY <2>2 DEF Resolved
        <3> HIDE DEF P
        <3> QED
            BY <3>1, <3>2
    <2> QED
        BY <2>1, <2>2
<1>5. /\ Live(person') \subseteq Live(person)
      /\ \A c \in Live(person') : person'[c] = Resolved(a, cert)[c]
    BY <1>3, <1>4, LiveDropped
<1>6. CertHeldOnce'
    BY <1>4, <1>5 DEF CertHeldOnce
<1>7. /\ Live(proxy') = Live(proxy)
      /\ \A p \in Live(proxy) :
            /\ proxy'[p].tree = proxy[p].tree
            /\ \/ proxy'[p].person = proxy[p].person
               \/ proxy'[p].person = a
    <2>1. a \in PersonIds
        BY LiveRows DEF IInv
    <2> QED
        BY <1>3, <2>1, RepointedRows DEF IInv
<1>8. OneProxyPerTree'
    <2>1. CASE proxy' = proxy
        BY <2>1 DEF OneProxyPerTree, IInv
    <2>2. CASE proxy' = Repointed(a, b)
        <3>1. a \in PersonIds
            BY LiveRows DEF IInv
        <3>2. \A p \in Live(proxy) :
                 proxy'[p].person = IF ~Overlap(a, b) /\ proxy[p].person = b
                                    THEN a ELSE proxy[p].person
            BY <2>2, <3>1, RepointedRows DEF IInv
        <3>3. ~Overlap(a, b) /\ a # b =>
                 \A p, q \in Live(proxy) :
                    proxy[p].person = a /\ proxy[q].person = b
                        => proxy[p].tree # proxy[q].tree
            BY DEF Overlap, ProxiesOf
        <3> QED
            BY <1>7, <3>2, <3>3 DEF OneProxyPerTree, IInv
    <2> QED
        BY <1>3, <2>1, <2>2
<1>9. OnePendingPerPair' /\ Live(proposal') = Live(proposal)
    <2>1. CASE proposal' = proposal
        BY <2>1 DEF OnePendingPerPair, Pending, Between, Live, IInv
    <2>2. CASE proposal' = [proposal EXCEPT ![m].status = "accepted"]
        BY <2>2, Decided DEF AcceptMergeProposal, MayDecide, Pending, Statuses
    <2> QED
        BY <2>1, <2>2 DEF AcceptMergeProposal
<1>10. OnlyIssuedIds'
    <2>1. a \in issued
        BY <1>3 DEF OnlyIssuedIds, IInv
    <2> QED
        BY <1>2, <1>5, <1>7, <1>9, <2>1 DEF OnlyIssuedIds, IInv, Live
<1>11. /\ ProxyTreeExists' /\ EdgesWithinTree' /\ EventTreeMatches'
       /\ OneEdgePerPair' /\ AtMostOnePrimary'
    BY <1>2, <1>7, InvSameProxies
<1> QED
    BY <1>1, <1>6, <1>8, <1>9, <1>10, <1>11 DEF IInv
-----------------------------------------------------------------------------
(* Relationships and life events.                                          *)

\* What only writes edges leaves what is not about edges.
LEMMA OnlyEdges ==
    ASSUME IInv, EdgesUntouched
    PROVE  /\ OnlyIssuedIds' /\ ProxyTreeExists' /\ EventTreeMatches'
           /\ OneProxyPerTree' /\ OnePendingPerPair' /\ AtMostOnePrimary'
           /\ CertHeldOnce'
BY DEF EdgesUntouched, IInv, OnlyIssuedIds, ProxyTreeExists, EventTreeMatches,
       OneProxyPerTree, OnePendingPerPair, Pending, Between, AtMostOnePrimary,
       CertHeldOnce, Live

\* RELATE between two proxies of one tree.
LEMMA RelatedEdges ==
    ASSUME NEW E, NEW row
    PROVE  /\ \A f \in Related(E, row) : f \in E \/ f = row
           /\ UniqueEnds(E) => UniqueEnds(Related(E, row))
BY DEF Related, UniqueEnds, SameEnds

LEMMA InvAddRelationship ==
    ASSUME IInv,
           NEW u \in Callers, NEW p \in ProxyIds, NEW q \in ProxyIds,
           \/ \E rel \in RelTables, pedigree \in Pedigrees :
                 AddParent(u, p, q, rel, pedigree)
           \/ \E pedigree \in Pedigrees, via \in ProxyIds \cup {Nobody} :
                 AddSibling(u, p, q, pedigree, via)
           \/ \E since \in Dates \cup {NoDate} : AddSpouse(u, p, q, since)
    PROVE  IInv'
<1>1. TypeOK'
    BY TypeAddRelationship DEF IInv
<1>2. /\ EdgesUntouched
      /\ p \in Live(proxy) /\ q \in Live(proxy) /\ proxy[q].tree = proxy[p].tree
    BY DEF AddParent, AddSibling, AddSpouse, Relatable, Fetchable
<1>3. \E r, s :
         /\ {r.in, r.out} = {p, q} /\ {s.in, s.out} = {p, q}
         /\ \/ edges' = Related(edges, r)
            \/ edges' = Related(Related(edges, r), s)
    <2>1. CASE \E rel \in RelTables, pedigree \in Pedigrees :
                  AddParent(u, p, q, rel, pedigree)
        BY <2>1 DEF AddParent
    <2>2. CASE \E pedigree \in Pedigrees, via \in ProxyIds \cup {Nobody} :
                  AddSibling(u, p, q, pedigree, via)
        BY <2>2 DEF AddSibling
    <2>3. CASE \E since \in Dates \cup {NoDate} : AddSpouse(u, p, q, since)
        BY <2>3 DEF AddSpouse, SpouseRow
    <2> QED
        BY <2>1, <2>2, <2>3
<1>4. PICK r, s :
         /\ {r.in, r.out} = {p, q} /\ {s.in, s.out} = {p, q}
         /\ \/ edges' = Related(edges, r)
            \/ edges' = Related(Related(edges, r), s)
    BY <1>3
<1>5. UniqueEnds(edges)
    BY DEF OneEdgePerPair, UniqueEnds, IInv
<1>6. /\ \A f \in edges' : f \in edges \/ f = r \/ f = s
      /\ UniqueEnds(edges')
    BY <1>4, <1>5, RelatedEdges
<1>7. OneEdgePerPair'
    BY <1>6 DEF OneEdgePerPair, UniqueEnds
<1>8. EdgesWithinTree'
    BY <1>2, <1>4, <1>6 DEF EdgesWithinTree, EdgesUntouched, IInv, Live
<1> QED
    BY <1>1, <1>2, <1>7, <1>8, OnlyEdges DEF IInv

LEMMA InvUpdateRelationship ==
    ASSUME IInv,
           edges' \subseteq EdgeRow /\ Updated(edges, edges') /\ EdgesUntouched
    PROVE  IInv'
<1>1. TypeOK'
    BY DEF TypeOK, EdgesUntouched, IInv
<1>2. EdgesWithinTree'
    BY DEF EdgesWithinTree, Updated, SameEnds, EdgesUntouched, Live, IInv
<1>3. OneEdgePerPair'
    BY DEF OneEdgePerPair, Updated, UniqueEnds, IInv
<1> QED
    BY <1>1, <1>2, <1>3, OnlyEdges DEF IInv

LEMMA InvLifeEvents ==
    ASSUME IInv, NEW u \in Callers, NEW e \in EventIds,
           \/ \E p \in ProxyIds, canonical \in BOOLEAN :
                 CreateLifeEvent(u, p, canonical, e)
           \/ DeleteLifeEvent(u, e)
           \/ PromoteLifeEvent(u, e)
    PROVE  IInv'
<1>1. TypeOK'
    BY TypeLifeEvents DEF IInv
<1>2. UNCHANGED <<trees, editors, person, proxy, edges, proposal>>
    BY DEF CreateLifeEvent, DeleteLifeEvent, PromoteLifeEvent
<1>3. EventTreeMatches' /\ OnlyIssuedIds'
    <2>1. CASE \E p \in ProxyIds, canonical \in BOOLEAN :
                  CreateLifeEvent(u, p, canonical, e)
        <3> PICK p \in ProxyIds, canonical \in BOOLEAN :
                    CreateLifeEvent(u, p, canonical, e)
            BY <2>1
        <3> DEFINE row == [proxy |-> p, tree |-> proxy[p].tree,
                           canonical |-> canonical]
        <3>1. /\ p \in Live(proxy) /\ issued' = issued \cup {e}
              /\ lifeEvent' = [lifeEvent EXCEPT ![e] = row]
            BY DEF CreateLifeEvent, Fetchable
        <3>2. row.proxy = p /\ row.tree = proxy[p].tree
            OBVIOUS
        <3> HIDE DEF row
        <3>3. /\ Live(lifeEvent') \subseteq Live(lifeEvent) \cup {e}
              /\ lifeEvent'[e] = row
              /\ \A f \in Live(lifeEvent) : f # e => lifeEvent'[f] = lifeEvent[f]
            BY <3>1 DEF Live, IInv, TypeOK
        <3>4. EventTreeMatches'
            BY <1>2, <3>1, <3>2, <3>3 DEF EventTreeMatches, IInv, Live
        <3>5. OnlyIssuedIds'
            BY <1>2, <3>1, <3>2, <3>3 DEF OnlyIssuedIds, IInv, Live
        <3> QED
            BY <3>4, <3>5
    <2>2. CASE DeleteLifeEvent(u, e)
        <3>1. /\ Live(lifeEvent') \subseteq Live(lifeEvent)
              /\ \A f \in Live(lifeEvent') : lifeEvent'[f] = lifeEvent[f]
              /\ issued' = issued
            BY <2>2, LiveDropped DEF DeleteLifeEvent
        <3> QED
            BY <1>2, <3>1 DEF EventTreeMatches, OnlyIssuedIds, IInv, Live
    <2>3. CASE PromoteLifeEvent(u, e)
        <3> DEFINE row == [lifeEvent[e] EXCEPT !.canonical = TRUE]
        <3>1. /\ e \in Live(lifeEvent) /\ lifeEvent[e] \in EventRow
              /\ lifeEvent' = [lifeEvent EXCEPT ![e] = row]
              /\ issued' = issued
            BY <2>3, LiveRows DEF PromoteLifeEvent, MayChangeEvent, IInv
        <3>2. row.proxy = lifeEvent[e].proxy /\ row.tree = lifeEvent[e].tree
            BY <3>1 DEF EventRow
        <3> HIDE DEF row
        <3>3. /\ Live(lifeEvent') \subseteq Live(lifeEvent)
              /\ \A f \in Live(lifeEvent) :
                    /\ lifeEvent'[f].proxy = lifeEvent[f].proxy
                    /\ lifeEvent'[f].tree = lifeEvent[f].tree
            BY <3>1, <3>2 DEF Live, IInv, TypeOK
        <3> QED
            BY <1>2, <3>1, <3>3 DEF EventTreeMatches, OnlyIssuedIds, IInv, Live
    <2> QED
        BY <2>1, <2>2, <2>3
<1>4. /\ ProxyTreeExists' /\ EdgesWithinTree' /\ OneProxyPerTree'
      /\ OneEdgePerPair' /\ OnePendingPerPair' /\ AtMostOnePrimary'
      /\ CertHeldOnce'
    BY <1>2 DEF ProxyTreeExists, EdgesWithinTree, OneProxyPerTree, OneEdgePerPair,
       SameEnds, OnePendingPerPair, Pending, Between, AtMostOnePrimary,
       CertHeldOnce, Live, IInv
<1> QED
    BY <1>1, <1>3, <1>4 DEF IInv
-----------------------------------------------------------------------------
(* All steps.                                                              *)

LEMMA InvInit == Init => IInv
<1> SUFFICES ASSUME Init PROVE IInv
    OBVIOUS
<1>1. /\ Live(trees) = {} /\ Live(person) = {} /\ Live(proxy) = {}
      /\ Live(lifeEvent) = {} /\ Live(proposal) = {} /\ edges = {}
    BY DEF Init, Live
<1> QED
    BY <1>1, TypeInit DEF IInv, OnlyIssuedIds, ProxyTreeExists, EdgesWithinTree,
       EventTreeMatches, OneProxyPerTree, OneEdgePerPair, OnePendingPerPair,
       Pending, AtMostOnePrimary, CertHeldOnce

LEMMA InvTreeStep ==
    ASSUME IInv, NEW u \in Callers, TreeStep(u)
    PROVE  IInv'
BY InvCreateTree, InvSetPrimaryTree, InvSetTreeTeam, InvDeleteTree,
   InvTreeEditors DEF TreeStep

LEMMA InvPersonStep ==
    ASSUME IInv, NEW u \in Callers, PersonStep(u)
    PROVE  IInv'
<1>1. CASE \E t \in TreeNames, cr \in Users \cup {Nobody},
              cert \in Certs \cup {NoCert}, c \in PersonIds, p \in ProxyIds :
              CreatePerson(u, t, cr, cert, c, p, FALSE)
    BY <1>1, InvCreatePerson
<1>2. CASE \E p \in ProxyIds, cr \in Users : UpdatePerson(u, p, cr)
    BY <1>2, InvUpdatePerson
<1>3. CASE \E p \in ProxyIds, cert \in Certs : UpdateCanonical(u, p, cert)
    BY <1>3, InvUpdateCanonical
<1>4. CASE \E p \in ProxyIds :
              DeletePerson(u, p, FALSE) \/ RemovePersonFromTree(u, p)
    BY <1>4, InvDeletePerson
<1>5. CASE \E p, q \in ProxyIds, t \in TreeNames : AddPersonToTree(u, p, t, q)
    BY <1>5, InvAddPersonToTree
<1>6. CASE \E l, s \in ProxyIds : CollapseSameTree(u, l, s, FALSE)
    BY <1>6, InvCollapseSameTree
<1> QED
    BY <1>1, <1>2, <1>3, <1>4, <1>5, <1>6 DEF PersonStep

LEMMA InvInterrupted ==
    ASSUME IInv, NEW u \in Callers, Interrupted(u)
    PROVE  IInv'
<1>1. CASE \E t \in TreeNames, o \in Users : CreateTree(u, t, o, TRUE, TRUE)
    BY <1>1, InvCreateTree
<1>2. CASE \E t \in TreeNames, cr \in Users \cup {Nobody},
              cert \in Certs \cup {NoCert}, c \in PersonIds, p \in ProxyIds :
              CreatePerson(u, t, cr, cert, c, p, TRUE)
    BY <1>2, InvCreatePerson
<1>3. CASE \E p \in ProxyIds : DeletePerson(u, p, TRUE)
    BY <1>3, InvDeletePerson
<1>4. CASE \E l, s \in ProxyIds : CollapseSameTree(u, l, s, TRUE)
    BY <1>4, InvCollapseSameTree
<1>5. CASE \E m \in ProposalIds, resolution \in BOOLEAN,
              cert \in Certs \cup {NoCert}, done \in 1..3 :
              AcceptMergeProposal(u, m, resolution, cert, done)
    BY <1>5, InvAcceptMergeProposal
<1>6. CASE \E p, q \in ProxyIds, rel \in Rels \cap ParentRels,
              pedigree \in Pedigrees :
              UpdateParentPedigree(u, p, q, rel, pedigree, TRUE)
    <2>1. edges' \subseteq EdgeRow /\ Updated(edges, edges') /\ EdgesUntouched
        <3>1. Rels \subseteq RelTables
            BY PlanAssumption
        <3> QED
            BY <1>6, <3>1, EdgeUpdateRows DEF IInv
    <2> QED
        BY <2>1, InvUpdateRelationship
<1> QED
    BY <1>1, <1>2, <1>3, <1>4, <1>5, <1>6 DEF Interrupted

LEMMA InvNext == IInv /\ [Next]_vars => IInv'
<1> SUFFICES ASSUME IInv, [Next]_vars
             PROVE  IInv'
    OBVIOUS
<1>1. CASE UNCHANGED vars
    <2>1. /\ UNCHANGED <<trees, person, proxy, edges, lifeEvent, proposal, issued>>
          /\ TypeOK'
        BY <1>1, TypeNext DEF vars, IInv
    <2>2. ProxyTreeExists' /\ AtMostOnePrimary'
        BY <2>1 DEF ProxyTreeExists, AtMostOnePrimary, Live, IInv
    <2> QED
        BY <2>1, <2>2, PersonsUntouched DEF IInv
<1>2. ASSUME NEW u \in Callers, MergeStep(u)
      PROVE  IInv'
    BY <1>2, InvCreateMergeProposal, InvRejectMergeProposal,
       InvAcceptMergeProposal DEF MergeStep
<1>3. ASSUME NEW u \in Callers, RelationshipStep(u)
      PROVE  IInv'
    <2>1. PICK p \in ProxyIds, q \in ProxyIds :
              \/ \E rel \in RelTables, pedigree \in Pedigrees :
                    AddParent(u, p, q, rel, pedigree)
              \/ \E pedigree \in Pedigrees, via \in ProxyIds \cup {Nobody} :
                    AddSibling(u, p, q, pedigree, via)
              \/ \E since \in Dates \cup {NoDate} : AddSpouse(u, p, q, since)
              \/ edges' \subseteq EdgeRow /\ Updated(edges, edges') /\ EdgesUntouched
        BY <1>3, RelationshipCases, EdgeUpdateRows DEF IInv
    <2> QED
        BY <2>1, InvAddRelationship, InvUpdateRelationship
<1>4. ASSUME NEW u \in Callers, LifeEventStep(u)
      PROVE  IInv'
    BY <1>4, InvLifeEvents DEF LifeEventStep
<1> QED
    BY <1>1, <1>2, <1>3, <1>4, InvTreeStep, InvPersonStep, InvInterrupted DEF Next

\* All the invariants at once, of every database the server can leave behind.
THEOREM IInvCorrect == Spec => []IInv
BY InvInit, InvNext, PTL DEF Spec

\* No proxy is ever in a tree that is not registered.
THEOREM ProxyTreeExistsCorrect == Spec => []ProxyTreeExists
<1>1. IInv => ProxyTreeExists
    BY DEF IInv
<1> QED
    BY <1>1, IInvCorrect, PTL

\* Relationships always join existing proxies of one tree.
THEOREM EdgesWithinTreeCorrect == Spec => []EdgesWithinTree
<1>1. IInv => EdgesWithinTree
    BY DEF IInv
<1> QED
    BY <1>1, IInvCorrect, PTL

\* Life events are always filed under the tree of their proxy.
THEOREM EventTreeMatchesCorrect == Spec => []EventTreeMatches
<1>1. IInv => EventTreeMatches
    BY DEF IInv
<1> QED
    BY <1>1, IInvCorrect, PTL

\* A person never has two proxies in one tree.
THEOREM OneProxyPerTreeCorrect == Spec => []OneProxyPerTree
<1>1. IInv => OneProxyPerTree
    BY DEF IInv
<1> QED
    BY <1>1, IInvCorrect, PTL

\* No two edges of a table have the same ends.
THEOREM OneEdgePerPairCorrect == Spec => []OneEdgePerPair
<1>1. IInv => OneEdgePerPair
    BY DEF IInv
<1> QED
    BY <1>1, IInvCorrect, PTL

\* Two proxies never have two undecided proposals between them.
THEOREM OnePendingPerPairCorrect == Spec => []OnePendingPerPair
<1>1. IInv => OnePendingPerPair
    BY DEF IInv
<1> QED
    BY <1>1, IInvCorrect, PTL

\* An owner never has two primary trees.
THEOREM AtMostOnePrimaryCorrect == Spec => []AtMostOnePrimary
<1>1. IInv => AtMostOnePrimary
    BY DEF IInv
<1> QED
    BY <1>1, IInvCorrect, PTL

\* A birth certificate is never held by two persons.
THEOREM CertHeldOnceCorrect == Spec => []CertHeldOnce
<1>1. IInv => CertHeldOnce
    BY DEF IInv
<1> QED
    BY <1>1, IInvCorrect, PTL

\* No row has or names an id that was not handed out before.
THEOREM OnlyIssuedIdsCorrect == Spec => []OnlyIssuedIds
<1>1. IInv => OnlyIssuedIds
    BY DEF IInv
<1> QED
    BY <1>1, IInvCorrect, PTL
-----------------------------------------------------------------------------
(* A pedigree change can be sent again.                                    *)

\* Two updates of single rows that can each be repeated and that commute can be
\* repeated as a whole, from the middle or from the end.
LEMMA UpdatesRepeat ==
    ASSUME NEW R, NEW E, E \subseteq R, NEW g, NEW h,
           \A e \in R : g[e] \in R /\ h[e] \in R,
           \A e \in R : g[g[e]] = g[e] /\ h[h[e]] = h[e] /\ g[h[e]] = h[g[e]]
    PROVE  LET G(F) == {g[e] : e \in F}
               H(F) == {h[e] : e \in F}
           IN /\ H(G(G(E))) = H(G(E))
              /\ H(G(H(G(E)))) = H(G(E))
              /\ H(H(E)) = H(E)
<1> DEFINE G(F) == {g[e] : e \in F}
           H(F) == {h[e] : e \in F}
<1>1. \A F \in SUBSET R : G(F) \subseteq R /\ H(F) \subseteq R
    OBVIOUS
<1>2. \A F \in SUBSET R : G(G(F)) = G(F)
    OBVIOUS
<1>3. \A F \in SUBSET R : H(H(F)) = H(F)
    OBVIOUS
<1>4. \A F \in SUBSET R : G(H(F)) = H(G(F))
    OBVIOUS
<1> HIDE DEF G, H
<1>5. /\ H(G(G(E))) = H(G(E))
      /\ H(G(H(G(E)))) = H(G(E))
      /\ H(H(E)) = H(E)
    <2>1. G(H(G(E))) = H(G(E))
        BY <1>1, <1>2, <1>4
    <2> QED
        BY <1>1, <1>2, <1>3, <2>1
<1> QED
    BY <1>5 DEF G, H

LEMMA PedigreeUpdatesRepeat ==
    ASSUME TypeOK, NEW p \in ProxyIds, NEW q \in ProxyIds, NEW rel \in ParentRels,
           NEW pedigree \in Pedigrees
    PROVE  LET whole(E) == ParentPedigreeSet(E, p, q, rel, pedigree)
               once == whole(edges)
           IN /\ whole(ParentEdgeSet(edges, p, q, rel, pedigree)) = once
              /\ whole(once) = once
<1> DEFINE sib == IF pedigree = "adopted" THEN "adopted" ELSE "birth"
           g == [e \in EdgeRow |-> IF pedigree # "half" /\ SameEnds(e, rel, p, q)
                                   THEN [e EXCEPT !.pedigree = pedigree] ELSE e]
           h == [e \in EdgeRow |->
                    IF e.rel = "has_sibling" /\ p \in {e.in, e.out} /\ e.via = q
                    THEN [e EXCEPT !.pedigree = sib] ELSE e]
           G(F) == {g[e] : e \in F}
           H(F) == {h[e] : e \in F}
           whole(E) == ParentPedigreeSet(E, p, q, rel, pedigree)
<1>1. sib \in Pedigrees
    BY DEF Pedigrees
<1>2. edges \in SUBSET EdgeRow
    BY DEF TypeOK
<1>3. \A e \in EdgeRow, x \in Pedigrees :
         LET f == [e EXCEPT !.pedigree = x]
         IN /\ f \in EdgeRow
            /\ f.rel = e.rel /\ f.in = e.in /\ f.out = e.out /\ f.via = e.via
            /\ f.pedigree = x
            /\ [f EXCEPT !.pedigree = x] = f
    BY DEF EdgeRow
<1>4. rel # "has_sibling"
    BY DEF ParentRels
<1>5. \A e \in EdgeRow : g[e] \in EdgeRow /\ h[e] \in EdgeRow
    <2> HIDE DEF sib
    <2> QED
        BY <1>1, <1>3
<1>6. \A e \in EdgeRow : g[g[e]] = g[e]
    BY <1>3 DEF SameEnds
<1>7. \A e \in EdgeRow : h[h[e]] = h[e]
    <2> HIDE DEF sib
    <2> QED
        BY <1>1, <1>3
<1>8. \A e \in EdgeRow : g[h[e]] = h[g[e]]
    <2> HIDE DEF sib
    <2>1. ASSUME NEW e \in EdgeRow, e.rel = rel
          PROVE  h[e] = e /\ h[g[e]] = g[e]
        BY <1>3, <1>4, <1>5, <2>1 DEF SameEnds
    <2>2. ASSUME NEW e \in EdgeRow, e.rel # rel
          PROVE  g[e] = e /\ g[h[e]] = h[e]
        BY <1>1, <1>3, <1>5, <2>2 DEF SameEnds
    <2> QED
        BY <2>1, <2>2
<1>9. \A F \in SUBSET EdgeRow :
         ParentEdgeSet(F, p, q, rel, pedigree) = G(F) /\ G(F) \in SUBSET EdgeRow
    <2>1. SUFFICES ASSUME NEW F \in SUBSET EdgeRow
                   PROVE  /\ ParentEdgeSet(F, p, q, rel, pedigree) = G(F)
                          /\ G(F) \in SUBSET EdgeRow
        OBVIOUS
    <2>2. ParentEdgeSet(F, p, q, rel, pedigree) = G(F)
        <3>1. CASE pedigree = "half"
            BY <3>1 DEF ParentEdgeSet
        <3>2. CASE pedigree # "half"
            BY <3>2 DEF ParentEdgeSet
        <3> QED
            BY <3>1, <3>2
    <2>3. G(F) \in SUBSET EdgeRow
        <3> HIDE DEF g
        <3> QED
            BY <1>5
    <2> QED
        BY <2>2, <2>3
<1>10. \A F \in SUBSET EdgeRow : SiblingsVia(F, p, q, sib) = H(F)
    <2> HIDE DEF sib
    <2> QED
        BY DEF SiblingsVia
<1>11. \A F \in SUBSET EdgeRow : whole(F) = H(G(F)) /\ H(G(F)) \in SUBSET EdgeRow
    <2>1. \A F \in SUBSET EdgeRow : H(F) \in SUBSET EdgeRow
        <3> HIDE DEF h
        <3> QED
            BY <1>5
    <2>2. \A F : whole(F) = SiblingsVia(ParentEdgeSet(F, p, q, rel, pedigree), p, q, sib)
        BY DEF ParentPedigreeSet
    <2> HIDE DEF sib, G, H, whole
    <2> QED
        BY <1>9, <1>10, <2>1, <2>2
<1>12. H(G(G(edges))) = H(G(edges)) /\ H(G(H(G(edges)))) = H(G(edges))
    <2> HIDE DEF g, h
    <2> QED
        BY <1>2, <1>5, <1>6, <1>7, <1>8, UpdatesRepeat
<1> HIDE DEF G, H, whole
<1>13. /\ whole(ParentEdgeSet(edges, p, q, rel, pedigree)) = whole(edges)
       /\ whole(whole(edges)) = whole(edges)
    BY <1>2, <1>9, <1>11, <1>12
<1> QED
    BY <1>13 DEF whole

\* A pedigree change that was cut off after the parent's edge, or carried out
\* without its answer arriving, ends on repetition where it would have ended.
THEOREM PedigreeRetryRepairsCorrect == Spec => []PedigreeRetryRepairs
<1>1. TypeOK => PedigreeRetryRepairs
    <2> SUFFICES ASSUME TypeOK, NEW p \in Live(proxy), NEW q \in Live(proxy),
                        NEW rel \in ParentRels, NEW pedigree \in Pedigrees
                 PROVE  LET whole(E) == ParentPedigreeSet(E, p, q, rel, pedigree)
                            once == whole(edges)
                        IN /\ whole(ParentEdgeSet(edges, p, q, rel, pedigree)) = once
                           /\ whole(once) = once
        BY DEF PedigreeRetryRepairs
    <2>1. p \in ProxyIds /\ q \in ProxyIds
        BY LiveRows
    <2> QED
        BY <2>1, PedigreeUpdatesRepeat
<1> QED
    BY <1>1, TypeCorrect, PTL
-----------------------------------------------------------------------------
(* Plan limits.  The counts are of finite tables: each step adds one row   *)
(* at most to them.                                                        *)

TreesCounted ==
    /\ IsFiniteSet(Live(trees))
    /\ (\A u \in Callers : TreeLimit[u] # Unlimited) =>
          \A o \in Users : \E u \in Callers :
              Cardinality(TreesOwnedBy(o)) <= TreeLimit[u]

PersonsCounted ==
    /\ IsFiniteSet(Live(person))
    /\ (\A u \in Callers : MemberLimit[u] # Unlimited) =>
          \A o \in Users : \E u \in Callers :
              Cardinality(PersonsCreatedBy(o)) <= MemberLimit[u]

\* A smaller set stays within a limit.
LEMMA CountedLess ==
    ASSUME NEW S, IsFiniteSet(S), NEW T \in SUBSET S, NEW limit \in Nat,
           Cardinality(S) <= limit
    PROVE  Cardinality(T) <= limit
<1>1. /\ IsFiniteSet(T) /\ Cardinality(T) <= Cardinality(S)
    BY FS_Subset
<1>2. Cardinality(S) \in Nat /\ Cardinality(T) \in Nat
    BY <1>1, FS_CardinalityType
<1> QED
    BY <1>1, <1>2

\* A set below its limit may get one more element.
LEMMA CountedOneMore ==
    ASSUME NEW S, IsFiniteSet(S), NEW x, NEW T \in SUBSET (S \cup {x}),
           NEW limit \in Nat, Cardinality(S) < limit
    PROVE  Cardinality(T) <= limit
<1>1. /\ IsFiniteSet(S \cup {x})
      /\ Cardinality(S \cup {x}) = IF x \in S THEN Cardinality(S)
                                   ELSE Cardinality(S) + 1
    BY FS_AddElement
<1>2. Cardinality(S) \in Nat
    BY FS_CardinalityType
<1>3. Cardinality(S \cup {x}) <= limit
    BY <1>1, <1>2
<1> QED
    BY <1>1, <1>3, CountedLess

\* No tree is added and none changes hands.
LEMMA TreesNotMore ==
    ASSUME TreesCounted, Live(trees') \subseteq Live(trees),
           \A t \in Live(trees') : trees'[t].owner = trees[t].owner
    PROVE  TreesCounted'
<1>1. IsFiniteSet(Live(trees))'
    <2>1. IsFiniteSet(Live(trees'))
        BY FS_Subset DEF TreesCounted
    <2> QED
        BY <2>1 DEF Live
<1>2. ASSUME \A u \in Callers : TreeLimit[u] # Unlimited, NEW o \in Users
      PROVE  \E u \in Callers : Cardinality(TreesOwnedBy(o)') <= TreeLimit[u]
    <2>1. PICK u \in Callers : Cardinality(TreesOwnedBy(o)) <= TreeLimit[u]
        BY <1>2 DEF TreesCounted
    <2>2. TreeLimit[u] \in Nat
        BY <1>2, PlanAssumption
    <2>3. TreesOwnedBy(o)' \subseteq TreesOwnedBy(o)
        BY DEF TreesOwnedBy
    <2>4. IsFiniteSet(TreesOwnedBy(o))
        BY FS_Subset DEF TreesCounted, TreesOwnedBy
    <2> QED
        BY <2>1, <2>2, <2>3, <2>4, CountedLess
<1> QED
    BY <1>1, <1>2 DEF TreesCounted

LEMMA TreesCountedByCreateTree ==
    ASSUME IInv, TreesCounted, NEW u \in Callers, NEW t \in TreeNames,
           NEW o \in Users, NEW primary \in BOOLEAN, NEW interrupted \in BOOLEAN,
           CreateTree(u, t, o, primary, interrupted)
    PROVE  TreesCounted'
<1> DEFINE cleared == IF primary THEN WithoutPrimary(o) ELSE trees
           row == [owner |-> o, primary |-> primary, team |-> NoTeam]
<1>1. /\ Live(cleared) = Live(trees) /\ DOMAIN cleared = TreeNames
      /\ \A s \in Live(trees) : cleared[s].owner = trees[s].owner
    BY WithoutPrimaryRows DEF IInv, TypeOK
<1>2. trees' = IF interrupted THEN cleared ELSE [cleared EXCEPT ![t] = row]
    BY DEF CreateTree
<1>3. row.owner = o
    OBVIOUS
<1> HIDE DEF cleared, row
<1>4. CASE interrupted
    BY <1>1, <1>2, <1>4, TreesNotMore
<1>5. CASE ~interrupted
    <2>1. /\ Live(trees') \subseteq Live(trees) \cup {t}
          /\ \A s \in Live(trees') : s # t =>
                s \in Live(trees) /\ trees'[s].owner = trees[s].owner
          /\ trees'[t].owner = o
        BY <1>1, <1>2, <1>3, <1>5 DEF Live
    <2>2. IsFiniteSet(Live(trees))'
        <3>1. IsFiniteSet(Live(trees) \cup {t})
            BY FS_AddElement DEF TreesCounted
        <3>2. IsFiniteSet(Live(trees'))
            BY <2>1, <3>1, FS_Subset
        <3> QED
            BY <3>2 DEF Live
    <2>3. ASSUME \A v \in Callers : TreeLimit[v] # Unlimited, NEW w \in Users
          PROVE  \E v \in Callers : Cardinality(TreesOwnedBy(w)') <= TreeLimit[v]
        <3>1. \A v \in Callers : TreeLimit[v] \in Nat
            BY <2>3, PlanAssumption
        <3>2. IsFiniteSet(TreesOwnedBy(w))
            BY FS_Subset DEF TreesCounted, TreesOwnedBy
        <3>3. CASE w = o
            <4>1. Cardinality(TreesOwnedBy(w)) < TreeLimit[u]
                BY <2>3, <3>3 DEF CreateTree, TreeQuotaLeft
            <4>2. TreesOwnedBy(w)' \subseteq TreesOwnedBy(w) \cup {t}
                BY <2>1 DEF TreesOwnedBy
            <4> QED
                BY <3>1, <3>2, <4>1, <4>2, CountedOneMore
        <3>4. CASE w # o
            <4>1. PICK v \in Callers : Cardinality(TreesOwnedBy(w)) <= TreeLimit[v]
                BY <2>3 DEF TreesCounted
            <4>2. TreesOwnedBy(w)' \subseteq TreesOwnedBy(w)
                BY <2>1, <3>4 DEF TreesOwnedBy
            <4> QED
                BY <3>1, <3>2, <4>1, <4>2, CountedLess
        <3> QED
            BY <3>3, <3>4
    <2> QED
        BY <2>2, <2>3 DEF TreesCounted
<1> QED
    BY <1>4, <1>5

LEMMA TreesCountedByTreeStep ==
    ASSUME IInv, TreesCounted, NEW u \in Callers, TreeStep(u)
    PROVE  TreesCounted'
<1>1. ASSUME NEW t \in TreeNames, SetPrimaryTree(t)
      PROVE  TreesCounted'
    <2> DEFINE W == WithoutPrimary(trees[t].owner)
               row == [W[t] EXCEPT !.primary = TRUE]
    <2>1. /\ Live(W) = Live(trees)
          /\ \A s \in Live(trees) : W[s] \in TreeRow /\ W[s].owner = trees[s].owner
        BY WithoutPrimaryRows DEF IInv
    <2>2. t \in Live(trees) /\ trees' = [W EXCEPT ![t] = row]
        BY <1>1 DEF SetPrimaryTree
    <2>3. row.owner = W[t].owner
        BY <2>1, <2>2 DEF TreeRow
    <2> HIDE DEF W, row
    <2>4. /\ Live(trees') \subseteq Live(trees)
          /\ \A s \in Live(trees') : trees'[s].owner = trees[s].owner
        BY <2>1, <2>2, <2>3 DEF Live
    <2> QED
        BY <2>4, TreesNotMore
<1>2. ASSUME NEW t \in TreeNames, NEW team \in Teams \cup {NoTeam},
             SetTreeTeam(t, team)
      PROVE  TreesCounted'
    <2> DEFINE row == [trees[t] EXCEPT !.team = team]
    <2>1. t \in Live(trees) /\ trees[t] \in TreeRow
        BY <1>2, LiveRows DEF SetTreeTeam, IInv
    <2>2. row.owner = trees[t].owner
        BY <2>1 DEF TreeRow
    <2>3. trees' = [trees EXCEPT ![t] = row]
        BY <1>2 DEF SetTreeTeam
    <2> HIDE DEF row
    <2>4. /\ Live(trees') \subseteq Live(trees)
          /\ \A s \in Live(trees') : trees'[s].owner = trees[s].owner
        BY <2>1, <2>2, <2>3 DEF Live
    <2> QED
        BY <2>4, TreesNotMore
<1>3. ASSUME NEW t \in TreeNames, DeleteTree(t)
      PROVE  TreesCounted'
    <2>1. trees' = [trees EXCEPT ![t] = Absent]
        BY <1>3 DEF DeleteTree
    <2>2. /\ Live(trees') \subseteq Live(trees)
          /\ \A s \in Live(trees') : trees'[s].owner = trees[s].owner
        BY <2>1 DEF Live
    <2> QED
        BY <2>2, TreesNotMore
<1>4. ASSUME NEW t \in TreeNames, NEW v \in Users,
             AddTreeEditor(u, t, v) \/ RemoveTreeEditor(u, t, v)
      PROVE  TreesCounted'
    BY <1>4, TreesNotMore DEF AddTreeEditor, RemoveTreeEditor
<1> QED
    BY <1>1, <1>2, <1>3, <1>4, TreesCountedByCreateTree DEF TreeStep

\* No person is added and none changes its creator.
LEMMA PersonsNotMore ==
    ASSUME PersonsCounted, Live(person') \subseteq Live(person),
           \A c \in Live(person') : person'[c].creator = person[c].creator
    PROVE  PersonsCounted'
<1>1. IsFiniteSet(Live(person))'
    <2>1. IsFiniteSet(Live(person'))
        BY FS_Subset DEF PersonsCounted
    <2> QED
        BY <2>1 DEF Live
<1>2. ASSUME \A u \in Callers : MemberLimit[u] # Unlimited, NEW o \in Users
      PROVE  \E u \in Callers : Cardinality(PersonsCreatedBy(o)') <= MemberLimit[u]
    <2>1. PICK u \in Callers : Cardinality(PersonsCreatedBy(o)) <= MemberLimit[u]
        BY <1>2 DEF PersonsCounted
    <2>2. MemberLimit[u] \in Nat
        BY <1>2, PlanAssumption
    <2>3. PersonsCreatedBy(o)' \subseteq PersonsCreatedBy(o)
        BY DEF PersonsCreatedBy
    <2>4. IsFiniteSet(PersonsCreatedBy(o))
        BY FS_Subset DEF PersonsCounted, PersonsCreatedBy
    <2> QED
        BY <2>1, <2>2, <2>3, <2>4, CountedLess
<1> QED
    BY <1>1, <1>2 DEF PersonsCounted

LEMMA PersonsCountedByCreatePerson ==
    ASSUME IInv, PersonsCounted, NEW u \in Callers, NEW t \in TreeNames,
           NEW cr \in Users \cup {Nobody}, NEW cert \in Certs \cup {NoCert},
           NEW c \in PersonIds, NEW p \in ProxyIds, NEW interrupted \in BOOLEAN,
           CreatePerson(u, t, cr, cert, c, p, interrupted)
    PROVE  PersonsCounted'
<1> DEFINE row == [creator |-> cr, cert |-> cert]
<1>1. person' = [person EXCEPT ![c] = row] /\ DOMAIN person = PersonIds
    BY DEF CreatePerson, IInv, TypeOK
<1>2. row.creator = cr
    OBVIOUS
<1> HIDE DEF row
<1>3. /\ Live(person') \subseteq Live(person) \cup {c}
      /\ \A d \in Live(person') : d # c =>
            d \in Live(person) /\ person'[d].creator = person[d].creator
      /\ person'[c].creator = cr
    BY <1>1, <1>2 DEF Live
<1>4. IsFiniteSet(Live(person))'
    <2>1. IsFiniteSet(Live(person) \cup {c})
        BY FS_AddElement DEF PersonsCounted
    <2>2. IsFiniteSet(Live(person'))
        BY <1>3, <2>1, FS_Subset
    <2> QED
        BY <2>2 DEF Live
<1>5. ASSUME \A v \in Callers : MemberLimit[v] # Unlimited, NEW w \in Users
      PROVE  \E v \in Callers : Cardinality(PersonsCreatedBy(w)') <= MemberLimit[v]
    <2>1. \A v \in Callers : MemberLimit[v] \in Nat
        BY <1>5, PlanAssumption
    <2>2. IsFiniteSet(PersonsCreatedBy(w))
        BY FS_Subset DEF PersonsCounted, PersonsCreatedBy
    <2>3. CASE w = cr
        <3>1. Cardinality(PersonsCreatedBy(w)) < MemberLimit[u]
            BY <1>5, <2>3, OptionAssumption DEF CreatePerson, MemberQuotaLeft
        <3>2. PersonsCreatedBy(w)' \subseteq PersonsCreatedBy(w) \cup {c}
            BY <1>3 DEF PersonsCreatedBy
        <3> QED
            BY <2>1, <2>2, <3>1, <3>2, CountedOneMore
    <2>4. CASE w # cr
        <3>1. PICK v \in Callers :
                 Cardinality(PersonsCreatedBy(w)) <= MemberLimit[v]
            BY <1>5 DEF PersonsCounted
        <3>2. PersonsCreatedBy(w)' \subseteq PersonsCreatedBy(w)
            BY <1>3, <2>4 DEF PersonsCreatedBy
        <3> QED
            BY <2>1, <2>2, <3>1, <3>2, CountedLess
    <2> QED
        BY <2>3, <2>4
<1> QED
    BY <1>4, <1>5 DEF PersonsCounted

\* Writing a certificate leaves the persons and who created them.
LEMMA CreatorsKept ==
    ASSUME IInv, NEW c \in Live(person), NEW cert \in Certs, CertFree(cert, c)
    PROVE  LET P == [person EXCEPT ![c].cert = cert]
           IN /\ Live(P) = Live(person)
              /\ \A d \in Live(person) : P[d].creator = person[d].creator
<1> DEFINE P == [person EXCEPT ![c].cert = cert]
           row == [person[c] EXCEPT !.cert = cert]
<1>1. Live(P) = Live(person)
    BY CertWritten
<1>2. person[c] \in PersonRow /\ c \in PersonIds /\ DOMAIN person = PersonIds
    BY LiveRows DEF IInv, TypeOK
<1>3. row.creator = person[c].creator
    BY <1>2 DEF PersonRow
<1>4. P = [person EXCEPT ![c] = row]
    OBVIOUS
<1> HIDE DEF row, P
<1>5. \A d \in Live(person) : P[d].creator = person[d].creator
    BY <1>2, <1>3, <1>4 DEF Live
<1> QED
    BY <1>1, <1>5 DEF P

\* What any step but the creation of a person does to the persons' creators.
LEMMA PersonsCountedByStep ==
    ASSUME IInv, PersonsCounted, [Next]_vars
    PROVE  PersonsCounted'
<1>1. CASE UNCHANGED person
    BY <1>1, PersonsNotMore
<1>2. ASSUME NEW keys, person' = Dropped(person, keys)
      PROVE  PersonsCounted'
    BY <1>2, LiveDropped, PersonsNotMore
<1>3. ASSUME NEW u \in Callers, NEW m \in ProposalIds, NEW resolution \in BOOLEAN,
             NEW cert \in Certs \cup {NoCert}, NEW done \in 1..4,
             AcceptMergeProposal(u, m, resolution, cert, done)
      PROVE  PersonsCounted'
    <2> DEFINE a == CanonicalA(m)
               b == CanonicalB(m)
               R == Resolved(a, cert)
    <2>1. a \in Live(person) /\ CertFree(cert, a)
        BY <1>3 DEF AcceptMergeProposal
    <2>2. person' = R \/ person' = Dropped(R, {b})
        BY <1>3 DEF AcceptMergeProposal
    <2>3. /\ Live(R) = Live(person)
          /\ \A d \in Live(person) : R[d].creator = person[d].creator
        <3>1. CASE cert = NoCert
            BY <3>1 DEF Resolved
        <3>2. CASE cert # NoCert
            BY <2>1, <3>2, CreatorsKept DEF Resolved
        <3> QED
            BY <3>1, <3>2
    <2> HIDE DEF a, b, R
    <2>4. /\ Live(person') \subseteq Live(person)
          /\ \A d \in Live(person') : person'[d].creator = person[d].creator
        BY <2>2, <2>3, LiveDropped
    <2> QED
        BY <2>4, PersonsNotMore
<1>4. ASSUME NEW u \in Callers, NEW p \in ProxyIds, NEW cert \in Certs,
             UpdateCanonical(u, p, cert)
      PROVE  PersonsCounted'
    <2>1. PICK c \in Live(person) :
             CertFree(cert, c) /\ person' = [person EXCEPT ![c].cert = cert]
        BY <1>4 DEF UpdateCanonical, Fetchable
    <2> QED
        BY <2>1, CreatorsKept, PersonsNotMore
<1>5. ASSUME NEW u \in Callers, NEW p \in ProxyIds,
             \/ \E interrupted \in BOOLEAN : DeletePerson(u, p, interrupted)
             \/ \E s \in ProxyIds, interrupted \in BOOLEAN :
                   CollapseSameTree(u, p, s, interrupted)
             \/ RemovePersonFromTree(u, p)
      PROVE  PersonsCounted'
    BY <1>1, <1>2, <1>5 DEF DeletePerson, CollapseSameTree, RemovePersonFromTree
<1>6. ASSUME NEW u \in Callers, TreeStep(u)
      PROVE  PersonsCounted'
    <2>1. UNCHANGED person \/ \E keys : person' = Dropped(person, keys)
        BY <1>6 DEF TreeStep, CreateTree, SetPrimaryTree, SetTreeTeam,
           AddTreeEditor, RemoveTreeEditor, DeleteTree
    <2> QED
        BY <1>1, <1>2, <2>1
<1>7. ASSUME NEW u \in Callers, PersonStep(u)
      PROVE  PersonsCounted'
    <2>1. CASE \/ \E p \in ProxyIds, cr \in Users : UpdatePerson(u, p, cr)
               \/ \E p, q \in ProxyIds, t \in TreeNames : AddPersonToTree(u, p, t, q)
        BY <1>1, <2>1 DEF UpdatePerson, AddPersonToTree
    <2> QED
        BY <1>4, <1>5, <1>7, <2>1, PersonsCountedByCreatePerson DEF PersonStep
<1>8. ASSUME NEW u \in Callers, MergeStep(u)
      PROVE  PersonsCounted'
    BY <1>1, <1>3, <1>8 DEF MergeStep, CreateMergeProposal, RejectMergeProposal
<1>9. ASSUME NEW u \in Callers, Interrupted(u)
      PROVE  PersonsCounted'
    <2>1. CASE \/ \E t \in TreeNames, o \in Users : CreateTree(u, t, o, TRUE, TRUE)
               \/ \E p, q \in ProxyIds, rel \in Rels \cap ParentRels,
                     pedigree \in Pedigrees :
                     UpdateParentPedigree(u, p, q, rel, pedigree, TRUE)
        BY <1>1, <2>1 DEF CreateTree, UpdateParentPedigree, EdgesUntouched
    <2>2. CASE \E m \in ProposalIds, resolution \in BOOLEAN,
                  cert \in Certs \cup {NoCert}, done \in 1..3 :
                  AcceptMergeProposal(u, m, resolution, cert, done)
        BY <1>3, <2>2
    <2>3. CASE \E t \in TreeNames, cr \in Users \cup {Nobody},
                  cert \in Certs \cup {NoCert}, c \in PersonIds, p \in ProxyIds :
                  CreatePerson(u, t, cr, cert, c, p, TRUE)
        BY <2>3, PersonsCountedByCreatePerson
    <2>4. CASE \/ \E p \in ProxyIds : DeletePerson(u, p, TRUE)
               \/ \E l, s \in ProxyIds : CollapseSameTree(u, l, s, TRUE)
        BY <1>5, <2>4
    <2> QED
        BY <1>9, <2>1, <2>2, <2>3, <2>4 DEF Interrupted
<1>10. ASSUME NEW u \in Callers, RelationshipStep(u) \/ LifeEventStep(u)
       PROVE  PersonsCounted'
    <2>1. UNCHANGED person
        BY <1>10 DEF RelationshipStep, LifeEventStep, AddParent, AddSibling,
           AddSpouse, DeleteRelationship, UpdateParentPedigree,
           UpdateSiblingPedigree, UpdateSpouseDates, EdgesUntouched,
           CreateLifeEvent, DeleteLifeEvent, PromoteLifeEvent
    <2> QED
        BY <1>1, <2>1
<1>11. CASE UNCHANGED vars
    BY <1>1, <1>11 DEF vars
<1> QED
    BY <1>6, <1>7, <1>8, <1>9, <1>10, <1>11 DEF Next

\* Only the handlers of trees change trees.
LEMMA TreesCountedByStep ==
    ASSUME IInv, TreesCounted, [Next]_vars
    PROVE  TreesCounted'
<1>1. CASE UNCHANGED trees
    BY <1>1, TreesNotMore
<1>2. ASSUME NEW u \in Callers, NEW t \in TreeNames, NEW o \in Users,
             CreateTree(u, t, o, TRUE, TRUE)
      PROVE  TreesCounted'
    BY <1>2, TreesCountedByCreateTree
<1>3. ASSUME NEW u \in Callers,
             \/ PersonStep(u) \/ MergeStep(u) \/ RelationshipStep(u)
             \/ LifeEventStep(u)
      PROVE  UNCHANGED trees
    <2>1. PersonStep(u) => UNCHANGED trees
        BY DEF PersonStep, CreatePerson, UpdatePerson, UpdateCanonical,
           DeletePerson, AddPersonToTree, RemovePersonFromTree, CollapseSameTree
    <2>2. MergeStep(u) => UNCHANGED trees
        BY DEF MergeStep, CreateMergeProposal, RejectMergeProposal,
           AcceptMergeProposal
    <2>3. RelationshipStep(u) => UNCHANGED trees
        BY DEF RelationshipStep, AddParent, AddSibling, AddSpouse,
           DeleteRelationship, UpdateParentPedigree, UpdateSiblingPedigree,
           UpdateSpouseDates, EdgesUntouched
    <2>4. LifeEventStep(u) => UNCHANGED trees
        BY DEF LifeEventStep, CreateLifeEvent, DeleteLifeEvent, PromoteLifeEvent
    <2> QED
        BY <1>3, <2>1, <2>2, <2>3, <2>4
<1>4. ASSUME NEW u \in Callers, Interrupted(u)
      PROVE  TreesCounted'
    <2>1. \/ \E t \in TreeNames, o \in Users : CreateTree(u, t, o, TRUE, TRUE)
          \/ UNCHANGED trees
        BY <1>4 DEF Interrupted, CreatePerson, DeletePerson, CollapseSameTree,
           AcceptMergeProposal, UpdateParentPedigree, EdgesUntouched
    <2> QED
        BY <1>1, <1>2, <2>1
<1>5. CASE UNCHANGED vars
    BY <1>1, <1>5 DEF vars
<1> QED
    BY <1>1, <1>3, <1>4, <1>5, TreesCountedByTreeStep DEF Next

\* Where every plan has a limit, no owner ever has more trees, and no creator
\* more persons, than some plan allows, for any number of users, names and ids.
THEOREM PlanLimitsHoldCorrect == Spec => []PlanLimitsHold
<1> DEFINE Counted == TreesCounted /\ PersonsCounted
<1>1. Init => Counted
    <2> SUFFICES ASSUME Init PROVE Counted
        OBVIOUS
    <2>1. Live(trees) = {} /\ Live(person) = {}
        BY DEF Init, Live
    <2>2. \A o : TreesOwnedBy(o) = {} /\ PersonsCreatedBy(o) = {}
        BY <2>1 DEF TreesOwnedBy, PersonsCreatedBy
    <2>3. IsFiniteSet({}) /\ Cardinality({}) = 0
        BY FS_EmptySet
    <2>4. NoAuth \in Callers
        BY DEF Callers
    <2>5. /\ TreeLimit[NoAuth] # Unlimited => TreeLimit[NoAuth] \in Nat
          /\ MemberLimit[NoAuth] # Unlimited => MemberLimit[NoAuth] \in Nat
        BY <2>4, PlanAssumption
    <2>6. TreesCounted
        BY <2>1, <2>2, <2>3, <2>4, <2>5 DEF TreesCounted
    <2>7. PersonsCounted
        BY <2>1, <2>2, <2>3, <2>4, <2>5 DEF PersonsCounted
    <2> QED
        BY <2>6, <2>7
<1>2. IInv /\ Counted /\ [Next]_vars => Counted'
    BY TreesCountedByStep, PersonsCountedByStep
<1>3. Counted => PlanLimitsHold
    BY DEF TreesCounted, PersonsCounted, PlanLimitsHold
<1> QED
    BY <1>1, <1>2, <1>3, IInvCorrect, PTL DEF Spec
=============================================================================
