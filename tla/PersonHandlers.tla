--------------------------- MODULE PersonHandlers ---------------------------
(***************************************************************************)
(* handlers/person.rs: the handlers that change canonical persons and      *)
(* their proxies.                                                          *)
(***************************************************************************)
EXTENDS ClannStore

PersonsCreatedBy(cr) == {c \in Live(person) : person[c].creator = cr}

\* The limit is the caller's, the count that of the payload's created_by;
\* a payload without created_by is not counted.
MemberQuotaLeft(u, cr) ==
    MemberLimit[u] # Unlimited /\ cr # Nobody
        => Cardinality(PersonsCreatedBy(cr)) < MemberLimit[u]

\* Two queries: the canonical c, then its proxy p.  interrupted: only the
\* first took effect and the compensating delete, whose errors are ignored,
\* did not run or failed.  (When it succeeds no row is left.)
CreatePerson(u, t, cr, cert, c, p, interrupted) ==
    /\ t \in Live(trees)
    /\ MemberQuotaLeft(u, cr)
    /\ c \in Fresh(PersonIds) /\ p \in Fresh(ProxyIds)
    /\ CertFree(cert, c)
    /\ person' = [person EXCEPT ![c] = [creator |-> cr, cert |-> cert]]
    /\ \/ /\ ~interrupted
          /\ proxy' = [proxy EXCEPT
                ![p] = [person |-> c, tree |-> t, creator |-> cr]]
          /\ issued' = issued \cup {c, p}
       \/ /\ interrupted
          /\ issued' = issued \cup {c}
          /\ UNCHANGED proxy
    /\ UNCHANGED <<trees, editors, edges, lifeEvent, proposal>>

\* PUT merges the given proxy fields; of those the model keeps created_by.
UpdatePerson(u, p, cr) ==
    /\ Fetchable(p)
    /\ CanWriteToProxy(u, p)
    /\ proxy' = [proxy EXCEPT ![p].creator = cr]
    /\ UNCHANGED <<trees, editors, person, edges, lifeEvent, proposal, issued>>

\* PATCH canonical merges the given fields; of those the model keeps the
\* certificate, the one the unique index watches.
UpdateCanonical(u, p, cert) ==
    /\ Fetchable(p)
    /\ CanWriteToProxy(u, p)
    /\ CertFree(cert, proxy[p].person)
    /\ person' = [person EXCEPT ![proxy[p].person].cert = cert]
    /\ UNCHANGED <<trees, editors, proxy, edges, lifeEvent, proposal, issued>>

\* The count taken before the proxy is deleted, and compared with none and
\* with at most two.
LastProxyCountedEarly(p) == ProxiesOf(proxy[p].person) = {}
LastProxyButOne(p) == Cardinality(ProxiesOf(proxy[p].person)) <= 2

\* Is p the last proxy of its person?  (Counted after the delete in the code.)
LastProxy(p) == ProxiesOf(proxy[p].person) = {p}

\* interrupted: the proxy is gone, its canonical was not looked at any more.
DeletePerson(u, p, interrupted) ==
    /\ p \in Live(proxy)
    /\ CanWriteToProxy(u, p)
    /\ CascadeProxies({p})
    /\ person' = IF LastProxy(p) /\ ~interrupted
                 THEN Dropped(person, {proxy[p].person}) ELSE person
    /\ UNCHANGED <<trees, editors, proposal, issued>>

\* The new proxy q keeps the creator of the proxy p it was added from.
AddPersonToTree(u, p, t, q) ==
    /\ Fetchable(p)
    /\ CanWriteToProxy(u, p)
    /\ t \in Live(trees)
    /\ ProxySlotFree(proxy[p].person, t)
    /\ q \in Fresh(ProxyIds)
    /\ proxy' = [proxy EXCEPT ![q] = [proxy[p] EXCEPT !.tree = t]]
    /\ issued' = issued \cup {q}
    /\ UNCHANGED <<trees, editors, person, edges, lifeEvent, proposal>>

\* The tree named in the path is ignored: the proxy goes, whatever it says.
RemovePersonFromTree(u, p) ==
    /\ p \in Live(proxy)
    /\ CanWriteToProxy(u, p)
    /\ ~LastProxy(p)
    /\ CascadeProxies({p})
    /\ UNCHANGED <<trees, editors, person, proposal, issued>>
-----------------------------------------------------------------------------
(* collapse_same_tree_duplicate: loser l into survivor s.                  *)

MayCollapse(l, s) == proxy[l].tree = proxy[s].tree

\* The rows of E an UPDATE .. SET <end> = $s WHERE <end> = $l may rewrite:
\* those of the tables where no row has s at that end (the sub-query's
\* out = out, in = in is true of every row).
Movable(E, end, l, s) ==
    {e \in E : e[end] = l /\ ~\E f \in E : f.rel = e.rel /\ f[end] = s}

\* What the update really rewrites: at most one row of a table, for after it
\* the sub-query finds s there, and whichever the scan meets first; or none,
\* when the database keeps the ends of an edge as RELATE wrote them.
Rewritten(E, end, l, s) ==
    {M \in SUBSET Movable(E, end, l, s) :
        \A e, f \in M : e.rel = f.rel => e = f}

\* After the update, DELETE .. WHERE <end> = $l takes the rows left behind.
Redirected(E, M, end, l, s) ==
    {e \in E : e[end] # l} \cup {[e EXCEPT ![end] = s] : e \in M}

EventsMoved(l, s) ==
    [e \in EventIds |-> IF e \in EventsOf({l})
                        THEN [lifeEvent[e] EXCEPT !.proxy = s]
                        ELSE lifeEvent[e]]

\* interrupted: the batch ran, the loser's canonical was not looked at.
CollapseSameTree(u, l, s, interrupted) ==
    /\ l \in Live(proxy) /\ s \in Live(proxy)
    /\ MayCollapse(l, s)
    /\ CanWriteToProxy(u, l)
    /\ \E M \in Rewritten(edges, "in", l, s) :
          LET E == Redirected(edges, M, "in", l, s)
          IN \E N \in Rewritten(E, "out", l, s) :
                edges' = Redirected(E, N, "out", l, s)
    /\ lifeEvent' = EventsMoved(l, s)
    /\ proxy' = Dropped(proxy, {l})
    /\ person' = IF /\ proxy[l].person # proxy[s].person
                    /\ LastProxy(l)
                    /\ ~interrupted
                 THEN Dropped(person, {proxy[l].person}) ELSE person
    /\ UNCHANGED <<trees, editors, proposal, issued>>
=============================================================================
