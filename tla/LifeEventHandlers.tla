-------------------------- MODULE LifeEventHandlers -------------------------
(***************************************************************************)
(* handlers/life_event.rs: the handlers that change life events.           *)
(* update_life_event rewrites columns no property here reads and is left   *)
(* out; the one it changes that matters elsewhere, the event's type, is    *)
(* read by the start of the server (StartupSeed, RetypeEvent).             *)
(***************************************************************************)
EXTENDS ClannStore

\* The event records the tree of the proxy it is created for.
CreateLifeEvent(u, p, canonical, e) ==
    /\ Fetchable(p)
    /\ CanWriteToProxy(u, p)
    /\ e \in Fresh(EventIds)
    /\ lifeEvent' = [lifeEvent EXCEPT
          ![e] = [proxy |-> p, tree |-> proxy[p].tree, canonical |-> canonical]]
    /\ issued' = issued \cup {e}
    /\ UNCHANGED <<trees, editors, person, proxy, edges, proposal>>

\* The event exists, and so does its proxy, which the caller may write.
MayChangeEvent(u, e) ==
    /\ e \in Live(lifeEvent)
    /\ lifeEvent[e].proxy \in Live(proxy)
    /\ CanWriteToProxy(u, lifeEvent[e].proxy)

DeleteLifeEvent(u, e) ==
    /\ MayChangeEvent(u, e)
    /\ lifeEvent' = Dropped(lifeEvent, {e})
    /\ UNCHANGED <<trees, editors, person, proxy, edges, proposal, issued>>

PromoteLifeEvent(u, e) ==
    /\ MayChangeEvent(u, e)
    /\ lifeEvent' = [lifeEvent EXCEPT ![e].canonical = TRUE]
    /\ UNCHANGED <<trees, editors, person, proxy, edges, proposal, issued>>
=============================================================================
