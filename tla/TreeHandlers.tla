---------------------------- MODULE TreeHandlers ----------------------------
(***************************************************************************)
(* handlers/family_tree.rs and handlers/tree_editor.rs: the handlers that  *)
(* change family trees and their editor grants.  update_tree only writes   *)
(* the display name, which no property mentions, and is left out.          *)
(***************************************************************************)
EXTENDS ClannStore

TreesOwnedBy(o) == {t \in Live(trees) : trees[t].owner = o}

\* The clearing left out.
PrimaryKept(o) == trees

\* UPDATE family_tree SET is_primary = false WHERE owner = $owner
WithoutPrimary(o) ==
    [t \in TreeNames |->
        IF t \in TreesOwnedBy(o) THEN [trees[t] EXCEPT !.primary = FALSE]
                                 ELSE trees[t]]

\* The limit taken as the number that may be exceeded by one.
TreeQuotaReached(u, o) ==
    TreeLimit[u] # Unlimited => Cardinality(TreesOwnedBy(o)) <= TreeLimit[u]

TreeQuotaLeft(u, o) ==
    TreeLimit[u] # Unlimited => Cardinality(TreesOwnedBy(o)) < TreeLimit[u]

\* The owner comes from the payload.  interrupted: the old primary flag was
\* cleared and the tree was not created any more.
CreateTree(u, t, o, primary, interrupted) ==
    /\ TreeQuotaLeft(u, o)
    /\ trees[t] = Absent
    /\ interrupted => primary
    /\ LET cleared == IF primary THEN WithoutPrimary(o) ELSE trees
           row == [owner |-> o, primary |-> primary, team |-> NoTeam]
       IN trees' = IF interrupted THEN cleared
                                  ELSE [cleared EXCEPT ![t] = row]
    /\ UNCHANGED <<editors, person, proxy, edges, lifeEvent, proposal, issued>>

\* Both updates travel in one query.  No write check.
SetPrimaryTree(t) ==
    /\ t \in Live(trees)
    /\ trees' = [WithoutPrimary(trees[t].owner) EXCEPT ![t].primary = TRUE]
    /\ UNCHANGED <<editors, person, proxy, edges, lifeEvent, proposal, issued>>

\* Links the tree to a team or unlinks it (where the database takes the JSON
\* null for NONE; where it refuses it nothing changes).  No write check.
SetTreeTeam(t, team) ==
    /\ t \in Live(trees)
    /\ trees' = [trees EXCEPT ![t].team = team]
    /\ UNCHANGED <<editors, person, proxy, edges, lifeEvent, proposal, issued>>

\* The canonicals that delete_tree removes.  The sub-query compares
\* person_proxy.person_id with person.id, where person is looked up as a
\* column of the proxy row itself (there is none), so it counts no row,
\* whatever proxies remain.  What [0].n of a count over no row is depends on
\* the database: 0, or NONE, which is not equal to 0 (every other handler
\* reads such a count with unwrap_or(0), person.rs:619).
SweptCanonicals(t) ==
    IF EmptyCountIsZero THEN {proxy[p].person : p \in ProxiesIn(t)} ELSE {}

\* Any caller; grants, proposals and other trees' rows are left alone.
DeleteTree(t) ==
    /\ t \in Live(trees)
    /\ CascadeProxies(ProxiesIn(t))
    /\ person' = Dropped(person, SweptCanonicals(t))
    /\ trees' = [trees EXCEPT ![t] = Absent]
    /\ UNCHANGED <<editors, proposal, issued>>
-----------------------------------------------------------------------------
\* require_team_owner: the tree is linked to a team and, unless in dev mode,
\* the caller owns that team.
RequireTeamOwner(u, t) ==
    /\ t \in Live(trees)
    /\ trees[t].team # NoTeam
    /\ u = NoAuth \/ IsTeamOwner(u, t)

AddTreeEditor(u, t, v) ==
    /\ RequireTeamOwner(u, t)
    /\ ~IsTreeEditor(v, t)
    /\ editors' = editors \cup {<<t, v>>}
    /\ UNCHANGED <<trees, person, proxy, edges, lifeEvent, proposal, issued>>

RemoveTreeEditor(u, t, v) ==
    /\ RequireTeamOwner(u, t)
    /\ editors' = editors \ {<<t, v>>}
    /\ UNCHANGED <<trees, person, proxy, edges, lifeEvent, proposal, issued>>
=============================================================================
