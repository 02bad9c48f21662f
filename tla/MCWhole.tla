------------------------------ MODULE MCWhole -------------------------------
(***************************************************************************)
(* Small instances of the whole server, from the empty database, with      *)
(* every handler, caller and interruption.                                 *)
(***************************************************************************)
EXTENDS ClannServer, TLC

\* Every caller unlimited, or with room for one or two.
NoLimit == [u \in Callers |-> Unlimited]
LimitOne == [u \in Callers |-> 1]
LimitTwo == [u \in Callers |-> 2]

\* Every user owns every team, or nobody owns one.
EveryTeamOwner == Users \X Teams
NoTeamOwner == {}

\* Record ids and trees are interchangeable.
IdSymmetry == Permutations(TreeNames) \cup Permutations(PersonIds)
    \cup Permutations(ProxyIds)
=============================================================================
