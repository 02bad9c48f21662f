--------------------------- MODULE PersonIdentity ---------------------------
(***************************************************************************)
(* What the canonical-person layer promises, without persons: which        *)
(* proxies are known to be the same human being.  Knowledge only grows,    *)
(* two groups of proxies are joined only while a proposal between two of   *)
(* their members is open, and a proxy that is gone says nothing any more.  *)
(***************************************************************************)
CONSTANT Proxies

VARIABLES
    present,  \* the proxies there are
    same,     \* pairs of present proxies known to be one person
    open      \* undecided proposals, as sets of two proxies

vars == <<present, same, open>>

Group(p) == {q \in present : <<p, q>> \in same}

Joined(p, q) == same \cup ((Group(p) \cup Group(q)) \X (Group(p) \cup Group(q)))

Init == present = {} /\ same = {} /\ open = {}

\* A proxy of a person not seen before.
Appear(p) ==
    /\ p \notin present
    /\ present' = present \cup {p}
    /\ same' = same \cup {<<p, p>>}
    /\ UNCHANGED open

\* A further proxy of the person behind q.
AppearAs(p, q) ==
    /\ p \notin present /\ q \in present
    /\ present' = present \cup {p}
    /\ same' = same \cup (({p} \cup Group(q)) \X ({p} \cup Group(q)))
    /\ UNCHANGED open

\* Proxies leave, one or a tree of them; open proposals stay open.
Vanish(ps) ==
    /\ present' = present \ ps
    /\ same' = same \cap (present' \X present')
    /\ UNCHANGED open

Propose(p, q) ==
    /\ p \in present /\ q \in present
    /\ <<p, q>> \notin same
    /\ {p, q} \notin open
    /\ open' = open \cup {{p, q}}
    /\ UNCHANGED <<present, same>>

\* The proposal is turned down, or accepted without effect (the two persons
\* share a tree already, and the index keeps them apart).
Close(p, q) ==
    /\ {p, q} \in open
    /\ open' = open \ {{p, q}}
    /\ UNCHANGED <<present, same>>

\* The proposal is accepted; it stays open when the acceptance is cut off.
Join(p, q) ==
    /\ {p, q} \in open
    /\ p \in present /\ q \in present
    /\ same' = Joined(p, q)
    /\ open' \in {open, open \ {{p, q}}}
    /\ UNCHANGED present

Next ==
    \/ \E p \in Proxies : Appear(p)
    \/ \E p, q \in Proxies : AppearAs(p, q)
    \/ \E ps \in SUBSET Proxies : Vanish(ps)
    \/ \E p, q \in Proxies : Propose(p, q)
    \/ \E p, q \in Proxies : Close(p, q)
    \/ \E p, q \in Proxies : Join(p, q)

Spec == Init /\ [][Next]_vars
=============================================================================
