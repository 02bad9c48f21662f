----------------------------- MODULE FamilyView -----------------------------
(***************************************************************************)
(* Reading a family: get_family_tree (handlers/relationship.rs), which     *)
(* takes the connection anew for each query of its recursion and lets      *)
(* other handlers in between, and the MCP tool get_family (mcp/server.rs), *)
(* which keeps it.  Names, dates and pictures of the persons are left out. *)
(***************************************************************************)
EXTENDS RelationshipHandlers, Sequences

VARIABLE view   \* the request under way, or Absent

\* What the queries about one proxy answer.
Children(E, p) == {e.in : e \in {f \in E : f.rel \in ParentRels /\ f.out = p}}
SpousesOf(E, p) == {e.out : e \in {f \in E : f.rel = "has_spouse" /\ f.in = p}}
SiblingsOf(E, p) ==
    {e.out : e \in {f \in E : f.rel = "has_sibling" /\ f.in = p}}
    \cup {e.in : e \in {f \in E : f.rel = "has_sibling" /\ f.out = p}}
ParentsBy(E, rel, p) == {e.out : e \in {f \in E : f.rel = rel /\ f.in = p}}

Found(E, query, p) ==
    CASE query = "children" -> Children(E, p)
      [] query = "spouse" -> SpousesOf(E, p)
      [] query = "siblings" -> SiblingsOf(E, p)
      [] OTHER -> ParentsBy(E, query, p)

RootQueries == <<"children", "spouse", "siblings", "has_father", "has_mother">>

\* An entry <<query, p, q>> of an answer: q was found by the query about p.
Entry == {"children", "spouse", "siblings", "has_father", "has_mother"}
         \X ProxyIds \X ProxyIds

\* The view of root: the next of its queries, the queries about parents still to
\* be made, and the answer so far.  kept and ever are the edges that were there at
\* every moment since the view began, and at some moment.
StartView(p) ==
    /\ view = Absent
    /\ Fetchable(p)
    /\ view' = [root |-> p, next |-> 1, grand |-> {}, answer |-> {},
                kept |-> edges, ever |-> edges]
    /\ UNCHANGED vars

\* Mutant: the recursion follows the paternal line only.
PaternalLine(query, found) ==
    IF query = "has_father" THEN ParentRels \X found ELSE {}

\* The queries about the parents found; they may be made in any order.
GrandQueries(query, found) ==
    IF query \in ParentRels THEN ParentRels \X found ELSE {}

AskRoot ==
    LET query == RootQueries[view.next]
        found == Found(edges, query, view.root)
    IN  /\ view # Absent /\ view.next <= 5
        /\ view' = [view EXCEPT !.next = @ + 1,
                      !.answer = @ \cup ({query} \X {view.root} \X found),
                      !.grand = @ \cup GrandQueries(query, found)]
        /\ UNCHANGED vars

AskParent ==
    /\ view # Absent /\ view.next = 6
    /\ \E g \in view.grand :
         view' = [view EXCEPT
                    !.grand = @ \ {g},
                    !.answer = @ \cup ({g[1]} \X {g[2]} \X Found(edges, g[1], g[2]))]
    /\ UNCHANGED vars

Answered == view # Absent /\ view.next = 6 /\ view.grand = {}

\* The answer is sent, or the client has gone.
EndView == view # Absent /\ view' = Absent /\ UNCHANGED vars

ViewStep == (\E p \in ProxyIds : StartView(p)) \/ AskRoot \/ AskParent \/ EndView

\* Another handler's step.
Meanwhile(Step) ==
    /\ Step
    /\ view' = IF view = Absent THEN Absent
               ELSE [view EXCEPT !.kept = @ \cap edges', !.ever = @ \cup edges']
-----------------------------------------------------------------------------
Edge(E, rel, p, q) == \E e \in E : SameEnds(e, rel, p, q)

\* The two-generation family of p, by the edges of E.
FamilyOf(E, p) ==
    {x \in Entry :
        \/ x[2] = p /\
             \/ x[1] = "children" /\ \E rel \in ParentRels : Edge(E, rel, x[3], p)
             \/ x[1] = "spouse" /\ Edge(E, "has_spouse", p, x[3])
             \/ x[1] = "siblings" /\ \/ Edge(E, "has_sibling", p, x[3])
                                     \/ Edge(E, "has_sibling", x[3], p)
        \/ /\ x[1] \in ParentRels /\ Edge(E, x[1], x[2], x[3])
           /\ x[2] = p \/ \E rel \in ParentRels : Edge(E, rel, p, x[2])}

\* However other handlers change the edges between the queries of a view, it
\* shows every relative reached by edges that stayed, and none by edges that
\* were never there (get_family_tree).
ViewBetween ==
    Answered => /\ FamilyOf(view.kept, view.root) \subseteq view.answer
                /\ view.answer \subseteq FamilyOf(view.ever, view.root)
-----------------------------------------------------------------------------
(* The MCP tool.                                                           *)

\* Mutant: the children by has_mother are forgotten.
ToolFathersFamily(E, p) ==
    {<<IF e.rel = "has_spouse" THEN "spouse" ELSE e.rel, p, e.out>> :
        e \in {f \in E : f.in = p /\ f.rel # "has_sibling"}}
    \cup {<<"children", p, e.in>> : e \in {f \in E : f.out = p /\ f.rel = "has_father"}}

\* Parents, spouses and children as get_family lists them.
ToolFamily(E, p) ==
    {<<IF e.rel = "has_spouse" THEN "spouse" ELSE e.rel, p, e.out>> :
        e \in {f \in E : f.in = p /\ f.rel # "has_sibling"}}
    \cup {<<"children", p, e.in>> : e \in {f \in E : f.out = p /\ f.rel \in ParentRels}}

\* Mutant: the children of every parent are looked for as a father's.
FatherEdge(E, p, q) == "has_father"

\* The table in which the siblings by parent q are looked for.
ParentEdge(E, p, q) ==
    IF q \in ParentsBy(E, "has_father", p) THEN "has_father" ELSE "has_mother"

ToolSiblings(E, p) ==
    UNION {{e.in : e \in {f \in E : f.rel = ParentEdge(E, p, q) /\ f.out = q /\ f.in # p}} :
             q \in ParentsBy(E, "has_father", p) \cup ParentsBy(E, "has_mother", p)}

ParentsOf(E, p) == {e.out : e \in {f \in E : f.rel \in ParentRels /\ f.in = p}}

\* "persons who share at least one parent with this person" (mcp/server.rs:218):
\* the tool's siblings do, and it finds all of them as long as nobody is father
\* of one proxy and mother of another.
SiblingsShareParent ==
    LET Fathers == {e.out : e \in {f \in edges : f.rel = "has_father"}}
        Mothers == {e.out : e \in {f \in edges : f.rel = "has_mother"}}
    IN  \A p \in ProxyIds :
          LET Sharing == {q \in ProxyIds \ {p} : ParentsOf(edges, p) \cap ParentsOf(edges, q) # {}}
          IN  /\ ToolSiblings(edges, p) \subseteq Sharing
              /\ Fathers \cap Mothers = {} => ToolSiblings(edges, p) = Sharing

\* A view during which nothing changed, and the tool asked right after it, show
\* the same parents, spouses and children.
ToolAgreesWithView ==
    Answered /\ view.kept = view.ever =>
        ToolFamily(edges, view.root) =
            {x \in view.answer : x[2] = view.root /\ x[1] # "siblings"}
=============================================================================
