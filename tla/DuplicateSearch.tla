-------------------------- MODULE DuplicateSearch ---------------------------
(***************************************************************************)
(* The search for likely duplicates of a person, which exists twice:       *)
(* find_duplicates of handlers/person.rs and the MCP tool of that name     *)
(* (mcp/server.rs).  The state is what is recorded of two canonicals, one  *)
(* proxy each, and the steps correct it.                                   *)
(*                                                                         *)
(* Texts are sequences of symbols, in lower case: a symbol is two letters, *)
(* Gap is whatever is no letter, digits of a date stand for themselves.    *)
(***************************************************************************)
EXTENDS Naturals, SequencesExt

CONSTANTS
    BothNames,  \* first and family name, or EmptyName for one that is empty
    EmptyName,
    Births,     \* dates of birth, sequences of digits and other symbols
    Places,     \* places of birth
    Gap, NoText

Sexes == {"Male", "Female"}

ASSUME SearchAssumption == EmptyName \in BothNames /\ NoText \notin Births \cup Places

VARIABLE described   \* the two canonicals
Two == {1, 2}
Description == [name : BothNames, sex : Sexes,
                dob : Births \cup {NoText}, pob : Places \cup {NoText}]

\* create_person, twice.
SearchInit ==
    \E d \in Description :
        /\ d.dob = NoText /\ d.pob = NoText
        /\ described = [i \in Two |-> d]

\* update_canonical, which can leave no date or place empty.
Correct(i, f, x) ==
    /\ described' = [described EXCEPT ![i] = [@ EXCEPT ![f] = x]]
    /\ described' # described

SearchNext ==
    \E i \in Two :
        \/ \E x \in BothNames : Correct(i, "name", x)
        \/ \E x \in Sexes : Correct(i, "sex", x)
        \/ \E x \in Births : Correct(i, "dob", x)
        \/ \E x \in Places : Correct(i, "pob", x)

SearchSpec == SearchInit /\ [][SearchNext]_described
-----------------------------------------------------------------------------
NoYear == 0

\* Where four digits begin that are a year, and the year.
YearAt(s, i) == s[i] * 1000 + s[i + 1] * 100 + s[i + 2] * 10 + s[i + 3]
YearStarts(s) ==
    {i \in 1 .. Len(s) : /\ i + 3 <= Len(s)
                         /\ \A j \in i .. i + 3 : s[j] \in 0 .. 9
                         /\ YearAt(s, i) \in 1700 .. 2099}

\* extract_year: the first of them.
ExtractYear(s) ==
    IF s = NoText \/ YearStarts(s) = {} THEN NoYear
    ELSE YearAt(s, CHOOSE i \in YearStarts(s) : \A j \in YearStarts(s) : i <= j)

YearScore(a, b) ==
    LET y == ExtractYear(a)
        z == ExtractYear(b)
    IN IF y = NoYear \/ z = NoYear THEN 0
       ELSE IF y = z THEN 2
       ELSE IF y + 1 = z \/ z + 1 = y THEN 1
       ELSE 0

\* Words longer than three letters.
SignificantWords(s) ==
    {w \in SubSeqs(s) :
        /\ Len(w) > 1 /\ Gap \notin ToSet(w)
        /\ \E i \in 1 .. Len(s) :
              /\ i + Len(w) - 1 <= Len(s) /\ SubSeq(s, i, i + Len(w) - 1) = w
              /\ i = 1 \/ s[i - 1] = Gap
              /\ i + Len(w) - 1 = Len(s) \/ s[i + Len(w)] = Gap}

SharesSignificantWord(a, b) == SignificantWords(a) \cap SignificantWords(b) # {}

\* Mutant: only the candidate's place is looked for in the other one.
ContainsOneWay(a, b) == b \in SubSeqs(a)

ContainsEitherWay(a, b) == a \in SubSeqs(b) \/ b \in SubSeqs(a)

PlaceScore(a, b) ==
    IF a = NoText \/ b = NoText THEN 0
    ELSE IF a = b THEN 3
    ELSE IF ContainsEitherWay(a, b) THEN 2
    ELSE IF SharesSignificantWord(a, b) THEN 1
    ELSE 0

NoMatch == <<>>

Confidence(n) == IF n >= 4 THEN "strong" ELSE IF n >= 2 THEN "likely" ELSE "possible"
Match(n) == <<n, Confidence(n)>>

\* find_duplicates: what the search for d shows of candidate c.
RestMatch(d, c) ==
    IF d.name # c.name \/ d.sex # c.sex THEN NoMatch
    ELSE Match(3 + YearScore(d.dob, c.dob) + PlaceScore(d.pob, c.pob))

\* Mutant: the tool takes equal places for one containing the other.
ToolPlaceScoreFlat(a, b) ==
    IF a = NoText \/ b = NoText THEN 0
    ELSE IF ContainsEitherWay(a, b) THEN 2
    ELSE 0

\* The tool's own copies: of extract_year,
ToolExtractYear(s) ==
    IF s = NoText \/ YearStarts(s) = {} THEN NoYear
    ELSE YearAt(s, CHOOSE i \in YearStarts(s) : \A j \in YearStarts(s) : i <= j)

\* of what a difference of years counts (abs_diff),
ToolYearScore(a, b) ==
    LET y == ToolExtractYear(a)
        z == ToolExtractYear(b)
    IN IF NoYear \in {y, z} THEN 0
       ELSE IF y = z THEN 2
       ELSE IF y + 1 = z \/ z + 1 = y THEN 1
       ELSE 0

\* and of what two places count.
ToolPlaceScore(a, b) ==
    IF a = NoText \/ b = NoText THEN 0
    ELSE IF a = b THEN 3
    ELSE IF ContainsEitherWay(a, b) THEN 2
    ELSE IF SharesSignificantWord(a, b) THEN 1
    ELSE 0

\* The tool answers with no match if a name is empty.
ToolMatch(d, c) ==
    IF d.name = EmptyName \/ d.name # c.name \/ d.sex # c.sex THEN NoMatch
    ELSE Match(3 + ToolYearScore(d.dob, c.dob) + ToolPlaceScore(d.pob, c.pob))
-----------------------------------------------------------------------------
\* The application and the assistant tell a user the same about a person who has
\* both names (person.rs find_duplicates, mcp/server.rs find_duplicates).
RestAndToolAgree ==
    described[1].name # EmptyName =>
        RestMatch(described[1], described[2]) = ToolMatch(described[1], described[2])

\* Each of two duplicates is found from the other, with the same score and confidence: the
\* owners of two trees must not see different answers to one question.
DuplicatesAreMutual ==
    RestMatch(described[1], described[2]) = RestMatch(described[2], described[1])
=============================================================================
