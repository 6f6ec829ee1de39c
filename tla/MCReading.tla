----------------------------- MODULE MCReading -----------------------------
(***************************************************************************)
(* A reader, for TLC.                                                      *)
(*                                                                         *)
(* Searches are every text of a few runes in the search field, shorter     *)
(* ones in the other fields, and labels of a few runes.  The article is    *)
(* <p><b>a</b>bc</p>.                                                      *)
(***************************************************************************)
EXTENDS Reading, TLC

CONSTANTS a1, a2, a3, r1, r2, p, b

BoldFirst ==
    <<[path |-> <<p, b>>, text |-> <<1>>],
      [path |-> <<p>>, text |-> <<2, 3>>]>>

SiteName == <<"s">>
LabelName == <<"l">>
IndexedRunes == {"s", "l", "w", "n"}
AllRunes == Special \cup IndexedRunes

\* "w" is no escape, "n" is one; "s" and "l" are the names of fields.
SearchRunes == {"s", "l", "w", "n", "-", ":", "*", "\"", "\\", " "}
FewRunes == {"w", "n", "-", "*", "\"", "\\"}

SearchTexts == {[search |-> t, site |-> <<>>, labels |-> <<>>] : t \in BoundedSeq(SearchRunes, 4)}

\* Longer texts that begin with the name of a field, known or not, between
\* quotation marks or not.
FieldNames ==
    {<<"\"", "s", "\"">>, <<"\"", "w", " ", "w", "\"">>, <<"\"", "-", "\"">>,
     <<"\"", "s", ":", "l", "\"">>, <<"\"", "\\", "\"", "\"">>,
     <<"\"", "*", "\\", "\"", "w", "\"">>, <<"-", "l">>, <<"-", "w">>}
NamedTexts ==
    {[search |-> Append(n, ":") \o t, site |-> u, labels |-> u] :
        n \in FieldNames, t \in BoundedSeq(FewRunes, 3), u \in {<<>>, <<"w">>}}

FieldTexts ==
    {[search |-> <<"w">>, site |-> t, labels |-> u] :
        t \in BoundedSeq(FewRunes, 2), u \in BoundedSeq(FewRunes, 2)}
    \cup {[search |-> <<>>, site |-> <<>>, labels |-> t] : t \in BoundedSeq(FewRunes, 4)}

AllTexts == SearchTexts \cup NamedTexts \cup FieldTexts

\* The labels of pages: trimmed, and never empty.
PageLabels ==
    {l \in BoundedSeq({"w", "n", "-", "*", "\"", "\\", ":", " "}, 3) :
        l # <<>> /\ Head(l) # " " /\ Last(l) # " "}

Symmetry == Permutations({a1, a2, a3}) \cup Permutations({r1, r2})
=============================================================================
