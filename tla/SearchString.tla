---------------------------- MODULE SearchString ----------------------------
(***************************************************************************)
(* The search strings of Readeck (internal/searchstring): how the text of  *)
(* a search field becomes a list of terms, how the terms become a text     *)
(* again, and what is done with a list of terms in between.                *)
(*                                                                         *)
(* A text is a sequence of runes, and a rune is a string of length one.    *)
(* Two spaces stand for all of them, and the digits of a hexadecimal escape *)
(* are the one rune "0".                                                   *)
(***************************************************************************)
EXTENDS Naturals, Sequences, SequencesExt

Spaces == {" ", "\n"}

\* The rune 0, which the scanner takes for the end of the text.
NUL == "NUL"

\* The runes that the scanner, Quote and Unquote know.
Special == Spaces \cup {NUL, "-", ":", "*", "\"", "'", "\\", "n", "0"}

-----------------------------------------------------------------------------
(* scanner: runes to tokens.  The functions scan, scanString and scanQuoted *)
(* are the modes of one automaton that reads a rune at a time.              *)

Token(kind, value) == [kind |-> kind, value |-> value]

Emit(s, kind) ==
    [s EXCEPT !.tokens = Append(@, Token(kind, s.value)), !.mode = "scan", !.value = <<>>,
              !.delim = ""]

\* scanString stops before a rune that ends the string, and scan reads it.
Flush(s) == IF s.mode = "string" THEN Emit(s, "STR") ELSE s

BeginToken(s, c) ==
    CASE c = "-"           -> [s EXCEPT !.tokens = Append(@, Token("NEG", <<c>>))]
      [] c = ":"           -> [s EXCEPT !.tokens = Append(@, Token("FIELD", <<c>>))]
      [] c = "*"           -> [s EXCEPT !.tokens = Append(@, Token("WILDCARD", <<c>>))]
      [] c \in {"\"", "'"} -> [s EXCEPT !.mode = "quoted", !.delim = c]
      [] c \in Spaces      -> [s EXCEPT !.tokens = Append(@, Token("SPACE", <<" ">>))]
      [] OTHER             -> [s EXCEPT !.mode = "string", !.value = <<c>>]

ScanRune(s, c) ==
    CASE s.mode = "escape" ->
            [s EXCEPT !.mode = "quoted",
                      !.value = @ \o (IF c \in {s.delim, "\\"} THEN <<c>> ELSE <<"\\", c>>)]
      [] s.mode = "quoted" /\ c = "\\"    -> [s EXCEPT !.mode = "escape"]
      [] s.mode = "quoted" /\ c = s.delim -> Emit(s, "STRQ")
      [] s.mode = "quoted" /\ c \notin {"\\", s.delim} ->
            [s EXCEPT !.value = Append(@, IF c \in Spaces THEN " " ELSE c)]
      [] s.mode = "string" /\ c \notin Spaces \cup {":", "*"} ->
            [s EXCEPT !.value = Append(@, c)]
      [] OTHER -> BeginToken(Flush(s), c)

\* A quotation that is not closed ends with the text; a backslash before the
\* end is followed by the rune that says so.
ScanEnd(s) ==
    CASE s.mode = "escape" -> Emit([s EXCEPT !.value = @ \o <<"\\", NUL>>], "STRQ")
      [] s.mode = "quoted" -> Emit(s, "STRQ")
      [] OTHER             -> Flush(s)

Start == [tokens |-> <<>>, mode |-> "scan", value |-> <<>>, delim |-> ""]

\* The automaton after a text.
Run(s, text) ==
    LET state[n \in 0 .. Len(text)] ==
            IF n = 0 THEN s ELSE ScanRune(state[n - 1], text[n])
    IN  state[Len(text)]

Scan(text) == ScanEnd(Run(Start, text)).tokens

\* parseTokens: the tokens between two spaces are one term.
CutToken(groups, t) ==
    CASE t.kind # "SPACE" ->
            IF groups = <<>> THEN << <<t>> >>
            ELSE [groups EXCEPT ![Len(groups)] = Append(@, t)]
      [] t.kind = "SPACE" /\ groups # <<>> /\ Last(groups) # <<>> -> Append(groups, <<>>)
      [] OTHER -> groups

CutTokens(tokens) ==
    LET groups[n \in 0 .. Len(tokens)] ==
            IF n = 0 THEN <<>> ELSE CutToken(groups[n - 1], tokens[n])
    IN  groups[Len(tokens)]

NotEmpty(groups) ==
    FlattenSeq([i \in DOMAIN groups |-> IF groups[i] = <<>> THEN <<>> ELSE <<groups[i]>>])

ParseTokens(text) == NotEmpty(CutTokens(Scan(text)))

-----------------------------------------------------------------------------
(* strconv, as newSearchTerm and String use it.                            *)

Escapes ==
    [e \in {"\\", "\"", "n", "0"} |-> IF e = "n" THEN "\n" ELSE IF e = "0" THEN NUL ELSE e]

Escaped(c) == CHOOSE e \in DOMAIN Escapes : Escapes[e] = c

UnquoteRune(u, c) ==
    CASE u.escape /\ c \in DOMAIN Escapes ->
            [u EXCEPT !.escape = FALSE, !.out = Append(@, Escapes[c])]
      [] u.escape /\ c \notin DOMAIN Escapes -> [u EXCEPT !.ok = FALSE, !.escape = FALSE]
      [] ~u.escape /\ c = "\\" -> [u EXCEPT !.escape = TRUE]
      [] OTHER -> [u EXCEPT !.ok = @ /\ c \notin {"\"", "\n"}, !.out = Append(@, c)]

Unquoted(value) ==
    LET state[n \in 0 .. Len(value)] ==
            IF n = 0 THEN [out |-> <<>>, escape |-> FALSE, ok |-> TRUE]
            ELSE UnquoteRune(state[n - 1], value[n])
    IN  state[Len(value)]

\* strconv.Unquote of the value between two quotation marks; the value itself
\* when that is no Go string.
Unquote(value) ==
    LET u == Unquoted(value) IN IF u.ok /\ ~u.escape THEN u.out ELSE value

\* strconv.Quote.
QuoteRune(c) ==
    IF c \in {Escapes[e] : e \in DOMAIN Escapes} THEN <<"\\", Escaped(c)>> ELSE <<c>>

Quote(value) ==
    <<"\"">> \o FlattenSeq([i \in DOMAIN value |-> QuoteRune(value[i])]) \o <<"\"">>

-----------------------------------------------------------------------------
(* Terms.                                                                  *)

NoTerm == [field |-> <<>>, value |-> <<>>, exact |-> FALSE, exclude |-> FALSE, wildcard |-> FALSE]

ValuesOf(tl) == FlattenSeq([i \in DOMAIN tl |-> tl[i].value])

Quotes(tl) == \E i \in DOMAIN tl : tl[i].kind = "STRQ"

Starred(tl) == tl # <<>> /\ Last(tl).kind = "WILDCARD"

\* What tokens say, without a last star, and without the escapes when there
\* are quotation marks.
ValueOf(tl) ==
    LET value == ValuesOf(IF Starred(tl) THEN Front(tl) ELSE tl)
    IN  IF Quotes(tl) THEN Unquote(value) ELSE value

AfterMinus(group) == IF group[1].kind = "NEG" THEN Tail(group) ELSE group

NamesField(tl) == Len(tl) > 1 /\ tl[2].kind = "FIELD"

\* newSearchTerm: an optional minus, an optional field, and the rest, whose
\* last star is a wildcard.
NewSearchTerm(group, ignoreField) ==
    LET tl    == AfterMinus(group)
        named == ~ignoreField /\ NamesField(tl)
        rest  == IF named THEN SubSeq(tl, 3, Len(tl)) ELSE tl
    IN  [field |-> IF named THEN tl[1].value ELSE <<>>, value |-> ValueOf(rest),
         exact |-> Quotes(rest), exclude |-> group[1].kind = "NEG", wildcard |-> Starred(rest)]

\* A mistake to catch: what was between quotation marks is written without them.
TermString_Plain(t) ==
    (IF t.exclude THEN <<"-">> ELSE <<>>)
        \o (IF t.field # <<>> THEN Append(t.field, ":") ELSE <<>>)
        \o t.value \o (IF t.wildcard THEN <<"*">> ELSE <<>>)

\* SearchTerm.String.
TermString(t) ==
    (IF t.exclude THEN <<"-">> ELSE <<>>)
        \o (IF t.field # <<>> THEN Append(t.field, ":") ELSE <<>>)
        \o (IF t.exact THEN Quote(t.value) ELSE t.value)
        \o (IF t.wildcard THEN <<"*">> ELSE <<>>)

-----------------------------------------------------------------------------
(* Queries: sequences of terms.                                            *)

ParseQuery(text) ==
    LET groups == ParseTokens(text) IN [i \in DOMAIN groups |-> NewSearchTerm(groups[i], FALSE)]

ParseField(text, name) ==
    LET groups == ParseTokens(text)
    IN  [i \in DOMAIN groups |-> [NewSearchTerm(groups[i], TRUE) EXCEPT !.field = name]]

\* SearchQuery.String.
QueryString(q) ==
    FlattenSeq([i \in DOMAIN q |-> (IF i > 1 THEN <<" ">> ELSE <<>>) \o TermString(q[i])])

Dedup(q) ==
    FlattenSeq([i \in DOMAIN q |->
        IF \E j \in DOMAIN q : j < i /\ q[j] = q[i] THEN <<>> ELSE <<q[i]>>])

ExtractField(q, name) ==
    FlattenSeq([i \in DOMAIN q |-> IF q[i].field = name THEN <<q[i]>> ELSE <<>>])

RemoveFieldInfo(q) == [i \in DOMAIN q |-> [q[i] EXCEPT !.field = <<>>]]

Unfielded(t, names) ==
    IF t.field = <<>> \/ t.field \in names THEN t
    ELSE [t EXCEPT !.field = <<>>, !.value = Append(t.field, ":") \o t.value]

Unfield(q, names) == [i \in DOMAIN q |-> Unfielded(q[i], names)]

\* The terms of a field, the other ones, and what slices.DeleteFunc leaves in
\* the array that the query of the caller keeps.
PopField(q, name) ==
    LET others == FlattenSeq([i \in DOMAIN q |-> IF q[i].field # name THEN <<q[i]>> ELSE <<>>])
    IN  [popped   |-> ExtractField(q, name),
         rest     |-> others,
         receiver |-> [i \in DOMAIN q |-> IF i <= Len(others) THEN others[i] ELSE NoTerm]]
=============================================================================
