---------------------------- MODULE ReadingProofs ----------------------------
(***************************************************************************)
(* What is certain of a reader, for any values of the constants.  Filters: *)
(* a list is selected by what was asked for, with searches of any length,  *)
(* through the scanner and back, in pages and collections.  Annotations:   *)
(* what RowProofs says of the highlights of one article.                   *)
(***************************************************************************)
EXTENDS Reading, RowProofs

-----------------------------------------------------------------------------
(* Texts, rune by rune. *)

Text == Seq(Runes)

LEMMA RuneFacts ==
    /\ Special \subseteq Runes /\ Spaces \subseteq Runes
    /\ {" ", "\n", "NUL", "-", ":", "*", "\"", "'", "\\", "n", "0"} \subseteq Runes
    /\ \A c \in Runes : <<c>> \in Text /\ \A d \in Runes : <<c, d>> \in Text
    /\ <<>> \in Text
<1>1. Special \subseteq Runes
  BY FiltersAssumption
<1>2. Spaces \subseteq Special /\ {" ", "\n", "NUL", "-", ":", "*", "\"", "'", "\\", "n", "0"} = Special
  BY DEF Special, Spaces, NUL
<1>3. \A c \in Runes : <<c>> \in Seq(Runes) /\ \A d \in Runes : <<c, d>> \in Seq(Runes)
  OBVIOUS
<1>4. <<>> \in Seq(Runes)
  OBVIOUS
<1> QED BY <1>1, <1>2, <1>3, <1>4 DEF Text

\* A sequence of one.
LEMMA AppendOne ==
    ASSUME NEW t
    PROVE  Append(<<>>, t) = <<t>>
OBVIOUS

\* A set that has the empty sequence, and each sequence that is one element
\* longer than one of its own, has all of them.
LEMMA InductSeq ==
    ASSUME NEW C, NEW S, <<>> \in S, \A u \in Seq(C), c \in C : u \in S => Append(u, c) \in S
    PROVE  Seq(C) \subseteq S
<1> DEFINE N == {n \in Nat : \A u \in Seq(C) : Len(u) = n => u \in S}
<1>1. 0 \in N
  BY EmptySeq
<1>2. ASSUME NEW n \in Nat, n \in N PROVE n + 1 \in N
  <2>1. ASSUME NEW u \in Seq(C), Len(u) = n + 1 PROVE u \in S
    <3>1. u # <<>>
      BY <2>1, EmptySeq
    <3>2. PICK w \in Seq(C), c \in C : u = Append(w, c)
      BY <3>1, SequenceEmptyOrAppend
    <3>3. Len(w) = n
      BY <2>1, <3>2, AppendProperties, LenProperties
    <3> QED BY <1>2, <3>2, <3>3
  <2> QED BY <2>1
<1>3. ASSUME NEW u \in Seq(C) PROVE u \in S
  <2>1. PICK m \in Nat : Len(u) = m
    BY LenProperties
  <2>2. 0 .. m \subseteq N
    <3> HIDE DEF N
    <3>1. \A n \in 0 .. (m - 1) : n \in N => n + 1 \in N
      BY <1>2
    <3> QED BY <1>1, <3>1, Induct
  <2>3. m \in N
    BY <2>2
  <2> QED BY <2>1, <2>3
<1> QED BY <1>3

\* The states of the automaton on the way through a text.
Passed(s, text, n, before) == IF n = 0 THEN s ELSE ScanRune(before, text[n])

Passes(f, s, text, m) == f = [n \in 0 .. m |-> Passed(s, text, n, f[n - 1])]

LEMMA PassesAt ==
    ASSUME NEW s, NEW text, NEW m \in Nat, NEW f, Passes(f, s, text, m)
    PROVE  \A n \in 0 .. m : f[n] = Passed(s, text, n, f[n - 1])
BY Zenon DEF Passes

\* They are the same for texts that begin in the same way.
Agree(u, v, k) == \A n \in 1 .. k : u[n] = v[n]

LEMMA PassesOne ==
    ASSUME NEW s, NEW text, NEW other, NEW m \in Nat, NEW k \in 0 .. m, NEW f, NEW g,
           Agree(text, other, k), Passes(f, s, text, m), Passes(g, s, other, k)
    PROVE  f[k] = g[k]
<1>0. \A n \in 1 .. k : text[n] = other[n]
  BY DEF Agree
<1> DEFINE S == {n \in Nat : n <= k => f[n] = g[n]}
<1>1. /\ \A n \in 0 .. m : f[n] = Passed(s, text, n, f[n - 1])
      /\ \A n \in 0 .. k : g[n] = Passed(s, other, n, g[n - 1])
  <2>1. \A n \in 0 .. m : f[n] = Passed(s, text, n, f[n - 1])
    BY PassesAt
  <2>2. \A n \in 0 .. k : g[n] = Passed(s, other, n, g[n - 1])
    BY PassesAt
  <2> QED BY <2>1, <2>2
<1>2. 0 \in S
  <2>1. f[0] = s /\ g[0] = s
    BY <1>1 DEF Passed
  <2> QED BY <2>1
<1>3. ASSUME NEW n \in 0 .. (k - 1), n \in S PROVE n + 1 \in S
  <2>1. n + 1 \in 0 .. m /\ n + 1 \in 0 .. k /\ n + 1 \in 1 .. k /\ (n + 1) - 1 = n /\ n + 1 # 0
    OBVIOUS
  <2>2. f[n + 1] = ScanRune(f[n], text[n + 1]) /\ g[n + 1] = ScanRune(g[n], other[n + 1])
    BY <1>1, <2>1 DEF Passed
  <2>3. f[n] = g[n] /\ text[n + 1] = other[n + 1]
    BY <1>0, <1>3, <2>1
  <2> QED BY <2>2, <2>3
<1>4. 0 .. k \subseteq S
  <2> HIDE DEF S
  <2> QED BY <1>2, <1>3, Induct
<1> QED BY <1>4

LEMMA PassesExist ==
    ASSUME NEW s, NEW text, NEW m \in Nat
    PROVE  \E f : Passes(f, s, text, m)
<1> DEFINE S == {k \in Nat : \E f : Passes(f, s, text, k)}
<1>1. 0 \in S
  <2> DEFINE f == [n \in 0 .. 0 |-> s]
  <2>1. \A n \in 0 .. 0 : Passed(s, text, n, f[n - 1]) = s
    BY DEF Passed
  <2>2. f = [n \in 0 .. 0 |-> Passed(s, text, n, f[n - 1])]
    BY <2>1
  <2> HIDE DEF f
  <2>3. Passes(f, s, text, 0)
    BY <2>2, Zenon DEF Passes
  <2> QED BY <2>3
<1>2. ASSUME NEW k \in Nat, k \in S PROVE k + 1 \in S
  <2>1. PICK f : Passes(f, s, text, k)
    BY <1>2
  <2> DEFINE g == [n \in 0 .. (k + 1) |-> IF n <= k THEN f[n] ELSE Passed(s, text, n, f[n - 1])]
  <2>2. \A n \in 0 .. k : f[n] = Passed(s, text, n, f[n - 1])
    BY <2>1, PassesAt
  <2>3. (\A n \in 0 .. k : g[n] = f[n]) /\ g[k + 1] = Passed(s, text, k + 1, f[k])
    OBVIOUS
  <2>4. g = [n \in 0 .. (k + 1) |-> g[n]]
    OBVIOUS
  <2> HIDE DEF g
  <2>5. ASSUME NEW n \in 0 .. k PROVE g[n] = Passed(s, text, n, g[n - 1])
    <3>1. CASE n = 0
      BY <2>2, <2>3, <3>1 DEF Passed
    <3>2. CASE n # 0
      <4>1. n - 1 \in 0 .. k
        BY <3>2
      <4>2. g[n] = f[n] /\ g[n - 1] = f[n - 1]
        BY <2>3, <4>1
      <4> QED BY <2>2, <4>2
    <3> QED BY <3>1, <3>2
  <2>6. g[k + 1] = Passed(s, text, k + 1, g[(k + 1) - 1])
    <3>1. (k + 1) - 1 = k /\ k \in 0 .. k
      OBVIOUS
    <3>2. g[(k + 1) - 1] = f[k]
      BY <2>3, <3>1
    <3> QED BY <2>3, <3>2
  <2>7. \A n \in 0 .. (k + 1) : g[n] = Passed(s, text, n, g[n - 1])
    <3>1. \A n \in 0 .. (k + 1) : n \in 0 .. k \/ n = k + 1
      OBVIOUS
    <3> QED BY <2>5, <2>6, <3>1, Zenon
  <2>8. Passes(g, s, text, k + 1)
    <3>1. g = [n \in 0 .. (k + 1) |-> Passed(s, text, n, g[n - 1])]
      BY <2>4, <2>7
    <3> QED BY <3>1, Zenon DEF Passes
  <2> QED BY <2>8
<1>3. 0 .. m \subseteq S
  <2> HIDE DEF S
  <2> QED BY <1>1, <1>2, Induct
<1> QED BY <1>3

\* Run goes through them.
LEMMA RunPasses ==
    ASSUME NEW s, NEW C, NEW text \in Seq(C)
    PROVE  \E f : Passes(f, s, text, Len(text)) /\ Run(s, text) = f[Len(text)]
<1> DEFINE f == CHOOSE f : Passes(f, s, text, Len(text))
<1>1. Passes(f, s, text, Len(text))
  <2>1. \E g : Passes(g, s, text, Len(text))
    BY LenProperties, PassesExist
  <2> QED BY <2>1, Zenon
<1>2. f = CHOOSE g : g = [n \in 0 .. Len(text) |-> IF n = 0 THEN s ELSE ScanRune(g[n - 1], text[n])]
  BY Zenon DEF Passes, Passed
<1>3. Run(s, text) = f[Len(text)]
  BY <1>2, Zenon DEF Run
<1> QED BY <1>1, <1>3, Zenon

LEMMA RunEmpty ==
    ASSUME NEW s
    PROVE  Run(s, <<>>) = s
<1>1. <<>> \in Seq({}) /\ Len(<<>>) = 0 /\ 0 \in 0 .. 0
  BY EmptySeq
<1>2. PICK f : Passes(f, s, <<>>, 0) /\ Run(s, <<>>) = f[0]
  BY <1>1, RunPasses
<1>3. \A n \in 0 .. 0 : f[n] = Passed(s, <<>>, n, f[n - 1])
  <2>1. 0 \in Nat
    OBVIOUS
  <2>2. Passes(f, s, <<>>, 0)
    BY <1>2, Zenon
  <2> QED BY <2>1, <2>2, PassesAt
<1>4. f[0] = Passed(s, <<>>, 0, f[0 - 1])
  BY <1>1, <1>3
<1> QED BY <1>2, <1>4 DEF Passed

\* One rune more.
LEMMA RunAppend ==
    ASSUME NEW s, NEW C, NEW u \in Seq(C), NEW c \in C
    PROVE  Run(s, Append(u, c)) = ScanRune(Run(s, u), c)
<1> DEFINE t == Append(u, c)
<1>1. /\ t \in Seq(C) /\ Len(t) = Len(u) + 1 /\ Len(u) \in Nat
      /\ t[Len(u) + 1] = c /\ \A n \in 1 .. Len(u) : t[n] = u[n]
  BY AppendProperties, LenProperties
<1> HIDE DEF t
<1>a. PICK k \in Nat : k = Len(u)
  BY <1>1
<1>b. PICK m \in Nat : m = k + 1
  OBVIOUS
<1>c. m = Len(t) /\ t[m] = c /\ \A n \in 1 .. k : t[n] = u[n]
  BY <1>1, <1>a, <1>b
<1>2. PICK f : Passes(f, s, t, m) /\ Run(s, t) = f[m]
  BY <1>1, <1>c, RunPasses
<1>3. PICK g : Passes(g, s, u, k) /\ Run(s, u) = g[k]
  BY <1>a, RunPasses
<1>4. k <= m /\ m \in 0 .. m /\ m # 0 /\ m - 1 = k /\ k \in 0 .. k
  BY <1>b
<1>5. f[k] = g[k]
  <2>1. Agree(t, u, k)
    BY <1>c DEF Agree
  <2>2. k \in 0 .. m
    BY <1>4
  <2> QED BY <1>2, <1>3, <2>1, <2>2, PassesOne
<1>6. \A n \in 0 .. m : f[n] = Passed(s, t, n, f[n - 1])
  BY <1>2, PassesAt
<1>7. f[m] = ScanRune(f[k], t[m])
  BY <1>4, <1>6 DEF Passed
<1>8. Run(s, t) = ScanRune(Run(s, u), c)
  BY <1>c, <1>2, <1>3, <1>4, <1>5, <1>7
<1> QED BY <1>8 DEF t

\* Appending and joining.
LEMMA AppendJoin ==
    ASSUME NEW C, NEW u \in Seq(C), NEW v \in Seq(C), NEW c \in C
    PROVE  u \o Append(v, c) = Append(u \o v, c)
BY AppendIsConcat, ConcatAssociative, ConcatProperties

\* A text after another.
LEMMA RunConcat ==
    ASSUME NEW s, NEW C, NEW u \in Seq(C), NEW v \in Seq(C)
    PROVE  Run(s, u \o v) = Run(Run(s, u), v)
<1> DEFINE S == {w \in Seq(C) : Run(s, u \o w) = Run(Run(s, u), w)}
<1>1. <<>> \in S
  BY RunEmpty, ConcatEmptySeq, EmptySeq
<1>2. ASSUME NEW w \in Seq(C), NEW c \in C, w \in S PROVE Append(w, c) \in S
  <2>1. u \o Append(w, c) = Append(u \o w, c) /\ u \o w \in Seq(C) /\ Append(w, c) \in Seq(C)
    BY AppendJoin, ConcatProperties, AppendProperties
  <2>2. Run(s, Append(u \o w, c)) = ScanRune(Run(s, u \o w), c)
    BY <2>1, RunAppend, ZenonT(60)
  <2>3. Run(Run(s, u), Append(w, c)) = ScanRune(Run(Run(s, u), w), c)
    BY RunAppend
  <2>4. Run(s, u \o w) = Run(Run(s, u), w)
    BY <1>2
  <2>5. Run(s, u \o Append(w, c)) = Run(Run(s, u), Append(w, c))
    BY <2>1, <2>2, <2>3, <2>4, Zenon
  <2> QED BY <2>1, <2>5
<1>3. Seq(C) \subseteq S
  <2> HIDE DEF S
  <2> QED BY <1>1, <1>2, InductSeq
<1> QED BY <1>3

-----------------------------------------------------------------------------
(* The automaton. *)

Kinds == {"SPACE", "FIELD", "NEG", "WILDCARD", "STR", "STRQ"}

Lexeme == [kind : Kinds, value : Text]

Scanner == [tokens : Seq(Lexeme), mode : {"scan", "string", "quoted", "escape"}, value : Text,
            delim : {"", "\"", "'"}]

\* A state that the automaton is in: between two tokens it keeps nothing.
Scanning(s) ==
    /\ s \in Scanner
    /\ s.mode = "scan" => s.value = <<>> /\ s.delim = ""
    /\ s.mode = "string" => s.delim = ""

\* The same after other tokens.
Behind(T, s) == [s EXCEPT !.tokens = T \o @]

LEMMA StartScanning == Scanning(Start)
<1>1. <<>> \in Seq(Lexeme) /\ <<>> \in Text
  BY DEF Text
<1> QED BY <1>1 DEF Scanning, Start, Scanner

LEMMA EmitScanning ==
    ASSUME NEW s, Scanning(s), NEW k \in Kinds
    PROVE  /\ Scanning(Emit(s, k)) /\ Emit(s, k).mode = "scan"
           /\ Emit(s, k).tokens = Append(s.tokens, Token(k, s.value))
<1>1. s \in Scanner /\ s.value \in Text /\ s.tokens \in Seq(Lexeme)
  BY DEF Scanning, Scanner
<1>2. Token(k, s.value) \in Lexeme
  BY <1>1 DEF Token, Lexeme
<1>3. Append(s.tokens, Token(k, s.value)) \in Seq(Lexeme) /\ <<>> \in Text
  BY <1>1, <1>2, AppendProperties DEF Text
<1> QED BY <1>1, <1>3 DEF Scanning, Scanner, Emit

LEMMA FlushScanning ==
    ASSUME NEW s, Scanning(s), s.mode \in {"scan", "string"}
    PROVE  Scanning(Flush(s)) /\ Flush(s).mode = "scan"
BY EmitScanning DEF Flush, Kinds

LEMMA BeginScanning ==
    ASSUME NEW s, Scanning(s), s.mode = "scan", NEW c \in Runes
    PROVE  Scanning(BeginToken(s, c))
<1>1. s \in Scanner /\ s.tokens \in Seq(Lexeme) /\ s.value = <<>> /\ s.delim = ""
  BY DEF Scanning, Scanner
<1>2. <<c>> \in Text /\ <<" ">> \in Text /\ <<>> \in Text
  BY RuneFacts
<1>3. \A k \in Kinds : \A v \in Text : Append(s.tokens, Token(k, v)) \in Seq(Lexeme)
  BY <1>1, AppendProperties DEF Token, Lexeme
<1>4. CASE c \in {"-", ":", "*"} \cup Spaces
  <2>1. PICK k \in Kinds, v \in Text : BeginToken(s, c) = [s EXCEPT !.tokens = Append(@, Token(k, v))]
    BY <1>2, <1>4 DEF BeginToken, Spaces, Kinds
  <2> QED BY <1>1, <1>3, <2>1 DEF Scanning, Scanner
<1>5. CASE c \in {"\"", "'"}
  BY <1>1, <1>2, <1>5 DEF Scanning, Scanner, BeginToken, Spaces
<1>6. CASE c \notin {"-", ":", "*", "\"", "'"} \cup Spaces
  BY <1>1, <1>2, <1>6 DEF Scanning, Scanner, BeginToken, Spaces
<1> QED BY <1>4, <1>5, <1>6

\* What the automaton does with a rune, mode by mode.
LEMMA InEscape ==
    ASSUME NEW s, NEW c, s.mode = "escape"
    PROVE  ScanRune(s, c) = [s EXCEPT !.mode = "quoted",
               !.value = @ \o (IF c \in {s.delim, "\\"} THEN <<c>> ELSE <<"\\", c>>)]
BY DEF ScanRune

LEMMA InQuoted ==
    ASSUME NEW s, NEW c, Scanning(s), s.mode = "quoted"
    PROVE  /\ c = "\\" => ScanRune(s, c) = [s EXCEPT !.mode = "escape"]
           /\ c = s.delim => ScanRune(s, c) = Emit(s, "STRQ")
           /\ c \notin {"\\", s.delim} =>
                 ScanRune(s, c) = [s EXCEPT !.value = Append(@, IF c \in Spaces THEN " " ELSE c)]
<1>1. s.delim # "\\"
  BY DEF Scanning, Scanner
<1> QED BY <1>1 DEF ScanRune

LEMMA InString ==
    ASSUME NEW s, NEW c, s.mode = "string", c \notin Spaces \cup {":", "*"}
    PROVE  ScanRune(s, c) = [s EXCEPT !.value = Append(@, c)]
BY DEF ScanRune

LEMMA InBegin ==
    ASSUME NEW s, NEW c, s.mode = "scan" \/ (s.mode = "string" /\ c \in Spaces \cup {":", "*"})
    PROVE  ScanRune(s, c) = BeginToken(Flush(s), c)
BY DEF ScanRune

LEMMA RuneCases ==
    ASSUME NEW s, NEW c, Scanning(s)
    PROVE  \/ s.mode = "escape" \/ s.mode = "quoted"
           \/ (s.mode = "string" /\ c \notin Spaces \cup {":", "*"})
           \/ s.mode = "scan" \/ (s.mode = "string" /\ c \in Spaces \cup {":", "*"})
<1>1. s.mode \in {"scan", "string", "quoted", "escape"}
  BY DEF Scanning, Scanner
<1>2. s.mode = "scan" \/ s.mode = "string" \/ s.mode = "quoted" \/ s.mode = "escape"
  BY <1>1
<1>3. c \in Spaces \cup {":", "*"} \/ c \notin Spaces \cup {":", "*"}
  OBVIOUS
<1> QED BY <1>2, <1>3, Zenon

LEMMA RuneScanning ==
    ASSUME NEW s, Scanning(s), NEW c \in Runes
    PROVE  Scanning(ScanRune(s, c))
<1>1. s \in Scanner /\ s.value \in Text /\ s.tokens \in Seq(Lexeme)
  BY DEF Scanning, Scanner
<1>2. CASE s.mode = "escape"
  <2>1. PICK w \in Text : w = IF c \in {s.delim, "\\"} THEN <<c>> ELSE <<"\\", c>>
    <3>1. <<c>> \in Text /\ <<"\\", c>> \in Text
      BY RuneFacts
    <3> QED BY <3>1
  <2>2. s.value \o w \in Text
    BY <1>1, <2>1, ConcatProperties DEF Text
  <2>3. ScanRune(s, c) = [s EXCEPT !.mode = "quoted", !.value = @ \o w]
    BY <1>2, <2>1, InEscape
  <2> QED BY <1>1, <2>2, <2>3 DEF Scanning, Scanner
<1>3. CASE s.mode = "quoted"
  <2>1. CASE c = "\\"
    <3>1. ScanRune(s, c) = [s EXCEPT !.mode = "escape"]
      BY <1>3, <2>1, InQuoted
    <3> QED BY <1>1, <3>1 DEF Scanning, Scanner
  <2>2. CASE c = s.delim
    <3>1. ScanRune(s, c) = Emit(s, "STRQ") /\ "STRQ" \in Kinds
      BY <1>3, <2>2, InQuoted DEF Kinds
    <3> QED BY <3>1, EmitScanning
  <2>3. CASE c \notin {"\\", s.delim}
    <3>1. PICK d \in Runes : d = IF c \in Spaces THEN " " ELSE c
      BY RuneFacts
    <3>2. Append(s.value, d) \in Text
      BY <1>1, AppendProperties DEF Text
    <3>3. ScanRune(s, c) = [s EXCEPT !.value = Append(@, d)]
      BY <1>3, <2>3, <3>1, InQuoted
    <3> QED BY <1>1, <1>3, <3>2, <3>3 DEF Scanning, Scanner
  <2> QED BY <2>1, <2>2, <2>3
<1>4. CASE s.mode = "string" /\ c \notin Spaces \cup {":", "*"}
  <2>1. Append(s.value, c) \in Text
    BY <1>1, AppendProperties DEF Text
  <2>2. ScanRune(s, c) = [s EXCEPT !.value = Append(@, c)]
    BY <1>4, InString
  <2> QED BY <1>1, <1>4, <2>1, <2>2 DEF Scanning, Scanner
<1>5. CASE s.mode = "scan" \/ (s.mode = "string" /\ c \in Spaces \cup {":", "*"})
  <2>1. Scanning(Flush(s)) /\ Flush(s).mode = "scan"
    BY <1>5, FlushScanning
  <2> QED BY <1>5, <2>1, BeginScanning, InBegin
<1> QED BY <1>2, <1>3, <1>4, <1>5, RuneCases

\* The automaton after a text, from the beginning.
State(u) == Run(Start, u)

LEMMA RunScanning ==
    ASSUME NEW s, Scanning(s), NEW u \in Text
    PROVE  Scanning(Run(s, u))
<1> DEFINE S == {w \in Text : Scanning(Run(s, w))}
<1>1. <<>> \in S
  BY RunEmpty DEF Text
<1>2. ASSUME NEW w \in Seq(Runes), NEW c \in Runes, w \in S PROVE Append(w, c) \in S
  BY <1>2, RunAppend, RuneScanning, AppendProperties DEF Text
<1>3. Seq(Runes) \subseteq S
  <2> HIDE DEF S
  <2> QED BY <1>1, <1>2, InductSeq
<1> QED BY <1>3 DEF Text

-----------------------------------------------------------------------------
(* What comes before does not matter between two tokens. *)

LEMMA BehindScanning ==
    ASSUME NEW T \in Seq(Lexeme), NEW s, Scanning(s)
    PROVE  /\ Scanning(Behind(T, s)) /\ Behind(T, s).mode = s.mode /\ Behind(T, s).value = s.value
           /\ Behind(T, s).delim = s.delim /\ Behind(T, s).tokens = T \o s.tokens
<1>1. s \in Scanner /\ s.tokens \in Seq(Lexeme)
  BY DEF Scanning, Scanner
<1>2. T \o s.tokens \in Seq(Lexeme)
  BY <1>1, ConcatProperties
<1> QED BY <1>1, <1>2 DEF Scanning, Scanner, Behind

LEMMA EmitBehind ==
    ASSUME NEW T \in Seq(Lexeme), NEW s, Scanning(s), NEW k \in Kinds
    PROVE  Emit(Behind(T, s), k) = Behind(T, Emit(s, k))
<1>1. s \in Scanner /\ s.value \in Text /\ s.tokens \in Seq(Lexeme)
  BY DEF Scanning, Scanner
<1>2. Token(k, s.value) \in Lexeme
  BY <1>1 DEF Token, Lexeme
<1>3. T \o Append(s.tokens, Token(k, s.value)) = Append(T \o s.tokens, Token(k, s.value))
  BY <1>1, <1>2, AppendJoin
<1> QED BY <1>1, <1>3 DEF Scanner, Behind, Emit

LEMMA FlushBehind ==
    ASSUME NEW T \in Seq(Lexeme), NEW s, Scanning(s)
    PROVE  Flush(Behind(T, s)) = Behind(T, Flush(s))
<1>1. "STR" \in Kinds
  BY DEF Kinds
<1>2. Behind(T, s).mode = s.mode /\ Emit(Behind(T, s), "STR") = Behind(T, Emit(s, "STR"))
  BY <1>1, EmitBehind, BehindScanning
<1> QED BY <1>2, Zenon DEF Flush

LEMMA BeginBehind ==
    ASSUME NEW T \in Seq(Lexeme), NEW s, Scanning(s), NEW c \in Runes
    PROVE  BeginToken(Behind(T, s), c) = Behind(T, BeginToken(s, c))
<1>1. s \in Scanner /\ s.tokens \in Seq(Lexeme)
  BY DEF Scanning, Scanner
<1>2. <<c>> \in Text /\ <<" ">> \in Text
  BY RuneFacts
<1>3. \A k \in Kinds : \A v \in Text :
         T \o Append(s.tokens, Token(k, v)) = Append(T \o s.tokens, Token(k, v))
  BY <1>1, AppendJoin, SMTT(30) DEF Token, Lexeme
<1>4. CASE c \in {"-", ":", "*"} \cup Spaces
  <2>1. PICK k \in Kinds, v \in Text :
           /\ BeginToken(s, c) = [s EXCEPT !.tokens = Append(@, Token(k, v))]
           /\ BeginToken(Behind(T, s), c) = [Behind(T, s) EXCEPT !.tokens = Append(@, Token(k, v))]
    BY <1>2, <1>4 DEF BeginToken, Spaces, Kinds
  <2>2. PICK x : x = Token(k, v) /\ T \o Append(s.tokens, x) = Append(T \o s.tokens, x)
    BY <1>3
  <2>3. /\ BeginToken(s, c) = [s EXCEPT !.tokens = Append(@, x)]
        /\ BeginToken(Behind(T, s), c) = [Behind(T, s) EXCEPT !.tokens = Append(@, x)]
    BY <2>1, <2>2
  <2> QED BY <1>1, <2>2, <2>3 DEF Scanner, Behind
<1>5. CASE c \in {"\"", "'"}
  BY <1>1, <1>2, <1>5 DEF Scanner, Behind, BeginToken, Spaces
<1>6. CASE c \notin {"-", ":", "*", "\"", "'"} \cup Spaces
  BY <1>1, <1>2, <1>6 DEF Scanner, Behind, BeginToken, Spaces
<1> QED BY <1>4, <1>5, <1>6

LEMMA RuneBehind ==
    ASSUME NEW T \in Seq(Lexeme), NEW s, Scanning(s), NEW c \in Runes
    PROVE  ScanRune(Behind(T, s), c) = Behind(T, ScanRune(s, c))
<1> DEFINE b == Behind(T, s)
<1>1. s \in Scanner /\ s.value \in Text /\ s.tokens \in Seq(Lexeme)
  BY DEF Scanning, Scanner
<1>2. Scanning(b) /\ b.mode = s.mode /\ b.value = s.value /\ b.delim = s.delim
  BY BehindScanning
<1>3. CASE s.mode = "escape"
  <2>1. PICK w \in Text : w = IF c \in {s.delim, "\\"} THEN <<c>> ELSE <<"\\", c>>
    <3>1. <<c>> \in Text /\ <<"\\", c>> \in Text
      BY RuneFacts
    <3> QED BY <3>1
  <2>2. ScanRune(s, c) = [s EXCEPT !.mode = "quoted", !.value = @ \o w]
    BY <1>3, <2>1, InEscape
  <2>3. ScanRune(b, c) = [b EXCEPT !.mode = "quoted", !.value = @ \o w]
    <3> HIDE DEF b
    <3>1. b.mode = "escape" /\ w = IF c \in {b.delim, "\\"} THEN <<c>> ELSE <<"\\", c>>
      BY <1>2, <1>3, <2>1
    <3> QED BY <3>1, InEscape
  <2> QED BY <1>1, <2>2, <2>3 DEF Behind, Scanner
<1>4. CASE s.mode = "quoted"
  <2>0. b.mode = "quoted"
    BY <1>2, <1>4
  <2>1. CASE c = "\\"
    <3>1. ScanRune(s, c) = [s EXCEPT !.mode = "escape"]
      BY <1>4, <2>1, InQuoted
    <3>2. ScanRune(b, c) = [b EXCEPT !.mode = "escape"]
      <4> HIDE DEF b
      <4> QED BY <1>2, <2>0, <2>1, InQuoted
    <3> QED BY <1>1, <3>1, <3>2 DEF Behind, Scanner
  <2>2. CASE c = s.delim
    <3>1. ScanRune(s, c) = Emit(s, "STRQ") /\ "STRQ" \in Kinds
      BY <1>4, <2>2, InQuoted DEF Kinds
    <3>2. ScanRune(b, c) = Emit(b, "STRQ")
      <4> HIDE DEF b
      <4> QED BY <1>2, <2>0, <2>2, InQuoted
    <3> QED BY <3>1, <3>2, EmitBehind
  <2>3. CASE c \notin {"\\", s.delim}
    <3>1. PICK d \in Runes : d = IF c \in Spaces THEN " " ELSE c
      BY RuneFacts
    <3>2. ScanRune(s, c) = [s EXCEPT !.value = Append(@, d)]
      BY <1>4, <2>3, <3>1, InQuoted
    <3>3. ScanRune(b, c) = [b EXCEPT !.value = Append(@, d)]
      <4> HIDE DEF b
      <4> QED BY <1>2, <2>0, <2>3, <3>1, InQuoted
    <3> QED BY <1>1, <3>2, <3>3 DEF Behind, Scanner
  <2> QED BY <2>1, <2>2, <2>3
<1>5. CASE s.mode = "string" /\ c \notin Spaces \cup {":", "*"}
  <2>1. ScanRune(s, c) = [s EXCEPT !.value = Append(@, c)]
    BY <1>5, InString
  <2>2. ScanRune(b, c) = [b EXCEPT !.value = Append(@, c)]
    <3> HIDE DEF b
    <3> QED BY <1>2, <1>5, InString
  <2> QED BY <1>1, <2>1, <2>2 DEF Behind, Scanner
<1>6. CASE s.mode = "scan" \/ (s.mode = "string" /\ c \in Spaces \cup {":", "*"})
  <2>1. ScanRune(s, c) = BeginToken(Flush(s), c)
    BY <1>6, InBegin
  <2>2. ScanRune(b, c) = BeginToken(Flush(b), c)
    <3> HIDE DEF b
    <3> QED BY <1>2, <1>6, InBegin
  <2>3. Flush(b) = Behind(T, Flush(s)) /\ Scanning(Flush(s))
    BY <1>6, FlushBehind, FlushScanning
  <2>4. BeginToken(Behind(T, Flush(s)), c) = Behind(T, BeginToken(Flush(s), c))
    BY <2>3, BeginBehind
  <2> QED BY <2>1, <2>2, <2>3, <2>4
<1> QED BY <1>3, <1>4, <1>5, <1>6, RuneCases

LEMMA RunBehind ==
    ASSUME NEW T \in Seq(Lexeme), NEW s, Scanning(s), NEW u \in Text
    PROVE  Run(Behind(T, s), u) = Behind(T, Run(s, u))
<1> DEFINE S == {w \in Text : Run(Behind(T, s), w) = Behind(T, Run(s, w))}
<1>1. <<>> \in S
  BY RunEmpty DEF Text
<1>2. ASSUME NEW w \in Seq(Runes), NEW c \in Runes, w \in S PROVE Append(w, c) \in S
  <2>1. Run(Behind(T, s), Append(w, c)) = ScanRune(Run(Behind(T, s), w), c)
        /\ Run(s, Append(w, c)) = ScanRune(Run(s, w), c)
    BY RunAppend
  <2>2. Run(Behind(T, s), w) = Behind(T, Run(s, w))
    BY <1>2
  <2>3. Scanning(Run(s, w))
    BY RunScanning DEF Text
  <2>4. ScanRune(Behind(T, Run(s, w)), c) = Behind(T, ScanRune(Run(s, w), c))
    BY <2>3, RuneBehind
  <2>5. Run(Behind(T, s), Append(w, c)) = Behind(T, Run(s, Append(w, c)))
    BY <2>1, <2>2, <2>4, Zenon
  <2> QED BY <2>5, AppendProperties DEF Text
<1>3. Seq(Runes) \subseteq S
  <2> HIDE DEF S
  <2> QED BY <1>1, <1>2, InductSeq
<1> QED BY <1>3 DEF Text

-----------------------------------------------------------------------------
(* Two texts, one after the other. *)

LEMMA EndBehind ==
    ASSUME NEW T \in Seq(Lexeme), NEW s, Scanning(s)
    PROVE  /\ ScanEnd(Behind(T, s)).tokens = T \o ScanEnd(s).tokens
           /\ ScanEnd(s).tokens \in Seq(Lexeme)
<1> DEFINE b == Behind(T, s)
           Closed(x) == [x EXCEPT !.value = @ \o <<"\\", NUL>>]
<1>1. s \in Scanner /\ s.value \in Text /\ s.tokens \in Seq(Lexeme)
  BY DEF Scanning, Scanner
<1>2. Scanning(b) /\ b.mode = s.mode /\ b.value = s.value
  BY BehindScanning
<1>3. "STRQ" \in Kinds /\ "STR" \in Kinds
  BY DEF Kinds
<1>a. \A e : Scanning(e) => Behind(T, e).tokens = T \o e.tokens /\ e.tokens \in Seq(Lexeme)
  BY BehindScanning DEF Scanning, Scanner
<1>4. CASE s.mode = "escape"
  <2>1. Scanning(Closed(s))
    <3>1. s.value \o <<"\\", NUL>> \in Text
      <4>1. <<"\\", NUL>> \in Text
        BY RuneFacts DEF NUL
      <4> QED BY <1>1, <4>1, ConcatProperties DEF Text
    <3> QED BY <1>1, <1>4, <3>1 DEF Scanning, Scanner
  <2>2. Closed(b) = Behind(T, Closed(s))
    BY <1>1, <1>2 DEF Behind, Scanner
  <2>3. ScanEnd(s) = Emit(Closed(s), "STRQ") /\ ScanEnd(b) = Emit(Closed(b), "STRQ")
    <3> HIDE DEF b
    <3> QED BY <1>2, <1>4 DEF ScanEnd
  <2>4. ScanEnd(b) = Behind(T, Emit(Closed(s), "STRQ")) /\ Scanning(Emit(Closed(s), "STRQ"))
    <3> HIDE DEF b, Closed
    <3> QED BY <1>3, <2>1, <2>2, <2>3, EmitBehind, EmitScanning
  <2> HIDE DEF b, Closed
  <2> QED BY <1>a, <2>3, <2>4 DEF b
<1>5. CASE s.mode = "quoted"
  <2>1. ScanEnd(s) = Emit(s, "STRQ") /\ ScanEnd(b) = Emit(b, "STRQ")
    <3> HIDE DEF b
    <3> QED BY <1>2, <1>5 DEF ScanEnd
  <2>2. Emit(b, "STRQ") = Behind(T, Emit(s, "STRQ")) /\ Scanning(Emit(s, "STRQ"))
    BY <1>3, EmitBehind, EmitScanning
  <2> QED BY <1>a, <2>1, <2>2
<1>6. CASE s.mode \notin {"escape", "quoted"}
  <2>1. ScanEnd(s) = Flush(s) /\ ScanEnd(b) = Flush(b)
    <3> HIDE DEF b
    <3> QED BY <1>2, <1>6 DEF ScanEnd
  <2>2. Flush(b) = Behind(T, Flush(s))
    BY FlushBehind
  <2>3. Scanning(Flush(s))
    BY <1>3, EmitScanning DEF Flush
  <2> QED BY <1>a, <2>1, <2>2, <2>3
<1> QED BY <1>4, <1>5, <1>6

LEMMA ScanIsOfTokens ==
    ASSUME NEW u \in Text
    PROVE  Scan(u) \in Seq(Lexeme) /\ Scan(u) = ScanEnd(State(u)).tokens /\ Scanning(State(u))
<1>1. Scanning(State(u))
  BY StartScanning, RunScanning DEF State
<1>2. <<>> \in Seq(Lexeme)
  OBVIOUS
<1> QED BY <1>1, <1>2, EndBehind DEF Scan, State

\* A state is what its fields are.
LEMMA StateFields ==
    ASSUME NEW s \in Scanner
    PROVE  s = [tokens |-> s.tokens, mode |-> s.mode, value |-> s.value, delim |-> s.delim]
BY DEF Scanner

LEMMA SameState ==
    ASSUME NEW s \in Scanner, NEW b \in Scanner,
           s.tokens = b.tokens, s.mode = b.mode, s.value = b.value, s.delim = b.delim
    PROVE  s = b
BY StateFields

\* From a state between two tokens it goes on as from the beginning.
LEMMA FromScan ==
    ASSUME NEW s, Scanning(s), s.mode = "scan", NEW v \in Text
    PROVE  /\ ScanEnd(Run(s, v)).tokens = s.tokens \o Scan(v)
           /\ Run(s, v).mode = State(v).mode
<1>1. s \in Scanner /\ s.tokens \in Seq(Lexeme) /\ s.value = <<>> /\ s.delim = ""
  BY DEF Scanning, Scanner
<1>2. s.tokens \o <<>> = s.tokens
  BY <1>1, ConcatEmptySeq
<1>3. s = Behind(s.tokens, Start)
  <2>1. PICK T \in Seq(Lexeme) : T = s.tokens /\ T \o <<>> = T
    BY <1>1, <1>2
  <2>2. PICK b : b = Behind(T, Start)
    OBVIOUS
  <2>3. Scanning(b) /\ b.mode = Start.mode /\ b.value = Start.value /\ b.delim = Start.delim
        /\ b.tokens = T \o Start.tokens
    BY <2>2, StartScanning, BehindScanning
  <2>4. Start.mode = "scan" /\ Start.value = <<>> /\ Start.delim = "" /\ Start.tokens = <<>>
    BY DEF Start
  <2>5. b \in Scanner /\ b.tokens = T
    BY <2>1, <2>3, <2>4 DEF Scanning
  <2>6. s = b
    BY <1>1, <2>1, <2>3, <2>4, <2>5, SameState
  <2> QED BY <2>1, <2>2, <2>6
<1>4. PICK T \in Seq(Lexeme) : T = s.tokens /\ s = Behind(T, Start)
  BY <1>1, <1>3
<1>5. Run(s, v) = Behind(T, State(v)) /\ Scanning(State(v))
  BY <1>4, StartScanning, RunBehind, RunScanning DEF State
<1>6. ScanEnd(Behind(T, State(v))).tokens = T \o ScanEnd(State(v)).tokens
      /\ Behind(T, State(v)).mode = State(v).mode
  BY <1>5, EndBehind, BehindScanning, Zenon
<1> QED BY <1>4, <1>5, <1>6 DEF Scan, State

\* A string ends before what v begins with, or with the text.
Opens(v) == v = <<>> \/ v[1] \in Spaces \cup {":", "*"}

Splits(u, v) == State(u).mode = "scan" \/ (State(u).mode = "string" /\ Opens(v))

LEMMA FirstRest ==
    ASSUME NEW C, NEW v \in Seq(C), v # <<>>
    PROVE  v[1] \in C /\ \E w \in Seq(C) : v = <<v[1]>> \o w /\ w = Tail(v)
<1>1. Head(v) = v[1] /\ v[1] \in C /\ Tail(v) \in Seq(C) /\ Len(v) \in Nat \ {0} /\ Len(Tail(v)) = Len(v) - 1
      /\ \A i \in 1 .. Len(Tail(v)) : Tail(v)[i] = v[i + 1]
  BY HeadTailProperties, LenProperties, EmptySeq
<1> DEFINE w == Tail(v)
           t == <<v[1]>> \o w
<1>2. <<v[1]>> \in Seq(C) /\ Len(<<v[1]>>) = 1 /\ <<v[1]>>[1] = v[1]
  BY <1>1
<1>3. /\ t \in Seq(C) /\ Len(t) = 1 + Len(w)
      /\ \A i \in 1 .. Len(t) : t[i] = IF i <= 1 THEN <<v[1]>>[i] ELSE w[i - 1]
  BY <1>1, <1>2, ConcatProperties
<1>4. \A i \in 1 .. Len(v) : t[i] = v[i]
  <2> HIDE DEF t
  <2> QED BY <1>1, <1>2, <1>3
<1>5. t = v
  <2> HIDE DEF t
  <2> QED BY <1>1, <1>3, <1>4, SeqEqual
<1> QED BY <1>1, <1>5

LEMMA MeetScan ==
    ASSUME NEW u \in Text, NEW v \in Text, Splits(u, v)
    PROVE  Scan(u \o v) = Scan(u) \o Scan(v) /\ (v # <<>> => State(u \o v).mode = State(v).mode)
<1> DEFINE s == State(u)
<1>1. Scanning(s) /\ State(u \o v) = Run(s, v) /\ Scan(u \o v) = ScanEnd(Run(s, v)).tokens
      /\ Scan(u) = ScanEnd(s).tokens
  BY StartScanning, RunScanning, RunConcat DEF State, Scan, Text
<1> HIDE DEF s
<1>2. CASE s.mode = "scan"
  <2>1. ScanEnd(s) = s
    BY <1>2 DEF ScanEnd, Flush
  <2> QED BY <1>1, <1>2, <2>1, FromScan
<1>3. CASE s.mode = "string" /\ v = <<>>
  <2>1. Run(s, v) = s /\ Scan(v) = <<>>
    <3>1. ScanEnd(Start).tokens = <<>>
      BY DEF ScanEnd, Start, Flush
    <3> QED BY <1>3, <3>1, RunEmpty DEF Scan
  <2>2. Scan(u) \o <<>> = Scan(u)
    BY ScanIsOfTokens, ConcatEmptySeq
  <2> QED BY <1>1, <1>3, <2>1, <2>2
<1>4. CASE s.mode = "string" /\ v # <<>>
  <2>1. v[1] \in Spaces \cup {":", "*"}
    BY <1>4 DEF Splits, Opens, s
  <2>2. PICK c \in Runes, w \in Text : v = <<c>> \o w /\ c = v[1]
    BY <1>4, FirstRest DEF Text
  <2> DEFINE F == Flush(s)
  <2>3. Scanning(F) /\ F.mode = "scan" /\ ScanEnd(s) = F
    BY <1>1, <1>4, FlushScanning DEF ScanEnd
  <2> HIDE DEF F
  <2>4. ScanRune(s, c) = ScanRune(F, c)
    <3>1. ScanRune(s, c) = BeginToken(Flush(s), c)
      BY <1>4, <2>1, <2>2, InBegin
    <3>2. ScanRune(F, c) = BeginToken(Flush(F), c)
      BY <2>3, InBegin
    <3>3. Flush(F) = F
      BY <2>3 DEF Flush
    <3> QED BY <3>1, <3>2, <3>3 DEF F
  <2>5. \A x : Run(x, v) = Run(ScanRune(x, c), w)
    <3>1. TAKE x
    <3>2. <<c>> = Append(<<>>, c) /\ <<c>> \in Seq(Runes) /\ <<>> \in Seq(Runes) /\ w \in Seq(Runes)
      BY DEF Text
    <3>3. Run(x, <<c>>) = ScanRune(x, c)
      <4>1. Run(x, Append(<<>>, c)) = ScanRune(Run(x, <<>>), c)
        BY <3>2, RunAppend, ZenonT(60)
      <4>2. Run(x, <<>>) = x
        BY RunEmpty, Zenon
      <4> QED BY <3>2, <4>1, <4>2, Zenon
    <3>4. Run(x, <<c>> \o w) = Run(Run(x, <<c>>), w)
      <4>1. PICK d \in Seq(Runes) : d = <<c>>
        BY <3>2
      <4>2. Run(x, d \o w) = Run(Run(x, d), w)
        <5>1. d \in Seq(Runes) /\ w \in Seq(Runes)
          BY <3>2
        <5> QED BY <5>1, RunConcat
      <4> QED BY <4>1, <4>2
    <3> QED BY <2>2, <3>3, <3>4
  <2>6. Run(s, v) = Run(F, v)
    BY <2>4, <2>5
  <2>7. ScanEnd(Run(F, v)).tokens = F.tokens \o Scan(v) /\ Run(F, v).mode = State(v).mode
    BY <2>3, FromScan
  <2> QED BY <1>1, <2>3, <2>6, <2>7
<1> QED BY <1>2, <1>3, <1>4 DEF Splits, s

-----------------------------------------------------------------------------
(* A text without quotations is what its tokens join to. *)

LEMMA FlattenAppend ==
    ASSUME NEW C, NEW ss \in Seq(Seq(C)), NEW x \in Seq(C)
    PROVE  FlattenSeq(Append(ss, x)) = FlattenSeq(ss) \o x
<1>1. PICK t \in Seq(Seq(C)) : t = Append(ss, x)
  BY AppendProperties
<1>2. PICK n \in Nat : n = Len(ss)
  BY LenProperties
<1>3. Len(t) = n + 1 /\ t[n + 1] = x /\ \A i \in 1 .. n : t[i] = ss[i]
  BY <1>1, <1>2, AppendProperties
<1>4. n \in 0 .. Len(t) - 1
  BY <1>3
<1>5. FlattenSeq(Upto(t, n + 1)) = FlattenSeq(Upto(t, n)) \o x
  BY <1>3, <1>4, FlattenStep
<1>6. Upto(t, n + 1) = t /\ Upto(t, n) = ss
  <2>1. Upto(t, n + 1) = t
    BY <1>3, UptoEnds
  <2>2. Upto(t, n) = Upto(ss, n)
    BY <1>3, Zenon DEF Upto
  <2>3. Upto(ss, n) = ss
    BY <1>2, UptoEnds
  <2> QED BY <2>1, <2>2, <2>3
<1> QED BY <1>1, <1>5, <1>6

\* What tokens join to, token by token.
TheValues(ts) == [i \in DOMAIN ts |-> ts[i].value]

LEMMA TheValuesSeq ==
    ASSUME NEW ts \in Seq(Lexeme)
    PROVE  TheValues(ts) \in Seq(Text) /\ Len(TheValues(ts)) = Len(ts)
<1>1. DOMAIN ts = 1 .. Len(ts) /\ Len(ts) \in Nat
  BY LenProperties
<1>2. \A i \in 1 .. Len(ts) : ts[i].value \in Text
  <2>1. \A i \in 1 .. Len(ts) : ts[i] \in Lexeme
    BY ElementOfSeq
  <2>2. \A t \in Lexeme : t.value \in Text
    BY DEF Lexeme
  <2> QED BY <2>1, <2>2
<1> QED BY <1>1, <1>2 DEF TheValues

LEMMA ValuesType ==
    ASSUME NEW ts \in Seq(Lexeme)
    PROVE  ValuesOf(ts) \in Text /\ ValuesOf(ts) = FlattenSeq(TheValues(ts))
BY TheValuesSeq, FlattenType DEF ValuesOf, TheValues, Text

LEMMA ValuesEmpty == ValuesOf(<<>>) = <<>>
<1>1. TheValues(<<>>) = <<>>
  BY DEF TheValues
<1>2. <<>> \in Seq(Lexeme)
  OBVIOUS
<1> QED BY <1>1, <1>2, ValuesType, FlattenEmpty

LEMMA ValuesAppend ==
    ASSUME NEW ts \in Seq(Lexeme), NEW t \in Lexeme
    PROVE  ValuesOf(Append(ts, t)) = ValuesOf(ts) \o t.value
<1>1. PICK u \in Seq(Lexeme) : u = Append(ts, t)
  BY AppendProperties
<1>2. t.value \in Text
  BY DEF Lexeme
<1>3. TheValues(u) = Append(TheValues(ts), t.value)
  <2>1. PICK n \in Nat : n = Len(ts)
    BY LenProperties
  <2>2. Len(u) = n + 1 /\ u[n + 1] = t /\ \A i \in 1 .. n : u[i] = ts[i]
    BY <1>1, <2>1, AppendProperties
  <2>3. PICK a \in Seq(Text) : a = TheValues(u)
    BY TheValuesSeq
  <2>4. PICK b \in Seq(Text) : b = TheValues(ts)
    BY TheValuesSeq
  <2>5. PICK c \in Seq(Text) : c = Append(b, t.value)
    BY <1>2, AppendProperties
  <2>6. Len(a) = n + 1 /\ Len(b) = n /\ Len(c) = n + 1 /\ c[n + 1] = t.value /\ \A i \in 1 .. n : c[i] = b[i]
    BY <1>2, <2>1, <2>2, <2>3, <2>4, <2>5, TheValuesSeq, AppendProperties
  <2>7. DOMAIN u = 1 .. n + 1 /\ DOMAIN ts = 1 .. n
    BY <2>1, <2>2, LenProperties
  <2>8. (\A i \in 1 .. n + 1 : a[i] = u[i].value) /\ (\A i \in 1 .. n : b[i] = ts[i].value)
    BY <2>3, <2>4, <2>7 DEF TheValues
  <2>9. \A i \in 1 .. n + 1 : i \in 1 .. n \/ i = n + 1
    BY <2>1
  <2>10. \A i \in 1 .. n + 1 : a[i] = c[i]
    BY <2>2, <2>6, <2>8, <2>9
  <2>11. a = c
    BY <2>6, <2>10, SeqEqual
  <2> QED BY <2>3, <2>4, <2>5, <2>11
<1>4. FlattenSeq(Append(TheValues(ts), t.value)) = FlattenSeq(TheValues(ts)) \o t.value
  BY <1>2, TheValuesSeq, FlattenAppend DEF Text
<1> QED BY <1>1, <1>3, <1>4, ValuesType

Plain(s) == s.mode \in {"scan", "string"} /\ ~Quotes(s.tokens)

Joined(s) == ValuesOf(s.tokens) \o s.value

LEMMA QuotesAppend ==
    ASSUME NEW ts \in Seq(Lexeme), NEW t \in Lexeme
    PROVE  Quotes(Append(ts, t)) <=> Quotes(ts) \/ t.kind = "STRQ"
<1>1. PICK u \in Seq(Lexeme) : u = Append(ts, t)
  BY AppendProperties
<1>2. PICK n \in Nat : n = Len(ts)
  BY LenProperties
<1>3. Len(u) = n + 1 /\ u[n + 1] = t /\ \A i \in 1 .. n : u[i] = ts[i]
  BY <1>1, <1>2, AppendProperties
<1>4. DOMAIN u = 1 .. n + 1 /\ DOMAIN ts = 1 .. n
  BY <1>2, <1>3, LenProperties
<1>5. (\A i \in 1 .. n + 1 : i \in 1 .. n \/ i = n + 1) /\ (\A i \in 1 .. n : i \in 1 .. n + 1)
      /\ n + 1 \in 1 .. n + 1
  BY <1>2
<1>6. Quotes(u) => Quotes(ts) \/ t.kind = "STRQ"
  BY <1>3, <1>4, <1>5 DEF Quotes
<1>7. t.kind = "STRQ" => Quotes(u)
  BY <1>3, <1>4, <1>5 DEF Quotes
<1>8. Quotes(ts) => Quotes(u)
  BY <1>3, <1>4, <1>5 DEF Quotes
<1> QED BY <1>1, <1>6, <1>7, <1>8

\* What begins with a rune: a token that ends with it, a quotation or a string.
IsTokenOf(t, c) ==
    /\ \/ c = "-" /\ t.kind = "NEG"
       \/ c = ":" /\ t.kind = "FIELD"
       \/ c = "*" /\ t.kind = "WILDCARD"
       \/ c \in Spaces /\ t.kind = "SPACE"
    /\ t.value = IF c \in Spaces THEN <<" ">> ELSE <<c>>

MakesToken(s, c, r) ==
    /\ \E t \in Lexeme : r.tokens = Append(s.tokens, t) /\ IsTokenOf(t, c)
    /\ r.mode = "scan" /\ r.value = <<>>

BeginsQuotation(s, c, r) ==
    c \in {"\"", "'"} /\ r.mode = "quoted" /\ r.tokens = s.tokens /\ r.value = <<>> /\ r.delim = c

BeginsString(s, c, r) ==
    /\ c \notin {"-", ":", "*", "\"", "'"} \cup Spaces
    /\ r.mode = "string" /\ r.tokens = s.tokens /\ r.value = <<c>>

LEMMA TokenFacts ==
    ASSUME NEW k \in Kinds, NEW v \in Text
    PROVE  Token(k, v) \in Lexeme /\ Token(k, v).kind = k /\ Token(k, v).value = v
BY DEF Token, Lexeme

LEMMA BeginCases ==
    ASSUME NEW s, Scanning(s), s.mode = "scan", NEW c \in Runes
    PROVE  \/ MakesToken(s, c, BeginToken(s, c))
           \/ BeginsQuotation(s, c, BeginToken(s, c))
           \/ BeginsString(s, c, BeginToken(s, c))
<1>1. s \in Scanner /\ s.tokens \in Seq(Lexeme) /\ s.value = <<>> /\ s.delim = ""
  BY DEF Scanning, Scanner
<1>2. <<c>> \in Text /\ <<" ">> \in Text
  BY RuneFacts
<1>3. \A k \in Kinds : \A v \in Text : Token(k, v) \in Lexeme /\ Token(k, v).kind = k /\ Token(k, v).value = v
  BY TokenFacts
<1>4. CASE c \in {"-", ":", "*"}
  <2>1. c \notin Spaces
    BY <1>4 DEF Spaces
  <2>2. PICK k \in Kinds :
           /\ BeginToken(s, c) = [s EXCEPT !.tokens = Append(@, Token(k, <<c>>))]
           /\ \/ c = "-" /\ k = "NEG"
              \/ c = ":" /\ k = "FIELD"
              \/ c = "*" /\ k = "WILDCARD"
    BY <1>4 DEF BeginToken, Kinds, Spaces
  <2>3. PICK t \in Lexeme : t = Token(k, <<c>>) /\ t.kind = k /\ t.value = <<c>>
    BY <1>2, <1>3, ZenonT(60)
  <2>4. BeginToken(s, c) = [s EXCEPT !.tokens = Append(@, t)]
    BY <2>2, <2>3
  <2> QED BY <1>1, <2>1, <2>2, <2>3, <2>4 DEF Scanner, MakesToken, IsTokenOf
<1>5. CASE c \in Spaces
  <2>1. c \notin {"-", ":", "*", "\"", "'"}
    BY <1>5 DEF Spaces
  <2>2. "SPACE" \in Kinds
    BY DEF Kinds
  <2>3. PICK t \in Lexeme : t = Token("SPACE", <<" ">>) /\ t.kind = "SPACE" /\ t.value = <<" ">>
    BY <1>2, <1>3, <2>2, ZenonT(60)
  <2>4. BeginToken(s, c) = [s EXCEPT !.tokens = Append(@, t)]
    BY <1>5, <2>1, <2>3 DEF BeginToken
  <2> QED BY <1>1, <1>5, <2>3, <2>4 DEF Scanner, MakesToken, IsTokenOf
<1>6. CASE c \in {"\"", "'"}
  <2>1. BeginToken(s, c) = [s EXCEPT !.mode = "quoted", !.delim = c]
    BY <1>6 DEF BeginToken, Spaces
  <2> QED BY <1>1, <1>6, <2>1 DEF Scanner, BeginsQuotation
<1>7. CASE c \notin {"-", ":", "*", "\"", "'"} \cup Spaces
  <2>1. BeginToken(s, c) = [s EXCEPT !.mode = "string", !.value = <<c>>]
    BY <1>7 DEF BeginToken
  <2> QED BY <1>1, <1>7, <2>1 DEF Scanner, BeginsString
<1> QED BY <1>4, <1>5, <1>6, <1>7

LEMMA FlushJoined ==
    ASSUME NEW s, Scanning(s), s.mode \in {"scan", "string"}
    PROVE  /\ Joined(Flush(s)) = Joined(s) /\ (Plain(Flush(s)) <=> Plain(s)) /\ Flush(s).value = <<>>
           /\ Joined(s) \in Text
<1>1. s \in Scanner /\ s.tokens \in Seq(Lexeme) /\ s.value \in Text
  BY DEF Scanning, Scanner
<1>2. ValuesOf(s.tokens) \in Text
  BY <1>1, ValuesType
<1>3. Joined(s) \in Text
  BY <1>1, <1>2, ConcatProperties DEF Joined, Text
<1>4. CASE s.mode = "scan"
  BY <1>3, <1>4 DEF Flush, Scanning
<1>5. CASE s.mode = "string"
  <2>1. PICK t \in Lexeme : t = Token("STR", s.value) /\ t.kind = "STR" /\ t.value = s.value
    <3>1. "STR" \in Kinds
      BY DEF Kinds
    <3>2. \A v \in Text : [kind |-> "STR", value |-> v] \in Lexeme
      BY <3>1 DEF Lexeme
    <3> QED BY <1>1, <3>2 DEF Token
  <2>2. PICK f : f = Flush(s)
    OBVIOUS
  <2>3. f.tokens = Append(s.tokens, t) /\ f.mode = "scan" /\ f.value = <<>>
    BY <1>1, <1>5, <2>1, <2>2 DEF Flush, Emit, Scanner
  <2>4. ValuesOf(f.tokens) = ValuesOf(s.tokens) \o s.value
    BY <1>1, <2>1, <2>3, ValuesAppend
  <2>5. Joined(f) = Joined(s)
    <3>1. Joined(s) \o <<>> = Joined(s)
      BY <1>3, ConcatEmptySeq DEF Text
    <3> QED BY <2>3, <2>4, <3>1 DEF Joined
  <2>6. Quotes(f.tokens) <=> Quotes(s.tokens)
    BY <1>1, <2>1, <2>3, QuotesAppend
  <2>7. Plain(f) <=> Plain(s)
    BY <1>5, <2>3, <2>6 DEF Plain
  <2> QED BY <1>3, <2>2, <2>3, <2>5, <2>7
<1> QED BY <1>4, <1>5

LEMMA PlainStep ==
    ASSUME NEW s, Scanning(s), NEW c \in Runes, Plain(ScanRune(s, c))
    PROVE  Plain(s) /\ (c \notin Spaces => Joined(ScanRune(s, c)) = Append(Joined(s), c))
<1>1. s \in Scanner /\ s.tokens \in Seq(Lexeme) /\ s.value \in Text
  BY DEF Scanning, Scanner
<1>2. PICK r : r = ScanRune(s, c)
  OBVIOUS
<1>3. Plain(r) /\ r.mode \in {"scan", "string"} /\ ~Quotes(r.tokens)
  BY <1>2 DEF Plain
<1>4. CASE s.mode = "escape"
  <2>1. r = [s EXCEPT !.mode = "quoted",
                       !.value = @ \o (IF c \in {s.delim, "\\"} THEN <<c>> ELSE <<"\\", c>>)]
    BY <1>2, <1>4, InEscape
  <2>2. r.mode = "quoted"
    BY <1>1, <2>1 DEF Scanner
  <2> QED BY <1>3, <2>2
<1>5. CASE s.mode = "quoted"
  <2>1. CASE c = "\\"
    <3>1. r = [s EXCEPT !.mode = "escape"]
      BY <1>2, <1>5, <2>1, InQuoted
    <3>2. r.mode = "escape"
      BY <1>1, <3>1 DEF Scanner
    <3> QED BY <1>3, <3>2
  <2>2. CASE c = s.delim
    <3>1. r = Emit(s, "STRQ") /\ "STRQ" \in Kinds
      BY <1>2, <1>5, <2>2, InQuoted DEF Kinds
    <3>2. r.tokens = Append(s.tokens, Token("STRQ", s.value))
      BY <3>1, EmitScanning
    <3>3. PICK t \in Lexeme : t = Token("STRQ", s.value) /\ t.kind = "STRQ"
      BY <1>1, <3>1, TokenFacts
    <3>4. Quotes(r.tokens)
      BY <1>1, <3>2, <3>3, QuotesAppend
    <3> QED BY <1>3, <3>4
  <2>3. CASE c \notin {"\\", s.delim}
    <3>1. r = [s EXCEPT !.value = Append(@, IF c \in Spaces THEN " " ELSE c)]
      BY <1>2, <1>5, <2>3, InQuoted
    <3>2. r.mode = "quoted"
      BY <1>1, <1>5, <3>1 DEF Scanner
    <3> QED BY <1>3, <3>2
  <2> QED BY <2>1, <2>2, <2>3
<1>6. CASE s.mode = "string" /\ c \notin Spaces \cup {":", "*"}
  <2>1. r = [s EXCEPT !.value = Append(@, c)]
    BY <1>2, <1>6, InString
  <2>2. r.tokens = s.tokens /\ r.value = Append(s.value, c)
    BY <1>1, <2>1 DEF Scanner
  <2>3. Plain(s)
    BY <1>3, <1>6, <2>2 DEF Plain
  <2>4. ValuesOf(s.tokens) \in Text
    BY <1>1, ValuesType
  <2>5. ValuesOf(s.tokens) \o Append(s.value, c) = Append(ValuesOf(s.tokens) \o s.value, c)
    <3>1. PICK v \in Seq(Runes) : v = ValuesOf(s.tokens)
      BY <2>4 DEF Text
    <3>2. PICK w \in Seq(Runes) : w = s.value
      BY <1>1 DEF Text
    <3>3. v \o Append(w, c) = Append(v \o w, c)
      BY AppendJoin
    <3> QED BY <3>1, <3>2, <3>3
  <2> QED BY <1>2, <2>2, <2>3, <2>5 DEF Joined
<1>7. CASE s.mode = "scan" \/ (s.mode = "string" /\ c \in Spaces \cup {":", "*"})
  <2>1. s.mode \in {"scan", "string"}
    BY <1>7
  <2>2. PICK F : F = Flush(s)
    OBVIOUS
  <2>3. Scanning(F) /\ F.mode = "scan" /\ F.value = <<>> /\ Joined(F) = Joined(s) /\ (Plain(F) <=> Plain(s))
        /\ Joined(s) \in Text
    BY <2>1, <2>2, FlushScanning, FlushJoined
  <2>4. r = BeginToken(F, c)
    BY <1>2, <1>7, <2>2, InBegin
  <2>5. F.tokens \in Seq(Lexeme)
    BY <2>3 DEF Scanning, Scanner
  <2>6. PICK v \in Text : v = ValuesOf(F.tokens)
    BY <2>5, ValuesType
  <2>7. v = Joined(s)
    <3>1. v \o <<>> = v
      BY ConcatEmptySeq DEF Text
    <3> QED BY <2>3, <2>6, <3>1 DEF Joined
  <2>8. v \o <<c>> = Append(v, c)
    BY AppendIsConcat DEF Text
  <2>9. CASE MakesToken(F, c, r)
    <3>0. r.mode = "scan" /\ r.value = <<>>
      BY <2>9 DEF MakesToken
    <3>1. PICK t \in Lexeme : r.tokens = Append(F.tokens, t)
                              /\ t.value = (IF c \in Spaces THEN <<" ">> ELSE <<c>>)
      BY <2>9 DEF MakesToken, IsTokenOf
    <3>2. ~Quotes(F.tokens)
      BY <1>3, <2>5, <3>1, QuotesAppend
    <3>3. Plain(s)
      BY <2>3, <3>2 DEF Plain
    <3>4. ASSUME c \notin Spaces PROVE Joined(r) = Append(Joined(s), c)
      <4>1. ValuesOf(r.tokens) = Append(v, c)
        BY <2>5, <2>6, <2>8, <3>1, <3>4, ValuesAppend
      <4>2. Append(v, c) \o <<>> = Append(v, c)
        <5>1. Append(v, c) \in Seq(Runes)
          BY AppendProperties DEF Text
        <5> QED BY <5>1, ConcatEmptySeq
      <4> QED BY <2>7, <3>0, <4>1, <4>2 DEF Joined
    <3> QED BY <1>2, <3>3, <3>4
  <2>10. CASE BeginsQuotation(F, c, r)
    BY <1>3, <2>10 DEF BeginsQuotation
  <2>11. CASE BeginsString(F, c, r)
    <3>0. r.tokens = F.tokens /\ r.value = <<c>>
      BY <2>11 DEF BeginsString
    <3>1. Plain(s)
      BY <1>3, <2>3, <3>0 DEF Plain
    <3>2. Joined(r) = Append(Joined(s), c)
      BY <2>6, <2>7, <2>8, <3>0 DEF Joined
    <3> QED BY <1>2, <3>1, <3>2
  <2> QED BY <2>3, <2>4, <2>9, <2>10, <2>11, BeginCases
<1> QED BY <1>4, <1>5, <1>6, <1>7, RuneCases

\* No rune of a text is a space.
Spaceless(u) == ToSet(u) \cap Spaces = {}

LEMMA ToSetAppend ==
    ASSUME NEW C, NEW u \in Seq(C), NEW c \in C
    PROVE  ToSet(Append(u, c)) = ToSet(u) \cup {c}
<1>1. PICK t \in Seq(C) : t = Append(u, c)
  BY AppendProperties
<1>2. PICK n \in Nat : n = Len(u)
  BY LenProperties
<1>3. Len(t) = n + 1 /\ t[n + 1] = c /\ \A i \in 1 .. n : t[i] = u[i]
  BY <1>1, <1>2, AppendProperties
<1>4. DOMAIN t = 1 .. n + 1 /\ DOMAIN u = 1 .. n
  BY <1>2, <1>3, LenProperties
<1>5. (\A i \in 1 .. n + 1 : i \in 1 .. n \/ i = n + 1) /\ (\A i \in 1 .. n : i \in 1 .. n + 1)
      /\ n + 1 \in 1 .. n + 1
  BY <1>2
<1>6. ToSet(t) = ToSet(u) \cup {c}
  BY <1>3, <1>4, <1>5 DEF ToSet
<1> QED BY <1>1, <1>6

LEMMA PlainJoined ==
    ASSUME NEW u \in Text, Plain(State(u)), Spaceless(u)
    PROVE  Joined(State(u)) = u
<1> DEFINE S == {w \in Text : Plain(State(w)) /\ Spaceless(w) => Joined(State(w)) = w}
<1>1. <<>> \in S
  <2>1. State(<<>>) = Start
    BY RunEmpty DEF State
  <2>2. Joined(Start) = ValuesOf(<<>>) \o <<>>
    BY DEF Joined, Start
  <2>3. <<>> \o <<>> = <<>>
    OBVIOUS
  <2>4. Joined(State(<<>>)) = <<>>
    BY <2>1, <2>2, <2>3, ValuesEmpty
  <2> QED BY <2>4, RuneFacts
<1>2. ASSUME NEW w \in Seq(Runes), NEW c \in Runes, w \in S PROVE Append(w, c) \in S
  <2>1. PICK x \in Text : x = Append(w, c)
    BY AppendProperties DEF Text
  <2>2. ASSUME Plain(State(x)), Spaceless(x) PROVE Joined(State(x)) = x
    <3>1. State(x) = ScanRune(State(w), c) /\ Scanning(State(w))
      BY <2>1, RunAppend, RunScanning, StartScanning DEF State, Text
    <3>2. Plain(State(w)) /\ (c \notin Spaces => Joined(State(x)) = Append(Joined(State(w)), c))
      BY <2>2, <3>1, PlainStep
    <3>3. Spaceless(w) /\ c \notin Spaces
      BY <2>1, <2>2, ToSetAppend DEF Spaceless
    <3>4. Joined(State(w)) = w
      BY <1>2, <3>2, <3>3
    <3> QED BY <2>1, <3>2, <3>3, <3>4
  <2> QED BY <2>1, <2>2
<1>3. Seq(Runes) \subseteq S
  <2> HIDE DEF S
  <2> QED BY <1>1, <1>2, InductSeq
<1> QED BY <1>3 DEF Text

\* A text whose tokens have no quotation is open to what comes next.
LEMMA ScanPlain ==
    ASSUME NEW u \in Text, ~Quotes(Scan(u))
    PROVE  Plain(State(u)) /\ Scan(u) = Flush(State(u)).tokens
<1> DEFINE s == State(u)
<1>1. Scanning(s) /\ Scan(u) = ScanEnd(s).tokens
  BY ScanIsOfTokens
<1>2. s \in Scanner /\ s.tokens \in Seq(Lexeme) /\ s.value \in Text
  BY <1>1 DEF Scanning, Scanner
<1> HIDE DEF s
<1>3. \A e : Scanning(e) => Quotes(Emit(e, "STRQ").tokens)
  <2>1. TAKE e
  <2>2. HAVE Scanning(e)
  <2>3. "STRQ" \in Kinds /\ e.tokens \in Seq(Lexeme) /\ e.value \in Text
    BY <2>2 DEF Kinds, Scanning, Scanner
  <2>4. Emit(e, "STRQ").tokens = Append(e.tokens, Token("STRQ", e.value))
    BY <2>2, <2>3, EmitScanning
  <2>5. PICK t \in Lexeme : t = Token("STRQ", e.value) /\ t.kind = "STRQ"
    BY <2>3, TokenFacts
  <2> QED BY <2>3, <2>4, <2>5, QuotesAppend
<1>4. CASE s.mode = "escape"
  <2>1. PICK e : e = [s EXCEPT !.value = @ \o <<"\\", NUL>>]
    OBVIOUS
  <2>2. Scanning(e)
    <3>1. s.value \o <<"\\", NUL>> \in Text
      <4>1. <<"\\", NUL>> \in Text
        BY RuneFacts DEF NUL
      <4> QED BY <1>2, <4>1, ConcatProperties DEF Text
    <3> QED BY <1>2, <1>4, <2>1, <3>1 DEF Scanning, Scanner
  <2>3. ScanEnd(s) = Emit(e, "STRQ")
    BY <1>4, <2>1 DEF ScanEnd
  <2> QED BY <1>1, <1>3, <2>2, <2>3
<1>5. CASE s.mode = "quoted"
  <2>1. ScanEnd(s) = Emit(s, "STRQ")
    BY <1>5 DEF ScanEnd
  <2> QED BY <1>1, <1>3, <2>1
<1>6. CASE s.mode \in {"scan", "string"}
  <2>1. ScanEnd(s) = Flush(s)
    BY <1>6 DEF ScanEnd
  <2>2. Plain(Flush(s))
    <3>1. Flush(s).mode = "scan"
      BY <1>1, <1>6, FlushScanning
    <3> QED BY <1>1, <2>1, <3>1 DEF Plain
  <2>3. Plain(s)
    BY <1>1, <1>6, <2>2, FlushJoined
  <2> QED BY <1>1, <2>1, <2>3 DEF s
<1>7. s.mode \in {"scan", "string", "quoted", "escape"}
  BY <1>2, ZenonT(60) DEF Scanner
<1> QED BY <1>4, <1>5, <1>6, <1>7

\* A text without spaces and quotations is what its tokens join to.
LEMMA PlainText ==
    ASSUME NEW u \in Text, Spaceless(u), ~Quotes(Scan(u))
    PROVE  ValuesOf(Scan(u)) = u
<1>1. Plain(State(u)) /\ Scan(u) = Flush(State(u)).tokens /\ Scanning(State(u))
  BY ScanPlain, ScanIsOfTokens
<1>2. State(u).mode \in {"scan", "string"}
  BY <1>1 DEF Plain
<1>3. Joined(Flush(State(u))) = Joined(State(u)) /\ Flush(State(u)).value = <<>>
  BY <1>1, <1>2, FlushJoined
<1>4. Joined(State(u)) = u
  BY <1>1, PlainJoined
<1>5. Joined(Flush(State(u))) = ValuesOf(Scan(u)) \o <<>>
  BY <1>1, <1>3 DEF Joined
<1>6. ValuesOf(Scan(u)) \o <<>> = ValuesOf(Scan(u))
  BY ScanIsOfTokens, ValuesType, ConcatEmptySeq DEF Text
<1> QED BY <1>3, <1>4, <1>5, <1>6, Zenon

-----------------------------------------------------------------------------
(* Tokens as the scanner makes them. *)

\* A string does not begin like another token, and holds no rune that ends it.
StringLike(v) ==
    /\ v \in Text /\ v # <<>> /\ v[1] \notin {"-", "\"", "'"}
    /\ \A i \in DOMAIN v : v[i] \notin Spaces \cup {":", "*"}

WellMade(t) ==
    /\ t.kind = "STR" => StringLike(t.value)
    /\ t.kind = "NEG" => t.value = <<"-">>
    /\ t.kind = "FIELD" => t.value = <<":">>
    /\ t.kind = "WILDCARD" => t.value = <<"*">>
    /\ t.kind = "SPACE" => t.value = <<" ">>

\* What comes after a string.
Enders == {"FIELD", "WILDCARD", "SPACE"}

EndsInString(ts) == ts # <<>> /\ ts[Len(ts)].kind = "STR"

Good(ts) ==
    /\ \A i \in DOMAIN ts : WellMade(ts[i])
    /\ \A i, j \in DOMAIN ts : j = i + 1 /\ ts[i].kind = "STR" => ts[j].kind \in Enders

LEMMA GoodEmpty == Good(<<>>) /\ ~EndsInString(<<>>)
BY DEF Good, EndsInString

LEMMA GoodAppend ==
    ASSUME NEW ts \in Seq(Lexeme), NEW t \in Lexeme, Good(ts), WellMade(t),
           EndsInString(ts) => t.kind \in Enders
    PROVE  Good(Append(ts, t)) /\ (EndsInString(Append(ts, t)) <=> t.kind = "STR")
<1>1. PICK u \in Seq(Lexeme) : u = Append(ts, t)
  BY AppendProperties
<1>2. PICK n \in Nat : n = Len(ts)
  BY LenProperties
<1>3. Len(u) = n + 1 /\ u[n + 1] = t /\ u # <<>> /\ \A i \in 1 .. n : u[i] = ts[i]
  BY <1>1, <1>2, AppendProperties
<1>4. DOMAIN u = 1 .. n + 1 /\ DOMAIN ts = 1 .. n
  BY <1>2, <1>3, LenProperties
<1>5. \A i \in 1 .. n + 1 : i \in 1 .. n \/ i = n + 1
  BY <1>2
<1>6. \A i \in DOMAIN u : WellMade(u[i])
  BY <1>3, <1>4, <1>5 DEF Good
<1>7. ASSUME NEW i \in 1 .. n + 1, NEW j \in 1 .. n + 1, j = i + 1, u[i].kind = "STR"
      PROVE  u[j].kind \in Enders
  <2>1. i \in 1 .. n
    BY <1>7
  <2>2. CASE j \in 1 .. n
    BY <1>3, <1>4, <1>7, <2>1, <2>2 DEF Good
  <2>3. CASE j = n + 1
    <3>1. i = n /\ n # 0 /\ ts # <<>>
      BY <1>2, <1>7, <2>1, <2>3, EmptySeq
    <3>2. EndsInString(ts)
      BY <1>2, <1>3, <1>7, <2>1, <3>1 DEF EndsInString
    <3> QED BY <1>3, <2>3, <3>2
  <2> QED BY <1>5, <2>2, <2>3
<1>8. Good(u)
  BY <1>4, <1>6, <1>7 DEF Good
<1>9. EndsInString(u) <=> t.kind = "STR"
  BY <1>3 DEF EndsInString
<1> QED BY <1>1, <1>8, <1>9

GoodState(s) ==
    /\ Good(s.tokens) /\ ~EndsInString(s.tokens)
    /\ s.mode = "string" => StringLike(s.value)

LEMMA EmitGood ==
    ASSUME NEW s, Scanning(s), NEW k \in Kinds, WellMade(Token(k, s.value)), GoodState(s)
    PROVE  Good(Emit(s, k).tokens) /\ (EndsInString(Emit(s, k).tokens) <=> k = "STR")
<1>1. s.tokens \in Seq(Lexeme) /\ s.value \in Text
  BY DEF Scanning, Scanner
<1>2. PICK t \in Lexeme : t = Token(k, s.value) /\ t.kind = k
  BY <1>1, TokenFacts
<1>3. Emit(s, k).tokens = Append(s.tokens, t)
  BY <1>2, EmitScanning
<1>4. Good(s.tokens) /\ ~EndsInString(s.tokens)
  BY DEF GoodState
<1> QED BY <1>1, <1>2, <1>3, <1>4, GoodAppend

LEMMA QuotationWellMade ==
    ASSUME NEW v \in Text
    PROVE  WellMade(Token("STRQ", v)) /\ (StringLike(v) => WellMade(Token("STR", v)))
<1>1. "STRQ" \in Kinds /\ "STR" \in Kinds
  BY DEF Kinds
<1>2. \A k \in Kinds : Token(k, v).kind = k /\ Token(k, v).value = v
  BY TokenFacts
<1> QED BY <1>1, <1>2 DEF WellMade

LEMMA FlushGood ==
    ASSUME NEW s, Scanning(s), s.mode \in {"scan", "string"}, GoodState(s)
    PROVE  Good(Flush(s).tokens) /\ (EndsInString(Flush(s).tokens) <=> s.mode = "string")
<1>1. "STR" \in Kinds /\ s.value \in Text
  BY DEF Kinds, Scanning, Scanner
<1>2. CASE s.mode = "scan"
  BY <1>2 DEF Flush, GoodState
<1>3. CASE s.mode = "string"
  <2>1. WellMade(Token("STR", s.value))
    BY <1>1, <1>3, QuotationWellMade DEF GoodState
  <2>2. Flush(s) = Emit(s, "STR")
    BY <1>3 DEF Flush
  <2> QED BY <1>1, <1>3, <2>1, <2>2, EmitGood
<1> QED BY <1>2, <1>3

LEMMA RuneGood ==
    ASSUME NEW s, Scanning(s), NEW c \in Runes, GoodState(s)
    PROVE  GoodState(ScanRune(s, c))
<1>1. s \in Scanner /\ s.tokens \in Seq(Lexeme) /\ s.value \in Text
  BY DEF Scanning, Scanner
<1>2. PICK r : r = ScanRune(s, c)
  OBVIOUS
<1>3. Good(s.tokens) /\ ~EndsInString(s.tokens) /\ (s.mode = "string" => StringLike(s.value))
  BY DEF GoodState
<1>4. CASE s.mode = "escape"
  <2>1. r = [s EXCEPT !.mode = "quoted",
                       !.value = @ \o (IF c \in {s.delim, "\\"} THEN <<c>> ELSE <<"\\", c>>)]
    BY <1>2, <1>4, InEscape
  <2>2. r.mode = "quoted" /\ r.tokens = s.tokens
    BY <1>1, <2>1 DEF Scanner
  <2> QED BY <1>2, <1>3, <2>2 DEF GoodState
<1>5. CASE s.mode = "quoted"
  <2>1. CASE c = "\\"
    <3>1. r = [s EXCEPT !.mode = "escape"]
      BY <1>2, <1>5, <2>1, InQuoted
    <3>2. r.mode = "escape" /\ r.tokens = s.tokens
      BY <1>1, <3>1 DEF Scanner
    <3> QED BY <1>2, <1>3, <3>2 DEF GoodState
  <2>2. CASE c = s.delim
    <3>1. r = Emit(s, "STRQ") /\ "STRQ" \in Kinds
      BY <1>2, <1>5, <2>2, InQuoted DEF Kinds
    <3>2. r.mode = "scan"
      BY <3>1, EmitScanning
    <3>3. Good(r.tokens) /\ ~EndsInString(r.tokens)
      BY <1>1, <3>1, EmitGood, QuotationWellMade
    <3> QED BY <1>2, <3>2, <3>3 DEF GoodState
  <2>3. CASE c \notin {"\\", s.delim}
    <3>1. r = [s EXCEPT !.value = Append(@, IF c \in Spaces THEN " " ELSE c)]
      BY <1>2, <1>5, <2>3, InQuoted
    <3>2. r.mode = "quoted" /\ r.tokens = s.tokens
      BY <1>1, <1>5, <3>1 DEF Scanner
    <3> QED BY <1>2, <1>3, <3>2 DEF GoodState
  <2> QED BY <2>1, <2>2, <2>3
<1>6. CASE s.mode = "string" /\ c \notin Spaces \cup {":", "*"}
  <2>1. r = [s EXCEPT !.value = Append(@, c)]
    BY <1>2, <1>6, InString
  <2>2. r.tokens = s.tokens /\ r.value = Append(s.value, c)
    BY <1>1, <2>1 DEF Scanner
  <2>3. StringLike(Append(s.value, c))
    <3>1. StringLike(s.value)
      BY <1>3, <1>6
    <3>2. PICK v \in Seq(Runes) : v = s.value
      BY <1>1 DEF Text
    <3>3. PICK n \in Nat : n = Len(v)
      BY LenProperties
    <3>4. n # 0 /\ v[1] \notin {"-", "\"", "'"} /\ \A i \in 1 .. n : v[i] \notin Spaces \cup {":", "*"}
      BY <3>1, <3>2, <3>3, LenProperties, EmptySeq DEF StringLike
    <3>5. PICK w \in Seq(Runes) : w = Append(v, c)
      BY AppendProperties
    <3>6. Len(w) = n + 1 /\ w[n + 1] = c /\ w # <<>> /\ \A i \in 1 .. n : w[i] = v[i]
      BY <3>3, <3>5, AppendProperties
    <3>7. DOMAIN w = 1 .. n + 1
      BY <3>6, LenProperties
    <3>9. 1 \in 1 .. n /\ \A i \in 1 .. n + 1 : i \in 1 .. n \/ i = n + 1
      <4>1. n # 0
        BY <3>4
      <4> QED BY <4>1
    <3>8. StringLike(w)
      BY <1>6, <3>4, <3>6, <3>7, <3>9 DEF StringLike, Text
    <3> QED BY <3>2, <3>5, <3>8
  <2> QED BY <1>2, <1>3, <2>2, <2>3 DEF GoodState
<1>7. CASE s.mode = "scan" \/ (s.mode = "string" /\ c \in Spaces \cup {":", "*"})
  <2>1. s.mode \in {"scan", "string"}
    BY <1>7
  <2>2. PICK F : F = Flush(s)
    OBVIOUS
  <2>3. Scanning(F) /\ F.mode = "scan" /\ Good(F.tokens) /\ (EndsInString(F.tokens) <=> s.mode = "string")
    BY <2>1, <2>2, FlushScanning, FlushGood
  <2>4. r = BeginToken(F, c)
    BY <1>2, <1>7, <2>2, InBegin
  <2>5. F.tokens \in Seq(Lexeme)
    BY <2>3 DEF Scanning, Scanner
  <2>6. EndsInString(F.tokens) => c \in Spaces \cup {":", "*"}
    BY <1>7, <2>3
  <2>7. CASE MakesToken(F, c, r)
    <3>1. r.mode = "scan"
      BY <2>7 DEF MakesToken
    <3>2. PICK t \in Lexeme : r.tokens = Append(F.tokens, t) /\ IsTokenOf(t, c)
      BY <2>7 DEF MakesToken
    <3>3. WellMade(t) /\ t.kind # "STR"
      BY <3>2 DEF IsTokenOf, WellMade, Spaces
    <3>4. EndsInString(F.tokens) => t.kind \in Enders
      BY <2>6, <3>2 DEF IsTokenOf, Enders, Spaces
    <3>5. Good(r.tokens) /\ ~EndsInString(r.tokens)
      BY <2>3, <2>5, <3>2, <3>3, <3>4, GoodAppend
    <3> QED BY <1>2, <3>1, <3>5 DEF GoodState
  <2>8. CASE BeginsQuotation(F, c, r)
    <3>1. r.mode = "quoted" /\ r.tokens = F.tokens /\ c \notin Spaces \cup {":", "*"}
      BY <2>8 DEF BeginsQuotation, Spaces
    <3> QED BY <1>2, <2>3, <2>6, <3>1 DEF GoodState
  <2>9. CASE BeginsString(F, c, r)
    <3>1. r.tokens = F.tokens /\ r.value = <<c>> /\ c \notin {"-", ":", "*", "\"", "'"} \cup Spaces
      BY <2>9 DEF BeginsString
    <3>2. StringLike(<<c>>)
      <4>1. <<c>> \in Text
        BY RuneFacts
      <4>2. <<c>> # <<>> /\ <<c>>[1] = c /\ \A i \in DOMAIN <<c>> : <<c>>[i] = c
        OBVIOUS
      <4> QED BY <3>1, <4>1, <4>2 DEF StringLike
    <3> QED BY <1>2, <2>3, <2>6, <3>1, <3>2 DEF GoodState
  <2> QED BY <2>3, <2>4, <2>7, <2>8, <2>9, BeginCases
<1> QED BY <1>4, <1>5, <1>6, <1>7, RuneCases

LEMMA AfterGood ==
    ASSUME NEW u \in Text
    PROVE  GoodState(State(u))
<1> DEFINE S == {w \in Text : GoodState(State(w))}
<1>1. <<>> \in S
  <2>1. State(<<>>) = Start
    BY RunEmpty DEF State
  <2>2. GoodState(Start)
    BY GoodEmpty DEF GoodState, Start
  <2> QED BY <2>1, <2>2, RuneFacts
<1>2. ASSUME NEW w \in Seq(Runes), NEW c \in Runes, w \in S PROVE Append(w, c) \in S
  <2>1. PICK x \in Text : x = Append(w, c)
    BY AppendProperties DEF Text
  <2>2. State(x) = ScanRune(State(w), c) /\ Scanning(State(w))
    BY <2>1, RunAppend, RunScanning, StartScanning DEF State, Text
  <2>3. GoodState(State(x))
    BY <1>2, <2>2, RuneGood
  <2> QED BY <2>1, <2>3
<1>3. Seq(Runes) \subseteq S
  <2> HIDE DEF S
  <2> QED BY <1>1, <1>2, InductSeq
<1> QED BY <1>3 DEF Text

\* So are all tokens of a text.
LEMMA ScanGood ==
    ASSUME NEW u \in Text
    PROVE  Good(Scan(u))
<1>1. PICK s : s = State(u)
  OBVIOUS
<1>2. Scanning(s) /\ GoodState(s) /\ Scan(u) = ScanEnd(s).tokens
  BY <1>1, ScanIsOfTokens, AfterGood
<1>3. s \in Scanner /\ s.tokens \in Seq(Lexeme) /\ s.value \in Text
  BY <1>2 DEF Scanning, Scanner
<1>4. "STRQ" \in Kinds
  BY DEF Kinds
<1>5. CASE s.mode = "escape"
  <2>1. PICK e : e = [s EXCEPT !.value = @ \o <<"\\", NUL>>]
    OBVIOUS
  <2>2. s.value \o <<"\\", NUL>> \in Text
    <3>1. <<"\\", NUL>> \in Text
      BY RuneFacts DEF NUL
    <3> QED BY <1>3, <3>1, ConcatProperties DEF Text
  <2>3. Scanning(e) /\ e.value \in Text
    BY <1>3, <1>5, <2>1, <2>2 DEF Scanning, Scanner
  <2>4. GoodState(e)
    <3>1. e.tokens = s.tokens /\ e.mode = "escape"
      BY <1>3, <1>5, <2>1 DEF Scanner
    <3> QED BY <1>2, <3>1 DEF GoodState
  <2>5. ScanEnd(s) = Emit(e, "STRQ")
    BY <1>5, <2>1 DEF ScanEnd
  <2> QED BY <1>2, <1>4, <2>3, <2>4, <2>5, EmitGood, QuotationWellMade
<1>6. CASE s.mode = "quoted"
  <2>1. ScanEnd(s) = Emit(s, "STRQ")
    BY <1>6 DEF ScanEnd
  <2> QED BY <1>2, <1>3, <1>4, <2>1, EmitGood, QuotationWellMade
<1>7. CASE s.mode \in {"scan", "string"}
  <2>1. ScanEnd(s) = Flush(s)
    BY <1>7 DEF ScanEnd
  <2> QED BY <1>2, <1>7, <2>1, FlushGood
<1>8. s.mode \in {"scan", "string", "quoted", "escape"}
  BY <1>3 DEF Scanner
<1> QED BY <1>5, <1>6, <1>7, <1>8

-----------------------------------------------------------------------------
(* Tokens without quotations are read again from what they join to. *)

LEMMA LexemeFields ==
    ASSUME NEW t \in Lexeme
    PROVE  t = [kind |-> t.kind, value |-> t.value] /\ t.kind \in Kinds /\ t.value \in Text
BY DEF Lexeme

LEMMA SameLexeme ==
    ASSUME NEW t \in Lexeme, NEW u \in Lexeme, t.kind = u.kind, t.value = u.value
    PROVE  t = u
BY LexemeFields

\* The automaton after one rune.
LEMMA AfterRune ==
    ASSUME NEW c \in Runes
    PROVE  State(<<c>>) = BeginToken(Start, c)
<1>1. <<c>> = Append(<<>>, c) /\ <<>> \in Seq(Runes)
  OBVIOUS
<1>2. State(<<c>>) = ScanRune(Run(Start, <<>>), c)
  <2>1. Run(Start, Append(<<>>, c)) = ScanRune(Run(Start, <<>>), c)
    BY <1>1, RunAppend, ZenonT(60)
  <2> QED BY <1>1, <2>1, Zenon DEF State
<1>3. Run(Start, <<>>) = Start
  BY RunEmpty
<1>4. Start.mode = "scan" /\ Flush(Start) = Start
  BY DEF Start, Flush
<1>5. ScanRune(Start, c) = BeginToken(Flush(Start), c)
  BY <1>4, InBegin
<1> QED BY <1>2, <1>3, <1>4, <1>5

InAString(v) == State(v).mode = "string" /\ State(v).tokens = <<>> /\ State(v).value = v

LEMMA StringRun ==
    ASSUME NEW v \in Text, StringLike(v)
    PROVE  InAString(v)
<1> DEFINE S == {w \in Text : StringLike(w) => InAString(w)}
<1>1. <<>> \in S
  BY RuneFacts DEF StringLike
<1>2. ASSUME NEW w \in Seq(Runes), NEW c \in Runes, w \in S PROVE Append(w, c) \in S
  <2>1. PICK x \in Seq(Runes) : x = Append(w, c)
    BY AppendProperties
  <2>2. PICK n \in Nat : n = Len(w)
    BY LenProperties
  <2>3. Len(x) = n + 1 /\ x[n + 1] = c /\ \A i \in 1 .. n : x[i] = w[i]
    BY <2>1, <2>2, AppendProperties
  <2>4. DOMAIN x = 1 .. n + 1 /\ DOMAIN w = 1 .. n
    BY <2>2, <2>3, LenProperties
  <2>5. ASSUME StringLike(x) PROVE InAString(x)
    <3>1. c \notin Spaces \cup {":", "*"} /\ \A i \in 1 .. n : w[i] \notin Spaces \cup {":", "*"}
      <4>1. \A i \in 1 .. n + 1 : x[i] \notin Spaces \cup {":", "*"}
        BY <2>4, <2>5 DEF StringLike
      <4>2. n + 1 \in 1 .. n + 1 /\ \A i \in 1 .. n : i \in 1 .. n + 1
        OBVIOUS
      <4> QED BY <2>3, <4>1, <4>2
    <3>2. State(x) = ScanRune(State(w), c) /\ Scanning(State(w))
      BY <2>1, RunAppend, RunScanning, StartScanning DEF State, Text
    <3>3. CASE w = <<>>
      <4>1. n = 0 /\ c \notin {"-", "\"", "'"}
        <5>1. n = 0
          BY <2>2, <3>3, EmptySeq
        <5>2. x[1] = c
          BY <2>3, <5>1
        <5>3. x[1] \notin {"-", "\"", "'"}
          BY <2>5 DEF StringLike
        <5> QED BY <5>1, <5>2, <5>3
      <4>2. x = <<c>>
        BY <2>1, <3>3
      <4>3. BeginsString(Start, c, BeginToken(Start, c))
        <5>1. Start.mode = "scan" /\ Scanning(Start)
          BY StartScanning DEF Start
        <5>2. ~BeginsQuotation(Start, c, BeginToken(Start, c))
          BY <4>1 DEF BeginsQuotation
        <5>3. ~MakesToken(Start, c, BeginToken(Start, c))
          BY <3>1, <4>1 DEF MakesToken, IsTokenOf
        <5> QED BY <5>1, <5>2, <5>3, BeginCases
      <4>4. State(x) = BeginToken(Start, c) /\ Start.tokens = <<>>
        BY <4>2, AfterRune DEF Start
      <4> QED BY <4>2, <4>3, <4>4 DEF BeginsString, InAString
    <3>4. CASE w # <<>>
      <4>1. n # 0 /\ w[1] = x[1]
        <5>1. n # 0
          BY <2>2, <3>4, EmptySeq
        <5> QED BY <2>3, <5>1
      <4>2. StringLike(w)
        BY <2>4, <2>5, <3>1, <3>4, <4>1 DEF StringLike, Text
      <4>3. InAString(w)
        BY <1>2, <4>2
      <4>4. State(x) = [State(w) EXCEPT !.value = Append(@, c)]
        BY <3>1, <3>2, <4>3, InString DEF InAString
      <4>5. State(w) \in Scanner
        BY <3>2 DEF Scanning
      <4> QED BY <2>1, <4>3, <4>4, <4>5 DEF InAString, Scanner
    <3> QED BY <3>3, <3>4
  <2> QED BY <2>1, <2>5 DEF Text
<1>3. Seq(Runes) \subseteq S
  <2> HIDE DEF S
  <2> QED BY <1>1, <1>2, InductSeq
<1> QED BY <1>3 DEF Text

\* A token is read from its own text.
LEMMA ScanOfToken ==
    ASSUME NEW t \in Lexeme, WellMade(t), t.kind \notin {"STRQ", "SPACE"}
    PROVE  Scan(t.value) = <<t>> /\ (t.kind \in Enders => Opens(t.value))
<1>0. t.kind \in Kinds /\ t.value \in Text /\ Scan(t.value) = ScanEnd(State(t.value)).tokens
  BY LexemeFields, ScanIsOfTokens
<1>1. CASE t.kind = "STR"
  <2>1. InAString(t.value)
    BY <1>0, <1>1, StringRun DEF WellMade
  <2>2. PICK s : s = State(t.value)
    OBVIOUS
  <2>3. Scanning(s) /\ s.mode = "string" /\ s.tokens = <<>> /\ s.value = t.value
    BY <1>0, <2>1, <2>2, ScanIsOfTokens DEF InAString
  <2>4. ScanEnd(s) = Emit(s, "STR") /\ "STR" \in Kinds
    BY <2>3 DEF ScanEnd, Flush, Kinds
  <2>5. Emit(s, "STR").tokens = Append(<<>>, Token("STR", t.value))
    BY <2>3, <2>4, EmitScanning
  <2>6. Token("STR", t.value) = t
    BY <1>0, <1>1, <2>4, TokenFacts, SameLexeme
  <2>7. Append(<<>>, t) = <<t>>
    OBVIOUS
  <2> QED BY <1>0, <1>1, <2>2, <2>4, <2>5, <2>6, <2>7 DEF Enders
<1>2. CASE t.kind \in {"NEG", "FIELD", "WILDCARD"}
  <2>1. PICK c \in Runes : t.value = <<c>> /\ c = (IF t.kind = "NEG" THEN "-" ELSE IF t.kind = "FIELD" THEN ":" ELSE "*")
    BY <1>2, RuneFacts DEF WellMade
  <2>2. c \in {"-", ":", "*"} /\ c \notin Spaces
    BY <2>1 DEF Spaces
  <2>3. PICK r : r = BeginToken(Start, c)
    OBVIOUS
  <2>4. MakesToken(Start, c, r)
    <3>1. Start.mode = "scan" /\ Scanning(Start)
      BY StartScanning DEF Start
    <3>2. ~BeginsQuotation(Start, c, r)
      BY <2>2 DEF BeginsQuotation
    <3>3. ~BeginsString(Start, c, r)
      BY <2>2 DEF BeginsString
    <3> QED BY <2>3, <3>1, <3>2, <3>3, BeginCases
  <2>5. PICK u \in Lexeme : r.tokens = Append(<<>>, u) /\ IsTokenOf(u, c)
    BY <2>4 DEF MakesToken, Start
  <2>6. u.kind = t.kind /\ u.value = t.value
    BY <1>2, <2>1, <2>2, <2>5 DEF IsTokenOf
  <2>7. u = t /\ Append(<<>>, t) = <<t>>
    BY <2>6, SameLexeme
  <2>8. State(t.value) = r /\ r.mode = "scan"
    BY <2>1, <2>3, <2>4, AfterRune DEF MakesToken
  <2>9. ScanEnd(r) = r
    BY <2>8 DEF ScanEnd, Flush
  <2>10. t.kind \in Enders => Opens(t.value)
    BY <1>2, <2>1 DEF Enders, Opens
  <2> QED BY <1>0, <2>5, <2>7, <2>8, <2>9, <2>10
<1> QED BY <1>0, <1>1, <1>2 DEF Kinds

\* The converse of GoodAppend.
LEMMA GoodSplit ==
    ASSUME NEW ts \in Seq(Lexeme), NEW t \in Lexeme, Good(Append(ts, t))
    PROVE  Good(ts) /\ WellMade(t) /\ (EndsInString(ts) => t.kind \in Enders)
<1>1. PICK u \in Seq(Lexeme) : u = Append(ts, t)
  BY AppendProperties
<1>2. PICK n \in Nat : n = Len(ts)
  BY LenProperties
<1>3. Len(u) = n + 1 /\ u[n + 1] = t /\ \A i \in 1 .. n : u[i] = ts[i]
  BY <1>1, <1>2, AppendProperties
<1>4. DOMAIN u = 1 .. n + 1 /\ DOMAIN ts = 1 .. n
  BY <1>2, <1>3, LenProperties
<1>5. (\A i \in 1 .. n : i \in 1 .. n + 1) /\ n + 1 \in 1 .. n + 1
  OBVIOUS
<1>6. /\ \A i \in 1 .. n + 1 : WellMade(u[i])
      /\ \A i, j \in 1 .. n + 1 : j = i + 1 /\ u[i].kind = "STR" => u[j].kind \in Enders
  BY <1>1, <1>4 DEF Good
<1>7. \A i \in 1 .. n : WellMade(ts[i])
  BY <1>3, <1>5, <1>6
<1>8. ASSUME NEW i \in 1 .. n, NEW j \in 1 .. n, j = i + 1, ts[i].kind = "STR" PROVE ts[j].kind \in Enders
  BY <1>3, <1>5, <1>6, <1>8
<1>9. ASSUME EndsInString(ts) PROVE t.kind \in Enders
  <2>1. ts[n].kind = "STR" /\ ts # <<>>
    BY <1>2, <1>9 DEF EndsInString
  <2>2. n \in 1 .. n /\ n \in 1 .. n + 1
    <3>1. n # 0
      BY <1>2, <2>1, EmptySeq
    <3> QED BY <3>1
  <2>3. u[n].kind = "STR"
    BY <1>3, <2>1, <2>2
  <2> QED BY <1>3, <1>5, <1>6, <2>2, <2>3
<1> QED BY <1>3, <1>4, <1>5, <1>6, <1>7, <1>8, <1>9 DEF Good

\* Tokens of a term without quotations.
BareTokens(ts) == \A i \in DOMAIN ts : ts[i].kind \notin {"STRQ", "SPACE"}

LEMMA BareSplit ==
    ASSUME NEW ts \in Seq(Lexeme), NEW t \in Lexeme, BareTokens(Append(ts, t))
    PROVE  BareTokens(ts) /\ t.kind \notin {"STRQ", "SPACE"}
<1>1. PICK u \in Seq(Lexeme) : u = Append(ts, t)
  BY AppendProperties
<1>2. PICK n \in Nat : n = Len(ts)
  BY LenProperties
<1>3. Len(u) = n + 1 /\ u[n + 1] = t /\ \A i \in 1 .. n : u[i] = ts[i]
  BY <1>1, <1>2, AppendProperties
<1>4. DOMAIN u = 1 .. n + 1 /\ DOMAIN ts = 1 .. n
  BY <1>2, <1>3, LenProperties
<1>5. (\A i \in 1 .. n : i \in 1 .. n + 1) /\ n + 1 \in 1 .. n + 1
  OBVIOUS
<1>6. \A i \in 1 .. n + 1 : u[i].kind \notin {"STRQ", "SPACE"}
  BY <1>1, <1>4 DEF BareTokens
<1> QED BY <1>3, <1>4, <1>5, <1>6 DEF BareTokens

LEMMA ScanEmpty == Scan(<<>>) = <<>>
<1>1. ScanEnd(Start).tokens = <<>>
  BY DEF ScanEnd, Start, Flush
<1>2. Run(Start, <<>>) = Start
  BY RunEmpty
<1> QED BY <1>1, <1>2 DEF Scan

LEMMA BareScan ==
    ASSUME NEW ts \in Seq(Lexeme), Good(ts), BareTokens(ts)
    PROVE  Scan(ValuesOf(ts)) = ts
<1> DEFINE S == {u \in Seq(Lexeme) : Good(u) /\ BareTokens(u) => Scan(ValuesOf(u)) = u}
<1>1. <<>> \in S
  <2>1. Scan(<<>>) = <<>>
    BY ScanEmpty
  <2>2. <<>> \in Seq(Lexeme)
    OBVIOUS
  <2> QED BY <2>1, <2>2, ValuesEmpty
<1>2. ASSUME NEW u \in Seq(Lexeme), NEW t \in Lexeme, u \in S PROVE Append(u, t) \in S
  <2>1. ASSUME Good(Append(u, t)), BareTokens(Append(u, t)) PROVE Scan(ValuesOf(Append(u, t))) = Append(u, t)
    <3>1. Good(u) /\ WellMade(t) /\ (EndsInString(u) => t.kind \in Enders)
      BY <2>1, GoodSplit
    <3>2. BareTokens(u) /\ t.kind \notin {"STRQ", "SPACE"}
      BY <2>1, BareSplit
    <3>3. PICK v \in Text : v = ValuesOf(u)
      BY ValuesType
    <3>4. Scan(v) = u
      BY <1>2, <3>1, <3>2, <3>3
    <3>5. ~Quotes(Scan(v))
      BY <3>2, <3>4 DEF BareTokens, Quotes
    <3>6. Plain(State(v)) /\ Scan(v) = Flush(State(v)).tokens /\ Scanning(State(v)) /\ GoodState(State(v))
      BY <3>5, ScanPlain, ScanIsOfTokens, AfterGood
    <3>7. State(v).mode \in {"scan", "string"}
      BY <3>6 DEF Plain
    <3>8. EndsInString(Scan(v)) <=> State(v).mode = "string"
      BY <3>6, <3>7, FlushGood
    <3>9. t.value \in Text /\ Scan(t.value) = <<t>> /\ (t.kind \in Enders => Opens(t.value))
      BY <3>1, <3>2, ScanOfToken, LexemeFields
    <3>10. Splits(v, t.value)
      BY <3>1, <3>4, <3>7, <3>8, <3>9 DEF Splits
    <3>11. Scan(v \o t.value) = u \o <<t>>
      BY <3>4, <3>9, <3>10, MeetScan
    <3>12. ValuesOf(Append(u, t)) = v \o t.value /\ u \o <<t>> = Append(u, t)
      BY <3>3, ValuesAppend, AppendIsConcat
    <3> QED BY <3>11, <3>12
  <2> QED BY <2>1, AppendProperties
<1>3. Seq(Lexeme) \subseteq S
  <2> HIDE DEF S
  <2> QED BY <1>1, <1>2, InductSeq
<1> QED BY <1>3

-----------------------------------------------------------------------------
(* What is between quotation marks. *)

Unread == [out |-> <<>>, escape |-> FALSE, ok |-> TRUE]

\* The states of the automaton on the way through a text.
UPassed(s, text, n, before) == IF n = 0 THEN s ELSE UnquoteRune(before, text[n])

UPasses(f, s, text, m) == f = [n \in 0 .. m |-> UPassed(s, text, n, f[n - 1])]

LEMMA UPassesAt ==
    ASSUME NEW s, NEW text, NEW m \in Nat, NEW f, UPasses(f, s, text, m)
    PROVE  \A n \in 0 .. m : f[n] = UPassed(s, text, n, f[n - 1])
BY Zenon DEF UPasses

\* They are the same for texts that begin in the same way.
LEMMA UPassesOne ==
    ASSUME NEW s, NEW text, NEW other, NEW m \in Nat, NEW k \in 0 .. m, NEW f, NEW g,
           Agree(text, other, k), UPasses(f, s, text, m), UPasses(g, s, other, k)
    PROVE  f[k] = g[k]
<1>0. \A n \in 1 .. k : text[n] = other[n]
  BY DEF Agree
<1> DEFINE S == {n \in Nat : n <= k => f[n] = g[n]}
<1>1. /\ \A n \in 0 .. m : f[n] = UPassed(s, text, n, f[n - 1])
      /\ \A n \in 0 .. k : g[n] = UPassed(s, other, n, g[n - 1])
  <2>1. \A n \in 0 .. m : f[n] = UPassed(s, text, n, f[n - 1])
    BY UPassesAt
  <2>2. \A n \in 0 .. k : g[n] = UPassed(s, other, n, g[n - 1])
    BY UPassesAt
  <2> QED BY <2>1, <2>2
<1>2. 0 \in S
  <2>1. f[0] = s /\ g[0] = s
    BY <1>1 DEF UPassed
  <2> QED BY <2>1
<1>3. ASSUME NEW n \in 0 .. (k - 1), n \in S PROVE n + 1 \in S
  <2>1. n + 1 \in 0 .. m /\ n + 1 \in 0 .. k /\ n + 1 \in 1 .. k /\ (n + 1) - 1 = n /\ n + 1 # 0
    OBVIOUS
  <2>2. f[n + 1] = UnquoteRune(f[n], text[n + 1]) /\ g[n + 1] = UnquoteRune(g[n], other[n + 1])
    BY <1>1, <2>1 DEF UPassed
  <2>3. f[n] = g[n] /\ text[n + 1] = other[n + 1]
    BY <1>0, <1>3, <2>1
  <2> QED BY <2>2, <2>3
<1>4. 0 .. k \subseteq S
  <2> HIDE DEF S
  <2> QED BY <1>2, <1>3, Induct
<1> QED BY <1>4

LEMMA UPassesExist ==
    ASSUME NEW s, NEW text, NEW m \in Nat
    PROVE  \E f : UPasses(f, s, text, m)
<1> DEFINE S == {k \in Nat : \E f : UPasses(f, s, text, k)}
<1>1. 0 \in S
  <2> DEFINE f == [n \in 0 .. 0 |-> s]
  <2>1. \A n \in 0 .. 0 : UPassed(s, text, n, f[n - 1]) = s
    BY DEF UPassed
  <2>2. f = [n \in 0 .. 0 |-> UPassed(s, text, n, f[n - 1])]
    BY <2>1
  <2> HIDE DEF f
  <2>3. UPasses(f, s, text, 0)
    BY <2>2, Zenon DEF UPasses
  <2> QED BY <2>3
<1>2. ASSUME NEW k \in Nat, k \in S PROVE k + 1 \in S
  <2>1. PICK f : UPasses(f, s, text, k)
    BY <1>2
  <2> DEFINE g == [n \in 0 .. (k + 1) |-> IF n <= k THEN f[n] ELSE UPassed(s, text, n, f[n - 1])]
  <2>2. \A n \in 0 .. k : f[n] = UPassed(s, text, n, f[n - 1])
    BY <2>1, UPassesAt
  <2>3. (\A n \in 0 .. k : g[n] = f[n]) /\ g[k + 1] = UPassed(s, text, k + 1, f[k])
    OBVIOUS
  <2>4. g = [n \in 0 .. (k + 1) |-> g[n]]
    OBVIOUS
  <2> HIDE DEF g
  <2>5. ASSUME NEW n \in 0 .. k PROVE g[n] = UPassed(s, text, n, g[n - 1])
    <3>1. CASE n = 0
      BY <2>2, <2>3, <3>1 DEF UPassed
    <3>2. CASE n # 0
      <4>1. n - 1 \in 0 .. k
        BY <3>2
      <4>2. g[n] = f[n] /\ g[n - 1] = f[n - 1]
        BY <2>3, <4>1
      <4> QED BY <2>2, <4>2
    <3> QED BY <3>1, <3>2
  <2>6. g[k + 1] = UPassed(s, text, k + 1, g[(k + 1) - 1])
    <3>1. (k + 1) - 1 = k /\ k \in 0 .. k
      OBVIOUS
    <3>2. g[(k + 1) - 1] = f[k]
      BY <2>3, <3>1
    <3> QED BY <2>3, <3>2
  <2>7. \A n \in 0 .. (k + 1) : g[n] = UPassed(s, text, n, g[n - 1])
    <3>1. \A n \in 0 .. (k + 1) : n \in 0 .. k \/ n = k + 1
      OBVIOUS
    <3> QED BY <2>5, <2>6, <3>1, Zenon
  <2>8. UPasses(g, s, text, k + 1)
    <3>1. g = [n \in 0 .. (k + 1) |-> UPassed(s, text, n, g[n - 1])]
      BY <2>4, <2>7
    <3> QED BY <3>1, Zenon DEF UPasses
  <2> QED BY <2>8
<1>3. 0 .. m \subseteq S
  <2> HIDE DEF S
  <2> QED BY <1>1, <1>2, Induct
<1> QED BY <1>3

\* Unquoted goes through them.
LEMMA UnquotedPasses ==
    ASSUME NEW C, NEW text \in Seq(C)
    PROVE  \E f : UPasses(f, Unread, text, Len(text)) /\ Unquoted(text) = f[Len(text)]
<1> DEFINE f == CHOOSE f : UPasses(f, Unread, text, Len(text))
<1>1. UPasses(f, Unread, text, Len(text))
  <2>1. \E g : UPasses(g, Unread, text, Len(text))
    BY LenProperties, UPassesExist
  <2> QED BY <2>1, Zenon
<1>2. f = CHOOSE g : g = [n \in 0 .. Len(text) |-> IF n = 0 THEN Unread ELSE UnquoteRune(g[n - 1], text[n])]
  BY Zenon DEF UPasses, UPassed
<1>3. Unquoted(text) = f[Len(text)]
  BY <1>2, Zenon DEF Unquoted, Unread
<1> QED BY <1>1, <1>3, Zenon

LEMMA UnquotedStart ==
    Unquoted(<<>>) = Unread
<1>1. <<>> \in Seq({}) /\ Len(<<>>) = 0 /\ 0 \in 0 .. 0
  BY EmptySeq
<1>2. PICK f : UPasses(f, Unread, <<>>, 0) /\ Unquoted(<<>>) = f[0]
  BY <1>1, UnquotedPasses
<1>3. \A n \in 0 .. 0 : f[n] = UPassed(Unread, <<>>, n, f[n - 1])
  <2>1. 0 \in Nat
    OBVIOUS
  <2>2. UPasses(f, Unread, <<>>, 0)
    BY <1>2, Zenon
  <2> QED BY <2>1, <2>2, UPassesAt, SMTT(30)
<1>4. f[0] = UPassed(Unread, <<>>, 0, f[0 - 1])
  BY <1>1, <1>3
<1> QED BY <1>2, <1>4 DEF UPassed

\* One rune more.
LEMMA UnquotedAppend ==
    ASSUME NEW C, NEW u \in Seq(C), NEW c \in C
    PROVE  Unquoted(Append(u, c)) = UnquoteRune(Unquoted(u), c)
<1> DEFINE t == Append(u, c)
<1>1. /\ t \in Seq(C) /\ Len(t) = Len(u) + 1 /\ Len(u) \in Nat
      /\ t[Len(u) + 1] = c /\ \A n \in 1 .. Len(u) : t[n] = u[n]
  BY AppendProperties, LenProperties
<1> HIDE DEF t
<1>a. PICK k \in Nat : k = Len(u)
  BY <1>1
<1>b. PICK m \in Nat : m = k + 1
  OBVIOUS
<1>c. m = Len(t) /\ t[m] = c /\ \A n \in 1 .. k : t[n] = u[n]
  BY <1>1, <1>a, <1>b
<1>2. PICK f : UPasses(f, Unread, t, m) /\ Unquoted(t) = f[m]
  BY <1>1, <1>c, UnquotedPasses
<1>3. PICK g : UPasses(g, Unread, u, k) /\ Unquoted(u) = g[k]
  BY <1>a, UnquotedPasses
<1>4. k <= m /\ m \in 0 .. m /\ m # 0 /\ m - 1 = k /\ k \in 0 .. k
  BY <1>b
<1>5. f[k] = g[k]
  <2>1. Agree(t, u, k)
    BY <1>c DEF Agree
  <2>2. k \in 0 .. m
    BY <1>4
  <2> QED BY <1>2, <1>3, <2>1, <2>2, UPassesOne
<1>6. \A n \in 0 .. m : f[n] = UPassed(Unread, t, n, f[n - 1])
  BY <1>2, UPassesAt
<1>7. f[m] = UnquoteRune(f[k], t[m])
  BY <1>4, <1>6 DEF UPassed
<1>8. Unquoted(t) = UnquoteRune(Unquoted(u), c)
  BY <1>c, <1>2, <1>3, <1>4, <1>5, <1>7
<1> QED BY <1>8 DEF t

-----------------------------------------------------------------------------
(* Tokens between spaces. *)

NoGroups == <<>>

\* The states of the automaton on the way through a text.
GPassed(s, text, n, before) == IF n = 0 THEN s ELSE CutToken(before, text[n])

GPasses(f, s, text, m) == f = [n \in 0 .. m |-> GPassed(s, text, n, f[n - 1])]

LEMMA GPassesAt ==
    ASSUME NEW s, NEW text, NEW m \in Nat, NEW f, GPasses(f, s, text, m)
    PROVE  \A n \in 0 .. m : f[n] = GPassed(s, text, n, f[n - 1])
BY Zenon DEF GPasses

\* They are the same for texts that begin in the same way.
LEMMA GPassesOne ==
    ASSUME NEW s, NEW text, NEW other, NEW m \in Nat, NEW k \in 0 .. m, NEW f, NEW g,
           Agree(text, other, k), GPasses(f, s, text, m), GPasses(g, s, other, k)
    PROVE  f[k] = g[k]
<1>0. \A n \in 1 .. k : text[n] = other[n]
  BY DEF Agree
<1> DEFINE S == {n \in Nat : n <= k => f[n] = g[n]}
<1>1. /\ \A n \in 0 .. m : f[n] = GPassed(s, text, n, f[n - 1])
      /\ \A n \in 0 .. k : g[n] = GPassed(s, other, n, g[n - 1])
  <2>1. \A n \in 0 .. m : f[n] = GPassed(s, text, n, f[n - 1])
    BY GPassesAt
  <2>2. \A n \in 0 .. k : g[n] = GPassed(s, other, n, g[n - 1])
    BY GPassesAt
  <2> QED BY <2>1, <2>2
<1>2. 0 \in S
  <2>1. f[0] = s /\ g[0] = s
    BY <1>1 DEF GPassed
  <2> QED BY <2>1
<1>3. ASSUME NEW n \in 0 .. (k - 1), n \in S PROVE n + 1 \in S
  <2>1. n + 1 \in 0 .. m /\ n + 1 \in 0 .. k /\ n + 1 \in 1 .. k /\ (n + 1) - 1 = n /\ n + 1 # 0
    OBVIOUS
  <2>2. f[n + 1] = CutToken(f[n], text[n + 1]) /\ g[n + 1] = CutToken(g[n], other[n + 1])
    BY <1>1, <2>1 DEF GPassed
  <2>3. f[n] = g[n] /\ text[n + 1] = other[n + 1]
    BY <1>0, <1>3, <2>1
  <2> QED BY <2>2, <2>3
<1>4. 0 .. k \subseteq S
  <2> HIDE DEF S
  <2> QED BY <1>2, <1>3, Induct
<1> QED BY <1>4

LEMMA GPassesExist ==
    ASSUME NEW s, NEW text, NEW m \in Nat
    PROVE  \E f : GPasses(f, s, text, m)
<1> DEFINE S == {k \in Nat : \E f : GPasses(f, s, text, k)}
<1>1. 0 \in S
  <2> DEFINE f == [n \in 0 .. 0 |-> s]
  <2>1. \A n \in 0 .. 0 : GPassed(s, text, n, f[n - 1]) = s
    BY DEF GPassed
  <2>2. f = [n \in 0 .. 0 |-> GPassed(s, text, n, f[n - 1])]
    BY <2>1
  <2> HIDE DEF f
  <2>3. GPasses(f, s, text, 0)
    BY <2>2, Zenon DEF GPasses
  <2> QED BY <2>3
<1>2. ASSUME NEW k \in Nat, k \in S PROVE k + 1 \in S
  <2>1. PICK f : GPasses(f, s, text, k)
    BY <1>2
  <2> DEFINE g == [n \in 0 .. (k + 1) |-> IF n <= k THEN f[n] ELSE GPassed(s, text, n, f[n - 1])]
  <2>2. \A n \in 0 .. k : f[n] = GPassed(s, text, n, f[n - 1])
    BY <2>1, GPassesAt
  <2>3. (\A n \in 0 .. k : g[n] = f[n]) /\ g[k + 1] = GPassed(s, text, k + 1, f[k])
    OBVIOUS
  <2>4. g = [n \in 0 .. (k + 1) |-> g[n]]
    OBVIOUS
  <2> HIDE DEF g
  <2>5. ASSUME NEW n \in 0 .. k PROVE g[n] = GPassed(s, text, n, g[n - 1])
    <3>1. CASE n = 0
      BY <2>2, <2>3, <3>1 DEF GPassed
    <3>2. CASE n # 0
      <4>1. n - 1 \in 0 .. k
        BY <3>2
      <4>2. g[n] = f[n] /\ g[n - 1] = f[n - 1]
        BY <2>3, <4>1
      <4> QED BY <2>2, <4>2
    <3> QED BY <3>1, <3>2
  <2>6. g[k + 1] = GPassed(s, text, k + 1, g[(k + 1) - 1])
    <3>1. (k + 1) - 1 = k /\ k \in 0 .. k
      OBVIOUS
    <3>2. g[(k + 1) - 1] = f[k]
      BY <2>3, <3>1
    <3> QED BY <2>3, <3>2
  <2>7. \A n \in 0 .. (k + 1) : g[n] = GPassed(s, text, n, g[n - 1])
    <3>1. \A n \in 0 .. (k + 1) : n \in 0 .. k \/ n = k + 1
      OBVIOUS
    <3> QED BY <2>5, <2>6, <3>1, Zenon
  <2>8. GPasses(g, s, text, k + 1)
    <3>1. g = [n \in 0 .. (k + 1) |-> GPassed(s, text, n, g[n - 1])]
      BY <2>4, <2>7
    <3> QED BY <3>1, Zenon DEF GPasses
  <2> QED BY <2>8
<1>3. 0 .. m \subseteq S
  <2> HIDE DEF S
  <2> QED BY <1>1, <1>2, Induct
<1> QED BY <1>3

\* CutTokens goes through them.
LEMMA CutTokensPasses ==
    ASSUME NEW C, NEW text \in Seq(C)
    PROVE  \E f : GPasses(f, NoGroups, text, Len(text)) /\ CutTokens(text) = f[Len(text)]
<1> DEFINE f == CHOOSE f : GPasses(f, NoGroups, text, Len(text))
<1>1. GPasses(f, NoGroups, text, Len(text))
  <2>1. \E g : GPasses(g, NoGroups, text, Len(text))
    BY LenProperties, GPassesExist
  <2> QED BY <2>1, Zenon
<1>2. f = CHOOSE g : g = [n \in 0 .. Len(text) |-> IF n = 0 THEN NoGroups ELSE CutToken(g[n - 1], text[n])]
  BY Zenon DEF GPasses, GPassed
<1>3. CutTokens(text) = f[Len(text)]
  BY <1>2, ZenonT(40) DEF CutTokens, NoGroups
<1> QED BY <1>1, <1>3, Zenon

LEMMA CutTokensStart ==
    CutTokens(<<>>) = NoGroups
<1>1. <<>> \in Seq({}) /\ Len(<<>>) = 0 /\ 0 \in 0 .. 0
  BY EmptySeq
<1>2. PICK f : GPasses(f, NoGroups, <<>>, 0) /\ CutTokens(<<>>) = f[0]
  BY <1>1, CutTokensPasses
<1>3. \A n \in 0 .. 0 : f[n] = GPassed(NoGroups, <<>>, n, f[n - 1])
  <2>1. 0 \in Nat
    OBVIOUS
  <2>2. GPasses(f, NoGroups, <<>>, 0)
    BY <1>2, Zenon
  <2> QED BY <2>1, <2>2, GPassesAt
<1>4. f[0] = GPassed(NoGroups, <<>>, 0, f[0 - 1])
  BY <1>1, <1>3
<1> QED BY <1>2, <1>4 DEF GPassed

\* One rune more.
LEMMA CutTokensAppend ==
    ASSUME NEW C, NEW u \in Seq(C), NEW c \in C
    PROVE  CutTokens(Append(u, c)) = CutToken(CutTokens(u), c)
<1> DEFINE t == Append(u, c)
<1>1. /\ t \in Seq(C) /\ Len(t) = Len(u) + 1 /\ Len(u) \in Nat
      /\ t[Len(u) + 1] = c /\ \A n \in 1 .. Len(u) : t[n] = u[n]
  BY AppendProperties, LenProperties
<1> HIDE DEF t
<1>a. PICK k \in Nat : k = Len(u)
  BY <1>1
<1>b. PICK m \in Nat : m = k + 1
  OBVIOUS
<1>c. m = Len(t) /\ t[m] = c /\ \A n \in 1 .. k : t[n] = u[n]
  BY <1>1, <1>a, <1>b
<1>2. PICK f : GPasses(f, NoGroups, t, m) /\ CutTokens(t) = f[m]
  BY <1>1, <1>c, CutTokensPasses
<1>3. PICK g : GPasses(g, NoGroups, u, k) /\ CutTokens(u) = g[k]
  BY <1>a, CutTokensPasses
<1>4. k <= m /\ m \in 0 .. m /\ m # 0 /\ m - 1 = k /\ k \in 0 .. k
  BY <1>b
<1>5. f[k] = g[k]
  <2>1. Agree(t, u, k)
    BY <1>c DEF Agree
  <2>2. k \in 0 .. m
    BY <1>4
  <2> QED BY <1>2, <1>3, <2>1, <2>2, GPassesOne
<1>6. \A n \in 0 .. m : f[n] = GPassed(NoGroups, t, n, f[n - 1])
  BY <1>2, GPassesAt
<1>7. f[m] = CutToken(f[k], t[m])
  BY <1>4, <1>6 DEF GPassed
<1>8. CutTokens(t) = CutToken(CutTokens(u), c)
  BY <1>c, <1>2, <1>3, <1>4, <1>5, <1>7
<1> QED BY <1>8 DEF t

-----------------------------------------------------------------------------
(* A quotation is read as what was quoted. *)

\* A sequence is another one with its last element.
LEMMA LongerByOne ==
    ASSUME NEW D, NEW a \in Seq(D), NEW b \in Seq(D), NEW n \in Nat, Len(b) = n, Len(a) = n + 1,
           NEW x \in D, a[n + 1] = x, \A i \in 1 .. n : a[i] = b[i]
    PROVE  a = Append(b, x)
<1>1. PICK c \in Seq(D) : c = Append(b, x)
  BY AppendProperties
<1>2. Len(c) = n + 1 /\ c[n + 1] = x /\ \A i \in 1 .. n : c[i] = b[i]
  BY <1>1, AppendProperties
<1>3. \A i \in 1 .. n + 1 : i \in 1 .. n \/ i = n + 1
  OBVIOUS
<1>4. \A i \in 1 .. n + 1 : a[i] = c[i]
  BY <1>2, <1>3
<1>5. a = c
  BY <1>2, <1>4, SeqEqual
<1> QED BY <1>1, <1>5

LEMMA EscapeFacts ==
    /\ DOMAIN Escapes = {"\\", "\"", "n", "0"}
    /\ \A e \in DOMAIN Escapes : Escapes[e] \in Runes /\ e \in Runes
    /\ Escapes["\""] = "\"" /\ Escapes["\\"] = "\\" /\ Escapes["n"] = "\n" /\ Escapes["0"] = NUL
<1>1. DOMAIN Escapes = {"\\", "\"", "n", "0"}
  BY DEF Escapes
<1>2. Escapes["\""] = "\"" /\ Escapes["\\"] = "\\" /\ Escapes["n"] = "\n" /\ Escapes["0"] = NUL
  BY DEF Escapes
<1>3. {"\\", "\"", "n", "0", "\n", NUL} \subseteq Runes
  BY RuneFacts DEF NUL
<1>4. \A e \in DOMAIN Escapes : Escapes[e] \in Runes /\ e \in Runes
  BY <1>1, <1>2, <1>3
<1> QED BY <1>1, <1>2, <1>4

UnquoteState == [out : Text, escape : BOOLEAN, ok : BOOLEAN]

LEMMA UnreadState ==
    /\ Unread \in UnquoteState
    /\ Unread.out = <<>> /\ Unread.escape = FALSE /\ Unread.ok = TRUE
BY RuneFacts DEF Unread, UnquoteState

LEMMA UnquoteRuneState ==
    ASSUME NEW u \in UnquoteState, NEW c \in Runes
    PROVE  /\ UnquoteRune(u, c) \in UnquoteState
           /\ ~u.escape /\ c # "\\" =>
                 UnquoteRune(u, c).escape = FALSE /\ UnquoteRune(u, c).out = Append(u.out, c)
<1>1. PICK o \in Text : o = u.out
  BY DEF UnquoteState
<1>2. Append(o, c) \in Text
  BY AppendProperties DEF Text
<1>3. PICK r : r = UnquoteRune(u, c)
  OBVIOUS
<1>4. CASE u.escape
  <2>1. CASE c \in DOMAIN Escapes
    <3>1. r = [u EXCEPT !.escape = FALSE, !.out = Append(@, Escapes[c])]
      BY <1>3, <1>4, <2>1 DEF UnquoteRune
    <3>2. Append(o, Escapes[c]) \in Text
      BY <2>1, EscapeFacts, AppendProperties DEF Text
    <3>3. r \in UnquoteState
      BY <1>1, <3>1, <3>2 DEF UnquoteState
    <3> QED BY <1>3, <1>4, <3>3
  <2>2. CASE c \notin DOMAIN Escapes
    <3>1. r = [u EXCEPT !.ok = FALSE, !.escape = FALSE]
      BY <1>3, <1>4, <2>2 DEF UnquoteRune
    <3>2. r \in UnquoteState
      BY <3>1 DEF UnquoteState
    <3> QED BY <1>3, <1>4, <3>2
  <2> QED BY <2>1, <2>2
<1>5. CASE ~u.escape
  <2>1. CASE c = "\\"
    <3>1. r = [u EXCEPT !.escape = TRUE]
      BY <1>3, <1>5, <2>1 DEF UnquoteRune
    <3>2. r \in UnquoteState
      BY <3>1 DEF UnquoteState
    <3> QED BY <1>3, <2>1, <3>2
  <2>2. CASE c # "\\"
    <3>1. r = [u EXCEPT !.ok = @ /\ c \notin {"\"", "\n"}, !.out = Append(@, c)]
      BY <1>3, <1>5, <2>2 DEF UnquoteRune
    <3>2. PICK k \in BOOLEAN : k = (u.ok /\ c \notin {"\"", "\n"})
      BY Zenon
    <3>3. r = [u EXCEPT !.ok = k, !.out = Append(@, c)]
      BY <3>1, <3>2
    <3>4. r \in UnquoteState /\ r.out = Append(u.out, c) /\ r.escape = u.escape
      BY <1>1, <1>2, <3>3 DEF UnquoteState
    <3> QED BY <1>3, <1>5, <3>4
  <2> QED BY <2>1, <2>2
<1> QED BY <1>4, <1>5

LEMMA UnquotedState ==
    ASSUME NEW v \in Text
    PROVE  Unquoted(v) \in UnquoteState
<1> DEFINE S == {w \in Text : Unquoted(w) \in UnquoteState}
<1>1. <<>> \in S
  BY RuneFacts, UnreadState, UnquotedStart
<1>2. ASSUME NEW w \in Seq(Runes), NEW c \in Runes, w \in S PROVE Append(w, c) \in S
  <2>1. Unquoted(Append(w, c)) = UnquoteRune(Unquoted(w), c) /\ Append(w, c) \in Text
    BY UnquotedAppend, AppendProperties DEF Text
  <2>2. Unquoted(w) \in UnquoteState
    BY <1>2
  <2> QED BY <2>1, <2>2, UnquoteRuneState
<1>3. Seq(Runes) \subseteq S
  <2> HIDE DEF S
  <2> QED BY <1>1, <1>2, InductSeq
<1> QED BY <1>3 DEF Text

\* A text without backslashes stands for itself.
LEMMA UnquotedSame ==
    ASSUME NEW v \in Text, "\\" \notin ToSet(v)
    PROVE  Unquoted(v).escape = FALSE /\ Unquoted(v).out = v
<1> DEFINE S == {w \in Text : "\\" \notin ToSet(w) =>
                                  Unquoted(w).escape = FALSE /\ Unquoted(w).out = w}
<1>1. <<>> \in S
  BY RuneFacts, UnreadState, UnquotedStart
<1>2. ASSUME NEW w \in Seq(Runes), NEW c \in Runes, w \in S PROVE Append(w, c) \in S
  <2>1. Unquoted(Append(w, c)) = UnquoteRune(Unquoted(w), c) /\ Append(w, c) \in Text
    BY UnquotedAppend, AppendProperties DEF Text
  <2>2. ASSUME "\\" \notin ToSet(Append(w, c))
        PROVE  Unquoted(Append(w, c)).escape = FALSE /\ Unquoted(Append(w, c)).out = Append(w, c)
    <3>1. c # "\\" /\ "\\" \notin ToSet(w)
      BY <2>2, ToSetAppend
    <3>2. PICK u \in UnquoteState : u = Unquoted(w)
      BY UnquotedState DEF Text
    <3>3. ~u.escape /\ u.out = w
      BY <1>2, <3>1, <3>2
    <3>4. UnquoteRune(u, c).escape = FALSE /\ UnquoteRune(u, c).out = Append(u.out, c)
      BY <3>1, <3>3, UnquoteRuneState
    <3> QED BY <2>1, <3>2, <3>3, <3>4
  <2> QED BY <2>1, <2>2
<1>3. Seq(Runes) \subseteq S
  <2> HIDE DEF S
  <2> QED BY <1>1, <1>2, InductSeq
<1> QED BY <1>3 DEF Text

LEMMA UnquoteFacts ==
    ASSUME NEW v \in Text
    PROVE  Unquote(v) \in Text /\ ("\\" \notin ToSet(v) => Unquote(v) = v)
<1>1. PICK u \in UnquoteState : u = Unquoted(v)
  BY UnquotedState
<1>2. Unquote(v) = IF u.ok /\ ~u.escape THEN u.out ELSE v
  BY <1>1, Zenon DEF Unquote
<1>3. u.out \in Text
  BY DEF UnquoteState
<1>4. "\\" \notin ToSet(v) => u.out = v
  BY <1>1, UnquotedSame
<1> QED BY <1>2, <1>3, <1>4

LEMMA QuoteRuneFacts ==
    ASSUME NEW c \in Runes
    PROVE  /\ QuoteRune(c) \in Text
           /\ c = "\"" => QuoteRune(c) = <<"\\", "\"">>
           /\ c \notin {"\\", "\"", "\n", NUL} => QuoteRune(c) = <<c>>
<1>1. PICK E : E = {Escapes[e] : e \in DOMAIN Escapes}
  OBVIOUS
<1>2. E = {"\\", "\"", "\n", NUL}
  BY <1>1, EscapeFacts
<1>3. QuoteRune(c) = IF c \in E THEN <<"\\", Escaped(c)>> ELSE <<c>>
  BY <1>1, Zenon DEF QuoteRune
<1>4. ASSUME c \in E PROVE Escaped(c) \in DOMAIN Escapes /\ Escapes[Escaped(c)] = c
  <2>1. \E e \in DOMAIN Escapes : Escapes[e] = c
    BY <1>1, <1>4
  <2> QED BY <2>1, Zenon DEF Escaped
<1>5. ASSUME c \in E PROVE Escaped(c) \in Runes
  BY <1>4, <1>5, EscapeFacts
<1>6. QuoteRune(c) \in Text
  BY <1>3, <1>5, RuneFacts
<1>7. ASSUME c = "\"" PROVE Escaped(c) = "\""
  <2>1. c \in E
    BY <1>2, <1>7
  <2>2. \A e \in DOMAIN Escapes : Escapes[e] = "\"" => e = "\""
    BY EscapeFacts DEF NUL
  <2> QED BY <1>4, <1>7, <2>1, <2>2
<1> QED BY <1>2, <1>3, <1>6, <1>7

QuoteRunes(v) == [i \in DOMAIN v |-> QuoteRune(v[i])]

LEMMA QuoteRunesSeq ==
    ASSUME NEW v \in Text
    PROVE  QuoteRunes(v) \in Seq(Text) /\ Len(QuoteRunes(v)) = Len(v)
<1>1. DOMAIN v = 1 .. Len(v) /\ Len(v) \in Nat
  BY LenProperties DEF Text
<1>2. \A i \in 1 .. Len(v) : QuoteRune(v[i]) \in Text
  <2>1. \A i \in 1 .. Len(v) : v[i] \in Runes
    BY ElementOfSeq DEF Text
  <2> QED BY <2>1, QuoteRuneFacts
<1> QED BY <1>1, <1>2 DEF QuoteRunes

LEMMA QuoteRunesAppend ==
    ASSUME NEW v \in Text, NEW c \in Runes
    PROVE  QuoteRunes(Append(v, c)) = Append(QuoteRunes(v), QuoteRune(c))
<1>1. PICK u \in Text : u = Append(v, c)
  BY AppendProperties DEF Text
<1>2. PICK n \in Nat : n = Len(v)
  BY LenProperties DEF Text
<1>3. Len(u) = n + 1 /\ u[n + 1] = c /\ \A i \in 1 .. n : u[i] = v[i]
  BY <1>1, <1>2, AppendProperties DEF Text
<1>4. PICK a \in Seq(Text) : a = QuoteRunes(u)
  BY QuoteRunesSeq
<1>5. PICK b \in Seq(Text) : b = QuoteRunes(v)
  BY QuoteRunesSeq
<1>6. Len(a) = n + 1 /\ Len(b) = n
  BY <1>2, <1>3, <1>4, <1>5, QuoteRunesSeq
<1>7. DOMAIN u = 1 .. n + 1 /\ DOMAIN v = 1 .. n
  BY <1>2, <1>3, LenProperties DEF Text
<1>8. (\A i \in 1 .. n + 1 : a[i] = QuoteRune(u[i])) /\ (\A i \in 1 .. n : b[i] = QuoteRune(v[i]))
  BY <1>4, <1>5, <1>7 DEF QuoteRunes
<1>9. PICK x \in Text : x = QuoteRune(c)
  BY QuoteRuneFacts
<1>10. a[n + 1] = x /\ \A i \in 1 .. n : a[i] = b[i]
  <2>1. n + 1 \in 1 .. n + 1 /\ \A i \in 1 .. n : i \in 1 .. n + 1
    OBVIOUS
  <2> QED BY <1>3, <1>8, <1>9, <2>1
<1>11. a = Append(b, x)
  BY <1>6, <1>10, LongerByOne
<1> QED BY <1>1, <1>4, <1>5, <1>9, <1>11

\* What is between the marks.
Quoted(v) == FlattenSeq(QuoteRunes(v))

LEMMA QuotedFacts ==
    /\ Quoted(<<>>) = <<>>
    /\ \A v \in Text : Quoted(v) \in Text /\ Quote(v) = (<<"\"">> \o Quoted(v)) \o <<"\"">> /\ Quote(v) \in Text
    /\ \A v \in Text, c \in Runes : Quoted(Append(v, c)) = Quoted(v) \o QuoteRune(c)
<1>1. Quoted(<<>>) = <<>>
  <2>1. QuoteRunes(<<>>) = <<>>
    BY DEF QuoteRunes
  <2> QED BY <2>1, FlattenEmpty DEF Quoted
<1>2. ASSUME NEW v \in Text
      PROVE  Quoted(v) \in Text /\ Quote(v) = (<<"\"">> \o Quoted(v)) \o <<"\"">> /\ Quote(v) \in Text
  <2>1. Quoted(v) \in Text
    BY QuoteRunesSeq, FlattenType DEF Quoted, Text
  <2>2. Quote(v) = <<"\"">> \o Quoted(v) \o <<"\"">>
    BY Zenon DEF Quote, Quoted, QuoteRunes
  <2>3. <<"\"">> \in Text
    BY RuneFacts
  <2>4. (<<"\"">> \o Quoted(v)) \o <<"\"">> \in Text
    BY <2>1, <2>3, ConcatProperties DEF Text
  <2> QED BY <2>1, <2>2, <2>4
<1>3. ASSUME NEW v \in Text, NEW c \in Runes
      PROVE  Quoted(Append(v, c)) = Quoted(v) \o QuoteRune(c)
  <2>1. QuoteRunes(v) \in Seq(Seq(Runes)) /\ QuoteRune(c) \in Seq(Runes)
    BY QuoteRunesSeq, QuoteRuneFacts DEF Text
  <2>2. FlattenSeq(Append(QuoteRunes(v), QuoteRune(c))) = FlattenSeq(QuoteRunes(v)) \o QuoteRune(c)
    BY <2>1, FlattenAppend
  <2> QED BY <2>2, QuoteRunesAppend, Zenon DEF Quoted
<1> QED BY <1>1, <1>2, <1>3

LEMMA RunOne ==
    ASSUME NEW s, NEW c \in Runes
    PROVE  Run(s, <<c>>) = ScanRune(s, c)
<1>1. <<c>> = Append(<<>>, c) /\ <<>> \in Seq(Runes)
  OBVIOUS
<1>2. Run(s, Append(<<>>, c)) = ScanRune(Run(s, <<>>), c)
  BY <1>1, RunAppend, ZenonT(60)
<1> QED BY <1>1, <1>2, RunEmpty

LEMMA RunTwo ==
    ASSUME NEW s, NEW c \in Runes, NEW d \in Runes
    PROVE  Run(s, <<c, d>>) = ScanRune(ScanRune(s, c), d)
<1>1. <<c, d>> = Append(<<c>>, d) /\ <<c>> \in Seq(Runes)
  OBVIOUS
<1>2. Run(s, Append(<<c>>, d)) = ScanRune(Run(s, <<c>>), d)
  BY <1>1, RunAppend, ZenonT(60)
<1> QED BY <1>1, <1>2, RunOne

\* The automaton between the marks.
InQuotation(s, v) ==
    Scanning(s) /\ s.mode = "quoted" /\ s.delim = "\"" /\ s.tokens = <<>> /\ s.value = v

LEMMA QuotationStarts == InQuotation(State(<<"\"">>), <<>>)
<1>1. PICK c \in Runes : c = "\""
  BY RuneFacts
<1>2. State(<<c>>) = BeginToken(Start, c) /\ Scanning(State(<<c>>))
  BY AfterRune, RuneFacts, RunScanning, StartScanning DEF State
<1>3. PICK s : s = BeginToken(Start, c)
  OBVIOUS
<1>4. Start.mode = "scan" /\ Start.tokens = <<>> /\ Scanning(Start)
  BY StartScanning DEF Start
<1>5. BeginsQuotation(Start, c, s)
  <2>1. ~BeginsString(Start, c, s)
    BY <1>1 DEF BeginsString
  <2>2. ~MakesToken(Start, c, s)
    BY <1>1 DEF MakesToken, IsTokenOf, Spaces
  <2> QED BY <1>3, <1>4, <2>1, <2>2, BeginCases
<1> QED BY <1>1, <1>2, <1>3, <1>4, <1>5 DEF BeginsQuotation, InQuotation

QuoteSafe(v) == ToSet(v) \cap {"\\", "\n", NUL} = {}

LEMMA QuotationStep ==
    ASSUME NEW v \in Text, NEW s, InQuotation(s, v), NEW c \in Runes, c \notin {"\\", "\n", NUL}
    PROVE  InQuotation(Run(s, QuoteRune(c)), Append(v, c))
<1>1. Scanning(s) /\ s.mode = "quoted" /\ s.delim = "\"" /\ s.tokens = <<>> /\ s.value = v /\ s \in Scanner
  BY DEF InQuotation, Scanning
<1>2. Append(v, c) \in Text
  BY AppendProperties DEF Text
<1>3. CASE c = "\""
  <2>1. PICK b \in Runes : b = "\\"
    BY RuneFacts
  <2>2. PICK t : t = ScanRune(s, b)
    OBVIOUS
  <2>3. t = [s EXCEPT !.mode = "escape"]
    BY <1>1, <2>1, <2>2, InQuoted
  <2>4. t.mode = "escape" /\ t.delim = "\"" /\ t.tokens = <<>> /\ t.value = v /\ t \in Scanner
    BY <1>1, <2>3 DEF Scanner
  <2>5. PICK r : r = ScanRune(t, c)
    OBVIOUS
  <2>6. r = [t EXCEPT !.mode = "quoted", !.value = @ \o (IF c \in {t.delim, "\\"} THEN <<c>> ELSE <<"\\", c>>)]
    BY <2>4, <2>5, InEscape
  <2>7. r = [t EXCEPT !.mode = "quoted", !.value = v \o <<c>>]
    BY <1>3, <2>4, <2>6
  <2>8. v \o <<c>> = Append(v, c)
    BY AppendIsConcat DEF Text
  <2>9. r.mode = "quoted" /\ r.delim = "\"" /\ r.tokens = <<>> /\ r.value = Append(v, c)
    BY <2>4, <2>7, <2>8 DEF Scanner
  <2>10. Scanning(r)
    BY <1>1, <2>2, <2>5, RuneScanning
  <2>11. Run(s, QuoteRune(c)) = r
    <3>1. Run(s, <<b, c>>) = ScanRune(ScanRune(s, b), c)
      BY RunTwo
    <3>2. QuoteRune(c) = <<"\\", "\"">>
      BY <1>3, QuoteRuneFacts
    <3>3. QuoteRune(c) = <<b, c>>
      BY <1>3, <2>1, <3>2
    <3> QED BY <2>2, <2>5, <3>1, <3>3
  <2> QED BY <2>9, <2>10, <2>11 DEF InQuotation
<1>4. CASE c # "\""
  <2>1. PICK r : r = ScanRune(s, c)
    OBVIOUS
  <2>2. r = [s EXCEPT !.value = Append(@, IF c \in Spaces THEN " " ELSE c)]
    BY <1>1, <1>4, <2>1, InQuoted
  <2>3. c \in Spaces => c = " "
    BY DEF Spaces
  <2>4. r = [s EXCEPT !.value = Append(v, c)]
    BY <1>1, <2>2, <2>3
  <2>5. r.mode = "quoted" /\ r.delim = "\"" /\ r.tokens = <<>> /\ r.value = Append(v, c)
    BY <1>1, <2>4 DEF Scanner
  <2>6. Scanning(r)
    BY <1>1, <2>1, RuneScanning
  <2>7. Run(s, QuoteRune(c)) = r
    <3>1. QuoteRune(c) = <<c>>
      BY <1>4, QuoteRuneFacts
    <3> QED BY <2>1, <3>1, RunOne
  <2> QED BY <2>5, <2>6, <2>7 DEF InQuotation
<1> QED BY <1>3, <1>4

LEMMA QuotationRun ==
    ASSUME NEW v \in Text, QuoteSafe(v)
    PROVE  InQuotation(Run(State(<<"\"">>), Quoted(v)), v)
<1>0. PICK q : q = State(<<"\"">>)
  OBVIOUS
<1> DEFINE S == {w \in Text : QuoteSafe(w) => InQuotation(Run(q, Quoted(w)), w)}
<1>1. <<>> \in S
  BY <1>0, QuotationStarts, QuotedFacts, RunEmpty, RuneFacts
<1>2. ASSUME NEW w \in Seq(Runes), NEW c \in Runes, w \in S PROVE Append(w, c) \in S
  <2>1. Append(w, c) \in Text /\ w \in Text
    BY AppendProperties DEF Text
  <2>2. ASSUME QuoteSafe(Append(w, c)) PROVE InQuotation(Run(q, Quoted(Append(w, c))), Append(w, c))
    <3>1. ToSet(Append(w, c)) = ToSet(w) \cup {c}
      BY ToSetAppend
    <3>2. QuoteSafe(w) /\ c \notin {"\\", "\n", NUL}
      BY <2>2, <3>1 DEF QuoteSafe
    <3>3. InQuotation(Run(q, Quoted(w)), w)
      BY <1>2, <3>2
    <3>4. PICK s : s = Run(q, Quoted(w))
      OBVIOUS
    <3>5. InQuotation(Run(s, QuoteRune(c)), Append(w, c))
      BY <2>1, <3>2, <3>3, <3>4, QuotationStep
    <3>6. Quoted(w) \in Seq(Runes) /\ QuoteRune(c) \in Seq(Runes)
      BY <2>1, QuotedFacts, QuoteRuneFacts DEF Text
    <3>7. Run(q, Quoted(w) \o QuoteRune(c)) = Run(Run(q, Quoted(w)), QuoteRune(c))
      BY <3>6, RunConcat
    <3>8. Quoted(Append(w, c)) = Quoted(w) \o QuoteRune(c)
      BY <2>1, QuotedFacts
    <3> QED BY <3>4, <3>5, <3>7, <3>8
  <2> QED BY <2>1, <2>2
<1>3. Seq(Runes) \subseteq S
  <2> HIDE DEF S
  <2> QED BY <1>1, <1>2, InductSeq
<1> QED BY <1>0, <1>3 DEF Text

\* The whole quotation is one token.
LEMMA ScanQuote ==
    ASSUME NEW v \in Text, QuoteSafe(v)
    PROVE  Scan(Quote(v)) = <<Token("STRQ", v)>> /\ State(Quote(v)).mode = "scan" /\ Quote(v) \in Text
<1>1. PICK d \in Runes : d = "\""
  BY RuneFacts
<1>2. PICK u \in Text : u = <<d>> \o Quoted(v)
  BY QuotedFacts, ConcatProperties, RuneFacts DEF Text
<1>3. Run(Start, <<d>> \o Quoted(v)) = Run(Run(Start, <<d>>), Quoted(v))
  <2>1. <<d>> \in Seq(Runes) /\ Quoted(v) \in Seq(Runes)
    BY RuneFacts, QuotedFacts DEF Text
  <2>2. PICK a \in Seq(Runes) : a = <<d>>
    BY <2>1
  <2>3. PICK b \in Seq(Runes) : b = Quoted(v)
    BY <2>1
  <2>4. Run(Start, a \o b) = Run(Run(Start, a), b)
    BY RunConcat
  <2> QED BY <2>2, <2>3, <2>4, Zenon
<1>4. PICK s : s = State(u)
  OBVIOUS
<1>5. InQuotation(s, v)
  <2>1. s = Run(State(<<"\"">>), Quoted(v))
    BY <1>1, <1>2, <1>3, <1>4, Zenon DEF State
  <2> QED BY <2>1, QuotationRun
<1>6. Quote(v) = u \o <<d>> /\ Quote(v) \in Text
  BY <1>1, <1>2, QuotedFacts
<1>7. Run(Start, u \o <<d>>) = Run(Run(Start, u), <<d>>)
  <2>1. <<d>> \in Seq(Runes) /\ u \in Seq(Runes)
    BY RuneFacts DEF Text
  <2>2. PICK a \in Seq(Runes) : a = <<d>>
    BY <2>1
  <2>3. u \in Seq(Runes)
    BY <2>1
  <2>4. Run(Start, u \o a) = Run(Run(Start, u), a)
    BY <2>3, RunConcat
  <2> QED BY <2>2, <2>4, Zenon
<1>8. State(Quote(v)) = ScanRune(s, d)
  <2>1. Run(s, <<d>>) = ScanRune(s, d)
    BY RunOne
  <2> QED BY <1>4, <1>6, <1>7, <2>1, Zenon DEF State
<1>9. PICK r : r = ScanRune(s, d)
  OBVIOUS
<1>10. r = Emit(s, "STRQ") /\ "STRQ" \in Kinds /\ Scanning(s) /\ s.tokens = <<>> /\ s.value = v
  BY <1>1, <1>5, <1>9, InQuoted DEF InQuotation, Kinds
<1>11. r.mode = "scan" /\ r.tokens = Append(<<>>, Token("STRQ", v)) /\ Scanning(r)
  BY <1>10, EmitScanning
<1>12. ScanEnd(r) = r
  BY <1>11 DEF ScanEnd, Flush
<1>13. Scan(Quote(v)) = Append(<<>>, Token("STRQ", v))
  BY <1>6, <1>8, <1>9, <1>11, <1>12, ScanIsOfTokens
<1>14. \A t : Append(<<>>, t) = <<t>>
  OBVIOUS
<1> QED BY <1>6, <1>8, <1>9, <1>11, <1>13, <1>14

-----------------------------------------------------------------------------
(* What tokens have and what they join to. *)

LEMMA ToSetConcat ==
    ASSUME NEW C, NEW u \in Seq(C), NEW v \in Seq(C)
    PROVE  ToSet(u \o v) = ToSet(u) \cup ToSet(v)
<1> DEFINE S == {w \in Seq(C) : ToSet(u \o w) = ToSet(u) \cup ToSet(w)}
<1>1. <<>> \in S
  <2>1. ToSet(<<>>) = {}
    BY DEF ToSet
  <2>2. u \o <<>> = u /\ <<>> \in Seq(C)
    BY ConcatEmptySeq
  <2> QED BY <2>1, <2>2
<1>2. ASSUME NEW w \in Seq(C), NEW c \in C, w \in S PROVE Append(w, c) \in S
  <2>1. u \o Append(w, c) = Append(u \o w, c) /\ Append(w, c) \in Seq(C) /\ u \o w \in Seq(C)
    BY AppendJoin, AppendProperties, ConcatProperties
  <2>2. PICK x \in Seq(C) : x = u \o w
    BY <2>1
  <2>3. ToSet(Append(x, c)) = ToSet(x) \cup {c} /\ ToSet(Append(w, c)) = ToSet(w) \cup {c}
    BY ToSetAppend
  <2>4. ToSet(x) = ToSet(u) \cup ToSet(w)
    BY <1>2, <2>2
  <2>5. ToSet(u \o Append(w, c)) = ToSet(Append(x, c))
    BY <2>1, <2>2, Zenon
  <2> QED BY <2>1, <2>3, <2>4, <2>5
<1>3. Seq(C) \subseteq S
  <2> HIDE DEF S
  <2> QED BY <1>1, <1>2, InductSeq
<1> QED BY <1>3

LEMMA ToSetFacts ==
    /\ ToSet(<<>>) = {}
    /\ \A C : \A u \in Seq(C) : ToSet(u) \subseteq C /\ \A i \in DOMAIN u : u[i] \in ToSet(u)
    /\ \A u : \A x \in ToSet(u) : \E i \in DOMAIN u : x = u[i]
<1>1. ToSet(<<>>) = {}
  BY DEF ToSet
<1>2. ASSUME NEW C, NEW u \in Seq(C) PROVE ToSet(u) \subseteq C /\ \A i \in DOMAIN u : u[i] \in ToSet(u)
  <2>1. \A i \in DOMAIN u : u[i] \in C
    BY LenProperties, ElementOfSeq
  <2> QED BY <2>1, Zenon DEF ToSet
<1>3. \A u : \A x \in ToSet(u) : \E i \in DOMAIN u : x = u[i]
  BY Zenon DEF ToSet
<1> QED BY <1>1, <1>2, <1>3

\* Tokens without spaces join to a text without spaces.
SpacelessTokens(ts) == \A x \in ToSet(ts) : Spaceless(x.value)

LEMMA SpacelessValues ==
    ASSUME NEW ts \in Seq(Lexeme)
    PROVE  Spaceless(ValuesOf(ts)) <=> SpacelessTokens(ts)
<1> DEFINE S == {u \in Seq(Lexeme) : Spaceless(ValuesOf(u)) <=> SpacelessTokens(u)}
<1>1. <<>> \in S
  <2>1. <<>> \in Seq(Lexeme)
    OBVIOUS
  <2> QED BY <2>1, ToSetFacts, ValuesEmpty DEF Spaceless, SpacelessTokens
<1>2. ASSUME NEW u \in Seq(Lexeme), NEW t \in Lexeme, u \in S PROVE Append(u, t) \in S
  <2>1. ToSet(Append(u, t)) = ToSet(u) \cup {t} /\ Append(u, t) \in Seq(Lexeme)
    BY ToSetAppend, AppendProperties
  <2>2. SpacelessTokens(Append(u, t)) <=> SpacelessTokens(u) /\ Spaceless(t.value)
    BY <2>1, Zenon DEF SpacelessTokens
  <2>3. PICK v \in Seq(Runes) : v = ValuesOf(u)
    BY ValuesType DEF Text
  <2>4. PICK w \in Seq(Runes) : w = t.value
    BY LexemeFields DEF Text
  <2>5. ToSet(v \o w) = ToSet(v) \cup ToSet(w)
    BY ToSetConcat
  <2>6. Spaceless(v \o w) <=> Spaceless(v) /\ Spaceless(w)
    BY <2>5 DEF Spaceless
  <2>7. Spaceless(ValuesOf(Append(u, t))) <=> Spaceless(v) /\ Spaceless(w)
    BY <2>3, <2>4, <2>6, ValuesAppend, Zenon
  <2>8. Spaceless(v) <=> SpacelessTokens(u)
    BY <1>2, <2>3
  <2> QED BY <2>1, <2>2, <2>4, <2>7, <2>8
<1>3. Seq(Lexeme) \subseteq S
  <2> HIDE DEF S
  <2> QED BY <1>1, <1>2, InductSeq
<1> QED BY <1>3

LEMMA JoinJoin ==
    ASSUME NEW C, NEW u \in Seq(C), NEW v \in Seq(C), NEW w \in Seq(C)
    PROVE  (u \o v) \o w = u \o (v \o w)
BY ConcatAssociative, ConcatProperties, SMTT(30)

LEMMA ValuesConcat ==
    ASSUME NEW ts \in Seq(Lexeme), NEW us \in Seq(Lexeme)
    PROVE  ValuesOf(ts \o us) = ValuesOf(ts) \o ValuesOf(us)
<1> DEFINE S == {u \in Seq(Lexeme) : ValuesOf(ts \o u) = ValuesOf(ts) \o ValuesOf(u)}
<1>0. PICK p \in Seq(Runes) : p = ValuesOf(ts)
  BY ValuesType DEF Text
<1>1. <<>> \in S
  <2>1. <<>> \in Seq(Lexeme) /\ ts \o <<>> = ts /\ p \o <<>> = p
    BY ConcatEmptySeq
  <2> QED BY <1>0, <2>1, ValuesEmpty
<1>2. ASSUME NEW u \in Seq(Lexeme), NEW t \in Lexeme, u \in S PROVE Append(u, t) \in S
  <2>1. ts \o Append(u, t) = Append(ts \o u, t) /\ Append(u, t) \in Seq(Lexeme)
    BY AppendJoin, AppendProperties
  <2>2. PICK x \in Seq(Lexeme) : x = ts \o u
    BY ConcatProperties
  <2>3. PICK v \in Seq(Runes) : v = ValuesOf(u)
    BY ValuesType DEF Text
  <2>4. PICK w \in Seq(Runes) : w = t.value
    BY LexemeFields DEF Text
  <2>5. ValuesOf(x) = p \o v
    BY <1>0, <1>2, <2>2, <2>3
  <2>6. ValuesOf(Append(x, t)) = (p \o v) \o w
    BY <2>4, <2>5, ValuesAppend
  <2>7. (p \o v) \o w = p \o (v \o w)
    BY JoinJoin, ConcatProperties, SMTT(30)
  <2>8. ValuesOf(Append(u, t)) = v \o w
    BY <2>3, <2>4, ValuesAppend
  <2>9. ValuesOf(ts \o Append(u, t)) = ValuesOf(ts) \o ValuesOf(Append(u, t))
    BY <1>0, <2>1, <2>2, <2>6, <2>7, <2>8, Zenon
  <2> QED BY <2>1, <2>9
<1>3. Seq(Lexeme) \subseteq S
  <2> HIDE DEF S
  <2> QED BY <1>1, <1>2, InductSeq
<1> QED BY <1>3

LEMMA ValuesOne ==
    ASSUME NEW t \in Lexeme
    PROVE  ValuesOf(<<t>>) = t.value
<1>1. <<t>> = Append(<<>>, t) /\ <<>> \in Seq(Lexeme)
  OBVIOUS
<1>2. PICK w \in Seq(Runes) : w = t.value
  BY LexemeFields DEF Text
<1>3. <<>> \o w = w
  BY ConcatEmptySeq
<1> QED BY <1>1, <1>2, <1>3, ValuesAppend, ValuesEmpty

\* No token is a space.
NoSpace(ts) == \A x \in ToSet(ts) : x.kind # "SPACE"

LEMMA GoodTokens ==
    ASSUME NEW ts \in Seq(Lexeme)
    PROVE  /\ Good(ts) => \A x \in ToSet(ts) : WellMade(x) /\ x \in Lexeme
           /\ BareTokens(ts) <=> NoSpace(ts) /\ ~Quotes(ts)
           /\ Quotes(ts) <=> \E x \in ToSet(ts) : x.kind = "STRQ"
<1>1. \A x \in ToSet(ts) : (\E i \in DOMAIN ts : x = ts[i]) /\ x \in Lexeme
  BY ToSetFacts
<1>2. \A i \in DOMAIN ts : ts[i] \in ToSet(ts)
  BY ToSetFacts
<1>3. Quotes(ts) <=> \E x \in ToSet(ts) : x.kind = "STRQ"
  BY <1>1, <1>2 DEF Quotes
<1>4. BareTokens(ts) <=> NoSpace(ts) /\ ~Quotes(ts)
  BY <1>1, <1>2, <1>3 DEF BareTokens, NoSpace
<1>5. Good(ts) => \A x \in ToSet(ts) : WellMade(x) /\ x \in Lexeme
  BY <1>1 DEF Good
<1> QED BY <1>3, <1>4, <1>5

LEMMA OneRune ==
    ASSUME NEW c
    PROVE  ToSet(<<c>>) = {c} /\ <<c>>[1] = c /\ Len(<<c>>) = 1
<1>1. DOMAIN <<c>> = {1} /\ <<c>>[1] = c
  OBVIOUS
<1> QED BY <1>1 DEF ToSet

LEMMA TokenSpaces ==
    ASSUME NEW t \in Lexeme, WellMade(t)
    PROVE  /\ t.kind = "SPACE" => ~Spaceless(t.value)
           /\ t.kind \notin {"SPACE", "STRQ"} => Spaceless(t.value) /\ t.value # <<>>
<1>1. t.kind \in Kinds /\ t.value \in Text
  BY LexemeFields
<1>2. CASE t.kind = "SPACE"
  <2>1. t.value = <<" ">> /\ ToSet(<<" ">>) = {" "}
    BY <1>2, OneRune DEF WellMade
  <2> QED BY <1>2, <2>1 DEF Spaceless, Spaces
<1>3. CASE t.kind = "STR"
  <2>1. t.value # <<>> /\ \A i \in DOMAIN t.value : t.value[i] \notin Spaces
    BY <1>3 DEF WellMade, StringLike
  <2>2. Spaceless(t.value)
    BY <2>1 DEF Spaceless, ToSet
  <2> QED BY <1>3, <2>1, <2>2
<1>4. CASE t.kind \in {"NEG", "FIELD", "WILDCARD"}
  <2>1. PICK c \in {"-", ":", "*"} : t.value = <<c>>
    BY <1>4 DEF WellMade
  <2>2. ToSet(<<c>>) = {c} /\ c \notin Spaces
    BY OneRune DEF Spaces
  <2>3. <<c>> # <<>>
    OBVIOUS
  <2> QED BY <1>4, <2>1, <2>2, <2>3 DEF Spaceless
<1>5. CASE t.kind = "STRQ"
  BY <1>5
<1> QED BY <1>1, <1>2, <1>3, <1>4, <1>5 DEF Kinds

LEMMA SpacelessGood ==
    ASSUME NEW ts \in Seq(Lexeme), Good(ts)
    PROVE  /\ Spaceless(ValuesOf(ts)) => NoSpace(ts)
           /\ NoSpace(ts) /\ ~Quotes(ts) => Spaceless(ValuesOf(ts))
<1>1. \A x \in ToSet(ts) : WellMade(x) /\ x \in Lexeme
  BY GoodTokens
<1>2. ASSUME Spaceless(ValuesOf(ts)), NEW x \in ToSet(ts) PROVE x.kind # "SPACE"
  <2>1. Spaceless(x.value)
    BY <1>2, SpacelessValues DEF SpacelessTokens
  <2> QED BY <1>1, <2>1, TokenSpaces
<1>3. ASSUME NoSpace(ts), ~Quotes(ts), NEW x \in ToSet(ts) PROVE Spaceless(x.value)
  <2>1. x.kind # "SPACE" /\ x.kind # "STRQ"
    BY <1>3, GoodTokens DEF NoSpace
  <2> QED BY <1>1, <2>1, TokenSpaces
<1> QED BY <1>2, <1>3, SpacelessValues DEF NoSpace, SpacelessTokens

-----------------------------------------------------------------------------
(* The tokens of one term. *)

LEMMA FrontOfAppend ==
    ASSUME NEW C, NEW w \in Seq(C), NEW c \in C
    PROVE  Front(Append(w, c)) = w /\ Last(Append(w, c)) = c
<1>2. PICK n \in Nat : n = Len(w)
  BY LenProperties
<1>3. PICK x \in Seq(C) : x = Append(w, c)
  BY AppendProperties
<1>4. Len(x) = n + 1 /\ x[n + 1] = c /\ \A i \in 1 .. n : x[i] = w[i]
  BY <1>2, <1>3, AppendProperties
<1>5. Last(x) = c
  BY <1>4 DEF Last
<1>6. SubSeq(x, 1, n) = w
  <2>1. \A i \in 1 .. n : x[i] \in C
    <3>1. \A i \in 1 .. n : w[i] \in C
      BY <1>2, ElementOfSeq
    <3> QED BY <1>4, <3>1
  <2>2. PICK y \in Seq(C) : y = SubSeq(x, 1, n)
    <3>1. 1 \in Int /\ n \in Int
      OBVIOUS
    <3>2. SubSeq(x, 1, n) \in Seq(C)
      BY <2>1, <3>1, SubSeqProperties
    <3> QED BY <3>2
  <2>3. Len(y) = n /\ \A i \in 1 .. n : y[i] = x[i]
    BY <1>4, <2>1, <2>2, SubSeqProperties
  <2>4. y = w
    BY <1>2, <1>4, <2>3, SeqEqual
  <2> QED BY <2>2, <2>4
<1>7. Front(x) = w
  <2>1. Len(x) - 1 = n
    BY <1>4
  <2> QED BY <1>6, <2>1, Zenon DEF Front
<1> QED BY <1>3, <1>5, <1>7

LEMMA LastOfSeq ==
    ASSUME NEW C, NEW u \in Seq(C), u # <<>>
    PROVE  Front(u) \in Seq(C) /\ Last(u) \in C /\ u = Append(Front(u), Last(u)) /\ Last(u) = u[Len(u)]
<1>1. PICK w \in Seq(C), c \in C : u = Append(w, c)
  BY SequenceEmptyOrAppend
<1>2. Front(u) = w /\ Last(u) = c
  BY <1>1, FrontOfAppend
<1>3. Last(u) = u[Len(u)]
  BY Zenon DEF Last
<1> QED BY <1>1, <1>2, <1>3

EndsInStar(v) == v # <<>> /\ v[Len(v)] = "*"

LEMMA StarConcat ==
    ASSUME NEW u \in Text, NEW v \in Text
    PROVE  /\ v # <<>> => (EndsInStar(u \o v) <=> EndsInStar(v))
           /\ v = <<>> => (EndsInStar(u \o v) <=> EndsInStar(u))
<1>1. ASSUME v = <<>> PROVE u \o v = u
  BY <1>1, ConcatEmptySeq DEF Text
<1>2. ASSUME v # <<>> PROVE EndsInStar(u \o v) <=> EndsInStar(v)
  <2>1. PICK w \in Text : w = u \o v
    BY ConcatProperties DEF Text
  <2>2. PICK n \in Nat : n = Len(u)
    BY LenProperties DEF Text
  <2>3. PICK m \in Nat : m = Len(v)
    BY LenProperties DEF Text
  <2>4. Len(w) = n + m /\ \A i \in 1 .. n + m : w[i] = IF i <= n THEN u[i] ELSE v[i - n]
    BY <2>1, <2>2, <2>3, ConcatProperties DEF Text
  <2>5. m # 0
    BY <1>2, <2>3, EmptySeq DEF Text
  <2>6. w[n + m] = v[m]
    <3>1. n + m \in 1 .. n + m /\ ~(n + m <= n) /\ (n + m) - n = m
      BY <2>5
    <3> QED BY <2>4, <3>1
  <2>7. w # <<>>
    <3>1. Len(w) # 0
      BY <2>4, <2>5
    <3> QED BY <3>1, EmptySeq
  <2> QED BY <1>2, <2>1, <2>3, <2>4, <2>6, <2>7 DEF EndsInStar
<1> QED BY <1>1, <1>2

LEMMA TokenStar ==
    ASSUME NEW t \in Lexeme, WellMade(t), t.kind \notin {"SPACE", "STRQ"}
    PROVE  EndsInStar(t.value) <=> t.kind = "WILDCARD"
<1>1. t.kind \in Kinds /\ t.value \in Text
  BY LexemeFields
<1>2. CASE t.kind = "STR"
  <2>1. t.value # <<>> /\ \A i \in DOMAIN t.value : t.value[i] # "*"
    BY <1>2 DEF WellMade, StringLike
  <2>2. PICK m \in Nat : m = Len(t.value) /\ DOMAIN t.value = 1 .. m
    BY <1>1, LenProperties DEF Text
  <2>3. m \in 1 .. m
    BY <1>1, <2>1, <2>2, EmptySeq DEF Text
  <2>4. t.value[m] # "*"
    BY <2>1, <2>2, <2>3
  <2> QED BY <1>2, <2>2, <2>4 DEF EndsInStar
<1>3. CASE t.kind \in {"NEG", "FIELD", "WILDCARD"}
  <2>1. PICK c \in {"-", ":", "*"} : t.value = <<c>> /\ (c = "*" <=> t.kind = "WILDCARD")
    BY <1>3 DEF WellMade
  <2>2. <<c>>[Len(<<c>>)] = c /\ <<c>> # <<>>
    BY OneRune
  <2> QED BY <1>3, <2>1, <2>2 DEF EndsInStar
<1> QED BY <1>1, <1>2, <1>3 DEF Kinds

\* The tokens of a term, or of its end.
Rest(ts) == ts \in Seq(Lexeme) /\ Good(ts) /\ NoSpace(ts)

LEMMA RestFront ==
    ASSUME NEW ts, Rest(ts), ts # <<>>
    PROVE  /\ Rest(Front(ts)) /\ WellMade(Last(ts)) /\ Last(ts) \in Lexeme
           /\ ts = Append(Front(ts), Last(ts))
           /\ Last(ts).kind # "SPACE" /\ (Quotes(ts) <=> Quotes(Front(ts)) \/ Last(ts).kind = "STRQ")
<1>1. ts \in Seq(Lexeme) /\ Good(ts) /\ NoSpace(ts)
  BY DEF Rest
<1>2. PICK us \in Seq(Lexeme) : us = Front(ts)
  BY <1>1, LastOfSeq
<1>3. PICK t \in Lexeme : t = Last(ts)
  BY <1>1, LastOfSeq
<1>4. ts = Append(us, t)
  BY <1>1, <1>2, <1>3, LastOfSeq
<1>5. Good(us) /\ WellMade(t)
  BY <1>1, <1>4, GoodSplit
<1>6. ToSet(ts) = ToSet(us) \cup {t}
  BY <1>4, ToSetAppend
<1>7. NoSpace(us) /\ t.kind # "SPACE"
  BY <1>1, <1>6 DEF NoSpace
<1>8. Quotes(ts) <=> Quotes(us) \/ t.kind = "STRQ"
  BY <1>4, QuotesAppend
<1> QED BY <1>2, <1>3, <1>4, <1>5, <1>7, <1>8 DEF Rest

LEMMA StarredValues ==
    ASSUME NEW ts, Rest(ts), ~Quotes(ts)
    PROVE  EndsInStar(ValuesOf(ts)) <=> Starred(ts)
<1>1. CASE ts = <<>>
  BY <1>1, ValuesEmpty DEF EndsInStar, Starred
<1>2. CASE ts # <<>>
  <2>1. PICK us : us = Front(ts) /\ Rest(us)
    BY <1>2, RestFront
  <2>2. PICK t \in Lexeme : t = Last(ts) /\ WellMade(t) /\ t.kind # "SPACE"
    BY <1>2, RestFront
  <2>3. ts = Append(us, t) /\ t.kind # "STRQ"
    BY <1>2, <2>1, <2>2, RestFront
  <2>4. us \in Seq(Lexeme)
    BY <2>1 DEF Rest
  <2>5. PICK v \in Text : v = ValuesOf(us)
    BY <2>4, ValuesType
  <2>6. PICK w \in Text : w = t.value
    BY LexemeFields
  <2>7. ValuesOf(ts) = v \o w
    BY <2>3, <2>4, <2>5, <2>6, ValuesAppend
  <2>8. w # <<>> /\ (EndsInStar(w) <=> t.kind = "WILDCARD")
    BY <2>2, <2>3, <2>6, TokenStar, TokenSpaces
  <2>9. EndsInStar(v \o w) <=> EndsInStar(w)
    BY <2>8, StarConcat
  <2> QED BY <1>2, <2>2, <2>7, <2>8, <2>9 DEF Starred
<1> QED BY <1>1, <1>2

LEMMA RestTail ==
    ASSUME NEW t \in Lexeme, NEW us \in Seq(Lexeme), NEW ts, ts = <<t>> \o us, Rest(ts)
    PROVE  Rest(us) /\ WellMade(t) /\ t.kind # "SPACE" /\ (Quotes(ts) <=> t.kind = "STRQ" \/ Quotes(us))
<1>1. ts \in Seq(Lexeme) /\ Good(ts) /\ NoSpace(ts)
  BY DEF Rest
<1>2. PICK n \in Nat : n = Len(us) /\ DOMAIN us = 1 .. n
  BY LenProperties
<1>3. PICK a \in Seq(Lexeme) : a = <<t>> /\ Len(a) = 1 /\ a[1] = t
  <2>1. <<t>> \in Seq(Lexeme)
    OBVIOUS
  <2> QED BY <2>1, OneRune
<1>4. Len(ts) = 1 + n /\ \A i \in 1 .. 1 + n : ts[i] = IF i <= 1 THEN a[i] ELSE us[i - 1]
  BY <1>2, <1>3, ConcatProperties
<1>5. DOMAIN ts = 1 .. n + 1 /\ 1 \in 1 .. n + 1 /\ ts[1] = t
  BY <1>1, <1>3, <1>4, LenProperties
<1>6. \A i \in 1 .. n : i + 1 \in 1 .. n + 1 /\ ts[i + 1] = us[i]
  BY <1>4
<1>7. /\ \A i \in 1 .. n + 1 : WellMade(ts[i])
      /\ \A i, j \in 1 .. n + 1 : j = i + 1 /\ ts[i].kind = "STR" => ts[j].kind \in Enders
  BY <1>1, <1>5 DEF Good
<1>8. \A i \in 1 .. n : WellMade(us[i])
  BY <1>6, <1>7
<1>9. ASSUME NEW i \in 1 .. n, NEW j \in 1 .. n, j = i + 1, us[i].kind = "STR" PROVE us[j].kind \in Enders
  <2>1. j + 1 = (i + 1) + 1
    BY <1>9
  <2> QED BY <1>6, <1>7, <1>9, <2>1
<1>10. Good(us)
  BY <1>2, <1>8, <1>9 DEF Good
<1>11. ToSet(ts) = {t} \cup ToSet(us)
  <2>1. ToSet(a \o us) = ToSet(a) \cup ToSet(us)
    BY ToSetConcat
  <2>2. ToSet(a) = {t}
    BY <1>3, OneRune
  <2> QED BY <1>3, <2>1, <2>2
<1>12. NoSpace(us) /\ t.kind # "SPACE"
  BY <1>1, <1>11 DEF NoSpace
<1>13. Quotes(ts) <=> t.kind = "STRQ" \/ Quotes(us)
  BY <1>1, <1>11, GoodTokens
<1> QED BY <1>5, <1>7, <1>10, <1>12, <1>13 DEF Rest

\* What the value of a term is made of.
LEMMA ValueFacts ==
    ASSUME NEW ts, Rest(ts)
    PROVE  /\ ValueOf(ts) \in Text
           /\ ~Quotes(ts) => /\ Spaceless(ValueOf(ts)) /\ ~Quotes(Scan(ValueOf(ts)))
                             /\ ~Starred(ts) => ~EndsInStar(ValueOf(ts))
<1>1. PICK us : us = IF Starred(ts) THEN Front(ts) ELSE ts
  OBVIOUS
<1>2. ValueOf(ts) = IF Quotes(ts) THEN Unquote(ValuesOf(us)) ELSE ValuesOf(us)
  BY <1>1, Zenon DEF ValueOf
<1>3. Rest(us) /\ (Quotes(us) => Quotes(ts))
  <2>1. CASE Starred(ts)
    <3>1. ts # <<>>
      BY <2>1 DEF Starred
    <3> QED BY <1>1, <2>1, <3>1, RestFront
  <2>2. CASE ~Starred(ts)
    BY <1>1, <2>2
  <2> QED BY <2>1, <2>2
<1>4. us \in Seq(Lexeme) /\ Good(us) /\ NoSpace(us)
  BY <1>3 DEF Rest
<1>5. ValuesOf(us) \in Text
  BY <1>4, ValuesType
<1>6. ValueOf(ts) \in Text
  BY <1>2, <1>5, UnquoteFacts
<1>7. ASSUME ~Quotes(ts)
      PROVE  /\ Spaceless(ValueOf(ts)) /\ ~Quotes(Scan(ValueOf(ts)))
             /\ ~Starred(ts) => ~EndsInStar(ValueOf(ts))
  <2>1. ValueOf(ts) = ValuesOf(us) /\ ~Quotes(us)
    BY <1>2, <1>3, <1>7
  <2>2. Spaceless(ValuesOf(us))
    BY <1>4, <2>1, SpacelessGood
  <2>3. Scan(ValuesOf(us)) = us
    BY <1>4, <2>1, GoodTokens, BareScan
  <2>4. ~Starred(ts) => ~EndsInStar(ValuesOf(us))
    BY <1>1, <1>3, <2>1, StarredValues
  <2> QED BY <2>1, <2>2, <2>3, <2>4
<1> QED BY <1>6, <1>7

-----------------------------------------------------------------------------
(* From the tokens of a term to the term. *)

Group(g) == Rest(g) /\ g # <<>>

\* A term with a field, of a sequence of tokens and with the minus of a group.
OfTokens(field, ts, g) ==
    [field |-> field, value |-> ValueOf(ts), exact |-> Quotes(ts), exclude |-> g[1].kind = "NEG",
     wildcard |-> Starred(ts)]

FromThird(ts) == SubSeq(ts, 3, Len(ts))

LEMMA TermIs ==
    ASSUME NEW g
    PROVE  /\ NewSearchTerm(g, TRUE) = OfTokens(<<>>, AfterMinus(g), g)
           /\ ~NamesField(AfterMinus(g)) =>
                 NewSearchTerm(g, FALSE) = OfTokens(<<>>, AfterMinus(g), g)
           /\ NamesField(AfterMinus(g)) =>
                 NewSearchTerm(g, FALSE) = OfTokens(AfterMinus(g)[1].value, FromThird(AfterMinus(g)), g)
<1>1. NewSearchTerm(g, TRUE) = OfTokens(<<>>, AfterMinus(g), g)
  BY DEF NewSearchTerm, OfTokens
<1>2. ASSUME ~NamesField(AfterMinus(g))
      PROVE  NewSearchTerm(g, FALSE) = OfTokens(<<>>, AfterMinus(g), g)
  BY <1>2 DEF NewSearchTerm, OfTokens
<1>3. ASSUME NamesField(AfterMinus(g))
      PROVE  NewSearchTerm(g, FALSE) = OfTokens(AfterMinus(g)[1].value, FromThird(AfterMinus(g)), g)
  BY <1>3 DEF NewSearchTerm, OfTokens, FromThird
<1> QED BY <1>1, <1>2, <1>3

LEMMA FirstOfTokens ==
    ASSUME NEW ts, Rest(ts), ts # <<>>
    PROVE  /\ ts[1] \in Lexeme /\ Tail(ts) \in Seq(Lexeme) /\ ts = <<ts[1]>> \o Tail(ts)
           /\ Rest(Tail(ts)) /\ WellMade(ts[1]) /\ ts[1].kind # "SPACE"
           /\ (Quotes(ts) <=> ts[1].kind = "STRQ" \/ Quotes(Tail(ts)))
<1>1. ts \in Seq(Lexeme)
  BY DEF Rest
<1>2. PICK t \in Lexeme : t = ts[1]
  BY <1>1, FirstRest
<1>3. PICK us \in Seq(Lexeme) : us = Tail(ts)
  BY <1>1, FirstRest
<1>4. ts = <<t>> \o us
  BY <1>1, <1>2, <1>3, FirstRest
<1>5. Rest(us) /\ WellMade(t) /\ t.kind # "SPACE" /\ (Quotes(ts) <=> t.kind = "STRQ" \/ Quotes(us))
  BY <1>4, RestTail
<1> QED BY <1>2, <1>3, <1>4, <1>5

LEMMA ThirdOn ==
    ASSUME NEW ts \in Seq(Lexeme), NamesField(ts)
    PROVE  /\ ts # <<>> /\ Tail(ts) # <<>> /\ Tail(ts)[1] = ts[2] /\ Tail(Tail(ts)) = FromThird(ts)
<1>1. ts \in Seq(Lexeme) /\ Len(ts) > 1
  BY DEF NamesField
<1>2. PICK n \in Nat : n = Len(ts)
  BY <1>1, LenProperties
<1>3. ts # <<>>
  BY <1>1, EmptySeq
<1>4. PICK us \in Seq(Lexeme) : us = Tail(ts)
  BY <1>1, <1>3, FirstRest
<1>5. Len(us) = n - 1 /\ \A i \in 1 .. n - 1 : us[i] = ts[i + 1]
  BY <1>1, <1>2, <1>3, <1>4, HeadTailProperties
<1>6. us # <<>>
  <2>1. n > 1
    BY <1>1, <1>2
  <2>2. Len(us) # 0
    BY <1>5, <2>1
  <2> QED BY <2>2, EmptySeq
<1>7. us[1] = ts[2]
  <2>1. 1 \in 1 .. n - 1 /\ 1 + 1 = 2
    BY <1>1, <1>2
  <2> QED BY <1>5, <2>1
<1>8. PICK vs \in Seq(Lexeme) : vs = Tail(us)
  BY <1>4, <1>6, FirstRest
<1>9. Len(vs) = n - 2 /\ \A i \in 1 .. n - 2 : vs[i] = us[i + 1]
  <2>0. n > 1
    BY <1>1, <1>2
  <2>1. PICK m \in Nat : m = n - 1 /\ m = Len(us) /\ m - 1 = n - 2
    <3>1. n - 1 \in Nat /\ (n - 1) - 1 = n - 2
      BY <2>0
    <3> QED BY <1>5, <3>1
  <2>2. Len(vs) = m - 1 /\ \A i \in 1 .. m - 1 : vs[i] = us[i + 1]
    BY <1>6, <1>8, <2>1, HeadTailProperties
  <2> QED BY <2>1, <2>2
<1>10. PICK ws \in Seq(Lexeme) : ws = SubSeq(ts, 3, n) /\ Len(ws) = n - 2 /\ \A i \in 1 .. n - 2 : ws[i] = ts[i + 2]
  <2>1. 3 \in Int /\ n \in Int /\ \A i \in 3 .. n : ts[i] \in Lexeme
    <3>1. \A i \in 1 .. n : ts[i] \in Lexeme
      BY <1>1, <1>2, ElementOfSeq
    <3> QED BY <3>1
  <2>2. SubSeq(ts, 3, n) \in Seq(Lexeme)
    BY <2>1, SubSeqProperties
  <2>3. Len(SubSeq(ts, 3, n)) = IF 3 <= n THEN n - 3 + 1 ELSE 0
    BY <2>1, SubSeqProperties
  <2>4. Len(SubSeq(ts, 3, n)) = n - 2
    BY <1>1, <1>2, <2>3
  <2>5. \A i \in 1 .. n - 2 : SubSeq(ts, 3, n)[i] = ts[i + 2]
    <3>1. \A i \in 1 .. n - 3 + 1 : SubSeq(ts, 3, n)[i] = ts[3 + i - 1]
      BY <2>1, SubSeqProperties
    <3>2. \A i \in 1 .. n - 2 : i \in 1 .. n - 3 + 1 /\ 3 + i - 1 = i + 2
      OBVIOUS
    <3> QED BY <3>1, <3>2
  <2> QED BY <2>2, <2>4, <2>5
<1>11. \A i \in 1 .. n - 2 : vs[i] = ws[i]
  <2>1. ASSUME NEW i \in 1 .. n - 2 PROVE vs[i] = ws[i]
    <3>1. i + 1 \in 1 .. n - 1 /\ (i + 1) + 1 = i + 2
      OBVIOUS
    <3>2. us[i + 1] = ts[i + 2]
      BY <1>5, <3>1
    <3> QED BY <1>9, <1>10, <3>2
  <2> QED BY <2>1
<1>12. vs = ws
  BY <1>9, <1>10, <1>11, SeqEqual
<1> QED BY <1>2, <1>3, <1>4, <1>6, <1>7, <1>8, <1>10, <1>12, Zenon DEF FromThird

\* What follows the minus, and what follows the name of the field.
LEMMA GroupRest ==
    ASSUME NEW g, Group(g)
    PROVE  /\ Rest(AfterMinus(g))
           /\ NamesField(AfterMinus(g)) =>
                 Rest(FromThird(AfterMinus(g))) /\ AfterMinus(g)[1].value \in Text
<1>1. Rest(g) /\ g # <<>>
  BY DEF Group
<1>2. Rest(AfterMinus(g))
  BY <1>1, FirstOfTokens DEF AfterMinus
<1>3. PICK ts : ts = AfterMinus(g)
  OBVIOUS
<1>4. ASSUME NamesField(ts) PROVE Rest(FromThird(ts)) /\ ts[1].value \in Text
  <2>1. ts # <<>> /\ Tail(ts) # <<>> /\ Tail(Tail(ts)) = FromThird(ts)
    BY <1>2, <1>3, <1>4, ThirdOn DEF Rest
  <2>2. Rest(Tail(ts)) /\ ts[1] \in Lexeme
    BY <1>2, <1>3, <2>1, FirstOfTokens
  <2>3. Rest(Tail(Tail(ts)))
    BY <2>1, <2>2, FirstOfTokens
  <2> QED BY <2>1, <2>2, <2>3, LexemeFields
<1> QED BY <1>2, <1>3, <1>4

-----------------------------------------------------------------------------
(* Terms that were read. *)

TermType == [field : Text, value : Text, exact : BOOLEAN, exclude : BOOLEAN, wildcard : BOOLEAN]

\* What is known of a term that was read: its value has no star at the end that
\* could be a wildcard, and the value of a field has no spaces and quotations.
Shaped(t) ==
    /\ t \in TermType
    /\ ~t.exact /\ ~t.wildcard => ~EndsInStar(t.value)
    /\ ~t.exact /\ t.field \in Names => Spaceless(t.value) /\ ~Quotes(Scan(t.value))

LEMMA NameTexts ==
    /\ Names \subseteq Text /\ <<>> \notin Names /\ Site \in Names /\ Label \in Names /\ Site # Label
    /\ \A name \in Names : name \in Seq(Letters)
<1>1. Letters \subseteq Runes /\ Site \in Seq(Letters) /\ Label \in Seq(Letters)
      /\ Site # <<>> /\ Label # <<>> /\ Site # Label
  BY FiltersAssumption
<1>2. Site \in Seq(Runes) /\ Label \in Seq(Runes)
  BY <1>1, SeqMonotonic
<1> QED BY <1>1, <1>2 DEF Names, Text

LEMMA OfTokensShape ==
    ASSUME NEW field \in Text, NEW ts, Rest(ts), NEW g, NEW u, u = OfTokens(field, ts, g)
    PROVE  /\ Shaped(u) /\ u.field = field /\ u.value = ValueOf(ts) /\ (u.exact <=> Quotes(ts))
           /\ (u.wildcard <=> Starred(ts)) /\ (u.exclude <=> g[1].kind = "NEG")
<1>1. PICK v \in Text : v = ValueOf(ts)
  BY ValueFacts
<1>2. PICK x \in BOOLEAN : x = Quotes(ts)
  BY DEF Quotes
<1>3. PICK y \in BOOLEAN : y = (g[1].kind = "NEG")
  OBVIOUS
<1>4. PICK z \in BOOLEAN : z = Starred(ts)
  BY DEF Starred
<1>5. u = [field |-> field, value |-> v, exact |-> x, exclude |-> y, wildcard |-> z]
  BY <1>1, <1>2, <1>3, <1>4 DEF OfTokens
<1>6. u \in TermType /\ u.field = field /\ u.value = v /\ u.exact = x /\ u.exclude = y /\ u.wildcard = z
  BY <1>5 DEF TermType
<1>7. ~x => Spaceless(v) /\ ~Quotes(Scan(v)) /\ (~z => ~EndsInStar(v))
  BY <1>1, <1>2, <1>4, ValueFacts
<1>8. Shaped(u)
  BY <1>6, <1>7 DEF Shaped
<1> QED BY <1>1, <1>2, <1>3, <1>4, <1>6, <1>8

\* Terms of a field.
LEMMA FieldTermShape ==
    ASSUME NEW g, Group(g), NEW name \in Names
    PROVE  /\ Shaped([NewSearchTerm(g, TRUE) EXCEPT !.field = name])
           /\ [NewSearchTerm(g, TRUE) EXCEPT !.field = name].field = name
           /\ [NewSearchTerm(g, TRUE) EXCEPT !.field = name] = OfTokens(name, AfterMinus(g), g)
<1>1. Rest(AfterMinus(g)) /\ name \in Text
  BY GroupRest, NameTexts
<1>2. [OfTokens(<<>>, AfterMinus(g), g) EXCEPT !.field = name] = OfTokens(name, AfterMinus(g), g)
  BY DEF OfTokens
<1>3. [NewSearchTerm(g, TRUE) EXCEPT !.field = name] = OfTokens(name, AfterMinus(g), g)
  BY <1>2, TermIs
<1>4. PICK u : u = OfTokens(name, AfterMinus(g), g)
  OBVIOUS
<1>5. Shaped(u) /\ u.field = name
  BY <1>1, <1>4, OfTokensShape
<1> QED BY <1>3, <1>4, <1>5

LEMMA UnfieldedShape ==
    ASSUME NEW t, Shaped(t)
    PROVE  /\ Shaped(Unfielded(t, Names)) /\ Unfielded(t, Names).field \in Names \cup {<<>>}
           /\ t.field \in Names \cup {<<>>} => Unfielded(t, Names) = t
           /\ t.field \notin Names \cup {<<>>} =>
                  Unfielded(t, Names) = [t EXCEPT !.field = <<>>, !.value = Append(t.field, ":") \o t.value]
<1>1. CASE t.field \in Names \cup {<<>>}
  <2>1. Unfielded(t, Names) = t
    BY <1>1 DEF Unfielded
  <2> QED BY <1>1, <2>1
<1>2. CASE t.field \notin Names \cup {<<>>}
  <2>1. PICK r : r = Unfielded(t, Names)
    OBVIOUS
  <2>2. r = [t EXCEPT !.field = <<>>, !.value = Append(t.field, ":") \o t.value]
    BY <1>2, <2>1 DEF Unfielded
  <2>3. t \in TermType /\ t.field \in Text /\ t.value \in Text
    BY DEF Shaped, TermType
  <2>4. PICK f \in Text : f = Append(t.field, ":")
    BY <2>3, RuneFacts, AppendProperties DEF Text
  <2>5. PICK v \in Text : v = f \o t.value
    BY <2>3, <2>4, ConcatProperties DEF Text
  <2>6. r = [t EXCEPT !.field = <<>>, !.value = v]
    BY <2>2, <2>4, <2>5
  <2>7. /\ r \in TermType /\ r.field = <<>> /\ r.value = v /\ r.exact = t.exact
        /\ r.exclude = t.exclude /\ r.wildcard = t.wildcard
    BY <2>3, <2>6, RuneFacts DEF TermType
  <2>8. ASSUME ~EndsInStar(t.value) PROVE ~EndsInStar(v)
    <3>1. ~EndsInStar(f)
      <4>1. PICK n \in Nat : n = Len(t.field)
        BY <2>3, LenProperties DEF Text
      <4>2. Len(f) = n + 1 /\ f[n + 1] = ":"
        <5>1. PICK c \in Runes : c = ":"
          BY RuneFacts
        <5>2. PICK w \in Seq(Runes) : w = t.field
          BY <2>3 DEF Text
        <5>3. Len(Append(w, c)) = Len(w) + 1 /\ Append(w, c)[Len(w) + 1] = c
          BY AppendProperties
        <5> QED BY <2>4, <4>1, <5>1, <5>2, <5>3
      <4> QED BY <4>2 DEF EndsInStar
    <3> QED BY <2>3, <2>5, <2>8, <3>1, StarConcat
  <2>9. Shaped(r)
    BY <2>7, <2>8, NameTexts DEF Shaped
  <2> QED BY <1>2, <2>1, <2>2, <2>7, <2>9
<1> QED BY <1>1, <1>2

\* Terms of the free text.
LEMMA QueryTermShape ==
    ASSUME NEW g, Group(g)
    PROVE  /\ Shaped(NewSearchTerm(g, FALSE))
           /\ Shaped(Unfielded(NewSearchTerm(g, FALSE), Names))
           /\ Unfielded(NewSearchTerm(g, FALSE), Names).field \in Names \cup {<<>>}
<1>1. PICK ts : ts = AfterMinus(g)
  OBVIOUS
<1>2. Rest(ts) /\ (NamesField(ts) => Rest(FromThird(ts)) /\ ts[1].value \in Text)
  BY <1>1, GroupRest
<1>3. Shaped(NewSearchTerm(g, FALSE))
  <2>1. CASE NamesField(ts)
    <3>1. NewSearchTerm(g, FALSE) = OfTokens(ts[1].value, FromThird(ts), g)
      BY <1>1, <2>1, TermIs
    <3>2. PICK f \in Text : f = ts[1].value
      BY <1>2, <2>1
    <3>3. PICK us : us = FromThird(ts)
      OBVIOUS
    <3>4. Rest(us)
      BY <1>2, <2>1, <3>3
    <3>5. PICK u : u = OfTokens(f, us, g)
      OBVIOUS
    <3>6. Shaped(u)
      BY <3>4, <3>5, OfTokensShape
    <3> QED BY <3>1, <3>2, <3>3, <3>5, <3>6
  <2>2. CASE ~NamesField(ts)
    <3>1. NewSearchTerm(g, FALSE) = OfTokens(<<>>, ts, g)
      BY <1>1, <2>2, TermIs
    <3>2. PICK f \in Text : f = <<>>
      BY RuneFacts
    <3>5. PICK u : u = OfTokens(f, ts, g)
      OBVIOUS
    <3>6. Shaped(u)
      BY <1>2, <3>5, OfTokensShape
    <3> QED BY <3>1, <3>2, <3>5, <3>6
  <2> QED BY <2>1, <2>2
<1> QED BY <1>3, UnfieldedShape

-----------------------------------------------------------------------------
(* A term that is written: what its text is read as. *)

\* The token of a rune that is one.
RuneKind(c) == IF c = "-" THEN "NEG" ELSE IF c = ":" THEN "FIELD" ELSE IF c = "*" THEN "WILDCARD" ELSE "SPACE"

RuneToken(c) == Token(RuneKind(c), <<c>>)

LEMMA ScanOfRune ==
    ASSUME NEW c \in {"-", ":", "*", " "}
    PROVE  /\ <<c>> \in Text /\ Scan(<<c>>) = <<RuneToken(c)>> /\ State(<<c>>).mode = "scan"
           /\ RuneToken(c) \in Lexeme /\ RuneToken(c).kind = RuneKind(c) /\ RuneToken(c).value = <<c>>
           /\ WellMade(RuneToken(c))
<1>1. c \in Runes /\ <<c>> \in Text /\ RuneKind(c) \in Kinds
  BY RuneFacts DEF RuneKind, Kinds
<1>2. PICK t \in Lexeme : t = RuneToken(c) /\ t.kind = RuneKind(c) /\ t.value = <<c>>
  BY <1>1, TokenFacts, ZenonT(60) DEF RuneToken
<1>3. PICK r : r = BeginToken(Start, c)
  OBVIOUS
<1>4. MakesToken(Start, c, r)
  <2>1. Start.mode = "scan" /\ Scanning(Start)
    BY StartScanning DEF Start
  <2>2. ~BeginsQuotation(Start, c, r)
    BY DEF BeginsQuotation
  <2>3. ~BeginsString(Start, c, r)
    BY DEF BeginsString, Spaces
  <2> QED BY <1>1, <1>3, <2>1, <2>2, <2>3, BeginCases
<1>5. PICK u \in Lexeme : r.tokens = Append(<<>>, u) /\ IsTokenOf(u, c)
  BY <1>4 DEF MakesToken, Start
<1>6. u.kind = t.kind /\ u.value = t.value
  BY <1>2, <1>5 DEF IsTokenOf, RuneKind, Spaces
<1>7. u = t /\ Append(<<>>, t) = <<t>>
  <2>1. u = t
    BY <1>6, SameLexeme
  <2>2. Append(<<>>, t) = <<t>>
    BY AppendOne
  <2> QED BY <2>1, <2>2
<1>8. State(<<c>>) = r /\ r.mode = "scan"
  BY <1>1, <1>3, <1>4, AfterRune DEF MakesToken
<1>9. ScanEnd(r) = r
  BY <1>8 DEF ScanEnd, Flush
<1>10. Scan(<<c>>) = <<t>>
  BY <1>1, <1>5, <1>7, <1>8, <1>9, ScanIsOfTokens
<1>11. WellMade(t)
  BY <1>2 DEF WellMade, RuneKind
<1> QED BY <1>1, <1>2, <1>8, <1>10, <1>11

\* The three parts of a written term without a field.
Minus(t) == IF t.exclude THEN <<"-">> ELSE <<>>
Body(t) == IF t.exact THEN Quote(t.value) ELSE t.value
Star(t) == IF t.wildcard THEN <<"*">> ELSE <<>>
TermText(t) == TermString([t EXCEPT !.field = <<>>])

LEMMA WrittenIs ==
    ASSUME NEW t \in TermType
    PROVE  /\ Minus(t) \in Text /\ Body(t) \in Text /\ Star(t) \in Text
           /\ TermText(t) = (Minus(t) \o Body(t)) \o Star(t) /\ TermText(t) \in Text
<1>1. t.value \in Text
  BY DEF TermType
<1>2. Body(t) \in Text
  BY <1>1, QuotedFacts DEF Body
<1>3. Minus(t) \in Text /\ Star(t) \in Text
  BY ScanOfRune, RuneFacts DEF Minus, Star
<1>4. PICK u : u = [t EXCEPT !.field = <<>>]
  OBVIOUS
<1>5. u.field = <<>> /\ u.value = t.value /\ u.exact = t.exact /\ u.exclude = t.exclude /\ u.wildcard = t.wildcard
  BY <1>4 DEF TermType
<1>6. TermString(u) = Minus(u) \o <<>> \o Body(u) \o Star(u)
  BY <1>5 DEF TermString, Minus, Body, Star
<1>7. Minus(u) = Minus(t) /\ Body(u) = Body(t) /\ Star(u) = Star(t)
  BY <1>5 DEF Minus, Body, Star
<1>8. Minus(t) \o <<>> = Minus(t)
  BY <1>3, ConcatEmptySeq DEF Text
<1>9. TermText(t) = (Minus(t) \o Body(t)) \o Star(t)
  BY <1>4, <1>6, <1>7, <1>8, Zenon DEF TermText
<1>10. (Minus(t) \o Body(t)) \o Star(t) \in Text
  BY <1>2, <1>3, ConcatProperties DEF Text
<1> QED BY <1>2, <1>3, <1>9, <1>10

MinusTokens(t) == IF t.exclude THEN <<RuneToken("-")>> ELSE <<>>
StarTokens(t) == IF t.wildcard THEN <<RuneToken("*")>> ELSE <<>>

\* Nothing of a term, and terms that come back.
Blank(t) == t.value = <<>> /\ ~t.exact /\ ~t.exclude /\ ~t.wildcard

Returns(t) == Shaped(t) /\ t.field \in Names \cup {<<>>} /\ ~Moves(t) /\ ~Blank(t)

Settled(u) == State(u).mode \in {"scan", "string"}

LEMMA HeadJoin ==
    ASSUME NEW c \in Runes, NEW x \in Text, NEW v, v = <<c>> \o x
    PROVE  v # <<>> /\ Head(v) = c
<1>1. PICK a \in Seq(Runes) : a = <<c>> /\ Len(a) = 1 /\ a[1] = c
  BY OneRune, RuneFacts DEF Text
<1>2. PICK n \in Nat : n = Len(x)
  BY LenProperties DEF Text
<1>3. PICK w \in Seq(Runes) : w = v
  BY <1>1, ConcatProperties DEF Text
<1>4. Len(w) = 1 + n /\ \A i \in 1 .. 1 + n : w[i] = IF i <= 1 THEN a[i] ELSE x[i - 1]
  BY <1>1, <1>2, <1>3, ConcatProperties DEF Text
<1>5. w # <<>> /\ w[1] = c
  <2>1. Len(w) # 0 /\ 1 \in 1 .. 1 + n
    BY <1>4
  <2> QED BY <1>1, <1>4, <2>1, EmptySeq
<1> QED BY <1>3, <1>5

\* The body of a term without quotation marks.
LEMMA PlainBody ==
    ASSUME NEW t, Returns(t), ~t.exact
    PROVE  /\ Spaceless(t.value) /\ ~Quotes(Scan(t.value))
           /\ ~t.exclude => ~StartsWith(t.value, {"-"})
<1>1. Shaped(t) /\ t.field \in Names \cup {<<>>} /\ t.value \in Text
  BY DEF Returns, Shaped, TermType
<1>2. ~MinusMoves(t) /\ ~NameMoves(t)
  BY DEF Returns, Moves
<1>3. CASE t.field = <<>>
  <2>1. ToSet(t.value) \cap Spaces = {}
    BY <1>2, <1>3 DEF NameMoves
  <2>2. ~\E token \in ToSet(Scan(t.value)) : token.kind = "STRQ"
    BY <1>2, <1>3, Zenon DEF NameMoves
  <2>3. ~Quotes(Scan(t.value))
    BY <1>1, <2>2, GoodTokens, ScanIsOfTokens
  <2>4. ~t.exclude => ~StartsWith(t.value, {"-"})
    BY <1>2, <1>3, Zenon DEF NameMoves
  <2> QED BY <2>1, <2>3, <2>4 DEF Spaceless
<1>4. CASE t.field # <<>>
  <2>1. Spaceless(t.value) /\ ~Quotes(Scan(t.value))
    BY <1>1, <1>4 DEF Shaped
  <2>2. ~t.exclude => ~StartsWith(t.value, {"-"})
    BY <1>2, <1>4, Zenon DEF MinusMoves
  <2> QED BY <2>1, <2>2
<1> QED BY <1>3, <1>4

Said(ts) == IF Quotes(ts) THEN Unquote(ValuesOf(ts)) ELSE ValuesOf(ts)

LEMMA BodyFacts ==
    ASSUME NEW t, Returns(t), NEW ts, ts = Scan(Body(t))
    PROVE  /\ Rest(ts) /\ Settled(Body(t)) /\ (Quotes(ts) <=> t.exact) /\ Said(ts) = t.value
           /\ ~t.wildcard => ~Starred(ts)
           /\ ts # <<>> /\ ~t.exclude => ts[1].kind # "NEG"
           /\ Quotes(ts) => ~NamesField(ts) /\ ts # <<>>
<1>1. Shaped(t) /\ t \in TermType /\ t.value \in Text /\ Body(t) \in Text
  BY WrittenIs DEF Returns, Shaped, TermType
<1>2. CASE t.exact
  <2>1. Body(t) = Quote(t.value)
    BY <1>2 DEF Body
  <2>2. QuoteSafe(t.value)
    BY <1>2, Zenon DEF Returns, Moves, BackslashMoves, QuoteSafe
  <2>3. PICK x \in Lexeme : x = Token("STRQ", t.value) /\ x.kind = "STRQ" /\ x.value = t.value
    BY <1>1, TokenFacts DEF Kinds
  <2>4. ts = <<x>> /\ Settled(Body(t))
    BY <1>1, <2>1, <2>2, <2>3, ScanQuote DEF Settled
  <2>5. ts = Append(<<>>, x) /\ <<>> \in Seq(Lexeme) /\ ts \in Seq(Lexeme)
    BY <2>4
  <2>6. Good(ts)
    BY <1>1, <2>3, <2>5, GoodEmpty, GoodAppend, QuotationWellMade
  <2>7. ToSet(ts) = {x} /\ ts[1] = x /\ Len(ts) = 1
    BY <2>4, OneRune
  <2>8. NoSpace(ts)
    BY <2>3, <2>7 DEF NoSpace
  <2>9. Quotes(ts) /\ ~Starred(ts)
    <3>1. Quotes(ts)
      BY <2>3, <2>5, <2>7, GoodTokens
    <3>2. Last(ts) = x
      BY <2>7, Zenon DEF Last
    <3> QED BY <2>3, <3>1, <3>2 DEF Starred
  <2>10. Said(ts) = t.value
    <3>1. ValuesOf(ts) = t.value
      BY <2>3, <2>4, ValuesOne
    <3>2. "\\" \notin ToSet(t.value)
      BY <2>2 DEF QuoteSafe
    <3> QED BY <1>1, <2>9, <3>1, <3>2, UnquoteFacts DEF Said
  <2>11. ~NamesField(ts) /\ ts # <<>>
    BY <2>5, <2>7, EmptySeq DEF NamesField
  <2> QED BY <1>2, <2>3, <2>4, <2>5, <2>6, <2>7, <2>8, <2>9, <2>10, <2>11 DEF Rest
<1>3. CASE ~t.exact
  <2>1. Body(t) = t.value
    BY <1>3 DEF Body
  <2>2. Spaceless(t.value) /\ ~Quotes(ts) /\ (~t.exclude => ~StartsWith(t.value, {"-"}))
    BY <1>3, <2>1, PlainBody
  <2>3. ts \in Seq(Lexeme) /\ Good(ts)
    BY <1>1, ScanGood, ScanIsOfTokens
  <2>4. ValuesOf(ts) = t.value
    BY <1>1, <2>1, <2>2, PlainText
  <2>5. NoSpace(ts)
    BY <2>2, <2>3, <2>4, SpacelessGood
  <2>6. Settled(Body(t))
    BY <1>1, <2>2, ScanPlain DEF Plain, Settled
  <2>7. Rest(ts)
    BY <2>3, <2>5 DEF Rest
  <2>8. ~t.wildcard => ~Starred(ts)
    BY <1>1, <1>3, <2>2, <2>4, <2>7, StarredValues DEF Shaped
  <2>9. ASSUME ts # <<>>, ts[1].kind = "NEG" PROVE StartsWith(t.value, {"-"})
    <3>1. PICK x \in Lexeme : x = ts[1] /\ WellMade(x)
      BY <2>7, <2>9, FirstOfTokens
    <3>2. PICK us \in Seq(Lexeme) : us = Tail(ts)
      BY <2>7, <2>9, FirstOfTokens
    <3>3. ts = <<x>> \o us
      BY <2>7, <2>9, <3>1, <3>2, FirstOfTokens
    <3>4. PICK c \in Runes : c = "-" /\ x.value = <<c>>
      BY <2>9, <3>1, RuneFacts DEF WellMade
    <3>5. PICK w \in Text : w = ValuesOf(us)
      BY ValuesType
    <3>6. PICK a \in Seq(Lexeme) : a = <<x>>
      <4>1. <<x>> \in Seq(Lexeme)
        OBVIOUS
      <4> QED BY <4>1
    <3>7. ValuesOf(a \o us) = ValuesOf(a) \o ValuesOf(us)
      BY ValuesConcat
    <3>8. ValuesOf(a) = <<c>>
      BY <3>4, <3>6, ValuesOne
    <3>9. t.value = <<c>> \o w
      BY <2>4, <3>3, <3>5, <3>6, <3>7, <3>8
    <3>10. t.value # <<>> /\ Head(t.value) = c
      BY <3>9, HeadJoin
    <3> QED BY <3>4, <3>10 DEF StartsWith
  <2>10. Said(ts) = t.value
    BY <2>2, <2>4 DEF Said
  <2> QED BY <1>3, <2>2, <2>6, <2>7, <2>8, <2>9, <2>10
<1> QED BY <1>2, <1>3

-----------------------------------------------------------------------------
(* A written term is read as what it was. *)

LEMMA WrittenScan ==
    ASSUME NEW t, Returns(t), NEW ts, ts = Scan(Body(t))
    PROVE  /\ Scan(TermText(t)) = (MinusTokens(t) \o ts) \o StarTokens(t)
           /\ Settled(TermText(t)) /\ MinusTokens(t) \in Seq(Lexeme) /\ StarTokens(t) \in Seq(Lexeme)
<1>1. t \in TermType
  BY DEF Returns, Shaped
<1>2. PICK m \in Text : m = Minus(t)
  BY <1>1, WrittenIs
<1>3. PICK b \in Text : b = Body(t)
  BY <1>1, WrittenIs
<1>4. PICK w \in Text : w = Star(t)
  BY <1>1, WrittenIs
<1>5. State(<<>>).mode = "scan"
  <2>1. Start.mode = "scan"
    BY DEF Start
  <2> QED BY <2>1, RunEmpty, Zenon DEF State
<1>6. Scan(m) = MinusTokens(t) /\ State(m).mode = "scan" /\ MinusTokens(t) \in Seq(Lexeme)
  <2>1. CASE t.exclude
    <3>1. m = <<"-">> /\ MinusTokens(t) = <<RuneToken("-")>>
      BY <1>2, <2>1 DEF Minus, MinusTokens
    <3>2. Scan(<<"-">>) = <<RuneToken("-")>> /\ State(<<"-">>).mode = "scan"
      BY ScanOfRune
    <3> QED BY <3>1, <3>2, ScanIsOfTokens
  <2>2. CASE ~t.exclude
    <3>1. m = <<>> /\ MinusTokens(t) = <<>>
      BY <1>2, <2>2 DEF Minus, MinusTokens
    <3> QED BY <1>5, <3>1, ScanEmpty, ScanIsOfTokens
  <2> QED BY <2>1, <2>2
<1>7. Scan(w) = StarTokens(t) /\ State(w).mode = "scan" /\ StarTokens(t) \in Seq(Lexeme) /\ Opens(w)
  <2>1. CASE t.wildcard
    <3>1. w = <<"*">> /\ StarTokens(t) = <<RuneToken("*")>>
      BY <1>4, <2>1 DEF Star, StarTokens
    <3>2. Scan(<<"*">>) = <<RuneToken("*")>> /\ State(<<"*">>).mode = "scan"
      BY ScanOfRune
    <3>3. Opens(w)
      BY <3>1 DEF Opens
    <3> QED BY <3>1, <3>2, <3>3, ScanIsOfTokens
  <2>2. CASE ~t.wildcard
    <3>1. w = <<>> /\ StarTokens(t) = <<>>
      BY <1>4, <2>2 DEF Star, StarTokens
    <3> QED BY <1>5, <3>1, ScanEmpty, ScanIsOfTokens DEF Opens
  <2> QED BY <2>1, <2>2
<1>8. Settled(b)
  BY <1>3, BodyFacts
<1>9. PICK u \in Text : u = m \o b
  BY ConcatProperties DEF Text
<1>10. Scan(u) = Scan(m) \o Scan(b) /\ Settled(u)
  <2>1. Splits(m, b)
    BY <1>6 DEF Splits
  <2>2. Scan(m \o b) = Scan(m) \o Scan(b) /\ (b # <<>> => State(m \o b).mode = State(b).mode)
    BY <2>1, MeetScan
  <2>3. b = <<>> => u = m
    BY <1>9, ConcatEmptySeq DEF Text
  <2>4. Settled(u)
    BY <1>6, <1>8, <1>9, <2>2, <2>3 DEF Settled
  <2> QED BY <1>9, <2>2, <2>4
<1>11. Scan(u \o w) = Scan(u) \o Scan(w) /\ Settled(u \o w)
  <2>1. Splits(u, w)
    BY <1>7, <1>10 DEF Splits, Settled
  <2>2. Scan(u \o w) = Scan(u) \o Scan(w) /\ (w # <<>> => State(u \o w).mode = State(w).mode)
    BY <2>1, MeetScan
  <2>3. w = <<>> => u \o w = u
    BY ConcatEmptySeq DEF Text
  <2> QED BY <1>7, <1>10, <2>2, <2>3 DEF Settled
<1>12. TermText(t) = u \o w
  BY <1>1, <1>2, <1>3, <1>4, <1>9, WrittenIs
<1> QED BY <1>3, <1>6, <1>7, <1>10, <1>11, <1>12, Zenon

\* A last star is the wildcard of a term and no part of its value.
LEMMA WithStar ==
    ASSUME NEW t \in TermType, NEW ts, Rest(ts), ~t.wildcard => ~Starred(ts), NEW us, us = ts \o StarTokens(t)
    PROVE  /\ ValueOf(us) = Said(ts) /\ (Starred(us) <=> t.wildcard) /\ (Quotes(us) <=> Quotes(ts))
           /\ us \in Seq(Lexeme)
<1>1. ts \in Seq(Lexeme)
  BY DEF Rest
<1>2. CASE ~t.wildcard
  <2>1. us = ts /\ ~Starred(ts)
    BY <1>1, <1>2, ConcatEmptySeq DEF StarTokens
  <2>2. ValueOf(ts) = Said(ts)
    BY <2>1 DEF ValueOf, Said
  <2> QED BY <1>1, <1>2, <2>1, <2>2
<1>3. CASE t.wildcard
  <2>1. PICK x \in Lexeme : x = RuneToken("*") /\ x.kind = "WILDCARD"
    BY ScanOfRune DEF RuneKind
  <2>2. us = ts \o <<x>>
    BY <1>3, <2>1 DEF StarTokens
  <2>3. us = Append(ts, x)
    BY <1>1, <2>2, AppendIsConcat
  <2>4. Front(us) = ts /\ Last(us) = x /\ us \in Seq(Lexeme) /\ us # <<>>
    BY <1>1, <2>3, FrontOfAppend, AppendProperties
  <2>5. Starred(us)
    BY <2>1, <2>4 DEF Starred
  <2>6. Quotes(us) <=> Quotes(ts)
    BY <1>1, <2>1, <2>3, QuotesAppend
  <2>7. ValueOf(us) = Said(ts)
    <3>1. ValueOf(us) = IF Quotes(us) THEN Unquote(ValuesOf(Front(us))) ELSE ValuesOf(Front(us))
      BY <2>5 DEF ValueOf
    <3> QED BY <2>4, <2>6, <3>1 DEF Said
  <2> QED BY <1>3, <2>4, <2>5, <2>6, <2>7
<1> QED BY <1>2, <1>3

LEMMA TailConcat ==
    ASSUME NEW C, NEW u \in Seq(C), u # <<>>, NEW v \in Seq(C)
    PROVE  Tail(u \o v) = Tail(u) \o v /\ (u \o v)[1] = u[1] /\ u \o v # <<>>
<1>1. PICK w \in Seq(C) : w = u \o v
  BY ConcatProperties
<1>2. PICK n \in Nat : n = Len(u)
  BY LenProperties
<1>3. PICK m \in Nat : m = Len(v)
  BY LenProperties
<1>4. Len(w) = n + m /\ \A i \in 1 .. n + m : w[i] = IF i <= n THEN u[i] ELSE v[i - n]
  BY <1>1, <1>2, <1>3, ConcatProperties
<1>5. n # 0
  BY <1>2, EmptySeq
<1>6. w # <<>> /\ w[1] = u[1]
  <2>1. Len(w) # 0 /\ 1 \in 1 .. n + m /\ 1 <= n
    BY <1>4, <1>5
  <2> QED BY <1>4, <2>1, EmptySeq
<1>7. PICK a \in Seq(C) : a = Tail(u)
  BY HeadTailProperties
<1>8. PICK b \in Seq(C) : b = Tail(w)
  BY <1>6, HeadTailProperties
<1>9. PICK k \in Nat : k = n - 1 /\ k + 1 = n
  BY <1>5
<1>10. Len(a) = k /\ \A i \in 1 .. k : a[i] = u[i + 1]
  BY <1>2, <1>7, <1>9, HeadTailProperties
<1>11. Len(b) = k + m /\ \A i \in 1 .. k + m : b[i] = w[i + 1]
  <2>1. Len(w) = (k + m) + 1 /\ (k + m) + 1 - 1 = k + m
    BY <1>4, <1>9
  <2> QED BY <1>6, <1>8, <2>1, HeadTailProperties
<1>12. PICK c \in Seq(C) : c = a \o v
  BY ConcatProperties
<1>13. Len(c) = k + m /\ \A i \in 1 .. k + m : c[i] = IF i <= k THEN a[i] ELSE v[i - k]
  BY <1>3, <1>10, <1>12, ConcatProperties, ZenonT(60)
<1>14. ASSUME NEW i \in 1 .. k + m PROVE b[i] = c[i]
  <2>1. i + 1 \in 1 .. n + m /\ (i + 1 <= n <=> i <= k) /\ i + 1 - n = i - k
    BY <1>9
  <2>2. b[i] = IF i <= k THEN u[i + 1] ELSE v[i - k]
    <3>1. b[i] = w[i + 1]
      BY <1>11
    <3>2. w[i + 1] = IF i + 1 <= n THEN u[i + 1] ELSE v[i + 1 - n]
      BY <1>4, <2>1
    <3> QED BY <2>1, <3>1, <3>2
  <2> QED BY <1>10, <1>13, <2>2
<1>15. b = c
  BY <1>11, <1>13, <1>14, SeqEqual
<1> QED BY <1>1, <1>6, <1>7, <1>8, <1>12, <1>15

LEMMA WrittenParts ==
    ASSUME NEW t, Returns(t), NEW ts, ts = Scan(Body(t)), NEW us, us = ts \o StarTokens(t),
           NEW g, g = Scan(TermText(t))
    PROVE  /\ g # <<>> /\ g \in Seq(Lexeme) /\ NoSpace(g)
           /\ AfterMinus(g) = us /\ (g[1].kind = "NEG" <=> t.exclude)
<1>1. t \in TermType /\ Rest(ts) /\ ts \in Seq(Lexeme)
  BY BodyFacts DEF Returns, Shaped, Rest
<1>2. PICK m \in Seq(Lexeme) : m = MinusTokens(t)
  BY WrittenScan
<1>3. PICK w \in Seq(Lexeme) : w = StarTokens(t)
  BY WrittenScan
<1>4. g = (m \o ts) \o w
  BY <1>2, <1>3, WrittenScan
<1>5. us \in Seq(Lexeme) /\ us = ts \o w
  BY <1>1, <1>3, ConcatProperties
<1>6. g = m \o us
  BY <1>1, <1>4, <1>5, JoinJoin, ConcatProperties, SMTT(30)
<1>7. g \in Seq(Lexeme)
  BY <1>5, <1>6, ConcatProperties
<1>8. ToSet(g) = ToSet(m) \cup (ToSet(ts) \cup ToSet(w))
  <2>1. ToSet(m \o us) = ToSet(m) \cup ToSet(us)
    <3>1. PICK v \in Seq(Lexeme) : v = us
      BY <1>5
    <3>2. ToSet(m \o v) = ToSet(m) \cup ToSet(v)
      BY ToSetConcat
    <3> QED BY <3>1, <3>2, Zenon
  <2>2. ToSet(ts \o w) = ToSet(ts) \cup ToSet(w)
    BY <1>1, ToSetConcat
  <2> QED BY <1>5, <1>6, <2>1, <2>2
<1>9. PICK n \in Lexeme : n = RuneToken("-") /\ n.kind = "NEG"
  BY ScanOfRune DEF RuneKind
<1>10. PICK s \in Lexeme : s = RuneToken("*") /\ s.kind = "WILDCARD"
  BY ScanOfRune DEF RuneKind
<1>11. (t.exclude => m = <<n>>) /\ (~t.exclude => m = <<>>) /\ (t.wildcard => w = <<s>>) /\ (~t.wildcard => w = <<>>)
  BY <1>2, <1>3, <1>9, <1>10 DEF MinusTokens, StarTokens
<1>12. NoSpace(g)
  <2>1. ToSet(m) \subseteq {n} /\ ToSet(w) \subseteq {s}
    BY <1>11, OneRune, ToSetFacts
  <2>2. NoSpace(ts)
    BY <1>1 DEF Rest
  <2> QED BY <1>8, <1>9, <1>10, <2>1, <2>2 DEF NoSpace
<1>13. CASE t.exclude
  <2>1. m # <<>> /\ m[1] = n /\ Tail(m) = <<>>
    <3>1. m = <<n>>
      BY <1>11, <1>13
    <3>2. <<n>> # <<>> /\ <<n>>[1] = n /\ Tail(<<n>>) = <<>>
      OBVIOUS
    <3> QED BY <3>1, <3>2
  <2>2. Tail(m \o us) = Tail(m) \o us /\ (m \o us)[1] = m[1] /\ m \o us # <<>>
    BY <1>5, <2>1, TailConcat
  <2>3. Tail(g) = us /\ g[1] = n /\ g # <<>>
    <3>1. <<>> \o us = us
      BY <1>5, ConcatEmptySeq
    <3> QED BY <1>6, <2>1, <2>2, <3>1
  <2> QED BY <1>7, <1>9, <1>12, <1>13, <2>3 DEF AfterMinus
<1>14. CASE ~t.exclude
  <2>1. g = us
    BY <1>5, <1>6, <1>11, <1>14, ConcatEmptySeq
  <2>2. CASE ts # <<>>
    <3>1. us # <<>> /\ us[1] = ts[1]
      BY <1>1, <1>5, <2>2, TailConcat
    <3>2. ts[1].kind # "NEG"
      BY <1>14, <2>2, BodyFacts
    <3> QED BY <1>7, <1>12, <1>14, <2>1, <3>1, <3>2 DEF AfterMinus
  <2>3. CASE ts = <<>>
    <3>1. ~Quotes(ts) /\ ~t.exact
      BY <2>3, BodyFacts
    <3>2. t.value = <<>>
      BY <2>3, <3>1, BodyFacts, ValuesEmpty DEF Said
    <3>3. t.wildcard
      BY <1>14, <3>1, <3>2 DEF Returns, Blank
    <3>4. us = <<s>>
      BY <1>3, <1>5, <1>11, <2>3, <3>3, ConcatEmptySeq
    <3>5. us # <<>> /\ us[1] = s
      BY <3>4, OneRune
    <3> QED BY <1>7, <1>10, <1>12, <1>14, <2>1, <3>5 DEF AfterMinus
  <2> QED BY <2>2, <2>3
<1> QED BY <1>13, <1>14

LEMMA SameTerm ==
    ASSUME NEW t \in TermType, NEW us, NEW g, ValueOf(us) = t.value, Quotes(us) <=> t.exact,
           Starred(us) <=> t.wildcard, g[1].kind = "NEG" <=> t.exclude
    PROVE  OfTokens(t.field, us, g) = t
<1>1. PICK x \in BOOLEAN : x = Quotes(us)
  BY DEF Quotes
<1>2. PICK y \in BOOLEAN : y = (g[1].kind = "NEG")
  OBVIOUS
<1>3. PICK z \in BOOLEAN : z = Starred(us)
  BY DEF Starred
<1>4. t = [field |-> t.field, value |-> t.value, exact |-> t.exact, exclude |-> t.exclude, wildcard |-> t.wildcard]
  BY DEF TermType
<1>5. t.exact \in BOOLEAN /\ t.exclude \in BOOLEAN /\ t.wildcard \in BOOLEAN
  BY DEF TermType
<1>6. t.exact = x /\ t.exclude = y /\ t.wildcard = z
  <2>1. (x <=> t.exact) /\ (y <=> t.exclude) /\ (z <=> t.wildcard)
    BY <1>1, <1>2, <1>3
  <2> QED BY <1>5, <2>1
<1>7. OfTokens(t.field, us, g) =
        [field |-> t.field, value |-> t.value, exact |-> x, exclude |-> y, wildcard |-> z]
  BY <1>1, <1>2, <1>3 DEF OfTokens
<1> QED BY <1>4, <1>6, <1>7

\* The term of a field comes back.
LEMMA FieldTermReturns ==
    ASSUME NEW t, Returns(t), t.field \in Names
    PROVE  [NewSearchTerm(Scan(TermText(t)), TRUE) EXCEPT !.field = t.field] = t
<1>1. PICK ts : ts = Scan(Body(t))
  OBVIOUS
<1>2. PICK us : us = ts \o StarTokens(t)
  OBVIOUS
<1>3. PICK g : g = Scan(TermText(t))
  OBVIOUS
<1>4. AfterMinus(g) = us /\ (g[1].kind = "NEG" <=> t.exclude)
  BY <1>1, <1>2, <1>3, WrittenParts
<1>5. t \in TermType
  BY DEF Returns, Shaped
<1>6. Rest(ts) /\ (Quotes(ts) <=> t.exact) /\ Said(ts) = t.value /\ (~t.wildcard => ~Starred(ts))
  BY <1>1, BodyFacts
<1>7. ValueOf(us) = Said(ts) /\ (Starred(us) <=> t.wildcard) /\ (Quotes(us) <=> Quotes(ts))
  BY <1>2, <1>5, <1>6, WithStar
<1>8. OfTokens(t.field, us, g) = t
  BY <1>4, <1>5, <1>6, <1>7, SameTerm
<1>9. NewSearchTerm(g, TRUE) = OfTokens(<<>>, us, g)
  BY <1>4, TermIs
<1>10. [OfTokens(<<>>, us, g) EXCEPT !.field = t.field] = OfTokens(t.field, us, g)
  BY DEF OfTokens
<1> QED BY <1>3, <1>8, <1>9, <1>10

\* A text that begins with the name of a field.
LEMMA NamedBody ==
    ASSUME NEW ts, Rest(ts), NamesField(ts), ~Quotes(ts)
    PROVE  /\ ts[1].value \in Text /\ ts[1].value # <<>> /\ Rest(FromThird(ts))
           /\ ~Quotes(FromThird(ts)) /\ (Starred(FromThird(ts)) => Starred(ts))
           /\ Append(ts[1].value, ":") \o ValuesOf(FromThird(ts)) = ValuesOf(ts)
<1>1. ts # <<>> /\ Tail(ts) # <<>> /\ Tail(ts)[1] = ts[2] /\ Tail(Tail(ts)) = FromThird(ts)
  <2>1. ts \in Seq(Lexeme)
    BY DEF Rest
  <2> QED BY <2>1, ThirdOn
<1>2. PICK a \in Lexeme : a = ts[1]
  BY <1>1, FirstOfTokens
<1>3. PICK us \in Seq(Lexeme) : us = Tail(ts)
  BY <1>1, FirstOfTokens
<1>4. Rest(us) /\ WellMade(a) /\ a.kind # "SPACE" /\ a.kind # "STRQ" /\ ~Quotes(us) /\ ts = <<a>> \o us
  BY <1>1, <1>2, <1>3, FirstOfTokens
<1>5. PICK b \in Lexeme : b = us[1]
  BY <1>1, <1>3, <1>4, FirstOfTokens
<1>6. PICK vs \in Seq(Lexeme) : vs = Tail(us)
  BY <1>1, <1>3, <1>4, FirstOfTokens
<1>7. Rest(vs) /\ WellMade(b) /\ ~Quotes(vs) /\ us = <<b>> \o vs
  BY <1>1, <1>3, <1>4, <1>5, <1>6, FirstOfTokens
<1>8. vs = FromThird(ts) /\ b.kind = "FIELD"
  BY <1>1, <1>3, <1>5, <1>6 DEF NamesField
<1>9. PICK c \in Runes : c = ":" /\ b.value = <<c>>
  BY <1>7, <1>8, RuneFacts DEF WellMade
<1>10. PICK f \in Text : f = a.value
  BY LexemeFields
<1>11. f # <<>>
  BY <1>4, <1>10, TokenSpaces
<1>12. PICK v \in Text : v = ValuesOf(vs)
  BY ValuesType
<1>13. ValuesOf(us) = <<c>> \o v
  <2>1. PICK x \in Seq(Lexeme) : x = <<b>>
    <3>1. <<b>> \in Seq(Lexeme)
      OBVIOUS
    <3> QED BY <3>1
  <2>2. ValuesOf(x \o vs) = ValuesOf(x) \o ValuesOf(vs)
    BY ValuesConcat
  <2>3. ValuesOf(x) = <<c>>
    BY <1>9, <2>1, ValuesOne
  <2> QED BY <1>7, <1>12, <2>1, <2>2, <2>3
<1>14. ValuesOf(ts) = f \o (<<c>> \o v)
  <2>1. PICK x \in Seq(Lexeme) : x = <<a>>
    <3>1. <<a>> \in Seq(Lexeme)
      OBVIOUS
    <3> QED BY <3>1
  <2>2. ValuesOf(x \o us) = ValuesOf(x) \o ValuesOf(us)
    BY ValuesConcat
  <2>3. ValuesOf(x) = f
    BY <1>10, <2>1, ValuesOne
  <2> QED BY <1>4, <1>13, <2>1, <2>2, <2>3
<1>15. ValuesOf(ts) = Append(f, c) \o v
  <2>1. PICK y \in Seq(Runes) : y = <<c>>
    BY RuneFacts DEF Text
  <2>2. (f \o y) \o v = f \o (y \o v)
    BY JoinJoin, ConcatProperties, SMTT(30) DEF Text
  <2>3. f \o y = Append(f, c)
    BY <2>1, AppendIsConcat DEF Text
  <2> QED BY <1>14, <2>1, <2>2, <2>3
<1>16. ASSUME Starred(vs) PROVE Starred(ts)
  <2>1. EndsInStar(v)
    BY <1>7, <1>12, <1>16, StarredValues
  <2>2. Append(f, c) \in Text
    BY AppendProperties DEF Text
  <2>3. v # <<>>
    BY <2>1 DEF EndsInStar
  <2>4. EndsInStar(ValuesOf(ts))
    BY <1>15, <2>1, <2>2, <2>3, StarConcat
  <2> QED BY <2>4, StarredValues
<1> QED BY <1>2, <1>7, <1>8, <1>9, <1>10, <1>11, <1>12, <1>15, <1>16

\* What begins with a name begins with it.
LEMMA PrefixJoin ==
    ASSUME NEW u \in Text, NEW v \in Text
    PROVE  IsPrefix(u, u \o v)
<1>1. PICK w \in Text : w = u \o v
  BY ConcatProperties DEF Text
<1>2. PICK n \in Nat : n = Len(u)
  BY LenProperties DEF Text
<1>3. PICK m \in Nat : m = Len(v)
  BY LenProperties DEF Text
<1>4. Len(w) = n + m /\ \A i \in 1 .. n + m : w[i] = IF i <= n THEN u[i] ELSE v[i - n]
  BY <1>1, <1>2, <1>3, ConcatProperties DEF Text
<1>5. \A i \in 1 .. n : w[i] = u[i] /\ u[i] \in Runes
  <2>1. \A i \in 1 .. n : i \in 1 .. n + m /\ i <= n
    OBVIOUS
  <2>2. \A i \in 1 .. n : u[i] \in Runes
    BY <1>2, ElementOfSeq DEF Text
  <2> QED BY <1>4, <2>1, <2>2
<1>6. PICK a \in Seq(Runes) : a = SubSeq(w, 1, n) /\ Len(a) = n /\ \A i \in 1 .. n : a[i] = w[i]
  <2>1. 1 \in Int /\ n \in Int /\ \A i \in 1 .. n : w[i] \in Runes
    BY <1>5
  <2>2. SubSeq(w, 1, n) \in Seq(Runes)
    BY <2>1, SubSeqProperties
  <2>3. Len(SubSeq(w, 1, n)) = n
    BY <2>1, SubSeqProperties
  <2>4. \A i \in 1 .. n : SubSeq(w, 1, n)[i] = w[i]
    BY <2>1, SubSeqProperties
  <2> QED BY <2>2, <2>3, <2>4
<1>7. a = u
  BY <1>2, <1>5, <1>6, SeqEqual DEF Text
<1>8. SubSeq(u, 1, n) = u
  BY <1>2, SubSeqFull DEF Text
<1> QED BY <1>1, <1>2, <1>4, <1>6, <1>7, <1>8 DEF IsPrefix

\* A term with a star names a field when it does so without.
LEMMA NamedWithStar ==
    ASSUME NEW t \in TermType, NEW ts, Rest(ts), NEW us, us = ts \o StarTokens(t), NamesField(us)
    PROVE  NamesField(ts) /\ us[1] = ts[1] /\ FromThird(us) = FromThird(ts) \o StarTokens(t)
<1>1. ts \in Seq(Lexeme)
  BY DEF Rest
<1>2. PICK w \in Seq(Lexeme) : w = StarTokens(t)
  <2>1. StarTokens(t) \in Seq(Lexeme)
    <3>1. RuneToken("*") \in Lexeme
      BY ScanOfRune
    <3> QED BY <3>1 DEF StarTokens
  <2> QED BY <2>1
<1>3. CASE ~t.wildcard
  <2>1. w = <<>>
    BY <1>2, <1>3 DEF StarTokens
  <2>2. us = ts
    BY <1>1, <1>2, <2>1, ConcatEmptySeq
  <2>3. NamesField(ts) /\ ts # <<>> /\ Tail(ts) # <<>> /\ Tail(Tail(ts)) = FromThird(ts)
    BY <1>1, <2>2, ThirdOn
  <2>4. FromThird(ts) \in Seq(Lexeme)
    BY <2>3, FirstOfTokens DEF Rest
  <2> QED BY <1>2, <2>1, <2>2, <2>3, <2>4, ConcatEmptySeq
<1>4. CASE t.wildcard
  <2>1. PICK s \in Lexeme : s = RuneToken("*") /\ s.kind = "WILDCARD"
    BY ScanOfRune DEF RuneKind
  <2>2. w = <<s>> /\ Len(w) = 1 /\ w[1] = s
    BY <1>2, <1>4, <2>1, OneRune DEF StarTokens
  <2>3. PICK n \in Nat : n = Len(ts)
    BY <1>1, LenProperties
  <2>4. us \in Seq(Lexeme) /\ Len(us) = n + 1 /\ \A i \in 1 .. n + 1 : us[i] = IF i <= n THEN ts[i] ELSE w[i - n]
    BY <1>1, <1>2, <2>2, <2>3, ConcatProperties
  <2>5. n + 1 > 1 /\ us[2].kind = "FIELD"
    BY <2>4 DEF NamesField
  <2>6. n # 1
    <3>1. ASSUME n = 1 PROVE FALSE
      <4>1. us[2] = w[1]
        <5>1. 2 \in 1 .. n + 1 /\ ~(2 <= n) /\ 2 - n = 1
          BY <3>1
        <5> QED BY <2>4, <5>1
      <4> QED BY <2>1, <2>2, <2>5, <4>1
    <3> QED BY <3>1
  <2>7. n > 1
    BY <2>5, <2>6
  <2>8. us[2] = ts[2] /\ us[1] = ts[1]
    <3>1. 2 \in 1 .. n + 1 /\ 2 <= n /\ 1 \in 1 .. n + 1 /\ 1 <= n
      BY <2>7
    <3> QED BY <2>4, <3>1
  <2>9. NamesField(ts)
    BY <2>3, <2>5, <2>7, <2>8 DEF NamesField
  <2>10. ts # <<>> /\ Tail(ts) # <<>> /\ Tail(Tail(ts)) = FromThird(ts)
    BY <1>1, <2>9, ThirdOn
  <2>11. PICK x \in Seq(Lexeme) : x = Tail(ts)
    BY <2>10, FirstOfTokens
  <2>12. Tail(us) = x \o w
    BY <1>1, <1>2, <2>10, <2>11, TailConcat
  <2>13. Tail(x \o w) = Tail(x) \o w
    BY <2>10, <2>11, TailConcat
  <2>14. Tail(Tail(us)) = FromThird(us)
    BY <2>4, ThirdOn
  <2> QED BY <1>2, <2>8, <2>9, <2>10, <2>11, <2>12, <2>13, <2>14
<1> QED BY <1>3, <1>4

\* The term of the free text comes back.
LEMMA QueryTermReturns ==
    ASSUME NEW t, Returns(t), t.field = <<>>
    PROVE  Unfielded(NewSearchTerm(Scan(TermText(t)), FALSE), Names) = t
<1>1. PICK ts : ts = Scan(Body(t))
  OBVIOUS
<1>2. PICK us : us = ts \o StarTokens(t)
  OBVIOUS
<1>3. PICK g : g = Scan(TermText(t))
  OBVIOUS
<1>4. AfterMinus(g) = us /\ (g[1].kind = "NEG" <=> t.exclude)
  BY <1>1, <1>2, <1>3, WrittenParts
<1>5. t \in TermType /\ Shaped(t)
  BY DEF Returns, Shaped
<1>6. /\ Rest(ts) /\ (Quotes(ts) <=> t.exact) /\ Said(ts) = t.value /\ (~t.wildcard => ~Starred(ts))
      /\ (Quotes(ts) => ~NamesField(ts))
  BY <1>1, BodyFacts
<1>7. CASE ~NamesField(us)
  <2>1. ValueOf(us) = Said(ts) /\ (Starred(us) <=> t.wildcard) /\ (Quotes(us) <=> Quotes(ts))
    BY <1>2, <1>5, <1>6, WithStar
  <2>2. OfTokens(t.field, us, g) = t
    BY <1>4, <1>5, <1>6, <2>1, SameTerm
  <2>3. NewSearchTerm(g, FALSE) = OfTokens(<<>>, us, g)
    BY <1>4, <1>7, TermIs
  <2>4. NewSearchTerm(g, FALSE) = t
    BY <2>2, <2>3
  <2>5. Unfielded(t, Names) = t
    BY DEF Unfielded
  <2> QED BY <1>3, <2>4, <2>5
<1>8. CASE NamesField(us)
  <2>1. NamesField(ts) /\ us[1] = ts[1] /\ FromThird(us) = FromThird(ts) \o StarTokens(t)
    BY <1>2, <1>5, <1>6, <1>8, NamedWithStar
  <2>2. ~Quotes(ts) /\ ~t.exact
    BY <1>6, <2>1
  <2>3. PICK f \in Text : f = ts[1].value
    BY <1>6, <2>1, <2>2, NamedBody
  <2>4. PICK rs : rs = FromThird(ts)
    OBVIOUS
  <2>5. /\ f # <<>> /\ Rest(rs) /\ ~Quotes(rs) /\ (Starred(rs) => Starred(ts))
        /\ Append(f, ":") \o ValuesOf(rs) = ValuesOf(ts)
    BY <1>6, <2>1, <2>2, <2>3, <2>4, NamedBody
  <2>6. ValuesOf(ts) = t.value
    BY <1>6, <2>2 DEF Said
  <2>7. PICK vs : vs = rs \o StarTokens(t)
    OBVIOUS
  <2>8. ValueOf(vs) = Said(rs) /\ (Starred(vs) <=> t.wildcard) /\ (Quotes(vs) <=> Quotes(rs))
    BY <1>5, <1>6, <2>5, <2>7, WithStar
  <2>9. ValueOf(vs) = ValuesOf(rs)
    BY <2>5, <2>8 DEF Said
  <2>10. PICK u : u = NewSearchTerm(g, FALSE)
    OBVIOUS
  <2>11. u = OfTokens(f, vs, g)
    BY <1>4, <1>8, <2>1, <2>3, <2>4, <2>7, <2>10, TermIs
  <2>12. f \notin Names
    <3>1. ASSUME f \in Names PROVE FALSE
      <4>1. PICK p \in Text : p = Append(f, ":")
        BY RuneFacts, AppendProperties DEF Text
      <4>2. PICK v \in Text : v = ValuesOf(rs)
        BY <2>5, ValuesType DEF Rest
      <4>3. IsPrefix(p, p \o v)
        BY PrefixJoin
      <4>4. IsPrefix(Append(f, ":"), t.value)
        BY <2>5, <2>6, <4>1, <4>2, <4>3
      <4>5. NameMoves(t)
        BY <2>2, <3>1, <4>4, Zenon DEF NameMoves
      <4> QED BY <4>5 DEF Returns, Moves
    <3> QED BY <3>1
  <2>13. u.field = f
    BY <2>11 DEF OfTokens
  <2>14. Unfielded(u, Names) = [u EXCEPT !.field = <<>>, !.value = Append(u.field, ":") \o u.value]
    BY <2>5, <2>12, <2>13 DEF Unfielded
  <2>15. u.value = ValuesOf(rs)
    BY <2>9, <2>11 DEF OfTokens
  <2>16. Unfielded(u, Names) = [u EXCEPT !.field = <<>>, !.value = t.value]
    BY <2>5, <2>6, <2>13, <2>14, <2>15
  <2>17. PICK x \in BOOLEAN : x = Quotes(vs)
    BY DEF Quotes
  <2>18. PICK y \in BOOLEAN : y = (g[1].kind = "NEG")
    OBVIOUS
  <2>19. PICK z \in BOOLEAN : z = Starred(vs)
    BY DEF Starred
  <2>20. PICK v : v = ValueOf(vs)
    OBVIOUS
  <2>21. u = [field |-> f, value |-> v, exact |-> x, exclude |-> y, wildcard |-> z]
    BY <2>11, <2>17, <2>18, <2>19, <2>20, Zenon DEF OfTokens
  <2>22. PICK w : w = t.value
    OBVIOUS
  <2>23. [u EXCEPT !.field = <<>>, !.value = w] =
           [field |-> <<>>, value |-> w, exact |-> x, exclude |-> y, wildcard |-> z]
    <3>1. PICK e : e = <<>>
      OBVIOUS
    <3> DEFINE r == [u EXCEPT !.field = e, !.value = w]
               s == [field |-> e, value |-> w, exact |-> x, exclude |-> y, wildcard |-> z]
    <3>2. /\ DOMAIN r = {"field", "value", "exact", "exclude", "wildcard"}
          /\ r = [a \in {"field", "value", "exact", "exclude", "wildcard"} |-> r[a]]
      BY <2>21
    <3>3. /\ DOMAIN s = {"field", "value", "exact", "exclude", "wildcard"}
          /\ s = [a \in {"field", "value", "exact", "exclude", "wildcard"} |-> s[a]]
      OBVIOUS
    <3>4. r.field = s.field /\ r.value = s.value
      BY <2>21
    <3>5. r.exact = s.exact
      BY <2>21
    <3>6. r.exclude = s.exclude
      BY <2>21
    <3>7. r.wildcard = s.wildcard
      BY <2>21
    <3>8. \A a \in {"field", "value", "exact", "exclude", "wildcard"} : r[a] = s[a]
      BY <3>4, <3>5, <3>6, <3>7
    <3>9. r = s
      BY <3>2, <3>3, <3>8
    <3> QED BY <3>1, <3>9, Zenon
  <2>24. t = [field |-> t.field, value |-> t.value, exact |-> t.exact, exclude |-> t.exclude,
              wildcard |-> t.wildcard]
    BY <1>5 DEF TermType
  <2>25. t.exact = x /\ t.exclude = y /\ t.wildcard = z
    <3>1. (x <=> t.exact) /\ (y <=> t.exclude) /\ (z <=> t.wildcard)
      BY <1>4, <2>2, <2>5, <2>8, <2>17, <2>18, <2>19
    <3>2. t.exact \in BOOLEAN /\ t.exclude \in BOOLEAN /\ t.wildcard \in BOOLEAN
      BY <1>5 DEF TermType
    <3> QED BY <3>1, <3>2
  <2>26. Unfielded(u, Names) = t
    BY <2>16, <2>22, <2>23, <2>24, <2>25
  <2> QED BY <1>3, <2>10, <2>26
<1> QED BY <1>7, <1>8

-----------------------------------------------------------------------------
(* The terms that a list of tokens is cut into. *)

\* A sequence of some of the elements of another one.
Picked(q, D) == [i \in DOMAIN q |-> IF i \in D THEN <<q[i]>> ELSE <<>>]

\* What it has.
LEMMA PickedSet ==
    ASSUME NEW C, NEW q \in Seq(C), NEW D
    PROVE  /\ FlattenSeq(Picked(q, D)) \in Seq(C)
           /\ \A x : x \in ToSet(FlattenSeq(Picked(q, D))) <=> \E i \in DOMAIN q : i \in D /\ x = q[i]
<1>1. PICK n \in Nat : n = Len(q) /\ DOMAIN q = 1 .. n
  BY LenProperties
<1>2. PICK hs : hs = Picked(q, D)
  OBVIOUS
<1>3. \A i \in 1 .. n : q[i] \in C
  BY <1>1, ElementOfSeq
<1>4. DOMAIN hs = 1 .. n /\ \A i \in 1 .. n : hs[i] = IF i \in D THEN <<q[i]>> ELSE <<>>
  BY <1>1, <1>2 DEF Picked
<1>5. \A i \in 1 .. n : hs[i] \in Seq(C)
  <2> TAKE i \in 1 .. n
  <2>1. PICK x \in C : x = q[i]
    BY <1>3
  <2>2. <<x>> \in Seq(C) /\ <<>> \in Seq(C)
    OBVIOUS
  <2> QED BY <1>4, <2>1, <2>2
<1>6. hs \in Seq(Seq(C)) /\ Len(hs) = n
  <2>1. hs = [i \in 1 .. n |-> IF i \in D THEN <<q[i]>> ELSE <<>>]
    BY <1>1, <1>2 DEF Picked
  <2>2. hs \in [1 .. n -> Seq(C)]
    BY <1>4, <1>5, <2>1
  <2>3. hs \in Seq(Seq(C))
    BY <2>2, IsASeq
  <2> QED BY <1>4, <2>3, LenProperties
<1>7. FlattenSeq(hs) \in Seq(C)
  BY <1>6, FlattenType
<1>8. Range(FlattenSeq(hs)) = UNION {Range(hs[i]) : i \in 1 .. n}
  BY <1>6, FlattenRange
<1>9. \A i \in 1 .. n : Range(hs[i]) = IF i \in D THEN {q[i]} ELSE {}
  <2> TAKE i \in 1 .. n
  <2>1. PICK x : x = q[i]
    OBVIOUS
  <2>2. Range(<<x>>) = {x}
    <3>1. ToSet(<<x>>) = {x}
      BY OneRune
    <3> QED BY <3>1, Zenon DEF ToSet, Range
  <2>3. Range(<<>>) = {}
    BY DEF Range
  <2> QED BY <1>4, <2>1, <2>2, <2>3
<1>10. ToSet(FlattenSeq(hs)) = UNION {Range(hs[i]) : i \in 1 .. n}
  BY <1>8, Zenon DEF ToSet, Range
<1>11. \A x : x \in ToSet(FlattenSeq(hs)) <=> \E i \in 1 .. n : i \in D /\ x = q[i]
  BY <1>9, <1>10, ZenonT(60)
<1> QED BY <1>1, <1>2, <1>7, <1>11

Groups == Seq(Seq(Lexeme))

\* The groups that are complete are S, and g is being read.
CutInto(gs, S, g) ==
    /\ gs \in Groups /\ g \in Seq(Lexeme)
    /\ gs = <<>> => S = {} /\ g = <<>>
    /\ gs # <<>> => g = Last(gs) /\ S = ToSet(Front(gs)) \ {<<>>}

LEMMA CutStart == CutInto(CutTokens(<<>>), {}, <<>>)
<1>1. CutTokens(<<>>) = <<>>
  BY CutTokensStart DEF NoGroups
<1>2. PICK e : e = <<>>
  OBVIOUS
<1>3. e \in Seq(Lexeme) /\ e \in Seq(Seq(Lexeme))
  BY <1>2, EmptySeq, Zenon
<1>4. CutInto(e, {}, e)
  BY <1>2, <1>3, Zenon DEF CutInto, Groups
<1> QED BY <1>1, <1>2, <1>4, Zenon

LEMMA CutSet ==
    ASSUME NEW gs, NEW S, NEW g, CutInto(gs, S, g)
    PROVE  NotEmpty(gs) \in Groups /\ ToSet(NotEmpty(gs)) = (S \cup {g}) \ {<<>>}
<1>1. gs \in Seq(Seq(Lexeme)) /\ g \in Seq(Lexeme)
  BY DEF CutInto, Groups
<1>2. NotEmpty(gs) = FlattenSeq(Picked(gs, {i \in DOMAIN gs : gs[i] # <<>>}))
  <2> DEFINE D == {i \in DOMAIN gs : gs[i] # <<>>}
  <2>1. [i \in DOMAIN gs |-> IF gs[i] = <<>> THEN <<>> ELSE <<gs[i]>>] = Picked(gs, D)
    BY DEF Picked
  <2> QED BY <2>1, Zenon DEF NotEmpty
<1>3. PICK r : r = NotEmpty(gs)
  OBVIOUS
<1>4. /\ r \in Seq(Seq(Lexeme))
      /\ \A x : x \in ToSet(r) <=> \E i \in DOMAIN gs : i \in {j \in DOMAIN gs : gs[j] # <<>>} /\ x = gs[i]
  BY <1>1, <1>2, <1>3, PickedSet
<1>5. ToSet(r) = ToSet(gs) \ {<<>>}
  <2>1. \A x : x \in ToSet(gs) <=> \E i \in DOMAIN gs : x = gs[i]
    BY DEF ToSet
  <2>2. \A x : x \in ToSet(r) <=> x \in ToSet(gs) /\ x # <<>>
    BY <1>4, <2>1
  <2> QED BY <2>2
<1>6. CASE gs = <<>>
  <2>1. ToSet(gs) = {}
    BY <1>6, ToSetFacts
  <2> QED BY <1>3, <1>4, <1>5, <1>6, <2>1 DEF CutInto, Groups
<1>7. CASE gs # <<>>
  <2>1. PICK hs \in Seq(Seq(Lexeme)) : hs = Front(gs)
    BY <1>1, <1>7, LastOfSeq
  <2>2. gs = Append(hs, g)
    BY <1>1, <1>7, <2>1, LastOfSeq DEF CutInto
  <2>3. ToSet(gs) = ToSet(hs) \cup {g}
    <3>1. PICK w \in Seq(Lexeme) : w = g
      BY <1>1
    <3>2. ToSet(Append(hs, w)) = ToSet(hs) \cup {w}
      BY ToSetAppend
    <3> QED BY <2>2, <3>1, <3>2
  <2>4. S = ToSet(hs) \ {<<>>}
    BY <1>7, <2>1 DEF CutInto
  <2> QED BY <1>3, <1>4, <1>5, <2>3, <2>4 DEF Groups
<1> QED BY <1>6, <1>7

\* A token more.
LEMMA CutStep ==
    ASSUME NEW gs, NEW S, NEW g, CutInto(gs, S, g), NEW t \in Lexeme
    PROVE  /\ t.kind # "SPACE" => CutInto(CutToken(gs, t), S, Append(g, t))
           /\ t.kind = "SPACE" => CutInto(CutToken(gs, t), (S \cup {g}) \ {<<>>}, <<>>)
<1>1. gs \in Seq(Seq(Lexeme)) /\ g \in Seq(Lexeme)
  BY DEF CutInto, Groups
<1>2. PICK h \in Seq(Lexeme) : h = Append(g, t)
  BY <1>1, AppendProperties
<1>3. ASSUME t.kind # "SPACE", gs = <<>> PROVE CutInto(CutToken(gs, t), S, h)
  <2>1. g = <<>> /\ S = {}
    BY <1>3 DEF CutInto
  <2>2. h = <<t>>
    BY <1>2, <2>1, AppendOne
  <2>3. CutToken(gs, t) = << <<t>> >>
    BY <1>3, Zenon DEF CutToken
  <2>4. PICK e \in Seq(Seq(Lexeme)) : e = <<>>
    BY EmptySeq, Zenon
  <2>5. PICK r \in Seq(Seq(Lexeme)) : r = Append(e, h)
    BY AppendProperties
  <2>6. r = <<h>>
    BY <2>4, <2>5, AppendOne
  <2>7. CutToken(gs, t) = r
    BY <2>2, <2>3, <2>6
  <2>8. Front(r) = e /\ Last(r) = h /\ r # <<>>
    BY <2>5, FrontOfAppend, AppendProperties
  <2>9. ToSet(e) = {}
    BY <2>4, ToSetFacts
  <2>10. S = ToSet(Front(r)) \ {<<>>}
    BY <2>1, <2>8, <2>9
  <2>11. r \in Groups
    BY DEF Groups
  <2>12. CutInto(r, S, h)
    BY <2>8, <2>10, <2>11 DEF CutInto
  <2> QED BY <2>7, <2>12
<1>4. ASSUME gs # <<>>
      PROVE  \E hs \in Seq(Seq(Lexeme)) : gs = Append(hs, g) /\ S = ToSet(hs) \ {<<>>} /\ g = Last(gs)
  <2>1. PICK hs \in Seq(Seq(Lexeme)) : hs = Front(gs)
    BY <1>1, <1>4, LastOfSeq
  <2>2. gs = Append(hs, g)
    BY <1>1, <1>4, <2>1, LastOfSeq DEF CutInto
  <2>3. S = ToSet(hs) \ {<<>>} /\ g = Last(gs)
    BY <1>4, <2>1 DEF CutInto
  <2> QED BY <2>2, <2>3
<1>5. ASSUME t.kind # "SPACE", gs # <<>> PROVE CutInto(CutToken(gs, t), S, h)
  <2>1. PICK hs \in Seq(Seq(Lexeme)) : gs = Append(hs, g) /\ S = ToSet(hs) \ {<<>>}
    BY <1>4, <1>5
  <2>2. PICK n \in Nat : n = Len(hs)
    BY LenProperties
  <2>3. Len(gs) = n + 1 /\ gs[n + 1] = g /\ \A i \in 1 .. n : gs[i] = hs[i]
    BY <1>1, <2>1, <2>2, AppendProperties
  <2>4. PICK r : r = CutToken(gs, t)
    OBVIOUS
  <2>5. r = [gs EXCEPT ![Len(gs)] = Append(@, t)]
    BY <1>5, <2>4, Zenon DEF CutToken
  <2>6. DOMAIN gs = 1 .. n + 1
    BY <1>1, <2>3, LenProperties
  <2>7. DOMAIN r = 1 .. n + 1 /\ r[n + 1] = h /\ \A i \in 1 .. n : r[i] = gs[i]
    BY <1>2, <2>3, <2>5, <2>6
  <2>8. r \in Seq(Seq(Lexeme)) /\ Len(r) = n + 1
    <3>1. \A i \in 1 .. n + 1 : gs[i] \in Seq(Lexeme)
      BY <1>1, <2>3, ElementOfSeq
    <3>2. \A i \in 1 .. n + 1 : r[i] \in Seq(Lexeme)
      BY <2>7, <3>1
    <3>3. r = [i \in 1 .. n + 1 |-> r[i]]
      BY <2>5, <2>6
    <3>4. r \in [1 .. n + 1 -> Seq(Lexeme)]
      BY <3>2, <3>3
    <3>5. r \in Seq(Seq(Lexeme))
      BY <3>4, IsASeq
    <3> QED BY <2>7, <3>5, LenProperties
  <2>9. r = Append(hs, h)
    BY <2>2, <2>3, <2>7, <2>8, LongerByOne
  <2>10. Front(r) = hs /\ Last(r) = h /\ r # <<>>
    BY <2>9, FrontOfAppend, AppendProperties
  <2>11. r \in Groups
    BY <2>8 DEF Groups
  <2>12. CutInto(r, S, h)
    BY <2>1, <2>10, <2>11 DEF CutInto
  <2> QED BY <2>4, <2>12
<1>6. ASSUME t.kind = "SPACE", g = <<>> PROVE CutInto(CutToken(gs, t), (S \cup {g}) \ {<<>>}, <<>>)
  <2>1. CutToken(gs, t) = gs
    <3>1. ~(gs # <<>> /\ Last(gs) # <<>>)
      BY <1>4, <1>6
    <3> QED BY <1>6, <3>1, Zenon DEF CutToken
  <2>2. (S \cup {g}) \ {<<>>} = S
    BY <1>6 DEF CutInto
  <2> QED BY <1>6, <2>1, <2>2
<1>7. ASSUME t.kind = "SPACE", g # <<>> PROVE CutInto(CutToken(gs, t), (S \cup {g}) \ {<<>>}, <<>>)
  <2>1. gs # <<>>
    BY <1>7 DEF CutInto
  <2>2. PICK hs \in Seq(Seq(Lexeme)) : gs = Append(hs, g) /\ S = ToSet(hs) \ {<<>>} /\ g = Last(gs)
    BY <1>4, <2>1
  <2>3. CutToken(gs, t) = Append(gs, <<>>)
    BY <1>7, <2>1, <2>2, Zenon DEF CutToken
  <2>4. PICK e \in Seq(Lexeme) : e = <<>>
    BY EmptySeq, Zenon
  <2>5. PICK r \in Seq(Seq(Lexeme)) : r = Append(gs, e)
    BY <1>1, AppendProperties
  <2>6. Front(r) = gs /\ Last(r) = e /\ r # <<>>
    BY <1>1, <2>5, FrontOfAppend, AppendProperties, SMTT(30)
  <2>7. ToSet(gs) = ToSet(hs) \cup {g}
    BY <1>1, <2>2, ToSetAppend
  <2>8. (S \cup {g}) \ {<<>>} = ToSet(gs) \ {<<>>}
    BY <2>2, <2>7
  <2>9. r \in Groups
    BY DEF Groups
  <2>10. CutInto(r, (S \cup {g}) \ {<<>>}, e)
    BY <2>6, <2>8, <2>9 DEF CutInto
  <2> QED BY <2>3, <2>4, <2>5, <2>10
<1> QED BY <1>2, <1>3, <1>5, <1>6, <1>7

-----------------------------------------------------------------------------
(* Groups of tokens without a space between them. *)

LEMMA NoSpaceAppend ==
    ASSUME NEW w \in Seq(Lexeme), NEW t \in Lexeme
    PROVE  NoSpace(Append(w, t)) <=> NoSpace(w) /\ t.kind # "SPACE"
<1>1. ToSet(Append(w, t)) = ToSet(w) \cup {t}
  BY ToSetAppend
<1> QED BY <1>1 DEF NoSpace

\* Tokens without a space belong to the group that is being read.
LEMMA CutConcat ==
    ASSUME NEW ts \in Seq(Lexeme), NEW S, NEW g, CutInto(CutTokens(ts), S, g),
           NEW w \in Seq(Lexeme), NoSpace(w)
    PROVE  CutInto(CutTokens(ts \o w), S, g \o w)
<1> DEFINE X == {v \in Seq(Lexeme) : NoSpace(v) => CutInto(CutTokens(ts \o v), S, g \o v)}
<1>1. g \in Seq(Lexeme)
  BY DEF CutInto
<1>2. <<>> \in X
  <2>1. ts \o <<>> = ts /\ g \o <<>> = g
    BY <1>1, ConcatEmptySeq
  <2>2. <<>> \in Seq(Lexeme)
    OBVIOUS
  <2> QED BY <2>1, <2>2
<1>3. \A v \in Seq(Lexeme), t \in Lexeme : v \in X => Append(v, t) \in X
  <2> SUFFICES ASSUME NEW v \in Seq(Lexeme), NEW t \in Lexeme, v \in X, NoSpace(Append(v, t))
               PROVE  CutInto(CutTokens(ts \o Append(v, t)), S, g \o Append(v, t))
    BY AppendProperties
  <2>1. NoSpace(v) /\ t.kind # "SPACE"
    BY NoSpaceAppend
  <2>2. CutInto(CutTokens(ts \o v), S, g \o v)
    BY <2>1
  <2>3. PICK x \in Seq(Lexeme) : x = ts \o v
    BY ConcatProperties
  <2>4. PICK y : y = g \o v
    OBVIOUS
  <2>5. ts \o Append(v, t) = Append(x, t) /\ g \o Append(v, t) = Append(y, t)
    BY <1>1, <2>3, <2>4, AppendJoin, SMTT(30)
  <2>6. CutTokens(Append(x, t)) = CutToken(CutTokens(x), t)
    BY CutTokensAppend
  <2>7. PICK gs : gs = CutTokens(x)
    OBVIOUS
  <2>8. CutInto(gs, S, y)
    BY <2>2, <2>3, <2>4, <2>7
  <2>9. CutInto(CutToken(gs, t), S, Append(y, t))
    BY <2>1, <2>8, CutStep
  <2> QED BY <2>5, <2>6, <2>7, <2>9
<1> HIDE DEF X
<1>4. Seq(Lexeme) \subseteq X
  BY <1>2, <1>3, InductSeq
<1> QED BY <1>4 DEF X

\* The tokens of a text are cut into groups of which none has a space.
CutsWell(ts) ==
    \E S, g : /\ CutInto(CutTokens(ts), S, g) /\ (\A h \in S : Rest(h)) /\ Rest(g)
              /\ EndsInString(g) => EndsInString(ts)

LEMMA CutGood ==
    ASSUME NEW ts \in Seq(Lexeme), Good(ts)
    PROVE  CutsWell(ts)
<1> DEFINE X == {u \in Seq(Lexeme) : Good(u) => CutsWell(u)}
<1>0. Rest(<<>>) /\ ~EndsInString(<<>>)
  <2>1. ToSet(<<>>) = {}
    BY ToSetFacts
  <2>2. <<>> \in Seq(Lexeme)
    OBVIOUS
  <2> QED BY <2>1, <2>2, GoodEmpty DEF Rest, NoSpace
<1>1. <<>> \in X
  <2>1. CutsWell(<<>>)
    BY <1>0, CutStart DEF CutsWell
  <2>2. <<>> \in Seq(Lexeme)
    OBVIOUS
  <2> QED BY <2>1, <2>2
<1>2. \A u \in Seq(Lexeme), t \in Lexeme : u \in X => Append(u, t) \in X
  <2> SUFFICES ASSUME NEW u \in Seq(Lexeme), NEW t \in Lexeme, u \in X, Good(Append(u, t))
               PROVE  CutsWell(Append(u, t))
    BY AppendProperties
  <2>1. Good(u) /\ WellMade(t) /\ (EndsInString(u) => t.kind \in Enders)
    BY GoodSplit
  <2>2. EndsInString(Append(u, t)) <=> t.kind = "STR"
    BY <2>1, GoodAppend
  <2>3. PICK S, g : /\ CutInto(CutTokens(u), S, g) /\ (\A h \in S : Rest(h)) /\ Rest(g)
                    /\ EndsInString(g) => EndsInString(u)
    BY <2>1 DEF CutsWell
  <2>4. CutTokens(Append(u, t)) = CutToken(CutTokens(u), t)
    BY CutTokensAppend
  <2>5. PICK gs : gs = CutTokens(u)
    OBVIOUS
  <2>6. CutInto(gs, S, g)
    BY <2>3, <2>5
  <2>7. CASE t.kind # "SPACE"
    <3>1. CutInto(CutToken(gs, t), S, Append(g, t))
      BY <2>6, <2>7, CutStep
    <3>2. g \in Seq(Lexeme) /\ Good(g) /\ NoSpace(g)
      BY <2>3 DEF Rest
    <3>3. Good(Append(g, t)) /\ (EndsInString(Append(g, t)) <=> t.kind = "STR")
      BY <2>1, <2>3, <3>2, GoodAppend
    <3>4. NoSpace(Append(g, t)) /\ Append(g, t) \in Seq(Lexeme)
      BY <2>7, <3>2, NoSpaceAppend, AppendProperties
    <3>5. Rest(Append(g, t))
      BY <3>3, <3>4 DEF Rest
    <3> QED BY <2>2, <2>3, <2>4, <2>5, <3>1, <3>3, <3>5 DEF CutsWell
  <2>8. CASE t.kind = "SPACE"
    <3>1. CutInto(CutToken(gs, t), (S \cup {g}) \ {<<>>}, <<>>)
      BY <2>6, <2>8, CutStep
    <3>2. \A h \in (S \cup {g}) \ {<<>>} : Rest(h)
      BY <2>3
    <3> QED BY <1>0, <2>4, <2>5, <3>1, <3>2 DEF CutsWell
  <2> QED BY <2>7, <2>8
<1> HIDE DEF X
<1>3. Seq(Lexeme) \subseteq X
  BY <1>1, <1>2, InductSeq
<1> QED BY <1>3 DEF X

\* What newSearchTerm is given.
LEMMA ParsedGroups ==
    ASSUME NEW u \in Text
    PROVE  ParseTokens(u) \in Groups /\ \A g \in ToSet(ParseTokens(u)) : Group(g)
<1>1. PICK ts \in Seq(Lexeme) : ts = Scan(u)
  BY ScanIsOfTokens
<1>2. CutsWell(ts)
  BY <1>1, ScanGood, CutGood
<1>3. PICK S, g : CutInto(CutTokens(ts), S, g) /\ (\A h \in S : Rest(h)) /\ Rest(g)
  BY <1>2 DEF CutsWell
<1>4. PICK gs : gs = CutTokens(ts)
  OBVIOUS
<1>5. ParseTokens(u) = NotEmpty(gs)
  BY <1>1, <1>4, Zenon DEF ParseTokens
<1>6. NotEmpty(gs) \in Groups /\ ToSet(NotEmpty(gs)) = (S \cup {g}) \ {<<>>}
  BY <1>3, <1>4, CutSet
<1> QED BY <1>3, <1>5, <1>6 DEF Group

-----------------------------------------------------------------------------
(* The text of a query. *)

\* The text of some terms without their fields.
Piece(i, t) == (IF i > 1 THEN <<" ">> ELSE <<>>) \o TermText(t)
QueryPieces(q) == [i \in DOMAIN q |-> Piece(i, q[i])]
QueryText(q) == QueryString(RemoveFieldInfo(q))

LEMMA QueryTextPieces ==
    ASSUME NEW q
    PROVE  QueryText(q) = FlattenSeq(QueryPieces(q))
<1>1. PICK r : r = RemoveFieldInfo(q)
  OBVIOUS
<1>2. DOMAIN r = DOMAIN q /\ \A i \in DOMAIN q : r[i] = [q[i] EXCEPT !.field = <<>>]
  BY <1>1 DEF RemoveFieldInfo
<1>3. \A i \in DOMAIN q : TermString(r[i]) = TermText(q[i])
  BY <1>2, Zenon DEF TermText
<1>4. [i \in DOMAIN r |-> (IF i > 1 THEN <<" ">> ELSE <<>>) \o TermString(r[i])] = QueryPieces(q)
  BY <1>2, <1>3, Zenon DEF QueryPieces, Piece
<1> QED BY <1>1, <1>4, Zenon DEF QueryText, QueryString

LEMMA PiecesSeq ==
    ASSUME NEW q \in Seq(TermType)
    PROVE  QueryPieces(q) \in Seq(Text) /\ Len(QueryPieces(q)) = Len(q)
<1>1. PICK n \in Nat : n = Len(q) /\ DOMAIN q = 1 .. n
  BY LenProperties
<1>2. PICK r : r = QueryPieces(q)
  OBVIOUS
<1>3. DOMAIN r = 1 .. n /\ r = [i \in 1 .. n |-> Piece(i, q[i])]
  BY <1>1, <1>2, Zenon DEF QueryPieces
<1>4. \A i \in 1 .. n : Piece(i, q[i]) \in Text
  <2> TAKE i \in 1 .. n
  <2>1. q[i] \in TermType
    BY <1>1, ElementOfSeq
  <2>2. PICK w \in Text : w = TermText(q[i])
    BY <2>1, WrittenIs
  <2>3. PICK s \in Text : s = IF i > 1 THEN <<" ">> ELSE <<>>
    BY RuneFacts
  <2>4. s \o w \in Text
    BY ConcatProperties DEF Text
  <2> QED BY <2>2, <2>3, <2>4, Zenon DEF Piece
<1>5. r \in [1 .. n -> Text]
  BY <1>3, <1>4
<1>6. r \in Seq(Text)
  BY <1>5, IsASeq
<1> QED BY <1>1, <1>2, <1>3, <1>6, LenProperties

\* What stands between the text of a query and a term more.
Gap(q) == IF q = <<>> THEN <<>> ELSE <<" ">>

LEMMA QueryTextAppend ==
    ASSUME NEW q \in Seq(TermType), NEW t \in TermType
    PROVE  /\ QueryText(<<>>) = <<>> /\ QueryText(q) \in Text
           /\ QueryText(Append(q, t)) = QueryText(q) \o (Gap(q) \o TermText(t))
<1>1. PICK n \in Nat : n = Len(q) /\ DOMAIN q = 1 .. n
  BY LenProperties
<1>2. PICK u \in Seq(TermType) : u = Append(q, t)
  BY AppendProperties
<1>3. Len(u) = n + 1 /\ u[n + 1] = t /\ \A i \in 1 .. n : u[i] = q[i]
  BY <1>1, <1>2, AppendProperties
<1>4. PICK a \in Seq(Text) : a = QueryPieces(u)
  BY PiecesSeq
<1>5. PICK b \in Seq(Text) : b = QueryPieces(q)
  BY PiecesSeq
<1>6. Len(a) = n + 1 /\ Len(b) = n
  BY <1>1, <1>3, <1>4, <1>5, PiecesSeq
<1>7. DOMAIN u = 1 .. n + 1
  BY <1>2, <1>3, LenProperties
<1>8. (\A i \in 1 .. n + 1 : a[i] = Piece(i, u[i])) /\ (\A i \in 1 .. n : b[i] = Piece(i, q[i]))
  BY <1>1, <1>4, <1>5, <1>7, Zenon DEF QueryPieces
<1>9. PICK x \in Text : x = Gap(q) \o TermText(t)
  <2>1. PICK w \in Text : w = TermText(t)
    BY WrittenIs
  <2>2. PICK s \in Text : s = Gap(q)
    BY RuneFacts DEF Gap
  <2>3. s \o w \in Text
    BY ConcatProperties DEF Text
  <2> QED BY <2>1, <2>2, <2>3
<1>10. Piece(n + 1, t) = x
  <2>1. (n + 1 > 1) <=> (q # <<>>)
    <3>1. q = <<>> <=> n = 0
      BY <1>1, EmptySeq
    <3> QED BY <3>1
  <2> QED BY <1>9, <2>1, Zenon DEF Piece, Gap
<1>11. a[n + 1] = x /\ \A i \in 1 .. n : a[i] = b[i]
  <2>1. n + 1 \in 1 .. n + 1 /\ \A i \in 1 .. n : i \in 1 .. n + 1
    OBVIOUS
  <2> QED BY <1>3, <1>8, <1>10, <2>1
<1>12. a = Append(b, x)
  BY <1>6, <1>11, LongerByOne
<1>13. a \in Seq(Seq(Runes)) /\ b \in Seq(Seq(Runes)) /\ x \in Seq(Runes)
  BY DEF Text
<1>14. FlattenSeq(Append(b, x)) = FlattenSeq(b) \o x
  BY <1>13, FlattenAppend
<1>15. FlattenSeq(b) \in Text
  BY <1>13, FlattenType DEF Text
<1>16. QueryText(<<>>) = <<>>
  <2>1. QueryPieces(<<>>) = <<>>
    BY DEF QueryPieces
  <2> QED BY <2>1, QueryTextPieces, FlattenEmpty
<1>17. QueryText(q) = FlattenSeq(b) /\ QueryText(u) = FlattenSeq(a)
  BY <1>4, <1>5, QueryTextPieces
<1> QED BY <1>2, <1>9, <1>12, <1>14, <1>15, <1>16, <1>17

\* A text is read as the terms M.
Means(u, M) ==
    /\ u \in Text /\ Settled(u)
    /\ \E S, g : CutInto(CutTokens(Scan(u)), S, g) /\ M = (S \cup {g}) \ {<<>>}

LEMMA MeansParsed ==
    ASSUME NEW u, NEW M, Means(u, M)
    PROVE  ToSet(ParseTokens(u)) = M
<1>1. PICK S, g : CutInto(CutTokens(Scan(u)), S, g) /\ M = (S \cup {g}) \ {<<>>}
  BY DEF Means
<1>2. PICK gs : gs = CutTokens(Scan(u))
  OBVIOUS
<1>3. ToSet(NotEmpty(gs)) = (S \cup {g}) \ {<<>>}
  BY <1>1, <1>2, CutSet
<1> QED BY <1>1, <1>2, <1>3, Zenon DEF ParseTokens

\* One term.
LEMMA MeansOne ==
    ASSUME NEW w \in Text, Settled(w), NoSpace(Scan(w))
    PROVE  Means(w, {Scan(w)} \ {<<>>})
<1>1. PICK ts \in Seq(Lexeme) : ts = Scan(w)
  BY ScanIsOfTokens
<1>2. PICK e \in Seq(Lexeme) : e = <<>>
  BY EmptySeq, Zenon
<1>3. CutInto(CutTokens(e), {}, e)
  BY <1>2, CutStart
<1>4. CutInto(CutTokens(e \o ts), {}, e \o ts)
  BY <1>1, <1>3, CutConcat
<1>5. e \o ts = ts
  BY <1>2, ConcatEmptySeq
<1>6. CutInto(CutTokens(ts), {}, ts)
  BY <1>4, <1>5
<1>7. {ts} \ {<<>>} = ({} \cup {ts}) \ {<<>>}
  OBVIOUS
<1> QED BY <1>1, <1>6, <1>7 DEF Means

\* A term more.
LEMMA MeansMore ==
    ASSUME NEW u, NEW M, Means(u, M), NEW w \in Text, Settled(w), NoSpace(Scan(w))
    PROVE  Means(u \o (<<" ">> \o w), (M \cup {Scan(w)}) \ {<<>>})
<1>1. PICK b \in Text : b = <<" ">>
  BY RuneFacts
<1>2. Scan(b) = <<RuneToken(" ")>> /\ State(b).mode = "scan"
  BY <1>1, ScanOfRune
<1>3. PICK s \in Lexeme : s = RuneToken(" ") /\ s.kind = "SPACE"
  BY ScanOfRune DEF RuneKind
<1>4. PICK v \in Text : v = b \o w
  BY ConcatProperties DEF Text
<1>5. Scan(v) = Scan(b) \o Scan(w) /\ (w # <<>> => State(v).mode = State(w).mode)
  <2>1. Splits(b, w)
    BY <1>2 DEF Splits
  <2> QED BY <1>4, <2>1, MeetScan
<1>6. v # <<>> /\ v[1] = " "
  <2>1. b # <<>> /\ b[1] = " "
    BY <1>1, OneRune
  <2> QED BY <1>4, <2>1, TailConcat DEF Text
<1>7. State(v).mode \in {"scan", "string"}
  <2>1. CASE w # <<>>
    BY <1>5, <2>1 DEF Settled
  <2>2. CASE w = <<>>
    <3>1. v = b
      BY <1>4, <2>2, ConcatEmptySeq DEF Text
    <3> QED BY <1>2, <3>1
  <2> QED BY <2>1, <2>2
<1>8. u \in Text /\ Settled(u)
  BY DEF Means
<1>9. Splits(u, v)
  <2>1. Opens(v)
    BY <1>6 DEF Opens, Spaces
  <2>2. State(u).mode = "scan" \/ State(u).mode = "string"
    BY <1>8 DEF Settled
  <2> QED BY <2>1, <2>2 DEF Splits
<1>10. Scan(u \o v) = Scan(u) \o Scan(v) /\ State(u \o v).mode = State(v).mode
  BY <1>6, <1>8, <1>9, MeetScan
<1>11. PICK us \in Seq(Lexeme) : us = Scan(u)
  BY <1>8, ScanIsOfTokens
<1>12. PICK ws \in Seq(Lexeme) : ws = Scan(w)
  BY ScanIsOfTokens
<1>13. Scan(u \o v) = Append(us, s) \o ws
  <2>1. PICK o \in Seq(Lexeme) : o = <<s>>
    <3>1. <<s>> \in Seq(Lexeme)
      OBVIOUS
    <3> QED BY <3>1
  <2>2. Scan(v) = o \o ws
    BY <1>2, <1>3, <1>5, <1>12, <2>1
  <2>3. us \o (o \o ws) = (us \o o) \o ws
    BY JoinJoin
  <2>4. us \o o = Append(us, s)
    BY <2>1, AppendIsConcat
  <2> QED BY <1>10, <1>11, <2>2, <2>3, <2>4
<1>14. PICK S, g : CutInto(CutTokens(us), S, g) /\ M = (S \cup {g}) \ {<<>>}
  BY <1>11 DEF Means
<1>15. PICK gs : gs = CutTokens(us)
  OBVIOUS
<1>16. CutInto(CutToken(gs, s), M, <<>>)
  BY <1>3, <1>14, <1>15, CutStep
<1>17. PICK x \in Seq(Lexeme) : x = Append(us, s)
  BY AppendProperties
<1>18. PICK e \in Seq(Lexeme) : e = <<>>
  BY EmptySeq, Zenon
<1>19. CutInto(CutTokens(x), M, e)
  BY <1>15, <1>16, <1>17, <1>18, CutTokensAppend
<1>20. CutInto(CutTokens(x \o ws), M, e \o ws)
  BY <1>12, <1>19, CutConcat
<1>21. e \o ws = ws
  BY <1>18, ConcatEmptySeq
<1>22. CutInto(CutTokens(Scan(u \o v)), M, ws)
  BY <1>13, <1>17, <1>20, <1>21
<1>23. u \o v \in Text
  BY <1>8, ConcatProperties DEF Text
<1>24. Settled(u \o v)
  BY <1>7, <1>10 DEF Settled
<1>25. Means(u \o v, (M \cup {ws}) \ {<<>>})
  BY <1>22, <1>23, <1>24 DEF Means
<1> QED BY <1>1, <1>4, <1>12, <1>25

-----------------------------------------------------------------------------
(* Terms that are written one after the other are read one after the other. *)

Kept(T) == {t \in T : ~Blank(t)}
Clean(t) == t \in TermType /\ (Blank(t) \/ Returns(t))
WrittenTokens(t) == Scan(TermText(t))
TokensOf(q) == {WrittenTokens(t) : t \in Kept(ToSet(q))}

LEMMA EmptySettled == Settled(<<>>)
<1>1. PICK e : e = <<>>
  OBVIOUS
<1>2. State(e) = Start
  BY <1>1, RunEmpty, Zenon DEF State
<1>3. Start.mode = "scan"
  BY DEF Start
<1>4. Settled(e)
  BY <1>2, <1>3 DEF Settled
<1> QED BY <1>1, <1>4, Zenon

LEMMA WrittenMeans ==
    ASSUME NEW t, Clean(t)
    PROVE  /\ TermText(t) \in Text /\ Settled(TermText(t)) /\ NoSpace(WrittenTokens(t))
           /\ WrittenTokens(t) = <<>> <=> Blank(t)
<1>1. CASE Blank(t)
  <2>1. t \in TermType
    BY DEF Clean
  <2>2. TermText(t) = <<>>
    <3>1. Minus(t) = <<>> /\ Body(t) = <<>> /\ Star(t) = <<>>
      BY <1>1 DEF Minus, Body, Star, Blank
    <3>2. PICK e \in Seq(Runes) : e = <<>>
      BY EmptySeq, Zenon
    <3>3. e \o e = e
      BY <3>2, ConcatEmptySeq
    <3>4. TermText(t) = (e \o e) \o e
      BY <2>1, <3>1, <3>2, WrittenIs, Zenon
    <3> QED BY <3>2, <3>3, <3>4
  <2>3. Scan(<<>>) = <<>> /\ <<>> \in Text
    BY ScanEmpty, RuneFacts
  <2>4. Settled(<<>>)
    BY EmptySettled
  <2>5. NoSpace(<<>>)
    BY ToSetFacts DEF NoSpace
  <2> QED BY <1>1, <2>2, <2>3, <2>4, <2>5 DEF WrittenTokens
<1>2. CASE ~Blank(t)
  <2>1. Returns(t) /\ t \in TermType
    BY <1>2 DEF Clean
  <2>2. TermText(t) \in Text /\ Settled(TermText(t))
    BY <2>1, WrittenIs, WrittenScan
  <2>3. PICK ts : ts = Scan(Body(t))
    OBVIOUS
  <2>4. PICK us : us = ts \o StarTokens(t)
    OBVIOUS
  <2>5. PICK g : g = Scan(TermText(t))
    OBVIOUS
  <2>6. g # <<>> /\ NoSpace(g)
    BY <2>1, <2>3, <2>4, <2>5, WrittenParts
  <2> QED BY <1>2, <2>2, <2>5, <2>6 DEF WrittenTokens
<1> QED BY <1>1, <1>2

LEMMA QueryMeans ==
    ASSUME NEW q \in Seq(TermType), \A t \in ToSet(q) : Clean(t)
    PROVE  Means(QueryText(q), TokensOf(q))
<1> DEFINE X == {p \in Seq(TermType) : (\A t \in ToSet(p) : Clean(t)) => Means(QueryText(p), TokensOf(p))}
<1>1. <<>> \in X
  <2>1. PICK e \in Seq(TermType) : e = <<>>
    BY EmptySeq, Zenon
  <2>2. ToSet(e) = {}
    BY <2>1, ToSetFacts
  <2>3. TokensOf(e) = {}
    BY <2>2 DEF TokensOf, Kept
  <2>4. PICK t \in TermType : TRUE
    <3>1. [field |-> <<>>, value |-> <<>>, exact |-> TRUE, exclude |-> TRUE, wildcard |-> TRUE] \in TermType
      BY RuneFacts DEF TermType
    <3> QED BY <3>1
  <2>5. QueryText(e) = <<>>
    BY <2>1, <2>4, QueryTextAppend
  <2>6. PICK w \in Text : w = <<>>
    BY RuneFacts
  <2>7. Settled(w)
    BY <2>6, EmptySettled, Zenon
  <2>8. Scan(w) = <<>>
    BY <2>6, ScanEmpty
  <2>9. NoSpace(Scan(w))
    BY <2>8, ToSetFacts DEF NoSpace
  <2>10. Means(w, {Scan(w)} \ {<<>>})
    BY <2>7, <2>9, MeansOne
  <2>11. {Scan(w)} \ {<<>>} = {}
    BY <2>8
  <2>12. Means(QueryText(e), TokensOf(e))
    BY <2>3, <2>5, <2>6, <2>10, <2>11
  <2> QED BY <2>1, <2>12
<1>2. \A p \in Seq(TermType), t \in TermType : p \in X => Append(p, t) \in X
  <2> SUFFICES ASSUME NEW p \in Seq(TermType), NEW t \in TermType, p \in X,
                      \A x \in ToSet(Append(p, t)) : Clean(x)
               PROVE  Means(QueryText(Append(p, t)), TokensOf(Append(p, t)))
    BY AppendProperties
  <2>1. ToSet(Append(p, t)) = ToSet(p) \cup {t}
    BY ToSetAppend
  <2>2. Clean(t) /\ \A x \in ToSet(p) : Clean(x)
    BY <2>1
  <2>3. Means(QueryText(p), TokensOf(p))
    BY <2>2
  <2>4. PICK w \in Text : w = TermText(t)
    BY <2>2, WrittenMeans
  <2>5. Settled(w) /\ NoSpace(Scan(w)) /\ Scan(w) = WrittenTokens(t)
    BY <2>2, <2>4, WrittenMeans DEF WrittenTokens
  <2>6. \A x \in TokensOf(p) : x # <<>>
    BY <2>2, WrittenMeans DEF TokensOf, Kept
  <2>7. TokensOf(Append(p, t)) = (TokensOf(p) \cup {Scan(w)}) \ {<<>>}
    <3>1. CASE Blank(t)
      <4>1. Kept(ToSet(Append(p, t))) = Kept(ToSet(p))
        BY <2>1, <3>1 DEF Kept
      <4>2. Scan(w) = <<>>
        BY <2>2, <2>5, <3>1, WrittenMeans
      <4>3. TokensOf(Append(p, t)) = TokensOf(p)
        BY <4>1 DEF TokensOf
      <4> QED BY <2>6, <4>2, <4>3
    <3>2. CASE ~Blank(t)
      <4>1. Kept(ToSet(Append(p, t))) = Kept(ToSet(p)) \cup {t}
        BY <2>1, <3>2 DEF Kept
      <4>2. Scan(w) # <<>>
        BY <2>2, <2>5, <3>2, WrittenMeans
      <4>3. TokensOf(Append(p, t)) = TokensOf(p) \cup {WrittenTokens(t)}
        BY <4>1 DEF TokensOf
      <4> QED BY <2>5, <2>6, <4>2, <4>3
    <3> QED BY <3>1, <3>2
  <2>8. QueryText(Append(p, t)) = QueryText(p) \o (Gap(p) \o w)
    BY <2>4, QueryTextAppend
  <2>9. CASE p # <<>>
    <3>1. PICK u : u = QueryText(p)
      OBVIOUS
    <3>2. PICK M : M = TokensOf(p)
      OBVIOUS
    <3>3. Means(u \o (<<" ">> \o w), (M \cup {Scan(w)}) \ {<<>>})
      BY <2>3, <2>5, <3>1, <3>2, MeansMore
    <3>4. QueryText(Append(p, t)) = u \o (<<" ">> \o w)
      BY <2>8, <2>9, <3>1, Zenon DEF Gap
    <3> QED BY <2>7, <3>2, <3>3, <3>4
  <2>10. CASE p = <<>>
    <3>1. QueryText(p) = <<>> /\ Gap(p) = <<>>
      BY <2>10, QueryTextAppend DEF Gap
    <3>2. <<>> \o w = w
      BY ConcatEmptySeq DEF Text
    <3>3. QueryText(Append(p, t)) = w
      BY <2>8, <3>1, <3>2
    <3>4. ToSet(p) = {}
      BY <2>10, ToSetFacts
    <3>5. TokensOf(p) = {}
      BY <3>4 DEF TokensOf, Kept
    <3>6. Means(w, {Scan(w)} \ {<<>>})
      BY <2>5, MeansOne
    <3>7. TokensOf(Append(p, t)) = {Scan(w)} \ {<<>>}
      BY <2>7, <3>5
    <3> QED BY <3>3, <3>6, <3>7
  <2> QED BY <2>9, <2>10
<1> HIDE DEF X
<1>3. Seq(TermType) \subseteq X
  BY <1>1, <1>2, InductSeq
<1> QED BY <1>3 DEF X

\* The term of a field and of the free text that a group is.
FieldTerm(g, name) == [NewSearchTerm(g, TRUE) EXCEPT !.field = name]
QueryTerm(g) == Unfielded(NewSearchTerm(g, FALSE), Names)

\* The terms are what was written, without those that are nothing.
LEMMA QueryComesBack ==
    ASSUME NEW q \in Seq(TermType), \A t \in ToSet(q) : Clean(t), NEW u, u = QueryText(q)
    PROVE  /\ \A name \in Names : (\A t \in ToSet(q) : t.field = name) =>
                 {FieldTerm(g, name) : g \in ToSet(ParseTokens(u))} = Kept(ToSet(q))
           /\ (\A t \in ToSet(q) : t.field = <<>>) =>
                 {QueryTerm(g) : g \in ToSet(ParseTokens(u))} = Kept(ToSet(q))
<1>1. ToSet(ParseTokens(u)) = {WrittenTokens(t) : t \in Kept(ToSet(q))}
  <2>1. PICK M : M = TokensOf(q)
    OBVIOUS
  <2>2. Means(u, M)
    BY <2>1, QueryMeans
  <2>3. ToSet(ParseTokens(u)) = M
    BY <2>2, MeansParsed
  <2> QED BY <2>1, <2>3 DEF TokensOf
<1>2. \A t \in Kept(ToSet(q)) : Returns(t)
  BY DEF Kept, Clean
<1>3. ASSUME NEW name \in Names, \A t \in ToSet(q) : t.field = name
      PROVE  {FieldTerm(g, name) : g \in ToSet(ParseTokens(u))} = Kept(ToSet(q))
  <2>1. \A t \in Kept(ToSet(q)) : FieldTerm(WrittenTokens(t), name) = t
    <3> TAKE t \in Kept(ToSet(q))
    <3>1. Returns(t) /\ t.field = name
      BY <1>2, <1>3 DEF Kept
    <3> QED BY <3>1, FieldTermReturns, Zenon DEF FieldTerm, WrittenTokens
  <2> QED BY <1>1, <2>1
<1>4. ASSUME \A t \in ToSet(q) : t.field = <<>>
      PROVE  {QueryTerm(g) : g \in ToSet(ParseTokens(u))} = Kept(ToSet(q))
  <2>1. \A t \in Kept(ToSet(q)) : QueryTerm(WrittenTokens(t)) = t
    <3> TAKE t \in Kept(ToSet(q))
    <3>1. Returns(t) /\ t.field = <<>>
      BY <1>2, <1>4 DEF Kept
    <3> QED BY <3>1, QueryTermReturns, Zenon DEF QueryTerm, WrittenTokens
  <2> QED BY <1>1, <2>1
<1> QED BY <1>3, <1>4

-----------------------------------------------------------------------------
(* The terms of the fields of a page. *)

Form(f) == f \in [search : Text, site : Text, labels : Text]

\* A term of a list.
ListedTerm(t) == Shaped(t) /\ t.field \in Names \cup {<<>>}

LEMMA ParsedField ==
    ASSUME NEW u \in Text, NEW name \in Names, NEW q, q = ParseField(u, name)
    PROVE  /\ q \in Seq(TermType)
           /\ ToSet(q) = {FieldTerm(g, name) : g \in ToSet(ParseTokens(u))}
           /\ \A t \in ToSet(q) : Shaped(t) /\ t.field = name
<1>1. PICK gs : gs = ParseTokens(u)
  OBVIOUS
<1>2. gs \in Seq(Seq(Lexeme)) /\ \A g \in ToSet(gs) : Group(g)
  BY <1>1, ParsedGroups DEF Groups
<1>3. PICK n \in Nat : n = Len(gs) /\ DOMAIN gs = 1 .. n
  BY <1>2, LenProperties
<1>4. q = [i \in DOMAIN gs |-> FieldTerm(gs[i], name)]
  BY <1>1, Zenon DEF ParseField, FieldTerm
<1>5. DOMAIN q = 1 .. n /\ \A i \in 1 .. n : q[i] = FieldTerm(gs[i], name)
  BY <1>3, <1>4
<1>6. \A i \in 1 .. n : gs[i] \in ToSet(gs)
  BY <1>3 DEF ToSet
<1>7. \A g \in ToSet(gs) : Shaped(FieldTerm(g, name)) /\ FieldTerm(g, name).field = name
  <2> TAKE g \in ToSet(gs)
  <2>1. Group(g)
    BY <1>2
  <2> QED BY <2>1, FieldTermShape, Zenon DEF FieldTerm
<1>8. \A i \in 1 .. n : q[i] \in TermType
  BY <1>5, <1>6, <1>7 DEF Shaped
<1>9. q \in Seq(TermType)
  <2>1. q = [i \in 1 .. n |-> q[i]]
    BY <1>3, <1>4
  <2>2. q \in [1 .. n -> TermType]
    BY <1>8, <2>1
  <2> QED BY <2>2, IsASeq
<1>10. ToSet(q) = {FieldTerm(g, name) : g \in ToSet(gs)}
  <2>1. ToSet(q) = {q[i] : i \in 1 .. n}
    BY <1>5 DEF ToSet
  <2>2. ToSet(gs) = {gs[i] : i \in 1 .. n}
    BY <1>3 DEF ToSet
  <2> QED BY <1>5, <2>1, <2>2
<1> QED BY <1>1, <1>7, <1>9, <1>10

LEMMA ParsedQuery ==
    ASSUME NEW u \in Text, NEW q, q = ParseQuery(u)
    PROVE  /\ q \in Seq(TermType)
           /\ {Unfielded(t, Names) : t \in ToSet(q)} = {QueryTerm(g) : g \in ToSet(ParseTokens(u))}
           /\ \A t \in ToSet(q) : Shaped(t) /\ ListedTerm(Unfielded(t, Names))
<1>1. PICK gs : gs = ParseTokens(u)
  OBVIOUS
<1>2. gs \in Seq(Seq(Lexeme)) /\ \A g \in ToSet(gs) : Group(g)
  BY <1>1, ParsedGroups DEF Groups
<1>3. PICK n \in Nat : n = Len(gs) /\ DOMAIN gs = 1 .. n
  BY <1>2, LenProperties
<1>4. q = [i \in DOMAIN gs |-> NewSearchTerm(gs[i], FALSE)]
  BY <1>1, Zenon DEF ParseQuery
<1>5. DOMAIN q = 1 .. n /\ \A i \in 1 .. n : q[i] = NewSearchTerm(gs[i], FALSE)
  BY <1>3, <1>4
<1>6. \A i \in 1 .. n : gs[i] \in ToSet(gs)
  BY <1>3 DEF ToSet
<1>7. \A g \in ToSet(gs) : Shaped(NewSearchTerm(g, FALSE)) /\ ListedTerm(QueryTerm(g))
  <2> TAKE g \in ToSet(gs)
  <2>1. Group(g)
    BY <1>2
  <2> QED BY <2>1, QueryTermShape, Zenon DEF QueryTerm, ListedTerm
<1>8. \A i \in 1 .. n : q[i] \in TermType /\ Shaped(q[i])
  BY <1>5, <1>6, <1>7 DEF Shaped
<1>9. q \in Seq(TermType)
  <2>1. q = [i \in 1 .. n |-> q[i]]
    BY <1>3, <1>4
  <2>2. q \in [1 .. n -> TermType]
    BY <1>8, <2>1
  <2> QED BY <2>2, IsASeq
<1>10. ToSet(q) = {q[i] : i \in 1 .. n}
  BY <1>5 DEF ToSet
<1>11. \A i \in 1 .. n : Unfielded(q[i], Names) = QueryTerm(gs[i])
  BY <1>5, Zenon DEF QueryTerm
<1>12. {Unfielded(t, Names) : t \in ToSet(q)} = {QueryTerm(g) : g \in ToSet(gs)}
  <2>1. ToSet(gs) = {gs[i] : i \in 1 .. n}
    BY <1>3 DEF ToSet
  <2>2. {Unfielded(t, Names) : t \in ToSet(q)} = {Unfielded(q[i], Names) : i \in 1 .. n}
    BY <1>10
  <2> QED BY <1>11, <2>1, <2>2, SMTT(30)
<1>13. \A t \in ToSet(q) : Shaped(t) /\ ListedTerm(Unfielded(t, Names))
  BY <1>6, <1>7, <1>8, <1>10, <1>11
<1> QED BY <1>1, <1>9, <1>12, <1>13

\* Of terms that are equal the first one stays.
LEMMA DedupSet ==
    ASSUME NEW C, NEW q \in Seq(C)
    PROVE  Dedup(q) \in Seq(C) /\ ToSet(Dedup(q)) = ToSet(q)
<1> DEFINE D == {i \in DOMAIN q : ~ \E j \in DOMAIN q : j < i /\ q[j] = q[i]}
<1>1. PICK n \in Nat : n = Len(q) /\ DOMAIN q = 1 .. n
  BY LenProperties
<1>2. Dedup(q) = FlattenSeq(Picked(q, D))
  <2>1. [i \in DOMAIN q |-> IF \E j \in DOMAIN q : j < i /\ q[j] = q[i] THEN <<>> ELSE <<q[i]>>] = Picked(q, D)
    BY DEF Picked
  <2> QED BY <2>1, Zenon DEF Dedup
<1>3. \A i \in 1 .. n : \E k \in 1 .. n : k \in D /\ q[k] = q[i]
  <2> DEFINE S == {m \in 0 .. n : \A i \in 1 .. n : i <= m => \E k \in 1 .. n : k \in D /\ q[k] = q[i]}
  <2>1. 0 \in S
    OBVIOUS
  <2>2. ASSUME NEW m \in 0 .. n - 1, m \in S PROVE m + 1 \in S
    <3>1. m + 1 \in 0 .. n
      OBVIOUS
    <3>2. ASSUME NEW i \in 1 .. n, i <= m + 1 PROVE \E k \in 1 .. n : k \in D /\ q[k] = q[i]
      <4>1. CASE i \in D
        BY <4>1
      <4>2. CASE i \notin D
        <5>1. PICK j \in 1 .. n : j < i /\ q[j] = q[i]
          BY <1>1, <4>2
        <5>2. j <= m
          BY <3>2, <5>1
        <5>3. \E k \in 1 .. n : k \in D /\ q[k] = q[j]
          BY <2>2, <5>2
        <5> QED BY <5>1, <5>3
      <4> QED BY <4>1, <4>2
    <3> QED BY <3>1, <3>2
  <2>3. 0 .. n \subseteq S
    <3> HIDE DEF S
    <3> QED BY <2>1, <2>2, Induct
  <2>4. n \in S
    BY <2>3
  <2> QED BY <2>4
<1> HIDE DEF D
<1>4. PICK r : r = Dedup(q)
  OBVIOUS
<1>5. r \in Seq(C) /\ \A x : x \in ToSet(r) <=> \E i \in DOMAIN q : i \in D /\ x = q[i]
  BY <1>2, <1>4, PickedSet
<1>6. \A x : x \in ToSet(q) <=> \E i \in 1 .. n : x = q[i]
  BY <1>1 DEF ToSet
<1>7. ToSet(r) = ToSet(q)
  <2>1. \A x : x \in ToSet(r) <=> \E i \in 1 .. n : i \in D /\ x = q[i]
    BY <1>1, <1>5, Zenon
  <2>2. \A x : x \in ToSet(r) <=> x \in ToSet(q)
    BY <1>3, <1>6, <2>1, Zenon
  <2> QED BY <2>2
<1> QED BY <1>4, <1>5, <1>7

LEMMA ExtractSet ==
    ASSUME NEW q \in Seq(TermType), NEW name
    PROVE  /\ ExtractField(q, name) \in Seq(TermType)
           /\ ToSet(ExtractField(q, name)) = {t \in ToSet(q) : t.field = name}
           /\ ToSet(PopField(q, name).rest) = {t \in ToSet(q) : t.field # name}
           /\ PopField(q, name).popped = ExtractField(q, name)
<1> DEFINE D == {i \in DOMAIN q : q[i].field = name}
           E == {i \in DOMAIN q : q[i].field # name}
<1>1. ExtractField(q, name) = FlattenSeq(Picked(q, D))
  <2>1. [i \in DOMAIN q |-> IF q[i].field = name THEN <<q[i]>> ELSE <<>>] = Picked(q, D)
    BY DEF Picked
  <2> QED BY <2>1, Zenon DEF ExtractField
<1>2. PopField(q, name).rest = FlattenSeq(Picked(q, E)) /\ PopField(q, name).popped = ExtractField(q, name)
  <2>1. [i \in DOMAIN q |-> IF q[i].field # name THEN <<q[i]>> ELSE <<>>] = Picked(q, E)
    BY DEF Picked
  <2>2. PICK others : others = FlattenSeq([i \in DOMAIN q |-> IF q[i].field # name THEN <<q[i]>> ELSE <<>>])
    OBVIOUS
  <2>3. PICK popped : popped = ExtractField(q, name)
    OBVIOUS
  <2>4. PICK receiver : receiver = [i \in DOMAIN q |-> IF i <= Len(others) THEN others[i] ELSE NoTerm]
    OBVIOUS
  <2>5. PopField(q, name) = [popped |-> popped, rest |-> others, receiver |-> receiver]
    BY <2>2, <2>3, <2>4, Zenon DEF PopField
  <2> QED BY <2>1, <2>2, <2>3, <2>5
<1>3. \A x : x \in ToSet(q) <=> \E i \in DOMAIN q : x = q[i]
  BY DEF ToSet
<1>4. PICK r : r = ExtractField(q, name)
  OBVIOUS
<1>5. r \in Seq(TermType) /\ \A x : x \in ToSet(r) <=> \E i \in DOMAIN q : i \in D /\ x = q[i]
  <2> HIDE DEF D
  <2> QED BY <1>1, <1>4, PickedSet
<1>6. PICK o : o = PopField(q, name).rest
  OBVIOUS
<1>7. \A x : x \in ToSet(o) <=> \E i \in DOMAIN q : i \in E /\ x = q[i]
  <2> HIDE DEF E
  <2> QED BY <1>2, <1>6, PickedSet
<1>8. ToSet(r) = {t \in ToSet(q) : t.field = name}
  BY <1>3, <1>5
<1>9. ToSet(o) = {t \in ToSet(q) : t.field # name}
  BY <1>3, <1>7
<1> QED BY <1>2, <1>4, <1>5, <1>6, <1>8, <1>9

\* All of them.
TermsOf(f) ==
    {QueryTerm(g) : g \in ToSet(ParseTokens(f.search))}
        \cup {FieldTerm(g, Site) : g \in ToSet(ParseTokens(f.site))}
        \cup {FieldTerm(g, Label) : g \in ToSet(ParseTokens(f.labels))}

LEMMA TermsFacts ==
    ASSUME NEW f, Form(f), NEW q, q = Terms(f)
    PROVE  q \in Seq(TermType) /\ ToSet(q) = TermsOf(f) /\ \A t \in ToSet(q) : ListedTerm(t)
<1>1. f.search \in Text /\ f.site \in Text /\ f.labels \in Text
  BY DEF Form
<1>2. Site \in Names /\ Label \in Names
  BY NameTexts
<1>3. PICK a : a = ParseQuery(f.search)
  OBVIOUS
<1>4. PICK b : b = ParseField(f.site, Site)
  OBVIOUS
<1>5. PICK c : c = ParseField(f.labels, Label)
  OBVIOUS
<1>6. /\ a \in Seq(TermType) /\ \A t \in ToSet(a) : Shaped(t) /\ ListedTerm(Unfielded(t, Names))
      /\ {Unfielded(t, Names) : t \in ToSet(a)} = {QueryTerm(g) : g \in ToSet(ParseTokens(f.search))}
  BY <1>1, <1>3, ParsedQuery
<1>7. /\ b \in Seq(TermType) /\ \A t \in ToSet(b) : Shaped(t) /\ t.field = Site
      /\ ToSet(b) = {FieldTerm(g, Site) : g \in ToSet(ParseTokens(f.site))}
  BY <1>1, <1>2, <1>4, ParsedField
<1>8. /\ c \in Seq(TermType) /\ \A t \in ToSet(c) : Shaped(t) /\ t.field = Label
      /\ ToSet(c) = {FieldTerm(g, Label) : g \in ToSet(ParseTokens(f.labels))}
  BY <1>1, <1>2, <1>5, ParsedField
<1>9. PICK ab \in Seq(TermType) : ab = a \o b
  BY <1>6, <1>7, ConcatProperties
<1>10. PICK abc \in Seq(TermType) : abc = ab \o c
  BY <1>8, ConcatProperties
<1>11. ToSet(abc) = ToSet(a) \cup ToSet(b) \cup ToSet(c)
  <2>1. a \in Seq(TermType) /\ b \in Seq(TermType) /\ c \in Seq(TermType)
    BY <1>6, <1>7, <1>8
  <2>2. ToSet(ab) = ToSet(a) \cup ToSet(b)
    BY <1>9, <2>1, ToSetConcat
  <2>3. ToSet(abc) = ToSet(ab) \cup ToSet(c)
    BY <1>10, <2>1, ToSetConcat
  <2> QED BY <2>2, <2>3
<1>12. PICK d : d = Dedup(abc)
  OBVIOUS
<1>13. d \in Seq(TermType) /\ ToSet(d) = ToSet(abc)
  BY <1>12, DedupSet
<1>14. q = [i \in DOMAIN d |-> Unfielded(d[i], Names)]
  BY <1>3, <1>4, <1>5, <1>9, <1>10, <1>12, Zenon DEF Terms, Unfield
<1>15. PICK n \in Nat : n = Len(d) /\ DOMAIN d = 1 .. n
  BY <1>13, LenProperties
<1>16. \A x : x \in ToSet(d) <=> \E i \in 1 .. n : x = d[i]
  BY <1>15 DEF ToSet
<1>17. \A t \in ToSet(b) \cup ToSet(c) : Unfielded(t, Names) = t
  <2> TAKE t \in ToSet(b) \cup ToSet(c)
  <2>1. Shaped(t) /\ t.field \in Names \cup {<<>>}
    BY <1>2, <1>7, <1>8
  <2> QED BY <2>1, UnfieldedShape
<1>18. \A t \in ToSet(b) \cup ToSet(c) : ListedTerm(t)
  BY <1>2, <1>7, <1>8 DEF ListedTerm
<1>19. \A t \in ToSet(d) : ListedTerm(Unfielded(t, Names))
  BY <1>6, <1>11, <1>13, <1>17, <1>18
<1>20. DOMAIN q = 1 .. n /\ \A i \in 1 .. n : q[i] = Unfielded(d[i], Names)
  BY <1>14, <1>15
<1>21. ToSet(q) = {Unfielded(t, Names) : t \in ToSet(d)}
  <2>1. \A x : x \in ToSet(q) <=> \E i \in 1 .. n : x = q[i]
    BY <1>20 DEF ToSet
  <2> QED BY <1>16, <1>20, <2>1
<1>22. q \in Seq(TermType)
  <2>1. \A i \in 1 .. n : q[i] \in TermType
    BY <1>16, <1>19, <1>20 DEF ListedTerm, Shaped
  <2>2. q = [i \in 1 .. n |-> q[i]]
    BY <1>14, <1>15
  <2>3. q \in [1 .. n -> TermType]
    BY <2>1, <2>2
  <2> QED BY <2>3, IsASeq
<1>23. ToSet(q) = {Unfielded(t, Names) : t \in ToSet(a)} \cup ToSet(b) \cup ToSet(c)
  BY <1>11, <1>13, <1>17, <1>21
<1>24. ToSet(q) = TermsOf(f)
  BY <1>6, <1>7, <1>8, <1>23 DEF TermsOf
<1> QED BY <1>19, <1>21, <1>22, <1>24

\* No term of these is one of the four kinds.
Still(T) == \A t \in T : ~Moves(t)

LEMMA StillKept ==
    ASSUME NEW T, Still(T)
    PROVE  Still(Kept(T)) /\ Kept(Kept(T)) = Kept(T)
BY DEF Still, Kept

\* Filters.Normalize, and FilterForm.Validate, which is the same: to take the
\* fields of a form apart and to write them anew keeps the terms, but for those
\* that are nothing, when none of them is of the four kinds that move.
THEOREM NormalizeKeepsTerms ==
    ASSUME NEW f, Form(f)
    PROVE  /\ Form(Normalize(f))
           /\ Still(ToSet(Terms(f))) => ToSet(Terms(Normalize(f))) = Kept(ToSet(Terms(f)))
<1>1. PICK q : q = Terms(f)
  OBVIOUS
<1>2. q \in Seq(TermType) /\ \A t \in ToSet(q) : ListedTerm(t)
  BY <1>1, TermsFacts
<1> DEFINE Of(name) == {t \in ToSet(q) : t.field = name}
<1>3. ASSUME NEW name, NEW u, u = QueryText(ExtractField(q, name))
      PROVE  /\ u \in Text
             /\ \E x \in Seq(TermType) : u = QueryText(x) /\ ToSet(x) = Of(name)
  <2>1. PICK x \in Seq(TermType) : x = ExtractField(q, name)
    BY <1>2, ExtractSet
  <2>2. ToSet(x) = Of(name)
    BY <1>2, <2>1, ExtractSet
  <2>3. u = QueryText(x)
    BY <1>3, <2>1
  <2>4. QueryText(x) \in Text
    <3>1. PICK t \in TermType : TRUE
      <4>1. [field |-> <<>>, value |-> <<>>, exact |-> TRUE, exclude |-> TRUE, wildcard |-> TRUE] \in TermType
        BY RuneFacts DEF TermType
      <4> QED BY <4>1
    <3> QED BY <3>1, QueryTextAppend
  <2> QED BY <2>2, <2>3, <2>4
<1> HIDE DEF Of
<1>4. PICK s : s = QueryText(ExtractField(q, <<>>))
  OBVIOUS
<1>5. PICK i : i = QueryText(ExtractField(q, Site))
  OBVIOUS
<1>6. PICK l : l = QueryText(ExtractField(q, Label))
  OBVIOUS
<1>7. PICK g : g = Normalize(f)
  OBVIOUS
<1>8. g = [search |-> s, site |-> i, labels |-> l]
  BY <1>1, <1>4, <1>5, <1>6, <1>7, Zenon DEF Normalize, QueryText
<1>9. s \in Text /\ i \in Text /\ l \in Text
  BY <1>3, <1>4, <1>5, <1>6
<1>10. Form(g)
  BY <1>8, <1>9 DEF Form
<1>11. ASSUME Still(ToSet(q)) PROVE ToSet(Terms(g)) = Kept(ToSet(q))
  <2>1. \A t \in ToSet(q) : Clean(t)
    BY <1>2, <1>11 DEF Clean, Returns, Still, ListedTerm, Shaped
  <2>2. Site \in Names /\ Label \in Names
    BY NameTexts
  <2>3. {QueryTerm(h) : h \in ToSet(ParseTokens(s))} = Kept(Of(<<>>))
    <3>1. PICK x \in Seq(TermType) : s = QueryText(x) /\ ToSet(x) = Of(<<>>)
      BY <1>3, <1>4
    <3>2. \A t \in ToSet(x) : Clean(t) /\ t.field = <<>>
      BY <2>1, <3>1 DEF Of
    <3> QED BY <3>1, <3>2, QueryComesBack
  <2>4. {FieldTerm(h, Site) : h \in ToSet(ParseTokens(i))} = Kept(Of(Site))
    <3>1. PICK x \in Seq(TermType) : i = QueryText(x) /\ ToSet(x) = Of(Site)
      BY <1>3, <1>5
    <3>2. \A t \in ToSet(x) : Clean(t) /\ t.field = Site
      BY <2>1, <3>1 DEF Of
    <3> QED BY <2>2, <3>1, <3>2, QueryComesBack
  <2>5. {FieldTerm(h, Label) : h \in ToSet(ParseTokens(l))} = Kept(Of(Label))
    <3>1. PICK x \in Seq(TermType) : l = QueryText(x) /\ ToSet(x) = Of(Label)
      BY <1>3, <1>6
    <3>2. \A t \in ToSet(x) : Clean(t) /\ t.field = Label
      BY <2>1, <3>1 DEF Of
    <3> QED BY <2>2, <3>1, <3>2, QueryComesBack
  <2>6. g.search = s /\ g.site = i /\ g.labels = l
    BY <1>8
  <2>7. TermsOf(g) = Kept(Of(<<>>)) \cup Kept(Of(Site)) \cup Kept(Of(Label))
    BY <2>3, <2>4, <2>5, <2>6, Zenon DEF TermsOf
  <2>8. \A t \in ToSet(q) : t.field \in {<<>>, Site, Label}
    BY <1>2 DEF ListedTerm, Names
  <2>9. Kept(Of(<<>>)) \cup Kept(Of(Site)) \cup Kept(Of(Label)) = Kept(ToSet(q))
    BY <2>8 DEF Kept, Of
  <2>10. ToSet(Terms(g)) = TermsOf(g)
    BY <1>10, TermsFacts
  <2> QED BY <2>7, <2>9, <2>10
<1> QED BY <1>1, <1>7, <1>10, <1>11

-----------------------------------------------------------------------------
(* What a list is selected by. *)

WordsPass(f, v) == f = [n \in 0 .. Len(v) |-> IF n = 0 THEN <<>> ELSE ReadRune(f[n - 1], v[n])]

LEMMA WordsEmpty == Words(<<>>) = <<>>
<1>1. PICK v \in Seq({}) : v = <<>>
  BY EmptySeq, Zenon
<1>2. Len(v) = 0
  BY <1>1, EmptySeq
<1> DEFINE w == [n \in 0 .. 0 |-> <<>>]
<1>3. WordsPass(w, v)
  <2>1. w = [n \in 0 .. 0 |-> IF n = 0 THEN <<>> ELSE ReadRune(w[n - 1], v[n])]
    OBVIOUS
  <2> QED BY <1>2, <2>1, Zenon DEF WordsPass
<1> DEFINE f == CHOOSE f : WordsPass(f, v)
<1>4. WordsPass(f, v)
  <2> HIDE DEF w
  <2> QED BY <1>3, Zenon
<1>5. f = CHOOSE g : g = [n \in 0 .. Len(v) |-> IF n = 0 THEN <<>> ELSE ReadRune(g[n - 1], v[n])]
  BY Zenon DEF WordsPass
<1>6. Words(v) = NotEmpty(f[Len(v)])
  BY <1>5, Zenon DEF Words
<1> HIDE DEF f
<1>7. f[0] = <<>>
  <2>1. f = [n \in 0 .. Len(v) |-> IF n = 0 THEN <<>> ELSE ReadRune(f[n - 1], v[n])]
    BY <1>4, Zenon DEF WordsPass
  <2> QED BY <1>2, <2>1
<1>8. NotEmpty(<<>>) = <<>>
  <2>1. [i \in DOMAIN <<>> |-> IF <<>>[i] = <<>> THEN <<>> ELSE <<(<<>>)[i]>>] = <<>>
    OBVIOUS
  <2> QED BY <2>1, FlattenEmpty, Zenon DEF NotEmpty
<1> QED BY <1>1, <1>2, <1>6, <1>7, <1>8

\* It depends on nothing but what terms there are.
LabelPart(t) == [value |-> t.value, exclude |-> t.exclude, wildcard |-> t.wildcard]
TextPart(t) == [t EXCEPT !.value = Words(t.value)]
SelectionOf(T) ==
    [labels |-> {LabelPart(t) : t \in {u \in T : u.field = Label}},
     search |-> {TextPart(t) : t \in {u \in T : u.field # Label /\ Words(u.value) # <<>>}}]

LEMMA SelectionIs ==
    ASSUME NEW q \in Seq(TermType)
    PROVE  Selection(q) = SelectionOf(ToSet(q))
<1>1. PICK split : split = PopField(q, Label)
  OBVIOUS
<1>2. PICK popped : popped = split.popped
  OBVIOUS
<1>3. PICK rest : rest = split.rest
  OBVIOUS
<1>4. ToSet(popped) = {t \in ToSet(q) : t.field = Label} /\ ToSet(rest) = {t \in ToSet(q) : t.field # Label}
  BY <1>1, <1>2, <1>3, ExtractSet
<1>5. Selection(q) = [labels |-> LabelConditions(popped), search |-> Regroup(rest)]
  BY <1>1, <1>2, <1>3, Zenon DEF Selection
<1>6. LabelConditions(popped) = {LabelPart(t) : t \in {u \in ToSet(q) : u.field = Label}}
  BY <1>4, Zenon DEF LabelConditions, LabelPart
<1>7. Regroup(rest) = {TextPart(t) : t \in {u \in ToSet(q) : u.field # Label /\ Words(u.value) # <<>>}}
  <2>1. {u \in ToSet(rest) : Words(u.value) # <<>>} = {u \in ToSet(q) : u.field # Label /\ Words(u.value) # <<>>}
    BY <1>4
  <2> QED BY <2>1, Zenon DEF Regroup, TextPart
<1> QED BY <1>5, <1>6, <1>7, Zenon DEF SelectionOf

LEMMA SelectionKept ==
    ASSUME NEW T, Still(T)
    PROVE  SelectionOf(Kept(T)) = SelectionOf(T)
<1>1. \A t \in T : t.field = Label => ~Blank(t)
  BY DEF Still, Moves, EmptyMoves, Blank
<1>2. \A t \in T : Words(t.value) # <<>> => ~Blank(t)
  BY WordsEmpty DEF Blank
<1>3. {u \in Kept(T) : u.field = Label} = {u \in T : u.field = Label}
  BY <1>1 DEF Kept
<1>4. {u \in Kept(T) : u.field # Label /\ Words(u.value) # <<>>} = {u \in T : u.field # Label /\ Words(u.value) # <<>>}
  BY <1>2 DEF Kept
<1> QED BY <1>3, <1>4, Zenon DEF SelectionOf

LEMMA SelectionFields ==
    ASSUME NEW f, Form(f)
    PROVE  \A t \in ToSelectDataSet(f).search : t.field \in {<<>>, Site}
<1>1. PICK q : q = Terms(f)
  OBVIOUS
<1>2. q \in Seq(TermType) /\ \A t \in ToSet(q) : ListedTerm(t)
  BY <1>1, TermsFacts
<1>3. ToSelectDataSet(f) = SelectionOf(ToSet(q))
  BY <1>1, <1>2, SelectionIs DEF ToSelectDataSet
<1>4. SelectionOf(ToSet(q)).search = {TextPart(t) : t \in {u \in ToSet(q) : u.field # Label /\ Words(u.value) # <<>>}}
  BY DEF SelectionOf
<1>5. \A t \in ToSet(q) : t.field # Label => TextPart(t).field \in {<<>>, Site}
  <2> TAKE t \in ToSet(q)
  <2>1. t \in TermType /\ t.field \in {Site, Label, <<>>}
    BY <1>2 DEF ListedTerm, Names, Shaped
  <2>2. PICK w : w = Words(t.value)
    OBVIOUS
  <2>3. [t EXCEPT !.value = w].field = t.field
    BY <2>1 DEF TermType
  <2>4. TextPart(t).field = t.field
    BY <2>2, <2>3, Zenon DEF TextPart
  <2> QED BY <2>1, <2>4
<1> QED BY <1>3, <1>4, <1>5

-----------------------------------------------------------------------------
(* The fields of the page and of the collection mean what was asked for. *)

\* The terms of some fields are those that were asked for, without those that
\* are nothing.
MeansAsked(f, q) == Still(ToSet(q)) => ToSet(Terms(f)) = Kept(ToSet(q))

FiltersInv ==
    /\ Form(form) /\ (saved # Nothing => Form(saved))
    /\ asked \in Seq(TermType) /\ \A t \in ToSet(asked) : t.field \in Names \cup {<<>>}
    /\ listed # Nothing => MeansAsked(form, asked) /\ \A t \in listed.search : t.field \in {<<>>, Site}
    /\ saved # Nothing => MeansAsked(saved, asked)
    /\ ListIsWhatWasAsked

LEMMA MeansNormalize ==
    ASSUME NEW f, Form(f), NEW q \in Seq(TermType), MeansAsked(f, q)
    PROVE  MeansAsked(Normalize(f), q) /\ Form(Normalize(f))
<1>1. Form(Normalize(f))
  BY NormalizeKeepsTerms
<1>2. ASSUME Still(ToSet(q)) PROVE ToSet(Terms(Normalize(f))) = Kept(ToSet(q))
  <2>1. ToSet(Terms(f)) = Kept(ToSet(q))
    BY <1>2 DEF MeansAsked
  <2>2. PICK T : T = ToSet(q)
    OBVIOUS
  <2>3. Still(Kept(T)) /\ Kept(Kept(T)) = Kept(T)
    BY <1>2, <2>2, StillKept
  <2>4. Still(ToSet(Terms(f)))
    BY <2>1, <2>2, <2>3
  <2> QED BY <2>1, <2>2, <2>3, <2>4, NormalizeKeepsTerms
<1> QED BY <1>1, <1>2 DEF MeansAsked

\* A list of fields that mean what was asked for is the list of it.
LEMMA MeansSelected ==
    ASSUME NEW f, Form(f), NEW q \in Seq(TermType), MeansAsked(f, q), Still(ToSet(q))
    PROVE  ToSelectDataSet(f) = Selection(q)
<1>1. PICK r : r = Terms(f)
  OBVIOUS
<1>2. r \in Seq(TermType)
  BY <1>1, TermsFacts
<1>3. PICK T : T = ToSet(q)
  OBVIOUS
<1>4. ToSet(r) = Kept(T) /\ Still(T)
  BY <1>1, <1>3 DEF MeansAsked
<1>5. Selection(r) = SelectionOf(ToSet(r)) /\ Selection(q) = SelectionOf(T)
  BY <1>2, <1>3, SelectionIs
<1>6. SelectionOf(Kept(T)) = SelectionOf(T)
  BY <1>4, SelectionKept
<1> QED BY <1>1, <1>4, <1>5, <1>6 DEF ToSelectDataSet

\* The page of a label asks for the label.
LEMMA LabelPageTerms ==
    ASSUME NEW label \in Text, NEW t, t = [NoTerm EXCEPT !.field = Label, !.value = label, !.exact = TRUE],
           NEW f, f = [EmptyForm EXCEPT !.labels = Quote(label)]
    PROVE  /\ Form(f) /\ t \in TermType /\ t.field = Label
           /\ ~Moves(t) => ToSet(Terms(f)) = {t}
<1>1. PICK l \in Text : l = Quote(label)
  BY QuotedFacts
<1>2. PICK e \in Text : e = <<>>
  BY RuneFacts
<1>3. EmptyForm = [search |-> e, site |-> e, labels |-> e]
  BY <1>2, Zenon DEF EmptyForm
<1>4. f = [search |-> e, site |-> e, labels |-> l]
  <2>1. f = [EmptyForm EXCEPT !.labels = l]
    BY <1>1
  <2> QED BY <1>3, <2>1
<1>5. Form(f)
  <2>1. PICK g : g = [search |-> e, site |-> e, labels |-> l]
    OBVIOUS
  <2>2. Form(g)
    BY <2>1 DEF Form
  <2> QED BY <1>4, <2>1, <2>2, Zenon
<1>6. PICK name \in Names : name = Label
  BY NameTexts
<1>7. name \in Text
  BY NameTexts
<1>8. /\ t.field = name /\ t.value = label /\ t.exact = TRUE /\ t.exclude = FALSE /\ t.wildcard = FALSE
      /\ DOMAIN t = {"field", "value", "exact", "exclude", "wildcard"}
      /\ t = [a \in {"field", "value", "exact", "exclude", "wildcard"} |-> t[a]]
  BY <1>6 DEF NoTerm
<1>9. t \in TermType
  <2>1. t = [field |-> t.field, value |-> t.value, exact |-> t.exact, exclude |-> t.exclude, wildcard |-> t.wildcard]
    BY <1>8
  <2> QED BY <1>7, <1>8, <2>1 DEF TermType
<1>10. ASSUME ~Moves(t) PROVE ToSet(Terms(f)) = {t}
  <2>1. Returns(t) /\ ~Blank(t)
    BY <1>6, <1>8, <1>9, <1>10 DEF Returns, Shaped, Blank
  <2>2. PICK q \in Seq(TermType) : q = <<t>>
    <3>1. <<t>> \in Seq(TermType)
      BY <1>9
    <3> QED BY <3>1
  <2>3. ToSet(q) = {t}
    BY <2>2, OneRune
  <2>4. QueryText(q) = l
    <3>1. PICK z \in Seq(TermType) : z = <<>>
      BY EmptySeq, Zenon
    <3>2. q = Append(z, t)
      BY <2>2, <3>1, AppendOne
    <3>3. QueryText(z) = e /\ Gap(z) = e
      BY <1>2, <1>9, <3>1, QueryTextAppend DEF Gap
    <3>4. QueryText(q) = e \o (e \o TermText(t))
      BY <1>9, <3>2, <3>3, QueryTextAppend
    <3>5. Minus(t) = e /\ Body(t) = l /\ Star(t) = e
      BY <1>1, <1>2, <1>8 DEF Minus, Body, Star
    <3>6. TermText(t) = (e \o l) \o e
      BY <1>9, <3>5, WrittenIs
    <3>7. e \o l = l /\ l \o e = l
      BY <1>2, ConcatEmptySeq DEF Text
    <3> QED BY <3>4, <3>6, <3>7
  <2>5. \A x \in ToSet(q) : Clean(x) /\ x.field = name
    BY <1>8, <1>9, <2>1, <2>3 DEF Clean
  <2>6. {FieldTerm(g, name) : g \in ToSet(ParseTokens(l))} = Kept(ToSet(q))
    BY <2>4, <2>5, QueryComesBack
  <2>7. Kept(ToSet(q)) = {t}
    BY <2>1, <2>3 DEF Kept
  <2>8. ToSet(ParseTokens(e)) = {}
    <3>1. Settled(e)
      BY <1>2, EmptySettled, Zenon
    <3>2. Scan(e) = <<>>
      BY <1>2, ScanEmpty
    <3>3. NoSpace(Scan(e))
      BY <3>2, ToSetFacts DEF NoSpace
    <3>4. PICK M : M = {Scan(e)} \ {<<>>}
      OBVIOUS
    <3>5. Means(e, M)
      BY <3>1, <3>3, <3>4, MeansOne
    <3>6. M = {}
      BY <3>2, <3>4
    <3> QED BY <3>5, <3>6, MeansParsed
  <2>9. f.search = e /\ f.site = e /\ f.labels = l
    BY <1>4
  <2>10. TermsOf(f) = {t}
    <3>1. {QueryTerm(g) : g \in ToSet(ParseTokens(e))} = {} /\ {FieldTerm(g, Site) : g \in ToSet(ParseTokens(e))} = {}
      BY <2>8
    <3> QED BY <1>6, <2>6, <2>7, <2>9, <3>1 DEF TermsOf
  <2> QED BY <1>5, <2>10, TermsFacts
<1> QED BY <1>5, <1>6, <1>8, <1>9, <1>10

-----------------------------------------------------------------------------
(* The invariant. *)

LEMMA FiltersInitInv ==
    ASSUME FiltersInit
    PROVE  FiltersInv
<1>1. Form(EmptyForm)
  <2>1. <<>> \in Text
    BY RuneFacts
  <2> QED BY <2>1 DEF Form, EmptyForm
<1>2. asked = <<>> /\ form = EmptyForm /\ saved = Nothing /\ listed = Nothing
  BY DEF FiltersInit
<1>3. asked \in Seq(TermType)
  BY <1>2, EmptySeq, Zenon
<1>4. ToSet(asked) = {}
  BY <1>2, ToSetFacts
<1> QED BY <1>1, <1>2, <1>3, <1>4 DEF FiltersInv, ListIsWhatWasAsked

\* A request that asked for the terms q and has brought the fields g.
LEMMA AskedInv ==
    ASSUME NEW g, Form(g), NEW q \in Seq(TermType), MeansAsked(g, q),
           \A t \in ToSet(q) : t.field \in Names \cup {<<>>},
           form' = g, listed' = ToSelectDataSet(Normalize(form')), asked' = q,
           saved' = saved, saved = Nothing
    PROVE  FiltersInv'
<1>1. MeansAsked(Normalize(g), q) /\ Form(Normalize(g))
  BY MeansNormalize
<1>2. Still(ToSet(q)) => listed' = Selection(q)
  BY <1>1, MeansSelected
<1>3. ListIsWhatWasAsked'
  BY <1>2 DEF ListIsWhatWasAsked, Still
<1>4. \A t \in (listed').search : t.field \in {<<>>, Site}
  BY <1>1, SelectionFields
<1> QED BY <1>3, <1>4 DEF FiltersInv

LEMMA ListInv ==
    ASSUME FiltersInv, NEW f \in Forms, saved = Nothing, ListBookmarks(f)
    PROVE  FiltersInv'
<1>1. Form(f)
  BY FiltersAssumption DEF Form, Text
<1>2. PICK q : q = Terms(f)
  OBVIOUS
<1>3. q \in Seq(TermType) /\ \A t \in ToSet(q) : t.field \in Names \cup {<<>>}
  BY <1>1, <1>2, TermsFacts DEF ListedTerm
<1>4. PICK g : g = Normalize(f)
  OBVIOUS
<1>5. form' = g /\ listed' = ToSelectDataSet(Normalize(form')) /\ asked' = q /\ saved' = saved
  BY <1>2, <1>4 DEF ListBookmarks
<1>6. MeansAsked(g, q) /\ Form(g)
  BY <1>1, <1>2, <1>4, NormalizeKeepsTerms DEF MeansAsked
<1> QED BY <1>3, <1>5, <1>6, AskedInv

LEMMA LabelInv ==
    ASSUME FiltersInv, NEW label \in Pages, saved = Nothing, LabelPage(label)
    PROVE  FiltersInv'
<1>1. label \in Text
  BY FiltersAssumption DEF Text
<1>2. PICK t : t = [NoTerm EXCEPT !.field = Label, !.value = label, !.exact = TRUE]
  OBVIOUS
<1>3. PICK f : f = [EmptyForm EXCEPT !.labels = Quote(label)]
  OBVIOUS
<1>4. Form(f) /\ t \in TermType /\ t.field = Label /\ (~Moves(t) => ToSet(Terms(f)) = {t})
  BY <1>1, <1>2, <1>3, LabelPageTerms
<1>5. PICK q \in Seq(TermType) : q = <<t>>
  <2>1. <<t>> \in Seq(TermType)
    BY <1>4
  <2> QED BY <2>1
<1>6. ToSet(q) = {t}
  BY <1>5, OneRune
<1>7. MeansAsked(f, q)
  <2>1. ASSUME Still(ToSet(q)) PROVE ToSet(Terms(f)) = Kept(ToSet(q))
    <3>1. ~Moves(t)
      BY <1>6, <2>1 DEF Still
    <3>2. t.exact
      BY <1>2 DEF NoTerm
    <3>3. Kept({t}) = {t}
      BY <3>2 DEF Kept, Blank
    <3> QED BY <1>4, <1>6, <3>1, <3>3
  <2> QED BY <2>1 DEF MeansAsked
<1>8. \A x \in ToSet(q) : x.field \in Names \cup {<<>>}
  BY <1>4, <1>6, NameTexts
<1>9. PICK g : g = Normalize(f)
  OBVIOUS
<1>10. form' = g /\ listed' = ToSelectDataSet(Normalize(form')) /\ asked' = q /\ saved' = saved
  BY <1>2, <1>3, <1>5, <1>9, Zenon DEF LabelPage
<1>11. MeansAsked(g, q) /\ Form(g)
  BY <1>4, <1>7, <1>9, MeansNormalize
<1> QED BY <1>8, <1>10, <1>11, AskedInv

LEMMA CreateInv ==
    ASSUME FiltersInv, CreateCollection
    PROVE  FiltersInv'
<1>1. /\ listed # Nothing /\ saved' = Normalize(Normalize(form))
      /\ form' = form /\ listed' = listed /\ asked' = asked
  BY DEF CreateCollection
<1>2. Form(form) /\ asked \in Seq(TermType) /\ MeansAsked(form, asked)
  BY <1>1 DEF FiltersInv
<1>3. PICK f : f = Normalize(form)
  OBVIOUS
<1>4. Form(f) /\ MeansAsked(f, asked)
  BY <1>2, <1>3, MeansNormalize
<1>5. Form(saved') /\ MeansAsked(saved', asked)
  BY <1>1, <1>2, <1>3, <1>4, MeansNormalize
<1>6. ListIsWhatWasAsked'
  BY <1>1 DEF FiltersInv, ListIsWhatWasAsked
<1> QED BY <1>1, <1>5, <1>6 DEF FiltersInv

LEMMA OpenInv ==
    ASSUME FiltersInv, OpenCollection
    PROVE  FiltersInv'
<1>1. /\ saved # Nothing /\ form' = saved /\ listed' = ToSelectDataSet(Normalize(saved))
      /\ saved' = saved /\ asked' = asked
  BY DEF OpenCollection
<1>2. Form(saved) /\ asked \in Seq(TermType) /\ MeansAsked(saved, asked)
  BY <1>1 DEF FiltersInv
<1>3. PICK f : f = Normalize(saved)
  OBVIOUS
<1>4. Form(f) /\ MeansAsked(f, asked)
  BY <1>2, <1>3, MeansNormalize
<1>5. Still(ToSet(asked)) => listed' = Selection(asked)
  BY <1>1, <1>2, <1>3, <1>4, MeansSelected
<1>6. ListIsWhatWasAsked'
  BY <1>1, <1>5 DEF ListIsWhatWasAsked, Still
<1>7. \A t \in (listed').search : t.field \in {<<>>, Site}
  BY <1>1, <1>3, <1>4, SelectionFields
<1> QED BY <1>1, <1>2, <1>6, <1>7 DEF FiltersInv

LEMMA UpdateInv ==
    ASSUME FiltersInv, UpdateCollection
    PROVE  FiltersInv'
<1>1. /\ saved # Nothing /\ saved' = Normalize(Normalize(saved)) /\ form' = saved'
      /\ listed' = listed /\ asked' = asked
  BY DEF UpdateCollection
<1>2. Form(saved) /\ asked \in Seq(TermType) /\ MeansAsked(saved, asked)
  BY <1>1 DEF FiltersInv
<1>3. PICK f : f = Normalize(saved)
  OBVIOUS
<1>4. Form(f) /\ MeansAsked(f, asked)
  BY <1>2, <1>3, MeansNormalize
<1>5. Form(saved') /\ MeansAsked(saved', asked)
  BY <1>1, <1>2, <1>3, <1>4, MeansNormalize
<1>6. ListIsWhatWasAsked'
  BY <1>1 DEF FiltersInv, ListIsWhatWasAsked
<1> QED BY <1>1, <1>5, <1>6 DEF FiltersInv

LEMMA FiltersStep ==
    ASSUME FiltersInv, [FiltersNext]_filterVars
    PROVE  FiltersInv'
<1>1. CASE UNCHANGED filterVars
  BY <1>1 DEF FiltersInv, filterVars, ListIsWhatWasAsked
<1>2. ASSUME listed = Nothing /\ saved = Nothing, NEW f \in Forms, ListBookmarks(f)
      PROVE  FiltersInv'
  BY <1>2, ListInv
<1>3. ASSUME listed = Nothing /\ saved = Nothing, NEW label \in Pages, LabelPage(label)
      PROVE  FiltersInv'
  BY <1>3, LabelInv
<1>4. CASE CreateCollection
  BY <1>4, CreateInv
<1>5. CASE OpenCollection
  BY <1>5, OpenInv
<1>6. CASE UpdateCollection
  BY <1>6, UpdateInv
<1> QED BY <1>1, <1>2, <1>3, <1>4, <1>5, <1>6 DEF FiltersNext

LEMMA FiltersTyped ==
    ASSUME FiltersInv
    PROVE  FiltersTypeOK
<1>1. Form(EmptyForm)
  <2>1. <<>> \in Text
    BY RuneFacts
  <2> QED BY <2>1 DEF Form, EmptyForm
<1>2. Form(form) /\ Form(IF saved = Nothing THEN EmptyForm ELSE saved)
  BY <1>1 DEF FiltersInv
<1>3. \A i \in DOMAIN asked : asked[i].field \in Names \cup {<<>>}
  <2>1. \A i \in DOMAIN asked : asked[i] \in ToSet(asked)
    BY DEF ToSet
  <2> QED BY <2>1 DEF FiltersInv
<1>4. listed # Nothing => \A t \in listed.search : t.field \in {<<>>, Site}
  BY DEF FiltersInv
<1> QED BY <1>2, <1>3, <1>4 DEF FiltersTypeOK, Form, Text

-----------------------------------------------------------------------------
(* A reader who searches, opens a bookmark and highlights it. *)

\* To the annotations of the bookmark all the rest is nothing.
LEMMA ReaderHighlights == ReadingSpec => AnnotationsSpec
<1>1. ReadingInit => AnnotationsInit
  BY DEF ReadingInit
<1>2. [ReadingNext]_readingVars => [AnnotationsNext]_annotationVars
  BY DEF ReadingNext, readingVars, Search, OpenBookmark, Highlight
<1> QED BY <1>1, <1>2, PTL DEF ReadingSpec, AnnotationsSpec

LEMMA OpenBookmarkInv ==
    ASSUME OpenBookmark
    PROVE  FiltersInv'
<1>1. form' = EmptyForm /\ saved' = Nothing /\ listed' = Nothing /\ asked' = <<>>
  BY DEF OpenBookmark
<1>2. Form(EmptyForm)
  <2>1. <<>> \in Text
    BY RuneFacts
  <2> QED BY <2>1 DEF Form, EmptyForm
<1>3. PICK q \in Seq(TermType) : q = <<>>
  BY EmptySeq, Zenon
<1>4. ToSet(q) = {}
  BY <1>3, ToSetFacts
<1>5. asked' = q
  BY <1>1, <1>3
<1> QED BY <1>1, <1>2, <1>4, <1>5 DEF FiltersInv, ListIsWhatWasAsked

LEMMA ReaderFilters == ReadingSpec => []FiltersInv
<1>1. ReadingInit => FiltersInv
  BY FiltersInitInv DEF ReadingInit
<1>2. ASSUME FiltersInv, [ReadingNext]_readingVars PROVE FiltersInv'
  <2>1. CASE Search
    <3>1. [FiltersNext]_filterVars
      BY <2>1 DEF Search
    <3> QED BY <1>2, <3>1, FiltersStep
  <2>2. CASE OpenBookmark
    BY <2>2, OpenBookmarkInv
  <2>3. CASE Highlight \/ UNCHANGED readingVars
    <3>1. [FiltersNext]_filterVars
      BY <2>3 DEF Highlight, readingVars
    <3> QED BY <1>2, <3>1, FiltersStep
  <2> QED BY <1>2, <2>1, <2>2, <2>3 DEF ReadingNext
<1> QED BY <1>1, <1>2, PTL DEF ReadingSpec

\* A reader's fields and highlights have their types.
THEOREM ReadingTypeCorrect == ReadingSpec => []ReadingTypeOK
<1>1. FiltersInv /\ AnnotationsTypeOK => ReadingTypeOK
  BY FiltersTyped DEF ReadingTypeOK
<1> QED BY <1>1, ReaderHighlights, MarksTypeCorrect, ReaderFilters, PTL

\* Search terms survive: however often a request's fields are taken apart and
\* written again, in the page, in a collection and in a query, a list is
\* selected by what was asked for, except for the four kinds of terms.
THEOREM ListsWhatWasAsked == ReadingSpec => []ListIsWhatWasAsked
<1>1. FiltersInv => ListIsWhatWasAsked
  BY DEF FiltersInv
<1> QED BY <1>1, ReaderFilters, PTL

=============================================================================
