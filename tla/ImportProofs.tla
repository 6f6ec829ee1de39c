---------------------------- MODULE ImportProofs ----------------------------
(* Proofs about Import, for any imports, links, workers and bounds.        *)
EXTENDS Import, TLAPS

-----------------------------------------------------------------------------
(* The inductive invariant, part by part.                                  *)

\* The extraction of b settled its row.
Over(b) == row[b] # None /\ row[b].state = "settled"

\* b is the bookmark that import i created last.
IsLast(i, b) == b \in ids[i] /\ \A c \in ids[i] : c <= b

\* TypeOK in two parts: what each variable ranges over, and how they agree.
RangeOK ==
    /\ task \in [Imports -> Steps] /\ left \in [Imports -> Seq(URLs)]
    /\ ids \in [Imports -> SUBSET Bookmarks]
    /\ list \in [Imports -> SUBSET Bookmarks]
    /\ born \in 0 .. MaxBookmarks
    /\ row \in [Bookmarks -> Row \cup {None}]
    /\ from \in [Bookmarks -> Imports \cup {None}]
    /\ ex \in [Bookmarks -> Stages] /\ seen \in [Bookmarks -> SUBSET Bookmarks]
    /\ before \in [Imports -> 0 .. MaxBookmarks]
    /\ late \subseteq Imports /\ stale \subseteq Imports
    /\ mishap \subseteq Imports

LinkOK ==
    /\ \A i \in Imports : list[i] \subseteq ids[i] /\ ids[i] \subseteq 1 .. born
    /\ \A b \in Bookmarks, i \in Imports : from[b] = i <=> b \in ids[i]
    /\ \A b \in Bookmarks :
          /\ b > born => row[b] = None /\ from[b] = None
          /\ from[b] = None => ex[b] = "none"

\* Rows and extractions belong to an import that has begun.
OriginInv ==
    /\ \A b \in Bookmarks : row[b] # None \/ ex[b] # "none" => from[b] \in Imports
    /\ \A i \in Imports :
          /\ before[i] <= born
          /\ task[i] = "queued" => ids[i] = {}
          /\ task[i] = "checked" => left[i] # <<>>
          /\ task[i] = "created" => \E b \in ids[i] : IsLast(i, b)

\* What Check found out still holds when Create inserts the row.
CheckedInv ==
    \A i \in Imports \ Allow : task[i] = "checked" =>
       \A b \in Bookmarks :
          row[b] # None /\ row[b].initial = Head(left[i])
             => b > before[i] /\ from[b] # i

\* Without a mishap each bookmark has its extraction, and an extraction that has
\* saved, or read the list and found it complete, has settled rows behind it.
WorkOf(i, b) ==
    /\ row[b] # None
    /\ ex[b] = "none" => task[i] = "created" /\ IsLast(i, b)
    /\ ex[b] \in {"saved", "counting", "clearing", "done"} => Over(b)
    /\ ex[b] \in {"counting", "clearing"} => seen[b] \subseteq ids[i]
    /\ ex[b] = "clearing" => \A c \in seen[b] : Over(c)

WorkInv == \A i \in Imports \ mishap : \A b \in ids[i] : WorkOf(i, b)

\* What an import created and its list does not hold is settled, but for the
\* bookmark it is at.
ListInv ==
    \A i \in Imports \ (mishap \cup stale) : \A b \in ids[i] \ list[i] :
       Over(b) \/ (task[i] \in {"created", "launched"} /\ IsLast(i, b))

\* As long as there is a list, some extraction has still to read it, or has
\* read it and will remove it.
Reader(b) ==
    \/ ex[b] \in {"queued", "started", "saved", "clearing"}
    \/ ex[b] = "counting" /\ \A c \in seen[b] : Over(c)

ReaderInv ==
    \A i \in Imports \ (mishap \cup late) :
       task[i] \notin {"created", "launched"} /\ list[i] # {} =>
          \E b \in ids[i] : Reader(b)

-----------------------------------------------------------------------------
LEMMA TypeParts == TypeOK <=> RangeOK /\ LinkOK
  BY DEF TypeOK, RangeOK, LinkOK

\* The row that Create inserts.
LEMMA NewRow ==
    ASSUME NEW u \in URLs
    PROVE  [state |-> "loading", url |-> u, initial |-> u] \in Row
  BY DEF Row

\* What ExtractSave makes of a row, and what a failed launch makes of it.
LEMMA RowUpdate ==
    ASSUME NEW r \in Row, NEW u \in URLs
    PROVE  LET s == [[r EXCEPT !.state = "settled"] EXCEPT !.url = u]
           IN  /\ s \in Row /\ s # None
               /\ s.state = "settled" /\ s.initial = r.initial
  BY NoRow DEF Row

LEMMA SettledRow ==
    ASSUME NEW r \in Row
    PROVE  /\ [r EXCEPT !.state = "settled"] \in Row
           /\ r.state \in {"loading", "settled"}
           /\ [r EXCEPT !.state = "settled"].state = "settled"
           /\ [r EXCEPT !.state = "settled"].initial = r.initial
           /\ r # None /\ [r EXCEPT !.state = "settled"] # None
  BY NoRow DEF Row

\* Create inserts a row, or it loses the item.
LEMMA CreateCases ==
    ASSUME NEW i \in Imports, Create(i)
    PROVE  \/ /\ born < MaxBookmarks /\ born' = born + 1
              /\ from' = [from EXCEPT ![born + 1] = i]
              /\ ids' = [ids EXCEPT ![i] = @ \cup {born + 1}]
              /\ row' = [row EXCEPT ![born + 1] =
                           [state |-> "loading", url |-> Head(left[i]),
                            initial |-> Head(left[i])]]
              /\ task' = [task EXCEPT ![i] = "created"]
           \/ /\ UNCHANGED <<born, row, from, ids>>
              /\ task' = [task EXCEPT ![i] = "next"]
  BY DEF Create

\* What becomes of the rows: they keep their link, and settled ones stay settled.
RowsGoOn ==
    \A c \in Bookmarks :
       /\ row'[c] = None <=> row[c] = None
       /\ row[c] # None => row'[c].initial = row[c].initial
       /\ Over(c) => Over(c)'

\* An extraction that saves settles its row, loses it or meets a mishap.
LEMMA SaveEffect ==
    ASSUME RangeOK, NEW b \in Bookmarks, ExtractSave(b)
    PROVE  /\ row' \in [Bookmarks -> Row \cup {None}]
           /\ RowsGoOn
           /\ row[b] # None => Over(b)' \/ mishap' = mishap \cup {from[b]}
<1>1. CASE row' = row /\ (row[b] = None \/ mishap' = mishap \cup {from[b]})
  BY <1>1 DEF RangeOK, RowsGoOn, Over
<1>2. ASSUME row[b] # None, NEW u \in URLs,
             row' = [row EXCEPT ![b].state = "settled", ![b].url = u]
      PROVE  /\ row' \in [Bookmarks -> Row \cup {None}]
             /\ RowsGoOn /\ Over(b)'
  <2> DEFINE s == [[row[b] EXCEPT !.state = "settled"] EXCEPT !.url = u]
  <2>1. row' = [row EXCEPT ![b] = s]
    BY <1>2
  <2>2. /\ s \in Row /\ s # None
        /\ s.state = "settled" /\ s.initial = row[b].initial
    <3>1. row[b] \in Row
      BY <1>2 DEF RangeOK
    <3> QED
      BY <3>1, RowUpdate
  <2> HIDE DEF s
  <2>3. row'[b] = s /\ \A c \in Bookmarks : c # b => row'[c] = row[c]
    BY <2>1 DEF RangeOK
  <2>4. row' \in [Bookmarks -> Row \cup {None}]
    BY <2>1, <2>2 DEF RangeOK
  <2> QED
    BY <1>2, <2>2, <2>3, <2>4 DEF RowsGoOn, Over
<1> QED
  BY <1>1, <1>2 DEF ExtractSave

\* Current picks the bookmark created last, when there is one.
LEMMA CurrentIsLast ==
    ASSUME NEW i \in Imports, \E b \in ids[i] : IsLast(i, b)
    PROVE  IsLast(i, Current(i))
  BY DEF Current, IsLast

\* A launch puts the extraction in the queue or settles the row.
LEMMA LaunchEffect ==
    ASSUME RangeOK, NEW i \in Imports, LaunchExtract(i),
           NEW b \in Bookmarks, b = Current(i)
    PROVE  /\ row' \in [Bookmarks -> Row \cup {None}]
           /\ RowsGoOn
           /\ \/ ex' = [ex EXCEPT ![b] = "queued"] /\ mishap' = mishap
              \/ ex' = [ex EXCEPT ![b] = "done"] /\ mishap' = mishap \cup {i}
              \/ /\ ex' = [ex EXCEPT ![b] = "done"] /\ mishap' = mishap
                 /\ row[b] # None => Over(b)'
<1>1. CASE /\ row' = row
           /\ \/ ex' = [ex EXCEPT ![b] = "queued"] /\ mishap' = mishap
              \/ ex' = [ex EXCEPT ![b] = "done"] /\ mishap' = mishap \cup {i}
  BY <1>1 DEF RangeOK, RowsGoOn, Over
<1>2. ASSUME row' = [row EXCEPT ![b] = IF @ = None THEN None
                                       ELSE [@ EXCEPT !.state = "settled"]]
      PROVE  /\ row' \in [Bookmarks -> Row \cup {None}]
             /\ RowsGoOn /\ (row[b] # None => Over(b)')
  <2>1. CASE row[b] = None
    <3>1. row' = row
      BY <1>2, <2>1 DEF RangeOK
    <3> QED
      BY <2>1, <3>1 DEF RangeOK, RowsGoOn, Over
  <2>2. CASE row[b] # None
    <3> DEFINE s == [row[b] EXCEPT !.state = "settled"]
    <3>1. row' = [row EXCEPT ![b] = s]
      BY <1>2, <2>2
    <3>2. /\ s \in Row /\ s # None
          /\ s.state = "settled" /\ s.initial = row[b].initial
      BY <2>2, SettledRow DEF RangeOK
    <3> HIDE DEF s
    <3>3. row'[b] = s /\ \A c \in Bookmarks : c # b => row'[c] = row[c]
      BY <3>1 DEF RangeOK
    <3>4. row' \in [Bookmarks -> Row \cup {None}]
      BY <3>1, <3>2 DEF RangeOK
    <3> QED
      BY <2>2, <3>2, <3>3, <3>4 DEF RowsGoOn, Over
  <2> QED
    BY <2>1, <2>2
<1> QED
  BY <1>1, <1>2 DEF LaunchExtract

LEMMA LaunchedIsLast ==
    ASSUME RangeOK, OriginInv, NEW i \in Imports, LaunchExtract(i)
    PROVE  IsLast(i, Current(i)) /\ Current(i) \in Bookmarks
<1>1. IsLast(i, Current(i))
  BY CurrentIsLast DEF LaunchExtract, OriginInv
<1> QED
  BY <1>1 DEF IsLast, RangeOK

\* The items of an adapter.
LEMMA HeadTail ==
    ASSUME NEW q \in Seq(URLs), q # <<>>
    PROVE  Head(q) \in URLs /\ Tail(q) \in Seq(URLs)
  OBVIOUS

\* The initial states.
LEMMA InitTypes == Init => RangeOK /\ LinkOK /\ OriginInv
<1> SUFFICES ASSUME Init PROVE RangeOK /\ LinkOK /\ OriginInv
  OBVIOUS
<1>1. left \in [Imports -> Seq(URLs)]
  BY ImportAssumption DEF Init
<1>2. RangeOK
  BY <1>1, ImportAssumption DEF Init, RangeOK, Steps, Stages
<1>3. LinkOK
  BY ImportAssumption DEF Init, LinkOK, Bookmarks
<1>4. OriginInv
  BY ImportAssumption DEF Init, OriginInv
<1> QED
  BY <1>2, <1>3, <1>4

\* Every step keeps the range of each variable.
LEMMA RangeStep ==
    RangeOK /\ OriginInv /\ [Next]_vars => RangeOK'
<1> SUFFICES ASSUME RangeOK, OriginInv, [Next]_vars
              PROVE  RangeOK'
  OBVIOUS
<1> USE ImportAssumption, NoRow
      DEF RangeOK, extraction, history, Steps, Stages
<1>1. ASSUME NEW i \in Imports, Begin(i) PROVE RangeOK'
  BY <1>1 DEF Begin
<1>2. ASSUME NEW i \in Imports, Ignore(i) PROVE RangeOK'
  BY <1>2, HeadTail DEF Ignore
<1>3. ASSUME NEW i \in Imports, Check(i) PROVE RangeOK'
  BY <1>3 DEF Check, Exists
<1>4. ASSUME NEW i \in Imports, Create(i) PROVE RangeOK'
  <2>1. /\ Head(left[i]) \in URLs /\ Tail(left[i]) \in Seq(URLs)
    BY <1>4, HeadTail DEF Create, OriginInv
  <2>2. CASE born < MaxBookmarks /\ born' = born + 1
    <3> DEFINE u == Head(left[i])
               r == [state |-> "loading", url |-> u, initial |-> u]
    <3>1. r \in Row
      BY <2>1, NewRow
    <3>2. born + 1 \in Bookmarks /\ born' \in 0 .. MaxBookmarks
      BY <2>2 DEF Bookmarks
    <3>3. row' = [row EXCEPT ![born + 1] = r]
      BY <1>4, <2>2 DEF Create
    <3>4. row' \in [Bookmarks -> Row \cup {None}]
      BY <3>1, <3>3
    <3>5. /\ from' = [from EXCEPT ![born + 1] = i]
          /\ ids' = [ids EXCEPT ![i] = @ \cup {born + 1}]
          /\ task' = [task EXCEPT ![i] = "created"]
          /\ left' = [left EXCEPT ![i] = Tail(@)]
          /\ UNCHANGED <<list, ex, seen, before, late, stale, mishap>>
      BY <1>4, <2>2 DEF Create
    <3> QED
      BY <2>1, <3>2, <3>4, <3>5
  <2>3. CASE UNCHANGED <<born, row, from, ids>>
    BY <1>4, <2>1, <2>3 DEF Create
  <2> QED
    BY <1>4, <2>2, <2>3 DEF Create
<1>5. ASSUME NEW i \in Imports, LaunchExtract(i) PROVE RangeOK'
  <2>1. Current(i) \in Bookmarks
    BY <1>5, LaunchedIsLast
  <2>2. row' \in [Bookmarks -> Row \cup {None}]
    BY <1>5, <2>1, LaunchEffect
  <2> QED
    BY <1>5, <2>2 DEF LaunchExtract
<1>6. ASSUME NEW i \in Imports, Tell(i) PROVE RangeOK'
  BY <1>6 DEF Tell
<1>7. ASSUME NEW i \in Imports, EndOfItems(i) PROVE RangeOK'
  BY <1>7 DEF EndOfItems
<1>8. ASSUME NEW b \in Bookmarks, ExtractBegin(b) PROVE RangeOK'
  BY <1>8 DEF ExtractBegin
<1>9. ASSUME NEW b \in Bookmarks, ExtractSave(b) PROVE RangeOK'
  <2>1. from[b] \in Imports
    BY <1>9 DEF ExtractSave, OriginInv
  <2>2. row' \in [Bookmarks -> Row \cup {None}]
    BY <1>9, SaveEffect
  <2> QED
    BY <1>9, <2>1, <2>2 DEF ExtractSave
<1>10. ASSUME NEW b \in Bookmarks, ReadList(b) PROVE RangeOK'
  <2>1. from[b] \in Imports
    BY <1>10 DEF ReadList, OriginInv
  <2> QED
    BY <1>10, <2>1 DEF ReadList
<1>11. ASSUME NEW b \in Bookmarks, Count(b) PROVE RangeOK'
  <2>1. from[b] \in Imports
    BY <1>11 DEF Count, OriginInv
  <2> QED
    BY <1>11, <2>1 DEF Count
<1>12. ASSUME NEW b \in Bookmarks, ClearList(b) PROVE RangeOK'
  <2>1. from[b] \in Imports
    BY <1>12 DEF ClearList, OriginInv
  <2> QED
    BY <1>12, <2>1 DEF ClearList
<1>13. ASSUME NEW b \in Bookmarks, Delete(b) PROVE RangeOK'
  <2>1. from[b] \in Imports
    BY <1>13 DEF Delete, OriginInv
  <2> QED
    BY <1>13, <2>1 DEF Delete
<1>14. CASE Crash
  BY <1>14 DEF Crash
<1>15. CASE UNCHANGED vars
  BY <1>15 DEF vars
<1> QED
  BY <1>1, <1>2, <1>3, <1>4, <1>5, <1>6, <1>7, <1>8, <1>9, <1>10, <1>11,
     <1>12, <1>13, <1>14, <1>15
  DEF Next, ImportStep, ExtractStep

\* Every step keeps lists, identifiers and origins in agreement.
LEMMA LinkStep ==
    RangeOK /\ LinkOK /\ OriginInv /\ [Next]_vars => LinkOK'
<1> SUFFICES ASSUME RangeOK, LinkOK, OriginInv, [Next]_vars
              PROVE  LinkOK'
  OBVIOUS
<1> USE ImportAssumption, NoRow
      DEF LinkOK, RangeOK, Bookmarks, RowsGoOn, extraction, history
<1>1. ASSUME NEW i \in Imports, Begin(i) PROVE LinkOK'
  BY <1>1 DEF Begin
<1>2. ASSUME NEW i \in Imports, Ignore(i) PROVE LinkOK'
  BY <1>2 DEF Ignore
<1>3. ASSUME NEW i \in Imports, Check(i) PROVE LinkOK'
  BY <1>3 DEF Check, Exists
<1>4. ASSUME NEW i \in Imports, Create(i) PROVE LinkOK'
  <2>1. CASE /\ born < MaxBookmarks /\ born' = born + 1
             /\ from' = [from EXCEPT ![born + 1] = i]
             /\ ids' = [ids EXCEPT ![i] = @ \cup {born + 1}]
             /\ row' = [row EXCEPT ![born + 1] =
                           [state |-> "loading", url |-> Head(left[i]),
                            initial |-> Head(left[i])]]
    <3>1. \A b \in Bookmarks : b # born + 1 => row'[b] = row[b]
      BY <2>1
    <3>2. born + 1 \in Bookmarks /\ \A j \in Imports : born + 1 \notin ids[j]
      BY <2>1
    <3>3. \A b \in Bookmarks, j \in Imports : from'[b] = j <=> b \in ids'[j]
      BY <2>1, <3>2
    <3>4. UNCHANGED <<list, ex>>
      BY <1>4 DEF Create
    <3>5. \A j \in Imports : list'[j] \subseteq ids'[j] /\ ids'[j] \subseteq 1 .. born'
      BY <2>1, <3>4
    <3>6. /\ from'[born + 1] = i
          /\ \A b \in Bookmarks : b # born + 1 => from'[b] = from[b]
      BY <2>1, <3>2
    <3>7. \A b \in Bookmarks : b > born' => row'[b] = None /\ from'[b] = None
      BY <2>1, <3>1, <3>6
    <3>8. \A b \in Bookmarks : from'[b] = None => ex'[b] = "none"
      BY <3>2, <3>4, <3>6
    <3> QED
      BY <3>3, <3>5, <3>7, <3>8
  <2>2. CASE UNCHANGED <<born, row, from, ids>>
    BY <1>4, <2>2 DEF Create
  <2> QED
    BY <1>4, <2>1, <2>2, CreateCases
<1>5. ASSUME NEW i \in Imports, LaunchExtract(i) PROVE LinkOK'
  <2>1. Current(i) \in Bookmarks /\ Current(i) \in ids[i]
    BY <1>5, LaunchedIsLast DEF IsLast
  <2>2. \A b \in Bookmarks : row'[b] = None <=> row[b] = None
    BY <1>5, <2>1, LaunchEffect
  <2>3. from[Current(i)] = i
    BY <2>1
  <2>4. /\ \A b \in Bookmarks : from[b] # i => ex'[b] = ex[b]
        /\ UNCHANGED <<list, ids, born, from>>
    BY <1>5, <2>3 DEF LaunchExtract
  <2>5. \A b \in Bookmarks : from[b] = None => ex'[b] = "none"
    BY <2>4
  <2> QED
    BY <2>2, <2>4, <2>5
<1>6. ASSUME NEW i \in Imports, Tell(i) PROVE LinkOK'
  <2>1. list' = [list EXCEPT ![i] = ids[i]] \/ UNCHANGED list
    BY <1>6 DEF Tell
  <2>2. UNCHANGED <<ids, born, from, row, ex>>
    BY <1>6 DEF Tell
  <2>3. \A j \in Imports : list'[j] \in {list[j], ids[j]}
    BY <2>1
  <2> QED
    BY <2>2, <2>3
<1>7. ASSUME NEW i \in Imports, EndOfItems(i) PROVE LinkOK'
  BY <1>7 DEF EndOfItems
<1>8. ASSUME NEW b \in Bookmarks, ExtractBegin(b) PROVE LinkOK'
  BY <1>8 DEF ExtractBegin
<1>9. ASSUME NEW b \in Bookmarks, ExtractSave(b) PROVE LinkOK'
  <2>1. \A c \in Bookmarks : row'[c] = None <=> row[c] = None
    BY <1>9, SaveEffect
  <2>2. /\ \A c \in Bookmarks : c # b => ex'[c] = ex[c]
        /\ ex[b] # "none" /\ UNCHANGED <<list, ids, born, from>>
    BY <1>9 DEF ExtractSave
  <2> QED
    BY <2>1, <2>2
<1>10. ASSUME NEW b \in Bookmarks, ReadList(b) PROVE LinkOK'
  BY <1>10 DEF ReadList
<1>11. ASSUME NEW b \in Bookmarks, Count(b) PROVE LinkOK'
  BY <1>11 DEF Count, Settled
<1>12. ASSUME NEW b \in Bookmarks, ClearList(b) PROVE LinkOK'
  <2>1. list' = [list EXCEPT ![from[b]] = {}] \/ UNCHANGED list
    BY <1>12 DEF ClearList
  <2>2. /\ \A c \in Bookmarks : c # b => ex'[c] = ex[c]
        /\ ex[b] # "none" /\ UNCHANGED <<ids, born, from, row>>
    BY <1>12 DEF ClearList
  <2>3. \A i \in Imports : list'[i] \in {list[i], {}}
    BY <2>1
  <2>4. \A i \in Imports : list'[i] \subseteq ids'[i]
    BY <2>2, <2>3
  <2> QED
    BY <2>2, <2>3
<1>13. ASSUME NEW b \in Bookmarks, Delete(b) PROVE LinkOK'
  BY <1>13 DEF Delete
<1>14. CASE Crash
  BY <1>14 DEF Crash
<1>15. CASE UNCHANGED vars
  BY <1>15 DEF vars
<1> QED
  BY <1>1, <1>2, <1>3, <1>4, <1>5, <1>6, <1>7, <1>8, <1>9, <1>10, <1>11,
     <1>12, <1>13, <1>14, <1>15
  DEF Next, ImportStep, ExtractStep

\* Every step leaves rows and extractions to an import that has begun.
LEMMA OriginStep ==
    RangeOK /\ LinkOK /\ OriginInv /\ [Next]_vars => OriginInv'
<1> SUFFICES ASSUME RangeOK, LinkOK, OriginInv, [Next]_vars
              PROVE  OriginInv'
  OBVIOUS
<1> USE ImportAssumption, NoRow
      DEF OriginInv, LinkOK, RangeOK, Bookmarks, extraction, history
<1>1. ASSUME NEW i \in Imports, Begin(i) PROVE OriginInv'
  BY <1>1 DEF Begin, IsLast
<1>2. ASSUME NEW i \in Imports, Ignore(i) PROVE OriginInv'
  BY <1>2 DEF Ignore, IsLast
<1>3. ASSUME NEW i \in Imports, Check(i) PROVE OriginInv'
  BY <1>3 DEF Check, Exists, IsLast
<1>4. ASSUME NEW i \in Imports, Create(i) PROVE OriginInv'
  <2>1. CASE /\ born < MaxBookmarks /\ born' = born + 1
             /\ from' = [from EXCEPT ![born + 1] = i]
             /\ ids' = [ids EXCEPT ![i] = @ \cup {born + 1}]
             /\ row' = [row EXCEPT ![born + 1] =
                           [state |-> "loading", url |-> Head(left[i]),
                            initial |-> Head(left[i])]]
             /\ task' = [task EXCEPT ![i] = "created"]
    <3>1. UNCHANGED <<list, ex, before>>
      BY <1>4 DEF Create
    <3>2. \A j \in Imports : j # i => left'[j] = left[j]
      BY <1>4 DEF Create
    <3>3. \A b \in Bookmarks : row'[b] # None \/ ex'[b] # "none" => from'[b] \in Imports
      <4>1. /\ from'[born + 1] = i
            /\ \A b \in Bookmarks : b # born + 1 => row'[b] = row[b] /\ from'[b] = from[b]
        BY <2>1
      <4> QED
        BY <3>1, <4>1
    <3>4. IsLast(i, born)'
      <4>1. ids'[i] = ids[i] \cup {born + 1} /\ born' = born + 1
        BY <2>1
      <4>2. \A c \in ids[i] : c <= born
        OBVIOUS
      <4>3. \A c \in ids'[i] : c <= born'
        BY <4>1, <4>2
      <4> QED
        BY <4>1, <4>3 DEF IsLast
    <3>5. \A j \in Imports : j # i => ids'[j] = ids[j] /\ task'[j] = task[j]
      BY <2>1
    <3>6. \A j \in Imports : j # i =>
             (task'[j] = "created" => \E b \in ids'[j] : IsLast(j, b)')
      BY <3>5 DEF IsLast
    <3>7. \A j \in Imports : before'[j] <= born'
      BY <2>1, <3>1
    <3>8. born' \in ids'[i] /\ task'[i] = "created"
      BY <2>1, <3>4 DEF IsLast
    <3>9. ASSUME NEW j \in Imports, task'[j] = "created"
          PROVE  \E b \in ids'[j] : IsLast(j, b)'
      BY <3>4, <3>6, <3>8, <3>9 DEF IsLast
    <3>10. \A j \in Imports : /\ task'[j] = "queued" => ids'[j] = {}
                              /\ task'[j] = "checked" => left'[j] # <<>>
      BY <3>2, <3>5, <3>8
    <3> QED
      BY <3>3, <3>7, <3>9, <3>10
  <2>2. CASE UNCHANGED <<born, row, from, ids>> /\ task' = [task EXCEPT ![i] = "next"]
    BY <1>4, <2>2 DEF Create, IsLast
  <2> QED
    BY <1>4, <2>1, <2>2, CreateCases
<1>5. ASSUME NEW i \in Imports, LaunchExtract(i) PROVE OriginInv'
  <2>1. Current(i) \in Bookmarks /\ Current(i) \in ids[i]
    BY <1>5, LaunchedIsLast DEF IsLast
  <2>2. \A b \in Bookmarks : row'[b] = None <=> row[b] = None
    BY <1>5, <2>1, LaunchEffect DEF RowsGoOn
  <2>3. \A b \in Bookmarks : b # Current(i) => ex'[b] = ex[b]
    BY <1>5 DEF LaunchExtract
  <2>4. /\ task' = [task EXCEPT ![i] = "launched"]
        /\ UNCHANGED <<left, ids, born, from, before>>
    BY <1>5 DEF LaunchExtract
  <2>5. \A b \in Bookmarks : row'[b] # None \/ ex'[b] # "none" => from'[b] \in Imports
    BY <2>1, <2>2, <2>3, <2>4
  <2> QED
    BY <2>4, <2>5 DEF IsLast
<1>6. ASSUME NEW i \in Imports, Tell(i) PROVE OriginInv'
  BY <1>6 DEF Tell, IsLast
<1>7. ASSUME NEW i \in Imports, EndOfItems(i) PROVE OriginInv'
  BY <1>7 DEF EndOfItems, IsLast
<1>8. ASSUME NEW b \in Bookmarks, ExtractBegin(b) PROVE OriginInv'
  BY <1>8 DEF ExtractBegin, IsLast
<1>9. ASSUME NEW b \in Bookmarks, ExtractSave(b) PROVE OriginInv'
  <2>1. \A c \in Bookmarks : row'[c] = None <=> row[c] = None
    BY <1>9, SaveEffect DEF RowsGoOn
  <2>2. /\ \A c \in Bookmarks : c # b => ex'[c] = ex[c]
        /\ ex[b] # "none" /\ UNCHANGED <<task, left, ids, born, from, before>>
    BY <1>9 DEF ExtractSave
  <2> QED
    BY <2>1, <2>2 DEF IsLast
<1>10. ASSUME NEW b \in Bookmarks, ReadList(b) PROVE OriginInv'
  BY <1>10 DEF ReadList, IsLast
<1>11. ASSUME NEW b \in Bookmarks, Count(b) PROVE OriginInv'
  BY <1>11 DEF Count, Settled, IsLast
<1>12. ASSUME NEW b \in Bookmarks, ClearList(b) PROVE OriginInv'
  BY <1>12 DEF ClearList, IsLast
<1>13. ASSUME NEW b \in Bookmarks, Delete(b) PROVE OriginInv'
  BY <1>13 DEF Delete, IsLast
<1>14. CASE Crash
  BY <1>14 DEF Crash, IsLast
<1>15. CASE UNCHANGED vars
  BY <1>15 DEF vars, IsLast
<1> QED
  BY <1>1, <1>2, <1>3, <1>4, <1>5, <1>6, <1>7, <1>8, <1>9, <1>10, <1>11,
     <1>12, <1>13, <1>14, <1>15
  DEF Next, ImportStep, ExtractStep

\* No step of another import, an extraction or a deletion spoils a check.
LEMMA CheckedStep ==
    RangeOK /\ LinkOK /\ OriginInv /\ CheckedInv /\ [Next]_vars => CheckedInv'
<1> SUFFICES ASSUME RangeOK, LinkOK, OriginInv, CheckedInv, [Next]_vars
              PROVE  CheckedInv'
  OBVIOUS
<1> USE ImportAssumption, NoRow
      DEF CheckedInv, OriginInv, LinkOK, RangeOK, Bookmarks,
          extraction, history
<1>1. ASSUME NEW i \in Imports, Begin(i) PROVE CheckedInv'
  BY <1>1 DEF Begin
<1>2. ASSUME NEW i \in Imports, Ignore(i) PROVE CheckedInv'
  BY <1>2 DEF Ignore
<1>3. ASSUME NEW i \in Imports, Check(i) PROVE CheckedInv'
  BY <1>3 DEF Check, Exists
<1>4. ASSUME NEW i \in Imports, Create(i) PROVE CheckedInv'
  <2>1. CASE /\ born < MaxBookmarks /\ born' = born + 1
             /\ from' = [from EXCEPT ![born + 1] = i]
             /\ row' = [row EXCEPT ![born + 1] =
                           [state |-> "loading", url |-> Head(left[i]),
                            initial |-> Head(left[i])]]
             /\ task' = [task EXCEPT ![i] = "created"]
    <3>1. UNCHANGED before /\ \A j \in Imports : j # i => left'[j] = left[j]
      BY <1>4 DEF Create
    <3>2. from'[born + 1] = i
      BY <2>1
    <3>5. \A j \in Imports : born + 1 > before[j]
      OBVIOUS
    <3>3. \A b \in Bookmarks : b # born + 1 => row'[b] = row[b] /\ from'[b] = from[b]
      BY <2>1
    <3>4. task'[i] # "checked" /\ \A j \in Imports : j # i => task'[j] = task[j]
      BY <2>1
    <3>6. ASSUME NEW j \in Imports \ Allow, task'[j] = "checked", NEW b \in Bookmarks,
                 row'[b] # None, row'[b].initial = Head(left'[j])
          PROVE  b > before'[j] /\ from'[b] # j
      <4>1. j # i /\ task[j] = "checked" /\ left'[j] = left[j] /\ before' = before
        BY <3>1, <3>4, <3>6
      <4>2. CASE b = born + 1
        BY <3>2, <3>5, <4>1, <4>2
      <4>3. CASE b # born + 1
        BY <3>3, <3>6, <4>1, <4>3
      <4> QED
        BY <4>2, <4>3
    <3> QED
      BY <3>6
  <2>2. CASE UNCHANGED <<born, row, from, ids>> /\ task' = [task EXCEPT ![i] = "next"]
    BY <1>4, <2>2 DEF Create
  <2> QED
    BY <1>4, <2>1, <2>2, CreateCases
<1>5. ASSUME NEW i \in Imports, LaunchExtract(i) PROVE CheckedInv'
  <2>1. Current(i) \in Bookmarks
    BY <1>5, LaunchedIsLast
  <2>2. RowsGoOn
    BY <1>5, <2>1, LaunchEffect
  <2>3. /\ task' = [task EXCEPT ![i] = "launched"]
        /\ UNCHANGED <<left, from, before>>
    BY <1>5 DEF LaunchExtract
  <2> QED
    BY <2>2, <2>3 DEF RowsGoOn
<1>6. ASSUME NEW i \in Imports, Tell(i) PROVE CheckedInv'
  BY <1>6 DEF Tell
<1>7. ASSUME NEW i \in Imports, EndOfItems(i) PROVE CheckedInv'
  BY <1>7 DEF EndOfItems
<1>8. ASSUME NEW b \in Bookmarks, ExtractBegin(b) PROVE CheckedInv'
  <2>1. UNCHANGED <<task, left, row, from, before>>
    BY <1>8 DEF ExtractBegin
  <2> QED
    BY <2>1
<1>9. ASSUME NEW b \in Bookmarks, ExtractSave(b) PROVE CheckedInv'
  <2>1. RowsGoOn
    BY <1>9, SaveEffect
  <2>2. UNCHANGED <<task, left, from, before>>
    BY <1>9 DEF ExtractSave
  <2> QED
    BY <2>1, <2>2 DEF RowsGoOn
<1>10. ASSUME NEW b \in Bookmarks, ReadList(b) PROVE CheckedInv'
  <2>1. UNCHANGED <<task, left, row, from, before>>
    BY <1>10 DEF ReadList
  <2> QED
    BY <2>1
<1>11. ASSUME NEW b \in Bookmarks, Count(b) PROVE CheckedInv'
  <2>1. UNCHANGED <<task, left, row, from, before>>
    BY <1>11 DEF Count
  <2> QED
    BY <2>1
<1>12. ASSUME NEW b \in Bookmarks, ClearList(b) PROVE CheckedInv'
  <2>1. UNCHANGED <<task, left, row, from, before>>
    BY <1>12 DEF ClearList
  <2> QED
    BY <2>1
<1>13. ASSUME NEW b \in Bookmarks, Delete(b) PROVE CheckedInv'
  BY <1>13 DEF Delete
<1>14. CASE Crash
  BY <1>14 DEF Crash
<1>15. CASE UNCHANGED vars
  BY <1>15 DEF vars
<1> QED
  BY <1>1, <1>2, <1>3, <1>4, <1>5, <1>6, <1>7, <1>8, <1>9, <1>10, <1>11,
     <1>12, <1>13, <1>14, <1>15
  DEF Next, ImportStep, ExtractStep

\* No step creates a duplicate.
LEMMA NoDuplicatesStep ==
    RangeOK /\ LinkOK /\ OriginInv /\ CheckedInv /\ NoDuplicates /\ [Next]_vars => NoDuplicates'
<1> SUFFICES ASSUME RangeOK, LinkOK, OriginInv, CheckedInv, NoDuplicates, [Next]_vars
              PROVE  NoDuplicates'
  OBVIOUS
<1> USE ImportAssumption, NoRow
      DEF NoDuplicates, CheckedInv, OriginInv, LinkOK, RangeOK,
          Bookmarks, extraction, history
<1>1. ASSUME NEW i \in Imports, Begin(i) PROVE NoDuplicates'
  <2>1. /\ UNCHANGED <<row, from>> /\ ids[i] = {}
        /\ \A j \in Imports : j # i => before'[j] = before[j]
    BY <1>1 DEF Begin
  <2>2. \A c \in Bookmarks : row[c] # None => from[c] \in Imports /\ from[c] # i
    BY <2>1
  <2> QED
    BY <2>1, <2>2
<1>2. ASSUME NEW i \in Imports, Ignore(i) PROVE NoDuplicates'
  <2>1. UNCHANGED <<row, from, before>>
    BY <1>2 DEF Ignore
  <2> QED
    BY <2>1
<1>3. ASSUME NEW i \in Imports, Check(i) PROVE NoDuplicates'
  <2>1. UNCHANGED <<row, from, before>>
    BY <1>3 DEF Check
  <2> QED
    BY <2>1
<1>4. ASSUME NEW i \in Imports, Create(i) PROVE NoDuplicates'
  <2>1. CASE /\ born < MaxBookmarks /\ born' = born + 1
             /\ from' = [from EXCEPT ![born + 1] = i]
             /\ row' = [row EXCEPT ![born + 1] =
                           [state |-> "loading", url |-> Head(left[i]),
                            initial |-> Head(left[i])]]
    <3>1. before' = before /\ task[i] = "checked"
      BY <1>4 DEF Create
    <3>2. /\ from'[born + 1] = i /\ row'[born + 1].initial = Head(left[i])
          /\ \A b \in Bookmarks : b > born + 1 => row'[b] = None
      BY <2>1
    <3>3. \A b \in Bookmarks : b # born + 1 => row'[b] = row[b] /\ from'[b] = from[b]
      BY <2>1
    <3>4. ASSUME NEW b \in Bookmarks, NEW c \in Bookmarks, b < c,
                 row'[b] # None, row'[c] # None, row'[b].initial = row'[c].initial,
                 from'[c] \notin Allow
          PROVE  b > before'[from'[c]] /\ from'[b] # from'[c]
      <4>1. b # born + 1
        BY <3>2, <3>4
      <4>2. CASE c = born + 1
        <5>1. /\ i \in Imports \ Allow /\ from'[c] = i
              /\ row[b] # None /\ row[b].initial = Head(left[i])
          BY <3>2, <3>3, <3>4, <4>1, <4>2
        <5>2. b > before[i] /\ from[b] # i
          BY <3>1, <5>1
        <5> QED
          BY <3>1, <3>3, <4>1, <5>1, <5>2
      <4>3. CASE c # born + 1
        <5>1. /\ row'[b] = row[b] /\ row'[c] = row[c]
              /\ from'[b] = from[b] /\ from'[c] = from[c]
          BY <3>3, <4>1, <4>3
        <5>2. b > before[from[c]] /\ from[b] # from[c]
          BY <3>4, <5>1
        <5> QED
          BY <3>1, <5>1, <5>2
      <4> QED
        BY <4>2, <4>3
    <3> QED
      BY <3>4
  <2>2. CASE UNCHANGED <<born, row, from, ids>>
    <3>1. UNCHANGED <<row, from, before>>
      BY <1>4, <2>2 DEF Create
    <3> QED
      BY <3>1
  <2> QED
    BY <1>4, <2>1, <2>2, CreateCases
<1>5. ASSUME NEW i \in Imports, LaunchExtract(i) PROVE NoDuplicates'
  <2>1. Current(i) \in Bookmarks
    BY <1>5, LaunchedIsLast
  <2>2. RowsGoOn
    BY <1>5, <2>1, LaunchEffect
  <2>3. UNCHANGED <<from, before>>
    BY <1>5 DEF LaunchExtract
  <2> QED
    BY <2>2, <2>3 DEF RowsGoOn
<1>6. ASSUME NEW i \in Imports, Tell(i) PROVE NoDuplicates'
  <2>1. UNCHANGED <<row, from, before>>
    BY <1>6 DEF Tell
  <2> QED
    BY <2>1
<1>7. ASSUME NEW i \in Imports, EndOfItems(i) PROVE NoDuplicates'
  <2>1. UNCHANGED <<row, from, before>>
    BY <1>7 DEF EndOfItems
  <2> QED
    BY <2>1
<1>8. ASSUME NEW b \in Bookmarks, ExtractBegin(b) PROVE NoDuplicates'
  <2>1. UNCHANGED <<row, from, before>>
    BY <1>8 DEF ExtractBegin
  <2> QED
    BY <2>1
<1>9. ASSUME NEW b \in Bookmarks, ExtractSave(b) PROVE NoDuplicates'
  <2>1. RowsGoOn
    BY <1>9, SaveEffect
  <2>2. UNCHANGED <<from, before>>
    BY <1>9 DEF ExtractSave
  <2> QED
    BY <2>1, <2>2 DEF RowsGoOn
<1>10. ASSUME NEW b \in Bookmarks, ReadList(b) PROVE NoDuplicates'
  <2>1. UNCHANGED <<row, from, before>>
    BY <1>10 DEF ReadList
  <2> QED
    BY <2>1
<1>11. ASSUME NEW b \in Bookmarks, Count(b) PROVE NoDuplicates'
  <2>1. UNCHANGED <<row, from, before>>
    BY <1>11 DEF Count
  <2> QED
    BY <2>1
<1>12. ASSUME NEW b \in Bookmarks, ClearList(b) PROVE NoDuplicates'
  <2>1. UNCHANGED <<row, from, before>>
    BY <1>12 DEF ClearList
  <2> QED
    BY <2>1
<1>13. ASSUME NEW b \in Bookmarks, Delete(b) PROVE NoDuplicates'
  BY <1>13 DEF Delete
<1>14. CASE Crash
  <2>1. UNCHANGED <<row, from, before>>
    BY <1>14 DEF Crash
  <2> QED
    BY <2>1
<1>15. CASE UNCHANGED vars
  <2>1. UNCHANGED <<row, from, before>>
    BY <1>15 DEF vars
  <2> QED
    BY <2>1
<1> QED
  BY <1>1, <1>2, <1>3, <1>4, <1>5, <1>6, <1>7, <1>8, <1>9, <1>10, <1>11,
     <1>12, <1>13, <1>14, <1>15
  DEF Next, ImportStep, ExtractStep

-----------------------------------------------------------------------------
(* The extractions of an import without mishap.                            *)

\* The rows of an import are still there, and those that settled are settled.
Kept(i) ==
    \A b \in ids[i] : /\ row[b] # None => row'[b] # None
                      /\ Over(b) => Over(b)'

\* Rows that go on are kept.
LEMMA KeptRows ==
    ASSUME RangeOK, NEW i \in Imports, row' = row \/ RowsGoOn
    PROVE  Kept(i)
  BY DEF RangeOK, Kept, RowsGoOn, Over

\* A step that leaves an extraction alone keeps what is known of it.
LEMMA WorkFrame ==
    ASSUME NEW i \in Imports, NEW b \in ids[i], WorkOf(i, b), Kept(i),
           ids[i] \subseteq ids'[i], ex'[b] = ex[b], seen'[b] = seen[b],
           ex[b] # "none" \/ (task'[i] = task[i] /\ ids'[i] = ids[i])
    PROVE  WorkOf(i, b)'
<1>1. /\ row'[b] # None
      /\ Over(b) => Over(b)'
      /\ ex[b] \in {"counting", "clearing"} => \A c \in seen[b] : Over(c) => Over(c)'
  BY DEF WorkOf, Kept
<1>2. /\ ex'[b] = "none" => task'[i] = "created" /\ IsLast(i, b)'
      /\ ex'[b] \in {"counting", "clearing"} => seen'[b] \subseteq ids'[i]
  BY DEF WorkOf, IsLast
<1>3. ex'[b] \in {"saved", "counting", "clearing", "done"} => Over(b)'
  BY <1>1 DEF WorkOf
<1>4. ex'[b] = "clearing" => \A c \in seen'[b] : Over(c)'
  BY <1>1 DEF WorkOf
<1> QED
  BY <1>1, <1>2, <1>3, <1>4 DEF WorkOf

\* Every step keeps WorkInv, or is a mishap for the import.
LEMMA WorkStep ==
    RangeOK /\ LinkOK /\ OriginInv /\ WorkInv /\ [Next]_vars => WorkInv'
<1> SUFFICES ASSUME RangeOK, LinkOK, OriginInv, WorkInv, [Next]_vars,
                    NEW j \in Imports, j \notin mishap', NEW c \in ids'[j]
              PROVE  WorkOf(j, c)'
  BY DEF WorkInv
<1> USE ImportAssumption DEF extraction, history
<1>a. ASSUME j \notin mishap, ids' = ids
      PROVE  /\ c \in ids[j] /\ c \in Bookmarks /\ WorkOf(j, c)
             /\ from[c] = j /\ row[c] # None
  BY <1>a DEF WorkInv, WorkOf, RangeOK, LinkOK
<1>b. ASSUME NEW b \in Bookmarks, b # c, ids' = ids, task' = task, j \notin mishap,
             row' = row \/ RowsGoOn,
             \A d \in Bookmarks : d # b => ex'[d] = ex[d] /\ seen'[d] = seen[d]
      PROVE  WorkOf(j, c)'
  BY <1>a, <1>b, KeptRows, WorkFrame
<1>1. ASSUME NEW i \in Imports, Begin(i) PROVE WorkOf(j, c)'
  <2>1. /\ UNCHANGED <<ids, row, ex, seen, mishap>> /\ ids[i] = {}
        /\ j # i => task'[j] = task[j]
    BY <1>1 DEF Begin, OriginInv, RangeOK
  <2>2. j # i
    BY <2>1
  <2> QED
    BY <1>a, <2>1, <2>2, KeptRows, WorkFrame
<1>2. ASSUME NEW i \in Imports, Ignore(i) PROVE WorkOf(j, c)'
  <2>1. UNCHANGED <<task, ids, row, ex, seen, mishap>>
    BY <1>2 DEF Ignore
  <2> QED
    BY <1>a, <2>1, KeptRows, WorkFrame
<1>3. ASSUME NEW i \in Imports, Check(i) PROVE WorkOf(j, c)'
  <2>1. /\ UNCHANGED <<ids, row, ex, seen, mishap>> /\ task[i] # "created"
        /\ j # i => task'[j] = task[j]
    BY <1>3 DEF Check, RangeOK
  <2>2. j = i => ex[c] # "none"
    BY <1>a, <2>1 DEF WorkOf
  <2> QED
    BY <1>a, <2>1, <2>2, KeptRows, WorkFrame
<1>4. ASSUME NEW i \in Imports, Create(i) PROVE WorkOf(j, c)'
  <2>0. /\ UNCHANGED <<ex, seen, mishap>> /\ task[i] # "created"
        /\ j # i => task'[j] = task[j]
    BY <1>4 DEF Create, RangeOK
  <2>1. CASE /\ born < MaxBookmarks /\ born' = born + 1
             /\ ids' = [ids EXCEPT ![i] = @ \cup {born + 1}]
             /\ row' = [row EXCEPT ![born + 1] =
                           [state |-> "loading", url |-> Head(left[i]),
                            initial |-> Head(left[i])]]
             /\ task' = [task EXCEPT ![i] = "created"]
    <3> DEFINE r == [state |-> "loading", url |-> Head(left[i]), initial |-> Head(left[i])]
    <3>1. born + 1 \in Bookmarks /\ row[born + 1] = None /\ ex[born + 1] = "none"
      BY <2>1 DEF RangeOK, LinkOK, Bookmarks
    <3>2. r # None
      <4>1. Head(left[i]) \in URLs
        BY <1>4, HeadTail DEF Create, OriginInv, RangeOK
      <4> QED
        BY <4>1, NewRow, NoRow
    <3>3. row'[born + 1] = r
      BY <2>1, <3>1 DEF RangeOK
    <3> HIDE DEF r
    <3>4. \A b \in Bookmarks : b # born + 1 => row'[b] = row[b]
      BY <2>1 DEF RangeOK
    <3>5. /\ ids'[i] = ids[i] \cup {born + 1}
          /\ \A k \in Imports : k # i => ids'[k] = ids[k]
      BY <2>1 DEF RangeOK
    <3>6. Kept(j)
      BY <3>1, <3>4 DEF Kept, Over, RangeOK
    <3>7. CASE c \in ids[j]
      <4>1. WorkOf(j, c)
        BY <2>0, <3>7 DEF WorkInv
      <4>2. j = i => ex[c] # "none"
        BY <2>0, <4>1 DEF WorkOf
      <4>3. ids[j] \subseteq ids'[j] /\ (j # i => ids'[j] = ids[j])
        BY <3>5
      <4> QED
        BY <2>0, <3>6, <3>7, <4>1, <4>2, <4>3, WorkFrame
    <3>8. CASE c \notin ids[j]
      <4>1. j = i /\ c = born + 1
        BY <3>5, <3>8
      <4>2. IsLast(j, c)'
        <5>1. born \in Nat /\ \A d \in ids[i] : d \in Nat /\ d <= born
          BY DEF LinkOK, RangeOK
        <5>2. born + 1 \in ids'[i] /\ \A d \in ids'[i] : d <= born + 1
          BY <3>5, <5>1
        <5> QED
          BY <4>1, <5>2 DEF IsLast
      <4>3. row'[c] # None /\ ex'[c] = "none" /\ task'[j] = "created"
        BY <2>0, <2>1, <3>1, <3>2, <3>3, <4>1 DEF RangeOK
      <4> QED
        BY <4>2, <4>3 DEF WorkOf
    <3> QED
      BY <3>7, <3>8
  <2>2. CASE UNCHANGED <<born, row, from, ids>>
    <3>1. ids' = ids /\ row' = row
      BY <2>2
    <3>2. j = i => ex[c] # "none"
      BY <1>a, <2>0, <3>1 DEF WorkOf
    <3> QED
      BY <1>a, <2>0, <3>1, <3>2, KeptRows, WorkFrame
  <2> QED
    BY <1>4, <2>1, <2>2, CreateCases
<1>5. ASSUME NEW i \in Imports, LaunchExtract(i) PROVE WorkOf(j, c)'
  <2> DEFINE b == Current(i)
  <2>1. IsLast(i, b) /\ b \in Bookmarks
    BY <1>5, LaunchedIsLast
  <2>2. /\ UNCHANGED <<ids, seen>> /\ j \notin mishap
        /\ j # i => task'[j] = task[j]
        /\ \A d \in Bookmarks : d # b => ex'[d] = ex[d]
    BY <1>5 DEF LaunchExtract, RangeOK
  <2>3. RowsGoOn
    BY <1>5, <2>1, LaunchEffect
  <2>4. Kept(j)
    BY <2>3, KeptRows
  <2>5. CASE c = b
    <3>1. j = i
      BY <1>a, <2>1, <2>2, <2>5 DEF IsLast, LinkOK
    <3>2. ex'[c] = "queued" \/ (ex'[c] = "done" /\ Over(c)')
      BY <1>5, <1>a, <2>1, <2>2, <2>5, <3>1, LaunchEffect DEF RangeOK
    <3>3. row'[c] # None
      BY <1>a, <2>2, <2>3 DEF RowsGoOn
    <3> QED
      BY <3>2, <3>3 DEF WorkOf
  <2>6. CASE c # b
    <3>1. j = i => ex[c] # "none"
      <4> SUFFICES ASSUME j = i, IsLast(i, c) PROVE FALSE
        BY <1>a, <2>2 DEF WorkOf
      <4>1. c <= b /\ b <= c
        BY <2>1 DEF IsLast
      <4> QED
        BY <1>a, <2>1, <2>2, <2>6, <4>1 DEF Bookmarks
    <3> QED
      BY <1>a, <2>2, <2>4, <2>6, <3>1, WorkFrame
  <2> QED
    BY <2>5, <2>6
<1>6. ASSUME NEW i \in Imports, Tell(i) PROVE WorkOf(j, c)'
  <2>1. /\ UNCHANGED <<ids, row, ex, seen>> /\ task[i] # "created"
        /\ j \notin mishap /\ (j # i => task'[j] = task[j])
    BY <1>6 DEF Tell, RangeOK
  <2>2. j = i => ex[c] # "none"
    BY <1>a, <2>1 DEF WorkOf
  <2> QED
    BY <1>a, <2>1, <2>2, KeptRows, WorkFrame
<1>7. ASSUME NEW i \in Imports, EndOfItems(i) PROVE WorkOf(j, c)'
  <2>1. /\ UNCHANGED <<ids, row, ex, seen, mishap>> /\ task[i] # "created"
        /\ j # i => task'[j] = task[j]
    BY <1>7 DEF EndOfItems, RangeOK
  <2>2. j = i => ex[c] # "none"
    BY <1>a, <2>1 DEF WorkOf
  <2> QED
    BY <1>a, <2>1, <2>2, KeptRows, WorkFrame
<1>8. ASSUME NEW b \in Bookmarks, ExtractBegin(b) PROVE WorkOf(j, c)'
  <2>1. /\ UNCHANGED <<task, ids, row, seen, mishap>> /\ ex'[b] = "started"
        /\ \A d \in Bookmarks : d # b => ex'[d] = ex[d]
    BY <1>8 DEF ExtractBegin, RangeOK
  <2>2. CASE c = b
    BY <1>a, <2>1, <2>2 DEF WorkOf
  <2>3. CASE c # b
    BY <1>b, <2>1, <2>3
  <2> QED
    BY <2>2, <2>3
<1>9. ASSUME NEW b \in Bookmarks, ExtractSave(b) PROVE WorkOf(j, c)'
  <2>1. /\ UNCHANGED <<task, ids, seen>> /\ ex'[b] = "saved" /\ j \notin mishap
        /\ \A d \in Bookmarks : d # b => ex'[d] = ex[d]
    BY <1>9 DEF ExtractSave, RangeOK
  <2>2. /\ RowsGoOn
        /\ row[b] # None => Over(b)' \/ mishap' = mishap \cup {from[b]}
    BY <1>9, SaveEffect
  <2>3. CASE c = b
    <3>1. Over(c)'
      BY <1>a, <2>1, <2>2, <2>3
    <3>2. row'[c] # None
      BY <1>a, <2>1, <2>2 DEF RowsGoOn
    <3> QED
      BY <2>1, <2>3, <3>1, <3>2 DEF WorkOf
  <2>4. CASE c # b
    BY <1>b, <2>1, <2>2, <2>4
  <2> QED
    BY <2>3, <2>4
<1>10. ASSUME NEW b \in Bookmarks, ReadList(b) PROVE WorkOf(j, c)'
  <2>1. /\ UNCHANGED <<task, ids, row>> /\ j \notin mishap /\ ex[b] = "saved"
        /\ \A d \in Bookmarks : d # b => ex'[d] = ex[d] /\ seen'[d] = seen[d]
        /\ \/ mishap' = mishap \cup {from[b]}
           \/ /\ seen'[b] = list[from[b]]
              /\ ex'[b] = IF list[from[b]] = {} THEN "clearing" ELSE "counting"
    BY <1>10 DEF ReadList, RangeOK
  <2>2. CASE c = b
    <3>1. /\ seen'[c] = list[j] /\ Over(c)
          /\ ex'[c] = IF list[j] = {} THEN "clearing" ELSE "counting"
      BY <1>a, <2>1, <2>2 DEF WorkOf
    <3>2. Over(c)' /\ row'[c] # None
      BY <2>1, <3>1 DEF Over
    <3>3. seen'[c] \subseteq ids'[j]
      BY <2>1, <3>1 DEF LinkOK
    <3> QED
      BY <3>1, <3>2, <3>3 DEF WorkOf
  <2>3. CASE c # b
    BY <1>b, <2>1, <2>3
  <2> QED
    BY <2>2, <2>3
<1>11. ASSUME NEW b \in Bookmarks, Count(b) PROVE WorkOf(j, c)'
  <2>1. /\ UNCHANGED <<task, ids, row>> /\ j \notin mishap /\ ex[b] = "counting"
        /\ \A d \in Bookmarks : d # b => ex'[d] = ex[d] /\ seen'[d] = seen[d]
        /\ \/ ex'[b] = "done"
           \/ Settled(seen[b]) = seen[b] /\ ex'[b] = "clearing" /\ seen'[b] = seen[b]
    BY <1>11 DEF Count, RangeOK
  <2>2. CASE c = b
    <3>1. Over(c) /\ seen[c] \subseteq ids[j]
      BY <1>a, <2>1, <2>2 DEF WorkOf
    <3>2. Over(c)' /\ row'[c] # None
      BY <2>1, <3>1 DEF Over
    <3>3. ASSUME Settled(seen[c]) = seen[c], NEW d \in seen[c] PROVE Over(d)'
      <4>1. row[d] # None /\ row[d].state # "loading" /\ d \in Bookmarks
        BY <2>2, <3>1, <3>3 DEF Settled, RangeOK
      <4>2. row[d].state = "settled"
        BY <4>1, SettledRow DEF RangeOK
      <4> QED
        BY <2>1, <4>1, <4>2 DEF Over
    <3>4. CASE ex'[b] = "done"
      BY <2>2, <3>2, <3>4 DEF WorkOf
    <3>5. CASE Settled(seen[b]) = seen[b] /\ ex'[b] = "clearing" /\ seen'[b] = seen[b]
      BY <2>1, <2>2, <3>1, <3>2, <3>3, <3>5 DEF WorkOf
    <3> QED
      BY <2>1, <3>4, <3>5
  <2>3. CASE c # b
    BY <1>b, <2>1, <2>3
  <2> QED
    BY <2>2, <2>3
<1>12. ASSUME NEW b \in Bookmarks, ClearList(b) PROVE WorkOf(j, c)'
  <2>1. /\ UNCHANGED <<task, ids, row>> /\ j \notin mishap /\ ex[b] = "clearing"
        /\ \A d \in Bookmarks : d # b => ex'[d] = ex[d] /\ seen'[d] = seen[d]
        /\ ex'[b] = "done"
    BY <1>12 DEF ClearList, RangeOK
  <2>2. CASE c = b
    <3>1. Over(c)
      BY <1>a, <2>1, <2>2 DEF WorkOf
    <3>2. Over(c)' /\ row'[c] # None
      BY <2>1, <3>1 DEF Over
    <3> QED
      BY <2>1, <2>2, <3>2 DEF WorkOf
  <2>3. CASE c # b
    BY <1>b, <2>1, <2>3
  <2> QED
    BY <2>2, <2>3
<1>13. ASSUME NEW b \in Bookmarks, Delete(b) PROVE WorkOf(j, c)'
  <2>1. /\ UNCHANGED <<task, ids, ex, seen>> /\ j \notin mishap /\ from[b] # j
        /\ \A d \in Bookmarks : d # b => row'[d] = row[d]
    BY <1>13 DEF Delete, RangeOK
  <2>2. \A d \in ids[j] : d \in Bookmarks /\ d # b
    BY <2>1 DEF LinkOK, RangeOK
  <2>3. Kept(j)
    BY <2>1, <2>2 DEF Kept, Over
  <2> QED
    BY <1>a, <2>1, <2>3, WorkFrame
<1>14. CASE Crash
  BY <1>14 DEF Crash
<1>15. CASE UNCHANGED vars
  <2>1. UNCHANGED <<task, ids, row, ex, seen, mishap>>
    BY <1>15 DEF vars
  <2> QED
    BY <1>a, <2>1, KeptRows, WorkFrame
<1> QED
  BY <1>1, <1>2, <1>3, <1>4, <1>5, <1>6, <1>7, <1>8, <1>9, <1>10, <1>11,
     <1>12, <1>13, <1>14, <1>15
  DEF Next, ImportStep, ExtractStep

-----------------------------------------------------------------------------
(* The list of an import.                                                  *)

\* Every step keeps ListInv: when an extraction removes the list it has read,
\* all that was on it is settled.
LEMMA ListStep ==
    RangeOK /\ LinkOK /\ OriginInv /\ WorkInv /\ ListInv /\ [Next]_vars => ListInv'
<1> SUFFICES ASSUME RangeOK, LinkOK, OriginInv, WorkInv, ListInv, [Next]_vars,
                    NEW j \in Imports, j \notin mishap', j \notin stale',
                    NEW c \in ids'[j], c \notin list'[j]
              PROVE  \/ Over(c)'
                     \/ task'[j] \in {"created", "launched"} /\ IsLast(j, c)'
  BY DEF ListInv
<1> USE ImportAssumption DEF extraction, history
<1> DEFINE Goal == \/ Over(c)'
                   \/ task'[j] \in {"created", "launched"} /\ IsLast(j, c)'
<1>a. ASSUME j \notin mishap, j \notin stale, ids' = ids, Kept(j),
             c \notin list[j], task[j] \notin {"created", "launched"}
      PROVE  Over(c)'
  BY <1>a DEF ListInv, Kept
<1>b. ASSUME j \notin mishap, j \notin stale, ids' = ids, Kept(j),
             list' = list, task'[j] = task[j]
      PROVE  Goal
  BY <1>b DEF ListInv, Kept, IsLast
<1> HIDE DEF Goal
<1>1. ASSUME NEW i \in Imports, Begin(i) PROVE Goal
  <2>1. /\ UNCHANGED <<ids, list, row, stale, mishap>> /\ ids[i] = {}
        /\ j # i => task'[j] = task[j]
    BY <1>1 DEF Begin, OriginInv, RangeOK
  <2>2. j # i
    BY <2>1
  <2> QED
    BY <1>b, <2>1, <2>2, KeptRows
<1>2. ASSUME NEW i \in Imports, Ignore(i) PROVE Goal
  <2>1. UNCHANGED <<task, ids, list, row, stale, mishap>>
    BY <1>2 DEF Ignore
  <2> QED
    BY <1>b, <2>1, KeptRows
<1>3. ASSUME NEW i \in Imports, Check(i) PROVE Goal
  <2>1. /\ UNCHANGED <<ids, list, row, stale, mishap>> /\ task[i] = "next"
        /\ j # i => task'[j] = task[j]
    BY <1>3 DEF Check, RangeOK
  <2> QED
    BY <1>a, <1>b, <2>1, KeptRows DEF Goal
<1>4. ASSUME NEW i \in Imports, Create(i) PROVE Goal
  <2>0. /\ UNCHANGED <<list, stale, mishap>> /\ task[i] = "checked"
        /\ j # i => task'[j] = task[j]
    BY <1>4 DEF Create, RangeOK
  <2>1. CASE /\ born < MaxBookmarks /\ born' = born + 1
             /\ ids' = [ids EXCEPT ![i] = @ \cup {born + 1}]
             /\ row' = [row EXCEPT ![born + 1] =
                           [state |-> "loading", url |-> Head(left[i]),
                            initial |-> Head(left[i])]]
             /\ task' = [task EXCEPT ![i] = "created"]
    <3>1. /\ \A b \in Bookmarks : b # born + 1 => row'[b] = row[b]
          /\ born + 1 \in Bookmarks /\ row[born + 1] = None
      BY <2>1 DEF RangeOK, LinkOK, Bookmarks
    <3>2. /\ ids'[i] = ids[i] \cup {born + 1} /\ task'[i] = "created"
          /\ \A k \in Imports : k # i => ids'[k] = ids[k]
      BY <2>1 DEF RangeOK
    <3>3. \A b \in Bookmarks : Over(b) => Over(b)'
      BY <3>1 DEF Over
    <3>4. CASE c \in ids[j]
      <4>1. c \in Bookmarks /\ (Over(c) \/ (task[j] \in {"created", "launched"} /\ IsLast(j, c)))
        BY <2>0, <3>4 DEF ListInv, RangeOK
      <4>2. CASE Over(c)
        BY <3>3, <4>1, <4>2 DEF Goal
      <4>3. CASE task[j] \in {"created", "launched"} /\ IsLast(j, c)
        <5>1. j # i
          BY <2>0, <4>3
        <5>2. ids'[j] = ids[j] /\ task'[j] = task[j]
          BY <2>0, <3>2, <5>1
        <5> QED
          BY <4>3, <5>2 DEF Goal, IsLast
      <4> QED
        BY <4>1, <4>2, <4>3
    <3>5. CASE c \notin ids[j]
      <4>1. j = i /\ c = born + 1
        BY <3>2, <3>5
      <4>2. born \in Nat /\ \A d \in ids[i] : d \in Nat /\ d <= born
        BY DEF LinkOK, RangeOK
      <4>3. born + 1 \in ids'[i] /\ \A d \in ids'[i] : d <= born + 1
        BY <3>2, <4>2
      <4> QED
        BY <3>2, <4>1, <4>3 DEF Goal, IsLast
    <3> QED
      BY <3>4, <3>5
  <2>2. CASE UNCHANGED <<born, row, from, ids>>
    <3>1. ids' = ids /\ row' = row
      BY <2>2
    <3> QED
      BY <1>a, <1>b, <2>0, <3>1, KeptRows DEF Goal
  <2> QED
    BY <1>4, <2>1, <2>2, CreateCases
<1>5. ASSUME NEW i \in Imports, LaunchExtract(i) PROVE Goal
  <2>1. Current(i) \in Bookmarks
    BY <1>5, LaunchedIsLast
  <2>2. /\ UNCHANGED <<ids, list, stale>> /\ j \notin mishap
        /\ task[i] = "created" /\ task'[i] = "launched"
        /\ j # i => task'[j] = task[j]
    BY <1>5 DEF LaunchExtract, RangeOK
  <2>3. Kept(j)
    BY <1>5, <2>1, LaunchEffect, KeptRows
  <2>4. CASE j = i
    BY <2>2, <2>3, <2>4 DEF ListInv, Kept, Goal, IsLast
  <2>5. CASE j # i
    BY <1>b, <2>2, <2>3, <2>5
  <2> QED
    BY <2>4, <2>5
<1>6. ASSUME NEW i \in Imports, Tell(i) PROVE Goal
  <2>1. /\ UNCHANGED <<ids, row, stale>> /\ j \notin mishap
        /\ j # i => task'[j] = task[j] /\ list'[j] = list[j]
        /\ list'[i] = ids[i] \/ mishap' = mishap \cup {i}
    BY <1>6 DEF Tell, RangeOK
  <2>2. j # i
    BY <2>1
  <2> QED
    BY <2>1, <2>2, KeptRows DEF ListInv, Kept, Goal, IsLast
<1>7. ASSUME NEW i \in Imports, EndOfItems(i) PROVE Goal
  <2>1. /\ UNCHANGED <<ids, row, stale, mishap>> /\ task[i] = "next"
        /\ j # i => task'[j] = task[j]
        /\ \A k \in Imports : ids[k] # {} => list'[k] = list[k]
    BY <1>7 DEF EndOfItems, RangeOK
  <2>2. list'[j] = list[j]
    BY <2>1
  <2>3. CASE j = i
    BY <1>a, <2>1, <2>2, <2>3, KeptRows DEF Goal
  <2>4. CASE j # i
    BY <2>1, <2>2, <2>4, KeptRows DEF ListInv, Kept, Goal, IsLast
  <2> QED
    BY <2>3, <2>4
<1>8. ASSUME NEW b \in Bookmarks, ExtractBegin(b) PROVE Goal
  <2>1. UNCHANGED <<task, ids, list, row, stale, mishap>>
    BY <1>8 DEF ExtractBegin
  <2> QED
    BY <1>b, <2>1, KeptRows
<1>9. ASSUME NEW b \in Bookmarks, ExtractSave(b) PROVE Goal
  <2>1. UNCHANGED <<task, ids, list, stale>> /\ j \notin mishap
    BY <1>9 DEF ExtractSave
  <2>2. Kept(j)
    BY <1>9, SaveEffect, KeptRows
  <2> QED
    BY <1>b, <2>1, <2>2
<1>10. ASSUME NEW b \in Bookmarks, ReadList(b) PROVE Goal
  <2>1. UNCHANGED <<task, ids, list, row, stale>> /\ j \notin mishap
    BY <1>10 DEF ReadList
  <2> QED
    BY <1>b, <2>1, KeptRows
<1>11. ASSUME NEW b \in Bookmarks, Count(b) PROVE Goal
  <2>1. UNCHANGED <<task, ids, list, row, stale>> /\ j \notin mishap
    BY <1>11 DEF Count
  <2> QED
    BY <1>b, <2>1, KeptRows
<1>12. ASSUME NEW b \in Bookmarks, ClearList(b) PROVE Goal
  <2>1. /\ UNCHANGED <<task, ids, row>> /\ j \notin mishap /\ j \notin stale
        /\ ex[b] = "clearing"
        /\ j # from[b] => list'[j] = list[j]
        /\ j = from[b] => list[j] = seen[b]
    BY <1>12 DEF ClearList, RangeOK
  <2>2. Kept(j)
    BY <2>1, KeptRows
  <2>3. CASE j = from[b] /\ c \in list[j]
    <3>1. WorkOf(j, b)
      BY <2>1, <2>3 DEF WorkInv, LinkOK
    <3>2. Over(c)
      BY <2>1, <2>3, <3>1 DEF WorkOf
    <3> QED
      BY <2>1, <3>2 DEF Over, Goal
  <2>4. CASE j # from[b] \/ c \notin list[j]
    <3>1. c \in ids[j] \ list[j]
      BY <2>1, <2>4
    <3> QED
      BY <2>1, <2>2, <3>1 DEF ListInv, Kept, Goal, IsLast
  <2> QED
    BY <2>3, <2>4
<1>13. ASSUME NEW b \in Bookmarks, Delete(b) PROVE Goal
  <2>1. /\ UNCHANGED <<task, ids, list, stale>> /\ j \notin mishap /\ from[b] # j
        /\ \A d \in Bookmarks : d # b => row'[d] = row[d]
    BY <1>13 DEF Delete, RangeOK
  <2>2. \A d \in ids[j] : d \in Bookmarks /\ d # b
    BY <2>1 DEF LinkOK, RangeOK
  <2>3. Kept(j)
    BY <2>1, <2>2 DEF Kept, Over
  <2> QED
    BY <1>b, <2>1, <2>3
<1>14. CASE Crash
  BY <1>14 DEF Crash
<1>15. CASE UNCHANGED vars
  <2>1. UNCHANGED <<task, ids, list, row, stale, mishap>>
    BY <1>15 DEF vars
  <2> QED
    BY <1>b, <2>1, KeptRows DEF Goal
<1> QED
  BY <1>1, <1>2, <1>3, <1>4, <1>5, <1>6, <1>7, <1>8, <1>9, <1>10, <1>11,
     <1>12, <1>13, <1>14, <1>15
  DEF Next, ImportStep, ExtractStep, Goal

\* A step that leaves a reader alone leaves it a reader.
LEMMA ReaderFrame ==
    ASSUME NEW i \in Imports, NEW b \in ids[i], Reader(b),
           Kept(i), WorkOf(i, b), ex'[b] = ex[b], seen'[b] = seen[b]
    PROVE  Reader(b)'
<1>1. ex[b] = "counting" => \A d \in seen[b] : Over(d) => Over(d)'
  BY DEF WorkOf, Kept
<1> QED
  BY <1>1 DEF Reader

\* Every step leaves the list a reader: when one finds a bookmark of the list
\* that is not settled, that bookmark's own extraction has still to read it.
LEMMA ReaderStep ==
    RangeOK /\ LinkOK /\ OriginInv /\ WorkInv /\ ReaderInv /\ [Next]_vars => ReaderInv'
<1> SUFFICES ASSUME RangeOK, LinkOK, OriginInv, WorkInv, ReaderInv, [Next]_vars,
                    NEW j \in Imports, j \notin mishap', j \notin late',
                    task'[j] \notin {"created", "launched"}, list'[j] # {}
              PROVE  \E c \in ids'[j] : Reader(c)'
  BY DEF ReaderInv
<1> USE ImportAssumption DEF extraction, history
<1> DEFINE Goal == \E c \in ids'[j] : Reader(c)'
<1>a. ASSUME j \notin mishap, j \notin late, list'[j] = list[j],
             task[j] \notin {"created", "launched"}
      PROVE  \E c \in ids[j] : /\ Reader(c) /\ WorkOf(j, c)
                               /\ c \in Bookmarks /\ from[c] = j
  <2>1. PICK c \in ids[j] : Reader(c)
    BY <1>a DEF ReaderInv
  <2>2. c \in Bookmarks /\ from[c] = j
    BY DEF LinkOK, RangeOK
  <2>3. WorkOf(j, c)
    BY <1>a DEF WorkInv
  <2> QED
    BY <2>1, <2>2, <2>3
<1>b. ASSUME j \notin mishap, j \notin late, list'[j] = list[j],
             task[j] \notin {"created", "launched"},
             ids'[j] = ids[j], Kept(j), UNCHANGED <<ex, seen>>
      PROVE  Goal
  BY <1>a, <1>b, ReaderFrame
<1> HIDE DEF Goal
<1>1. ASSUME NEW i \in Imports, Begin(i) PROVE Goal
  <2>1. /\ UNCHANGED <<ids, list, row, ex, seen, late, mishap>> /\ ids[i] = {}
        /\ j # i => task'[j] = task[j]
    BY <1>1 DEF Begin, OriginInv, RangeOK
  <2>2. j # i
    BY <2>1 DEF LinkOK
  <2> QED
    BY <1>b, <2>1, <2>2, KeptRows
<1>2. ASSUME NEW i \in Imports, Ignore(i) PROVE Goal
  <2>1. UNCHANGED <<task, ids, list, row, ex, seen, late, mishap>>
    BY <1>2 DEF Ignore
  <2> QED
    BY <1>b, <2>1, KeptRows
<1>3. ASSUME NEW i \in Imports, Check(i) PROVE Goal
  <2>1. /\ UNCHANGED <<ids, list, row, ex, seen, late, mishap>> /\ task[i] = "next"
        /\ j # i => task'[j] = task[j]
    BY <1>3 DEF Check, RangeOK
  <2> QED
    BY <1>b, <2>1, KeptRows
<1>4. ASSUME NEW i \in Imports, Create(i) PROVE Goal
  <2>0. /\ UNCHANGED <<list, ex, seen, late, mishap>> /\ task[i] = "checked"
        /\ j # i => task'[j] = task[j]
    BY <1>4 DEF Create, RangeOK
  <2>1. CASE /\ born < MaxBookmarks /\ born' = born + 1
             /\ ids' = [ids EXCEPT ![i] = @ \cup {born + 1}]
             /\ row' = [row EXCEPT ![born + 1] =
                           [state |-> "loading", url |-> Head(left[i]),
                            initial |-> Head(left[i])]]
             /\ task' = [task EXCEPT ![i] = "created"]
    <3>1. /\ \A b \in Bookmarks : b # born + 1 => row'[b] = row[b]
          /\ born + 1 \in Bookmarks /\ row[born + 1] = None
      BY <2>1 DEF RangeOK, LinkOK, Bookmarks
    <3>2. j # i /\ ids'[j] = ids[j]
      BY <2>1 DEF RangeOK
    <3>3. Kept(j)
      BY <3>1 DEF Kept, Over, RangeOK
    <3> QED
      BY <1>b, <2>0, <3>2, <3>3
  <2>2. CASE UNCHANGED <<born, row, from, ids>>
    <3>1. ids' = ids /\ row' = row
      BY <2>2
    <3> QED
      BY <1>b, <2>0, <3>1, KeptRows
  <2> QED
    BY <1>4, <2>1, <2>2, CreateCases
<1>5. ASSUME NEW i \in Imports, LaunchExtract(i) PROVE Goal
  <2>1. Current(i) \in Bookmarks /\ from[Current(i)] = i
    BY <1>5, LaunchedIsLast DEF IsLast, LinkOK
  <2>2. /\ UNCHANGED <<ids, list, seen, late>> /\ j \notin mishap
        /\ task'[i] = "launched" /\ (j # i => task'[j] = task[j])
        /\ \A c \in Bookmarks : c # Current(i) => ex'[c] = ex[c]
    BY <1>5 DEF LaunchExtract, RangeOK
  <2>3. Kept(j)
    BY <1>5, <2>1, LaunchEffect, KeptRows
  <2>4. j # i
    BY <2>2
  <2>5. PICK c \in ids[j] : /\ Reader(c) /\ WorkOf(j, c)
                            /\ c \in Bookmarks /\ from[c] = j
    BY <1>a, <2>2, <2>4
  <2>6. ex'[c] = ex[c] /\ seen'[c] = seen[c]
    BY <2>1, <2>2, <2>4, <2>5
  <2> QED
    BY <2>2, <2>3, <2>5, <2>6, ReaderFrame DEF Goal
<1>6. ASSUME NEW i \in Imports, Tell(i) PROVE Goal
  <2>1. /\ UNCHANGED <<ids, row, ex, seen>> /\ j \notin mishap
        /\ j # i => task'[j] = task[j] /\ list'[j] = list[j]
        /\ j \notin late /\ j # i
    BY <1>6 DEF Tell, RangeOK
  <2> QED
    BY <1>b, <2>1, KeptRows
<1>7. ASSUME NEW i \in Imports, EndOfItems(i) PROVE Goal
  <2>1. /\ UNCHANGED <<ids, row, ex, seen, late, mishap>> /\ task[i] = "next"
        /\ j # i => task'[j] = task[j]
        /\ list'[j] # {} => list'[j] = list[j]
    BY <1>7 DEF EndOfItems, RangeOK
  <2> QED
    BY <1>b, <2>1, KeptRows
<1>8. ASSUME NEW b \in Bookmarks, ExtractBegin(b) PROVE Goal
  <2>1. /\ UNCHANGED <<task, ids, list, row, seen, late, mishap>>
        /\ ex'[b] = "started"
        /\ \A c \in Bookmarks : c # b => ex'[c] = ex[c]
    BY <1>8 DEF ExtractBegin, RangeOK
  <2>2. PICK c \in ids[j] : /\ Reader(c) /\ WorkOf(j, c)
                            /\ c \in Bookmarks /\ from[c] = j
    BY <1>a, <2>1
  <2>3. CASE c = b
    BY <2>1, <2>2, <2>3 DEF Goal, Reader
  <2>4. CASE c # b
    BY <2>1, <2>2, <2>4, KeptRows, ReaderFrame DEF Goal
  <2> QED
    BY <2>3, <2>4
<1>9. ASSUME NEW b \in Bookmarks, ExtractSave(b) PROVE Goal
  <2>1. /\ UNCHANGED <<task, ids, list, seen, late>> /\ j \notin mishap
        /\ ex'[b] = "saved"
        /\ \A c \in Bookmarks : c # b => ex'[c] = ex[c]
    BY <1>9 DEF ExtractSave, RangeOK
  <2>2. PICK c \in ids[j] : /\ Reader(c) /\ WorkOf(j, c)
                            /\ c \in Bookmarks /\ from[c] = j
    BY <1>a, <2>1
  <2>3. CASE c = b
    BY <2>1, <2>2, <2>3 DEF Goal, Reader
  <2>4. CASE c # b
    <3>1. Kept(j)
      BY <1>9, SaveEffect, KeptRows
    <3> QED
      BY <2>1, <2>2, <2>4, <3>1, ReaderFrame DEF Goal
  <2> QED
    BY <2>3, <2>4
<1>10. ASSUME NEW b \in Bookmarks, ReadList(b) PROVE Goal
  <2>1. /\ UNCHANGED <<task, ids, list, row>> /\ j \notin mishap /\ ex[b] = "saved"
        /\ \A c \in Bookmarks : c # b => ex'[c] = ex[c] /\ seen'[c] = seen[c]
        /\ late' = late \ {from[b]}
        /\ \/ mishap' = mishap \cup {from[b]}
           \/ /\ seen'[b] = list[from[b]]
              /\ ex'[b] = IF list[from[b]] = {} THEN "clearing" ELSE "counting"
    BY <1>10 DEF ReadList, RangeOK
  <2>2. CASE from[b] = j
    <3>1. b \in ids[j] /\ ex'[b] = "counting" /\ seen'[b] = list[j]
      BY <2>1, <2>2 DEF LinkOK
    <3>2. CASE \A c \in list[j] : Over(c)
      <4>1. \A c \in list[j] : Over(c)'
        BY <2>1, <3>2 DEF Over
      <4> QED
        BY <2>1, <3>1, <4>1 DEF Goal, Reader
    <3>3. ASSUME NEW c \in list[j], ~ Over(c) PROVE Goal
      <4>1. c \in ids[j] /\ c \in Bookmarks /\ WorkOf(j, c)
        BY <2>1 DEF LinkOK, RangeOK, WorkInv
      <4>2. ex[c] \in {"queued", "started"}
        BY <2>1, <3>3, <4>1 DEF WorkOf, RangeOK, Stages
      <4>3. ex'[c] = ex[c]
        BY <2>1, <4>1, <4>2
      <4> QED
        BY <2>1, <4>1, <4>2, <4>3 DEF Goal, Reader
    <3> QED
      BY <3>2, <3>3
  <2>3. CASE from[b] # j
    <3>1. PICK c \in ids[j] : /\ Reader(c) /\ WorkOf(j, c)
                              /\ c \in Bookmarks /\ from[c] = j
      BY <1>a, <2>1, <2>3
    <3>2. ex'[c] = ex[c] /\ seen'[c] = seen[c]
      BY <2>1, <2>3, <3>1
    <3> QED
      BY <2>1, <3>1, <3>2, KeptRows, ReaderFrame DEF Goal
  <2> QED
    BY <2>2, <2>3
<1>11. ASSUME NEW b \in Bookmarks, Count(b) PROVE Goal
  <2>1. /\ UNCHANGED <<task, ids, list, row, late>> /\ j \notin mishap /\ ex[b] = "counting"
        /\ \A c \in Bookmarks : c # b => ex'[c] = ex[c] /\ seen'[c] = seen[c]
        /\ \/ mishap' = mishap \cup {from[b]}
           \/ Settled(seen[b]) # seen[b]
           \/ ex'[b] = "clearing"
    BY <1>11 DEF Count, RangeOK
  <2>2. PICK c \in ids[j] : /\ Reader(c) /\ WorkOf(j, c)
                            /\ c \in Bookmarks /\ from[c] = j
    BY <1>a, <2>1
  <2>3. CASE c = b
    <3>1. Settled(seen[b]) = seen[b]
      BY <2>1, <2>2, <2>3 DEF Reader, Settled, Over
    <3> QED
      BY <2>1, <2>2, <2>3, <3>1 DEF Goal, Reader
  <2>4. CASE c # b
    BY <2>1, <2>2, <2>4, KeptRows, ReaderFrame DEF Goal
  <2> QED
    BY <2>3, <2>4
<1>12. ASSUME NEW b \in Bookmarks, ClearList(b) PROVE Goal
  <2>1. /\ UNCHANGED <<task, ids, row, late>> /\ j \notin mishap
        /\ \A c \in Bookmarks : c # b => ex'[c] = ex[c] /\ seen'[c] = seen[c]
        /\ j # from[b] /\ list'[j] = list[j]
    BY <1>12 DEF ClearList, RangeOK
  <2>2. PICK c \in ids[j] : /\ Reader(c) /\ WorkOf(j, c)
                            /\ c \in Bookmarks /\ from[c] = j
    BY <1>a, <2>1
  <2>3. ex'[c] = ex[c] /\ seen'[c] = seen[c]
    BY <2>1, <2>2
  <2> QED
    BY <2>1, <2>2, <2>3, KeptRows, ReaderFrame DEF Goal
<1>13. ASSUME NEW b \in Bookmarks, Delete(b) PROVE Goal
  <2>1. /\ UNCHANGED <<task, ids, list, ex, seen, late>> /\ j \notin mishap /\ from[b] # j
        /\ \A d \in Bookmarks : d # b => row'[d] = row[d]
    BY <1>13 DEF Delete, RangeOK
  <2>2. \A d \in ids[j] : d \in Bookmarks /\ d # b
    BY <2>1 DEF LinkOK, RangeOK
  <2>3. Kept(j)
    BY <2>1, <2>2 DEF Kept, Over
  <2> QED
    BY <1>b, <2>1, <2>3
<1>14. CASE Crash
  BY <1>14 DEF Crash
<1>15. CASE UNCHANGED vars
  <2>1. UNCHANGED <<task, ids, list, row, ex, seen, late, mishap>>
    BY <1>15 DEF vars
  <2> QED
    BY <1>b, <2>1, KeptRows DEF Goal
<1> QED
  BY <1>1, <1>2, <1>3, <1>4, <1>5, <1>6, <1>7, <1>8, <1>9, <1>10, <1>11,
     <1>12, <1>13, <1>14, <1>15
  DEF Next, ImportStep, ExtractStep, Goal

-----------------------------------------------------------------------------
\* What holds in every state, mishap or not.
BaseInv == RangeOK /\ LinkOK /\ OriginInv /\ CheckedInv

LEMMA BaseInvariant == Spec => []BaseInv
<1>1. Init => BaseInv
  <2> SUFFICES ASSUME Init PROVE BaseInv
    OBVIOUS
  <2>1. CheckedInv
    BY DEF Init, CheckedInv
  <2> QED
    BY <2>1, InitTypes DEF BaseInv
<1>2. BaseInv /\ [Next]_vars => BaseInv'
  BY RangeStep, LinkStep, OriginStep, CheckedStep DEF BaseInv
<1> QED
  BY <1>1, <1>2, PTL DEF Spec

\* Each variable of the import and its extractions keeps its type, the list only
\* holds bookmarks the import created, and each bookmark belongs to the import
\* that created it (importer.Import, importExtractHandler).
THEOREM TypeCorrect == Spec => []TypeOK
<1>1. BaseInv => TypeOK
  BY TypeParts DEF BaseInv
<1> QED
  BY <1>1, BaseInvariant, PTL

\* "Ignore links that already exist" (docs/api/bookmarks/types.yaml:699), for any
\* number of imports, links, workers and mishaps: Import's query and the insertion
\* that follows it (importer.go createBookmark) are two steps, and no bookmark
\* that was there when the import began, or that it created, is created again.
THEOREM NoDuplicatesCorrect == Spec => []NoDuplicates
<1>1. Init => NoDuplicates
  BY DEF Init, NoDuplicates
<1>2. BaseInv /\ NoDuplicates /\ [Next]_vars => NoDuplicates'
  BY NoDuplicatesStep DEF BaseInv
<1> QED
  BY <1>1, <1>2, BaseInvariant, PTL DEF Spec

\* What holds of imports that met no mishap besides.
ProgressInv == BaseInv /\ WorkInv /\ ListInv /\ ReaderInv

LEMMA ProgressInvariant == Spec => []ProgressInv
<1>1. Init => BaseInv /\ WorkInv /\ ListInv /\ ReaderInv
  <2> SUFFICES ASSUME Init PROVE BaseInv /\ WorkInv /\ ListInv /\ ReaderInv
    OBVIOUS
  <2>1. CheckedInv /\ WorkInv /\ ListInv /\ ReaderInv
    BY DEF Init, CheckedInv, WorkInv, ListInv, ReaderInv
  <2> QED
    BY <2>1, InitTypes DEF BaseInv
<1>2. ProgressInv /\ [Next]_vars => ProgressInv'
  BY RangeStep, LinkStep, OriginStep, CheckedStep, WorkStep, ListStep, ReaderStep
  DEF BaseInv, ProgressInv
<1> QED
  BY <1>1, <1>2, PTL DEF Spec, ProgressInv

\* When nothing is left to do for an import that met no mishap, its progress is
\* reported as complete (NewImportProgress), however many bookmarks it has and in
\* whatever order its extractions ended.
THEOREM EndIsReportedCorrect == Spec => []EndIsReported
<1>1. ProgressInv => EndIsReported
  <2> SUFFICES ASSUME ProgressInv, NEW i \in Imports, i \notin mishap, Quiet(i),
                      NEW b \in list[i]
               PROVE  row[b] # None /\ row[b].state # "loading"
    BY DEF EndIsReported, Status, Settled
  <2>1. b \in ids[i] /\ WorkOf(i, b)
    BY DEF ProgressInv, BaseInv, LinkOK, WorkInv
  <2>2. ex[b] = "done"
    BY <2>1 DEF Quiet, WorkOf
  <2> QED
    BY <2>1, <2>2 DEF WorkOf, Over
<1> QED
  BY <1>1, ProgressInvariant, PTL

\* "Import is finished!" (routes/x-import.templ:171) is shown too early only to
\* an import that met a mishap, or whose list was removed by an extraction that
\* had read an older one: the race of importExtractHandler with f(ids) is the only
\* way.
THEOREM FinishedIsTrueCorrect == Spec => []FinishedIsTrue
<1>1. ProgressInv => FinishedIsTrue
  <2> SUFFICES ASSUME ProgressInv, NEW i \in Imports, i \notin mishap \cup stale,
                      Finished(i), NEW b \in ids[i]
               PROVE  row[b] # None /\ row[b].state # "loading"
    BY DEF FinishedIsTrue, Settled
  <2>1. CASE b \in list[i]
    BY <2>1 DEF Finished, Status, Settled
  <2>2. CASE b \notin list[i]
    <3>1. Over(b)
      BY <2>2 DEF ProgressInv, ListInv, Finished
    <3> QED
      BY <3>1 DEF Over
  <2> QED
    BY <2>1, <2>2
<1> QED
  BY <1>1, ProgressInvariant, PTL

\* Both together: for an import that met no mishap, the progress that
\* NewImportProgress computes is complete when nothing is left to do, and, once the
\* task is over, only then, but for the race of the list.
THEOREM ProgressCorrect == Spec => []ProgressIsTrue
<1>1. EndIsReported /\ FinishedIsTrue => ProgressIsTrue
  BY DEF ProgressIsTrue
<1> QED
  BY <1>1, EndIsReportedCorrect, FinishedIsTrueCorrect, PTL

\* The list in the key/value store, which never expires, is gone when the work of
\* an import without mishap is over, once an extraction has read its last value.
THEOREM ListIsRemovedCorrect == Spec => []ListIsRemoved
<1>1. ProgressInv => ListIsRemoved
  <2> SUFFICES ASSUME ProgressInv, NEW i \in Imports, i \notin mishap \cup late,
                      Quiet(i), list[i] # {}
               PROVE  FALSE
    BY DEF ListIsRemoved
  <2>1. PICK b \in ids[i] : Reader(b)
    BY DEF ProgressInv, ReaderInv, Quiet
  <2> QED
    BY <2>1 DEF Reader, Quiet
<1> QED
  BY <1>1, ProgressInvariant, PTL

=============================================================================
