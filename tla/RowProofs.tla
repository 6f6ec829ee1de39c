----------------------------- MODULE RowProofs -----------------------------
(***************************************************************************)
(* What is certain of the columns of a bookmark's row, for any values of   *)
(* the constants.  Columns: a client that follows the log of changes, any  *)
(* bookmarks, labels, annotations and requests.  Annotations: the list in  *)
(* one of these columns, put back on any article, with any number of       *)
(* annotations and of requests that overlap.                               *)
(***************************************************************************)
EXTENDS Columns, Annotations, Integers, WellFoundedInduction,
        FiniteSetTheorems, SequenceTheorems, TLAPS

-----------------------------------------------------------------------------
(* Requests that begin.                                                    *)

\* The request of q begins as x: it is for bookmarks that are there, or for
\* one that never was and that no other request has.
Begun(q, x) ==
    /\ req[q] = None
    /\ req' = [req EXCEPT ![q] = x]
    /\ x \in Request /\ x.at = None
    /\ \A b \in Bookmarks : x.value[b] \subseteq Values(x.col)
    /\ x.col \in Cols => x.ids \subseteq Rows
    /\ x.col = "new" => /\ \A b \in x.ids : row[b] = None /\ removed[b] = None
                /\ \A p \in Requests : req[p] # None => x.ids \cap req[p].ids = {}
    /\ UNCHANGED <<row, removed, now, client, late>>

\* A request is served that had not begun.
Begins ==
    \/ \E q \in Requests, b \in Bookmarks, add \in SUBSET Labels :
          Create(q, b, add) \/ \E del \in SUBSET Labels : Patch(q, b, del, add)
    \/ \E q \in Requests, b \in Bookmarks, n \in Notes :
          AddNote(q, b, n) \/ UpdateNote(q, b, n) \/ DeleteNote(q, b, n)
    \/ \E q \in Requests, old \in Labels, add \in {{}} \cup {{l} : l \in Labels} :
          Rename(q, old, add)

\* What the handlers share.
LEMMA BeginIsBegun ==
  ASSUME TypeOK, NEW q \in Requests, NEW col \in Cols \cup {"new"}, NEW ids \in SUBSET Bookmarks,
         NEW del, NEW add \in SUBSET Values(col),
         Begin(q, col, ids, del, add),
         col \in Cols => ids \subseteq Rows,
         col = "new" => /\ \A b \in ids : row[b] = None /\ removed[b] = None
                /\ \A p \in Requests : req[p] # None => ids \cap req[p].ids = {}
  PROVE  \E x \in Request : Begun(q, x)
<1> DEFINE Was(b) == IF col \in Cols THEN row[b][col] ELSE {}
           val == [b \in Bookmarks |-> IF b \in ids THEN (Was(b) \ del) \cup add ELSE {}]
           x == [col |-> col, ids |-> ids, at |-> None, value |-> val]
<1>1. \A b \in ids : Was(b) \subseteq Values(col)
  BY DEF TypeOK, Rows, Row, Cols, Values
<1>2. \A b \in Bookmarks : val[b] \subseteq Values(col)
  BY <1>1
<1>3. Values(col) \subseteq Labels \cup Notes
  BY DEF Values
<1>4. val \in [Bookmarks -> SUBSET (Labels \cup Notes)]
  BY <1>1, <1>3
<1>5. x \in Request
  BY <1>4 DEF Request
<1>6. req[q] = None /\ req' = [req EXCEPT ![q] = x]
      /\ UNCHANGED <<row, removed, now, client, late>>
  BY DEF Begin
<1> HIDE DEF val
<1>7. x.at = None /\ x.value = val /\ x.col = col /\ x.ids = ids
  OBVIOUS
<1>8. Begun(q, x)
  BY <1>2, <1>5, <1>6, <1>7 DEF Begun
<1> QED
  BY <1>5, <1>8

\* Each handler is one of them.
LEMMA BeginsAreBegun ==
  ASSUME TypeOK, Begins
  PROVE  \E q \in Requests, x \in Request : Begun(q, x)
<1> USE DEF Cols
<1> "labels" \in Cols /\ "notes" \in Cols /\ Values("labels") = Labels /\ Values("new") = Labels /\ Values("notes") = Notes
  BY DEF Values
<1>1. ASSUME NEW q \in Requests, NEW b \in Bookmarks, NEW add \in SUBSET Labels,
             Create(q, b, add)
      PROVE  \E x \in Request : Begun(q, x)
  <2> DEFINE ids == {b}
  <2>1. /\ ids \in SUBSET Bookmarks
        /\ \A c \in ids : row[c] = None /\ removed[c] = None
        /\ \A p \in Requests : req[p] # None => ids \cap req[p].ids = {}
        /\ Begin(q, "new", ids, {}, add)
    BY <1>1 DEF Create
  <2> HIDE DEF ids
  <2> QED
    BY <2>1, BeginIsBegun
<1>2. ASSUME NEW q \in Requests, NEW b \in Bookmarks, NEW add \in SUBSET Labels,
             NEW del \in SUBSET Labels, Patch(q, b, del, add)
      PROVE  \E x \in Request : Begun(q, x)
  <2> DEFINE ids == {b}
  <2>1. ids \in SUBSET Bookmarks /\ ids \subseteq Rows /\ Begin(q, "labels", ids, del, add)
    BY <1>2 DEF Patch
  <2> HIDE DEF ids
  <2> QED
    BY <2>1, BeginIsBegun
<1>3. ASSUME NEW q \in Requests, NEW b \in Bookmarks, NEW n \in Notes,
             AddNote(q, b, n) \/ UpdateNote(q, b, n) \/ DeleteNote(q, b, n)
      PROVE  \E x \in Request : Begun(q, x)
  <2> DEFINE ids == {b}
  <2>1. PICK del, add \in SUBSET Notes : Begin(q, "notes", ids, del, add)
    BY <1>3 DEF AddNote, UpdateNote, DeleteNote
  <2>2. ids \in SUBSET Bookmarks /\ ids \subseteq Rows
    BY <1>3 DEF AddNote, UpdateNote, DeleteNote
  <2> HIDE DEF ids
  <2> QED
    BY <2>1, <2>2, BeginIsBegun
<1>4. ASSUME NEW q \in Requests, NEW old \in Labels, NEW add \in SUBSET Labels,
             Rename(q, old, add)
      PROVE  \E x \in Request : Begun(q, x)
  <2> DEFINE ids == {b \in Rows : old \in row[b].labels}
  <2>1. ids \subseteq Rows /\ ids \in SUBSET Bookmarks
    BY DEF Rows
  <2>2. Begin(q, "labels", ids, {old} \ add, add)
    BY <1>4 DEF Rename
  <2> HIDE DEF ids
  <2> QED
    BY <2>1, <2>2, BeginIsBegun
<1>5. \A add \in {{}} \cup {{l} : l \in Labels} : add \in SUBSET Labels
  OBVIOUS
<1> QED
  BY <1>1, <1>2, <1>3, <1>4, <1>5 DEF Begins

\* The kinds of steps.
LEMMA Steps ==
  ASSUME TypeOK, [Next]_vars
  PROVE  \/ \E q \in Requests, x \in Request : Begun(q, x)
         \/ \E q \in Requests : Stamp(q) \/ Write(q) \/ Abort(q)
         \/ \E b \in Bookmarks : Delete(b)
         \/ Tick \/ AskList \/ Fetch \/ Lose
         \/ UNCHANGED vars
  BY BeginsAreBegun DEF Next, Serve, Begins

-----------------------------------------------------------------------------
(* Types.                                                                  *)

\* The row that a statement leaves.
LEMMA WrittenType ==
  ASSUME TypeOK, NEW q \in Requests, req[q] # None, req[q].at # None,
         NEW b \in Bookmarks, b \in Hit(q)
  PROVE  /\ Written(q, b) \in Row
         /\ Written(q, b).updated = req[q].at
<1>1. req[q] \in Request /\ req[q].at \in Times /\ req[q].value[b] \subseteq Values(req[q].col)
  BY DEF TypeOK, Request
<1>2. CASE req[q].col = "new"
  <2>1. req[q].value[b] \subseteq Labels
    BY <1>1, <1>2 DEF Values
  <2> QED
    BY <1>1, <1>2, <2>1 DEF Written, Row
<1>3. CASE req[q].col \in Cols
  <2>1. row[b] \in Row
    BY <1>3 DEF TypeOK, Hit, Rows, Cols
  <2>2. CASE req[q].col = "labels"
    BY <1>1, <2>1, <2>2 DEF Written, Row, Values
  <2>3. CASE req[q].col = "notes"
    BY <1>1, <2>1, <2>3 DEF Written, Row, Values
  <2> QED
    BY <1>3, <2>2, <2>3 DEF Cols
<1> QED
  BY <1>1, <1>2, <1>3 DEF Request

LEMMA WriteType ==
  ASSUME TypeOK, NEW q \in Requests, Write(q)
  PROVE  /\ row' \in [Bookmarks -> Row \cup {None}]
         /\ req' \in [Requests -> Request \cup {None}]
         /\ \A p \in Requests : req'[p] # None => p # q /\ req'[p] = req[p]
<1>1. \A b \in Hit(q) : b \in Bookmarks
  BY DEF Hit, TypeOK, Write, Request
<1>2. \A b \in Hit(q) : Written(q, b) \in Row
  BY <1>1, WrittenType DEF Write
<1> QED
  BY <1>2 DEF Write, TypeOK

\* The types are an invariant.
LEMMA TypeInit == Init => TypeOK
  BY ColumnsAssumption, NoneAssumption DEF Init, TypeOK, Times

LEMMA TypeStep == TypeOK /\ [Next]_vars => TypeOK'
<1> SUFFICES ASSUME TypeOK, [Next]_vars PROVE TypeOK'
  OBVIOUS
<1>1. ASSUME NEW q \in Requests, NEW x \in Request, Begun(q, x) PROVE TypeOK'
  BY <1>1, NoneAssumption DEF Begun, TypeOK, client
<1>2. ASSUME NEW q \in Requests, Stamp(q) PROVE TypeOK'
  <2>1. req[q] \in Request /\ now \in Times
    BY <1>2 DEF Stamp, TypeOK
  <2>2. [req[q] EXCEPT !.at = now] \in Request
    BY <2>1 DEF Request
  <2>3. req' = [req EXCEPT ![q] = [req[q] EXCEPT !.at = now]]
    BY <1>2 DEF Stamp
  <2>4. \A p \in Requests, b \in Bookmarks :
          req'[p] # None => req[p] # None /\ req'[p].value[b] = req[p].value[b]
                            /\ req'[p].col = req[p].col
    BY <1>2, <2>1, <2>3 DEF TypeOK, Request, Stamp
  <2>5. req' \in [Requests -> Request \cup {None}]
    BY <2>2, <2>3 DEF TypeOK
  <2>6. UNCHANGED <<row, removed, now, since, mirror, list, late>>
    BY <1>2 DEF Stamp, client
  <2> QED
    BY <2>4, <2>5, <2>6 DEF TypeOK
<1>3. ASSUME NEW q \in Requests, Write(q) PROVE TypeOK'
  <2>1. late' \subseteq Bookmarks
    BY <1>3 DEF Write, TypeOK, Hit, Request
  <2>2. UNCHANGED <<removed, now, since, mirror, list>>
    BY <1>3 DEF Write, client
  <2> QED
    BY <1>3, <2>1, <2>2, WriteType DEF TypeOK
<1>4. ASSUME NEW q \in Requests, Abort(q) PROVE TypeOK'
  BY <1>4 DEF Abort, TypeOK, client
<1>5. ASSUME NEW b \in Bookmarks, Delete(b) PROVE TypeOK'
  BY <1>5 DEF Delete, TypeOK, client
<1>6. CASE Tick
  BY <1>6, ColumnsAssumption DEF Tick, TypeOK, client, Times
<1>7. CASE AskList
  <2>1. /\ Updated(since) \subseteq Bookmarks /\ Deleted(since) \subseteq Bookmarks
        /\ \A b \in Updated(since) : row[b].updated \in Times
        /\ \A b \in Deleted(since) : removed[b] \in Times
    BY DEF Updated, Deleted, TypeOK, Rows, Row
  <2>2. PICK last \in Times :
          list' = [updates |-> Updated(since), deletes |-> Deleted(since), upto |-> last]
    BY <1>7, <2>1 DEF AskList, TypeOK
  <2>3. list' \in List
    BY <2>1, <2>2 DEF List
  <2> QED
    BY <1>7, <2>3 DEF AskList, TypeOK
<1>8. CASE Fetch
  <2>1. \A b \in Rows : Seen(b) \in Content
    BY DEF Rows, Seen, Content, TypeOK, Row
  <2>2. mirror' \in [Bookmarks -> Content \cup {None}]
    BY <1>8, <2>1 DEF Fetch, TypeOK
  <2>3. since' \in Times
    BY <1>8 DEF Fetch, TypeOK, List
  <2> QED
    BY <1>8, <2>2, <2>3 DEF Fetch, TypeOK
<1>9. CASE Lose
  BY <1>9 DEF Lose, TypeOK
<1>10. CASE UNCHANGED vars
  BY <1>10 DEF vars, TypeOK
<1> QED
  BY <1>1, <1>2, <1>3, <1>4, <1>5, <1>6, <1>7, <1>8, <1>9, <1>10, Steps

\* Rows, requests, lists and what the client has keep their types, and a
\* request has the values of the column that it writes.
THEOREM TypeCorrect == Spec => []TypeOK
  BY TypeInit, TypeStep, PTL DEF Spec

-----------------------------------------------------------------------------
(* The inductive invariant, part by part.                                  *)

\* Every time in the system is one that the clock has shown.
Clocked ==
    /\ now >= 1 /\ since <= now
    /\ \A b \in Rows : 1 <= row[b].updated /\ row[b].updated <= now
    /\ \A b \in Bookmarks : removed[b] # None => 1 <= removed[b] /\ removed[b] <= now
    /\ \A q \in Requests :
          req[q] # None /\ req[q].at # None => 1 <= req[q].at /\ req[q].at <= now
    /\ list # None => since <= list.upto /\ list.upto <= now

\* A bookmark that was deleted is not there, and one that is being made was
\* not there before; no other request has it.
Once ==
    /\ \A b \in Bookmarks : removed[b] # None => row[b] = None
    /\ \A q \in Requests : req[q] # None /\ req[q].col = "new" =>
          /\ \A b \in req[q].ids : row[b] = None /\ removed[b] = None
          /\ \A p \in Requests \ {q} : req[p] # None => req[q].ids \cap req[p].ids = {}

\* Until it is told of something, the client has nothing.
First ==
    /\ since = 0 => \A b \in Bookmarks : mirror[b] = None
    /\ list # None /\ list.upto = 0 => list.updates = {} /\ list.deletes = {}

\* What the client has not got of b is in a list from t on.
Listed(t, b) == mirror[b] # Seen(b) => b \in Updated(t) \cup Deleted(t)

\* The list that the client works on has everything that a list from its last
\* time on would not have.
ListIsWhole ==
    list # None =>
        \A b \in Bookmarks :
            /\ b \in list.deletes => removed[b] # None
            /\ b \notin late =>
                  /\ b \notin list.updates \cup list.deletes => Listed(list.upto, b)
                  /\ b \in list.updates /\ b \notin Rows => b \in Deleted(list.upto)

\* The inductive invariant.
SyncInv == Clocked /\ Once /\ First /\ ListIsWhole /\ NothingIsMissed

LEMMA SyncInit == Init => SyncInv
  BY ColumnsAssumption, NoneAssumption
     DEF Init, SyncInv, Clocked, Once, First, ListIsWhole, NothingIsMissed, Rows, Seen, Times

LEMMA ClockedStep ==
  ASSUME TypeOK, Clocked, [Next]_vars
  PROVE  Clocked'
<1> USE DEF Clocked, Rows
<1>1. ASSUME NEW q \in Requests, NEW x \in Request, Begun(q, x) PROVE Clocked'
  BY <1>1 DEF Begun, TypeOK, client
<1>2. ASSUME NEW q \in Requests, Stamp(q) PROVE Clocked'
  <2>1. \A p \in Requests : req'[p] # None /\ req'[p].at # None =>
          \/ req[p] # None /\ req'[p] = req[p]
          \/ req'[p].at = now
    BY <1>2 DEF Stamp, TypeOK, Request
  <2>2. now <= now
    BY DEF TypeOK, Times
  <2> QED
    BY <1>2, <2>1, <2>2 DEF Stamp, client
<1>3. ASSUME NEW q \in Requests, Write(q) PROVE Clocked'
  <2>1. \A b \in Bookmarks : row'[b] # None =>
          \/ row[b] # None /\ row'[b] = row[b]
          \/ row'[b].updated = req[q].at
    BY <1>3, WrittenType DEF Write
  <2>2. 1 <= req[q].at /\ req[q].at <= now
    BY <1>3 DEF Write
  <2> QED
    BY <1>3, <2>1, <2>2, WriteType DEF Write, client
<1>4. ASSUME NEW q \in Requests, Abort(q) PROVE Clocked'
  BY <1>4 DEF Abort, TypeOK, client
<1>5. ASSUME NEW b \in Bookmarks, Delete(b) PROVE Clocked'
  <2>1. now <= now
    BY DEF TypeOK, Times
  <2> QED
    BY <1>5, <2>1 DEF Delete, TypeOK, client
<1>6. CASE Tick
  <2>1. now \in Nat /\ now' = now + 1 /\ now <= now'
    BY <1>6, ColumnsAssumption DEF Tick, TypeOK, Times
  <2>2. \A t \in Times : t <= now => t <= now'
    BY <2>1, ColumnsAssumption DEF Times
  <2>3. /\ since \in Times
        /\ \A b \in Rows : row[b].updated \in Times
        /\ \A b \in Bookmarks : removed[b] # None => removed[b] \in Times
        /\ \A q \in Requests : req[q] # None /\ req[q].at # None => req[q].at \in Times
        /\ list # None => list.upto \in Times
    BY DEF TypeOK, Row, Request, List
  <2>4. now' >= 1
    BY <2>1
  <2>5. UNCHANGED <<row, removed, req, since, list>>
    BY <1>6 DEF Tick, client
  <2> QED
    BY <2>2, <2>3, <2>4, <2>5
<1>7. CASE AskList
  <2> DEFINE times == {since} \cup {row[b].updated : b \in Updated(since)}
                              \cup {removed[b] : b \in Deleted(since)}
  <2>1. \A t \in times : t <= now
    BY DEF Updated, Deleted
  <2>2. PICK last \in times :
          /\ \A t \in times : t <= last
          /\ list' = [updates |-> Updated(since), deletes |-> Deleted(since), upto |-> last]
    BY <1>7 DEF AskList
  <2>3. since <= last /\ last <= now /\ list'.upto = last
    BY <2>1, <2>2
  <2> QED
    BY <1>7, <2>3 DEF AskList
<1>8. CASE Fetch
  BY <1>8 DEF Fetch
<1>9. CASE Lose
  BY <1>9 DEF Lose
<1>10. CASE UNCHANGED vars
  BY <1>10 DEF vars
<1> QED
  BY <1>1, <1>2, <1>3, <1>4, <1>5, <1>6, <1>7, <1>8, <1>9, <1>10, Steps

LEMMA OnceStep ==
  ASSUME TypeOK, Once, [Next]_vars
  PROVE  Once'
<1> USE DEF Once
<1>1. ASSUME NEW q \in Requests, NEW x \in Request, Begun(q, x) PROVE Once'
  <2>1. UNCHANGED <<row, removed>> /\ req'[q] = x
        /\ \A p \in Requests \ {q} : req'[p] = req[p]
    BY <1>1 DEF Begun, TypeOK
  <2>2. x.col \in Cols => \A p \in Requests :
          req[p] # None /\ req[p].col = "new" => req[p].ids \cap x.ids = {}
    BY <1>1 DEF Begun, Rows
  <2>3. x.col = "new" => \A p \in Requests :
          req[p] # None => x.ids \cap req[p].ids = {}
    BY <1>1 DEF Begun
  <2>4. x.col = "new" => \A b \in x.ids : row[b] = None /\ removed[b] = None
    BY <1>1 DEF Begun
  <2>5. x.col \in Cols \/ x.col = "new"
    BY DEF Request
  <2> QED
    BY <2>1, <2>2, <2>3, <2>4, <2>5
<1>2. ASSUME NEW q \in Requests, Stamp(q) PROVE Once'
  <2>1. \A p \in Requests : /\ req'[p] # None <=> req[p] # None
                            /\ req[p] # None => /\ req'[p].ids = req[p].ids
                                                /\ req'[p].col = req[p].col
    BY <1>2, NoneAssumption DEF Stamp, TypeOK, Request
  <2> QED
    BY <1>2, <2>1 DEF Stamp
<1>3. ASSUME NEW q \in Requests, Write(q) PROVE Once'
  <2>1. \A b \in Hit(q) : removed[b] = None
    BY <1>3 DEF Hit, Write, Rows
  <2>2. \A p \in Requests : req'[p] # None /\ req'[p].col = "new" =>
          \A b \in req'[p].ids : b \notin Hit(q)
    BY <1>3, WriteType DEF Hit, Rows, Write
  <2>3. \A b \in Bookmarks \ Hit(q) : row'[b] = row[b]
    BY <1>3 DEF Write
  <2>4. \A p \in Requests : req'[p] # None => req'[p].ids \subseteq Bookmarks
    BY <1>3, WriteType DEF TypeOK, Request
  <2> QED
    BY <1>3, <2>1, <2>2, <2>3, <2>4, WriteType DEF Write
<1>4. ASSUME NEW q \in Requests, Abort(q) PROVE Once'
  BY <1>4 DEF Abort, TypeOK
<1>5. ASSUME NEW b \in Bookmarks, Delete(b) PROVE Once'
  BY <1>5 DEF Delete, TypeOK, Rows
<1>6. CASE Tick \/ AskList \/ Fetch \/ Lose \/ UNCHANGED vars
  BY <1>6 DEF Tick, AskList, Fetch, Lose, vars
<1> QED
  BY <1>1, <1>2, <1>3, <1>4, <1>5, <1>6, Steps

LEMMA FirstStep ==
  ASSUME TypeOK, Clocked, First, [Next]_vars
  PROVE  First'
<1> USE DEF First
<1>1. ASSUME UNCHANGED client PROVE First'
  BY <1>1 DEF client
<1>2. CASE AskList
  <2> DEFINE times == {since} \cup {row[b].updated : b \in Updated(since)}
                              \cup {removed[b] : b \in Deleted(since)}
  <2>1. PICK last \in times :
          /\ \A t \in times : t <= last
          /\ list' = [updates |-> Updated(since), deletes |-> Deleted(since), upto |-> last]
    BY <1>2 DEF AskList
  <2>2. /\ \A b \in Updated(since) : 1 <= row[b].updated /\ row[b].updated \in Times
        /\ \A b \in Deleted(since) : 1 <= removed[b] /\ removed[b] \in Times
    BY DEF Clocked, Updated, Deleted, TypeOK, Rows, Row
  <2>3. last = 0 => Updated(since) = {} /\ Deleted(since) = {}
    <3>1. ASSUME last = 0, NEW b \in Updated(since) PROVE FALSE
      <4>1. row[b].updated <= 0
        BY <2>1, <3>1
      <4> QED
        BY <2>2, <3>1, <4>1 DEF Times
    <3>2. ASSUME last = 0, NEW b \in Deleted(since) PROVE FALSE
      <4>1. removed[b] <= 0
        BY <2>1, <3>2
      <4> QED
        BY <2>2, <3>2, <4>1 DEF Times
    <3> QED
      BY <3>1, <3>2
  <2> QED
    BY <1>2, <2>1, <2>3 DEF AskList
<1>3. CASE Fetch
  <2>1. since' = list.upto /\ list' = None /\ list # None /\ list.upto \in Times /\ since \in Times
    BY <1>3 DEF Fetch, TypeOK, List
  <2>2. list.upto = 0 => since = 0
    BY <2>1, ColumnsAssumption DEF Clocked, Times
  <2>3. list.upto = 0 => mirror' = [b \in Bookmarks |-> mirror[b]]
    BY <1>3, <2>1 DEF Fetch
  <2> QED
    BY <2>1, <2>2, <2>3
<1>4. CASE Lose
  BY <1>4 DEF Lose
<1>5. \A q \in Requests, x \in Request : Begun(q, x) => UNCHANGED client
  BY DEF Begun
<1>6. \A q \in Requests : Stamp(q) \/ Write(q) \/ Abort(q) => UNCHANGED client
  BY DEF Stamp, Write, Abort
<1>7. \A b \in Bookmarks : Delete(b) => UNCHANGED client
  BY DEF Delete
<1>8. Tick \/ UNCHANGED vars => UNCHANGED client
  BY DEF Tick, vars, client
<1> QED
  BY <1>1, <1>2, <1>3, <1>4, <1>5, <1>6, <1>7, <1>8, Steps

-----------------------------------------------------------------------------
(* Nothing is missed.                                                      *)

\* What a step of the server does to one bookmark.
Stays(b) == /\ row'[b] = row[b] /\ removed'[b] = removed[b]
            /\ b \in late => b \in late'
Changes(b) == /\ row'[b] # None /\ row'[b].updated \in Times
              /\ removed[b] = None /\ removed'[b] = None
              /\ b \notin late' => ~ Told(row'[b].updated)
Goes(b) == /\ row[b] # None /\ row'[b] = None
           /\ removed'[b] = now

LEMMA ServerMoves ==
  ASSUME TypeOK, Once, [Next]_vars, ~ AskList, ~ Fetch, ~ Lose
  PROVE  /\ UNCHANGED client
         /\ \A b \in Bookmarks : Stays(b) \/ Changes(b) \/ Goes(b)
<1> USE DEF Stays, Changes, Goes
<1>1. ASSUME NEW q \in Requests, Write(q)
      PROVE  \A b \in Bookmarks : Stays(b) \/ Changes(b) \/ Goes(b)
  <2> SUFFICES ASSUME NEW b \in Bookmarks PROVE Stays(b) \/ Changes(b)
    OBVIOUS
  <2>1. CASE b \in Hit(q)
    <3>1. row'[b] = Written(q, b) /\ removed'[b] = removed[b]
      BY <1>1, <2>1 DEF Write, TypeOK
    <3>2. Written(q, b) \in Row /\ Written(q, b).updated = req[q].at
      BY <1>1, <2>1, WrittenType DEF Write
    <3>3. Written(q, b).updated \in Times /\ Written(q, b) # None
      BY <3>2, NoneAssumption DEF Row
    <3>4. removed[b] = None
      BY <1>1, <2>1 DEF Once, Hit, Rows, Write
    <3>5. b \notin late' => ~ Told(req[q].at)
      BY <1>1, <2>1 DEF Write
    <3> QED
      BY <3>1, <3>2, <3>3, <3>4, <3>5
  <2>2. CASE b \notin Hit(q)
    BY <1>1, <2>2 DEF Write
  <2> QED
    BY <2>1, <2>2
<1>2. ASSUME NEW c \in Bookmarks, Delete(c)
      PROVE  \A b \in Bookmarks : Stays(b) \/ Changes(b) \/ Goes(b)
  BY <1>2 DEF Delete, TypeOK, Rows
<1>3. \A q \in Requests, x \in Request : Begun(q, x) =>
        UNCHANGED client /\ \A b \in Bookmarks : Stays(b)
  BY DEF Begun
<1>4. \A q \in Requests : Stamp(q) \/ Abort(q) =>
        UNCHANGED client /\ \A b \in Bookmarks : Stays(b)
  BY DEF Stamp, Abort
<1>5. /\ \A q \in Requests : Write(q) => UNCHANGED client
      /\ \A b \in Bookmarks : Delete(b) => UNCHANGED client
  BY DEF Write, Delete
<1>6. Tick \/ UNCHANGED vars => UNCHANGED client /\ \A b \in Bookmarks : Stays(b)
  BY DEF Tick, vars, client
<1> QED
  BY <1>1, <1>2, <1>3, <1>4, <1>5, <1>6, Steps

LEMMA MovedIsListed ==
  ASSUME TypeOK, Clocked, NEW b \in Bookmarks, NEW t \in Times, t <= now,
         UNCHANGED client, since <= t,
         t = 0 => mirror[b] = None,
         \/ Stays(b) /\ (b \notin late => Listed(t, b))
         \/ Changes(b) /\ (\A u \in Times : ~ Told(u) => u >= t)
         \/ Goes(b),
         b \notin late'
  PROVE  Listed(t, b)'
<1> USE DEF Listed, client
<1>1. CASE Stays(b) /\ (b \notin late => Listed(t, b))
  BY <1>1 DEF Stays, Seen, Updated, Deleted, Rows
<1>2. CASE Changes(b) /\ (\A u \in Times : ~ Told(u) => u >= t)
  BY <1>2 DEF Changes, Updated, Rows
<1>3. CASE Goes(b)
  <2>1. CASE t = 0
    BY <1>3, <2>1 DEF Goes, Seen
  <2>2. CASE t # 0
    <3>1. removed'[b] >= t /\ removed'[b] # None
      BY <1>3, NoneAssumption, ColumnsAssumption DEF Goes, TypeOK, Times
    <3> QED
      BY <2>2, <3>1 DEF Deleted
  <2> QED
    BY <2>1, <2>2
<1> QED
  BY <1>1, <1>2, <1>3

LEMMA ListedStep ==
  ASSUME TypeOK, SyncInv, [Next]_vars
  PROVE  NothingIsMissed' /\ ListIsWhole'
<1> USE DEF SyncInv
<1>0. since \in Times /\ since <= now
      /\ (list # None => list \in List /\ list.upto \in Times /\ since <= list.upto
                         /\ list.upto <= now)
  BY DEF TypeOK, List, Clocked
<1>1. ASSUME ~ AskList, ~ Fetch, ~ Lose PROVE NothingIsMissed' /\ ListIsWhole'
  <2>1. UNCHANGED client /\ \A b \in Bookmarks : Stays(b) \/ Changes(b) \/ Goes(b)
    BY <1>1, ServerMoves
  <2>2. \A u \in Times : ~ Told(u) => u >= since /\ (list # None => u >= list.upto)
    BY <1>0, ColumnsAssumption DEF Told, Times
  <2>3. \A b \in Bookmarks : b \notin late => Listed(since, b)
    BY DEF NothingIsMissed, Listed
  <2>4. ASSUME NEW b \in Bookmarks, b \notin late' PROVE Listed(since, b)'
    <3>1. since = 0 => mirror[b] = None
      BY DEF First
    <3>2. since <= since
      BY <1>0 DEF Times
    <3>3. PICK t \in Times : t = since
      BY <1>0
    <3>4. Listed(t, b)'
      BY <1>0, <2>1, <2>2, <2>3, <2>4, <3>1, <3>2, <3>3, MovedIsListed
    <3> QED
      BY <2>1, <3>3, <3>4 DEF Listed, Updated, Deleted, client
  <2>5. NothingIsMissed'
    BY <2>1, <2>4 DEF NothingIsMissed, Listed, client
  <2>6. ASSUME list # None, NEW b \in Bookmarks
        PROVE  /\ b \in list.deletes => removed'[b] # None
               /\ b \notin late' =>
                     /\ b \notin list.updates \cup list.deletes => Listed(list.upto, b)'
                     /\ b \in list.updates /\ row'[b] = None => removed'[b] # None
                           /\ removed'[b] >= list.upto /\ list.upto # 0
    <3>1. list.upto = 0 => mirror[b] = None /\ list.updates = {}
      BY <1>0, <2>6, ColumnsAssumption DEF First, Times
    <3>2. b \in list.deletes => removed'[b] # None
      BY <2>1, <2>6, NoneAssumption DEF ListIsWhole, Stays, Changes, Goes, Once, TypeOK, Times
    <3>3. ASSUME b \notin late', b \notin list.updates \cup list.deletes
          PROVE  Listed(list.upto, b)'
      <4>1. b \notin late => Listed(list.upto, b)
        BY <2>6, <3>3 DEF ListIsWhole
      <4>2. PICK t \in Times : t = list.upto
        BY <1>0, <2>6
      <4>3. Listed(t, b)'
        BY <1>0, <2>1, <2>2, <2>6, <3>1, <3>3, <4>1, <4>2, MovedIsListed
      <4> QED
        BY <2>1, <4>2, <4>3 DEF Listed, Updated, Deleted, client
    <3>4. ASSUME b \notin late', b \in list.updates, row'[b] = None
          PROVE  removed'[b] # None /\ removed'[b] >= list.upto /\ list.upto # 0
      <4>1. CASE Stays(b)
        BY <2>6, <3>4, <4>1 DEF Stays, ListIsWhole, Rows, Deleted
      <4>2. CASE Goes(b)
        BY <1>0, <2>6, <3>1, <3>4, <4>2, NoneAssumption, ColumnsAssumption
           DEF Goes, TypeOK, Times
      <4> QED
        BY <2>1, <3>4, <4>1, <4>2 DEF Changes
    <3> QED
      BY <3>2, <3>3, <3>4
  <2>7. list' = list /\ Bookmarks = Bookmarks
    BY <2>1 DEF client
  <2>8. ListIsWhole'
    <3>1. ASSUME list' # None, NEW b \in Bookmarks
          PROVE  /\ b \in list'.deletes => removed'[b] # None
                 /\ b \notin late' =>
                       /\ b \notin list'.updates \cup list'.deletes =>
                             Listed(list.upto, b)'
                       /\ b \in list'.updates /\ b \notin Rows' => b \in Deleted(list.upto)'
      BY <2>6, <2>7, <3>1 DEF Rows, Deleted
    <3> QED
      BY <3>1 DEF ListIsWhole
  <2> QED
    BY <2>5, <2>8
<1>2. CASE AskList
  <2>1. UNCHANGED <<row, removed, since, mirror, late>>
    BY <1>2 DEF AskList
  <2>2. NothingIsMissed'
    BY <2>1 DEF NothingIsMissed, Seen, Updated, Deleted, Rows
  <2>3. list'.updates = Updated(since) /\ list'.deletes = Deleted(since)
    BY <1>2 DEF AskList
  <2>4. ASSUME NEW b \in Bookmarks
        PROVE  /\ b \in list'.deletes => removed'[b] # None
               /\ b \in list'.updates => row'[b] # None
               /\ b \notin late' /\ b \notin list'.updates \cup list'.deletes =>
                     mirror'[b] = Seen(b)'
    BY <2>1, <2>3 DEF NothingIsMissed, Updated, Deleted, Rows, Seen
  <2>5. ListIsWhole'
    BY <2>4 DEF ListIsWhole, Listed, Rows
  <2> QED
    BY <2>2, <2>5
<1>3. CASE Fetch
  <2>1. /\ list # None /\ list' = None /\ since' = list.upto
        /\ UNCHANGED <<row, removed, late>>
        /\ mirror' = [b \in Bookmarks |->
                        IF b \in list.deletes THEN None
                        ELSE IF b \in list.updates \cap Rows THEN Seen(b) ELSE mirror[b]]
    BY <1>3 DEF Fetch
  <2>2. ASSUME NEW b \in Bookmarks \ late, mirror'[b] # Seen(b)
        PROVE  b \in Updated(list.upto) \cup Deleted(list.upto)
    <3>1. CASE b \in list.deletes
      BY <2>1, <2>2, <3>1 DEF ListIsWhole, Once, Seen
    <3>2. CASE b \notin list.deletes /\ b \in list.updates \cap Rows
      BY <2>1, <2>2, <3>2
    <3>3. CASE b \notin list.deletes /\ b \in list.updates /\ b \notin Rows
      BY <2>1, <2>2, <3>3 DEF ListIsWhole
    <3>4. CASE b \notin list.deletes /\ b \notin list.updates
      BY <2>1, <2>2, <3>4 DEF ListIsWhole, Listed
    <3> QED
      BY <3>1, <3>2, <3>3, <3>4
  <2>3. NothingIsMissed'
    BY <2>1, <2>2 DEF NothingIsMissed, Seen, Updated, Deleted, Rows
  <2> QED
    BY <2>1, <2>3 DEF ListIsWhole
<1>4. CASE Lose
  BY <1>4 DEF Lose, NothingIsMissed, ListIsWhole, Seen, Updated, Deleted, Rows
<1> QED
  BY <1>1, <1>2, <1>3, <1>4

LEMMA SyncStep == TypeOK /\ SyncInv /\ [Next]_vars => SyncInv'
  BY ClockedStep, OnceStep, FirstStep, ListedStep DEF SyncInv

LEMMA SyncAlways == Spec => [](TypeOK /\ SyncInv)
  BY TypeInit, TypeStep, SyncInit, SyncStep, PTL DEF Spec

\* What the client has not got of a bookmark is in the next list that it asks
\* for, unless the change was written with a time that the client was past.
THEOREM SyncMissesNothing == Spec => []NothingIsMissed
  BY SyncAlways, PTL DEF SyncInv

\* A column of a bookmark only changes by a request that read this column.
THEOREM ColumnsAreApart == Spec => NothingElseIsLost
<1>1. TypeOK /\ SyncInv /\ [Next]_vars =>
        [\A b \in Rows, col \in Cols :
            row'[b] # None /\ row'[b][col] # row[b][col] =>
                \E q \in Requests : /\ req[q] # None /\ req'[q] = None
                                    /\ b \in req[q].ids /\ col = req[q].col]_vars
  <2> SUFFICES ASSUME TypeOK, Once, [Next]_vars,
                      NEW b \in Rows, NEW col \in Cols,
                      row'[b] # None, row'[b][col] # row[b][col]
               PROVE  \E q \in Requests : /\ req[q] # None /\ req'[q] = None
                                          /\ b \in req[q].ids /\ col = req[q].col
    BY DEF SyncInv
  <2>1. ASSUME NEW q \in Requests, Write(q)
        PROVE  req[q] # None /\ req'[q] = None /\ b \in req[q].ids /\ col = req[q].col
    <3>1. b \in Hit(q) /\ row'[b] = Written(q, b)
      BY <2>1 DEF Write, Rows
    <3>2. req[q].col # "new"
      BY <2>1, <3>1 DEF Once, Hit, Rows, Write
    <3>3. row[b] \in Row /\ req[q].col \in Cols
      BY <2>1, <3>2 DEF TypeOK, Rows, Write, Request
    <3>4. col # req[q].col => Written(q, b)[col] = row[b][col]
      BY <3>2, <3>3 DEF Written, Row, Cols
    <3> QED
      BY <2>1, <3>1, <3>4 DEF Write, TypeOK, Hit
  <2>2. ASSUME NEW c \in Bookmarks, Delete(c) PROVE FALSE
    BY <2>2 DEF Delete, TypeOK, Rows
  <2>3. ASSUME UNCHANGED row PROVE FALSE
    BY <2>3
  <2> QED
    BY <2>1, <2>2, <2>3, Steps DEF Begun, Stamp, Abort, Tick, AskList, Fetch, Lose, vars
<1> QED
  BY <1>1, SyncAlways, PTL DEF Spec, NothingElseIsLost

(* Induction. *)
Below == {p \in Nat \X Nat : p[1] < p[2]}

\* The order of the numbers is well founded; the two lemmas after it say what that gives.
LEMMA NoDescent == IsWellFoundedOn(Below, Nat)
  BY NatLessThanWellFounded DEF OpToRel, Below

\* A set of numbers has a least one.
LEMMA Least ==
    ASSUME NEW S, S \subseteq Nat, S # {}
    PROVE  \E x \in S : \A y \in S : x <= y
<1>1. \E x \in S : \A y \in S : <<y, x>> \notin Below
  BY NoDescent, WFMin
<1>2. PICK x \in S : \A y \in S : <<y, x>> \notin Below
  BY <1>1
<1>3. ASSUME NEW y \in S PROVE x <= y
  <2>1. x \in Nat /\ y \in Nat
    OBVIOUS
  <2>2. <<y, x>> \in Nat \X Nat /\ <<y, x>>[1] = y /\ <<y, x>>[2] = x
    BY <2>1
  <2>3. ~ (y < x)
    BY <1>2, <2>2 DEF Below
  <2> QED BY <2>1, <2>3
<1> QED BY <1>3

\* A set that has 0, and n + 1 with each n, has all numbers up to m.
LEMMA Induct ==
    ASSUME NEW m \in Nat, NEW S, 0 \in S, \A n \in 0 .. (m - 1) : n \in S => n + 1 \in S
    PROVE  0 .. m \subseteq S
<1> DEFINE Miss == (0 .. m) \ S
<1> SUFFICES ASSUME Miss # {} PROVE FALSE
  OBVIOUS
<1>1. PICK x \in Miss : \A y \in Miss : x <= y
  <2> HIDE DEF Miss
  <2>1. Miss \subseteq Nat
    BY DEF Miss
  <2> QED BY <2>1, Least
<1>2. x \in 0 .. m /\ x # 0
  BY DEF Miss
<1>3. x - 1 \in 0 .. (m - 1) /\ x - 1 \notin Miss
  BY <1>1, <1>2
<1>4. x - 1 \in S
  BY <1>3 
<1>5. x - 1 + 1 = x
  BY <1>2
<1> QED BY <1>3, <1>4, <1>5

-----------------------------------------------------------------------------
(* FlattenSeq. *)

\* The first n elements of a sequence.
Upto(ss, n) == [i \in 1 .. n |-> ss[i]]

\* The function that FlattenSeq defines by recursion: what the first i sequences join to.
Joins(f, ss, n) == f = [i \in 1 .. n |-> IF i = 1 THEN ss[i] ELSE f[i - 1] \o ss[i]]

LEMMA JoinsAt ==
    ASSUME NEW ss, NEW n \in Nat, NEW f, Joins(f, ss, n)
    PROVE  \A i \in 1 .. n : f[i] = IF i = 1 THEN ss[i] ELSE f[i - 1] \o ss[i]
BY Zenon DEF Joins

\* There is one, of any length, and one only.
LEMMA JoinsExist ==
    ASSUME NEW ss, NEW n \in Nat
    PROVE  \E f : Joins(f, ss, n)
<1> DEFINE S == {m \in Nat : \E f : Joins(f, ss, m)}
<1>1. 0 \in S
  <2>1. Joins(<<>>, ss, 0)
    BY DEF Joins
  <2> QED BY <2>1
<1>2. ASSUME NEW m \in Nat, m \in S PROVE m + 1 \in S
  <2>1. PICK f : Joins(f, ss, m)
    BY <1>2
  <2> DEFINE g == [i \in 1 .. (m + 1) |-> IF i <= m THEN f[i] ELSE IF i = 1 THEN ss[i] ELSE f[i - 1] \o ss[i]]
  <2>2. Joins(g, ss, m + 1)
    <3>1. \A i \in 1 .. (m + 1) : g[i] = IF i = 1 THEN ss[i] ELSE g[i - 1] \o ss[i]
      <4>1. \A i \in 1 .. m : f[i] = IF i = 1 THEN ss[i] ELSE f[i - 1] \o ss[i]
        BY <2>1, JoinsAt
      <4>2. \A i \in 1 .. m : g[i] = f[i]
        OBVIOUS
      <4>3. \A i \in 1 .. m : i # 1 => i - 1 \in 1 .. m
        OBVIOUS
      <4>4. \A i \in 1 .. m : g[i] = IF i = 1 THEN ss[i] ELSE g[i - 1] \o ss[i]
        <5> HIDE DEF g
        <5> QED BY <4>1, <4>2, <4>3
      <4>5. g[m + 1] = IF m + 1 = 1 THEN ss[m + 1] ELSE f[m] \o ss[m + 1]
        OBVIOUS
      <4>6. g[m + 1] = IF m + 1 = 1 THEN ss[m + 1] ELSE g[m] \o ss[m + 1]
        BY <4>2, <4>5
      <4> HIDE DEF g
      <4> QED BY <4>4, <4>6
    <3> QED BY <3>1 DEF Joins
  <2> QED BY <2>2
<1>3. 0 .. n \subseteq S
  <2> HIDE DEF S
  <2> QED BY <1>1, <1>2, Induct
<1> QED BY <1>3

LEMMA JoinsUnique ==
    ASSUME NEW ss, NEW n \in Nat, NEW m \in 0 .. n, NEW f, NEW g, Joins(f, ss, n), Joins(g, ss, m)
    PROVE  \A i \in 1 .. m : f[i] = g[i]
<1> DEFINE S == {k \in Nat : k \in 1 .. m => f[k] = g[k]}
<1>1. 0 \in S
  OBVIOUS
<1>2. ASSUME NEW k \in 0 .. (m - 1), k \in S PROVE k + 1 \in S
  <2>1. f[k + 1] = (IF k + 1 = 1 THEN ss[k + 1] ELSE f[k] \o ss[k + 1])
    BY JoinsAt
  <2>2. g[k + 1] = (IF k + 1 = 1 THEN ss[k + 1] ELSE g[k] \o ss[k + 1])
    BY JoinsAt
  <2> QED BY <2>1, <2>2, <1>2
<1>3. 0 .. m \subseteq S
  <2> HIDE DEF S
  <2> QED BY <1>1, <1>2, Induct
<1> QED BY <1>3

\* FlattenSeq joins them all.
LEMMA FlattenIsJoin ==
    ASSUME NEW X, NEW ss \in Seq(X), ss # <<>>
    PROVE  \E f : Joins(f, ss, Len(ss)) /\ FlattenSeq(ss) = f[Len(ss)]
<1> DEFINE f == CHOOSE f : Joins(f, ss, Len(ss))
<1>0. Len(ss) \in Nat /\ Len(ss) # 0
  BY EmptySeq, LenProperties
<1>1. Joins(f, ss, Len(ss))
  <2>1. \E g : Joins(g, ss, Len(ss))
    BY <1>0, JoinsExist
  <2> QED BY <2>1, Zenon
<1>2. f = CHOOSE g : g = [i \in 1 .. Len(ss) |-> IF i = 1 THEN ss[i] ELSE g[i - 1] \o ss[i]]
  BY Zenon DEF Joins
<1>3. FlattenSeq(ss) = f[Len(ss)]
  BY <1>0, <1>2, Zenon DEF FlattenSeq
<1> QED BY <1>1, <1>3, Zenon

\* Nothing is joined.
LEMMA FlattenEmpty == FlattenSeq(<<>>) = <<>>
<1>1. Len(<<>>) = 0
  BY EmptySeq
<1> QED BY <1>1, Zenon DEF FlattenSeq

\* The first n sequences.
LEMMA UptoSeq ==
    ASSUME NEW X, NEW ss \in Seq(X), NEW n \in 0 .. Len(ss)
    PROVE  /\ Upto(ss, n) \in Seq(X) /\ Len(Upto(ss, n)) = n
           /\ \A i \in 1 .. n : Upto(ss, n)[i] = ss[i]
<1>1. \A i \in 1 .. n : ss[i] \in X
  OBVIOUS
<1> QED BY <1>1 DEF Upto

LEMMA UptoEnds ==
    ASSUME NEW X, NEW ss \in Seq(X)
    PROVE  Upto(ss, 0) = <<>> /\ Upto(ss, Len(ss)) = ss
<1>1. Upto(ss, 0) = <<>>
  BY DEF Upto
<1>2. Upto(ss, Len(ss)) = ss
  BY UptoSeq, SeqEqual
<1> QED BY <1>1, <1>2

\* One sequence more.
LEMMA FlattenStep ==
    ASSUME NEW C, NEW ss \in Seq(Seq(C)), NEW n \in 0 .. Len(ss) - 1
    PROVE  FlattenSeq(Upto(ss, n + 1)) = FlattenSeq(Upto(ss, n)) \o ss[n + 1]
<1> DEFINE s == Upto(ss, n)
           t == Upto(ss, n + 1)
<1>1. /\ s \in Seq(Seq(C)) /\ Len(s) = n /\ \A i \in 1 .. n : s[i] = ss[i]
      /\ t \in Seq(Seq(C)) /\ Len(t) = n + 1 /\ \A i \in 1 .. n + 1 : t[i] = ss[i]
      /\ t # <<>>
  BY UptoSeq
<1> SUFFICES FlattenSeq(t) = FlattenSeq(s) \o ss[n + 1]
  OBVIOUS
<1> HIDE DEF s, t
<1>2. PICK g : Joins(g, t, n + 1) /\ FlattenSeq(t) = g[n + 1]
  BY <1>1, FlattenIsJoin
<1>3. g[n + 1] = IF n + 1 = 1 THEN ss[n + 1] ELSE g[n] \o ss[n + 1]
  BY <1>1, <1>2, JoinsAt
<1>4. CASE n = 0
  <2>1. s = <<>> /\ FlattenSeq(s) = <<>>
    BY <1>1, <1>4, FlattenEmpty
  <2>2. ss[1] \in Seq(C) /\ <<>> \o ss[1] = ss[1]
    BY <1>4
  <2>3. FlattenSeq(t) = ss[1]
    BY <1>2, <1>3, <1>4
  <2> QED BY <2>1, <2>2, <2>3, <1>4
<1>5. CASE n # 0
  <2>1. s # <<>>
    BY <1>1, <1>5
  <2>2. PICK f : Joins(f, s, n) /\ FlattenSeq(s) = f[n]
    BY <1>1, <2>1, FlattenIsJoin
  <2>3. Joins(f, t, n)
    <3>1. ASSUME NEW i \in 1 .. n PROVE s[i] = t[i]
      <4>1. i \in 1 .. n + 1
        BY LenProperties
      <4>2. s[i] = ss[i]
        BY <1>1
      <4>3. t[i] = ss[i]
        BY <1>1, <4>1
      <4> QED BY <4>2, <4>3
    <3> QED BY <2>2, <3>1, Zenon DEF Joins
  <2>4. f[n] = g[n]
    <3>1. n + 1 \in Nat /\ n \in 0 .. n + 1 /\ n \in 1 .. n
      BY <1>5
    <3>2. \A i \in 1 .. n : g[i] = f[i]
      BY <1>2, <2>3, <3>1, JoinsUnique
    <3> QED BY <3>1, <3>2
  <2>5. FlattenSeq(t) = g[n] \o ss[n + 1]
    <3>1. n + 1 # 1
      BY <1>5
    <3> QED BY <1>2, <1>3, <3>1, Zenon
  <2> QED BY <2>2, <2>4, <2>5
<1> QED BY <1>4, <1>5

\* The elements stay what they are.
LEMMA FlattenUptoType ==
    ASSUME NEW C, NEW ss \in Seq(Seq(C))
    PROVE  \A n \in 0 .. Len(ss) : FlattenSeq(Upto(ss, n)) \in Seq(C)
<1> DEFINE S == {n \in Nat : n <= Len(ss) => FlattenSeq(Upto(ss, n)) \in Seq(C)}
<1>0. Len(ss) \in Nat
  BY LenProperties
<1>1. 0 \in S
  <2>1. <<>> \in Seq(C)
    OBVIOUS
  <2> QED BY <2>1, UptoEnds, FlattenEmpty
<1>2. ASSUME NEW n \in 0 .. Len(ss) - 1, n \in S PROVE n + 1 \in S
  <2>1. FlattenSeq(Upto(ss, n)) \in Seq(C) /\ ss[n + 1] \in Seq(C)
    BY <1>0, <1>2, ElementOfSeq
  <2>2. FlattenSeq(Upto(ss, n + 1)) \in Seq(C)
    BY <2>1, FlattenStep, ConcatProperties
  <2> QED BY <2>2
<1>3. 0 .. Len(ss) \subseteq S
  <2> HIDE DEF S
  <2> QED BY <1>0, <1>1, <1>2, Induct
<1> QED BY <1>0, <1>3

LEMMA FlattenType ==
    ASSUME NEW C, NEW ss \in Seq(Seq(C))
    PROVE  FlattenSeq(ss) \in Seq(C)
<1>1. Len(ss) \in 0 .. Len(ss)
  BY LenProperties
<1> QED BY <1>1, FlattenUptoType, UptoEnds

\* Nothing after the n-th counts when it is empty.
LEMMA FlattenRestEmpty ==
    ASSUME NEW C, NEW ss \in Seq(Seq(C)), NEW m \in 0 .. Len(ss),
           \A i \in m + 1 .. Len(ss) : ss[i] = <<>>
    PROVE  FlattenSeq(ss) = FlattenSeq(Upto(ss, m))
<1> DEFINE S == {k \in Nat : m + k <= Len(ss) => FlattenSeq(Upto(ss, m + k)) = FlattenSeq(Upto(ss, m))}
<1>0. Len(ss) \in Nat /\ m \in Nat
  BY LenProperties
<1>1. 0 \in S
  BY <1>0
<1>2. ASSUME NEW k \in 0 .. (Len(ss) - m) - 1, k \in S PROVE k + 1 \in S
  <2>1. m + k \in 0 .. Len(ss) - 1 /\ m + (k + 1) = (m + k) + 1 /\ m + (k + 1) \in m + 1 .. Len(ss)
    BY <1>0
  <2>2. ss[m + (k + 1)] = <<>>
    BY <2>1
  <2>3. FlattenSeq(Upto(ss, m + k)) = FlattenSeq(Upto(ss, m)) /\ FlattenSeq(Upto(ss, m + k)) \in Seq(C)
    BY <1>0, <1>2, <2>1, FlattenUptoType
  <2>4. FlattenSeq(Upto(ss, m + (k + 1))) = FlattenSeq(Upto(ss, m + k)) \o <<>>
    BY <2>1, <2>2, FlattenStep
  <2>5. FlattenSeq(Upto(ss, m + (k + 1))) = FlattenSeq(Upto(ss, m))
    BY <2>3, <2>4, ConcatEmptySeq
  <2> QED BY <2>5
<1>3. Len(ss) - m \in 0 .. (Len(ss) - m) /\ 0 .. (Len(ss) - m) \subseteq S
  <2>1. Len(ss) - m \in Nat
    BY <1>0
  <2>2. 0 .. (Len(ss) - m) \subseteq S
    <3> HIDE DEF S
    <3> QED BY <1>1, <1>2, <2>1, Induct
  <2> QED BY <2>1, <2>2
<1>4. FlattenSeq(Upto(ss, m + (Len(ss) - m))) = FlattenSeq(Upto(ss, m)) /\ m + (Len(ss) - m) = Len(ss)
  <2>1. m + (Len(ss) - m) = Len(ss) /\ m + (Len(ss) - m) <= Len(ss)
    BY <1>0
  <2>2. Len(ss) - m \in S
    BY <1>3
  <2> QED BY <2>1, <2>2
<1> QED BY <1>4, UptoEnds

Associates(a, b, c) == (a \o b) \o c = a \o (b \o c)

LEMMA ConcatThree ==
    ASSUME NEW C, NEW a \in Seq(C), NEW b \in Seq(C), NEW c \in Seq(C)
    PROVE  Associates(a, b, c)
BY ConcatAssociative DEF Associates

\* Two sequences of sequences, one after the other.
LEMMA FlattenConcat ==
    ASSUME NEW C, NEW ss \in Seq(Seq(C)), NEW tt \in Seq(Seq(C))
    PROVE  FlattenSeq(ss \o tt) = FlattenSeq(ss) \o FlattenSeq(tt)
<1> DEFINE u == ss \o tt
           m == Len(ss)
           F(k) == FlattenSeq(Upto(u, m + k)) = FlattenSeq(ss) \o FlattenSeq(Upto(tt, k))
           S == {k \in Nat : k <= Len(tt) => F(k)}
<1>0. /\ m \in Nat /\ Len(tt) \in Nat
      /\ u \in Seq(Seq(C)) /\ Len(u) = m + Len(tt)
      /\ \A i \in 1 .. m : u[i] = ss[i]
      /\ \A i \in 1 .. Len(tt) : u[m + i] = tt[i]
      /\ FlattenSeq(ss) \in Seq(C)
  BY LenProperties, ConcatProperties, FlattenType
<1>a. Upto(u, m) = ss
  <2>1. Upto(u, m) = Upto(ss, m)
    BY <1>0, Zenon DEF Upto
  <2> QED BY <2>1, UptoEnds
<1> HIDE DEF u, m
<1>1. 0 \in S
  <2>1. FlattenSeq(Upto(tt, 0)) = <<>>
    BY UptoEnds, FlattenEmpty
  <2>2. m + 0 = m /\ FlattenSeq(ss) \o <<>> = FlattenSeq(ss)
    BY <1>0, ConcatEmptySeq
  <2>3. F(0)
    BY <1>a, <2>1, <2>2
  <2> QED BY <2>3
<1>2. ASSUME NEW k \in 0 .. Len(tt) - 1, k \in S PROVE k + 1 \in S
  <2>1. m + k \in 0 .. Len(u) - 1 /\ m + (k + 1) = (m + k) + 1 /\ k + 1 \in 1 .. Len(tt)
    BY <1>0
  <2>2. u[m + (k + 1)] = tt[k + 1] /\ tt[k + 1] \in Seq(C)
    BY <1>0, <2>1, ElementOfSeq
  <2>3. FlattenSeq(Upto(u, m + (k + 1))) = FlattenSeq(Upto(u, m + k)) \o tt[k + 1]
    <3>1. FlattenSeq(Upto(u, (m + k) + 1)) = FlattenSeq(Upto(u, m + k)) \o u[(m + k) + 1]
      BY <1>0, <2>1, FlattenStep
    <3> QED BY <2>1, <2>2, <3>1
  <2>4. FlattenSeq(Upto(tt, k + 1)) = FlattenSeq(Upto(tt, k)) \o tt[k + 1]
    BY FlattenStep
  <2>5. FlattenSeq(Upto(tt, k)) \in Seq(C)
    BY <1>0, FlattenUptoType
  <2>6. F(k)
    <3>1. k \in Nat /\ k <= Len(tt)
      BY <1>0
    <3> HIDE DEF F
    <3> QED BY <1>2, <3>1
  <2>7. (FlattenSeq(ss) \o FlattenSeq(Upto(tt, k))) \o tt[k + 1] = FlattenSeq(ss) \o (FlattenSeq(Upto(tt, k)) \o tt[k + 1])
    <3>1. Associates(FlattenSeq(ss), FlattenSeq(Upto(tt, k)), tt[k + 1])
      BY <1>0, <2>2, <2>5, ConcatThree
    <3> QED BY <3>1, Zenon DEF Associates
  <2>8. F(k + 1)
    BY <2>3, <2>4, <2>6, <2>7, Zenon
  <2> HIDE DEF F
  <2> QED BY <2>8
<1>3. 0 .. Len(tt) \subseteq S
  <2> HIDE DEF S
  <2> QED BY <1>0, <1>1, <1>2, Induct
<1>4. F(Len(tt)) /\ m + Len(tt) = Len(u)
  <2> HIDE DEF F
  <2> QED BY <1>0, <1>3
<1>5. FlattenSeq(Upto(u, Len(u))) = FlattenSeq(ss) \o FlattenSeq(Upto(tt, Len(tt)))
  BY <1>4, Zenon
<1>6. Upto(u, Len(u)) = u /\ Upto(tt, Len(tt)) = tt
  BY <1>0, UptoEnds
<1>7. FlattenSeq(u) = FlattenSeq(ss) \o FlattenSeq(tt)
  BY <1>5, <1>6, Zenon
<1> QED BY <1>7 DEF u

-----------------------------------------------------------------------------
(* The part of a text that is in some pieces of it. *)

Clip(x, lo, hi) == IF x < lo THEN lo ELSE IF x > hi THEN hi ELSE x

\* What is after a in a text, up to b.
Cut(full, a, b) == SubSeq(full, a + 1, b)

\* The length of a part of a text, parts that adjoin, and parts of parts.
LEMMA CutType ==
    ASSUME NEW C, NEW full \in Seq(C), NEW a \in 0 .. Len(full), NEW b \in 0 .. Len(full)
    PROVE  /\ Cut(full, a, b) \in Seq(C)
           /\ Len(Cut(full, a, b)) = IF a <= b THEN b - a ELSE 0
           /\ b <= a => Cut(full, a, b) = <<>>
<1>1. a \in Int /\ b \in Int /\ \A i \in a + 1 .. b : full[i] \in C
  OBVIOUS
<1>2. SubSeq(full, a + 1, b) \in Seq(C) /\ Len(SubSeq(full, a + 1, b)) = IF a + 1 <= b THEN b - (a + 1) + 1 ELSE 0
  BY <1>1, SubSeqProperties
<1>3. b <= a => SubSeq(full, a + 1, b) = <<>>
  BY <1>1, SubSeqEmpty
<1>4. Cut(full, a, b) \in Seq(C) /\ Len(Cut(full, a, b)) = IF a + 1 <= b THEN b - (a + 1) + 1 ELSE 0
  BY <1>2, Zenon DEF Cut
<1>5. b <= a => Cut(full, a, b) = <<>>
  BY <1>3, Zenon DEF Cut
<1> QED BY <1>1, <1>4, <1>5

Adjoins(full, a, b, c) == Cut(full, a, b) \o Cut(full, b, c) = Cut(full, a, c)

LEMMA CutJoin ==
    ASSUME NEW C, NEW full \in Seq(C), NEW a \in 0 .. Len(full), NEW b \in a .. Len(full), NEW c \in b .. Len(full)
    PROVE  Adjoins(full, a, b, c)
<1>1. a + 1 \in 1 .. Len(full) + 1 /\ b \in (a + 1) - 1 .. Len(full) /\ c \in b .. Len(full)
  OBVIOUS
<1> QED BY <1>1, ConcatAdjacentSubSeq DEF Cut, Adjoins

\* Each piece is the text between its places and they are between lo and hi, or it is empty.
Pieces(full, ss, pos, lo, hi) ==
    /\ lo \in 0 .. Len(full) /\ hi \in lo .. Len(full)
    /\ pos \in [1 .. Len(ss) + 1 -> 0 .. Len(full)] /\ pos[1] <= lo
    /\ \A i \in 1 .. Len(ss) :
        /\ pos[i] <= pos[i + 1]
        /\ \/ ss[i] = <<>> /\ (pos[i] = pos[i + 1] \/ pos[i + 1] <= lo \/ pos[i] >= hi)
           \/ ss[i] = Cut(full, pos[i], pos[i + 1]) /\ lo <= pos[i] /\ pos[i + 1] <= hi

\* The pieces of a text between lo and hi are, up to any of them, the text from lo on.
LEMMA ClipText ==
    ASSUME NEW C, NEW full \in Seq(C), NEW lo, NEW hi, NEW ss \in Seq(Seq(C)), NEW pos,
           Pieces(full, ss, pos, lo, hi)
    PROVE  \A n \in 0 .. Len(ss) :
              FlattenSeq(Upto(ss, n)) = Cut(full, lo, Clip(pos[n + 1], lo, hi))
<1> DEFINE F(n) == FlattenSeq(Upto(ss, n)) = Cut(full, lo, Clip(pos[n + 1], lo, hi))
           S == {n \in Nat : n <= Len(ss) => F(n)}
<1>0. /\ Len(ss) \in Nat /\ Len(full) \in Nat /\ lo \in Nat /\ hi \in Nat
      /\ lo \in 0 .. Len(full) /\ hi \in lo .. Len(full)
      /\ pos \in [1 .. Len(ss) + 1 -> 0 .. Len(full)] /\ pos[1] <= lo
  BY LenProperties DEF Pieces
<1>1. 0 \in S
  <2>1. Clip(pos[0 + 1], lo, hi) = lo
    <3>1. pos[1] \in 0 .. Len(full) /\ pos[1] <= lo /\ lo <= hi
      BY <1>0
    <3> QED BY <1>0, <3>1 DEF Clip
  <2>2. Cut(full, lo, lo) = <<>>
    BY <1>0, CutType
  <2>3. F(0)
    BY <2>1, <2>2, UptoEnds, FlattenEmpty
  <2> QED BY <2>3
<1>2. ASSUME NEW n \in 0 .. Len(ss) - 1, n \in S PROVE n + 1 \in S
  <2> DEFINE p == pos[n + 1]
             q == pos[n + 2]
  <2>1. n + 1 \in 1 .. Len(ss) /\ n + 1 \in 1 .. Len(ss) + 1 /\ n + 2 \in 1 .. Len(ss) + 1 /\ (n + 1) + 1 = n + 2
    BY <1>0
  <2>2. p \in 0 .. Len(full) /\ q \in 0 .. Len(full) /\ p <= q
    BY <1>0, <2>1 DEF Pieces
  <2>3. \/ ss[n + 1] = <<>> /\ (p = q \/ q <= lo \/ p >= hi)
        \/ ss[n + 1] = Cut(full, p, q) /\ lo <= p /\ q <= hi
    BY <2>1, Zenon DEF Pieces
  <2>4. FlattenSeq(Upto(ss, n)) = Cut(full, lo, Clip(p, lo, hi))
    <3>1. n \in Nat /\ n <= Len(ss)
      BY <1>0
    <3>2. F(n)
      <4> HIDE DEF F
      <4> QED BY <1>2, <3>1
    <3> QED BY <3>2
  <2>5. FlattenSeq(Upto(ss, n + 1)) = FlattenSeq(Upto(ss, n)) \o ss[n + 1]
    BY FlattenStep
  <2> HIDE DEF p, q
  <2>6. FlattenSeq(Upto(ss, n + 1)) = Cut(full, lo, Clip(q, lo, hi))
    <3>1. CASE ss[n + 1] = <<>> /\ (p = q \/ q <= lo \/ p >= hi)
      <4>1. Clip(p, lo, hi) = Clip(q, lo, hi) /\ Clip(p, lo, hi) \in lo .. hi
        <5>1. p = q \/ q <= lo \/ p >= hi
          BY <3>1
        <5>2. p \in Nat /\ q \in Nat /\ p <= q /\ lo <= hi /\ lo \in Nat /\ hi \in Nat
          BY <1>0, <2>2
        <5> QED BY <5>1, <5>2 DEF Clip
      <4>2. Cut(full, lo, Clip(p, lo, hi)) \in Seq(C)
        <5>1. lo \in 0 .. Len(full) /\ Clip(p, lo, hi) \in 0 .. Len(full)
          BY <1>0, <4>1
        <5> QED BY <5>1, CutType
      <4>3. Cut(full, lo, Clip(p, lo, hi)) \o <<>> = Cut(full, lo, Clip(p, lo, hi))
        BY <4>2, ConcatEmptySeq
      <4> QED BY <2>4, <2>5, <3>1, <4>1, <4>3
    <3>2. CASE ss[n + 1] = Cut(full, p, q) /\ lo <= p /\ q <= hi
      <4>1. Clip(p, lo, hi) = p /\ Clip(q, lo, hi) = q
        BY <1>0, <2>2, <3>2 DEF Clip
      <4>2. p \in lo .. Len(full) /\ q \in p .. Len(full)
        BY <1>0, <2>2, <3>2
      <4>3. Cut(full, lo, p) \o Cut(full, p, q) = Cut(full, lo, q)
        <5>1. Adjoins(full, lo, p, q)
          BY <1>0, <4>2, CutJoin
        <5> QED BY <5>1, Zenon DEF Adjoins
      <4> QED BY <2>4, <2>5, <3>2, <4>1, <4>3
    <3> QED BY <2>3, <3>1, <3>2
  <2>7. F(n + 1)
    BY <2>1, <2>6 DEF q
  <2> HIDE DEF F
  <2> QED BY <2>7
<1>3. 0 .. Len(ss) \subseteq S
  <2> HIDE DEF S
  <2> QED BY <1>0, <1>1, <1>2, Induct
<1>4. \A n \in 0 .. Len(ss) : F(n)
  <2> HIDE DEF F
  <2> QED BY <1>0, <1>3
<1> QED BY <1>4

\* A piece of a joined sequence is where the pieces before it end.
LEMMA FlattenPiece ==
    ASSUME NEW C, NEW ss \in Seq(Seq(C))
    PROVE  \A m \in 0 .. Len(ss) : \A i \in 1 .. m :
              LET b == Len(FlattenSeq(Upto(ss, i - 1)))
                  c == Len(FlattenSeq(Upto(ss, i)))
                  w == FlattenSeq(Upto(ss, m))
              IN  /\ c = b + Len(ss[i]) /\ b \in Nat /\ c <= Len(w)
                  /\ ss[i] = Cut(w, b, c)
<1> DEFINE W(m) == FlattenSeq(Upto(ss, m))
           F(m) == \A i \in 1 .. m :
              /\ Len(W(i)) = Len(W(i - 1)) + Len(ss[i]) /\ Len(W(i - 1)) \in Nat /\ Len(W(i)) <= Len(W(m))
              /\ ss[i] = Cut(W(m), Len(W(i - 1)), Len(W(i)))
           S == {m \in Nat : m <= Len(ss) => F(m)}
<1>0. Len(ss) \in Nat /\ \A m \in 0 .. Len(ss) : W(m) \in Seq(C)
  BY LenProperties, FlattenUptoType
<1>1. 0 \in S
  <2>1. F(0)
    OBVIOUS
  <2> HIDE DEF F
  <2> QED BY <2>1
<1>2. ASSUME NEW m \in 0 .. Len(ss) - 1, m \in S PROVE m + 1 \in S
  <2>1. m \in 0 .. Len(ss) /\ m + 1 \in 0 .. Len(ss) /\ m + 1 \in 1 .. Len(ss) /\ (m + 1) - 1 = m
    BY <1>0
  <2>2. W(m) \in Seq(C) /\ W(m + 1) \in Seq(C) /\ ss[m + 1] \in Seq(C)
    BY <1>0, <2>1, ElementOfSeq
  <2>3. W(m + 1) = W(m) \o ss[m + 1]
    BY FlattenStep
  <2>4. F(m)
    <3> HIDE DEF F
    <3> QED BY <1>0, <1>2, <2>1
  <2> HIDE DEF W
  <2>5. Len(W(m + 1)) = Len(W(m)) + Len(ss[m + 1]) /\ Len(W(m)) \in Nat /\ Len(ss[m + 1]) \in Nat
    BY <2>2, <2>3, ConcatProperties, LenProperties
  <2>6. ASSUME NEW i \in 1 .. m
        PROVE  /\ Len(W(i)) = Len(W(i - 1)) + Len(ss[i]) /\ Len(W(i - 1)) \in Nat /\ Len(W(i)) <= Len(W(m + 1))
               /\ ss[i] = Cut(W(m + 1), Len(W(i - 1)), Len(W(i)))
    <3> DEFINE x == Len(W(i - 1))
               y == Len(W(i))
               t == ss[i]
               v == W(m)
               w == W(m + 1)
    <3> SUFFICES y = x + Len(t) /\ x \in Nat /\ y <= Len(w) /\ t = Cut(w, x, y)
      BY Zenon
    <3>1. y = x + Len(t) /\ x \in Nat /\ y <= Len(v) /\ t = Cut(v, x, y)
      BY <2>4, Zenon
    <3>2. t \in Seq(C)
      BY <1>0, <2>1, ElementOfSeq
    <3>3. v \in Seq(C) /\ w \in Seq(C) /\ ss[m + 1] \in Seq(C) /\ w = v \o ss[m + 1]
      BY <2>2, <2>3
    <3> HIDE DEF x, y, t, v, w
    <3>4. Len(t) \in Nat /\ Len(v) \in Nat /\ Len(w) \in Nat /\ Len(v) <= Len(w)
      BY <3>2, <3>3, ConcatProperties, LenProperties
    <3>5. y <= Len(w) /\ y \in Nat
      BY <3>1, <3>4
    <3>6. CASE y = x
      <4>1. Cut(v, x, y) = <<>> /\ Cut(w, x, y) = <<>>
        <5>1. x \in 0 .. Len(v) /\ y \in 0 .. Len(v) /\ x \in 0 .. Len(w) /\ y \in 0 .. Len(w) /\ y <= x
          BY <3>1, <3>4, <3>5, <3>6
        <5> QED BY <3>3, <5>1, CutType
      <4> QED BY <3>1, <3>5, <4>1
    <3>7. CASE y # x
      <4>1. x + 1 \in 1 .. Len(v) /\ y \in 1 .. Len(v)
        BY <3>1, <3>4, <3>7
      <4>2. Cut(w, x, y) = Cut(v, x, y)
        BY <3>3, <4>1, SubSeqOfConcat1 DEF Cut
      <4> QED BY <3>1, <3>5, <4>2
    <3> QED BY <3>6, <3>7
  <2>7. /\ Len(W(m + 1)) = Len(W(m)) + Len(ss[m + 1]) /\ Len(W(m)) \in Nat
        /\ Len(W(m + 1)) <= Len(W(m + 1))
        /\ ss[m + 1] = Cut(W(m + 1), Len(W(m)), Len(W(m + 1)))
    <3>1. SubSeq(W(m + 1), Len(W(m)) + 1, Len(W(m + 1))) = ss[m + 1]
      <4>1. CASE ss[m + 1] = <<>>
        <5>1. Len(ss[m + 1]) = 0
          BY <4>1, EmptySeq
        <5> QED BY <2>5, <4>1, <5>1, SubSeqEmpty
      <4>2. CASE ss[m + 1] # <<>>
        <5> DEFINE t == ss[m + 1]
                   a == Len(W(m))
        <5>1. Len(t) # 0
          BY <2>2, <4>2, EmptySeq
        <5> HIDE DEF t
        <5>2. a + 1 \in a + 1 .. a + Len(t) /\ a + Len(t) \in a + 1 .. a + Len(t) /\ (a + 1) - a = 1 /\ (a + Len(t)) - a = Len(t)
          BY <2>5, <5>1 DEF t
        <5>3. SubSeq(W(m) \o t, a + 1, a + Len(t)) = SubSeq(t, (a + 1) - a, (a + Len(t)) - a)
          BY <2>2, <5>2, SubSeqOfConcat2 DEF t
        <5>4. SubSeq(t, 1, Len(t)) = t
          BY <2>2, SubSeqFull DEF t
        <5>5. SubSeq(W(m) \o t, a + 1, a + Len(t)) = t
          BY <5>2, <5>3, <5>4
        <5> QED BY <2>3, <2>5, <5>5 DEF t
      <4> QED BY <4>1, <4>2
    <3>2. Len(W(m + 1)) \in Nat
      BY <2>5
    <3>3. Cut(W(m + 1), Len(W(m)), Len(W(m + 1))) = ss[m + 1]
      BY <3>1, Zenon DEF Cut
    <3> QED BY <2>5, <3>2, <3>3
  <2>8. F(m + 1)
    <3>1. ASSUME NEW i \in 1 .. m + 1 PROVE i \in 1 .. m \/ i = m + 1
      BY <2>1
    <3> QED BY <2>1, <2>6, <2>7, <3>1
  <2> HIDE DEF F
  <2> QED BY <2>1, <2>8
<1>3. 0 .. Len(ss) \subseteq S
  <2> HIDE DEF S
  <2> QED BY <1>0, <1>1, <1>2, Induct
<1>4. \A m \in 0 .. Len(ss) : F(m)
  <2> HIDE DEF F
  <2> QED BY <1>0, <1>3
<1> QED BY <1>4, Zenon

-----------------------------------------------------------------------------
(* Nodes over the text of the article. *)

\* What a text may hold, the text of the article and its length.
Glyphs == Characters \cup {Reference}
ArticleText == [i \in DOMAIN Article |-> Article[i].text]
Full == FlattenSeq(ArticleText)
Size == Len(Full)

\* The text before a node of the article.
Place(i) == Len(FlattenSeq(Upto(ArticleText, i - 1)))

\* The nodes that a document may have.
Node == [path : Seq(Elements \cup {Reference}), text : Seq(Glyphs), by : Ids \cup {Nil},
         first : BOOLEAN, isText : BOOLEAN]

\* A node holds the characters from one place to another, those that an annotation of L
\* marks or those that none marks; a plain one is a part of a node of the article.
Placed(n, from, to, L, kind) ==
    /\ from <= to
    /\ kind = "plain" \/ n.by # Nil => n.text = Cut(Full, from, to)
    /\ n.by # Nil => \E a \in L : n.by = a.id /\ a.start.at <= from /\ to <= a.end.at
    /\ from < to => \A a \in L : n.by = a.id \/ to <= a.start.at \/ a.end.at <= from
    /\ n.first => from < to /\ \E a \in L : n.by = a.id /\ from = a.start.at
    /\ n.text # <<>> => n.isText
    /\ kind = "plain" => \E m \in DOMAIN Article :
          n.path = Article[m].path /\ Place(m) <= from /\ to <= Place(m + 1)

\* The nodes of a document, each in its place.
Lies(d, pos, L, kind) ==
    /\ pos \in [1 .. Len(d) + 1 -> 0 .. Size]
    /\ \A i \in 1 .. Len(d) : Placed(d[i], pos[i], pos[i + 1], L, kind)

\* It is a document of the whole article.
Whole(d, pos, L, kind) ==
    d \in Seq(Node) /\ Lies(d, pos, L, kind) /\ pos[1] = 0 /\ pos[Len(d) + 1] = Size

\* Nodes from one place to another.
Covers(d, from, to, L, kind) ==
    \E pos : Lies(d, pos, L, kind) /\ pos[1] = from /\ pos[Len(d) + 1] = to

\* What the assumption on the article says of its nodes.
LEMMA ArticleFacts ==
    /\ Len(Article) \in Nat /\ Len(Article) > 0
    /\ ArticleText \in Seq(Seq(Glyphs)) /\ Len(ArticleText) = Len(Article)
    /\ \A i \in DOMAIN Article : /\ i \in 1 .. Len(Article) /\ ArticleText[i] = Article[i].text
                                 /\ Article[i].text \in Seq(Glyphs) /\ Article[i].text # <<>>
                                 /\ Article[i].path \in Seq(Elements) /\ Article[i].path # <<>>
    /\ DOMAIN Article = 1 .. Len(Article)
<1>1. Article \in Seq([path : Seq(Elements), text : Seq(Characters)]) /\ Article # <<>>
  BY ArticleAssumption
<1>2. Len(Article) \in Nat /\ Len(Article) > 0 /\ DOMAIN Article = 1 .. Len(Article)
  BY <1>1, EmptySeq, LenProperties
<1>3. \A i \in DOMAIN Article : /\ Article[i].text \in Seq(Characters) /\ Article[i].text # <<>>
                                /\ Article[i].path \in Seq(Elements) /\ Article[i].path # <<>>
  <2>1. \A i \in DOMAIN Article : Article[i] \in [path : Seq(Elements), text : Seq(Characters)]
    BY <1>1, <1>2, ElementOfSeq
  <2>2. \A i \in DOMAIN Article : Article[i].text # <<>> /\ Article[i].path # <<>>
    BY ArticleAssumption, Zenon
  <2> QED BY <2>1, <2>2
<1>4. Seq(Characters) \subseteq Seq(Glyphs)
  <2>1. Characters \subseteq Glyphs
    BY DEF Glyphs
  <2> QED BY <2>1
<1>5. ArticleText \in Seq(Seq(Glyphs)) /\ Len(ArticleText) = Len(Article) /\ \A i \in DOMAIN Article : ArticleText[i] = Article[i].text
  <2>1. ArticleText = [i \in 1 .. Len(Article) |-> Article[i].text]
    BY <1>2 DEF ArticleText
  <2>2. \A i \in 1 .. Len(Article) : Article[i].text \in Seq(Glyphs)
    BY <1>2, <1>3, <1>4
  <2> QED BY <1>2, <2>1, <2>2
<1> QED BY <1>2, <1>3, <1>4, <1>5

\* Each node of the article holds the text from its place to the next one.
LEMMA PlaceFacts ==
    /\ Full \in Seq(Glyphs) /\ Size \in Nat
    /\ Place(1) = 0 /\ Place(Len(Article) + 1) = Size
    /\ \A i \in 1 .. Len(Article) + 1 : Place(i) \in 0 .. Size
    /\ \A i \in 1 .. Len(Article) :
          /\ Place(i + 1) = Place(i) + Len(Article[i].text) /\ Place(i) < Place(i + 1)
          /\ Article[i].text = Cut(Full, Place(i), Place(i + 1))
<1> DEFINE n == Len(Article)
<1>1. /\ n \in Nat /\ n > 0
      /\ ArticleText \in Seq(Seq(Glyphs)) /\ Len(ArticleText) = n
      /\ \A i \in 1 .. n : /\ ArticleText[i] = Article[i].text
                           /\ Article[i].text \in Seq(Glyphs) /\ Article[i].text # <<>>
  BY ArticleFacts
<1>2. Full \in Seq(Glyphs) /\ Size \in Nat
  <2>1. Full \in Seq(Glyphs)
    BY <1>1, FlattenType DEF Full
  <2> QED BY <2>1, LenProperties DEF Size
<1>3. Place(1) = 0
  <2>1. 1 - 1 = 0 /\ Upto(ArticleText, 0) = <<>> /\ FlattenSeq(<<>>) = <<>> /\ Len(<<>>) = 0
    BY <1>1, UptoEnds, FlattenEmpty
  <2> QED BY <2>1 DEF Place
<1>4. Upto(ArticleText, n) = ArticleText
  BY <1>1, UptoEnds
<1>5. Place(n + 1) = Size
  <2>1. (n + 1) - 1 = n
    BY <1>1
  <2> QED BY <1>4, <2>1 DEF Place, Size, Full
<1>6. ASSUME NEW i \in 1 .. n
      PROVE  /\ Place(i + 1) = Place(i) + Len(Article[i].text) /\ Place(i) \in Nat
             /\ Place(i + 1) <= Size
             /\ Article[i].text = Cut(Full, Place(i), Place(i + 1))
  <2>1. n \in 0 .. Len(ArticleText) /\ (i + 1) - 1 = i
    BY <1>1
  <2>2. /\ Len(FlattenSeq(Upto(ArticleText, i))) = Len(FlattenSeq(Upto(ArticleText, i - 1))) + Len(ArticleText[i])
        /\ Len(FlattenSeq(Upto(ArticleText, i - 1))) \in Nat
        /\ Len(FlattenSeq(Upto(ArticleText, i))) <= Len(FlattenSeq(Upto(ArticleText, n)))
        /\ ArticleText[i] = Cut(FlattenSeq(Upto(ArticleText, n)), Len(FlattenSeq(Upto(ArticleText, i - 1))), Len(FlattenSeq(Upto(ArticleText, i))))
    BY <1>1, <2>1, FlattenPiece
  <2>3. Place(i) = Len(FlattenSeq(Upto(ArticleText, i - 1))) /\ Place(i + 1) = Len(FlattenSeq(Upto(ArticleText, i)))
    BY <2>1 DEF Place
  <2>4. ArticleText[i] = Article[i].text /\ FlattenSeq(Upto(ArticleText, n)) = Full /\ Len(FlattenSeq(Upto(ArticleText, n))) = Size
    BY <1>1, <1>4 DEF Full, Size
  <2> HIDE DEF n
  <2> QED BY <2>2, <2>3, <2>4, Zenon
<1>7. ASSUME NEW i \in 1 .. n PROVE Place(i) < Place(i + 1) /\ Place(i) \in 0 .. Size
  <2>1. Len(Article[i].text) \in Nat /\ Len(Article[i].text) # 0
    BY <1>1, EmptySeq, LenProperties
  <2> QED BY <1>2, <1>6, <2>1
<1>8. \A i \in 1 .. n + 1 : Place(i) \in 0 .. Size
  <2>1. \A i \in 1 .. n + 1 : i \in 1 .. n \/ i = n + 1
    BY <1>1
  <2> QED BY <1>2, <1>5, <1>7, <2>1
<1> QED BY <1>2, <1>3, <1>5, <1>6, <1>7, <1>8

\* Covering nodes: none, one, those of two documents, and those of a sequence of
\* documents.
LEMMA CoversNone ==
    ASSUME NEW L, NEW kind, NEW x \in 0 .. Size
    PROVE  Covers(<<>>, x, x, L, kind)
<1> DEFINE pos == [i \in 1 .. 0 + 1 |-> x]
<1>1. Len(<<>>) = 0
  OBVIOUS
<1>2. pos \in [1 .. 0 + 1 -> 0 .. Size] /\ pos[1] = x /\ pos[0 + 1] = x
  OBVIOUS
<1>3. \A i \in 1 .. 0 : Placed(<<>>[i], pos[i], pos[i + 1], L, kind)
  OBVIOUS
<1> HIDE DEF pos
<1>4. Lies(<<>>, pos, L, kind)
  BY <1>1, <1>2, <1>3, Zenon DEF Lies
<1> QED BY <1>1, <1>2, <1>4, Zenon DEF Covers

LEMMA CoversOne ==
    ASSUME NEW L, NEW kind, NEW x \in 0 .. Size, NEW y \in 0 .. Size, NEW n \in Node, Placed(n, x, y, L, kind)
    PROVE  Covers(<<n>>, x, y, L, kind)
<1> DEFINE pos == [i \in 1 .. 1 + 1 |-> IF i = 1 THEN x ELSE y]
<1>1. Len(<<n>>) = 1 /\ <<n>>[1] = n
  OBVIOUS
<1>2. pos \in [1 .. 1 + 1 -> 0 .. Size] /\ pos[1] = x /\ pos[1 + 1] = y
  OBVIOUS
<1>a. \A i \in 1 .. 1 : i = 1
  OBVIOUS
<1> HIDE DEF pos
<1>3. \A i \in 1 .. 1 : Placed(<<n>>[i], pos[i], pos[i + 1], L, kind)
  BY <1>1, <1>2, <1>a, Zenon
<1>4. Lies(<<n>>, pos, L, kind)
  BY <1>1, <1>2, <1>3, Zenon DEF Lies
<1> QED BY <1>1, <1>2, <1>4, Zenon DEF Covers

LEMMA CoversConcat ==
    ASSUME NEW L, NEW kind, NEW c \in Seq(Node), NEW d \in Seq(Node), NEW x, NEW y, NEW z,
           Covers(c, x, y, L, kind), Covers(d, y, z, L, kind)
    PROVE  Covers(c \o d, x, z, L, kind)
<1> DEFINE e == c \o d
           m == Len(c)
           k == Len(d)
<1>1. /\ m \in Nat /\ k \in Nat /\ Len(e) = m + k
      /\ \A i \in 1 .. m : e[i] = c[i]
      /\ \A i \in m + 1 .. m + k : e[i] = d[i - m]
  BY LenProperties, ConcatProperties
<1> HIDE DEF e, m, k
<1>2. PICK p : Lies(c, p, L, kind) /\ p[1] = x /\ p[m + 1] = y
  BY Zenon DEF Covers, m
<1>3. PICK q : Lies(d, q, L, kind) /\ q[1] = y /\ q[k + 1] = z
  BY Zenon DEF Covers, k
<1>4. /\ p \in [1 .. m + 1 -> 0 .. Size] /\ \A i \in 1 .. m : Placed(c[i], p[i], p[i + 1], L, kind)
      /\ q \in [1 .. k + 1 -> 0 .. Size] /\ \A i \in 1 .. k : Placed(d[i], q[i], q[i + 1], L, kind)
  BY <1>2, <1>3, Zenon DEF Lies, m, k
<1> DEFINE r == [i \in 1 .. (m + k) + 1 |-> IF i <= m THEN p[i] ELSE q[i - m]]
<1>5. r \in [1 .. (m + k) + 1 -> 0 .. Size]
  <2>1. ASSUME NEW i \in 1 .. (m + k) + 1 PROVE (IF i <= m THEN p[i] ELSE q[i - m]) \in 0 .. Size
    <3>1. CASE i <= m
      <4>1. i \in 1 .. m + 1
        BY <1>1, <3>1
      <4> QED BY <1>4, <3>1, <4>1
    <3>2. CASE ~(i <= m)
      <4>1. i - m \in 1 .. k + 1
        BY <1>1, <3>2
      <4> QED BY <1>4, <3>2, <4>1
    <3> QED BY <3>1, <3>2
  <2> QED BY <2>1
<1>6. (\A i \in 1 .. m : r[i] = p[i]) /\ (\A i \in m + 1 .. (m + k) + 1 : r[i] = q[i - m])
  BY <1>1
<1> HIDE DEF r
<1>7. r[m + 1] = y
  <2>1. m + 1 \in m + 1 .. (m + k) + 1 /\ (m + 1) - m = 1
    BY <1>1
  <2> QED BY <1>3, <1>6, <2>1
<1>8. r[1] = x /\ r[(m + k) + 1] = z
  <2>1. CASE m = 0
    BY <1>2, <1>7, <1>1, <1>3, <1>6, <2>1
  <2>2. r[(m + k) + 1] = z
    <3>1. (m + k) + 1 \in m + 1 .. (m + k) + 1 /\ ((m + k) + 1) - m = k + 1
      BY <1>1
    <3> QED BY <1>3, <1>6, <3>1
  <2>3. CASE m # 0
    <3>1. 1 \in 1 .. m
      BY <1>1, <2>3
    <3> QED BY <1>2, <1>6, <2>2, <3>1
  <2> QED BY <2>1, <2>2, <2>3
<1>9. ASSUME NEW i \in 1 .. m + k PROVE Placed(e[i], r[i], r[i + 1], L, kind)
  <2>1. CASE i <= m
    <3>1. i \in 1 .. m /\ i + 1 \in 1 .. m + 1
      BY <1>1, <2>1
    <3>2. e[i] = c[i] /\ r[i] = p[i]
      BY <1>1, <1>6, <3>1
    <3>3. r[i + 1] = p[i + 1]
      <4>1. CASE i + 1 \in 1 .. m
        BY <1>6, <4>1
      <4>2. CASE i + 1 \notin 1 .. m
        <5>1. i + 1 = m + 1
          BY <1>1, <3>1, <4>2
        <5> QED BY <1>2, <1>7, <5>1
      <4> QED BY <4>1, <4>2
    <3> QED BY <1>4, <3>1, <3>2, <3>3, Zenon
  <2>2. CASE ~(i <= m)
    <3>1. i - m \in 1 .. k /\ i \in m + 1 .. m + k /\ i \in m + 1 .. (m + k) + 1 /\ i + 1 \in m + 1 .. (m + k) + 1 /\ (i + 1) - m = (i - m) + 1
      BY <1>1, <2>2
    <3>2. e[i] = d[i - m] /\ r[i] = q[i - m] /\ r[i + 1] = q[(i - m) + 1]
      BY <1>1, <1>6, <3>1
    <3> QED BY <1>4, <3>1, <3>2, Zenon
  <2> QED BY <2>1, <2>2
<1>10. Lies(e, r, L, kind)
  BY <1>1, <1>5, <1>9, Zenon DEF Lies
<1>11. Covers(e, x, z, L, kind)
  BY <1>1, <1>8, <1>10, Zenon DEF Covers
<1> QED BY <1>11 DEF e

\* Documents that follow each other in the text are one document.
LEMMA CoversFlatten ==
    ASSUME NEW L, NEW kind, NEW ss \in Seq(Seq(Node)), NEW pos \in [1 .. Len(ss) + 1 -> 0 .. Size],
           \A i \in 1 .. Len(ss) : Covers(ss[i], pos[i], pos[i + 1], L, kind)
    PROVE  Covers(FlattenSeq(ss), pos[1], pos[Len(ss) + 1], L, kind)
<1> DEFINE F(n) == Covers(FlattenSeq(Upto(ss, n)), pos[1], pos[n + 1], L, kind)
           S == {n \in Nat : n <= Len(ss) => F(n)}
<1>0. Len(ss) \in Nat /\ Len(ss) \in 0 .. Len(ss) /\ 1 \in 1 .. Len(ss) + 1
  BY LenProperties
<1>1. 0 \in S
  <2>1. FlattenSeq(Upto(ss, 0)) = <<>> /\ pos[1] \in 0 .. Size /\ 0 + 1 = 1
    BY <1>0, UptoEnds, FlattenEmpty
  <2>2. F(0)
    BY <2>1, CoversNone
  <2> HIDE DEF F
  <2> QED BY <2>2
<1>2. ASSUME NEW n \in 0 .. Len(ss) - 1, n \in S PROVE n + 1 \in S
  <2>1. n + 1 \in 1 .. Len(ss) /\ n \in Nat /\ n <= Len(ss) /\ n \in 0 .. Len(ss)
    BY <1>0
  <2>2. F(n)
    <3> HIDE DEF F
    <3> QED BY <1>2, <2>1
  <2>3. FlattenSeq(Upto(ss, n + 1)) = FlattenSeq(Upto(ss, n)) \o ss[n + 1]
    BY FlattenStep
  <2>4. FlattenSeq(Upto(ss, n)) \in Seq(Node) /\ ss[n + 1] \in Seq(Node)
    BY <2>1, FlattenUptoType, ElementOfSeq
  <2>5. Covers(ss[n + 1], pos[n + 1], pos[(n + 1) + 1], L, kind)
    BY <2>1
  <2>6. Covers(FlattenSeq(Upto(ss, n)) \o ss[n + 1], pos[1], pos[(n + 1) + 1], L, kind)
    BY <2>2, <2>4, <2>5, CoversConcat
  <2>7. F(n + 1)
    BY <2>3, <2>6, Zenon
  <2> HIDE DEF F
  <2> QED BY <2>7
<1>3. 0 .. Len(ss) \subseteq S
  <2> HIDE DEF S
  <2> QED BY <1>0, <1>1, <1>2, Induct
<1>4. F(Len(ss))
  <2> HIDE DEF F
  <2> QED BY <1>0, <1>3
<1> QED BY <1>4, UptoEnds

\* Places are in order.
LEMMA Monotone ==
    ASSUME NEW n \in Nat, NEW f \in [1 .. n + 1 -> Nat], \A i \in 1 .. n : f[i] <= f[i + 1]
    PROVE  \A i, j \in 1 .. n + 1 : i <= j => f[i] <= f[j]
<1> SUFFICES ASSUME NEW i \in 1 .. n + 1 PROVE \A j \in 1 .. n + 1 : i <= j => f[i] <= f[j]
  OBVIOUS
<1> DEFINE S == {k \in Nat : i + k <= n + 1 => f[i] <= f[i + k]}
<1>1. 0 \in S
  OBVIOUS
<1>2. ASSUME NEW k \in 0 .. ((n + 1) - i) - 1, k \in S PROVE k + 1 \in S
  <2>1. i + k \in 1 .. n /\ i + k <= n + 1 /\ i + (k + 1) = (i + k) + 1 /\ i + (k + 1) \in 1 .. n + 1
    OBVIOUS
  <2>2. f[i] <= f[i + k] /\ f[i + k] <= f[i + (k + 1)]
    BY <1>2, <2>1
  <2>3. f[i] \in Nat /\ f[i + k] \in Nat /\ f[i + (k + 1)] \in Nat
    BY <2>1
  <2> QED BY <2>2, <2>3
<1>3. 0 .. ((n + 1) - i) \subseteq S
  <2>1. (n + 1) - i \in Nat
    OBVIOUS
  <2> HIDE DEF S
  <2> QED BY <1>1, <1>2, <2>1, Induct
<1>4. ASSUME NEW j \in 1 .. n + 1, i <= j PROVE f[i] <= f[j]
  <2>1. j - i \in 0 .. ((n + 1) - i) /\ i + (j - i) = j
    BY <1>4
  <2>2. j - i \in S
    <3> HIDE DEF S
    <3> QED BY <1>3, <2>1
  <2>3. f[i] <= f[i + (j - i)]
    BY <2>1, <2>2
  <2> QED BY <2>1, <2>3
<1> QED BY <1>4

LEMMA LiesInOrder ==
    ASSUME NEW d \in Seq(Node), NEW pos, NEW L, NEW kind, Lies(d, pos, L, kind)
    PROVE  /\ Len(d) \in Nat /\ pos \in [1 .. Len(d) + 1 -> 0 .. Size]
           /\ \A i \in 1 .. Len(d) : pos[i] \in Nat /\ pos[i + 1] \in Nat /\ pos[i] <= pos[i + 1]
           /\ \A i, j \in 1 .. Len(d) + 1 : i <= j => pos[i] <= pos[j]
<1>1. Len(d) \in Nat /\ pos \in [1 .. Len(d) + 1 -> 0 .. Size] /\ \A i \in 1 .. Len(d) : pos[i] <= pos[i + 1]
  BY LenProperties DEF Lies, Placed
<1>2. pos \in [1 .. Len(d) + 1 -> Nat]
  <2>1. 0 .. Size \subseteq Nat
    BY PlaceFacts
  <2> QED BY <1>1, <2>1
<1>3. \A i \in 1 .. Len(d) : i \in 1 .. Len(d) + 1 /\ i + 1 \in 1 .. Len(d) + 1
  BY <1>1
<1> QED BY <1>1, <1>2, <1>3, Monotone

LEMMA WholeInOrder ==
    ASSUME NEW d, NEW pos, NEW L, NEW kind, Whole(d, pos, L, kind)
    PROVE  /\ d \in Seq(Node) /\ Len(d) \in Nat /\ DOMAIN d = 1 .. Len(d) /\ pos \in [1 .. Len(d) + 1 -> 0 .. Size]
           /\ pos[1] = 0 /\ pos[Len(d) + 1] = Size /\ Size \in Nat
           /\ \A i \in 1 .. Len(d) : /\ Placed(d[i], pos[i], pos[i + 1], L, kind) /\ d[i] \in Node
                                      /\ pos[i] \in 0 .. Size /\ pos[i + 1] \in 0 .. Size /\ pos[i] <= pos[i + 1]
                                      /\ i \in 1 .. Len(d) + 1 /\ i + 1 \in 1 .. Len(d) + 1
           /\ \A i, j \in 1 .. Len(d) + 1 : i <= j => pos[i] <= pos[j]
<1>1. d \in Seq(Node) /\ Lies(d, pos, L, kind) /\ pos[1] = 0 /\ pos[Len(d) + 1] = Size
  BY Zenon DEF Whole
<1>2. Len(d) \in Nat /\ DOMAIN d = 1 .. Len(d) /\ Size \in Nat /\ \A i \in 1 .. Len(d) : d[i] \in Node
  BY <1>1, LenProperties, ElementOfSeq, PlaceFacts
<1>3. \A i \in 1 .. Len(d) : i \in 1 .. Len(d) + 1 /\ i + 1 \in 1 .. Len(d) + 1
  BY <1>2
<1>4. pos \in [1 .. Len(d) + 1 -> 0 .. Size] /\ \A i \in 1 .. Len(d) : Placed(d[i], pos[i], pos[i + 1], L, kind)
  BY <1>1, Zenon DEF Lies
<1>5. /\ \A i \in 1 .. Len(d) : pos[i] <= pos[i + 1]
      /\ \A i, j \in 1 .. Len(d) + 1 : i <= j => pos[i] <= pos[j]
  BY <1>1, LiesInOrder
<1>6. \A i \in 1 .. Len(d) : pos[i] \in 0 .. Size /\ pos[i + 1] \in 0 .. Size
  BY <1>3, <1>4
<1> QED BY <1>1, <1>2, <1>3, <1>4, <1>5, <1>6

\* Each character of the article is in a node.
LEMMA CharacterAt ==
    ASSUME NEW d, NEW pos, NEW L, NEW kind, Whole(d, pos, L, kind),
           NEW x \in 0 .. Size - 1
    PROVE  \E j \in 1 .. Len(d) : pos[j] <= x /\ x < pos[j + 1]
<1> DEFINE n == Len(d)
           S == {j \in 1 .. n : x < pos[j + 1]}
<1>1. /\ n \in Nat /\ Size \in Nat /\ pos[1] = 0 /\ pos[n + 1] = Size
      /\ \A i \in 1 .. n : pos[i] \in Nat /\ pos[i + 1] \in Nat
  BY WholeInOrder
<1>2. n # 0
  BY <1>1
<1>3. n \in S
  BY <1>1, <1>2
<1>4. PICK j \in S : \A k \in S : j <= k
  <2>1. S \subseteq Nat
    OBVIOUS
  <2> HIDE DEF S
  <2> QED BY <1>3, <2>1, Least
<1>5. pos[j] <= x
  <2>1. CASE j = 1
    BY <1>1, <2>1
  <2>2. CASE j # 1
    <3>1. j - 1 \in 1 .. n /\ (j - 1) + 1 = j /\ ~ (j <= j - 1)
      BY <1>1, <2>2
    <3>2. j - 1 \notin S
      <4> HIDE DEF S
      <4> QED BY <1>4, <3>1
    <3>3. ~ (x < pos[j])
      BY <3>1, <3>2
    <3> QED BY <1>1, <3>3
  <2> QED BY <2>1, <2>2
<1> QED BY <1>5

\* The texts of some nodes, as TextOf joins them.
Texts(d, S) == [i \in DOMAIN d |-> IF i \in S THEN d[i].text ELSE <<>>]

\* The nodes of S hold what is between lo and hi, and the others none of it.
Between(d, pos, S, lo, hi) ==
    \A i \in 1 .. Len(d) :
        IF i \in S THEN d[i].text = Cut(Full, pos[i], pos[i + 1]) /\ lo <= pos[i] /\ pos[i + 1] <= hi
        ELSE pos[i] = pos[i + 1] \/ pos[i + 1] <= lo \/ hi <= pos[i]

\* The text of the nodes up to one of them.
LEMMA TextBetween ==
    ASSUME NEW d, NEW pos, NEW L, NEW kind, Whole(d, pos, L, kind),
           NEW S, NEW lo \in 0 .. Size, NEW hi \in lo .. Size, Between(d, pos, S, lo, hi)
    PROVE  \A i \in 1 .. Len(d) + 1 :
              TextOf(d, {j \in S : j < i}) = Cut(Full, lo, Clip(pos[i], lo, hi))
<1> DEFINE ss == Texts(d, S)
<1>0. /\ Len(d) \in Nat /\ DOMAIN d = 1 .. Len(d) /\ pos \in [1 .. Len(d) + 1 -> 0 .. Size]
      /\ \A i \in 1 .. Len(d) : pos[i] \in Nat /\ pos[i + 1] \in Nat /\ pos[i] <= pos[i + 1]
      /\ Full \in Seq(Glyphs) /\ Size = Len(Full) /\ pos[1] = 0
  <2>1. Full \in Seq(Glyphs) /\ Size = Len(Full)
    BY PlaceFacts DEF Size
  <2> QED BY <2>1, WholeInOrder
<1>a. ASSUME NEW R PROVE /\ Texts(d, R) \in Seq(Seq(Glyphs)) /\ Len(Texts(d, R)) = Len(d)
                         /\ \A i \in 1 .. Len(d) : Texts(d, R)[i] = IF i \in R THEN d[i].text ELSE <<>>
  <2>1. \A i \in 1 .. Len(d) : d[i].text \in Seq(Glyphs)
    <3>1. \A i \in 1 .. Len(d) : d[i] \in Node
      BY WholeInOrder
    <3> QED BY <3>1 DEF Node
  <2> QED BY <1>0, <2>1 DEF Texts
<1>1. ss \in Seq(Seq(Glyphs)) /\ Len(ss) = Len(d) /\ \A i \in 1 .. Len(d) : ss[i] = IF i \in S THEN d[i].text ELSE <<>>
  BY <1>a
<1> HIDE DEF ss
<1>2. ASSUME NEW i \in 1 .. Len(ss)
      PROVE  /\ pos[i] <= pos[i + 1]
             /\ \/ ss[i] = <<>> /\ (pos[i] = pos[i + 1] \/ pos[i + 1] <= lo \/ pos[i] >= hi)
                \/ ss[i] = Cut(Full, pos[i], pos[i + 1]) /\ lo <= pos[i] /\ pos[i + 1] <= hi
  BY <1>0, <1>1 DEF Between
<1>3. \A n \in 0 .. Len(ss) : FlattenSeq(Upto(ss, n)) = Cut(Full, lo, Clip(pos[n + 1], lo, hi))
  <2>1. lo \in 0 .. Len(Full) /\ hi \in lo .. Len(Full) /\ pos \in [1 .. Len(ss) + 1 -> 0 .. Len(Full)] /\ pos[1] <= lo
    BY <1>0, <1>1
  <2>2. Pieces(Full, ss, pos, lo, hi)
    BY <1>2, <2>1 DEF Pieces
  <2>3. Full \in Seq(Glyphs) /\ ss \in Seq(Seq(Glyphs))
    BY <1>0, <1>1
  <2> QED BY <2>2, <2>3, ClipText
<1>4. ASSUME NEW i \in 1 .. Len(d) + 1
      PROVE  TextOf(d, {j \in S : j < i}) = Cut(Full, lo, Clip(pos[i], lo, hi))
  <2> DEFINE R == {j \in S : j < i}
             rr == Texts(d, R)
  <2>1. rr \in Seq(Seq(Glyphs)) /\ Len(rr) = Len(d) /\ \A k \in 1 .. Len(d) : rr[k] = IF k \in R THEN d[k].text ELSE <<>>
    BY <1>a
  <2>2. i - 1 \in 0 .. Len(rr) /\ (i - 1) + 1 = i
    BY <1>0, <2>1
  <2>3. FlattenSeq(rr) = FlattenSeq(Upto(rr, i - 1))
    <3>1. ASSUME NEW k \in (i - 1) + 1 .. Len(rr) PROVE rr[k] = <<>>
      <4>1. k \in 1 .. Len(d) /\ ~ (k < i)
        BY <1>0, <2>1, <2>2
      <4>2. k \notin R
        BY <4>1
      <4> HIDE DEF R, rr
      <4> QED BY <2>1, <4>1, <4>2
    <3> HIDE DEF rr
    <3> QED BY <2>1, <2>2, <3>1, FlattenRestEmpty
  <2>4. Upto(rr, i - 1) = Upto(ss, i - 1)
    <3>1. \A k \in 1 .. (i - 1) : rr[k] = ss[k]
      <4>1. \A k \in 1 .. (i - 1) : k < i /\ k \in 1 .. Len(d)
        BY <1>0
      <4> QED BY <1>1, <2>1, <4>1
    <3> QED BY <3>1, Zenon DEF Upto
  <2>5. TextOf(d, R) = FlattenSeq(rr)
    BY Zenon DEF TextOf, Texts
  <2> HIDE DEF R, rr
  <2>6. FlattenSeq(Upto(ss, i - 1)) = Cut(Full, lo, Clip(pos[i], lo, hi))
    BY <1>1, <1>3, <2>1, <2>2
  <2>7. TextOf(d, R) = Cut(Full, lo, Clip(pos[i], lo, hi))
    BY <2>3, <2>4, <2>5, <2>6, Zenon
  <2> QED BY <2>7 DEF R
<1> QED BY <1>4

-----------------------------------------------------------------------------
(* The elements, and the points that a browser sends. *)

\* The text of an element is what is between two places.
Spans(el, lo, hi) ==
    /\ lo \in 0 .. Size /\ hi \in lo .. Size /\ lo < hi
    /\ \A m \in DOMAIN Article : el \in Range(Article[m].path) => lo <= Place(m) /\ Place(m + 1) <= hi
    /\ \A m \in DOMAIN Article : el \notin Range(Article[m].path) => Place(m + 1) <= lo \/ hi <= Place(m)

\* The places of an element are places of the article.
LEMMA SpanFacts ==
    ASSUME NEW el, NEW lo, NEW hi, Spans(el, lo, hi)
    PROVE  /\ lo \in 0 .. Size /\ hi \in lo .. Size /\ hi \in 0 .. Size /\ lo < hi /\ lo <= hi
           /\ Size \in Nat /\ lo \in Nat /\ hi \in Nat /\ Full \in Seq(Glyphs) /\ Size = Len(Full)
BY PlaceFacts DEF Spans, Size

\* The characters of a node are as many as its places.
LEMMA TextLength ==
    ASSUME NEW L, NEW n, NEW from \in 0 .. Size, NEW to \in 0 .. Size, Placed(n, from, to, L, "plain")
    PROVE  Len(n.text) = to - from /\ (n.text = <<>> <=> from = to)
<1>1. n.text = Cut(Full, from, to) /\ from <= to
  BY Zenon DEF Placed
<1>2. Full \in Seq(Glyphs) /\ Size = Len(Full)
  BY PlaceFacts DEF Size
<1>3. n.text \in Seq(Glyphs) /\ Len(n.text) = to - from
  BY <1>1, <1>2, CutType
<1>4. n.text = <<>> <=> Len(n.text) = 0
  BY <1>3, EmptySeq
<1> QED BY <1>3, <1>4

\* The nodes of the article are in order.
LEMMA PlaceOrder ==
    \A i, j \in 1 .. Len(Article) + 1 : i <= j => Place(i) <= Place(j)
<1> DEFINE f == [i \in 1 .. Len(Article) + 1 |-> Place(i)]
<1>1. /\ Len(Article) \in Nat /\ \A i \in 1 .. Len(Article) + 1 : Place(i) \in Nat
      /\ \A i \in 1 .. Len(Article) : Place(i) <= Place(i + 1)
  <2>1. Len(Article) \in Nat /\ Size \in Nat
    BY ArticleFacts, PlaceFacts
  <2>2. \A i \in 1 .. Len(Article) : i \in 1 .. Len(Article) + 1 /\ i + 1 \in 1 .. Len(Article) + 1
    BY <2>1
  <2>3. \A i \in 1 .. Len(Article) + 1 : Place(i) \in Nat
    BY <2>1, PlaceFacts
  <2>4. \A i \in 1 .. Len(Article) : Place(i) < Place(i + 1)
    BY PlaceFacts
  <2> QED BY <2>1, <2>2, <2>3, <2>4
<1>2. f \in [1 .. Len(Article) + 1 -> Nat] /\ \A i \in 1 .. Len(Article) + 1 : f[i] = Place(i)
  BY <1>1
<1>3. \A i \in 1 .. Len(Article) : i \in 1 .. Len(Article) + 1 /\ i + 1 \in 1 .. Len(Article) + 1
  BY <1>1
<1> HIDE DEF f
<1>4. \A i \in 1 .. Len(Article) : f[i] <= f[i + 1]
  BY <1>1, <1>2, <1>3
<1>5. \A i, j \in 1 .. Len(Article) + 1 : i <= j => f[i] <= f[j]
  BY <1>1, <1>2, <1>4, Monotone
<1> QED BY <1>2, <1>5

\* Every element has such places, since its text is consecutive.
LEMMA SpanOfElement ==
    ASSUME NEW el \in Elements
    PROVE  \E lo, hi : Spans(el, lo, hi)
<1> DEFINE n == Len(Article)
           U == {m \in 1 .. n : el \in Range(Article[m].path)}
           V == {n - m : m \in U}
<1>0. n \in Nat /\ DOMAIN Article = 1 .. n
  BY ArticleFacts
<1>1. U # {}
  BY <1>0 DEF Elements
<1>2. PICK a \in U : \A m \in U : a <= m
  <2>1. U \subseteq Nat
    BY <1>0
  <2> HIDE DEF U
  <2> QED BY <1>1, <2>1, Least
<1>3. \E b \in U : \A m \in U : m <= b
  <2>1. V \subseteq Nat /\ V # {}
    BY <1>0, <1>1
  <2>2. PICK x \in V : \A y \in V : x <= y
    <3> HIDE DEF V
    <3> QED BY <2>1, Least
  <2>3. PICK b \in U : x = n - b
    OBVIOUS
  <2>4. ASSUME NEW m \in U PROVE m <= b
    <3>1. n - m \in V
      OBVIOUS
    <3>2. n - b <= n - m
      BY <2>2, <2>3, <3>1
    <3>3. n \in Int /\ m \in Int /\ b \in Int
      BY <1>0
    <3> QED BY <3>2, <3>3
  <2> QED BY <2>4
<1>4. PICK b \in U : \A m \in U : m <= b
  BY <1>3
<1>5. a \in 1 .. n /\ b \in 1 .. n /\ a <= b /\ el \in Range(Article[a].path) /\ el \in Range(Article[b].path)
  BY <1>2
<1>6. ASSUME NEW m \in 1 .. n PROVE m \in U <=> a <= m /\ m <= b
  <2>1. CASE m \in U
    BY <1>2, <1>4, <2>1
  <2>2. ASSUME a < m, m < b PROVE m \in U
    <3>1. Range(Article[a].path) \cap Range(Article[b].path) \subseteq Range(Article[m].path)
      BY <1>0, <1>5, <2>2, ArticleAssumption
    <3> QED BY <1>5, <3>1
  <2> HIDE DEF U
  <2>3. a \in U /\ b \in U /\ a \in Int /\ b \in Int /\ m \in Int
    BY <1>0, <1>5
  <2> QED BY <2>1, <2>2, <2>3
<1> DEFINE lo == Place(a)
           hi == Place(b + 1)
<1>7. /\ \A i \in 1 .. n + 1 : Place(i) \in 0 .. Size
      /\ \A i, j \in 1 .. n + 1 : i <= j => Place(i) <= Place(j)
      /\ \A i \in 1 .. n : Place(i) < Place(i + 1)
      /\ Size \in Nat
  BY PlaceFacts, PlaceOrder
<1>8. \A m \in 1 .. n : m \in 1 .. n + 1 /\ m + 1 \in 1 .. n + 1
  BY <1>0
<1> HIDE DEF n
<1>9. lo \in 0 .. Size /\ hi \in lo .. Size /\ lo < hi
  <2>1. lo \in 0 .. Size /\ hi \in 0 .. Size
    BY <1>5, <1>7, <1>8
  <2>2. lo <= Place(b) /\ Place(b) < hi /\ Place(b) \in 0 .. Size
    BY <1>5, <1>7, <1>8
  <2> HIDE DEF lo, hi
  <2> QED BY <2>1, <2>2, <1>7
<1>10. ASSUME NEW m \in 1 .. n, el \in Range(Article[m].path)
       PROVE  lo <= Place(m) /\ Place(m + 1) <= hi
  <2>1. a <= m /\ m <= b
    BY <1>6, <1>10
  <2>2. m + 1 <= b + 1
    BY <1>5, <2>1
  <2> QED BY <1>5, <1>7, <1>8, <2>1, <2>2
<1>11. ASSUME NEW m \in 1 .. n, el \notin Range(Article[m].path)
       PROVE  Place(m + 1) <= lo \/ hi <= Place(m)
  <2>1. ~ (a <= m /\ m <= b)
    BY <1>6, <1>11
  <2>2. m + 1 <= a \/ b + 1 <= m
    BY <1>5, <2>1
  <2> QED BY <1>5, <1>7, <1>8, <2>2
<1>12. Spans(el, lo, hi)
  <2> HIDE DEF lo, hi
  <2> QED BY <1>0, <1>9, <1>10, <1>11 DEF Spans, n
<1> QED BY <1>12

\* The article before any annotation is a document of the whole article.
LEMMA FreshLies ==
    /\ Fresh \in Seq(Node) /\ Fresh # <<>> /\ Len(Fresh) = Len(Article) /\ DOMAIN Fresh = DOMAIN Article
    /\ \A i \in DOMAIN Article : Fresh[i].path = Article[i].path /\ Fresh[i].text = Article[i].text /\ Fresh[i].isText
    /\ \E pos : /\ Whole(Fresh, pos, {}, "plain")
                /\ \A i \in 1 .. Len(Article) + 1 : pos[i] = Place(i)
<1> DEFINE n == Len(Article)
           pos == [i \in 1 .. n + 1 |-> Place(i)]
<1>1. /\ n \in Nat /\ n > 0 /\ DOMAIN Article = 1 .. n
      /\ \A i \in 1 .. n : Article[i].text \in Seq(Glyphs) /\ Article[i].text # <<>> /\ Article[i].path \in Seq(Elements)
  BY ArticleFacts
<1>2. \A i \in 1 .. n : Article[i].path \in Seq(Elements \cup {Reference})
  BY <1>1
<1>3. Fresh = [i \in 1 .. n |-> [path |-> Article[i].path, text |-> Article[i].text, by |-> Nil, first |-> FALSE, isText |-> TRUE]]
  BY <1>1 DEF Fresh
<1> HIDE DEF n
<1>4. Fresh \in Seq(Node) /\ Fresh # <<>> /\ Len(Fresh) = n /\ DOMAIN Fresh = 1 .. n
  <2>1. \A i \in 1 .. n : [path |-> Article[i].path, text |-> Article[i].text, by |-> Nil, first |-> FALSE, isText |-> TRUE] \in Node
    BY <1>1, <1>2 DEF Node
  <2>2. Fresh \in [1 .. n -> Node]
    BY <1>3, <2>1
  <2> QED BY <1>1, <2>2
<1>5. \A i \in 1 .. n : /\ Fresh[i].path = Article[i].path /\ Fresh[i].text = Article[i].text
                        /\ Fresh[i].isText = TRUE /\ Fresh[i].by = Nil /\ Fresh[i].first = FALSE
  BY <1>3
<1>6. /\ pos \in [1 .. n + 1 -> 0 .. Size] /\ \A i \in 1 .. n + 1 : pos[i] = Place(i)
      /\ pos[1] = 0 /\ pos[n + 1] = Size
  <2>1. 1 \in 1 .. n + 1 /\ n + 1 \in 1 .. n + 1
    BY <1>1
  <2> QED BY <2>1, PlaceFacts DEF n
<1> HIDE DEF pos
<1>7. ASSUME NEW i \in 1 .. n PROVE Placed(Fresh[i], pos[i], pos[i + 1], {}, "plain")
  <2>1. i \in 1 .. n + 1 /\ i + 1 \in 1 .. n + 1
    BY <1>1
  <2>2. pos[i] = Place(i) /\ pos[i + 1] = Place(i + 1) /\ Place(i) \in 0 .. Size /\ Place(i + 1) \in 0 .. Size
    BY <1>6, <2>1
  <2>3. Place(i) < Place(i + 1) /\ Article[i].text = Cut(Full, Place(i), Place(i + 1)) /\ Size \in Nat
    BY PlaceFacts DEF n
  <2>4. Place(i) <= Place(i) /\ Place(i + 1) <= Place(i + 1) /\ Place(i) <= Place(i + 1)
    BY <2>2, <2>3
  <2> QED BY <1>1, <1>5, <2>2, <2>3, <2>4 DEF Placed
<1>8. Lies(Fresh, pos, {}, "plain")
  BY <1>4, <1>6, <1>7, Zenon DEF Lies
<1>9. Whole(Fresh, pos, {}, "plain")
  BY <1>4, <1>6, <1>8 DEF Whole
<1> QED BY <1>1, <1>4, <1>5, <1>6, <1>9 DEF n

\* The nodes of a document in an element are those between its places.
LEMMA UnderBetween ==
    ASSUME NEW d, NEW pos, NEW L, Whole(d, pos, L, "plain"),
           NEW el, NEW lo, NEW hi, Spans(el, lo, hi), NEW i \in 1 .. Len(d)
    PROVE  IF i \in Under(d, el) THEN lo <= pos[i] /\ pos[i + 1] <= hi
           ELSE pos[i + 1] <= lo \/ hi <= pos[i]
<1>1. Placed(d[i], pos[i], pos[i + 1], L, "plain")
  BY WholeInOrder
<1>2. PICK m \in DOMAIN Article : d[i].path = Article[m].path /\ Place(m) <= pos[i] /\ pos[i + 1] <= Place(m + 1)
  BY <1>1, Zenon DEF Placed
<1>3. i \in Under(d, el) <=> el \in Range(Article[m].path)
  <2>1. i \in DOMAIN d
    BY LenProperties
  <2> QED BY <1>2, <2>1 DEF Under
<1>4. pos[i] \in Nat /\ pos[i + 1] \in Nat /\ Place(m) \in Nat /\ Place(m + 1) \in Nat
  <2>1. m \in 1 .. Len(Article) + 1 /\ m + 1 \in 1 .. Len(Article) + 1 /\ Size \in Nat
    BY ArticleFacts, PlaceFacts
  <2>2. Place(m) \in 0 .. Size /\ Place(m + 1) \in 0 .. Size
    BY <2>1, PlaceFacts
  <2>3. pos[i] \in 0 .. Size /\ pos[i + 1] \in 0 .. Size
    BY WholeInOrder
  <2> QED BY <2>1, <2>2, <2>3
<1>5. lo \in Nat /\ hi \in Nat
  BY SpanFacts
<1>6. IF el \in Range(Article[m].path) THEN lo <= Place(m) /\ Place(m + 1) <= hi
      ELSE Place(m + 1) <= lo \/ hi <= Place(m)
  BY Zenon DEF Spans
<1> QED BY <1>2, <1>3, <1>4, <1>5, <1>6

\* The text of an element before a node of the document.
LEMMA ConsumedText ==
    ASSUME NEW d, NEW pos, NEW L, Whole(d, pos, L, "plain"),
           NEW el, NEW lo, NEW hi, Spans(el, lo, hi), NEW i \in 1 .. Len(d) + 1
    PROVE  TextOf(d, {j \in TextNodes(d, el) : j < i}) = Cut(Full, lo, Clip(pos[i], lo, hi))
<1>1. lo \in 0 .. Size /\ hi \in lo .. Size
  BY SpanFacts
<1>2. ASSUME NEW j \in 1 .. Len(d)
      PROVE  IF j \in TextNodes(d, el) THEN d[j].text = Cut(Full, pos[j], pos[j + 1]) /\ lo <= pos[j] /\ pos[j + 1] <= hi
             ELSE pos[j] = pos[j + 1] \/ pos[j + 1] <= lo \/ hi <= pos[j]
  <2>1. Placed(d[j], pos[j], pos[j + 1], L, "plain")
    BY WholeInOrder
  <2>2. d[j].text = Cut(Full, pos[j], pos[j + 1]) /\ (d[j].text # <<>> => d[j].isText)
    BY <2>1, Zenon DEF Placed
  <2>3. IF j \in Under(d, el) THEN lo <= pos[j] /\ pos[j + 1] <= hi
        ELSE pos[j + 1] <= lo \/ hi <= pos[j]
    BY UnderBetween
  <2>4. ASSUME d[j].text = <<>> PROVE pos[j] = pos[j + 1]
    <3>1. pos[j] \in 0 .. Size /\ pos[j + 1] \in 0 .. Size
      BY WholeInOrder
    <3> QED BY <2>1, <2>4, <3>1, TextLength
  <2> QED BY <2>2, <2>3, <2>4 DEF TextNodes
<1>3. Between(d, pos, TextNodes(d, el), lo, hi)
  BY <1>2, Zenon DEF Between
<1> QED BY <1>1, <1>3, TextBetween

\* What getTextNodeBoundary has counted when it comes to a node.
LEMMA ConsumedIs ==
    ASSUME NEW d, NEW pos, NEW L, Whole(d, pos, L, "plain"),
           NEW el, NEW lo, NEW hi, Spans(el, lo, hi), NEW i \in TextNodes(d, el)
    PROVE  /\ i \in 1 .. Len(d) /\ lo <= pos[i] /\ pos[i + 1] <= hi
           /\ Consumed(d, el, i) = pos[i] - lo
           /\ Consumed(d, el, i) + Len(d[i].text) = pos[i + 1] - lo
<1>1. i \in 1 .. Len(d) /\ i \in Under(d, el)
  BY WholeInOrder DEF TextNodes, Under
<1>2. lo <= pos[i] /\ pos[i + 1] <= hi
  BY <1>1, UnderBetween
<1>3. /\ pos[i] \in 0 .. Size /\ pos[i + 1] \in 0 .. Size /\ pos[i] <= pos[i + 1] /\ i \in 1 .. Len(d) + 1
      /\ Placed(d[i], pos[i], pos[i + 1], L, "plain")
  BY <1>1, WholeInOrder
<1>4. lo \in 0 .. Size /\ hi \in lo .. Size /\ Size \in Nat /\ Full \in Seq(Glyphs) /\ Size = Len(Full)
  BY SpanFacts
<1>5. Clip(pos[i], lo, hi) = pos[i]
  BY <1>2, <1>3, <1>4 DEF Clip
<1>6. Consumed(d, el, i) = pos[i] - lo
  <2>1. TextOf(d, {j \in TextNodes(d, el) : j < i}) = Cut(Full, lo, Clip(pos[i], lo, hi))
    BY <1>3, ConsumedText
  <2>2. Consumed(d, el, i) = Len(Cut(Full, lo, pos[i]))
    BY <1>5, <2>1, Zenon DEF Consumed
  <2>3. Len(Cut(Full, lo, pos[i])) = pos[i] - lo
    BY <1>2, <1>3, <1>4, CutType
  <2> QED BY <2>2, <2>3
<1>7. Len(d[i].text) = pos[i + 1] - pos[i]
  BY <1>3, TextLength
<1> QED BY <1>1, <1>2, <1>3, <1>4, <1>6, <1>7

\* What a point says: how far it is from the start of its element.
LEMMA PointFacts ==
    ASSUME NEW p \in Points
    PROVE  /\ p.el \in Elements /\ p.at \in 0 .. Size /\ p.offset \in Nat
           /\ \A lo, hi : Spans(p.el, lo, hi) =>
                 /\ lo <= p.at /\ p.at <= hi /\ p.offset = p.at - lo
                 /\ Len(TextOf(Article, Under(Article, p.el))) = hi - lo
<1>0. PICK i \in DOMAIN Article : \E k \in 0 .. Len(Article[i].text) : p = Point(i, k)
  BY DEF Points
<1>1. PICK k \in 0 .. Len(Article[i].text) : p = Point(i, k)
  BY <1>0
<1>a. PICK el : el = Last(Article[i].path)
  OBVIOUS
<1>2. p.el = el /\ p.offset = k + Len(TextOf(Article, {j \in Under(Article, el) : j < i})) /\ p.at = k + Len(TextOf(Article, 1 .. (i - 1)))
  BY <1>1, <1>a DEF Point
<1>3. i \in 1 .. Len(Article) /\ Len(Article) \in Nat /\ DOMAIN Article = 1 .. Len(Article) /\ i \in 1 .. Len(Article) + 1
  BY ArticleFacts
<1>4. el \in Range(Article[i].path) /\ el \in Elements
  <2>1. Article[i].path \in Seq(Elements) /\ Article[i].path # <<>>
    BY ArticleFacts
  <2>2. Len(Article[i].path) \in DOMAIN Article[i].path
    BY <2>1, EmptySeq, LenProperties
  <2> QED BY <1>3, <1>a, <2>2 DEF Last, Range, Elements
<1>5. PICK pos : /\ Whole(Fresh, pos, {}, "plain")
                 /\ \A j \in 1 .. Len(Article) + 1 : pos[j] = Place(j)
  BY FreshLies
<1>6. /\ Fresh \in Seq(Node) /\ Len(Fresh) = Len(Article) /\ DOMAIN Fresh = DOMAIN Article
      /\ \A j \in DOMAIN Article : Fresh[j].path = Article[j].path /\ Fresh[j].text = Article[j].text /\ Fresh[j].isText
  BY FreshLies
<1>7. ASSUME NEW S PROVE TextOf(Article, S) = TextOf(Fresh, S)
  <2>1. [j \in DOMAIN Article |-> IF j \in S THEN Article[j].text ELSE <<>>] = [j \in DOMAIN Fresh |-> IF j \in S THEN Fresh[j].text ELSE <<>>]
    BY <1>6
  <2> QED BY <2>1, Zenon DEF TextOf
<1>8. Under(Article, el) = TextNodes(Fresh, el)
  BY <1>6 DEF Under, TextNodes
<1>9. Len(TextOf(Article, 1 .. (i - 1))) = Place(i)
  <2>1. DOMAIN Article = 1 .. Len(Article)
    BY <1>3
  <2> DEFINE tt == [j \in DOMAIN Article |-> IF j \in 1 .. (i - 1) THEN Article[j].text ELSE <<>>]
  <2>2. tt \in Seq(Seq(Glyphs)) /\ Len(tt) = Len(Article) /\ \A j \in DOMAIN Article : tt[j] = IF j \in 1 .. (i - 1) THEN ArticleText[j] ELSE <<>>
    BY <1>3, ArticleFacts
  <2>3. TextOf(Article, 1 .. (i - 1)) = FlattenSeq(tt)
    BY Zenon DEF TextOf
  <2> HIDE DEF tt
  <2>4. FlattenSeq(tt) = FlattenSeq(Upto(tt, i - 1))
    <3>1. i - 1 \in 0 .. Len(tt)
      BY <1>3, <2>2
    <3>2. ASSUME NEW j \in (i - 1) + 1 .. Len(tt) PROVE tt[j] = <<>>
      <4>1. j \in DOMAIN Article /\ j \notin 1 .. (i - 1)
        BY <1>3, <2>2
      <4> QED BY <2>2, <4>1
    <3> QED BY <2>2, <3>1, <3>2, FlattenRestEmpty
  <2>5. Upto(tt, i - 1) = Upto(ArticleText, i - 1)
    <3>1. \A j \in 1 .. (i - 1) : j \in DOMAIN Article
      BY <1>3
    <3>2. \A j \in 1 .. (i - 1) : tt[j] = ArticleText[j]
      BY <2>2, <3>1
    <3> QED BY <3>2, Zenon DEF Upto
  <2> QED BY <2>3, <2>4, <2>5, Zenon DEF Place
<1>10. ASSUME NEW lo, NEW hi, Spans(el, lo, hi)
       PROVE  /\ Len(TextOf(Article, {j \in Under(Article, el) : j < i})) = Place(i) - lo
              /\ lo <= Place(i) /\ Place(i + 1) <= hi
              /\ Len(TextOf(Article, Under(Article, el))) = hi - lo
  <2>1. i \in TextNodes(Fresh, el)
    BY <1>3, <1>4, <1>6 DEF TextNodes, Under
  <2>2. pos[i] = Place(i) /\ pos[i + 1] = Place(i + 1)
    BY <1>3, <1>5
  <2>3. Consumed(Fresh, el, i) = pos[i] - lo /\ lo <= pos[i] /\ pos[i + 1] <= hi
    <3>1. Fresh \in Seq(Node) /\ Whole(Fresh, pos, {}, "plain") /\ Spans(el, lo, hi)
      BY <1>5, <1>6, <1>10
    <3> QED BY <2>1, <3>1, ConsumedIs
  <2>4. TextOf(Article, {j \in Under(Article, el) : j < i}) = TextOf(Fresh, {j \in TextNodes(Fresh, el) : j < i})
    BY <1>7, <1>8
  <2>5. TextOf(Article, Under(Article, el)) = TextOf(Fresh, {j \in TextNodes(Fresh, el) : j < Len(Fresh) + 1})
    <3>1. TextNodes(Fresh, el) = {j \in TextNodes(Fresh, el) : j < Len(Fresh) + 1}
      BY <1>3, <1>6 DEF TextNodes, Under
    <3> QED BY <1>7, <1>8, <3>1, Zenon
  <2>6. TextOf(Fresh, {j \in TextNodes(Fresh, el) : j < Len(Fresh) + 1}) = Cut(Full, lo, Clip(Size, lo, hi))
    <3>1. Len(Fresh) + 1 \in 1 .. Len(Fresh) + 1
      BY <1>3, <1>6
    <3>2. Fresh \in Seq(Node) /\ Whole(Fresh, pos, {}, "plain") /\ Spans(el, lo, hi)
      BY <1>5, <1>6, <1>10
    <3>3. pos[Len(Fresh) + 1] = Size
      BY <3>2, WholeInOrder
    <3>4. TextOf(Fresh, {j \in TextNodes(Fresh, el) : j < Len(Fresh) + 1}) = Cut(Full, lo, Clip(pos[Len(Fresh) + 1], lo, hi))
      BY <3>1, <3>2, ConsumedText
    <3> QED BY <3>3, <3>4, Zenon
  <2>7. Clip(Size, lo, hi) = hi /\ Len(Cut(Full, lo, hi)) = hi - lo
    <3>1. lo \in 0 .. Size /\ hi \in lo .. Size /\ Size \in Nat /\ Size = Len(Full) /\ Full \in Seq(Glyphs)
      BY <1>10, PlaceFacts DEF Spans, Size
    <3>2. lo \in 0 .. Len(Full) /\ hi \in 0 .. Len(Full) /\ lo <= hi
      BY <3>1
    <3> QED BY <3>1, <3>2, CutType DEF Clip
  <2>8. Len(TextOf(Article, Under(Article, el))) = hi - lo
    BY <2>5, <2>6, <2>7
  <2> QED BY <2>2, <2>3, <2>4, <2>8 DEF Consumed
<1>11. Place(i) \in 0 .. Size /\ Place(i + 1) \in 0 .. Size /\ Place(i + 1) = Place(i) + Len(Article[i].text) /\ Size \in Nat
  <2>1. i + 1 \in 1 .. Len(Article) + 1
    BY <1>3
  <2> QED BY <1>3, <2>1, PlaceFacts
<1>12. p.at \in 0 .. Size /\ p.at = k + Place(i) /\ k \in Nat /\ p.at <= Place(i + 1)
  <2>1. p.at = k + Place(i)
    BY <1>2, <1>9
  <2>2. k \in Nat /\ k <= Len(Article[i].text) /\ Len(Article[i].text) \in Nat
    BY <1>3, ArticleFacts, LenProperties
  <2> QED BY <1>11, <2>1, <2>2
<1>13. ASSUME NEW lo, NEW hi, Spans(el, lo, hi)
       PROVE  lo <= p.at /\ p.at <= hi /\ p.offset = p.at - lo /\ Len(TextOf(Article, Under(Article, el))) = hi - lo
  <2>1. lo \in Nat /\ hi \in Nat
    BY <1>13, PlaceFacts DEF Spans
  <2>2. p.offset = k + Len(TextOf(Article, {j \in Under(Article, el) : j < i}))
    BY <1>2, Zenon
  <2>3. p.offset = k + (Place(i) - lo) /\ lo <= Place(i) /\ Place(i + 1) <= hi
    BY <1>10, <1>13, <2>2
  <2>4. Len(TextOf(Article, Under(Article, el))) = hi - lo
    BY <1>10, <1>13
  <2> QED BY <1>11, <1>12, <2>1, <2>3, <2>4, SMTT(30)
<1>14. p.offset \in Nat
  <2>1. PICK lo, hi : Spans(el, lo, hi)
    BY <1>4, SpanOfElement
  <2>2. lo \in Nat
    BY <2>1, PlaceFacts DEF Spans
  <2> QED BY <1>12, <1>13, <1>11, <2>1, <2>2
<1> QED BY <1>2, <1>4, <1>12, <1>13, <1>14

-----------------------------------------------------------------------------
(* The boundaries of a range. *)

\* The character at a place of an element is in a text node of it.
LEMMA NodeAt ==
    ASSUME NEW d, NEW pos, NEW L, Whole(d, pos, L, "plain"), NEW el, NEW lo, NEW hi, Spans(el, lo, hi),
           NEW y \in Nat, lo <= y, y < hi
    PROVE  \E j \in TextNodes(d, el) : j \in 1 .. Len(d) /\ pos[j] <= y /\ y < pos[j + 1]
<1>1. lo \in Nat /\ hi \in Nat /\ hi <= Size /\ Size \in Nat
  BY SpanFacts
<1>2. y \in 0 .. Size - 1
  BY <1>1
<1>3. PICK j \in 1 .. Len(d) : pos[j] <= y /\ y < pos[j + 1]
  BY <1>2, CharacterAt
<1>4. pos[j] \in 0 .. Size /\ pos[j + 1] \in 0 .. Size /\ Placed(d[j], pos[j], pos[j + 1], L, "plain") /\ DOMAIN d = 1 .. Len(d)
  BY WholeInOrder
<1>5. IF j \in Under(d, el) THEN lo <= pos[j] /\ pos[j + 1] <= hi ELSE pos[j + 1] <= lo \/ hi <= pos[j]
  BY UnderBetween
<1>6. j \in Under(d, el)
  BY <1>1, <1>3, <1>4, <1>5
<1>7. d[j].isText
  <2>1. pos[j] # pos[j + 1]
    BY <1>3, <1>4
  <2>2. d[j].text # <<>>
    BY <1>4, <2>1, TextLength
  <2> QED BY <1>4, <2>2, Zenon DEF Placed
<1> QED BY <1>3, <1>6, <1>7 DEF TextNodes

\* A boundary is in the node that it names, and no character between them.
Meets(d, pos, p, b) ==
    /\ b.node \in 1 .. Len(d) /\ d[b.node].isText
    /\ pos[b.node] <= p.at /\ p.at <= pos[b.node + 1] /\ b.offset = p.at - pos[b.node]

\* The start that getTextNodeBoundary finds; it is at the end of a node only if it is at
\* the end of the element.
LEMMA StartFacts ==
    ASSUME NEW d, NEW pos, NEW L, Whole(d, pos, L, "plain"), NEW p \in Points, NEW b \in Boundary(d, TRUE, p)
    PROVE  /\ Meets(d, pos, p, b)
           /\ p.at = pos[b.node + 1] <=> p.offset = Len(TextOf(Article, Under(Article, p.el)))
<1>1. p.el \in Elements /\ p.at \in 0 .. Size
  BY PointFacts
<1>2. PICK lo, hi : Spans(p.el, lo, hi)
  BY <1>1, SpanOfElement
<1>3. lo <= p.at /\ p.at <= hi /\ p.offset = p.at - lo /\ Len(TextOf(Article, Under(Article, p.el))) = hi - lo
  BY <1>2, PointFacts
<1>4. lo \in Nat /\ hi \in Nat /\ Size \in Nat
  BY <1>2, SpanFacts
<1> DEFINE nodes == TextNodes(d, p.el)
           Reach(i) == Consumed(d, p.el, i) + Len(d[i].text)
           Meet(i) == \/ p.offset < Reach(i)
                      \/ p.offset = Reach(i) /\ ~(TRUE /\ \E j \in nodes : j > i)
<1>5. PICK i \in nodes : Meet(i) /\ (\A j \in nodes : j < i => ~Meet(j)) /\ b = [node |-> i, offset |-> p.offset - Consumed(d, p.el, i)]
  BY Zenon DEF Boundary
<1>6. b.node = i /\ b.offset = p.offset - Consumed(d, p.el, i)
  BY <1>5
<1>7. \A j \in nodes : j \in 1 .. Len(d) /\ lo <= pos[j] /\ pos[j + 1] <= hi /\ Consumed(d, p.el, j) = pos[j] - lo /\ Reach(j) = pos[j + 1] - lo
  BY <1>2, ConsumedIs
<1>8. /\ \A j \in 1 .. Len(d) : pos[j] \in 0 .. Size /\ pos[j + 1] \in 0 .. Size /\ j \in 1 .. Len(d) + 1 /\ j + 1 \in 1 .. Len(d) + 1
      /\ \A j, k \in 1 .. Len(d) + 1 : j <= k => pos[j] <= pos[k]
      /\ Len(d) \in Nat
  BY WholeInOrder
<1>9. d[i].isText
  BY DEF TextNodes
<1>10. i \in 1 .. Len(d) /\ lo <= pos[i] /\ pos[i + 1] <= hi /\ pos[i] \in Nat /\ pos[i + 1] \in Nat
  BY <1>7, <1>8
<1>11. ASSUME p.at < hi PROVE pos[i] <= p.at /\ p.at < pos[i + 1]
  <2>1. PICK j \in nodes : j \in 1 .. Len(d) /\ pos[j] <= p.at /\ p.at < pos[j + 1]
    <3>1. p.at \in Nat
      BY <1>1, <1>4
    <3> HIDE DEF nodes
    <3> QED BY <1>2, <1>3, <1>11, <3>1, NodeAt DEF nodes
  <2>2. Meet(j)
    <3>1. Reach(j) = pos[j + 1] - lo
      BY <1>7
    <3>2. p.offset < Reach(j)
      BY <1>1, <1>3, <1>4, <1>8, <2>1, <3>1
    <3> QED BY <3>2, Zenon
  <2>3. i <= j
    <3>1. ~(j < i)
      BY <1>5, <2>2
    <3> QED BY <1>10, <2>1, <3>1
  <2>4. ~ (pos[i + 1] <= p.at)
    <3>1. ASSUME pos[i + 1] <= p.at PROVE FALSE
      <4>1. i # j
        BY <1>1, <1>10, <2>1, <3>1, <1>8
      <4>2. j > i
        BY <1>10, <2>1, <2>3, <4>1
      <4>3. Reach(i) = pos[i + 1] - lo
        BY <1>7
      <4>4. ~(p.offset < Reach(i))
        BY <1>1, <1>3, <1>4, <1>10, <3>1, <4>3
      <4>5. \E k \in nodes : k > i
        BY <4>2
      <4> HIDE DEF nodes, Reach
      <4> QED BY <1>5, <4>4, <4>5
    <3> QED BY <3>1
  <2>5. pos[i] <= pos[j]
    BY <1>8, <1>10, <2>1, <2>3
  <2> QED BY <1>1, <1>4, <1>8, <1>10, <2>1, <2>4, <2>5
<1>12. ASSUME p.at = hi PROVE pos[i] <= p.at /\ p.at = pos[i + 1]
  <2>1. Reach(i) = pos[i + 1] - lo
    BY <1>7
  <2>2. p.offset <= Reach(i)
    <3>1. p.offset < Reach(i) \/ p.offset = Reach(i)
      BY <1>5, Zenon
    <3> QED BY <1>1, <1>3, <1>4, <1>10, <2>1, <3>1
  <2>3. pos[i] <= pos[i + 1]
    BY <1>10, WholeInOrder
  <2> QED BY <1>1, <1>3, <1>4, <1>10, <1>12, <2>1, <2>2, <2>3
<1>13. p.at < hi \/ p.at = hi
  BY <1>1, <1>3, <1>4
<1>14. pos[i] <= p.at /\ p.at <= pos[i + 1] /\ (p.at = pos[i + 1] <=> p.at = hi)
  <2>1. CASE p.at < hi
    BY <1>1, <1>4, <1>10, <1>11, <2>1
  <2>2. CASE p.at = hi
    BY <1>10, <1>12, <2>2
  <2> QED BY <1>13, <2>1, <2>2
<1>15. b.offset = p.at - pos[i]
  <2>1. Consumed(d, p.el, i) = pos[i] - lo
    BY <1>7
  <2> QED BY <1>1, <1>3, <1>4, <1>6, <1>10, <2>1
<1>16. p.offset = Len(TextOf(Article, Under(Article, p.el))) <=> p.at = hi
  BY <1>1, <1>3, <1>4
<1> HIDE DEF nodes, Reach, Meet
<1> QED BY <1>6, <1>9, <1>10, <1>14, <1>15, <1>16 DEF Meets

\* There is a start, unless the point is at the end of the element.
LEMMA StartExists ==
    ASSUME NEW d, NEW pos, NEW L, Whole(d, pos, L, "plain"), NEW p \in Points,
           p.offset # Len(TextOf(Article, Under(Article, p.el)))
    PROVE  Boundary(d, TRUE, p) # {}
<1>1. p.el \in Elements /\ p.at \in 0 .. Size
  BY PointFacts
<1>2. PICK lo, hi : Spans(p.el, lo, hi)
  BY <1>1, SpanOfElement
<1>3. lo <= p.at /\ p.at <= hi /\ p.offset = p.at - lo /\ Len(TextOf(Article, Under(Article, p.el))) = hi - lo
  BY <1>2, PointFacts
<1>4. lo \in Nat /\ hi \in Nat /\ Size \in Nat /\ p.at \in Nat
  BY <1>1, <1>2, SpanFacts
<1>5. p.at < hi
  BY <1>3, <1>4
<1>6. PICK j \in TextNodes(d, p.el) : j \in 1 .. Len(d) /\ pos[j] <= p.at /\ p.at < pos[j + 1]
  BY <1>2, <1>3, <1>4, <1>5, NodeAt
<1> DEFINE nodes == TextNodes(d, p.el)
           Reach(i) == Consumed(d, p.el, i) + Len(d[i].text)
           Meet(i) == \/ p.offset < Reach(i)
                      \/ p.offset = Reach(i) /\ ~(TRUE /\ \E k \in nodes : k > i)
<1>7. Meet(j)
  <2>1. Reach(j) = pos[j + 1] - lo /\ pos[j + 1] \in 0 .. Size
    BY <1>2, <1>6, ConsumedIs, WholeInOrder
  <2>2. p.offset < Reach(j)
    BY <1>3, <1>4, <1>6, <2>1
  <2> QED BY <2>2, Zenon
<1>8. PICK i \in nodes : Meet(i) /\ \A k \in nodes : k < i => ~Meet(k)
  <2> DEFINE S == {i \in nodes : Meet(i)}
  <2> HIDE DEF Meet
  <2>1. S # {} /\ S \subseteq Nat
    <3>1. nodes \subseteq Nat
      <4>1. DOMAIN d \subseteq Nat
        BY WholeInOrder
      <4> QED BY <4>1 DEF TextNodes, Under
    <3> HIDE DEF nodes
    <3> QED BY <1>6, <1>7, <3>1 DEF nodes
  <2>2. PICK i \in S : \A k \in S : i <= k
    <3> HIDE DEF S
    <3> QED BY <2>1, Least
  <2>3. ASSUME NEW k \in nodes, k < i PROVE ~Meet(k)
    <3>1. ASSUME Meet(k) PROVE FALSE
      <4>1. k \in S /\ i \in S
        BY <3>1
      <4>2. i <= k /\ i \in Nat /\ k \in Nat
        <5> HIDE DEF S
        <5> QED BY <2>1, <2>2, <4>1
      <4> QED BY <2>3, <4>2
    <3> QED BY <3>1
  <2> HIDE DEF nodes
  <2> QED BY <2>2, <2>3
<1>9. [node |-> i, offset |-> p.offset - Consumed(d, p.el, i)] \in Boundary(d, TRUE, p)
  BY <1>8, Zenon DEF Boundary
<1> QED BY <1>9

\* The end that it finds.
LEMMA EndFacts ==
    ASSUME NEW d, NEW pos, NEW L, Whole(d, pos, L, "plain"), NEW p \in Points, NEW b \in Boundary(d, FALSE, p)
    PROVE  Meets(d, pos, p, b)
<1>1. p.el \in Elements /\ p.at \in 0 .. Size
  BY PointFacts
<1>2. PICK lo, hi : Spans(p.el, lo, hi)
  BY <1>1, SpanOfElement
<1>3. lo <= p.at /\ p.at <= hi /\ p.offset = p.at - lo
  BY <1>2, PointFacts
<1>4. lo \in Nat /\ hi \in Nat /\ Size \in Nat
  BY <1>2, SpanFacts
<1> DEFINE nodes == TextNodes(d, p.el)
           Reach(i) == Consumed(d, p.el, i) + Len(d[i].text)
           Meet(i) == \/ p.offset < Reach(i)
                      \/ p.offset = Reach(i) /\ ~(FALSE /\ \E j \in nodes : j > i)
<1>5. PICK i \in nodes : Meet(i) /\ (\A j \in nodes : j < i => ~Meet(j)) /\ b = [node |-> i, offset |-> p.offset - Consumed(d, p.el, i)]
  BY Zenon DEF Boundary
<1>6. b.node = i /\ b.offset = p.offset - Consumed(d, p.el, i)
  BY <1>5
<1>7. \A j \in nodes : j \in 1 .. Len(d) /\ lo <= pos[j] /\ pos[j + 1] <= hi /\ Consumed(d, p.el, j) = pos[j] - lo /\ Reach(j) = pos[j + 1] - lo
  BY <1>2, ConsumedIs
<1>8. /\ \A j \in 1 .. Len(d) : pos[j] \in 0 .. Size /\ pos[j + 1] \in 0 .. Size /\ j \in 1 .. Len(d) + 1 /\ j + 1 \in 1 .. Len(d) + 1
      /\ \A j, k \in 1 .. Len(d) + 1 : j <= k => pos[j] <= pos[k]
      /\ Len(d) \in Nat
  BY WholeInOrder
<1>9. d[i].isText
  BY DEF TextNodes
<1>10. i \in 1 .. Len(d) /\ lo <= pos[i] /\ pos[i + 1] <= hi /\ pos[i] \in Nat /\ pos[i + 1] \in Nat /\ Reach(i) = pos[i + 1] - lo
  BY <1>7, <1>8
<1>11. p.at <= pos[i + 1]
  <2>1. p.offset < Reach(i) \/ p.offset = Reach(i)
    BY <1>5, Zenon
  <2> QED BY <1>1, <1>3, <1>4, <1>10, <2>1
<1>12. ASSUME p.at < pos[i] PROVE FALSE
  <2>1. PICK j \in nodes : j \in 1 .. Len(d) /\ pos[j] <= p.at /\ p.at < pos[j + 1]
    <3>1. p.at \in Nat /\ p.at < hi
      <4>1. pos[i] <= pos[i + 1]
        BY <1>10, WholeInOrder
      <4> QED BY <1>1, <1>4, <1>10, <1>12, <4>1
    <3> HIDE DEF nodes
    <3> QED BY <1>2, <1>3, <3>1, NodeAt DEF nodes
  <2>2. Meet(j)
    <3>1. Reach(j) = pos[j + 1] - lo
      BY <1>7
    <3>2. p.offset < Reach(j)
      BY <1>1, <1>3, <1>4, <1>8, <2>1, <3>1
    <3> QED BY <3>2, Zenon
  <2>3. i <= j
    <3>1. ~(j < i)
      BY <1>5, <2>2
    <3> QED BY <1>10, <2>1, <3>1
  <2>4. pos[i] <= pos[j]
    BY <1>8, <1>10, <2>1, <2>3
  <2> QED BY <1>1, <1>4, <1>8, <1>10, <1>12, <2>1, <2>4, SMTT(30)
<1>13. pos[i] <= p.at
  BY <1>1, <1>10, <1>12
<1>14. b.offset = p.at - pos[i]
  <2>1. Consumed(d, p.el, i) = pos[i] - lo
    BY <1>7
  <2> QED BY <1>1, <1>3, <1>4, <1>6, <1>10, <2>1
<1> HIDE DEF nodes, Reach, Meet
<1> QED BY <1>6, <1>9, <1>10, <1>11, <1>13, <1>14 DEF Meets

\* There is always an end.
LEMMA EndExists ==
    ASSUME NEW d, NEW pos, NEW L, Whole(d, pos, L, "plain"), NEW p \in Points
    PROVE  Boundary(d, FALSE, p) # {}
<1>1. p.el \in Elements /\ p.at \in 0 .. Size
  BY PointFacts
<1>2. PICK lo, hi : Spans(p.el, lo, hi)
  BY <1>1, SpanOfElement
<1>3. lo <= p.at /\ p.at <= hi /\ p.offset = p.at - lo
  BY <1>2, PointFacts
<1>4. lo \in Nat /\ hi \in Nat /\ Size \in Nat /\ p.at \in Nat /\ lo < hi
  BY <1>1, <1>2, SpanFacts
<1>5. PICK y \in Nat : lo <= y /\ y < hi /\ p.at <= y + 1
  <2>1. CASE p.at = lo
    BY <1>3, <1>4, <2>1
  <2>2. CASE p.at # lo
    <3>1. p.at - 1 \in Nat /\ lo <= p.at - 1 /\ p.at - 1 < hi /\ p.at <= (p.at - 1) + 1
      BY <1>3, <1>4, <2>2
    <3> QED BY <3>1
  <2> QED BY <2>1, <2>2
<1>6. PICK j \in TextNodes(d, p.el) : j \in 1 .. Len(d) /\ pos[j] <= y /\ y < pos[j + 1]
  BY <1>2, <1>5, NodeAt
<1> DEFINE nodes == TextNodes(d, p.el)
           Reach(i) == Consumed(d, p.el, i) + Len(d[i].text)
           Meet(i) == \/ p.offset < Reach(i)
                      \/ p.offset = Reach(i) /\ ~(FALSE /\ \E k \in nodes : k > i)
<1>7. Meet(j)
  <2>1. Reach(j) = pos[j + 1] - lo /\ pos[j + 1] \in 0 .. Size
    BY <1>2, <1>6, ConsumedIs, WholeInOrder
  <2>2. p.offset < Reach(j) \/ p.offset = Reach(j)
    BY <1>3, <1>4, <1>5, <1>6, <2>1
  <2> QED BY <2>2, Zenon
<1>8. PICK i \in nodes : Meet(i) /\ \A k \in nodes : k < i => ~Meet(k)
  <2> DEFINE S == {i \in nodes : Meet(i)}
  <2> HIDE DEF Meet
  <2>1. S # {} /\ S \subseteq Nat
    <3>1. nodes \subseteq Nat
      <4>1. DOMAIN d \subseteq Nat
        BY WholeInOrder
      <4> QED BY <4>1 DEF TextNodes, Under
    <3> HIDE DEF nodes
    <3> QED BY <1>6, <1>7, <3>1 DEF nodes
  <2>2. PICK i \in S : \A k \in S : i <= k
    <3> HIDE DEF S
    <3> QED BY <2>1, Least
  <2>3. ASSUME NEW k \in nodes, k < i PROVE ~Meet(k)
    <3>1. ASSUME Meet(k) PROVE FALSE
      <4>1. k \in S /\ i \in S
        BY <3>1
      <4>2. i <= k /\ i \in Nat /\ k \in Nat
        <5> HIDE DEF S
        <5> QED BY <2>1, <2>2, <4>1
      <4> QED BY <2>3, <4>2
    <3> QED BY <3>1
  <2> HIDE DEF nodes
  <2> QED BY <2>2, <2>3
<1>9. [node |-> i, offset |-> p.offset - Consumed(d, p.el, i)] \in Boundary(d, FALSE, p)
  BY <1>8, Zenon DEF Boundary
<1> QED BY <1>9

-----------------------------------------------------------------------------
(* What wrapping an annotation makes of a node. *)

LEMMA CutOfCut ==
    ASSUME NEW C, NEW full \in Seq(C), NEW x \in 0 .. Len(full), NEW y \in x .. Len(full),
           NEW lo \in 0 .. y - x, NEW hi \in lo .. y - x
    PROVE  Cut(Cut(full, x, y), lo, hi) = Cut(full, x + lo, x + hi)
<1>1. x \in 0 .. Len(full) /\ y \in 0 .. Len(full) /\ Len(full) \in Nat /\ x <= y
      /\ x + lo \in 0 .. Len(full) /\ x + hi \in 0 .. Len(full)
  BY LenProperties
<1>2. Cut(full, x, y) \in Seq(C) /\ Len(Cut(full, x, y)) = y - x
  BY <1>1, CutType
<1>3. CASE lo = hi
  <2>1. Cut(Cut(full, x, y), lo, hi) = <<>>
    <3>1. lo \in 0 .. Len(Cut(full, x, y)) /\ hi \in 0 .. Len(Cut(full, x, y)) /\ hi <= lo
      BY <1>1, <1>2, <1>3
    <3> QED BY <1>2, <3>1, CutType, ZenonT(60)
  <2>2. Cut(full, x + lo, x + hi) = <<>>
    <3>1. x + hi <= x + lo
      BY <1>1, <1>3
    <3> QED BY <1>1, <3>1, CutType
  <2> QED BY <2>1, <2>2
<1>4. CASE lo # hi
  <2>1. /\ x + 1 \in 1 .. Len(full) /\ y \in 1 .. Len(full)
        /\ lo + 1 \in 1 .. y - (x + 1) + 1 /\ hi \in 1 .. y - (x + 1) + 1
        /\ (x + 1) + (lo + 1) - 1 = (x + lo) + 1 /\ (x + 1) + hi - 1 = x + hi
    BY <1>1, <1>4
  <2>2. SubSeq(SubSeq(full, x + 1, y), lo + 1, hi) = SubSeq(full, (x + 1) + (lo + 1) - 1, (x + 1) + hi - 1)
    BY <2>1, SubSeqOfSubSeq
  <2>3. SubSeq(SubSeq(full, x + 1, y), lo + 1, hi) = SubSeq(full, (x + lo) + 1, x + hi)
    BY <2>1, <2>2
  <2> QED BY <2>3, Zenon DEF Cut
<1> QED BY <1>3, <1>4

\* The ids are those of one annotation each.
Distinct(L) == L \subseteq Annotation /\ \A a, b \in L : a.id = b.id => a = b

\* What a further annotation does not touch stays in its place.
LEMMA PlacedMore ==
    ASSUME NEW n, NEW from, NEW to, NEW L, Placed(n, from, to, L, "plain"), NEW a, NEW kind,
           from < to => to <= a.start.at \/ a.end.at <= from
    PROVE  Placed(n, from, to, L \cup {a}, kind)
<1>1. /\ from <= to /\ n.text = Cut(Full, from, to)
      /\ n.by # Nil => \E b \in L : n.by = b.id /\ b.start.at <= from /\ to <= b.end.at
      /\ from < to => \A b \in L : n.by = b.id \/ to <= b.start.at \/ b.end.at <= from
      /\ n.first => from < to /\ \E b \in L : n.by = b.id /\ from = b.start.at
      /\ n.text # <<>> => n.isText
      /\ \E m \in DOMAIN Article : n.path = Article[m].path /\ Place(m) <= from /\ to <= Place(m + 1)
  BY Zenon DEF Placed
<1>2. from < to => \A b \in L \cup {a} : n.by = b.id \/ to <= b.start.at \/ b.end.at <= from
  BY <1>1
<1>3. n.by # Nil => \E b \in L \cup {a} : n.by = b.id /\ b.start.at <= from /\ to <= b.end.at
  BY <1>1
<1>4. n.first => from < to /\ \E b \in L \cup {a} : n.by = b.id /\ from = b.start.at
  BY <1>1
<1> QED BY <1>1, <1>2, <1>3, <1>4, Zenon DEF Placed

\* A part of a node.
PieceOf(n, lo, hi) == [n EXCEPT !.text = SubSeq(n.text, lo + 1, hi)]

\* The node d[i] lies between x and y and no annotation wraps it.
Bare(n, x, y, L) ==
    /\ n \in Node /\ x \in 0 .. Size /\ y \in x .. Size /\ Distinct(L)
    /\ Placed(n, x, y, L, "plain") /\ n.by = Nil /\ n.isText

\* The part of a node that lies in some place.
LEMMA PieceFacts ==
    ASSUME NEW n, NEW x, NEW y, NEW L, Bare(n, x, y, L), NEW lo \in 0 .. y - x, NEW hi \in lo .. y - x
    PROVE  LET p == PieceOf(n, lo, hi)
           IN  /\ p \in Node /\ p.text = Cut(Full, x + lo, x + hi)
               /\ p.path = n.path /\ p.by = Nil /\ p.first = FALSE /\ p.isText = TRUE
<1>1. n \in Node /\ x \in 0 .. Size /\ y \in x .. Size /\ Placed(n, x, y, L, "plain") /\ n.by = Nil /\ n.isText
  BY DEF Bare
<1>2. n.text = Cut(Full, x, y) /\ Full \in Seq(Glyphs) /\ Size = Len(Full)
  <2>1. n.text = Cut(Full, x, y)
    BY <1>1, Zenon DEF Placed
  <2> QED BY <2>1, PlaceFacts DEF Size
<1>3. SubSeq(n.text, lo + 1, hi) = Cut(n.text, lo, hi)
  BY Zenon DEF Cut
<1>4. SubSeq(n.text, lo + 1, hi) = Cut(Full, x + lo, x + hi)
  BY <1>1, <1>2, <1>3, CutOfCut
<1>5. Cut(Full, x + lo, x + hi) \in Seq(Glyphs)
  <2>1. x + lo \in 0 .. Len(Full) /\ x + hi \in 0 .. Len(Full)
    BY <1>1, <1>2
  <2> QED BY <1>2, <2>1, CutType
<1>6. n.first = FALSE
  <2>1. ~ n.first
    <3>1. n.first => \E b \in L : n.by = b.id
      BY <1>1, Zenon DEF Placed
    <3>2. \A b \in L : b.id \in Ids
      BY DEF Bare, Distinct, Annotation
    <3> QED BY <1>1, <3>1, <3>2, NilAssumption
  <2> QED BY <1>1, <2>1 DEF Node
<1>7. PieceOf(n, lo, hi) = [n EXCEPT !.text = Cut(Full, x + lo, x + hi)]
  BY <1>4, Zenon DEF PieceOf
<1> QED BY <1>1, <1>5, <1>6, <1>7 DEF Node

\* A part of a node that stays as it was.
LEMMA RestPlaced ==
    ASSUME NEW n, NEW x, NEW y, NEW L, Bare(n, x, y, L), NEW a, NEW lo \in 0 .. y - x, NEW hi \in lo .. y - x,
           lo < hi => x + hi <= a.start.at \/ a.end.at <= x + lo, NEW kind
    PROVE  Covers(<<PieceOf(n, lo, hi)>>, x + lo, x + hi, L \cup {a}, kind)
<1> DEFINE p == PieceOf(n, lo, hi)
<1>1. /\ p \in Node /\ p.text = Cut(Full, x + lo, x + hi)
      /\ p.path = n.path /\ p.by = Nil /\ p.first = FALSE /\ p.isText = TRUE
  BY PieceFacts
<1>2. n \in Node /\ x \in 0 .. Size /\ y \in x .. Size /\ Placed(n, x, y, L, "plain") /\ n.by = Nil /\ Size \in Nat
  BY PlaceFacts DEF Bare
<1> HIDE DEF p
<1>3. x + lo \in 0 .. Size /\ x + hi \in 0 .. Size /\ x <= x + lo /\ x + hi <= y /\ x + lo <= x + hi /\ (x + lo < x + hi => lo < hi /\ x < y)
  BY <1>2
<1>4. PICK m \in DOMAIN Article : n.path = Article[m].path /\ Place(m) <= x /\ y <= Place(m + 1)
  BY <1>2, Zenon DEF Placed
<1>5. Place(m) <= x + lo /\ x + hi <= Place(m + 1)
  <2>1. m \in 1 .. Len(Article) + 1 /\ m + 1 \in 1 .. Len(Article) + 1
    BY ArticleFacts
  <2>2. Place(m) \in 0 .. Size /\ Place(m + 1) \in 0 .. Size
    BY <2>1, PlaceFacts
  <2> QED BY <1>2, <1>3, <1>4, <2>2
<1>6. x < y => \A b \in L : y <= b.start.at \/ b.end.at <= x
  <2>1. x < y => \A b \in L : n.by = b.id \/ y <= b.start.at \/ b.end.at <= x
    BY <1>2, Zenon DEF Placed
  <2>2. \A b \in L : n.by # b.id
    BY <1>2, NilAssumption DEF Bare, Distinct, Annotation
  <2> QED BY <2>1, <2>2
<1>7. x + lo < x + hi => \A b \in L \cup {a} : x + hi <= b.start.at \/ b.end.at <= x + lo
  <2>1. ASSUME x + lo < x + hi, NEW b \in L PROVE x + hi <= b.start.at \/ b.end.at <= x + lo
    <3>1. y <= b.start.at \/ b.end.at <= x
      BY <1>3, <1>6, <2>1
    <3>2. b.start.at \in Int /\ b.end.at \in Int
      <4>1. b.start \in Points /\ b.end \in Points
        BY DEF Bare, Distinct, Annotation
      <4> QED BY <4>1, <1>2, PointFacts
    <3> QED BY <1>2, <1>3, <3>1, <3>2
  <2>2. x + lo < x + hi => x + hi <= a.start.at \/ a.end.at <= x + lo
    BY <1>3
  <2> QED BY <2>1, <2>2
<1>8. Placed(p, x + lo, x + hi, L \cup {a}, kind)
  BY <1>1, <1>3, <1>4, <1>5, <1>7 DEF Placed
<1>9. Covers(<<p>>, x + lo, x + hi, L \cup {a}, kind)
  BY <1>1, <1>3, <1>8, CoversOne
<1> QED BY <1>9 DEF p

\* The part that an annotation wraps.
LEMMA MarkedPlaced ==
    ASSUME NEW n, NEW x, NEW y, NEW L, Bare(n, x, y, L), NEW a \in Annotation, NEW lo \in 0 .. y - x, NEW hi \in lo .. y - x,
           a.start.at <= x + lo, x + hi <= a.end.at,
           NEW isFirst \in BOOLEAN, isFirst => x + lo = a.start.at /\ lo < hi, NEW kind
    PROVE  LET p == [PieceOf(n, lo, hi) EXCEPT !.by = a.id, !.first = isFirst]
           IN  p \in Node /\ Covers(<<p>>, x + lo, x + hi, L \cup {a}, kind)
<1> DEFINE q == PieceOf(n, lo, hi)
           p == [q EXCEPT !.by = a.id, !.first = isFirst]
<1>1. /\ q \in Node /\ q.text = Cut(Full, x + lo, x + hi)
      /\ q.path = n.path /\ q.by = Nil /\ q.first = FALSE /\ q.isText = TRUE
  BY PieceFacts
<1>2. n \in Node /\ x \in 0 .. Size /\ y \in x .. Size /\ Placed(n, x, y, L, "plain") /\ n.by = Nil /\ Size \in Nat
  BY PlaceFacts DEF Bare
<1> HIDE DEF q
<1>a. /\ p \in Node /\ p.text = Cut(Full, x + lo, x + hi)
      /\ p.path = n.path /\ p.by = a.id /\ p.first = isFirst /\ p.isText = TRUE
  BY <1>1 DEF Node, Annotation
<1> HIDE DEF p
<1>3. x + lo \in 0 .. Size /\ x + hi \in 0 .. Size /\ x <= x + lo /\ x + hi <= y /\ x + lo <= x + hi /\ (x + lo < x + hi <=> lo < hi) /\ (lo < hi => x < y)
  BY <1>2
<1>4. PICK m \in DOMAIN Article : n.path = Article[m].path /\ Place(m) <= x /\ y <= Place(m + 1)
  BY <1>2, Zenon DEF Placed
<1>5. Place(m) <= x + lo /\ x + hi <= Place(m + 1)
  <2>1. m \in 1 .. Len(Article) + 1 /\ m + 1 \in 1 .. Len(Article) + 1
    BY ArticleFacts
  <2>2. Place(m) \in 0 .. Size /\ Place(m + 1) \in 0 .. Size
    BY <2>1, PlaceFacts
  <2> QED BY <1>2, <1>3, <1>4, <2>2
<1>6. x < y => \A b \in L : y <= b.start.at \/ b.end.at <= x
  <2>1. x < y => \A b \in L : n.by = b.id \/ y <= b.start.at \/ b.end.at <= x
    BY <1>2, Zenon DEF Placed
  <2>2. \A b \in L : n.by # b.id
    BY <1>2, NilAssumption DEF Bare, Distinct, Annotation
  <2> QED BY <2>1, <2>2
<1>7. x + lo < x + hi => \A b \in L \cup {a} : p.by = b.id \/ x + hi <= b.start.at \/ b.end.at <= x + lo
  <2>1. ASSUME x + lo < x + hi, NEW b \in L PROVE x + hi <= b.start.at \/ b.end.at <= x + lo
    <3>1. y <= b.start.at \/ b.end.at <= x
      BY <1>3, <1>6, <2>1
    <3>2. b.start.at \in Int /\ b.end.at \in Int
      <4>1. b.start \in Points /\ b.end \in Points
        BY DEF Bare, Distinct, Annotation
      <4> QED BY <4>1, <1>2, PointFacts
    <3> QED BY <1>2, <1>3, <3>1, <3>2
  <2> QED BY <1>a, <2>1
<1>8. Placed(p, x + lo, x + hi, L \cup {a}, kind)
  <2>1. p.by # Nil => \E b \in L \cup {a} : p.by = b.id /\ b.start.at <= x + lo /\ x + hi <= b.end.at
    BY <1>a
  <2>2. p.first => x + lo < x + hi /\ \E b \in L \cup {a} : p.by = b.id /\ x + lo = b.start.at
    BY <1>a, <1>3
  <2> QED BY <1>a, <1>3, <1>4, <1>5, <1>7, <2>1, <2>2 DEF Placed
<1>9. Covers(<<p>>, x + lo, x + hi, L \cup {a}, kind)
  BY <1>a, <1>3, <1>8, CoversOne
<1> QED BY <1>a, <1>9 DEF p, q

\* What AddAnnotation goes on to do: a range from s to e in which nothing is wrapped.
Selects(d, pos, L, a, s, e) ==
    /\ Whole(d, pos, L, "plain") /\ Distinct(L) /\ a \in Annotation /\ a.start.at < a.end.at
    /\ Meets(d, pos, a.start, s) /\ Meets(d, pos, a.end, e)
    /\ \A i \in s.node .. e.node : d[i].isText => d[i].by = Nil

\* What the callback adds: nothing, or the reference of a note.
Extra(d, e, extra, kind) == extra = <<>> \/ (extra = <<NoteReference(d[e.node])>> /\ kind = "noted")

\* The places of a range.
LEMMA SelectsFacts ==
    ASSUME NEW d, NEW pos, NEW L, NEW a, NEW s, NEW e, Selects(d, pos, L, a, s, e)
    PROVE  /\ s.node \in 1 .. Len(d) /\ e.node \in 1 .. Len(d) /\ s.node <= e.node
           /\ a.start.at \in 0 .. Size /\ a.end.at \in 0 .. Size /\ a.start.at < a.end.at
           /\ pos[s.node] <= a.start.at /\ a.start.at <= pos[s.node + 1] /\ s.offset = a.start.at - pos[s.node]
           /\ pos[e.node] <= a.end.at /\ a.end.at <= pos[e.node + 1] /\ e.offset = a.end.at - pos[e.node]
           /\ d[e.node].isText /\ d[e.node].by = Nil
           /\ Whole(d, pos, L, "plain") /\ Distinct(L) /\ a \in Annotation
           /\ (s.node = e.node => s.offset <= e.offset)
<1>1. /\ Whole(d, pos, L, "plain") /\ Distinct(L) /\ a \in Annotation /\ a.start.at < a.end.at
      /\ Meets(d, pos, a.start, s) /\ Meets(d, pos, a.end, e)
      /\ \A i \in s.node .. e.node : d[i].isText => d[i].by = Nil
  BY DEF Selects
<1>2. a.start.at \in 0 .. Size /\ a.end.at \in 0 .. Size
  <2>1. a.start \in Points /\ a.end \in Points
    BY <1>1 DEF Annotation
  <2> QED BY <2>1, PointFacts
<1>3. /\ s.node \in 1 .. Len(d) /\ e.node \in 1 .. Len(d) /\ d[e.node].isText
      /\ pos[s.node] <= a.start.at /\ a.start.at <= pos[s.node + 1] /\ s.offset = a.start.at - pos[s.node]
      /\ pos[e.node] <= a.end.at /\ a.end.at <= pos[e.node + 1] /\ e.offset = a.end.at - pos[e.node]
  BY <1>1 DEF Meets
<1>4. /\ pos[s.node] \in 0 .. Size /\ pos[e.node + 1] \in 0 .. Size /\ Size \in Nat /\ Len(d) \in Nat /\ pos[e.node] \in 0 .. Size
      /\ (e.node + 1 <= s.node => pos[e.node + 1] <= pos[s.node])
  BY <1>1, <1>3, WholeInOrder
<1>5. s.node <= e.node
  <2>1. PICK x, y, j, k : x = pos[s.node] /\ y = pos[e.node + 1] /\ j = s.node /\ k = e.node
    OBVIOUS
  <2>2. x \in Int /\ y \in Int /\ x <= a.start.at /\ a.end.at <= y /\ j \in Int /\ k \in Int /\ (k + 1 <= j => y <= x)
    BY <1>3, <1>4, <2>1
  <2> QED BY <1>1, <1>2, <2>1, <2>2
<1>6. d[e.node].by = Nil
  <2>1. e.node \in s.node .. e.node
    BY <1>3, <1>5
  <2> QED BY <1>1, <1>3, <2>1
<1>7. ASSUME s.node = e.node PROVE s.offset <= e.offset
  <2> DEFINE x == pos[e.node]
  <2>1. s.offset = a.start.at - x /\ e.offset = a.end.at - x /\ x \in 0 .. Size
    BY <1>3, <1>4, <1>7
  <2> HIDE DEF x
  <2> QED BY <1>1, <1>2, <1>4, <2>1
<1> QED BY <1>1, <1>2, <1>3, <1>5, <1>6, <1>7

\* The reference of a note takes no place.
LEMMA ExtraCovers ==
    ASSUME NEW d, NEW pos, NEW L, NEW a, NEW s, NEW e, Selects(d, pos, L, a, s, e),
           NEW extra, NEW kind, Extra(d, e, extra, kind), NEW v \in 0 .. Size
    PROVE  extra \in Seq(Node) /\ Covers(extra, v, v, L \cup {a}, kind)
<1>1. CASE extra = <<>>
  <2>1. <<>> \in Seq(Node)
    OBVIOUS
  <2> QED BY <1>1, <2>1, CoversNone
<1>2. CASE extra = <<NoteReference(d[e.node])>> /\ kind = "noted"
  <2> DEFINE n == d[e.node]
             p == NoteReference(n)
  <2>1. e.node \in 1 .. Len(d) /\ n.isText /\ n.by = Nil /\ Whole(d, pos, L, "plain") /\ Distinct(L)
    BY SelectsFacts
  <2>2. n \in Node /\ Placed(n, pos[e.node], pos[e.node + 1], L, "plain")
    BY <2>1, WholeInOrder
  <2> HIDE DEF n
  <2>3. n.first = FALSE
    <3>1. n.first => \E b \in L : n.by = b.id
      BY <2>2, Zenon DEF Placed
    <3>2. \A b \in L : b.id \in Ids
      BY <2>1 DEF Distinct, Annotation
    <3>3. ~ n.first
      BY <2>1, <3>1, <3>2, NilAssumption
    <3> QED BY <2>2, <3>3 DEF Node
  <2>4. p \in Node /\ p.by = Nil /\ p.first = FALSE /\ p.isText = TRUE
    <3>1. Append(n.path, Reference) \in Seq(Elements \cup {Reference})
      <4>1. n.path \in Seq(Elements \cup {Reference}) /\ Reference \in Elements \cup {Reference}
        BY <2>2 DEF Node
      <4> QED BY <4>1, AppendProperties
    <3>2. <<Reference>> \in Seq(Glyphs)
      BY DEF Glyphs
    <3>3. p = [n EXCEPT !.text = <<Reference>>, !.path = Append(n.path, Reference)]
      BY <2>2 DEF NoteReference, Node
    <3> QED BY <2>1, <2>2, <2>3, <3>1, <3>2, <3>3 DEF Node
  <2> HIDE DEF p
  <2>5. v <= v /\ ~(v < v) /\ "noted" # "plain"
    OBVIOUS
  <2>6. Placed(p, v, v, L \cup {a}, "noted")
    BY <2>4, <2>5 DEF Placed
  <2>7. Covers(<<p>>, v, v, L \cup {a}, "noted") /\ <<p>> \in Seq(Node)
    BY <2>4, <2>6, CoversOne
  <2> QED BY <1>2, <2>7 DEF p, n
<1> QED BY <1>1, <1>2 DEF Extra

\* The part of the node between x and y that the annotation wraps.
WrapsWithin(n, x, y, L, a, lo, hi, extra, isFirst, kind) ==
    /\ extra \in Seq(Node) /\ Covers(extra, x + hi, x + hi, L \cup {a}, kind)
    /\ a.start.at <= x + lo /\ x + hi <= a.end.at
    /\ lo > 0 => x + lo <= a.start.at
    /\ x + hi < y => a.end.at <= x + hi
    /\ isFirst => x + lo = a.start.at /\ lo < hi

\* The pieces of a wrapped node lie where the node lay.
LEMMA WrappedCovers ==
    ASSUME NEW n, NEW x, NEW y, NEW L, Bare(n, x, y, L), NEW a, NEW lo, NEW hi, NEW extra, NEW isFirst, NEW kind,
           WrapsWithin(n, x, y, L, a, lo, hi, extra, isFirst, kind),
           a \in Annotation, lo \in 0 .. y - x, hi \in lo .. y - x, isFirst \in BOOLEAN
    PROVE  /\ Wrapped(n, lo, hi, a.id, isFirst, extra) \in Seq(Node)
           /\ Covers(Wrapped(n, lo, hi, a.id, isFirst, extra), x, y, L \cup {a}, kind)
<1> DEFINE A == IF lo > 0 THEN <<PieceOf(n, 0, lo)>> ELSE <<>>
           B == <<[PieceOf(n, lo, hi) EXCEPT !.by = a.id, !.first = isFirst]>>
           D == <<PieceOf(n, hi, Len(n.text))>>
           K == L \cup {a}
<1>0. n \in Node /\ x \in 0 .. Size /\ y \in x .. Size /\ Placed(n, x, y, L, "plain") /\ Size \in Nat
  BY PlaceFacts DEF Bare
<1>w. /\ extra \in Seq(Node) /\ Covers(extra, x + hi, x + hi, L \cup {a}, kind)
      /\ a.start.at <= x + lo /\ x + hi <= a.end.at
      /\ lo > 0 => x + lo <= a.start.at
      /\ x + hi < y => a.end.at <= x + hi
      /\ isFirst => x + lo = a.start.at /\ lo < hi
  BY Zenon DEF WrapsWithin
<1>1. Len(n.text) = y - x /\ y \in 0 .. Size
  <2>1. y \in 0 .. Size
    BY <1>0
  <2> QED BY <1>0, <2>1, TextLength
<1>2. Wrapped(n, lo, hi, a.id, isFirst, extra) = ((A \o B) \o extra) \o D
  BY Zenon DEF Wrapped, PieceOf
<1>3. A \in Seq(Node) /\ Covers(A, x, x + lo, K, kind)
  <2>1. CASE lo = 0
    <3>1. A = <<>> /\ x + lo = x
      BY <1>0, <2>1
    <3>2. <<>> \in Seq(Node)
      OBVIOUS
    <3> HIDE DEF A
    <3> QED BY <1>0, <3>1, <3>2, CoversNone
  <2>2. CASE lo # 0
    <3>1. lo > 0 /\ 0 \in 0 .. y - x /\ lo \in 0 .. y - x /\ lo \in 0 .. (y - x)
          /\ x + 0 = x
      BY <1>0, <2>2
    <3>2. 0 < lo => x + lo <= a.start.at \/ a.end.at <= x + 0
      BY <1>w, <3>1
    <3>3. Covers(<<PieceOf(n, 0, lo)>>, x + 0, x + lo, K, kind)
      BY <3>1, <3>2, RestPlaced
    <3>4. PieceOf(n, 0, lo) \in Node
      BY <3>1, PieceFacts
    <3>5. A = <<PieceOf(n, 0, lo)>>
      BY <3>1
    <3>6. <<PieceOf(n, 0, lo)>> \in Seq(Node)
      BY <3>4
    <3> HIDE DEF A, K
    <3> QED BY <3>1, <3>3, <3>5, <3>6
  <2> QED BY <2>1, <2>2
<1>4. B \in Seq(Node) /\ Covers(B, x + lo, x + hi, K, kind)
  <2>1. [PieceOf(n, lo, hi) EXCEPT !.by = a.id, !.first = isFirst] \in Node
    BY <1>w, MarkedPlaced
  <2>2. Covers(B, x + lo, x + hi, K, kind)
    BY <1>w, MarkedPlaced
  <2> QED BY <2>1, <2>2
<1>5. D \in Seq(Node) /\ Covers(D, x + hi, y, K, kind)
  <2>1. hi \in 0 .. y - x /\ y - x \in hi .. y - x /\ x + (y - x) = y
    BY <1>0
  <2>2. hi < y - x => x + (y - x) <= a.start.at \/ a.end.at <= x + hi
    BY <1>w, <1>0
  <2>3. Covers(<<PieceOf(n, hi, y - x)>>, x + hi, x + (y - x), K, kind)
    BY <2>1, <2>2, RestPlaced
  <2>4. PieceOf(n, hi, y - x) \in Node
    BY <2>1, PieceFacts
  <2>5. <<PieceOf(n, hi, y - x)>> \in Seq(Node)
    BY <2>4
  <2>6. D = <<PieceOf(n, hi, y - x)>>
    BY <1>1
  <2> HIDE DEF D, K
  <2> QED BY <2>1, <2>3, <2>5, <2>6
<1> HIDE DEF A, B, D
<1>6. A \o B \in Seq(Node) /\ Covers(A \o B, x, x + hi, K, kind)
  <2>1. A \o B \in Seq(Node)
    BY <1>3, <1>4, ConcatProperties
  <2>2. Covers(A \o B, x, x + hi, K, kind)
    <3> HIDE DEF K
    <3> QED BY <1>3, <1>4, CoversConcat
  <2> QED BY <2>1, <2>2
<1>7. (A \o B) \o extra \in Seq(Node) /\ Covers((A \o B) \o extra, x, x + hi, K, kind)
  <2>1. (A \o B) \o extra \in Seq(Node)
    BY <1>w, <1>6, ConcatProperties
  <2>2. Covers((A \o B) \o extra, x, x + hi, K, kind)
    <3>1. Covers(extra, x + hi, x + hi, K, kind)
      BY <1>w
    <3> HIDE DEF K
    <3> QED BY <1>w, <1>6, <3>1, CoversConcat
  <2> QED BY <2>1, <2>2
<1>8. ((A \o B) \o extra) \o D \in Seq(Node) /\ Covers(((A \o B) \o extra) \o D, x, y, K, kind)
  <2>1. ((A \o B) \o extra) \o D \in Seq(Node)
    BY <1>7, <1>5, ConcatProperties
  <2>2. Covers(((A \o B) \o extra) \o D, x, y, K, kind)
    <3> HIDE DEF K
    <3> QED BY <1>7, <1>5, CoversConcat
  <2> QED BY <2>1, <2>2
<1> QED BY <1>2, <1>8

\* What becomes of one node when an annotation is added.
LEMMA RewrittenCovers ==
    ASSUME NEW d, NEW pos, NEW L, NEW a, NEW s, NEW e, Selects(d, pos, L, a, s, e),
           NEW extra, NEW kind, Extra(d, e, extra, kind), NEW i \in 1 .. Len(d)
    PROVE  /\ Rewritten(d, i, s, e, a.id, extra) \in Seq(Node)
           /\ Covers(Rewritten(d, i, s, e, a.id, extra), pos[i], pos[i + 1], L \cup {a}, kind)
<1> DEFINE n == d[i]
           K == L \cup {a}
           R == Rewritten(d, i, s, e, a.id, extra)
           out == i \notin s.node .. e.node \/ ~n.isText \/ (i = s.node /\ s.offset = Len(n.text))
<1>a. PICK x, y, ps, ps1, pe, pe1, u, v, sn, en :
         /\ x = pos[i] /\ y = pos[i + 1] /\ ps = pos[s.node] /\ ps1 = pos[s.node + 1] /\ pe = pos[e.node] /\ pe1 = pos[e.node + 1]
         /\ u = a.start.at /\ v = a.end.at /\ sn = s.node /\ en = e.node
  OBVIOUS
<1>b. /\ Whole(d, pos, L, "plain") /\ Distinct(L) /\ a \in Annotation
      /\ sn \in 1 .. Len(d) /\ en \in 1 .. Len(d) /\ s.offset = u - ps /\ e.offset = v - pe
  BY <1>a, SelectsFacts
<1>1. /\ u \in 0 .. Size /\ v \in 0 .. Size /\ u < v /\ ps <= u /\ u <= ps1 /\ pe <= v /\ v <= pe1 /\ sn <= en
  BY <1>a, SelectsFacts
<1>2. /\ x \in 0 .. Size /\ y \in 0 .. Size /\ x <= y /\ Size \in Nat
      /\ ps \in 0 .. Size /\ ps1 \in 0 .. Size /\ pe \in 0 .. Size /\ pe1 \in 0 .. Size
      /\ sn \in Nat /\ en \in Nat /\ i \in Nat
  <2>1. Whole(d, pos, L, "plain")
    BY <1>b
  <2>2. /\ Len(d) \in Nat /\ Size \in Nat
        /\ \A j \in 1 .. Len(d) : pos[j] \in 0 .. Size /\ pos[j + 1] \in 0 .. Size /\ pos[j] <= pos[j + 1]
    BY <2>1, WholeInOrder
  <2>3. sn = s.node /\ en = e.node /\ sn \in 1 .. Len(d) /\ en \in 1 .. Len(d)
    BY <1>a, <1>b
  <2>4. x \in 0 .. Size /\ y \in 0 .. Size /\ x <= y
    BY <1>a, <2>2
  <2>5. ps \in 0 .. Size /\ ps1 \in 0 .. Size /\ pe \in 0 .. Size /\ pe1 \in 0 .. Size
    BY <1>a, <2>2, <2>3
  <2> QED BY <2>2, <2>3, <2>4, <2>5
<1>c. n \in Node /\ Placed(n, x, y, L, "plain") /\ Len(d) \in Nat
  <2>1. Whole(d, pos, L, "plain")
    BY <1>b
  <2>2. d[i] \in Node /\ Placed(d[i], pos[i], pos[i + 1], L, "plain") /\ Len(d) \in Nat
    BY <2>1, WholeInOrder
  <2> QED BY <1>a, <2>2, Zenon
<1>3. /\ i < sn => y <= ps
      /\ en < i => pe1 <= x
      /\ sn < i => ps1 <= x
      /\ i < en => y <= pe
  <2>1. \A j, k \in 1 .. Len(d) + 1 : j <= k => pos[j] <= pos[k]
    BY <1>b, WholeInOrder
  <2>2. i \in 1 .. Len(d) + 1 /\ i + 1 \in 1 .. Len(d) + 1 /\ sn \in 1 .. Len(d) + 1 /\ sn + 1 \in 1 .. Len(d) + 1 /\ en \in 1 .. Len(d) + 1 /\ en + 1 \in 1 .. Len(d) + 1
    BY <1>b, WholeInOrder
  <2>3. (i < sn => i + 1 <= sn) /\ (en < i => en + 1 <= i) /\ (sn < i => sn + 1 <= i) /\ (i < en => i + 1 <= en)
    BY <1>2
  <2> QED BY <1>a, <2>1, <2>2, <2>3
<1>4. Len(n.text) = y - x /\ (n.text = <<>> <=> x = y)
  BY <1>2, <1>c, TextLength
<1>d. SUFFICES R \in Seq(Node) /\ Covers(R, x, y, K, kind)
  BY <1>a
<1>5. CASE out
  <2>1. R = <<n>>
    BY <1>5, Zenon DEF Rewritten
  <2>2. x < y => y <= u \/ v <= x
    <3>1. CASE i \notin sn .. en
      <4>1. i < sn \/ en < i
        BY <1>2, <3>1
      <4> QED BY <1>1, <1>2, <1>3, <4>1
    <3>2. CASE ~n.isText
      <4>1. n.text = <<>>
        BY <1>c, <3>2, Zenon DEF Placed
      <4> QED BY <1>2, <1>4, <4>1
    <3>3. CASE i = sn /\ s.offset = Len(n.text)
      <4>1. x = ps /\ u - ps = y - x
        BY <1>a, <1>b, <1>4, <3>3
      <4> QED BY <1>1, <1>2, <4>1
    <3> QED BY <1>5, <1>a, <3>1, <3>2, <3>3
  <2>3. Placed(n, x, y, K, kind)
    BY <1>a, <1>c, <2>2, PlacedMore
  <2> HIDE DEF n, K, R
  <2>4. Covers(<<n>>, x, y, K, kind) /\ <<n>> \in Seq(Node)
    BY <1>2, <1>c, <2>3, CoversOne
  <2> QED BY <2>1, <2>4
<1>6. CASE ~out
  <2> DEFINE lo == IF i = s.node THEN s.offset ELSE 0
             hi == IF i = e.node THEN e.offset ELSE Len(n.text)
             after == IF i = e.node THEN extra ELSE <<>>
             isFirst == (i = s.node)
  <2>1. R = Wrapped(n, lo, hi, a.id, isFirst, after)
    BY <1>6, Zenon DEF Rewritten
  <2>2. i \in sn .. en /\ n.isText /\ ~(i = sn /\ s.offset = Len(n.text)) /\ n.by = Nil
    BY <1>6, <1>a DEF Selects
  <2>3. Bare(n, x, y, L)
    <3>2. y \in x .. Size
      BY <1>2
    <3> QED BY <1>b, <1>c, <1>2, <2>2, <3>2 DEF Bare
  <2>a. /\ lo = (IF i = sn THEN u - ps ELSE 0) /\ hi = (IF i = en THEN v - pe ELSE y - x)
        /\ isFirst \in BOOLEAN /\ (isFirst => i = sn)
        /\ (i = en => after = extra) /\ (i # en => after = <<>>)
    BY <1>a, <1>b, <1>4
  <2>b. (i # sn => sn < i) /\ (i # en => i < en) /\ (i = sn => x = ps /\ y = ps1 /\ u - ps # y - x) /\ (i = en => x = pe /\ y = pe1)
    <3>1. (i # sn => sn < i) /\ (i # en => i < en)
      BY <1>2, <2>2
    <3>2. (i = sn => x = ps /\ y = ps1) /\ (i = en => x = pe /\ y = pe1)
      BY <1>a
    <3>3. i = sn => s.offset # y - x
      BY <1>4, <2>2
    <3>4. s.offset = u - ps
      BY <1>b
    <3> QED BY <3>1, <3>2, <3>3, <3>4
  <2> HIDE DEF n, lo, hi, after, isFirst, out
  <2>4. x + lo = (IF i = sn THEN u ELSE x) /\ x + hi = (IF i = en THEN v ELSE y) /\ lo \in Int /\ hi \in Int
    BY <1>2, <1>1, <2>a, <2>b
  <2>5. (i # sn => u <= x) /\ (i # en => y <= v) /\ (i = sn => x <= u /\ u < y) /\ (i = en => x <= v /\ v <= y)
    BY <1>1, <1>2, <1>3, <2>b
  <2>6. x <= x + lo /\ x + lo <= x + hi /\ x + hi <= y /\ (i = sn => x + lo < x + hi) /\ u <= x + lo /\ x + hi <= v
        /\ (lo > 0 => x + lo <= u) /\ (x + hi < y => v <= x + hi)
    BY <1>1, <1>2, <2>4, <2>5, <2>a
  <2>7. lo \in 0 .. y - x /\ hi \in lo .. y - x /\ (isFirst => x + lo = u /\ lo < hi) /\ x + hi \in 0 .. Size
    <3>1. 0 <= lo /\ lo <= hi /\ hi <= y - x
      BY <1>2, <2>4, <2>6
    <3>2. isFirst => x + lo = u /\ lo < hi
      <4>1. isFirst => i = sn
        BY <2>a
      <4>2. i = sn => x + lo = u /\ x + lo < x + hi
        BY <2>4, <2>6
      <4>3. x + lo < x + hi => lo < hi
        BY <1>2, <2>4
      <4> QED BY <4>1, <4>2, <4>3
    <3>3. x + hi \in 0 .. Size
      BY <1>2, <2>4, <2>6
    <3>4. lo \in 0 .. y - x /\ hi \in lo .. y - x
      BY <1>2, <2>4, <3>1
    <3> QED BY <3>2, <3>3, <3>4
  <2>8. after \in Seq(Node) /\ Covers(after, x + hi, x + hi, K, kind)
    <3>1. CASE i = en
      BY <2>7, <2>a, <3>1, ExtraCovers
    <3>2. CASE i # en
      <4>1. <<>> \in Seq(Node)
        OBVIOUS
      <4> HIDE DEF K
      <4> QED BY <2>7, <2>a, <3>2, <4>1, CoversNone
    <3> QED BY <3>1, <3>2
  <2>9. /\ a.start.at <= x + lo /\ x + hi <= a.end.at /\ (lo > 0 => x + lo <= a.start.at) /\ (x + hi < y => a.end.at <= x + hi)
        /\ (isFirst => x + lo = a.start.at /\ lo < hi)
    BY <1>a, <2>6, <2>7
  <2>10. Wrapped(n, lo, hi, a.id, isFirst, after) \in Seq(Node) /\ Covers(Wrapped(n, lo, hi, a.id, isFirst, after), x, y, K, kind)
    <3>1. a \in Annotation /\ isFirst \in BOOLEAN /\ lo \in 0 .. y - x /\ hi \in lo .. y - x
      BY <1>b, <2>7, <2>a
    <3> HIDE DEF K
    <3>2. WrapsWithin(n, x, y, L, a, lo, hi, after, isFirst, kind)
      BY <2>8, <2>9, Zenon DEF WrapsWithin, K
    <3>3. /\ Wrapped(n, lo, hi, a.id, isFirst, after) \in Seq(Node)
          /\ Covers(Wrapped(n, lo, hi, a.id, isFirst, after), x, y, L \cup {a}, kind)
      BY <2>3, <3>1, <3>2, WrappedCovers
    <3> QED BY <3>3 DEF K
  <2> HIDE DEF R
  <2> QED BY <2>1, <2>10
<1> QED BY <1>5, <1>6

-----------------------------------------------------------------------------
(* What is in the joined sequence. *)

LEMMA FlattenRange ==
    ASSUME NEW C, NEW ss \in Seq(Seq(C))
    PROVE  Range(FlattenSeq(ss)) = UNION {Range(ss[i]) : i \in 1 .. Len(ss)}
<1> DEFINE F(n) == Range(FlattenSeq(Upto(ss, n))) = UNION {Range(ss[i]) : i \in 1 .. n}
           S == {n \in Nat : n <= Len(ss) => F(n)}
<1>0. Len(ss) \in Nat /\ Len(ss) \in 0 .. Len(ss)
  BY LenProperties
<1>1. 0 \in S
  <2>1. Range(<<>>) = {}
    BY DEF Range
  <2>2. FlattenSeq(Upto(ss, 0)) = <<>>
    BY UptoEnds, FlattenEmpty
  <2> QED BY <2>1, <2>2
<1>2. ASSUME NEW n \in 0 .. Len(ss) - 1, n \in S PROVE n + 1 \in S
  <2>1. n \in 0 .. Len(ss) /\ n + 1 \in 1 .. Len(ss) /\ n <= Len(ss)
    BY <1>0
  <2>2. FlattenSeq(Upto(ss, n + 1)) = FlattenSeq(Upto(ss, n)) \o ss[n + 1]
    BY FlattenStep
  <2>3. FlattenSeq(Upto(ss, n)) \in Seq(C) /\ ss[n + 1] \in Seq(C)
    BY <2>1, FlattenUptoType, ElementOfSeq
  <2>4. Range(FlattenSeq(Upto(ss, n)) \o ss[n + 1]) = Range(FlattenSeq(Upto(ss, n))) \cup Range(ss[n + 1])
    BY <2>3, RangeConcatenation
  <2>5. 1 .. (n + 1) = (1 .. n) \cup {n + 1}
    OBVIOUS
  <2>6. F(n)
    BY <1>2, <2>1
  <2>7. F(n + 1)
    <3>1. UNION {Range(ss[i]) : i \in 1 .. (n + 1)} = (UNION {Range(ss[i]) : i \in 1 .. n}) \cup Range(ss[n + 1])
      BY <2>5
    <3> QED BY <2>2, <2>4, <2>6, <3>1
  <2> HIDE DEF F
  <2> QED BY <2>7
<1> HIDE DEF S
<1>3. 0 .. Len(ss) \subseteq S
  BY <1>0, <1>1, <1>2, Induct
<1>4. F(Len(ss))
  BY <1>0, <1>3 DEF S
<1> QED BY <1>4, UptoEnds

\* The pieces of a sequence that have an element, in their order.
Increases(f, n, m) == f \in [1 .. n -> 1 .. m] /\ \A i, j \in 1 .. n : i < j => f[i] < f[j]

\* Each element of the joined sequence is a piece, and the pieces are in order.
Picks(w, ss, m, f) ==
    Increases(f, Len(w), m) /\ \A k \in 1 .. Len(w) : ss[f[k]] = <<w[k]>>

LEMMA FlattenPicks ==
    ASSUME NEW C, NEW ss \in Seq(Seq(C)), \A i \in 1 .. Len(ss) : Len(ss[i]) <= 1
    PROVE  \E f : Picks(FlattenSeq(ss), ss, Len(ss), f)
<1> DEFINE W(n) == FlattenSeq(Upto(ss, n))
           F(n) == \E f : Picks(W(n), ss, n, f)
           S == {n \in Nat : n <= Len(ss) => F(n)}
<1>0. Len(ss) \in Nat /\ Len(ss) \in 0 .. Len(ss)
  BY LenProperties
<1>1. 0 \in S
  <2>1. W(0) = <<>> /\ Len(<<>>) = 0
    BY UptoEnds, FlattenEmpty
  <2>2. Picks(<<>>, ss, 0, <<>>)
    BY <2>1 DEF Picks, Increases
  <2> QED BY <2>1, <2>2
<1>2. ASSUME NEW n \in 0 .. Len(ss) - 1, n \in S PROVE n + 1 \in S
  <2>1. n \in 0 .. Len(ss) /\ n + 1 \in 1 .. Len(ss) /\ n <= Len(ss) /\ n \in Nat
    BY <1>0
  <2>2. W(n + 1) = W(n) \o ss[n + 1]
    BY FlattenStep
  <2>3. W(n) \in Seq(C) /\ ss[n + 1] \in Seq(C)
    BY <2>1, FlattenUptoType, ElementOfSeq
  <2>4. PICK f : Picks(W(n), ss, n, f)
    BY <1>2, <2>1
  <2> DEFINE w == W(n)
             v == W(n + 1)
             p == ss[n + 1]
             k == Len(w)
  <2>5. F(n + 1)
    <3> HIDE DEF W
    <3>1. k \in Nat /\ Increases(f, k, n) /\ \A i \in 1 .. k : ss[f[i]] = <<w[i]>>
      BY <2>3, <2>4, LenProperties DEF Picks
    <3>2. CASE p = <<>>
      <4>1. v = w
        BY <2>2, <2>3, <3>2, ConcatEmptySeq
      <4>2. Increases(f, k, n + 1)
        BY <2>1, <3>1 DEF Increases
      <4>3. Picks(w, ss, n + 1, f)
        BY <3>1, <4>2, Zenon DEF Picks
      <4> HIDE DEF w, v
      <4> QED BY <4>1, <4>3 DEF v
    <3>3. CASE p # <<>>
      <4>1. Len(p) = 1 /\ p = <<p[1]>>
        <5>1. Len(p) \in Nat /\ Len(p) # 0 /\ Len(p) <= 1
          BY <2>1, <2>3, <3>3, EmptySeq, LenProperties
        <5>2. Len(p) = 1
          <6> DEFINE l == Len(p)
          <6>1. l \in Nat /\ l # 0 /\ l <= 1
            BY <5>1
          <6> HIDE DEF l
          <6>2. l = 1
            BY <6>1
          <6> QED BY <6>2 DEF l
        <5>3. p \in Seq(C) /\ <<p[1]>> \in Seq(C) /\ Len(<<p[1]>>) = 1 /\ <<p[1]>>[1] = p[1]
          BY <2>3, <5>2
        <5> HIDE DEF p
        <5>4. p = <<p[1]>>
          BY <5>2, <5>3, SeqEqual
        <5> QED BY <5>2, <5>4
      <4>2. Len(v) = k + 1 /\ (\A i \in 1 .. k : v[i] = w[i]) /\ v[k + 1] = p[1]
        <5>1. Len(v) = k + 1 /\ (\A i \in 1 .. k : v[i] = w[i])
          BY <2>2, <2>3, <4>1, ConcatProperties, LenProperties
        <5>2. k + 1 \in k + 1 .. k + 1 /\ (k + 1) - k = 1
          BY <3>1
        <5>3. v[k + 1] = p[1]
          BY <2>2, <2>3, <4>1, <5>2, ConcatProperties
        <5> QED BY <5>1, <5>3
      <4> DEFINE g == [i \in 1 .. k + 1 |-> IF i <= k THEN f[i] ELSE n + 1]
      <4> HIDE DEF w, v, p, k
      <4>3. (\A i \in 1 .. k : g[i] = f[i]) /\ g[k + 1] = n + 1 /\ \A i \in 1 .. k + 1 : i \in 1 .. k \/ i = k + 1
        BY <3>1
      <4>4. \A i \in 1 .. k : f[i] \in 1 .. n
        BY <3>1 DEF Increases
      <4>5. g \in [1 .. k + 1 -> 1 .. n + 1]
        <5>1. \A i \in 1 .. k + 1 : (IF i <= k THEN f[i] ELSE n + 1) \in 1 .. n + 1
          BY <2>1, <3>1, <4>4
        <5> QED BY <5>1
      <4> HIDE DEF g
      <4>6. \A i, j \in 1 .. k + 1 : i < j => g[i] < g[j]
        <5> SUFFICES ASSUME NEW i \in 1 .. k + 1, NEW j \in 1 .. k + 1, i < j PROVE g[i] < g[j]
          OBVIOUS
        <5>1. i \in 1 .. k
          BY <3>1
        <5>2. CASE j \in 1 .. k
          BY <3>1, <4>3, <5>1, <5>2 DEF Increases
        <5>3. CASE j = k + 1
          BY <2>1, <4>3, <4>4, <5>1, <5>3
        <5> QED BY <4>3, <5>2, <5>3
      <4>7. \A i \in 1 .. k + 1 : ss[g[i]] = <<v[i]>>
        <5>1. \A i \in 1 .. k : ss[g[i]] = <<v[i]>>
          BY <3>1, <4>2, <4>3
        <5>2. ss[g[k + 1]] = <<v[k + 1]>>
          BY <4>1, <4>2, <4>3 DEF p
        <5> QED BY <4>3, <5>1, <5>2
      <4>8. Picks(v, ss, n + 1, g)
        <5>1. Increases(g, k + 1, n + 1)
          BY <4>5, <4>6, Zenon DEF Increases
        <5> QED BY <4>2, <4>7, <5>1, Zenon DEF Picks
      <4> QED BY <4>8 DEF v
    <3> QED BY <3>2, <3>3
  <2> HIDE DEF F
  <2> QED BY <2>5
<1> HIDE DEF S
<1>3. 0 .. Len(ss) \subseteq S
  BY <1>0, <1>1, <1>2, Induct
<1>4. F(Len(ss))
  BY <1>0, <1>3 DEF S
<1> QED BY <1>4, UptoEnds

-----------------------------------------------------------------------------
(* An annotation is added. *)

\* Each annotation has a wrapper with the id attribute.
Headed(d, L) == \A b \in L : \E h \in DOMAIN d : d[h].first /\ d[h].by = b.id

\* The two boundaries, what the callback adds, and the kind of document that it makes.
StartOf(d, a) == CHOOSE b \in Boundary(d, TRUE, a.start) : TRUE
EndOf(d, a) == CHOOSE b \in Boundary(d, FALSE, a.end) : TRUE
After(d, a, noted) == IF a.id \in noted THEN <<NoteReference(d[EndOf(d, a).node])>> ELSE <<>>
KindOf(a, noted) == IF a.id \in noted THEN "noted" ELSE "plain"

\* ToRange or its validator fails.
Refused(d, a) ==
    \/ Boundary(d, TRUE, a.start) = {} \/ Boundary(d, FALSE, a.end) = {}
    \/ EndOf(d, a).node < StartOf(d, a).node
    \/ EndOf(d, a).node = StartOf(d, a).node /\ EndOf(d, a).offset < StartOf(d, a).offset
    \/ \E i \in StartOf(d, a).node .. EndOf(d, a).node : d[i].isText /\ d[i].by # Nil

\* What becomes of each node.
Pieced(d, s, e, id, extra) == [i \in DOMAIN d |-> Rewritten(d, i, s, e, id, extra)]

\* AddAnnotation by these names.
LEMMA AddCases ==
    ASSUME NEW d, NEW a, NEW noted
    PROVE  AddAnnotation(d, a, noted) =
              IF Refused(d, a) THEN Failed
              ELSE FlattenSeq(Pieced(d, StartOf(d, a), EndOf(d, a), a.id, After(d, a, noted)))
BY Zenon DEF AddAnnotation, Refused, Pieced, StartOf, EndOf, After

\* When it is not refused, it has a range.
LEMMA AddSelects ==
    ASSUME NEW d, NEW pos, NEW L, Whole(d, pos, L, "plain"), Distinct(L),
           NEW a \in Annotation, a.start.at < a.end.at, ~Refused(d, a)
    PROVE  Selects(d, pos, L, a, StartOf(d, a), EndOf(d, a))
<1>1. StartOf(d, a) \in Boundary(d, TRUE, a.start) /\ EndOf(d, a) \in Boundary(d, FALSE, a.end)
  <2>1. Boundary(d, TRUE, a.start) # {} /\ Boundary(d, FALSE, a.end) # {}
    BY Zenon DEF Refused
  <2> QED BY <2>1, Zenon DEF StartOf, EndOf
<1>2. a.start \in Points /\ a.end \in Points
  BY DEF Annotation
<1>3. Meets(d, pos, a.start, StartOf(d, a)) /\ Meets(d, pos, a.end, EndOf(d, a))
  BY <1>1, <1>2, StartFacts, EndFacts
<1>4. \A i \in StartOf(d, a).node .. EndOf(d, a).node : d[i].isText => d[i].by = Nil
  BY Zenon DEF Refused
<1> QED BY <1>3, <1>4, Zenon DEF Selects

LEMMA AfterIsExtra ==
    ASSUME NEW d, NEW a, NEW noted
    PROVE  Extra(d, EndOf(d, a), After(d, a, noted), KindOf(a, noted))
BY Zenon DEF Extra, After, KindOf

\* The result is a document of the whole article, with the annotation on it.
LEMMA PiecedCovers ==
    ASSUME NEW d, NEW pos, NEW L, NEW a, NEW s, NEW e, Selects(d, pos, L, a, s, e),
           NEW extra, NEW kind, Extra(d, e, extra, kind)
    PROVE  LET ss == Pieced(d, s, e, a.id, extra)
           IN  /\ ss \in Seq(Seq(Node)) /\ Len(ss) = Len(d)
               /\ \A i \in 1 .. Len(d) : ss[i] = Rewritten(d, i, s, e, a.id, extra)
               /\ \E q : Whole(FlattenSeq(ss), q, L \cup {a}, kind)
<1> DEFINE ss == Pieced(d, s, e, a.id, extra)
           R(i) == Rewritten(d, i, s, e, a.id, extra)
           K == L \cup {a}
<1>1. Whole(d, pos, L, "plain")
  BY SelectsFacts
<1>2. /\ Len(d) \in Nat /\ DOMAIN d = 1 .. Len(d) /\ pos \in [1 .. Len(d) + 1 -> 0 .. Size] /\ pos[1] = 0 /\ pos[Len(d) + 1] = Size
      /\ Size \in Nat
  BY <1>1, WholeInOrder
<1>3. \A i \in 1 .. Len(d) : R(i) \in Seq(Node) /\ Covers(R(i), pos[i], pos[i + 1], K, kind)
  BY RewrittenCovers
<1>4. ss = [i \in 1 .. Len(d) |-> R(i)]
  BY <1>2, Zenon DEF Pieced
<1> HIDE DEF R, K
<1>5. ss \in Seq(Seq(Node)) /\ Len(ss) = Len(d) /\ \A i \in 1 .. Len(d) : ss[i] = R(i)
  <2> HIDE DEF ss
  <2> QED BY <1>2, <1>3, <1>4
<1> HIDE DEF ss
<1>6. Covers(FlattenSeq(ss), 0, Size, K, kind)
  <2>1. \A i \in 1 .. Len(ss) : Covers(ss[i], pos[i], pos[i + 1], K, kind)
    BY <1>3, <1>5, Zenon
  <2>2. pos \in [1 .. Len(ss) + 1 -> 0 .. Size] /\ pos[1] = 0 /\ pos[Len(ss) + 1] = Size
    BY <1>2, <1>5, Zenon
  <2>3. Covers(FlattenSeq(ss), pos[1], pos[Len(ss) + 1], K, kind)
    BY <1>5, <2>1, <2>2, CoversFlatten
  <2> QED BY <2>2, <2>3, Zenon
<1>7. FlattenSeq(ss) \in Seq(Node)
  BY <1>5, FlattenType
<1>8. \E q : Whole(FlattenSeq(ss), q, K, kind)
  BY <1>6, <1>7, Zenon DEF Whole, Covers
<1> QED BY <1>5, <1>8 DEF ss, R, K

\* The wrapper with the id attribute of another annotation is not in the range.
LEMMA HeadStays ==
    ASSUME NEW d, NEW pos, NEW L, NEW a, NEW s, NEW e, Selects(d, pos, L, a, s, e),
           NEW extra, NEW h \in 1 .. Len(d), d[h].first
    PROVE  Rewritten(d, h, s, e, a.id, extra) = <<d[h]>>
<1> DEFINE n == d[h]
           x == pos[h]
           y == pos[h + 1]
<1>1. Whole(d, pos, L, "plain") /\ Distinct(L)
  BY SelectsFacts
<1>2. n \in Node /\ Placed(n, x, y, L, "plain") /\ x \in 0 .. Size /\ y \in 0 .. Size
  BY <1>1, WholeInOrder
<1>3. \A i \in s.node .. e.node : d[i].isText => d[i].by = Nil
  BY Zenon DEF Selects
<1>4. h \in s.node .. e.node => (n.isText => n.by = Nil)
  BY <1>3
<1> HIDE DEF n, x, y
<1>5. x < y /\ \E b \in L : n.by = b.id
  BY <1>2, Zenon DEF Placed, n
<1>6. n.by # Nil
  <2>1. \A b \in L : b.id \in Ids
    BY <1>1 DEF Distinct, Annotation
  <2> QED BY <1>5, <2>1, NilAssumption
<1>7. n.isText
  <2>1. x # y
    BY <1>2, <1>5, PlaceFacts
  <2>2. n.text # <<>>
    BY <1>2, <2>1, TextLength
  <2> QED BY <1>2, <2>2, Zenon DEF Placed
<1>8. h \notin s.node .. e.node
  BY <1>4, <1>6, <1>7
<1> QED BY <1>8, Zenon DEF Rewritten

\* The wrapped part of a node.
Mid(n, lo, hi, id, isFirst) == [PieceOf(n, lo, hi) EXCEPT !.by = id, !.first = isFirst]

\* Joined sequences have the elements of both.
IsSeq(C, u) == u \in Seq(C)
Merges(C, u, v) == IsSeq(C, u \o v) /\ Range(u \o v) = Range(u) \cup Range(v)

LEMMA MergeFacts ==
    ASSUME NEW C, NEW u, IsSeq(C, u), NEW v, IsSeq(C, v)
    PROVE  Merges(C, u, v)
<1>0. u \in Seq(C) /\ v \in Seq(C)
  BY DEF IsSeq
<1>1. u \o v \in Seq(C)
  BY <1>0, ConcatProperties
<1>2. Range(u \o v) = Range(u) \cup Range(v)
  BY <1>0, RangeConcatenation
<1> QED BY <1>1, <1>2, Zenon DEF Merges, IsSeq

\* What is among the pieces of a node.
LEMMA WrappedRange ==
    ASSUME NEW n, NEW lo \in Int, NEW hi, NEW id, NEW isFirst, NEW N, NEW extra \in Seq(N)
    PROVE  LET W == Wrapped(n, lo, hi, id, isFirst, extra)
               m == Mid(n, lo, hi, id, isFirst)
           IN  /\ Range(W) \subseteq {PieceOf(n, 0, lo), m, PieceOf(n, hi, Len(n.text))} \cup Range(extra)
               /\ m \in Range(W)
<1> DEFINE p == PieceOf(n, 0, lo)
           m == Mid(n, lo, hi, id, isFirst)
           r == PieceOf(n, hi, Len(n.text))
           A == IF lo > 0 THEN <<p>> ELSE <<>>
           C == {p, m, r} \cup N
<1>1. Wrapped(n, lo, hi, id, isFirst, extra) = ((A \o <<m>>) \o extra) \o <<r>>
  BY Zenon DEF Wrapped, PieceOf, Mid
<1> HIDE DEF p, m, r
<1>2. A \in Seq(C) /\ <<m>> \in Seq(C) /\ extra \in Seq(C) /\ <<r>> \in Seq(C)
  <2>1. N \subseteq C
    OBVIOUS
  <2>2. extra \in Seq(C)
    BY <2>1, SeqMonotonic
  <2>3. <<p>> \in Seq(C) /\ <<m>> \in Seq(C) /\ <<r>> \in Seq(C) /\ <<>> \in Seq(C)
    OBVIOUS
  <2> QED BY <2>2, <2>3
<1>3. Range(A) \subseteq {p} /\ Range(<<m>>) = {m} /\ Range(<<r>>) = {r}
  <2>1. \A z : Range(<<z>>) = {z}
    BY DEF Range
  <2>3. Range(<<>>) = {}
    BY DEF Range
  <2>2. A = <<p>> \/ A = <<>>
    OBVIOUS
  <2> HIDE DEF A
  <2> QED BY <2>1, <2>2, <2>3
<1> DEFINE B == <<m>>
           D == <<r>>
<1> HIDE DEF A, C, B, D
<1>a. Range(B) = {m} /\ Range(D) = {r}
  BY <1>3 DEF B, D
<1>b. IsSeq(C, A) /\ IsSeq(C, B) /\ IsSeq(C, extra) /\ IsSeq(C, D)
  BY <1>2, Zenon DEF B, D, IsSeq
<1>c. Merges(C, A, B)
  BY <1>b, MergeFacts
<1>4. IsSeq(C, A \o B) /\ Range(A \o B) = Range(A) \cup Range(B)
  BY <1>c, Zenon DEF Merges
<1>d. Merges(C, A \o B, extra)
  <2> DEFINE u == A \o B
  <2> HIDE DEF u
  <2> SUFFICES Merges(C, u, extra)
    BY Zenon DEF u
  <2>1. IsSeq(C, u)
    BY <1>4, Zenon DEF u
  <2> QED BY <1>b, <2>1, MergeFacts
<1>5. IsSeq(C, (A \o B) \o extra) /\ Range((A \o B) \o extra) = Range(A \o B) \cup Range(extra)
  BY <1>d, Zenon DEF Merges
<1>e. Merges(C, (A \o B) \o extra, D)
  <2> DEFINE u == (A \o B) \o extra
  <2> HIDE DEF u
  <2> SUFFICES Merges(C, u, D)
    BY Zenon DEF u
  <2>1. IsSeq(C, u)
    BY <1>5, Zenon DEF u
  <2> QED BY <1>b, <2>1, MergeFacts
<1>6. Range(((A \o B) \o extra) \o D) = Range((A \o B) \o extra) \cup Range(D)
  BY <1>e, Zenon DEF Merges
<1>7. Range(((A \o B) \o extra) \o D) = ((Range(A) \cup {m}) \cup Range(extra)) \cup {r}
  BY <1>a, <1>4, <1>5, <1>6, Zenon
<1>8. /\ ((Range(A) \cup {m}) \cup Range(extra)) \cup {r} \subseteq {p, m, r} \cup Range(extra)
      /\ m \in ((Range(A) \cup {m}) \cup Range(extra)) \cup {r}
  BY <1>3
<1>9. Wrapped(n, lo, hi, id, isFirst, extra) = ((A \o B) \o extra) \o D
  BY <1>1, Zenon DEF B, D
<1> QED BY <1>9, <1>7, <1>8, Zenon DEF p, m, r

\* A node, and what its pieces keep of it.
IsNode(n) == n \in Node

LEMMA PieceBy ==
    ASSUME NEW n, IsNode(n), NEW lo, NEW hi, NEW id, NEW isFirst
    PROVE  /\ PieceOf(n, lo, hi).by = n.by
           /\ Mid(n, lo, hi, id, isFirst).by = id /\ Mid(n, lo, hi, id, isFirst).first = isFirst
<1> DEFINE t == SubSeq(n.text, lo + 1, hi)
<1>1. PieceOf(n, lo, hi) = [n EXCEPT !.text = t]
  BY Zenon DEF PieceOf
<1> HIDE DEF t
<1>2. PieceOf(n, lo, hi) = [path |-> n.path, text |-> t, by |-> n.by, first |-> n.first, isText |-> n.isText]
  BY <1>1 DEF IsNode, Node
<1>3. Mid(n, lo, hi, id, isFirst) = [path |-> n.path, text |-> t, by |-> id, first |-> isFirst, isText |-> n.isText]
  <2> DEFINE p == PieceOf(n, lo, hi)
  <2>1. Mid(n, lo, hi, id, isFirst) = [p EXCEPT !.by = id, !.first = isFirst]
    BY Zenon DEF Mid
  <2> HIDE DEF p
  <2>2. p = [path |-> n.path, text |-> t, by |-> n.by, first |-> n.first, isText |-> n.isText]
    BY <1>2 DEF p
  <2> QED BY <2>1, <2>2
<1>4. PieceOf(n, lo, hi).by = n.by
  BY <1>2
<1>5. Mid(n, lo, hi, id, isFirst).by = id /\ Mid(n, lo, hi, id, isFirst).first = isFirst
  BY <1>3
<1> QED BY <1>4, <1>5

\* The new annotation has one if and only if it does not start at the end of a node.
LEMMA HeadOfNew ==
    ASSUME NEW d, NEW pos, NEW L, NEW a, NEW s, NEW e, Selects(d, pos, L, a, s, e),
           NEW extra, NEW kind, Extra(d, e, extra, kind)
    PROVE  /\ a.start.at # pos[s.node + 1] =>
                 \E z \in Range(Rewritten(d, s.node, s, e, a.id, extra)) : z.first /\ z.by = a.id
           /\ \A i \in 1 .. Len(d) : \A z \in Range(Rewritten(d, i, s, e, a.id, extra)) :
                 (z.first /\ z.by = a.id) => (\E b \in L : b.id = a.id) \/ a.start.at # pos[s.node + 1]
<1> DEFINE out(i) == i \notin s.node .. e.node \/ ~d[i].isText \/ (i = s.node /\ s.offset = Len(d[i].text))
           lo(i) == IF i = s.node THEN s.offset ELSE 0
           hi(i) == IF i = e.node THEN e.offset ELSE Len(d[i].text)
           after(i) == IF i = e.node THEN extra ELSE <<>>
           R(i) == Rewritten(d, i, s, e, a.id, extra)
<1>1. Whole(d, pos, L, "plain") /\ Distinct(L) /\ a \in Annotation
  BY SelectsFacts
<1>2. /\ s.node \in 1 .. Len(d) /\ e.node \in 1 .. Len(d) /\ s.node <= e.node /\ s.offset = a.start.at - pos[s.node]
      /\ a.start.at \in 0 .. Size /\ d[s.node].isText
  BY SelectsFacts, Zenon DEF Selects, Meets
<1>3. /\ Len(d) \in Nat /\ Size \in Nat
      /\ \A i \in 1 .. Len(d) : d[i] \in Node /\ pos[i] \in 0 .. Size /\ pos[i + 1] \in 0 .. Size /\ Placed(d[i], pos[i], pos[i + 1], L, "plain")
  BY <1>1, WholeInOrder
<1>4. Len(d[s.node].text) = pos[s.node + 1] - pos[s.node]
  <2> DEFINE n == d[s.node]
             x == pos[s.node]
             y == pos[s.node + 1]
  <2>1. x \in 0 .. Size /\ y \in 0 .. Size /\ Placed(n, x, y, L, "plain")
    BY <1>2, <1>3
  <2> HIDE DEF n, x, y
  <2>2. Len(n.text) = y - x
    BY <2>1, TextLength
  <2> QED BY <2>2 DEF n, x, y
<1>5. s.offset = Len(d[s.node].text) <=> a.start.at = pos[s.node + 1]
  <2> DEFINE l == Len(d[s.node].text)
             x == pos[s.node]
             y == pos[s.node + 1]
  <2>1. x \in 0 .. Size /\ y \in 0 .. Size /\ l = y - x /\ s.offset = a.start.at - x /\ a.start.at \in 0 .. Size /\ Size \in Nat
    BY <1>2, <1>3, <1>4
  <2> HIDE DEF l, x, y
  <2>2. s.offset = l <=> a.start.at = y
    BY <2>1
  <2> QED BY <2>2 DEF l, x, y
<1>6. \A i \in 1 .. Len(d) : lo(i) \in Int
  BY <1>2, <1>3
<1>7. extra \in Seq(Node) /\ \A z \in Range(extra) : z.first = FALSE
  <2>1. 0 \in 0 .. Size
    BY <1>3
  <2>2. extra \in Seq(Node)
    BY <2>1, ExtraCovers
  <2>3. PICK p : Lies(extra, p, L \cup {a}, kind) /\ p[1] = 0 /\ p[Len(extra) + 1] = 0
    <3>1. Covers(extra, 0, 0, L \cup {a}, kind)
      BY <2>1, ExtraCovers
    <3> QED BY <3>1, Zenon DEF Covers
  <2>4. /\ Len(extra) \in Nat /\ p \in [1 .. Len(extra) + 1 -> 0 .. Size]
        /\ \A i, j \in 1 .. Len(extra) + 1 : i <= j => p[i] <= p[j]
    BY <2>2, <2>3, LiesInOrder
  <2>5. ASSUME NEW i \in 1 .. Len(extra) PROVE extra[i].first = FALSE
    <3>1. Placed(extra[i], p[i], p[i + 1], L \cup {a}, kind)
      BY <2>3, Zenon DEF Lies
    <3>2. i \in 1 .. Len(extra) + 1 /\ i + 1 \in 1 .. Len(extra) + 1 /\ 1 \in 1 .. Len(extra) + 1 /\ Len(extra) + 1 \in 1 .. Len(extra) + 1
          /\ 1 <= i /\ i + 1 <= Len(extra) + 1
      BY <2>4
    <3>3. ~ (p[i] < p[i + 1])
      <4>1. p[i] \in 0 .. Size /\ p[i + 1] \in 0 .. Size /\ p[1] <= p[i] /\ p[i + 1] <= p[Len(extra) + 1]
        BY <2>4, <3>2
      <4> QED BY <1>3, <2>3, <4>1
    <3>4. ~ extra[i].first
      BY <3>1, <3>3, Zenon DEF Placed
    <3>5. extra[i] \in Node
      BY <2>2, ElementOfSeq
    <3> QED BY <3>4, <3>5 DEF Node
  <2> QED BY <2>2, <2>5, LenProperties DEF Range
<1>8. ASSUME NEW i \in 1 .. Len(d), ~out(i)
      PROVE  R(i) = Wrapped(d[i], lo(i), hi(i), a.id, i = s.node, after(i))
  BY <1>8, Zenon DEF Rewritten
<1>9. ASSUME NEW i \in 1 .. Len(d) PROVE after(i) \in Seq(Node) /\ \A z \in Range(after(i)) : z.first = FALSE
  <2>1. <<>> \in Seq(Node) /\ Range(<<>>) = {}
    BY DEF Range
  <2> QED BY <1>7, <2>1
<1>10. ASSUME a.start.at # pos[s.node + 1]
       PROVE  \E z \in Range(R(s.node)) : z.first /\ z.by = a.id
  <2>1. ~ out(s.node)
    <3>1. s.node \in s.node .. e.node
      BY <1>2, <1>3
    <3> QED BY <1>2, <1>5, <1>10, <3>1
  <2> PICK f : f = (s.node = s.node)
    OBVIOUS
  <2>2. R(s.node) = Wrapped(d[s.node], lo(s.node), hi(s.node), a.id, f, after(s.node))
    BY <1>2, <1>8, <2>1, Zenon
  <2> HIDE DEF out, lo, hi, after, R
  <2>4. IsNode(d[s.node]) /\ lo(s.node) \in Int /\ after(s.node) \in Seq(Node)
    BY <1>2, <1>3, <1>6, <1>9 DEF IsNode
  <2> PICK n, l, g, id, w : n = d[s.node] /\ l = lo(s.node) /\ g = hi(s.node) /\ id = a.id /\ w = after(s.node)
    OBVIOUS
  <2>5. IsNode(n) /\ l \in Int /\ w \in Seq(Node)
    BY <2>4, Zenon
  <2>3. Mid(n, l, g, id, f) \in Range(Wrapped(n, l, g, id, f, w))
    BY <2>5, WrappedRange
  <2>6. Mid(n, l, g, id, f).by = id /\ Mid(n, l, g, id, f).first = f
    BY <2>5, PieceBy
  <2>7. R(s.node) = Wrapped(n, l, g, id, f, w)
    BY <2>2, Zenon
  <2> QED BY <2>3, <2>6, <2>7, Zenon
<1>11. ASSUME NEW i \in 1 .. Len(d), NEW z \in Range(R(i)), z.first, z.by = a.id
       PROVE  (\E b \in L : b.id = a.id) \/ a.start.at # pos[s.node + 1]
  <2>1. CASE out(i)
    <3>1. R(i) = <<d[i]>>
      BY <2>1, Zenon DEF Rewritten
    <3>2. z = d[i]
      <4> HIDE DEF R
      <4> QED BY <1>11, <3>1 DEF Range
    <3>3. Placed(d[i], pos[i], pos[i + 1], L, "plain")
      BY <1>3
    <3>4. \E b \in L : d[i].by = b.id
      BY <1>11, <3>2, <3>3, Zenon DEF Placed
    <3> QED BY <1>11, <3>2, <3>4
  <2>2. CASE ~out(i)
    <3>1. R(i) = Wrapped(d[i], lo(i), hi(i), a.id, i = s.node, after(i))
      BY <1>8, <2>2
    <3>2. i = s.node => a.start.at # pos[s.node + 1]
      BY <1>5, <2>2
    <3>3. d[i].isText => d[i].by = Nil
      <4>1. i \in s.node .. e.node
        BY <2>2
      <4> QED BY <4>1, Zenon DEF Selects
    <3>4. d[i].by = Nil /\ IsNode(d[i])
      BY <1>3, <2>2, <3>3 DEF IsNode
    <3> HIDE DEF out, lo, hi, after, R
    <3> PICK n, l, g, id, w, f : n = d[i] /\ l = lo(i) /\ g = hi(i) /\ id = a.id /\ w = after(i) /\ f = (i = s.node)
      OBVIOUS
    <3>5. IsNode(n) /\ l \in Int /\ w \in Seq(Node) /\ n.by = Nil /\ \A q \in Range(w) : q.first = FALSE
      BY <1>6, <1>9, <3>4, Zenon
    <3>6. id # Nil
      BY <1>1, NilAssumption DEF Annotation
    <3>7. z \in Range(Wrapped(n, l, g, id, f, w))
      BY <1>11, <3>1, Zenon
    <3>8. z.by = id /\ z.first
      BY <1>11
    <3>9. Range(Wrapped(n, l, g, id, f, w)) \subseteq {PieceOf(n, 0, l), Mid(n, l, g, id, f), PieceOf(n, g, Len(n.text))} \cup Range(w)
      BY <3>5, WrappedRange
    <3>10. PieceOf(n, 0, l).by = n.by /\ PieceOf(n, g, Len(n.text)).by = n.by /\ Mid(n, l, g, id, f).first = f
      <4>1. \A x, y : PieceOf(n, x, y).by = n.by
        BY <3>5, PieceBy
      <4>2. Mid(n, l, g, id, f).first = f
        BY <3>5, PieceBy
      <4> QED BY <4>1, <4>2
    <3>11. z = Mid(n, l, g, id, f)
      BY <3>5, <3>6, <3>7, <3>8, <3>9, <3>10, Zenon
    <3>12. f
      BY <3>8, <3>10, <3>11, Zenon
    <3>13. i = s.node
      BY <3>12, Zenon
    <3> QED BY <3>2, <3>13
  <2> QED BY <2>1, <2>2
<1> QED BY <1>10, <1>11

\* A document to which the annotation is added: it has another id than those on it.
Fits(d, pos, L, a) ==
    /\ Whole(d, pos, L, "plain") /\ Headed(d, L) /\ Distinct(L)
    /\ a \in Annotation /\ a.start.at < a.end.at /\ \A b \in L : b.id # a.id

\* A document is not an error.
LEMMA WholeNotFailed ==
    ASSUME NEW d, NEW pos, NEW L, NEW kind, Whole(d, pos, L, kind)
    PROVE  d # Failed
<1>1. pos[1] = 0 /\ pos[Len(d) + 1] = Size /\ Size \in Nat
  BY WholeInOrder
<1>2. Size # 0
  <2>1. 1 \in 1 .. Len(Article) /\ Place(1) = 0 /\ Place(1) < Place(1 + 1) /\ 1 + 1 \in 1 .. Len(Article) + 1
    BY ArticleFacts, PlaceFacts
  <2>2. Place(1 + 1) \in 0 .. Size
    BY <2>1, PlaceFacts
  <2> QED BY <1>1, <2>1, <2>2
<1>3. Len(<<>>) = 0
  OBVIOUS
<1>4. ASSUME d = <<>> PROVE FALSE
  <2>1. Len(d) = 0
    BY <1>3, <1>4, Zenon
  <2>2. Len(d) + 1 = 1
    BY <2>1
  <2> QED BY <1>1, <1>2, <2>2
<1> QED BY <1>4 DEF Failed

\* The annotation is on the document, and so are the others.
Adds(r, L, a, kind) ==
    /\ \E q : Whole(r, q, L \cup {a}, kind)
    /\ Headed(r, L)
    /\ (\E h \in DOMAIN r : r[h].first /\ r[h].by = a.id) <=> ~StartsAtTheEnd(a)

\* Adding an annotation that is not refused.
LEMMA Added ==
    ASSUME NEW d, NEW pos, NEW L, NEW a, Fits(d, pos, L, a), ~Refused(d, a), NEW noted
    PROVE  Adds(AddAnnotation(d, a, noted), L, a, KindOf(a, noted))
<1> DEFINE s == StartOf(d, a)
           e == EndOf(d, a)
           extra == After(d, a, noted)
           kind == KindOf(a, noted)
           ss == Pieced(d, s, e, a.id, extra)
           r == AddAnnotation(d, a, noted)
<1>1. /\ Whole(d, pos, L, "plain") /\ Headed(d, L) /\ Distinct(L)
      /\ a \in Annotation /\ a.start.at < a.end.at /\ \A b \in L : b.id # a.id
  BY Zenon DEF Fits
<1>2. Selects(d, pos, L, a, s, e)
  BY <1>1, AddSelects
<1>3. Extra(d, e, extra, kind)
  BY AfterIsExtra
<1>4. r = FlattenSeq(ss)
  BY AddCases
<1>5. a.start.at = pos[s.node + 1] <=> StartsAtTheEnd(a)
  <2>1. s \in Boundary(d, TRUE, a.start)
    <3>1. Boundary(d, TRUE, a.start) # {}
      BY Zenon DEF Refused
    <3> QED BY <3>1, Zenon DEF StartOf
  <2>2. a.start \in Points
    BY <1>1 DEF Annotation
  <2> HIDE DEF s
  <2>a. PICK p, b : p = a.start /\ b = s
    OBVIOUS
  <2>b. p \in Points /\ b \in Boundary(d, TRUE, p) /\ Whole(d, pos, L, "plain")
    BY <1>1, <2>1, <2>2, <2>a, Zenon
  <2>c. p.at = pos[b.node + 1] <=> p.offset = Len(TextOf(Article, Under(Article, p.el)))
    BY <2>b, StartFacts
  <2>3. a.start.at = pos[s.node + 1] <=> a.start.offset = Len(TextOf(Article, Under(Article, a.start.el)))
    BY <2>a, <2>c, Zenon
  <2> QED BY <2>3, Zenon DEF StartsAtTheEnd
<1>6. s.node \in 1 .. Len(d) /\ DOMAIN d = 1 .. Len(d)
  BY <1>1, <1>2, SelectsFacts, WholeInOrder
<1> HIDE DEF s, e, extra, kind
<1>7. /\ ss \in Seq(Seq(Node)) /\ Len(ss) = Len(d)
      /\ \A i \in 1 .. Len(d) : ss[i] = Rewritten(d, i, s, e, a.id, extra)
      /\ \E q : Whole(FlattenSeq(ss), q, L \cup {a}, kind)
  BY <1>2, <1>3, PiecedCovers
<1>8. Range(FlattenSeq(ss)) = UNION {Range(ss[i]) : i \in 1 .. Len(d)}
  <2>1. Range(FlattenSeq(ss)) = UNION {Range(ss[i]) : i \in 1 .. Len(ss)}
    BY <1>7, FlattenRange
  <2> QED BY <1>7, <2>1, Zenon
<1> HIDE DEF r, ss
<1>9. \A z : z \in Range(r) <=> \E i \in 1 .. Len(d) : z \in Range(Rewritten(d, i, s, e, a.id, extra))
  BY <1>4, <1>7, <1>8
<1>10. \A z \in Range(r) : \E h \in DOMAIN r : r[h] = z
  BY DEF Range
<1>11. \A h \in DOMAIN r : r[h] \in Range(r)
  BY DEF Range
<1>12. Headed(r, L)
  <2> SUFFICES ASSUME NEW b \in L PROVE \E h \in DOMAIN r : r[h].first /\ r[h].by = b.id
    BY DEF Headed
  <2>1. PICK h \in 1 .. Len(d) : d[h].first /\ d[h].by = b.id
    BY <1>1, <1>6 DEF Headed
  <2>2. Rewritten(d, h, s, e, a.id, extra) = <<d[h]>>
    BY <1>2, <2>1, HeadStays
  <2>3. d[h] \in Range(<<d[h]>>)
    BY DEF Range
  <2>4. d[h] \in Range(r)
    BY <1>9, <2>2, <2>3, Zenon
  <2> QED BY <1>10, <2>1, <2>4, Zenon
<1>13. ASSUME ~StartsAtTheEnd(a) PROVE \E h \in DOMAIN r : r[h].first /\ r[h].by = a.id
  <2>1. \E z \in Range(Rewritten(d, s.node, s, e, a.id, extra)) : z.first /\ z.by = a.id
    BY <1>2, <1>3, <1>5, <1>13, HeadOfNew
  <2> QED BY <1>6, <1>9, <1>10, <2>1, Zenon
<1>14. ASSUME NEW h \in DOMAIN r, r[h].first, r[h].by = a.id PROVE ~StartsAtTheEnd(a)
  <2>1. PICK i \in 1 .. Len(d) : r[h] \in Range(Rewritten(d, i, s, e, a.id, extra))
    BY <1>9, <1>11, Zenon
  <2>2. (\E b \in L : b.id = a.id) \/ a.start.at # pos[s.node + 1]
    BY <1>2, <1>3, <1>14, <2>1, HeadOfNew
  <2> QED BY <1>1, <1>5, <2>2, Zenon
<1>15. (\E h \in DOMAIN r : r[h].first /\ r[h].by = a.id) <=> ~StartsAtTheEnd(a)
  BY <1>13, <1>14, Zenon
<1>16. Adds(r, L, a, kind)
  BY <1>4, <1>7, <1>12, <1>15, Zenon DEF Adds
<1> QED BY <1>16, Zenon DEF r, kind

-----------------------------------------------------------------------------
(* A list is put on the article. *)

\* The annotations follow each other, and none of them starts at the end of its element.
Ordered(marks) ==
    /\ marks \in Seq(Annotation)
    /\ \A i \in DOMAIN marks : marks[i].start.at < marks[i].end.at /\ ~StartsAtTheEnd(marks[i])
    /\ \A i, j \in DOMAIN marks :
          i < j => marks[i].end.at <= marks[j].start.at /\ marks[i].id # marks[j].id

\* What comes before the annotation does not reach into it.
Follows(d, pos, L, a) ==
    /\ Fits(d, pos, L, a) /\ ~StartsAtTheEnd(a)
    /\ \A b \in L : b.end.at <= a.start.at

\* An annotation after all the others is never refused: nothing in its range is wrapped.
LEMMA NotRefused ==
    ASSUME NEW d, NEW pos, NEW L, NEW a, Follows(d, pos, L, a)
    PROVE  ~Refused(d, a)
<1> DEFINE s == StartOf(d, a)
           e == EndOf(d, a)
<1>1. /\ Whole(d, pos, L, "plain") /\ Distinct(L) /\ a \in Annotation /\ a.start.at < a.end.at
      /\ ~StartsAtTheEnd(a) /\ \A b \in L : b.end.at <= a.start.at
  BY Zenon DEF Follows, Fits
<1>2. PICK p, q : p = a.start /\ q = a.end
  OBVIOUS
<1>3. p \in Points /\ q \in Points /\ p.offset # Len(TextOf(Article, Under(Article, p.el)))
  BY <1>1, <1>2 DEF Annotation, StartsAtTheEnd
<1>4. Boundary(d, TRUE, p) # {} /\ Boundary(d, FALSE, q) # {}
  BY <1>1, <1>3, StartExists, EndExists
<1>5. s \in Boundary(d, TRUE, p) /\ e \in Boundary(d, FALSE, q)
  BY <1>2, <1>4, Zenon DEF StartOf, EndOf
<1> HIDE DEF s, e
<1>6. Meets(d, pos, p, s) /\ Meets(d, pos, q, e) /\ p.at # pos[s.node + 1]
  BY <1>1, <1>3, <1>5, StartFacts, EndFacts
<1>7. PICK ps, ps1, pe, pe1, u, v, sn, en :
         /\ ps = pos[s.node] /\ ps1 = pos[s.node + 1] /\ pe = pos[e.node] /\ pe1 = pos[e.node + 1]
         /\ u = p.at /\ v = q.at /\ sn = s.node /\ en = e.node
  OBVIOUS
<1>8. /\ u \in 0 .. Size /\ v \in 0 .. Size /\ u < v /\ Size \in Nat
      /\ ps <= u /\ u <= ps1 /\ u # ps1 /\ pe <= v /\ v <= pe1 /\ s.offset = u - ps /\ e.offset = v - pe
      /\ sn \in 1 .. Len(d) /\ en \in 1 .. Len(d)
  <2>1. u \in 0 .. Size /\ v \in 0 .. Size /\ Size \in Nat
    BY <1>3, <1>7, PointFacts, PlaceFacts
  <2>2. u < v
    BY <1>1, <1>2, <1>7
  <2> QED BY <1>6, <1>7, <2>1, <2>2, Zenon DEF Meets
<1>9. /\ Len(d) \in Nat
      /\ \A i \in 1 .. Len(d) : pos[i] \in 0 .. Size /\ pos[i + 1] \in 0 .. Size /\ i \in 1 .. Len(d) + 1 /\ i + 1 \in 1 .. Len(d) + 1
                                /\ Placed(d[i], pos[i], pos[i + 1], L, "plain")
      /\ \A i, j \in 1 .. Len(d) + 1 : i <= j => pos[i] <= pos[j]
  BY <1>1, WholeInOrder
<1>10. ps \in 0 .. Size /\ ps1 \in 0 .. Size /\ pe \in 0 .. Size /\ pe1 \in 0 .. Size
  BY <1>7, <1>8, <1>9
<1>11. sn <= en
  <2>1. ~ (en + 1 <= sn)
    <3>1. en + 1 <= sn => pe1 <= ps
      BY <1>7, <1>8, <1>9
    <3> QED BY <1>8, <1>10, <3>1
  <2> QED BY <1>8, <1>9, <2>1
<1>12. sn = en => s.offset <= e.offset
  <2>1. sn = en => ps = pe
    BY <1>7
  <2> QED BY <1>8, <1>10, <2>1
<1>13. ASSUME NEW i \in sn .. en, d[i].isText, d[i].by # Nil PROVE FALSE
  <2>1. i \in 1 .. Len(d) /\ sn + 1 <= i + 1 /\ sn + 1 \in 1 .. Len(d) + 1
    BY <1>8, <1>9
  <2> PICK y : y = pos[i + 1]
    OBVIOUS
  <2>2. y \in 0 .. Size /\ ps1 <= y
    BY <1>7, <1>9, <2>1
  <2>3. Placed(d[i], pos[i], y, L, "plain")
    BY <1>9, <2>1
  <2>4. PICK b \in L : y <= b.end.at
    BY <1>13, <2>3, Zenon DEF Placed
  <2>5. b.end.at <= u
    BY <1>1, <1>2, <1>7
  <2>6. b.end.at \in 0 .. Size
    <3>1. b.end \in Points
      BY <1>1 DEF Distinct, Annotation
    <3> QED BY <3>1, PointFacts
  <2> QED BY <1>8, <1>10, <2>2, <2>4, <2>5, <2>6, SMTT(30)
<1>14. ~ (e.node < s.node) /\ ~ (e.node = s.node /\ e.offset < s.offset)
  <2>1. ~ (en < sn)
    BY <1>8, <1>9, <1>11
  <2>2. sn = en => ~ (e.offset < s.offset)
    BY <1>8, <1>10, <1>12
  <2> QED BY <1>7, <2>1, <2>2
<1> QED BY <1>2, <1>4, <1>7, <1>13, <1>14, Zenon DEF Refused, s, e

\* The document after n annotations, from the one before.
Built(marks, noted, n, before) ==
    IF n = 0 THEN Fresh
    ELSE IF before = Failed THEN Failed ELSE AddAnnotation(before, marks[n], noted)

\* The documents that AddToNode goes through.
Builds(f, marks, noted, m) == f = [n \in 0 .. m |-> Built(marks, noted, n, f[n - 1])]

LEMMA BuildsAt ==
    ASSUME NEW marks, NEW noted, NEW m \in Nat, NEW f, Builds(f, marks, noted, m)
    PROVE  \A n \in 0 .. m : f[n] = Built(marks, noted, n, f[n - 1])
BY Zenon DEF Builds

LEMMA BuildsExist ==
    ASSUME NEW marks, NEW noted, NEW m \in Nat
    PROVE  \E f : Builds(f, marks, noted, m)
<1> DEFINE S == {k \in Nat : \E f : Builds(f, marks, noted, k)}
<1>1. 0 \in S
  <2> DEFINE f == [n \in 0 .. 0 |-> Fresh]
  <2>1. \A n \in 0 .. 0 : Built(marks, noted, n, f[n - 1]) = Fresh
    BY DEF Built
  <2>2. f = [n \in 0 .. 0 |-> Built(marks, noted, n, f[n - 1])]
    BY <2>1
  <2> HIDE DEF f
  <2>3. Builds(f, marks, noted, 0)
    BY <2>2, Zenon DEF Builds
  <2> QED BY <2>3
<1>2. ASSUME NEW k \in Nat, k \in S PROVE k + 1 \in S
  <2>1. PICK f : Builds(f, marks, noted, k)
    BY <1>2
  <2> DEFINE g == [n \in 0 .. (k + 1) |-> IF n <= k THEN f[n] ELSE Built(marks, noted, n, f[n - 1])]
  <2>2. \A n \in 0 .. k : f[n] = Built(marks, noted, n, f[n - 1])
    BY <2>1, BuildsAt
  <2>3. (\A n \in 0 .. k : g[n] = f[n]) /\ g[k + 1] = Built(marks, noted, k + 1, f[k])
    OBVIOUS
  <2>4. g = [n \in 0 .. (k + 1) |-> g[n]]
    OBVIOUS
  <2> HIDE DEF g
  <2>5. ASSUME NEW n \in 0 .. k PROVE g[n] = Built(marks, noted, n, g[n - 1])
    <3>1. CASE n = 0
      BY <2>2, <2>3, <3>1 DEF Built
    <3>2. CASE n # 0
      <4>1. n - 1 \in 0 .. k
        BY <3>2
      <4>2. g[n] = f[n] /\ g[n - 1] = f[n - 1]
        BY <2>3, <4>1
      <4> QED BY <2>2, <4>2
    <3> QED BY <3>1, <3>2
  <2>6. g[k + 1] = Built(marks, noted, k + 1, g[(k + 1) - 1])
    <3>1. (k + 1) - 1 = k /\ k \in 0 .. k
      OBVIOUS
    <3>2. g[(k + 1) - 1] = f[k]
      BY <2>3, <3>1
    <3> QED BY <2>3, <3>2
  <2>7. \A n \in 0 .. (k + 1) : g[n] = Built(marks, noted, n, g[n - 1])
    <3>1. \A n \in 0 .. (k + 1) : n \in 0 .. k \/ n = k + 1
      OBVIOUS
    <3> QED BY <2>5, <2>6, <3>1, Zenon
  <2>8. Builds(g, marks, noted, k + 1)
    <3>1. g = [n \in 0 .. (k + 1) |-> Built(marks, noted, n, g[n - 1])]
      BY <2>4, <2>7
    <3> QED BY <3>1, Zenon DEF Builds
  <2> QED BY <2>8
<1>3. 0 .. m \subseteq S
  <2> HIDE DEF S
  <2> QED BY <1>1, <1>2, Induct
<1> QED BY <1>3

LEMMA AddToNodeBuilds ==
    ASSUME NEW marks, Len(marks) \in Nat, NEW noted
    PROVE  \E f : Builds(f, marks, noted, Len(marks)) /\ AddToNode(marks, noted) = f[Len(marks)]
<1> DEFINE f == CHOOSE g : Builds(g, marks, noted, Len(marks))
<1>1. Builds(f, marks, noted, Len(marks))
  <2>1. \E g : Builds(g, marks, noted, Len(marks))
    BY BuildsExist
  <2> QED BY <2>1, Zenon
<1>2. AddToNode(marks, noted) = f[Len(marks)]
  BY Zenon DEF AddToNode, Builds, Built
<1> QED BY <1>1, <1>2, Zenon

\* The first n annotations.
Items(marks, n) == {marks[i] : i \in 1 .. n}

\* No annotation but the last one has a note.
OnlyLast(marks, noted) == \A i \in DOMAIN marks : marks[i].id \in noted => i = Len(marks)

\* The document has a note after the last of them.
KindAt(marks, noted, n) == IF n = 0 THEN "plain" ELSE KindOf(marks[n], noted)

\* A document with these annotations.
Shows(d, L, kind) == (\E pos : Whole(d, pos, L, kind)) /\ Headed(d, L)

\* A list in order has each annotation once.
LEMMA OrderedFacts ==
    ASSUME NEW marks, Ordered(marks)
    PROVE  /\ marks \in Seq(Annotation) /\ Len(marks) \in Nat /\ DOMAIN marks = 1 .. Len(marks)
           /\ \A i \in 1 .. Len(marks) : marks[i] \in Annotation /\ marks[i].start.at < marks[i].end.at /\ ~StartsAtTheEnd(marks[i])
           /\ \A i, j \in 1 .. Len(marks) :
                 i < j => marks[i].end.at <= marks[j].start.at /\ marks[i].id # marks[j].id
           /\ \A i, j \in 1 .. Len(marks) : marks[i].id = marks[j].id => i = j
           /\ Items(marks, Len(marks)) = Range(marks) /\ Distinct(Range(marks))
<1>1. marks \in Seq(Annotation)
  BY Zenon DEF Ordered
<1>2. Len(marks) \in Nat /\ DOMAIN marks = 1 .. Len(marks) /\ \A i \in 1 .. Len(marks) : marks[i] \in Annotation
  BY <1>1, LenProperties, ElementOfSeq
<1>3. /\ \A i \in 1 .. Len(marks) : marks[i].start.at < marks[i].end.at /\ ~StartsAtTheEnd(marks[i])
      /\ \A i, j \in 1 .. Len(marks) : i < j => marks[i].end.at <= marks[j].start.at /\ marks[i].id # marks[j].id
  BY <1>2, Zenon DEF Ordered
<1>4. ASSUME NEW i \in 1 .. Len(marks), NEW j \in 1 .. Len(marks), marks[i].id = marks[j].id PROVE i = j
  <2>1. ~ (i < j) /\ ~ (j < i)
    BY <1>3, <1>4
  <2> QED BY <1>2, <2>1
<1>5. Items(marks, Len(marks)) = Range(marks)
  BY <1>2, Zenon DEF Items, Range
<1>6. Distinct(Range(marks))
  <2>1. \A x \in Range(marks) : \E i \in 1 .. Len(marks) : x = marks[i]
    BY <1>2 DEF Range
  <2>2. Range(marks) \subseteq Annotation
    BY <1>2, <2>1
  <2>3. \A a, b \in Range(marks) : a.id = b.id => a = b
    <3> SUFFICES ASSUME NEW a \in Range(marks), NEW b \in Range(marks), a.id = b.id PROVE a = b
      OBVIOUS
    <3>1. PICK i \in 1 .. Len(marks), j \in 1 .. Len(marks) : a = marks[i] /\ b = marks[j]
      BY <2>1
    <3> QED BY <1>4, <3>1, Zenon
  <2> QED BY <2>2, <2>3, Zenon DEF Distinct
<1> QED BY <1>1, <1>2, <1>3, <1>4, <1>5, <1>6

\* One annotation more.
LEMMA AddedShows ==
    ASSUME NEW d, NEW L, NEW a, Shows(d, L, "plain"), \A pos : Whole(d, pos, L, "plain") => Follows(d, pos, L, a), NEW noted
    PROVE  Shows(AddAnnotation(d, a, noted), L \cup {a}, KindOf(a, noted)) /\ d # Failed
<1> DEFINE r == AddAnnotation(d, a, noted)
           K == L \cup {a}
<1>1. PICK pos : Whole(d, pos, L, "plain")
  BY Zenon DEF Shows
<1>2. Follows(d, pos, L, a) /\ d # Failed
  BY <1>1, WholeNotFailed
<1>3. Fits(d, pos, L, a) /\ ~StartsAtTheEnd(a) /\ ~Refused(d, a)
  BY <1>2, NotRefused, Zenon DEF Follows
<1>4. /\ \E q : Whole(r, q, K, KindOf(a, noted))
      /\ Headed(r, L)
      /\ \E h \in DOMAIN r : r[h].first /\ r[h].by = a.id
  <2>1. Adds(AddAnnotation(d, a, noted), L, a, KindOf(a, noted))
    BY <1>3, Added
  <2> QED BY <1>3, <2>1, Zenon DEF Adds
<1> HIDE DEF r
<1>5. Headed(r, K)
  BY <1>4 DEF Headed
<1> QED BY <1>2, <1>4, <1>5, Zenon DEF Shows, r

\* A list in order can be put on the article, and every annotation of it is there.
LEMMA OrderedShown ==
    ASSUME NEW marks, Ordered(marks), NEW noted, OnlyLast(marks, noted)
    PROVE  Shows(AddToNode(marks, noted), Range(marks), KindAt(marks, noted, Len(marks)))
<1> DEFINE m == Len(marks)
<1>1. /\ marks \in Seq(Annotation) /\ m \in Nat /\ DOMAIN marks = 1 .. m
      /\ \A i \in 1 .. m : marks[i] \in Annotation /\ marks[i].start.at < marks[i].end.at /\ ~StartsAtTheEnd(marks[i])
      /\ \A i, j \in 1 .. m : i < j => marks[i].end.at <= marks[j].start.at /\ marks[i].id # marks[j].id
      /\ Items(marks, m) = Range(marks) /\ Distinct(Range(marks))
  BY OrderedFacts
<1>2. PICK f : Builds(f, marks, noted, m) /\ AddToNode(marks, noted) = f[m]
  BY <1>1, AddToNodeBuilds
<1> HIDE DEF m
<1>3. \A n \in 0 .. m : f[n] = Built(marks, noted, n, f[n - 1])
  BY <1>1, <1>2, BuildsAt
<1> DEFINE F(n) == Shows(f[n], Items(marks, n), KindAt(marks, noted, n))
           S == {n \in Nat : n <= m => F(n)}
<1>4. 0 \in S
  <2>1. f[0] = Fresh
    BY <1>1, <1>3 DEF Built
  <2>2. Items(marks, 0) = {} /\ KindAt(marks, noted, 0) = "plain"
    BY DEF Items, KindAt
  <2>3. Shows(Fresh, {}, "plain")
    <3>1. \E pos : Whole(Fresh, pos, {}, "plain")
      BY FreshLies
    <3>2. Headed(Fresh, {})
      BY DEF Headed
    <3> QED BY <3>1, <3>2, Zenon DEF Shows
  <2>4. F(0)
    BY <2>1, <2>2, <2>3, Zenon
  <2> HIDE DEF F
  <2> QED BY <2>4
<1>5. ASSUME NEW n \in 0 .. m - 1, n \in S PROVE n + 1 \in S
  <2> PICK d, L, a : d = f[n] /\ L = Items(marks, n) /\ a = marks[n + 1]
    OBVIOUS
  <2>1. n \in Nat /\ n <= m /\ n + 1 \in 1 .. m /\ n + 1 \in 0 .. m /\ n + 1 # 0 /\ (n + 1) - 1 = n
    BY <1>1
  <2>2. KindAt(marks, noted, n) = "plain"
    <3>1. CASE n = 0
      BY <3>1 DEF KindAt
    <3>2. CASE n # 0
      <4>1. n \in 1 .. m /\ n # m
        BY <1>1, <2>1, <3>2
      <4>2. marks[n].id \notin noted
        BY <1>1, <4>1 DEF OnlyLast, m
      <4> QED BY <3>2, <4>2 DEF KindAt, KindOf
    <3> QED BY <3>1, <3>2
  <2>3. Shows(d, L, "plain")
    BY <1>5, <2>1, <2>2
  <2>4. a \in Annotation /\ a.start.at < a.end.at /\ ~StartsAtTheEnd(a)
    BY <1>1, <2>1
  <2>5. \A b \in L : b.end.at <= a.start.at /\ b.id # a.id
    <3>1. \A i \in 1 .. n : i \in 1 .. m /\ i < n + 1
      BY <1>1, <2>1
    <3>2. \A i \in 1 .. n : marks[i].end.at <= marks[n + 1].start.at /\ marks[i].id # marks[n + 1].id
      BY <1>1, <2>1, <3>1
    <3> QED BY <3>2 DEF Items
  <2>6. L \subseteq Range(marks)
    <3>1. \A i \in 1 .. n : i \in 1 .. m
      BY <1>1, <2>1
    <3> QED BY <1>1, <3>1 DEF Items, Range
  <2>7. Distinct(L)
    BY <1>1, <2>6 DEF Distinct
  <2>8. ASSUME NEW pos, Whole(d, pos, L, "plain") PROVE Follows(d, pos, L, a)
    <3>1. Headed(d, L)
      BY <2>3, Zenon DEF Shows
    <3> QED BY <2>4, <2>5, <2>7, <2>8, <3>1, Zenon DEF Follows, Fits
  <2>9. Shows(AddAnnotation(d, a, noted), L \cup {a}, KindOf(a, noted)) /\ d # Failed
    BY <2>3, <2>8, AddedShows
  <2>10. f[n + 1] = AddAnnotation(d, a, noted)
    <3>1. f[n + 1] = Built(marks, noted, n + 1, f[(n + 1) - 1])
      BY <1>3, <2>1
    <3>2. f[n + 1] = Built(marks, noted, n + 1, d)
      BY <2>1, <3>1
    <3> QED BY <2>1, <2>9, <3>2 DEF Built
  <2>11. Items(marks, n + 1) = L \cup {a} /\ KindAt(marks, noted, n + 1) = KindOf(a, noted)
    <3>1. 1 .. (n + 1) = (1 .. n) \cup {n + 1}
      BY <2>1
    <3> QED BY <2>1, <3>1 DEF Items, KindAt
  <2>12. F(n + 1)
    BY <2>9, <2>10, <2>11, Zenon
  <2> HIDE DEF F
  <2> QED BY <2>1, <2>12
<1> HIDE DEF S
<1>6. 0 .. m \subseteq S
  BY <1>1, <1>4, <1>5, Induct
<1>7. F(m)
  BY <1>1, <1>6 DEF S
<1> QED BY <1>1, <1>2, <1>7, Zenon DEF m

-----------------------------------------------------------------------------
(* What a reader sees. *)

\* The text of all nodes is the text of the article.
LEMMA ContentsIsFull == Contents(Article) = Full
<1> DEFINE T == [i \in DOMAIN Article |-> IF i \in DOMAIN Article THEN Article[i].text ELSE <<>>]
<1>1. Contents(Article) = FlattenSeq(T)
  BY Zenon DEF Contents, TextOf
<1>2. T = ArticleText
  BY DEF ArticleText
<1> QED BY <1>1, <1>2, Zenon DEF Full

\* An annotation of the document marks the text that was selected.
LEMMA MarkedIsSelected ==
    ASSUME NEW d, NEW L, NEW kind, Shows(d, L, kind), Distinct(L), NEW a, a \in L, a.start.at < a.end.at
    PROVE  Marked(d, a.id) = Selected(a)
<1>1. PICK pos : Whole(d, pos, L, kind)
  BY Zenon DEF Shows
<1>2. /\ Len(d) \in Nat /\ DOMAIN d = 1 .. Len(d) /\ pos[Len(d) + 1] = Size /\ Size \in Nat
      /\ \A i \in 1 .. Len(d) : /\ Placed(d[i], pos[i], pos[i + 1], L, kind)
                                /\ pos[i] \in 0 .. Size /\ pos[i + 1] \in 0 .. Size /\ pos[i] <= pos[i + 1]
  BY <1>1, WholeInOrder
<1>3. PICK lo, hi : lo = a.start.at /\ hi = a.end.at
  OBVIOUS
<1>4. lo \in 0 .. Size /\ hi \in lo .. Size /\ hi \in 0 .. Size /\ a.id # Nil
  <2>1. a \in Annotation
    BY DEF Distinct
  <2>2. a.start \in Points /\ a.end \in Points /\ a.id # Nil
    BY <2>1, NilAssumption DEF Annotation
  <2>3. lo \in 0 .. Size /\ hi \in 0 .. Size
    BY <1>3, <2>2, PointFacts
  <2>4. lo <= hi
    BY <1>2, <1>3, <2>3
  <2> QED BY <1>2, <2>2, <2>3, <2>4
<1> DEFINE S == {i \in DOMAIN d : d[i].by = a.id}
<1>5. Between(d, pos, S, lo, hi)
  <2>1. ASSUME NEW i \in 1 .. Len(d), d[i].by = a.id
        PROVE  d[i].text = Cut(Full, pos[i], pos[i + 1]) /\ lo <= pos[i] /\ pos[i + 1] <= hi
    <3>1. Placed(d[i], pos[i], pos[i + 1], L, kind) /\ d[i].by # Nil
      BY <1>2, <1>4, <2>1
    <3>2. d[i].text = Cut(Full, pos[i], pos[i + 1])
      BY <3>1, Zenon DEF Placed
    <3>3. PICK b \in L : d[i].by = b.id /\ b.start.at <= pos[i] /\ pos[i + 1] <= b.end.at
      BY <3>1, Zenon DEF Placed
    <3>4. b = a
      <4>1. b.id = a.id
        BY <2>1, <3>3, Zenon
      <4>2. \A x, y \in L : x.id = y.id => x = y
        BY Zenon DEF Distinct
      <4> QED BY <4>1, <4>2, Zenon
    <3> QED BY <1>3, <3>2, <3>3, <3>4, Zenon
  <2>2. ASSUME NEW i \in 1 .. Len(d), d[i].by # a.id
        PROVE  pos[i] = pos[i + 1] \/ pos[i + 1] <= lo \/ hi <= pos[i]
    <3>1. Placed(d[i], pos[i], pos[i + 1], L, kind)
      BY <1>2
    <3>2. pos[i] < pos[i + 1] => pos[i + 1] <= lo \/ hi <= pos[i]
      BY <1>3, <2>2, <3>1, Zenon DEF Placed
    <3>3. pos[i] \in 0 .. Size /\ pos[i + 1] \in 0 .. Size /\ pos[i] <= pos[i + 1]
      BY <1>2
    <3>4. pos[i] < pos[i + 1] \/ pos[i] = pos[i + 1]
      BY <1>2, <3>3
    <3> QED BY <3>2, <3>4
  <2>3. \A i \in 1 .. Len(d) : i \in S <=> d[i].by = a.id
    BY <1>2
  <2> HIDE DEF S
  <2> QED BY <2>1, <2>2, <2>3, Zenon DEF Between
<1>6. {j \in S : j < Len(d) + 1} = S
  BY <1>2
<1> HIDE DEF S
<1>7. TextOf(d, {j \in S : j < Len(d) + 1}) = Cut(Full, lo, Clip(pos[Len(d) + 1], lo, hi))
  <2>1. Len(d) + 1 \in 1 .. Len(d) + 1
    BY <1>2
  <2> QED BY <1>1, <1>4, <1>5, <2>1, TextBetween
<1>8. Clip(pos[Len(d) + 1], lo, hi) = hi
  BY <1>2, <1>4 DEF Clip
<1>9. TextOf(d, S) = Cut(Full, lo, hi)
  BY <1>6, <1>7, <1>8, Zenon
<1>10. Selected(a) = Cut(Full, lo, hi)
  BY <1>3, ContentsIsFull, Zenon DEF Selected, Cut
<1> QED BY <1>9, <1>10, Zenon DEF Marked, S

\* Parsing the document again keeps it.
LEMMA ParsedShows ==
    ASSUME NEW d, NEW L, Shows(d, L, "plain")
    PROVE  Shows(Parsed(d), L, "plain")
<1> DEFINE e == Parsed(d)
<1>1. PICK pos : Whole(d, pos, L, "plain")
  BY Zenon DEF Shows
<1>2. /\ Len(d) \in Nat /\ DOMAIN d = 1 .. Len(d) /\ pos \in [1 .. Len(d) + 1 -> 0 .. Size]
      /\ pos[1] = 0 /\ pos[Len(d) + 1] = Size
      /\ \A i \in 1 .. Len(d) : Placed(d[i], pos[i], pos[i + 1], L, "plain") /\ d[i] \in Node
  BY <1>1, WholeInOrder
<1>3. \A i \in 1 .. Len(d) : e[i] = [d[i] EXCEPT !.isText = d[i].isText /\ d[i].text # <<>>]
  BY <1>2 DEF Parsed
<1>4. e = [i \in 1 .. Len(d) |-> e[i]]
  BY <1>2 DEF Parsed
<1> HIDE DEF e
<1>5. ASSUME NEW i \in 1 .. Len(d)
      PROVE  /\ e[i] \in Node /\ e[i].path = d[i].path /\ e[i].text = d[i].text /\ e[i].by = d[i].by /\ e[i].first = d[i].first
             /\ d[i].isText /\ d[i].text # <<>> => e[i].isText
  <2> PICK n, t : n = d[i] /\ t = (d[i].isText /\ d[i].text # <<>>)
    OBVIOUS
  <2>1. n \in Node /\ e[i] = [n EXCEPT !.isText = t] /\ t \in BOOLEAN
    BY <1>2, <1>3
  <2>2. e[i] = [path |-> n.path, text |-> n.text, by |-> n.by, first |-> n.first, isText |-> t]
    BY <2>1 DEF Node
  <2>3. e[i] \in Node
    BY <2>1, <2>2 DEF Node
  <2>4. e[i].path = n.path /\ e[i].text = n.text /\ e[i].by = n.by /\ e[i].first = n.first
    BY <2>2
  <2>5. e[i].isText = t
    BY <2>2
  <2> QED BY <2>3, <2>4, <2>5, Zenon
<1>6. e \in Seq(Node) /\ Len(e) = Len(d) /\ DOMAIN e = 1 .. Len(d)
  BY <1>2, <1>4, <1>5
<1>7. ASSUME NEW i \in 1 .. Len(d) PROVE Placed(e[i], pos[i], pos[i + 1], L, "plain")
  <2>1. Placed(d[i], pos[i], pos[i + 1], L, "plain")
    BY <1>2
  <2>2. d[i].text # <<>> => d[i].isText
    BY <2>1, Zenon DEF Placed
  <2>3. e[i].text # <<>> => e[i].isText
    BY <1>5, <2>2
  <2>4. e[i].path = d[i].path /\ e[i].text = d[i].text /\ e[i].by = d[i].by /\ e[i].first = d[i].first
    BY <1>5
  <2> QED BY <2>1, <2>3, <2>4, Zenon DEF Placed
<1>8. Whole(e, pos, L, "plain")
  BY <1>2, <1>6, <1>7, Zenon DEF Whole, Lies
<1>9. Headed(e, L)
  <2>1. Headed(d, L)
    BY Zenon DEF Shows
  <2> QED BY <1>2, <1>5, <1>6, <2>1, Zenon DEF Headed
<1> QED BY <1>8, <1>9, Zenon DEF Shows, e

-----------------------------------------------------------------------------
(* The list of the row. *)

\* The annotation with an id.
LEMMA GetFacts ==
    ASSUME NEW marks, NEW id, id \in IdsOf(marks)
    PROVE  Get(marks, id) \in Range(marks) /\ Get(marks, id).id = id
<1> DEFINE i == CHOOSE i \in DOMAIN marks : marks[i].id = id
<1>1. i \in DOMAIN marks /\ marks[i].id = id
  <2>1. \E k \in DOMAIN marks : marks[k].id = id
    BY DEF IdsOf
  <2> QED BY <2>1, Zenon
<1>2. Get(marks, id) = marks[i]
  BY Zenon DEF Get
<1> HIDE DEF i
<1> QED BY <1>1, <1>2 DEF Range

\* A document that holds the annotations of the list, none of which starts at the end of
\* its element if it has a wrapper with the id attribute.
Sorts(marks, d, pos, kind) ==
    /\ marks \in Seq(Annotation) /\ Distinct(Range(marks)) /\ Whole(d, pos, Range(marks), kind)
    /\ \A b \in Range(marks) :
          /\ b.start.at < b.end.at
          /\ (\E h \in DOMAIN d : d[h].first /\ d[h].by = b.id) => ~StartsAtTheEnd(b)

\* What Sorted joins.
Heading(marks, d) ==
    [h \in DOMAIN d |-> IF d[h].first /\ d[h].by \in IdsOf(marks) THEN <<Get(marks, d[h].by)>> ELSE <<>>]

\* A wrapper with the id attribute is where its annotation starts.
LEMMA HeadFacts ==
    ASSUME NEW marks, NEW d, NEW pos, NEW kind, Sorts(marks, d, pos, kind), NEW h \in 1 .. Len(d), d[h].first
    PROVE  \E b \in Range(marks) :
              /\ d[h].by = b.id /\ Get(marks, d[h].by) = b /\ d[h].by \in IdsOf(marks)
              /\ pos[h] = b.start.at /\ pos[h] < pos[h + 1]
<1>1. Distinct(Range(marks)) /\ Whole(d, pos, Range(marks), kind)
  BY Zenon DEF Sorts
<1>2. Placed(d[h], pos[h], pos[h + 1], Range(marks), kind)
  BY <1>1, WholeInOrder
<1>3. PICK b \in Range(marks) : d[h].by = b.id /\ pos[h] = b.start.at /\ pos[h] < pos[h + 1]
  BY <1>2, Zenon DEF Placed
<1>4. b.id \in IdsOf(marks)
  BY DEF Range, IdsOf
<1>5. Get(marks, b.id) = b
  <2>1. Get(marks, b.id) \in Range(marks) /\ Get(marks, b.id).id = b.id
    BY <1>4, GetFacts
  <2>2. \A x, y \in Range(marks) : x.id = y.id => x = y
    BY <1>1, Zenon DEF Distinct
  <2> QED BY <2>1, <2>2, Zenon
<1> QED BY <1>3, <1>4, <1>5, Zenon

\* A sorted list is in order, and has those annotations that have such a wrapper.
LEMMA SortedOrdered ==
    ASSUME NEW marks, NEW d, NEW pos, NEW kind, Sorts(marks, d, pos, kind)
    PROVE  /\ Ordered(Sorted(marks, d))
           /\ Range(Sorted(marks, d)) \subseteq Range(marks)
           /\ \A b \in Range(marks) : (\E h \in DOMAIN d : d[h].first /\ d[h].by = b.id) <=> b \in Range(Sorted(marks, d))
<1> DEFINE ss == Heading(marks, d)
           w == FlattenSeq(ss)
<1>1. /\ marks \in Seq(Annotation) /\ Distinct(Range(marks)) /\ Whole(d, pos, Range(marks), kind)
      /\ \A b \in Range(marks) :
            /\ b.start.at < b.end.at
            /\ (\E h \in DOMAIN d : d[h].first /\ d[h].by = b.id) => ~StartsAtTheEnd(b)
  BY Zenon DEF Sorts
<1>2. /\ Len(d) \in Nat /\ DOMAIN d = 1 .. Len(d) /\ Size \in Nat
      /\ \A i \in 1 .. Len(d) : /\ Placed(d[i], pos[i], pos[i + 1], Range(marks), kind) /\ d[i] \in Node
                                /\ pos[i] \in 0 .. Size /\ pos[i + 1] \in 0 .. Size
                                /\ i \in 1 .. Len(d) + 1 /\ i + 1 \in 1 .. Len(d) + 1
      /\ \A i, j \in 1 .. Len(d) + 1 : i <= j => pos[i] <= pos[j]
  BY <1>1, WholeInOrder
<1>3. Sorted(marks, d) = w
  BY Zenon DEF Sorted, Heading
<1>4. Range(marks) \subseteq Annotation
  BY <1>1 DEF Distinct
<1>5. \A h \in 1 .. Len(d) : ss[h] = IF d[h].first /\ d[h].by \in IdsOf(marks) THEN <<Get(marks, d[h].by)>> ELSE <<>>
  BY <1>2 DEF Heading
<1>6. ss = [h \in 1 .. Len(d) |-> ss[h]]
  BY <1>2 DEF Heading
<1> HIDE DEF ss
<1>7. ASSUME NEW h \in 1 .. Len(d)
      PROVE  /\ ~d[h].first => ss[h] = <<>>
             /\ d[h].first => \E b \in Range(marks) : /\ ss[h] = <<b>> /\ d[h].by = b.id /\ pos[h] = b.start.at /\ pos[h] < pos[h + 1]
  <2>1. CASE d[h].first
    <3>1. PICK b \in Range(marks) : /\ d[h].by = b.id /\ Get(marks, d[h].by) = b /\ d[h].by \in IdsOf(marks)
                                   /\ pos[h] = b.start.at /\ pos[h] < pos[h + 1]
      BY <2>1, HeadFacts
    <3> QED BY <1>5, <2>1, <3>1, Zenon
  <2>2. CASE ~d[h].first
    BY <1>5, <2>2, Zenon
  <2> QED BY <2>1, <2>2
<1>8. ss \in Seq(Seq(Annotation)) /\ Len(ss) = Len(d) /\ \A h \in 1 .. Len(ss) : Len(ss[h]) <= 1
  <2>1. \A b \in Annotation : <<b>> \in Seq(Annotation) /\ Len(<<b>>) <= 1
    OBVIOUS
  <2>2. <<>> \in Seq(Annotation) /\ Len(<<>>) <= 1
    OBVIOUS
  <2>3. \A h \in 1 .. Len(d) : ss[h] \in Seq(Annotation) /\ Len(ss[h]) <= 1
    <3> SUFFICES ASSUME NEW h \in 1 .. Len(d) PROVE ss[h] \in Seq(Annotation) /\ Len(ss[h]) <= 1
      OBVIOUS
    <3>1. ss[h] = <<>> \/ \E b \in Annotation : ss[h] = <<b>>
      BY <1>4, <1>7
    <3> QED BY <2>1, <2>2, <3>1, Zenon
  <2>4. ss \in Seq(Seq(Annotation)) /\ Len(ss) = Len(d)
    BY <1>2, <1>6, <2>3
  <2> QED BY <2>3, <2>4
<1>9. w \in Seq(Annotation) /\ Len(w) \in Nat /\ DOMAIN w = 1 .. Len(w)
  <2>1. w \in Seq(Annotation)
    BY <1>8, FlattenType
  <2> QED BY <2>1, LenProperties
<1>10. Range(w) = UNION {Range(ss[h]) : h \in 1 .. Len(d)}
  BY <1>8, FlattenRange
<1>11. PICK f : Picks(w, ss, Len(d), f)
  BY <1>8, FlattenPicks
<1> HIDE DEF w
<1>12. /\ \A k \in 1 .. Len(w) : f[k] \in 1 .. Len(d) /\ ss[f[k]] = <<w[k]>>
       /\ \A k, l \in 1 .. Len(w) : k < l => f[k] < f[l]
  BY <1>11 DEF Picks, Increases
<1>13. ASSUME NEW k \in 1 .. Len(w)
       PROVE  /\ w[k] \in Range(marks) /\ d[f[k]].first /\ d[f[k]].by = w[k].id
              /\ pos[f[k]] = w[k].start.at /\ pos[f[k]] < pos[f[k] + 1]
  <2> PICK h, z : h = f[k] /\ z = w[k]
    OBVIOUS
  <2>1. h \in 1 .. Len(d) /\ ss[h] = <<z>>
    BY <1>12
  <2>2. <<z>> # <<>>
    OBVIOUS
  <2>3. PICK b \in Range(marks) : /\ ss[h] = <<b>> /\ d[h].by = b.id /\ pos[h] = b.start.at /\ pos[h] < pos[h + 1]
    BY <1>7, <2>1, <2>2
  <2>4. d[h].first
    BY <1>7, <2>1, <2>2, Zenon
  <2>5. b = z
    BY <2>1, <2>3
  <2> QED BY <2>3, <2>4, <2>5, Zenon
<1>14. ASSUME NEW k \in 1 .. Len(w), NEW l \in 1 .. Len(w), k < l
       PROVE  w[k].end.at <= w[l].start.at /\ w[k].id # w[l].id
  <2> PICK a, b, g, h, x, x1, y, y1 :
         a = w[k] /\ b = w[l] /\ g = f[k] /\ h = f[l] /\ x = pos[g] /\ x1 = pos[g + 1] /\ y = pos[h] /\ y1 = pos[h + 1]
    OBVIOUS
  <2>1. /\ a \in Range(marks) /\ d[g].by = a.id /\ x = a.start.at /\ x < x1
        /\ b \in Range(marks) /\ d[h].by = b.id /\ y = b.start.at /\ y < y1
    BY <1>13, Zenon
  <2>2. g \in 1 .. Len(d) /\ h \in 1 .. Len(d) /\ g < h
    BY <1>12, <1>14
  <2>3. g + 1 \in 1 .. Len(d) + 1 /\ h \in 1 .. Len(d) + 1 /\ g + 1 <= h
    BY <1>2, <2>2, SMTT(30)
  <2>4. x \in 0 .. Size /\ x1 \in 0 .. Size /\ y \in 0 .. Size /\ y1 \in 0 .. Size /\ x1 <= y
    BY <1>2, <2>2, <2>3
  <2>5. a.id # b.id
    <3>1. a # b
      BY <1>2, <2>1, <2>4, SMTT(30)
    <3> QED BY <1>1, <2>1, <3>1, Zenon DEF Distinct
  <2>6. y1 <= a.start.at \/ a.end.at <= y
    <3>1. Placed(d[h], y, y1, Range(marks), kind)
      BY <1>2, <2>2
    <3>2. d[h].by # a.id
      BY <2>1, <2>5, Zenon
    <3> QED BY <2>1, <3>1, <3>2, Zenon DEF Placed
  <2>7. a.end.at <= y
    <3>1. x < x1 /\ y < y1
      BY <2>1
    <3>2. ~ (y1 <= x)
      BY <1>2, <2>4, <3>1, SMTT(30)
    <3>3. y1 <= x \/ a.end.at <= y
      BY <2>1, <2>6, Zenon
    <3> QED BY <3>2, <3>3
  <2> QED BY <2>1, <2>5, <2>7, Zenon
<1>15. ASSUME NEW k \in 1 .. Len(w) PROVE w[k].start.at < w[k].end.at /\ ~StartsAtTheEnd(w[k])
  <2>1. w[k] \in Range(marks) /\ f[k] \in DOMAIN d /\ d[f[k]].first /\ d[f[k]].by = w[k].id
    BY <1>2, <1>12, <1>13
  <2> QED BY <1>1, <2>1, Zenon
<1>16. Ordered(w)
  BY <1>9, <1>14, <1>15, Zenon DEF Ordered
<1>17. Range(w) \subseteq Range(marks)
  BY <1>9, <1>13 DEF Range
<1>18. ASSUME NEW b \in Range(marks), NEW h \in DOMAIN d, d[h].first, d[h].by = b.id PROVE b \in Range(w)
  <2>1. h \in 1 .. Len(d)
    BY <1>2
  <2>2. PICK c \in Range(marks) : ss[h] = <<c>> /\ d[h].by = c.id
    BY <1>7, <1>18, <2>1
  <2>3. c = b
    BY <1>1, <1>18, <2>2, Zenon DEF Distinct
  <2>4. b \in Range(ss[h])
    <3>1. b \in Range(<<b>>)
      BY DEF Range
    <3> QED BY <2>2, <2>3, <3>1, Zenon
  <2> QED BY <1>10, <2>1, <2>4
<1>19. ASSUME NEW b \in Range(w) PROVE \E h \in DOMAIN d : d[h].first /\ d[h].by = b.id
  <2>1. PICK k \in 1 .. Len(w) : b = w[k]
    BY <1>9 DEF Range
  <2>2. f[k] \in DOMAIN d /\ d[f[k]].first /\ d[f[k]].by = b.id
    BY <1>2, <1>12, <1>13, <2>1
  <2> QED BY <2>2
<1> QED BY <1>3, <1>16, <1>17, <1>18, <1>19, Zenon

\* An order is kept when an annotation is removed.
LEMMA WithoutOrdered ==
    ASSUME NEW marks, Ordered(marks), NEW id
    PROVE  /\ Ordered(Without(marks, id))
           /\ \A b : b \in Range(Without(marks, id)) <=> b \in Range(marks) /\ b.id # id
<1> DEFINE m == Len(marks)
           ss == [i \in DOMAIN marks |-> IF marks[i].id = id THEN <<>> ELSE <<marks[i]>>]
           w == FlattenSeq(ss)
<1>1. /\ m \in Nat /\ DOMAIN marks = 1 .. m
      /\ \A i \in 1 .. m : marks[i] \in Annotation /\ marks[i].start.at < marks[i].end.at /\ ~StartsAtTheEnd(marks[i])
      /\ \A i, j \in 1 .. m : i < j => marks[i].end.at <= marks[j].start.at /\ marks[i].id # marks[j].id
  BY OrderedFacts
<1>2. Without(marks, id) = w
  BY Zenon DEF Without
<1> HIDE DEF m
<1>3. \A i \in 1 .. m : ss[i] = IF marks[i].id = id THEN <<>> ELSE <<marks[i]>>
  BY <1>1
<1>4. ss = [i \in 1 .. m |-> ss[i]]
  BY <1>1
<1> HIDE DEF ss
<1>5. \A i \in 1 .. m : ss[i] \in Seq(Annotation) /\ Len(ss[i]) <= 1
  <2>1. \A b \in Annotation : <<b>> \in Seq(Annotation) /\ Len(<<b>>) <= 1
    OBVIOUS
  <2>2. <<>> \in Seq(Annotation) /\ Len(<<>>) <= 1
    OBVIOUS
  <2>3. \A i \in 1 .. m : marks[i] \in Annotation
    BY <1>1
  <2> QED BY <1>3, <2>1, <2>2, <2>3, Zenon
<1>6. ss \in Seq(Seq(Annotation)) /\ Len(ss) = m
  BY <1>1, <1>4, <1>5
<1>7. w \in Seq(Annotation) /\ Len(w) \in Nat /\ DOMAIN w = 1 .. Len(w)
  <2>1. w \in Seq(Annotation)
    BY <1>6, FlattenType
  <2> QED BY <2>1, LenProperties
<1>8. Range(w) = UNION {Range(ss[i]) : i \in 1 .. m}
  BY <1>6, FlattenRange
<1>9. PICK f : Picks(w, ss, m, f)
  BY <1>5, <1>6, FlattenPicks
<1> HIDE DEF w
<1>10. /\ \A k \in 1 .. Len(w) : f[k] \in 1 .. m /\ ss[f[k]] = <<w[k]>>
       /\ \A k, l \in 1 .. Len(w) : k < l => f[k] < f[l]
  BY <1>9 DEF Picks, Increases
<1>11. ASSUME NEW k \in 1 .. Len(w) PROVE w[k] = marks[f[k]] /\ w[k].id # id
  <2> PICK h, z, b : h = f[k] /\ z = w[k] /\ b = marks[h]
    OBVIOUS
  <2>1. h \in 1 .. m /\ ss[h] = <<z>>
    BY <1>10
  <2>2. <<z>> # <<>>
    OBVIOUS
  <2>3. b.id # id /\ ss[h] = <<b>>
    BY <1>3, <2>1, <2>2, Zenon
  <2>4. b = z
    BY <2>1, <2>3
  <2> QED BY <2>3, <2>4, Zenon
<1>12. ASSUME NEW k \in 1 .. Len(w), NEW l \in 1 .. Len(w), k < l
       PROVE  w[k].end.at <= w[l].start.at /\ w[k].id # w[l].id
  <2>1. f[k] \in 1 .. m /\ f[l] \in 1 .. m /\ f[k] < f[l]
    BY <1>10, <1>12
  <2>2. marks[f[k]].end.at <= marks[f[l]].start.at /\ marks[f[k]].id # marks[f[l]].id
    BY <1>1, <2>1
  <2> QED BY <1>11, <2>2, Zenon
<1>13. ASSUME NEW k \in 1 .. Len(w) PROVE w[k].start.at < w[k].end.at /\ ~StartsAtTheEnd(w[k])
  <2>1. marks[f[k]].start.at < marks[f[k]].end.at /\ ~StartsAtTheEnd(marks[f[k]])
    BY <1>1, <1>10
  <2> QED BY <1>11, <2>1, Zenon
<1>14. Ordered(w)
  BY <1>7, <1>12, <1>13, Zenon DEF Ordered
<1>15. ASSUME NEW b \in Range(w) PROVE b \in Range(marks) /\ b.id # id
  <2>1. PICK k \in 1 .. Len(w) : b = w[k]
    BY <1>7 DEF Range
  <2>2. b = marks[f[k]] /\ f[k] \in DOMAIN marks /\ b.id # id
    BY <1>1, <1>10, <1>11, <2>1
  <2> QED BY <2>2 DEF Range
<1>16. ASSUME NEW b \in Range(marks), b.id # id PROVE b \in Range(w)
  <2>1. PICK i \in 1 .. m : b = marks[i]
    BY <1>1 DEF Range
  <2>2. ss[i] = <<b>>
    BY <1>3, <1>16, <2>1
  <2>3. b \in Range(ss[i])
    <3>1. b \in Range(<<b>>)
      BY DEF Range
    <3> QED BY <2>2, <3>1, Zenon
  <2> QED BY <1>8, <2>3
<1> QED BY <1>2, <1>14, <1>15, <1>16, Zenon

\* A new annotation of a list.
Creates(marks, item) ==
    /\ Ordered(marks) /\ item \in Annotation /\ item.start.at < item.end.at
    /\ \A b \in Range(marks) : b.id # item.id

\* What a creation stores: the list that it read and the new annotation, in order.
LEMMA ExtendedSorted ==
    ASSUME NEW marks, NEW item, Creates(marks, item), Extended(marks, item) # Failed
    PROVE  LET new == Sorted(Append(marks, item), Extended(marks, item))
           IN  /\ Ordered(new) /\ Range(new) \subseteq Range(marks) \cup {item} /\ Range(marks) \subseteq Range(new)
               /\ item \in Range(new) \/ StartsAtTheEnd(item)
<1> DEFINE article == AddToNode(marks, {})
           d == Parsed(article)
           r == Extended(marks, item)
           L == Range(marks)
           ext == Append(marks, item)
<1>1. /\ Ordered(marks) /\ item \in Annotation /\ item.start.at < item.end.at
      /\ \A b \in L : b.id # item.id
  BY Zenon DEF Creates
<1>2. /\ marks \in Seq(Annotation) /\ Len(marks) \in Nat /\ DOMAIN marks = 1 .. Len(marks) /\ Distinct(L)
      /\ \A i \in 1 .. Len(marks) : marks[i].start.at < marks[i].end.at /\ ~StartsAtTheEnd(marks[i])
  BY <1>1, OrderedFacts
<1>3. Shows(article, L, "plain")
  <2>1. OnlyLast(marks, {})
    BY DEF OnlyLast
  <2>2. KindAt(marks, {}, Len(marks)) = "plain"
    BY DEF KindAt, KindOf
  <2>3. Shows(article, L, KindAt(marks, {}, Len(marks)))
    BY <1>1, <2>1, OrderedShown
  <2> QED BY <2>2, <2>3, Zenon
<1>4. article # Failed
  BY <1>3, WholeNotFailed, Zenon DEF Shows
<1>5. Shows(d, L, "plain")
  BY <1>3, ParsedShows
<1>6. r = AddAnnotation(d, item, {})
  BY <1>4, Zenon DEF Extended
<1> HIDE DEF article, d, r
<1>7. ~Refused(d, item)
  <2>1. AddAnnotation(d, item, {}) # Failed
    BY <1>6, Zenon DEF r
  <2> QED BY <2>1, AddCases
<1>8. PICK pos : Whole(d, pos, L, "plain")
  BY <1>5, Zenon DEF Shows
<1>9. Fits(d, pos, L, item)
  BY <1>1, <1>2, <1>5, <1>8, Zenon DEF Fits, Shows
<1>10. Adds(r, L, item, "plain")
  <2>1. KindOf(item, {}) = "plain"
    BY DEF KindOf
  <2>2. Adds(AddAnnotation(d, item, {}), L, item, KindOf(item, {}))
    BY <1>7, <1>9, Added
  <2> QED BY <1>6, <2>1, <2>2, Zenon
<1>11. ext \in Seq(Annotation) /\ Range(ext) = L \cup {item}
  <2>1. /\ ext \in Seq(Annotation) /\ Len(ext) = Len(marks) + 1 /\ DOMAIN ext = 1 .. Len(marks) + 1
        /\ \A i \in 1 .. Len(marks) : ext[i] = marks[i]
        /\ ext[Len(marks) + 1] = item
    BY <1>1, <1>2, AppendProperties, LenProperties
  <2> HIDE DEF ext, L
  <2>2. \A i \in 1 .. Len(marks) + 1 : i \in 1 .. Len(marks) \/ i = Len(marks) + 1
    BY <1>2
  <2>3. Range(ext) \subseteq L \cup {item}
    BY <1>2, <2>1, <2>2 DEF Range, L
  <2>4. \A i \in 1 .. Len(marks) : i \in 1 .. Len(marks) + 1
    BY <1>2
  <2>5. L \subseteq Range(ext)
    BY <1>2, <2>1, <2>4 DEF Range, L
  <2>6. item \in Range(ext)
    <3>1. Len(marks) + 1 \in 1 .. Len(marks) + 1
      BY <1>2
    <3> QED BY <2>1, <3>1 DEF Range
  <2> QED BY <2>1, <2>3, <2>5, <2>6
<1>12. PICK q : Whole(r, q, Range(ext), "plain")
  BY <1>10, <1>11, Zenon DEF Adds
<1> HIDE DEF ext
<1>13. /\ \A b \in L : \E h \in DOMAIN r : r[h].first /\ r[h].by = b.id
       /\ (\E h \in DOMAIN r : r[h].first /\ r[h].by = item.id) <=> ~StartsAtTheEnd(item)
  BY <1>10, Zenon DEF Adds, Headed
<1>14. Sorts(ext, r, q, "plain")
  <2>1. Distinct(Range(ext))
    <3>1. L \cup {item} \subseteq Annotation
      BY <1>1, <1>2 DEF Distinct
    <3>2. ASSUME NEW a \in L \cup {item}, NEW b \in L \cup {item}, a.id = b.id PROVE a = b
      <4>1. CASE a \in L /\ b \in L
        BY <1>2, <3>2, <4>1, Zenon DEF Distinct
      <4>2. CASE a = item /\ b = item
        BY <4>2
      <4>3. CASE a = item /\ b \in L
        BY <1>1, <3>2, <4>3
      <4>4. CASE a \in L /\ b = item
        BY <1>1, <3>2, <4>4
      <4> QED BY <4>1, <4>2, <4>3, <4>4
    <3> QED BY <1>11, <3>1, <3>2, Zenon DEF Distinct
  <2>2. \A b \in L : b.start.at < b.end.at /\ ~StartsAtTheEnd(b)
    BY <1>2 DEF Range
  <2>3. \A b \in Range(ext) : b.start.at < b.end.at /\ ((\E h \in DOMAIN r : r[h].first /\ r[h].by = b.id) => ~StartsAtTheEnd(b))
    BY <1>1, <1>11, <1>13, <2>2
  <2> QED BY <1>11, <1>12, <2>1, <2>3, Zenon DEF Sorts
<1>15. /\ Ordered(Sorted(ext, r)) /\ Range(Sorted(ext, r)) \subseteq Range(ext)
       /\ \A b \in Range(ext) : (\E h \in DOMAIN r : r[h].first /\ r[h].by = b.id) <=> b \in Range(Sorted(ext, r))
  BY <1>14, SortedOrdered
<1> HIDE DEF L
<1>16. L \subseteq Range(Sorted(ext, r)) /\ (item \in Range(Sorted(ext, r)) \/ StartsAtTheEnd(item))
  <2>1. item \in Range(ext) /\ L \subseteq Range(ext)
    BY <1>11
  <2>2. \A b \in L : b \in Range(ext) /\ b \in Range(Sorted(ext, r))
    BY <1>13, <1>15, <2>1
  <2>3. item \in Range(Sorted(ext, r)) \/ StartsAtTheEnd(item)
    BY <1>13, <1>15, <2>1, Zenon
  <2> QED BY <2>2, <2>3
<1> QED BY <1>11, <1>15, <1>16, Zenon DEF L, ext, r

-----------------------------------------------------------------------------
(* The invariant. *)

\* The types of the variables other than the list.
Held ==
    /\ request \in [Handlers -> AnnotationRequest \cup {Nil}]
    /\ told \in [Ids -> Annotation \cup {Nil}]
    /\ deleted \subseteq Ids /\ overtaken \subseteq Ids

\* The creation of each annotation of a list was answered with 201.
Known(marks) == \A id \in IdsOf(marks) : told[id] # Nil

\* What a request has read is a list like the one of the row, and what it creates was
\* not answered yet.
RequestsFit ==
    \A r \in Handlers : request[r] # Nil =>
       /\ Ordered(request[r].read) /\ Known(request[r].read)
       /\ request[r].op = "create" =>
             request[r].item.start.at < request[r].item.end.at /\ told[request[r].item.id] = Nil

\* Each annotation has an id of its own.
CreatorsDiffer ==
    \A r, q \in Handlers :
       r # q /\ request[r] # Nil /\ request[q] # Nil /\ request[r].op = "create" /\ request[q].op = "create" =>
         request[r].item.id # request[q].item.id

\* The inductive invariant.
RowInv ==
    /\ Held /\ Ordered(annotations) /\ Known(annotations)
    /\ RequestsFit /\ CreatorsDiffer /\ KeptUnlessOvertaken

\* The ids of a list.
LEMMA IdsOfRange ==
    ASSUME NEW marks
    PROVE  \A id : id \in IdsOf(marks) <=> \E b \in Range(marks) : b.id = id
BY DEF IdsOf, Range

\* They are as many as the annotations.
LEMMA OrderedIds ==
    ASSUME NEW marks, Ordered(marks)
    PROVE  IdsOf(marks) \subseteq Ids /\ Cardinality(IdsOf(marks)) = Len(marks)
<1> DEFINE m == Len(marks)
           f == [i \in 1 .. m |-> marks[i].id]
<1>1. /\ m \in Nat /\ DOMAIN marks = 1 .. m /\ \A i \in 1 .. m : marks[i] \in Annotation
      /\ \A i, j \in 1 .. m : marks[i].id = marks[j].id => i = j
  BY OrderedFacts
<1> HIDE DEF m
<1>2. \A i \in 1 .. m : marks[i].id \in Ids
  BY <1>1 DEF Annotation
<1>3. IdsOf(marks) \subseteq Ids
  BY <1>1, <1>2 DEF IdsOf
<1>4. f \in Bijection(1 .. m, IdsOf(marks))
  <2>1. f \in [1 .. m -> IdsOf(marks)]
    BY <1>1 DEF IdsOf
  <2>2. \A i, j \in 1 .. m : f[i] = f[j] => i = j
    BY <1>1
  <2>3. \A id \in IdsOf(marks) : \E i \in 1 .. m : f[i] = id
    BY <1>1 DEF IdsOf
  <2> HIDE DEF f
  <2> QED BY <2>1, <2>2, <2>3 DEF Bijection, Injection, Surjection, IsInjective
<1>5. IsFiniteSet(1 .. m) /\ Cardinality(1 .. m) = m
  <2>1. 1 \in Int /\ m \in Int /\ (IF 1 > m THEN 0 ELSE m - 1 + 1) = m
    BY <1>1
  <2> QED BY <2>1, FS_Interval
<1>6. ExistsBijection(1 .. m, IdsOf(marks))
  BY <1>4 DEF ExistsBijection
<1>7. Cardinality(IdsOf(marks)) = m
  BY <1>5, <1>6, FS_Bijection, FS_SameCardinalityBij
<1> QED BY <1>3, <1>7 DEF m

\* A request stores a list that has what it has read.
LEMMA KeptStep ==
    ASSUME KeptUnlessOvertaken, NEW r, NEW marks, Store(r, marks), deleted \subseteq deleted',
           \A id \in Ids \ deleted' : id \in IdsOf(request[r].read) => id \in IdsOf(marks),
           \A id \in Ids : told'[id] = told[id] \/ id \in IdsOf(marks) \/ StartsAtTheEnd(told'[id])
    PROVE  KeptUnlessOvertaken'
<1> SUFFICES ASSUME NEW id \in Ids, id \notin deleted', id \notin overtaken', told'[id] # Nil
             PROVE  id \in IdsOf(annotations') \/ StartsAtTheEnd(told'[id])
  BY DEF KeptUnlessOvertaken
<1>1. annotations' = marks /\ overtaken' = overtaken \cup (IdsOf(annotations) \ IdsOf(request[r].read))
  BY DEF Store
<1>2. id \notin deleted /\ id \notin overtaken /\ (id \in IdsOf(annotations) => id \in IdsOf(request[r].read))
  BY <1>1
<1>3. CASE told'[id] = told[id]
  <2>1. id \in IdsOf(annotations) \/ StartsAtTheEnd(told[id])
    BY <1>2, <1>3 DEF KeptUnlessOvertaken
  <2>2. id \in IdsOf(annotations) => id \in IdsOf(marks)
    BY <1>2
  <2> QED BY <1>1, <1>3, <2>1, <2>2, Zenon
<1>4. CASE told'[id] # told[id]
  BY <1>1, <1>4, Zenon
<1> QED BY <1>3, <1>4

\* A request is answered.
Answers(r) ==
    /\ request' = [request EXCEPT ![r] = Nil]
    /\ \A id \in Ids : told[id] # Nil => told'[id] # Nil
    /\ \A q \in Handlers : q # r /\ request[q] # Nil /\ request[q].op = "create" =>
          told'[request[q].item.id] = Nil

\* The other requests are not touched.
LEMMA AnswersKeep ==
    ASSUME Held, RequestsFit, CreatorsDiffer, NEW r \in Handlers, Answers(r)
    PROVE  RequestsFit' /\ CreatorsDiffer'
<1>1. \A q \in Handlers : request'[q] # Nil => q # r /\ request[q] # Nil /\ request'[q] = request[q]
  BY DEF Held, Answers
<1>2. ASSUME NEW q \in Handlers, request'[q] # Nil
      PROVE  /\ Ordered(request'[q].read) /\ \A id \in IdsOf(request'[q].read) : told'[id] # Nil
             /\ request'[q].op = "create" =>
                   request'[q].item.start.at < request'[q].item.end.at /\ told'[request'[q].item.id] = Nil
  <2>1. q # r /\ request[q] # Nil /\ request'[q] = request[q]
    BY <1>1, <1>2
  <2>2. /\ Ordered(request[q].read) /\ \A id \in IdsOf(request[q].read) : told[id] # Nil
        /\ request[q].op = "create" => request[q].item.start.at < request[q].item.end.at
    BY <2>1 DEF RequestsFit, Known
  <2>3. \A id \in IdsOf(request[q].read) : id \in Ids /\ told'[id] # Nil
    BY <2>2, OrderedIds DEF Answers
  <2>4. request[q].op = "create" => told'[request[q].item.id] = Nil
    BY <2>1 DEF Answers
  <2> QED BY <2>1, <2>2, <2>3, <2>4
<1>3. RequestsFit'
  BY <1>2, Zenon DEF RequestsFit, Known
<1>4. CreatorsDiffer'
  BY <1>1, ZenonT(60) DEF CreatorsDiffer
<1> QED BY <1>3, <1>4

\* The invariant holds at first.
LEMMA RowInit == AnnotationsInit => RowInv
<1> SUFFICES ASSUME AnnotationsInit PROVE RowInv
  OBVIOUS
<1>1. /\ annotations = <<>> /\ request = [r \in Handlers |-> Nil] /\ told = [a \in Ids |-> Nil]
      /\ deleted = {} /\ overtaken = {}
  BY DEF AnnotationsInit
<1>2. Held
  BY <1>1 DEF Held
<1>3. Ordered(annotations)
  <2>1. annotations \in Seq(Annotation) /\ DOMAIN annotations = {}
    BY <1>1
  <2> QED BY <2>1, Zenon DEF Ordered
<1>4. Known(annotations)
  <2>1. IdsOf(annotations) = {}
    BY <1>1 DEF IdsOf
  <2> QED BY <2>1 DEF Known
<1>5. RequestsFit /\ CreatorsDiffer /\ KeptUnlessOvertaken
  BY <1>1 DEF RequestsFit, CreatorsDiffer, KeptUnlessOvertaken
<1> QED BY <1>2, <1>3, <1>4, <1>5 DEF RowInv

\* Each action keeps it.
LEMMA BeginCreateKeeps ==
    ASSUME RowInv, NEW r \in Handlers, BeginCreate(r)
    PROVE  RowInv'
<1>1. PICK id \in Ids, s \in Selections :
         /\ told[id] = Nil
         /\ \A q \in Handlers : request[q] # Nil => request[q].item.id # id
         /\ request' = [request EXCEPT ![r] = [op |-> "create", read |-> annotations,
                                               item |-> [id |-> id, start |-> s.start, end |-> s.end]]]
  BY Zenon DEF BeginCreate
<1>2. annotations' = annotations /\ told' = told /\ deleted' = deleted /\ overtaken' = overtaken /\ request[r] = Nil
  BY DEF BeginCreate
<1>3. Held /\ Ordered(annotations) /\ Known(annotations) /\ RequestsFit /\ CreatorsDiffer /\ KeptUnlessOvertaken
  BY DEF RowInv
<1> DEFINE item == [id |-> id, start |-> s.start, end |-> s.end]
           new == [op |-> "create", read |-> annotations, item |-> item]
<1>4. item \in Annotation /\ item.start.at < item.end.at /\ item.id = id
  BY DEF Selections, Annotation
<1> HIDE DEF item
<1>5. new \in AnnotationRequest /\ new.op = "create" /\ new.read = annotations /\ new.item = item
  <2>1. annotations \in Seq(Annotation)
    BY <1>3, OrderedFacts
  <2> QED BY <1>4, <2>1 DEF AnnotationRequest
<1>6. request' = [request EXCEPT ![r] = new]
  BY <1>1 DEF item
<1> HIDE DEF new
<1>7. /\ request' \in [Handlers -> AnnotationRequest \cup {Nil}] /\ request'[r] = new
      /\ \A q \in Handlers : q # r => request'[q] = request[q]
  BY <1>3, <1>5, <1>6 DEF Held
<1>8. Held'
  BY <1>2, <1>3, <1>7 DEF Held
<1>9. Ordered(annotations') /\ Known(annotations)'
  BY <1>2, <1>3, Zenon DEF Known
<1>10. RequestsFit'
  <2> SUFFICES ASSUME NEW q \in Handlers, request'[q] # Nil
               PROVE  /\ Ordered(request'[q].read) /\ \A x \in IdsOf(request'[q].read) : told'[x] # Nil
                      /\ request'[q].op = "create" =>
                            request'[q].item.start.at < request'[q].item.end.at /\ told'[request'[q].item.id] = Nil
    BY Zenon DEF RequestsFit, Known
  <2>1. CASE q = r
    BY <1>1, <1>2, <1>3, <1>4, <1>5, <1>7, <2>1, Zenon DEF Known
  <2>2. CASE q # r
    BY <1>2, <1>3, <1>7, <2>2, Zenon DEF RequestsFit, Known
  <2> QED BY <2>1, <2>2
<1>11. CreatorsDiffer'
  <2> SUFFICES ASSUME NEW p \in Handlers, NEW q \in Handlers, p # q, request'[p] # Nil, request'[q] # Nil,
                      request'[p].op = "create", request'[q].op = "create"
               PROVE  request'[p].item.id # request'[q].item.id
    BY Zenon DEF CreatorsDiffer
  <2>1. CASE p = r
    BY <1>1, <1>4, <1>5, <1>7, <2>1, Zenon
  <2>2. CASE q = r
    BY <1>1, <1>4, <1>5, <1>7, <2>2, Zenon
  <2>3. CASE p # r /\ q # r
    BY <1>3, <1>7, <2>3, Zenon DEF CreatorsDiffer
  <2> QED BY <2>1, <2>2, <2>3
<1>12. KeptUnlessOvertaken'
  BY <1>2, <1>3 DEF KeptUnlessOvertaken
<1> QED BY <1>8, <1>9, <1>10, <1>11, <1>12, Zenon DEF RowInv

LEMMA BeginChangeKeeps ==
    ASSUME RowInv, NEW r \in Handlers, BeginChange(r)
    PROVE  RowInv'
<1>1. PICK i \in DOMAIN annotations, op \in {"update", "delete"} :
         request' = [request EXCEPT ![r] = [op |-> op, read |-> annotations, item |-> annotations[i]]]
  BY Zenon DEF BeginChange
<1>2. annotations' = annotations /\ told' = told /\ deleted' = deleted /\ overtaken' = overtaken
  BY DEF BeginChange
<1>3. Held /\ Ordered(annotations) /\ Known(annotations) /\ RequestsFit /\ CreatorsDiffer /\ KeptUnlessOvertaken
  BY DEF RowInv
<1> DEFINE new == [op |-> op, read |-> annotations, item |-> annotations[i]]
<1>4. new \in AnnotationRequest /\ new.op # "create" /\ new.read = annotations
  <2>1. annotations \in Seq(Annotation) /\ annotations[i] \in Annotation
    BY <1>3, OrderedFacts
  <2> QED BY <2>1 DEF AnnotationRequest
<1>5. request' = [request EXCEPT ![r] = new]
  BY <1>1
<1> HIDE DEF new
<1>6. /\ request' \in [Handlers -> AnnotationRequest \cup {Nil}] /\ request'[r] = new
      /\ \A q \in Handlers : q # r => request'[q] = request[q]
  BY <1>3, <1>4, <1>5 DEF Held
<1>7. Held'
  BY <1>2, <1>3, <1>6 DEF Held
<1>8. Ordered(annotations') /\ Known(annotations)'
  BY <1>2, <1>3, Zenon DEF Known
<1>9. RequestsFit'
  <2> SUFFICES ASSUME NEW q \in Handlers, request'[q] # Nil
               PROVE  /\ Ordered(request'[q].read) /\ \A x \in IdsOf(request'[q].read) : told'[x] # Nil
                      /\ request'[q].op = "create" =>
                            request'[q].item.start.at < request'[q].item.end.at /\ told'[request'[q].item.id] = Nil
    BY Zenon DEF RequestsFit, Known
  <2>1. CASE q = r
    BY <1>2, <1>3, <1>4, <1>6, <2>1, Zenon DEF Known
  <2>2. CASE q # r
    BY <1>2, <1>3, <1>6, <2>2, Zenon DEF RequestsFit, Known
  <2> QED BY <2>1, <2>2
<1>10. CreatorsDiffer'
  BY <1>3, <1>4, <1>6, ZenonT(60) DEF CreatorsDiffer
<1>11. KeptUnlessOvertaken'
  BY <1>2, <1>3 DEF KeptUnlessOvertaken
<1> QED BY <1>7, <1>8, <1>9, <1>10, <1>11, Zenon DEF RowInv

\* A request that was read fits.
LEMMA RequestFacts ==
    ASSUME RowInv, NEW r \in Handlers, request[r] # Nil
    PROVE  /\ request[r] \in AnnotationRequest /\ request[r].item \in Annotation /\ request[r].item.id \in Ids
           /\ Ordered(request[r].read) /\ Known(request[r].read)
           /\ request[r].op = "create" =>
                 request[r].item.start.at < request[r].item.end.at /\ told[request[r].item.id] = Nil
           /\ Held /\ RequestsFit /\ CreatorsDiffer /\ KeptUnlessOvertaken
<1>1. Held /\ RequestsFit /\ CreatorsDiffer /\ KeptUnlessOvertaken
  BY DEF RowInv
<1>2. request[r] \in AnnotationRequest
  BY <1>1 DEF Held
<1>3. request[r].item \in Annotation /\ request[r].item.id \in Ids
  BY <1>2 DEF AnnotationRequest, Annotation
<1>4. /\ Ordered(request[r].read) /\ Known(request[r].read)
      /\ request[r].op = "create" =>
            request[r].item.start.at < request[r].item.end.at /\ told[request[r].item.id] = Nil
  BY <1>1, Zenon DEF RequestsFit
<1> QED BY <1>1, <1>2, <1>3, <1>4, Zenon

LEMMA UpdateKeeps ==
    ASSUME RowInv, NEW r \in Handlers, AnnotationUpdate(r)
    PROVE  RowInv'
<1>1. /\ request[r] # Nil /\ Store(r, request[r].read) /\ request' = [request EXCEPT ![r] = Nil]
      /\ told' = told /\ deleted' = deleted
  BY DEF AnnotationUpdate
<1>2. /\ Ordered(request[r].read) /\ Known(request[r].read)
      /\ Held /\ RequestsFit /\ CreatorsDiffer /\ KeptUnlessOvertaken
  BY <1>1, RequestFacts
<1>3. annotations' = request[r].read /\ overtaken' = overtaken \cup (IdsOf(annotations) \ IdsOf(request[r].read))
  BY <1>1 DEF Store
<1>4. Ordered(annotations') /\ Known(annotations)'
  BY <1>1, <1>2, <1>3, Zenon DEF Known
<1>5. Held'
  <2>1. IdsOf(annotations) \subseteq Ids
    BY OrderedIds DEF RowInv
  <2> QED BY <1>1, <1>2, <1>3, <2>1 DEF Held
<1>6. Answers(r)
  BY <1>1, <1>2, Zenon DEF Answers, RequestsFit
<1>7. RequestsFit' /\ CreatorsDiffer'
  BY <1>2, <1>6, AnswersKeep
<1>8. KeptUnlessOvertaken'
  BY <1>1, <1>2, KeptStep
<1> QED BY <1>4, <1>5, <1>7, <1>8, Zenon DEF RowInv

LEMMA DeleteKeeps ==
    ASSUME RowInv, NEW r \in Handlers, AnnotationDelete(r)
    PROVE  RowInv'
<1> DEFINE x == request[r].item.id
           marks == Without(request[r].read, x)
<1>1. /\ request[r] # Nil /\ Store(r, marks) /\ request' = [request EXCEPT ![r] = Nil]
      /\ told' = told /\ deleted' = deleted \cup {x}
  BY DEF AnnotationDelete
<1>2. /\ x \in Ids /\ Ordered(request[r].read) /\ Known(request[r].read)
      /\ Held /\ RequestsFit /\ CreatorsDiffer /\ KeptUnlessOvertaken
  BY <1>1, RequestFacts
<1>3. annotations' = marks /\ overtaken' = overtaken \cup (IdsOf(annotations) \ IdsOf(request[r].read))
  BY <1>1 DEF Store
<1>4. Ordered(marks) /\ \A b : b \in Range(marks) <=> b \in Range(request[r].read) /\ b.id # x
  BY <1>2, WithoutOrdered
<1> HIDE DEF marks, x
<1>5. \A id : id \in IdsOf(marks) <=> id \in IdsOf(request[r].read) /\ id # x
  BY <1>4, IdsOfRange
<1>6. Ordered(annotations') /\ Known(annotations)'
  BY <1>1, <1>2, <1>3, <1>4, <1>5, Zenon DEF Known
<1>7. Held'
  <2>1. IdsOf(annotations) \subseteq Ids
    BY OrderedIds DEF RowInv
  <2> QED BY <1>1, <1>2, <1>3, <2>1 DEF Held
<1>8. Answers(r)
  BY <1>1, <1>2, Zenon DEF Answers, RequestsFit
<1>9. RequestsFit' /\ CreatorsDiffer'
  BY <1>2, <1>8, AnswersKeep
<1>10. KeptUnlessOvertaken'
  BY <1>1, <1>2, <1>5, KeptStep
<1> QED BY <1>6, <1>7, <1>9, <1>10, Zenon DEF RowInv

LEMMA CreateKeeps ==
    ASSUME RowInv, NEW r \in Handlers, AnnotationCreate(r)
    PROVE  RowInv'
<1> DEFINE item == request[r].item
           read == request[r].read
           doc == Extended(read, item)
           marks == Sorted(Append(read, item), doc)
<1>1. /\ request[r] # Nil /\ request[r].op = "create" /\ request' = [request EXCEPT ![r] = Nil] /\ deleted' = deleted
      /\ IF doc = Failed THEN annotations' = annotations /\ overtaken' = overtaken /\ told' = told
         ELSE Store(r, marks) /\ told' = [told EXCEPT ![item.id] = item]
  BY DEF AnnotationCreate
<1>2. /\ item \in Annotation /\ item.id \in Ids /\ Ordered(read) /\ Known(read)
      /\ item.start.at < item.end.at /\ told[item.id] = Nil
      /\ Held /\ RequestsFit /\ CreatorsDiffer /\ KeptUnlessOvertaken
  BY <1>1, RequestFacts
<1>3. Ordered(annotations) /\ Known(annotations)
  BY DEF RowInv
<1>4. CASE doc = Failed
  <2>1. annotations' = annotations /\ overtaken' = overtaken /\ told' = told
    BY <1>1, <1>4
  <2>2. Ordered(annotations') /\ Known(annotations)'
    BY <1>3, <2>1, Zenon DEF Known
  <2>3. Held'
    BY <1>1, <1>2, <2>1 DEF Held
  <2>4. Answers(r)
    BY <1>1, <1>2, <2>1, Zenon DEF Answers, RequestsFit
  <2>5. RequestsFit' /\ CreatorsDiffer'
    BY <1>2, <2>4, AnswersKeep
  <2>6. KeptUnlessOvertaken'
    BY <1>1, <1>2, <2>1 DEF KeptUnlessOvertaken
  <2> QED BY <2>2, <2>3, <2>5, <2>6, Zenon DEF RowInv
<1>5. CASE doc # Failed
  <2>1. Store(r, marks) /\ told' = [told EXCEPT ![item.id] = item]
    BY <1>1, <1>5
  <2>2. annotations' = marks /\ overtaken' = overtaken \cup (IdsOf(annotations) \ IdsOf(read))
    BY <2>1 DEF Store
  <2>3. Creates(read, item)
    <3>1. \A b \in Range(read) : b.id # item.id
      BY <1>2, IdsOfRange DEF Known
    <3> QED BY <1>2, <3>1, Zenon DEF Creates
  <2>4. /\ Ordered(marks) /\ Range(marks) \subseteq Range(read) \cup {item} /\ Range(read) \subseteq Range(marks)
        /\ item \in Range(marks) \/ StartsAtTheEnd(item)
    BY <1>5, <2>3, ExtendedSorted
  <2> HIDE DEF marks, doc
  <2>5. /\ \A id \in IdsOf(marks) : id \in IdsOf(read) \/ id = item.id
        /\ \A id \in IdsOf(read) : id \in IdsOf(marks)
        /\ item.id \in IdsOf(marks) \/ StartsAtTheEnd(item)
    BY <2>4, IdsOfRange
  <2>6. /\ told'[item.id] = item /\ item # Nil /\ (\A id \in Ids : id # item.id => told'[id] = told[id])
        /\ told' \in [Ids -> Annotation \cup {Nil}]
    BY <1>2, <2>1, NilAssumption DEF Held
  <2>7. Ordered(annotations') /\ Known(annotations)'
    <3>1. \A id \in IdsOf(marks) : told'[id] # Nil
      <4>1. IdsOf(read) \subseteq Ids
        BY <1>2, OrderedIds
      <4> QED BY <1>2, <2>5, <2>6, <4>1 DEF Known
    <3> QED BY <2>2, <2>4, <3>1, Zenon DEF Known
  <2>8. Held'
    <3>1. IdsOf(annotations) \subseteq Ids
      BY <1>3, OrderedIds
    <3> QED BY <1>1, <1>2, <2>2, <2>6, <3>1 DEF Held
  <2>9. Answers(r)
    <3>1. \A id \in Ids : told[id] # Nil => told'[id] # Nil
      BY <2>6
    <3>2. ASSUME NEW q \in Handlers, q # r, request[q] # Nil, request[q].op = "create"
          PROVE  told'[request[q].item.id] = Nil
      <4>1. request[q].item.id \in Ids /\ told[request[q].item.id] = Nil
        BY <3>2, RequestFacts
      <4>2. request[q].item.id # item.id
        BY <1>1, <1>2, <3>2, Zenon DEF CreatorsDiffer
      <4> QED BY <2>6, <4>1, <4>2
    <3> QED BY <1>1, <3>1, <3>2, Zenon DEF Answers
  <2>10. RequestsFit' /\ CreatorsDiffer'
    BY <1>2, <2>9, AnswersKeep
  <2>11. KeptUnlessOvertaken'
    <3>1. \A id \in Ids : told'[id] = told[id] \/ id \in IdsOf(marks) \/ StartsAtTheEnd(told'[id])
      BY <2>5, <2>6, Zenon
    <3>2. \A id \in Ids \ deleted' : id \in IdsOf(read) => id \in IdsOf(marks)
      BY <2>5
    <3>3. deleted \subseteq deleted'
      BY <1>1
    <3> QED BY <1>2, <2>1, <3>1, <3>2, <3>3, KeptStep
  <2> QED BY <2>7, <2>8, <2>10, <2>11, Zenon DEF RowInv
<1> QED BY <1>4, <1>5

\* Every step keeps it.
LEMMA RowStep == RowInv /\ [AnnotationsNext]_annotationVars => RowInv'
<1> SUFFICES ASSUME RowInv, [AnnotationsNext]_annotationVars PROVE RowInv'
  OBVIOUS
<1>1. CASE AnnotationsNext
  <2>1. PICK r \in Handlers : BeginCreate(r) \/ BeginChange(r) \/ AnnotationCreate(r) \/ AnnotationUpdate(r) \/ AnnotationDelete(r)
    BY <1>1 DEF AnnotationsNext
  <2> QED BY <2>1, BeginCreateKeeps, BeginChangeKeeps, CreateKeeps, UpdateKeeps, DeleteKeeps
<1>2. CASE UNCHANGED annotationVars
  BY <1>2 DEF annotationVars, RowInv, Held, Known, RequestsFit, CreatorsDiffer, KeptUnlessOvertaken
<1> QED BY <1>1, <1>2

LEMMA RowAlways == AnnotationsSpec => []RowInv
  BY RowInit, RowStep, PTL DEF AnnotationsSpec

\* The list holds annotations of the article, each once.
THEOREM MarksTypeCorrect == AnnotationsSpec => []AnnotationsTypeOK
<1>1. RowInv => AnnotationsTypeOK
  <2> SUFFICES ASSUME RowInv PROVE AnnotationsTypeOK
    OBVIOUS
  <2>1. Ordered(annotations) /\ Held
    BY DEF RowInv
  <2>2. annotations \in Seq(Annotation) /\ Cardinality(IdsOf(annotations)) = Len(annotations)
    BY <2>1, OrderedFacts, OrderedIds
  <2> QED BY <2>1, <2>2, Zenon DEF AnnotationsTypeOK, Held
<1> QED BY <1>1, RowAlways, PTL

\* On any article, whatever requests overlap, the list can be put on the article and
\* every annotation marks the text that was selected (annotations.go:78).
THEOREM MarksShown == AnnotationsSpec => []ShownAsSelected
<1>1. RowInv => ShownAsSelected
  <2> SUFFICES ASSUME Ordered(annotations) PROVE ShownAsSelected
    BY DEF RowInv
  <2>1. /\ Len(annotations) \in Nat /\ DOMAIN annotations = 1 .. Len(annotations) /\ Distinct(Range(annotations))
        /\ \A i \in 1 .. Len(annotations) : annotations[i].start.at < annotations[i].end.at
        /\ \A i, j \in 1 .. Len(annotations) : annotations[i].id = annotations[j].id => i = j
    BY OrderedFacts
  <2>2. ASSUME NEW noted \in {{}} \cup {{annotations[i].id} : i \in DOMAIN annotations \cap {Len(annotations)}}
        PROVE  OnlyLast(annotations, noted)
    BY <2>1 DEF OnlyLast
  <2>3. ASSUME NEW noted, OnlyLast(annotations, noted)
        PROVE  /\ AddToNode(annotations, noted) # Failed
               /\ \A i \in DOMAIN annotations :
                     Marked(AddToNode(annotations, noted), annotations[i].id) = Selected(annotations[i])
    <3> DEFINE doc == AddToNode(annotations, noted)
               kind == KindAt(annotations, noted, Len(annotations))
    <3>1. Shows(doc, Range(annotations), kind)
      BY <2>3, OrderedShown
    <3> HIDE DEF doc, kind
    <3>2. doc # Failed
      BY <3>1, WholeNotFailed, Zenon DEF Shows
    <3>3. ASSUME NEW i \in DOMAIN annotations PROVE Marked(doc, annotations[i].id) = Selected(annotations[i])
      <4> PICK a : a = annotations[i]
        OBVIOUS
      <4>1. a \in Range(annotations) /\ a.start.at < a.end.at
        BY <2>1 DEF Range
      <4>2. Marked(doc, a.id) = Selected(a)
        BY <2>1, <3>1, <4>1, MarkedIsSelected
      <4> QED BY <4>2, Zenon
    <3> QED BY <3>2, <3>3 DEF doc
  <2> QED BY <2>2, <2>3, Zenon DEF ShownAsSelected
<1> QED BY <1>1, RowAlways, PTL

\* An annotation that was answered with 201 stays in the row until it is removed,
\* but for the two exceptions of KeptUnlessOvertaken (annotations.go:115).
THEOREM MarksKept == AnnotationsSpec => []KeptUnlessOvertaken
<1>1. RowInv => KeptUnlessOvertaken
  BY DEF RowInv
<1> QED BY <1>1, RowAlways, PTL

=============================================================================
