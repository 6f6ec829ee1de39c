------------------------------ MODULE Columns ------------------------------
(***************************************************************************)
(* The columns of a bookmark that are read, changed in memory and written  *)
(* back as a whole - its labels and its annotations - and the log of       *)
(* changes that a client of the API follows with /bookmarks/sync?since=... *)
(*                                                                         *)
(* A request reads the row (withBookmark, or the query of RenameLabel),    *)
(* then takes the time and works out the new value of one column, then     *)
(* runs one UPDATE.  Requests run side by side, without a transaction.     *)
(* What an annotation says and where, the order of a list, and the columns *)
(* that are set without having been read (title, is_archived), are left    *)
(* out.  The rows that an extraction writes are BookmarkLifecycle's.       *)
(*                                                                         *)
(* The client is not in this repository: it asks for what changed since    *)
(* the last time it was told of, gets those bookmarks, and drops those     *)
(* that were deleted, as docs/api/bookmarks/routes-sync.yaml has it.       *)
(***************************************************************************)
EXTENDS Naturals, FiniteSets

CONSTANTS
    Bookmarks,  \* identifiers of the bookmarks of one user
    Labels, Notes,
    Requests,   \* requests in flight
    MaxTime,    \* bound: readings of the clock
    None        \* no row, no request, no answer

ASSUME ColumnsAssumption == MaxTime \in Nat \ {0}

Times == 0 .. MaxTime

Cols == {"labels", "notes"}

Values(col) == IF col = "notes" THEN Notes ELSE Labels

Row == [labels : SUBSET Labels, notes : SUBSET Notes, updated : Times]

\* A request that changes the column col of the bookmarks in ids, or makes a
\* "new" one: the values that it made of those that it read, and the time that it
\* writes with, or None before it took it.
Request == [col : Cols \cup {"new"}, ids : SUBSET Bookmarks,
            value : [Bookmarks -> SUBSET (Labels \cup Notes)], at : Times \cup {None}]

\* An answer to the client: bookmarks to get, bookmarks to drop, and the last
\* of their times.
List == [updates : SUBSET Bookmarks, deletes : SUBSET Bookmarks, upto : Times]

ASSUME NoneAssumption ==
    None \notin Row /\ None \notin Request /\ None \notin List /\ None \notin Nat

VARIABLES
    row,      \* row[b]: the row, or None
    removed,  \* removed[b]: bookmark_removed has it, with this time, or None
    now,      \* the clock
    req,      \* req[q]: the request in flight, or None
    since,    \* the client's: the last time that it was told of
    mirror,   \* the client's: what it knows of b, or None
    list,     \* the answer that the client works on, or None
    late      \* history: bookmarks whose last change has a time that is
              \* before one that the client was already told of

vars == <<row, removed, now, req, since, mirror, list, late>>

client == <<since, mirror, list>>

\* What a client sees of a bookmark.
Content == [labels : SUBSET Labels, notes : SUBSET Notes]

Seen(b) == IF row[b] = None THEN None
           ELSE [labels |-> row[b].labels, notes |-> row[b].notes]

TypeOK ==
    /\ row \in [Bookmarks -> Row \cup {None}]
    /\ removed \in [Bookmarks -> Times \cup {None}]
    /\ now \in Times
    /\ req \in [Requests -> Request \cup {None}]
    /\ \A q \in Requests, b \in Bookmarks :
          req[q] # None => req[q].value[b] \subseteq Values(req[q].col)
    /\ since \in Times
    /\ mirror \in [Bookmarks -> Content \cup {None}]
    /\ list \in List \cup {None}
    /\ late \subseteq Bookmarks

Init ==
    /\ row = [b \in Bookmarks |-> None]
    /\ removed = [b \in Bookmarks |-> None]
    /\ now = 1
    /\ req = [q \in Requests |-> None]
    /\ since = 0
    /\ mirror = [b \in Bookmarks |-> None]
    /\ list = None
    /\ late = {}

-----------------------------------------------------------------------------
(* Requests.                                                               *)

Tick ==
    /\ now < MaxTime
    /\ now' = now + 1
    /\ UNCHANGED <<row, removed, req, client, late>>

Rows == {b \in Bookmarks : row[b] # None}

\* A handler reads the column col of the bookmarks in ids, and makes new values
\* of it: what is in del goes, what is in add comes.
Begin(q, col, ids, del, add) ==
    LET Read(b) == IF col \in Cols THEN row[b][col] ELSE {}
    IN  /\ req[q] = None
        /\ req' = [req EXCEPT ![q] =
                      [col |-> col, ids |-> ids, at |-> None,
                       value |-> [b \in Bookmarks |->
                           IF b \in ids THEN (Read(b) \ del) \cup add ELSE {}]]]
        /\ UNCHANGED <<row, removed, now, client, late>>

\* createForm.createBookmark, with the labels of the form.
Create(q, b, add) ==
    /\ row[b] = None /\ removed[b] = None
    /\ \A p \in Requests : req[p] # None => b \notin req[p].ids
    /\ Begin(q, "new", {b}, {}, add)

\* updateForm.update: "labels" replaces what there is, then come "add_labels"
\* and "remove_labels".
Patch(q, b, del, add) ==
    /\ b \in Rows /\ del \cap add = {} /\ del \cup add # {}
    /\ Begin(q, "labels", {b}, del, add)

\* annotationForm.addToBookmark: a new identifier.
AddNote(q, b, n) ==
    /\ b \in Rows
    /\ \A c \in Bookmarks : (c \in Rows => n \notin row[c].notes)
                            /\ (mirror[c] # None => n \notin mirror[c].notes)
    /\ \A p \in Requests, c \in Bookmarks : req[p] # None => n \notin req[p].value[c]
    /\ Begin(q, "notes", {b}, {}, {n})

\* annotationUpdate writes the list with another color or text.
UpdateNote(q, b, n) ==
    /\ b \in Rows /\ n \in row[b].notes
    /\ Begin(q, "notes", {b}, {}, {})

\* annotationDelete.
DeleteNote(q, b, n) ==
    /\ b \in Rows /\ n \in row[b].notes
    /\ Begin(q, "notes", {b}, {n}, {})

\* RenameLabel, from labelUpdate, or with nothing to add from labelDelete.
Rename(q, old, add) ==
    LET ids == {b \in Rows : old \in row[b].labels} IN
    /\ ids # {}
    /\ Begin(q, "labels", ids, {old} \ add, add)

\* "updated" is the time at which the statement is put together.
Stamp(q) ==
    /\ req[q] # None /\ req[q].at = None
    /\ req' = [req EXCEPT ![q].at = now]
    /\ UNCHANGED <<row, removed, now, client, late>>

\* The rows that the statement of q finds.
Hit(q) == {b \in req[q].ids : b \in Rows \/ req[q].col = "new"}

\* A mistake to catch: every column is written, the other one as it was before
\* anything was put in it.
Written_Whole(q, b) ==
    [[labels |-> {}, notes |-> {}, updated |-> req[q].at]
        EXCEPT ![req[q].col] = req[q].value[b]]

\* The row of b after the statement of q: one column and the time.
Written(q, b) ==
    IF req[q].col = "new"
    THEN [labels |-> req[q].value[b], notes |-> {}, updated |-> req[q].at]
    ELSE [row[b] EXCEPT ![req[q].col] = req[q].value[b], !.updated = req[q].at]

\* The client was told of something later than t.
Told(t) == t < since \/ (list # None /\ t < list.upto)

\* The INSERT or the UPDATE.
Write(q) ==
    /\ req[q] # None /\ req[q].at # None
    /\ row' = [b \in Bookmarks |-> IF b \in Hit(q) THEN Written(q, b) ELSE row[b]]
    /\ late' = IF Told(req[q].at) THEN late \cup Hit(q) ELSE late \ Hit(q)
    /\ req' = [req EXCEPT ![q] = None]
    /\ UNCHANGED <<removed, now, client>>

\* The form is not valid, the statement fails, or the process stops.
Abort(q) ==
    /\ req[q] # None
    /\ req' = [req EXCEPT ![q] = None]
    /\ UNCHANGED <<row, removed, now, client, late>>

\* Bookmark.Delete; the trigger of the table keeps the identifier.
Delete(b) ==
    /\ b \in Rows
    /\ row' = [row EXCEPT ![b] = None]
    /\ removed' = [removed EXCEPT ![b] = now]
    /\ late' = late \ {b}
    /\ UNCHANGED <<now, req, client>>

-----------------------------------------------------------------------------
(* Synchronization.                                                        *)

\* A mistake to catch: what has the time of the last list is left out.
Updated_After(t) == {b \in Rows : row[b].updated > t}

\* bookmarkSyncList: everything that has changed at t or after; without a
\* time, only what there is.
Updated(t) == {b \in Rows : row[b].updated >= t}

Deleted(t) == {b \in Bookmarks : t # 0 /\ removed[b] # None /\ removed[b] >= t}

AskList ==
    LET times == {since} \cup {row[b].updated : b \in Updated(since)}
                         \cup {removed[b] : b \in Deleted(since)}
    IN  /\ list = None
        /\ \E last \in times :
              /\ \A t \in times : t <= last
              /\ list' = [updates |-> Updated(since), deletes |-> Deleted(since),
                          upto |-> last]
        /\ UNCHANGED <<row, removed, now, req, since, mirror, late>>

\* bookmarkSync: the client gets the bookmarks of the list, as they are now,
\* or not if they are gone.
Fetch ==
    /\ list # None
    /\ mirror' = [b \in Bookmarks |->
                     IF b \in list.deletes THEN None
                     ELSE IF b \in list.updates \cap Rows THEN Seen(b) ELSE mirror[b]]
    /\ since' = list.upto
    /\ list' = None
    /\ UNCHANGED <<row, removed, now, req, late>>

\* An answer is lost: the client asks again.
Lose ==
    /\ list # None
    /\ list' = None
    /\ UNCHANGED <<row, removed, now, req, since, mirror, late>>

-----------------------------------------------------------------------------
Serve ==
    \/ \E q \in Requests, b \in Bookmarks, add \in SUBSET Labels :
          Create(q, b, add) \/ \E del \in SUBSET Labels : Patch(q, b, del, add)
    \/ \E q \in Requests, b \in Bookmarks, n \in Notes :
          AddNote(q, b, n) \/ UpdateNote(q, b, n) \/ DeleteNote(q, b, n)
    \/ \E q \in Requests, old \in Labels, add \in {{}} \cup {{l} : l \in Labels} :
          Rename(q, old, add)
    \/ \E q \in Requests : Stamp(q) \/ Write(q) \/ Abort(q)
    \/ \E b \in Bookmarks : Delete(b)

Next == Tick \/ Serve \/ AskList \/ Fetch \/ Lose

Spec == Init /\ [][Next]_vars

-----------------------------------------------------------------------------
(* Properties.                                                             *)

\* Labels and annotations do not take each other back: a column of a bookmark
\* only changes by a request that read this column of this bookmark, whatever
\* else is written between its reading and its UPDATE (bookmarks.go:326,
\* routes/api_bookmarks.go:423).
NothingElseIsLost ==
    [][\A b \in Rows, col \in Cols :
          row'[b] # None /\ row'[b][col] # row[b][col] =>
              \E q \in Requests : /\ req[q] # None /\ req'[q] = None
                                  /\ b \in req[q].ids /\ col = req[q].col]_vars

\* "Updated and deleted IDs including and after this value"
\* (routes-sync.yaml:25): what the client has not got of a bookmark is in the
\* next list that it asks for, however requests, deletions, lists and lost
\* answers follow each other - but for a change that was written after the
\* client was told of a later one.
NothingIsMissed ==
    \A b \in Bookmarks \ late :
        mirror[b] # Seen(b) => b \in Updated(since) \cup Deleted(since)

=============================================================================
