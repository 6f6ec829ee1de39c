-------------------------------- MODULE Import --------------------------------
(***************************************************************************)
(* Imports of bookmarks and their progress (internal/bookmarks/importer).  *)
(*                                                                         *)
(* An import is a task that creates one bookmark after the other, launches *)
(* an extraction for each and then stores the list of what it created in   *)
(* the key/value store.  Each extraction, when it ends, reads that list,   *)
(* counts the bookmarks that are not loading any more and removes the list *)
(* when it finds all of them.  The two sides share the list without any    *)
(* lock, and the extraction of a bookmark can be over before the import    *)
(* has put it on the list.                                                 *)
(*                                                                         *)
(* Imports and extractions are tasks of the same pool of workers.  What an *)
(* extraction does to the row in between is BookmarkLifecycle's; here it   *)
(* ends in one step and leaves the row "settled", loaded or in error.      *)
(***************************************************************************)
EXTENDS Naturals, Sequences, FiniteSets

CONSTANTS
    Imports,
    URLs,
    Sources,      \* what each import may be given: sequences of URLs
    Allow,        \* the imports with AllowDuplicates
    Workers,      \* number of workers of the task manager
    MaxBookmarks, \* bound: no more bookmarks are born
    MaxMishaps,   \* bound: once so many imports met a mishap there is none
    Persistent,   \* TRUE: the store survives the process (redis)
    MayCrash,
    None

ASSUME ImportAssumption ==
    /\ Sources \in [Imports -> SUBSET Seq(URLs)]
    /\ Allow \subseteq Imports /\ None \notin Imports
    /\ Workers \in Nat \ {0} /\ MaxBookmarks \in Nat /\ MaxMishaps \in Nat
    /\ Persistent \in BOOLEAN /\ MayCrash \in BOOLEAN

Bookmarks == 1 .. MaxBookmarks
Row == [state : {"loading", "settled"}, url : URLs, initial : URLs]

ASSUME NoRow == None \notin Row

VARIABLES
    task,    \* task[i]: where the import stands
    left,    \* left[i]: the items its adapter still has
    ids,     \* ids[i]: the bookmarks it created; IDs only grow
    list,    \* list[i]: its value in the store, empty when there is none
    born,    \* the last identifier
    row,     \* row[b]: the bookmark, or None
    from,    \* from[b]: the import that created b, or None
    ex,      \* ex[b]: where its extraction stands
    seen,    \* seen[b]: the list that the extraction read
    before,  \* history: before[i], the last identifier when i began
    late,    \* history: imports whose list no extraction has read since it was
             \* stored
    stale,   \* history: imports with an extraction that removed a list which
             \* had changed since it was read
    mishap   \* history: imports that a deletion, a failed query or a crash
             \* got in the way of

vars == <<task, left, ids, list, born, row, from, ex, seen, before, late,
          stale, mishap>>
history == <<before, late, stale, mishap>>
extraction == <<ex, seen>>

Steps == {"queued", "next", "checked", "created", "launched", "over"}
Stages == {"none", "queued", "started", "saved", "counting", "clearing", "done"}

TypeOK ==
    /\ task \in [Imports -> Steps] /\ left \in [Imports -> Seq(URLs)]
    /\ ids \in [Imports -> SUBSET Bookmarks]
    /\ list \in [Imports -> SUBSET Bookmarks]
    /\ born \in 0 .. MaxBookmarks
    /\ row \in [Bookmarks -> Row \cup {None}]
    /\ from \in [Bookmarks -> Imports \cup {None}]
    /\ ex \in [Bookmarks -> Stages] /\ seen \in [Bookmarks -> SUBSET Bookmarks]
    /\ before \in [Imports -> 0 .. MaxBookmarks]
    /\ late \subseteq Imports /\ stale \subseteq Imports
    /\ mishap \subseteq Imports
    /\ \A i \in Imports : list[i] \subseteq ids[i] /\ ids[i] \subseteq 1 .. born
    /\ \A b \in Bookmarks, i \in Imports : from[b] = i <=> b \in ids[i]
    /\ \A b \in Bookmarks :
          /\ b > born => row[b] = None /\ from[b] = None
          /\ from[b] = None => ex[b] = "none"

Init ==
    /\ task = [i \in Imports |-> "queued"]
    /\ left \in {f \in [Imports -> UNION {Sources[i] : i \in Imports}] :
                   \A i \in Imports : f[i] \in Sources[i]}
    /\ ids = [i \in Imports |-> {}] /\ list = [i \in Imports |-> {}]
    /\ born = 0 /\ row = [b \in Bookmarks |-> None]
    /\ from = [b \in Bookmarks |-> None]
    /\ ex = [b \in Bookmarks |-> "none"] /\ seen = [b \in Bookmarks |-> {}]
    /\ before = [i \in Imports |-> 0]
    /\ late = {} /\ stale = {} /\ mishap = {}

\* A task of the pool is in the hands of a worker.
Running == {i \in Imports : task[i] \notin {"queued", "over"}}
Extracting == {b \in Bookmarks : ex[b] \notin {"none", "queued", "done"}}
MayFail == Cardinality(mishap) < MaxMishaps
Idle == Cardinality(Running) + Cardinality(Extracting) < Workers

-----------------------------------------------------------------------------
(* importBookmarksHandler, Import and createBookmark.                      *)

Begin(i) ==
    /\ task[i] = "queued" /\ Idle
    /\ task' = [task EXCEPT ![i] = "next"]
    /\ before' = [before EXCEPT ![i] = born]
    /\ UNCHANGED <<left, ids, list, born, row, from, extraction, late, stale,
                   mishap>>

\* A mistake to catch: only the URL that a bookmark has now is looked at.
Exists_ByURL(u) == \E b \in Bookmarks : row[b] # None /\ u = row[b].url

\* The query for duplicates: a link is known by the URL the extraction found and
\* by the one it was created with.
Exists(u) ==
    \E b \in Bookmarks : row[b] # None /\ u \in {row[b].url, row[b].initial}

\* The next item is ignored: it has no URL that can be used, its meta data
\* cannot be read, it exists already or the query failed.
Ignore(i) ==
    /\ task[i] = "next" /\ left[i] # <<>>
    /\ left' = [left EXCEPT ![i] = Tail(@)]
    /\ UNCHANGED <<task, ids, list, born, row, from, extraction, history>>

\* The next item passes the check for duplicates.
Check(i) ==
    /\ task[i] = "next" /\ left[i] # <<>>
    /\ i \in Allow \/ ~ Exists(Head(left[i]))
    /\ task' = [task EXCEPT ![i] = "checked"]
    /\ UNCHANGED <<left, ids, list, born, row, from, extraction, history>>

\* Bookmarks.Create inserts the row; the error is logged and the item is lost.
Create(i) ==
    /\ task[i] = "checked"
    /\ left' = [left EXCEPT ![i] = Tail(@)]
    /\ LET b == born + 1
           u == Head(left[i])
       IN  \/ /\ born < MaxBookmarks
              /\ born' = b
              /\ row' = [row EXCEPT ![b] =
                            [state |-> "loading", url |-> u, initial |-> u]]
              /\ from' = [from EXCEPT ![b] = i]
              /\ ids' = [ids EXCEPT ![i] = @ \cup {b}]
              /\ task' = [task EXCEPT ![i] = "created"]
           \/ /\ task' = [task EXCEPT ![i] = "next"]
              /\ UNCHANGED <<born, row, from, ids>>
    /\ UNCHANGED <<list, extraction, history>>

\* The bookmark the import is at.
Current(i) == CHOOSE b \in ids[i] : \A c \in ids[i] : c <= b

\* A mistake to catch: a launch that failed is only logged.
LaunchExtract_LogsOnly(i) ==
    /\ task[i] = "created"
    /\ task' = [task EXCEPT ![i] = "launched"]
    /\ \/ ex' = [ex EXCEPT ![Current(i)] = "queued"]
       \/ ex' = [ex EXCEPT ![Current(i)] = "done"]
    /\ UNCHANGED <<left, ids, list, born, row, from, seen, history>>

\* ImportExtractTask.Run; when the launch fails the bookmark is in error, if that
\* can be saved.
LaunchExtract(i) ==
    /\ task[i] = "created"
    /\ task' = [task EXCEPT ![i] = "launched"]
    /\ LET b == Current(i)
       IN  \/ ex' = [ex EXCEPT ![b] = "queued"] /\ UNCHANGED <<row, mishap>>
           \/ /\ ex' = [ex EXCEPT ![b] = "done"]
              /\ row' = [row EXCEPT ![b] = IF @ = None THEN None
                                           ELSE [@ EXCEPT !.state = "settled"]]
              /\ UNCHANGED mishap
           \/ /\ MayFail
              /\ ex' = [ex EXCEPT ![b] = "done"]
              /\ mishap' = mishap \cup {i}
              /\ UNCHANGED row
    /\ UNCHANGED <<left, ids, list, born, from, seen, before, late, stale>>

\* f(ids): the list is stored for ever, whatever became of the one before; an
\* error is not looked at.
Tell(i) ==
    /\ task[i] = "launched"
    /\ \/ list' = [list EXCEPT ![i] = ids[i]] /\ UNCHANGED mishap
       \/ Persistent /\ MayFail /\ UNCHANGED list /\ mishap' = mishap \cup {i}
    /\ task' = [task EXCEPT ![i] = "next"]
    /\ late' = late \cup {i}
    /\ UNCHANGED <<left, ids, born, row, from, extraction, before, stale>>

\* A mistake to catch: the import waits for its extractions before it returns.
EndOfItems_Waits(i) ==
    /\ task[i] = "next"
    /\ \A b \in ids[i] : ex[b] = "done"
    /\ task' = [task EXCEPT ![i] = "over"]
    /\ left' = [left EXCEPT ![i] = <<>>]
    /\ UNCHANGED <<ids, list, born, row, from, extraction, history>>

\* io.EOF: at the end of the items, or when an adapter cannot fetch more.
EndOfItems(i) ==
    /\ task[i] = "next"
    /\ task' = [task EXCEPT ![i] = "over"]
    /\ left' = [left EXCEPT ![i] = <<>>]
    /\ list' = IF ids[i] = {} THEN [list EXCEPT ![i] = {}] ELSE list
    /\ UNCHANGED <<ids, born, row, from, extraction, history>>

-----------------------------------------------------------------------------
(* importExtractHandler.                                                   *)

ExtractBegin(b) ==
    /\ ex[b] = "queued" /\ Idle
    /\ ex' = [ex EXCEPT ![b] = "started"]
    /\ UNCHANGED <<task, left, ids, list, born, row, from, seen, history>>

\* ExtractPage: whatever happens, the row is not loading at the end, unless it
\* cannot be written; redirects give it another URL.
ExtractSave(b) ==
    /\ ex[b] = "started"
    /\ ex' = [ex EXCEPT ![b] = "saved"]
    /\ \/ /\ row[b] = None
          /\ UNCHANGED <<row, mishap>>
       \/ /\ row[b] # None
          /\ \E u \in URLs : row' = [row EXCEPT ![b].state = "settled", ![b].url = u]
          /\ UNCHANGED mishap
       \/ MayFail /\ UNCHANGED row /\ mishap' = mishap \cup {from[b]}
    /\ UNCHANGED <<task, left, ids, list, born, from, seen, before, late, stale>>

\* The deferred function reads the list; no list is as good as a complete one,
\* and redis gives none when it fails.
ReadList(b) ==
    LET i == from[b] IN
    /\ ex[b] = "saved"
    /\ \/ /\ seen' = [seen EXCEPT ![b] = list[i]]
          /\ ex' = [ex EXCEPT ![b] = IF list[i] = {} THEN "clearing" ELSE "counting"]
          /\ UNCHANGED mishap
       \/ /\ Persistent /\ MayFail
          /\ ex' = [ex EXCEPT ![b] = "clearing"]
          /\ mishap' = mishap \cup {i}
          /\ UNCHANGED seen
    /\ late' = late \ {i}
    /\ UNCHANGED <<task, left, ids, list, born, row, from, before, stale>>

\* NewImportProgress: the bookmarks of the list that are there and not loading.
Settled(bs) == {b \in bs : row[b] # None /\ row[b].state # "loading"}

Count(b) ==
    /\ ex[b] = "counting"
    /\ \/ /\ Settled(seen[b]) = seen[b]
          /\ ex' = [ex EXCEPT ![b] = "clearing"]
          /\ UNCHANGED <<seen, mishap>>
       \/ /\ Settled(seen[b]) # seen[b]
          /\ ex' = [ex EXCEPT ![b] = "done"]
          /\ seen' = [seen EXCEPT ![b] = {}]
          /\ UNCHANGED mishap
       \/ /\ MayFail
          /\ ex' = [ex EXCEPT ![b] = "done"]
          /\ seen' = [seen EXCEPT ![b] = {}]
          /\ mishap' = mishap \cup {from[b]}
    /\ UNCHANGED <<task, left, ids, list, born, row, from, before, late, stale>>

ClearList(b) ==
    LET i == from[b] IN
    /\ ex[b] = "clearing"
    /\ ex' = [ex EXCEPT ![b] = "done"]
    /\ \/ /\ list' = [list EXCEPT ![i] = {}]
          /\ stale' = IF list[i] # seen[b] THEN stale \cup {i} ELSE stale
          /\ UNCHANGED mishap
       \/ /\ Persistent /\ MayFail
          /\ mishap' = mishap \cup {i}
          /\ UNCHANGED <<list, stale>>
    /\ seen' = [seen EXCEPT ![b] = {}]
    /\ UNCHANGED <<task, left, ids, born, row, from, before, late>>

-----------------------------------------------------------------------------
(* What else may happen.                                                   *)

\* A bookmark is deleted, by its owner or with the owner.
Delete(b) ==
    /\ row[b] # None /\ MayFail
    /\ row' = [row EXCEPT ![b] = None]
    /\ mishap' = mishap \cup {from[b]}
    /\ UNCHANGED <<task, left, ids, list, born, from, extraction, before, late,
                   stale>>

\* The process dies and is started again: tasks that had begun are lost, and
\* without redis so are the lists and the tasks that had not; redis keeps those
\* whose event it still has.
Crash ==
    /\ MayCrash /\ MayFail
    /\ \E keptI \in SUBSET {i \in Imports : Persistent /\ task[i] = "queued"},
          keptB \in SUBSET {b \in Bookmarks : Persistent /\ ex[b] = "queued"} :
          /\ task' = [i \in Imports |-> IF i \in keptI THEN "queued" ELSE "over"]
          /\ ex' = [b \in Bookmarks |-> IF ex[b] = "none" \/ b \in keptB THEN ex[b]
                                         ELSE "done"]
    /\ list' = IF Persistent THEN list ELSE [i \in Imports |-> {}]
    /\ seen' = [b \in Bookmarks |-> {}]
    /\ mishap' = Imports
    /\ UNCHANGED <<left, ids, born, row, from, before, late, stale>>

ImportStep(i) ==
    \/ Begin(i) \/ Ignore(i) \/ Check(i) \/ Create(i)
    \/ LaunchExtract(i) \/ Tell(i) \/ EndOfItems(i)
ExtractStep(b) ==
    \/ ExtractBegin(b) \/ ExtractSave(b) \/ ReadList(b) \/ Count(b)
    \/ ClearList(b)

Next ==
    \/ \E i \in Imports : ImportStep(i)
    \/ \E b \in Bookmarks : ExtractStep(b) \/ Delete(b)
    \/ Crash

Spec == Init /\ [][Next]_vars

\* A worker goes on with its task, and takes a new one when it is idle; a task
\* is not overtaken for ever.
FairSpec ==
    /\ Spec
    /\ \A i \in Imports : WF_vars(ImportStep(i))
    /\ \A b \in Bookmarks : WF_vars(ExtractStep(b))

-----------------------------------------------------------------------------
(* Properties.                                                             *)

\* What NewImportProgress reports, and what the status page takes for the end:
\* Status is 1 and ImportBookmarksTask is not running.
Status(i) == Settled(list[i]) = list[i]
Finished(i) == task[i] = "over" /\ Status(i)

\* No work is left for an import.
Quiet(i) == task[i] = "over" /\ \A b \in ids[i] : ex[b] \in {"none", "done"}

\* When nothing is left to do the progress says so: no bookmark can keep the
\* import from being finished for ever.
EndIsReported == \A i \in Imports \ mishap : Quiet(i) => Status(i)

\* "Import is finished!" (routes/x-import.templ:171) is only shown when every
\* bookmark was extracted, unless an extraction removed a list that had grown
\* since it was read.
FinishedIsTrue ==
    \A i \in Imports \ (mishap \cup stale) :
        Finished(i) => Settled(ids[i]) = ids[i]

\* The progress that is shown is the truth in both directions.
ProgressIsTrue == EndIsReported /\ FinishedIsTrue

\* The list, which never expires, is not left behind once an extraction has read
\* it in its last state; extractions that are faster than the import do not.
ListIsRemoved ==
    \A i \in Imports \ (mishap \cup late) : Quiet(i) => list[i] = {}

\* "Ignore links that already exist" (docs/api/bookmarks/types.yaml:699): of the
\* links that were there when an import began, or that it created itself, none
\* is created again, wherever extractions were redirected to in between.
NoDuplicates ==
    \A b, c \in Bookmarks :
        /\ b < c
        /\ row[b] # None /\ row[c] # None /\ row[b].initial = row[c].initial
        /\ from[c] \notin Allow
        => b > before[from[c]] /\ from[b] # from[c]

\* Every import ends with its extractions, however the pool is filled.
ImportEnds == \A i \in Imports : <>[] Quiet(i)

=============================================================================
