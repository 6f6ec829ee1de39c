------------------------- MODULE BookmarkLifecycle -------------------------
(***************************************************************************)
(* The life of a bookmark: a row of the database and an archive file that  *)
(* no transaction ties together.                                           *)
(*                                                                         *)
(* A request inserts the row in the loading state and launches an          *)
(* extraction (bookmarks/routes/forms_bookmarks.go, importer.go).  The     *)
(* extraction (bookmarks/tasks/tasks.go) reads the row once, works on that *)
(* copy for as long as the network takes, writes the archive and then      *)
(* updates every column of the row from the copy.  Meanwhile the user      *)
(* edits single columns, and the bookmark can be deleted by a request, by  *)
(* the delayed deletion task, with its user, or by the cleanup command;    *)
(* each of these first reads the row and later removes the file that its   *)
(* own copy names.                                                         *)
(*                                                                         *)
(* Identifiers are never used again (AUTOINCREMENT, SERIAL), so a bookmark *)
(* of the model is born once.  DeleteBookmarkTask is seen through what     *)
(* TaskContract promises: a waiting deletion can be undone, one that the   *)
(* queue accepted cannot.                                                  *)
(***************************************************************************)
EXTENDS Naturals, FiniteSets

CONSTANTS
    Bookmarks,  \* identifiers
    Marks,      \* the values of a column that the user edits and the
                \* extraction has no say in (is_marked, labels, title...)
    None,       \* no row, no copy, no wish
    Deleters,   \* who deletes bookmarks, among AllDeleters
    Faults,     \* what may fail: "bus", "db", "zip", "panic"
    MayStop     \* TRUE: the process may stop or crash, and start again

AllDeleters == {"request", "task", "purge", "cleanup"}

Row == [state : {"loading", "loaded", "error"}, path : BOOLEAN, mark : Marks]

ASSUME LifecycleAssumption ==
    /\ Marks # {}
    /\ None \notin Row /\ None \notin Marks
    /\ Deleters \subseteq AllDeleters
    /\ Faults \subseteq {"bus", "db", "zip", "panic"}
    /\ MayStop \in BOOLEAN

VARIABLES
    row,      \* row[b]: the row, or None; path: file_path is not empty
    born,     \* the bookmarks that had a row
    file,     \* file[b]: the archive, "none", "partial" or "whole"
    ex,       \* ex[b]: where the extraction of b stands
    copy,     \* copy[b]: the row the extraction read, as it changed it
    saved,    \* saved[b]: the extraction's variable of that name
    del,      \* del[d][b]: "idle", "read" (copy taken), "gone" (row deleted)
    held,     \* held[d][b]: deleter d's copy of the row names a file
    trash,    \* trash[b]: the delayed deletion, "no", "waiting", "due"
    up,       \* the server runs
    user,     \* the owner: "here", "leaving" (bookmarks first), "gone"
    cleaning, \* the cleanup command: "off", "rows", "files"
    listed,   \* the archives its glob returned and it has not looked at
    wish,     \* history: wish[b], the last edit made on a loaded bookmark
    mishap,   \* history: bookmarks that a deletion, a stop or a failed query
              \* caught at a moment that may leave a file or a loading row
    clean     \* history: a cleanup that runs with the server down is
              \* "running" or over, "yes"; "no" as soon as the server is up

vars == <<row, born, file, ex, copy, saved, del, held, trash, up, user,
          cleaning, listed, wish, mishap, clean>>

extraction == <<ex, copy, saved>>
deletion == <<del, held>>
command == <<cleaning, listed, clean>>

Stages == {"none", "created", "queued", "started", "archiving", "archived",
           "linking", "ending", "done"}
\* The handler holds a copy of the row.
Busy == {"started", "archiving", "archived", "linking", "ending"}

TypeOK ==
    /\ row \in [Bookmarks -> Row \cup {None}]
    /\ born \subseteq Bookmarks
    /\ file \in [Bookmarks -> {"none", "partial", "whole"}]
    /\ ex \in [Bookmarks -> Stages]
    /\ copy \in [Bookmarks -> Row \cup {None}]
    /\ saved \in [Bookmarks -> BOOLEAN]
    /\ del \in [AllDeleters -> [Bookmarks -> {"idle", "read", "gone"}]]
    /\ held \in [AllDeleters -> [Bookmarks -> BOOLEAN]]
    /\ trash \in [Bookmarks -> {"no", "waiting", "due"}]
    /\ up \in BOOLEAN
    /\ user \in {"here", "leaving", "gone"}
    /\ cleaning \in {"off", "rows", "files"}
    /\ listed \subseteq Bookmarks
    /\ wish \in [Bookmarks -> Marks \cup {None}]
    /\ mishap \subseteq Bookmarks
    /\ clean \in {"no", "running", "yes"}
    /\ \A b \in Bookmarks :
          /\ b \notin born => row[b] = None /\ ex[b] = "none" /\ file[b] = "none"
          /\ ex[b] \in Busy => copy[b] \in Row

Init ==
    /\ row = [b \in Bookmarks |-> None]
    /\ born = {}
    /\ file = [b \in Bookmarks |-> "none"]
    /\ ex = [b \in Bookmarks |-> "none"]
    /\ copy = [b \in Bookmarks |-> None]
    /\ saved = [b \in Bookmarks |-> FALSE]
    /\ del = [d \in AllDeleters |-> [b \in Bookmarks |-> "idle"]]
    /\ held = [d \in AllDeleters |-> [b \in Bookmarks |-> FALSE]]
    /\ trash = [b \in Bookmarks |-> "no"]
    /\ up = TRUE
    /\ user = "here"
    /\ cleaning = "off"
    /\ listed = {}
    /\ wish = [b \in Bookmarks |-> None]
    /\ mishap = {}
    /\ clean = "no"

-----------------------------------------------------------------------------
(* The row.                                                                *)

\* Bookmark.Save: UPDATE ... WHERE id = b.ID touches nothing and reports
\* nothing when the row is gone.
Written(b, r) == IF row[b] = None THEN None ELSE r

Save(b, r) == row' = [row EXCEPT ![b] = Written(b, r)]

\* createBookmark: the row is inserted before the extraction is launched.
Create(b, m) ==
    /\ up /\ user # "gone" /\ b \notin born
    /\ row' = [row EXCEPT ![b] = [state |-> "loading", path |-> FALSE, mark |-> m]]
    /\ born' = born \cup {b}
    /\ ex' = [ex EXCEPT ![b] = "created"]
    /\ UNCHANGED <<file, copy, saved, deletion, trash, up, user, command, wish, mishap>>

\* ExtractPageTask.Run or ImportExtractTask.Run.
Launch(b) ==
    /\ ex[b] = "created"
    /\ ex' = [ex EXCEPT ![b] = "queued"]
    /\ UNCHANGED <<row, born, file, copy, saved, deletion, trash, up, user,
                   command, wish, mishap>>

\* The launch fails: the form returns an error and leaves the row as it is,
\* the importer saves its own copy of it in the error state.
LaunchFails(b, m) ==
    /\ "bus" \in Faults /\ ex[b] = "created"
    /\ ex' = [ex EXCEPT ![b] = "done"]
    /\ \/ UNCHANGED row
       \/ Save(b, [state |-> "error", path |-> FALSE, mark |-> m])
    /\ UNCHANGED <<born, file, copy, saved, deletion, trash, up, user,
                   command, wish, mishap>>

\* updateForm.update: only the columns of the request are written.
Edit(b, m) ==
    /\ up /\ row[b] # None
    /\ row' = [row EXCEPT ![b].mark = m]
    /\ wish' = [wish EXCEPT ![b] = IF row[b].state = "loaded" THEN m ELSE @]
    /\ UNCHANGED <<born, file, extraction, deletion, trash, up, user, command, mishap>>

-----------------------------------------------------------------------------
(* The extraction, extractPageHandler and its last two processors.         *)

\* GetOne.  Without a row, or when the query fails, the handler returns and
\* its deferred function does nothing.
Start(b) ==
    /\ up /\ ex[b] = "queued"
    /\ \/ /\ row[b] # None
          /\ copy' = [copy EXCEPT ![b] = row[b]]
          /\ ex' = [ex EXCEPT ![b] = "started"]
          /\ UNCHANGED mishap
       \/ /\ row[b] = None \/ "db" \in Faults
          /\ ex' = [ex EXCEPT ![b] = "done"]
          /\ mishap' = IF row[b] = None THEN mishap ELSE mishap \cup {b}
          /\ UNCHANGED copy
    /\ saved' = [saved EXCEPT ![b] = FALSE]
    /\ UNCHANGED <<row, born, file, deletion, trash, up, user, command, wish>>

\* extract.New refuses the URL: the handler returns.
NoExtractor(b) ==
    /\ ex[b] = "started"
    /\ ex' = [ex EXCEPT ![b] = "ending"]
    /\ UNCHANGED <<row, born, file, copy, saved, deletion, trash, up, user,
                   command, wish, mishap>>

\* The page was fetched and processed; saveBookmark fills the copy and
\* createZipFile opens the archive at its final place.
BeginArchive(b) ==
    /\ ex[b] = "started"
    /\ copy' = [copy EXCEPT ![b].state = "loaded", ![b].path = TRUE]
    /\ file' = [file EXCEPT ![b] = "partial"]
    /\ ex' = [ex EXCEPT ![b] = "archiving"]
    /\ UNCHANGED <<row, born, saved, deletion, trash, up, user, command, wish, mishap>>

\* createZipFile closes the archive, which writes its directory; a file that
\* was removed meanwhile does not come back.
FinishArchive(b) ==
    /\ ex[b] = "archiving"
    /\ file' = [file EXCEPT ![b] = IF @ = "none" THEN @ ELSE "whole"]
    /\ ex' = [ex EXCEPT ![b] = "archived"]
    /\ UNCHANGED <<row, born, copy, saved, deletion, trash, up, user, command,
                   wish, mishap>>

\* A mistake to catch: the path is forgotten before the file is removed.
ArchiveFails_PathFirst(b) ==
    /\ "zip" \in Faults /\ ex[b] = "archiving"
    /\ copy' = [copy EXCEPT ![b].path = FALSE]
    /\ ex' = [ex EXCEPT ![b] = "archived"]
    /\ UNCHANGED <<row, born, file, saved, deletion, trash, up, user, command,
                   wish, mishap>>

\* createZipFile returns an error: "cleanup after ourselves".
ArchiveFails(b) ==
    /\ "zip" \in Faults /\ ex[b] = "archiving"
    /\ file' = [file EXCEPT ![b] = "none"]
    /\ copy' = [copy EXCEPT ![b].path = FALSE]
    /\ ex' = [ex EXCEPT ![b] = "archived"]
    /\ UNCHANGED <<row, born, saved, deletion, trash, up, user, command, wish, mishap>>

\* Mistakes to catch: the row is saved while the archive is being written;
\* the handler does not note that it saved the row.
SaveBookmark_Early(b) ==
    /\ ex[b] \in {"archiving", "archived"}
    /\ Save(b, copy[b])
    /\ saved' = [saved EXCEPT ![b] = TRUE]
    /\ ex' = [ex EXCEPT ![b] = IF @ = "archived" THEN "linking" ELSE @]
    /\ UNCHANGED <<born, file, copy, deletion, trash, up, user, command, wish, mishap>>

SaveBookmark_NotNoted(b) ==
    /\ ex[b] = "archived"
    /\ Save(b, copy[b])
    /\ ex' = [ex EXCEPT ![b] = "linking"]
    /\ UNCHANGED <<born, file, copy, saved, deletion, trash, up, user, command,
                   wish, mishap>>

\* saveBookmark: "All good? Save now".
SaveBookmark(b) ==
    /\ ex[b] = "archived"
    /\ \/ /\ Save(b, copy[b])
          /\ saved' = [saved EXCEPT ![b] = TRUE]
       \/ /\ "db" \in Faults
          /\ UNCHANGED <<row, saved>>
    /\ ex' = [ex EXCEPT ![b] = "linking"]
    /\ UNCHANGED <<born, file, copy, deletion, trash, up, user, command, wish, mishap>>

\* fetchLinksProcessor: links are fetched, and only that column is updated.
FetchLinks(b) ==
    /\ ex[b] = "linking"
    /\ ex' = [ex EXCEPT ![b] = "ending"]
    /\ UNCHANGED <<row, born, file, copy, saved, deletion, trash, up, user,
                   command, wish, mishap>>

\* Anything panics, the closing of the archive included; the deferred
\* function recovers, and the whole copy has to be saved, again if need be.
Panic(b) ==
    /\ "panic" \in Faults /\ ex[b] \in Busy \ {"ending"}
    /\ copy' = [copy EXCEPT ![b].state = "error"]
    /\ saved' = [saved EXCEPT ![b] = FALSE]
    /\ ex' = [ex EXCEPT ![b] = "ending"]
    /\ UNCHANGED <<row, born, file, deletion, trash, up, user, command, wish, mishap>>

\* A mistake to catch: a copy that is still loading is saved as it is.
Settled_Loading(r) == r

\* "Never stay hanging".
Settled(r) == IF r.state = "loading" THEN [r EXCEPT !.state = "loaded"] ELSE r

\* The deferred function; a copy that is still loading was never saved.  An
\* error is logged and nothing else.
End(b) ==
    /\ ex[b] = "ending"
    /\ ex' = [ex EXCEPT ![b] = "done"]
    /\ copy' = [copy EXCEPT ![b] = None]
    /\ \/ saved[b] /\ UNCHANGED <<row, mishap>>
       \/ ~ saved[b] /\ Save(b, Settled(copy[b])) /\ UNCHANGED mishap
       \/ /\ ~ saved[b] /\ "db" \in Faults
          /\ mishap' = mishap \cup {b}
          /\ UNCHANGED row
    /\ UNCHANGED <<born, file, saved, deletion, trash, up, user, command, wish>>

-----------------------------------------------------------------------------
(* Deletions.                                                              *)

\* PATCH with is_deleted: DeleteBookmarkTask.Run, then Cancel.
MoveToTrash(b) ==
    /\ up /\ "task" \in Deleters /\ row[b] # None
    /\ trash' = [trash EXCEPT ![b] = "waiting"]
    /\ UNCHANGED <<row, born, file, extraction, deletion, up, user, command,
                   wish, mishap>>

Restore(b) ==
    /\ up /\ trash[b] = "waiting" /\ row[b] # None
    /\ trash' = [trash EXCEPT ![b] = "no"]
    /\ UNCHANGED <<row, born, file, extraction, deletion, up, user, command,
                   wish, mishap>>

\* The delay is over and the queue accepts the deletion.
TrashDue(b) ==
    /\ up /\ trash[b] = "waiting"
    /\ trash' = [trash EXCEPT ![b] = "due"]
    /\ UNCHANGED <<row, born, file, extraction, deletion, up, user, command,
                   wish, mishap>>

\* Deleter d reads the rows of bs; what their file_path says is all it will
\* know of their files.
Read(d, bs) ==
    /\ del' = [del EXCEPT ![d] = [b \in Bookmarks |->
                  IF b \in bs /\ row[b] # None THEN "read" ELSE del[d][b]]]
    /\ held' = [held EXCEPT ![d] = [b \in Bookmarks |->
                  IF b \in bs /\ row[b] # None THEN row[b].path ELSE held[d][b]]]

\* The API's withBookmark middleware, ahead of bookmarkDelete.
RequestDelete(b) ==
    /\ up /\ "request" \in Deleters
    /\ row[b] # None /\ del["request"][b] = "idle"
    /\ Read("request", {b})
    /\ UNCHANGED <<row, born, file, extraction, trash, up, user, command, wish, mishap>>

\* deleteBookmarkHandler is called and reads the row.
RunDeleteTask(b) ==
    /\ up /\ trash[b] = "due" /\ del["task"][b] = "idle"
    /\ trash' = [trash EXCEPT ![b] = "no"]
    /\ Read("task", {b})
    /\ UNCHANGED <<row, born, file, extraction, up, user, command, wish, mishap>>

\* DeleteUserBookmakrs reads all the bookmarks of the user.
PurgeUser ==
    /\ up /\ "purge" \in Deleters /\ user = "here"
    /\ user' = "leaving"
    /\ Read("purge", Bookmarks)
    /\ UNCHANGED <<row, born, file, extraction, trash, up, command, wish, mishap>>

\* The extraction of b can still write a file the row does not name.
Unsettled(b) == ex[b] \in Busy /\ ~ saved[b]

\* Bookmark.Delete, the row.
DeleteRow(d, b) ==
    /\ del[d][b] = "read"
    /\ row' = [row EXCEPT ![b] = None]
    /\ del' = [del EXCEPT ![d][b] = "gone"]
    /\ mishap' = IF row[b] # None /\ (Unsettled(b) \/ held[d][b] # row[b].path)
                 THEN mishap \cup {b} ELSE mishap
    /\ UNCHANGED <<born, file, extraction, held, trash, up, user, command, wish>>

\* Bookmark.Delete, RemoveFiles.
DeleteFile(d, b) ==
    /\ del[d][b] = "gone"
    /\ file' = [file EXCEPT ![b] = IF held[d][b] THEN "none" ELSE @]
    /\ del' = [del EXCEPT ![d][b] = "idle"]
    /\ UNCHANGED <<row, born, extraction, held, trash, up, user, command, wish, mishap>>

\* The row of the user goes last, and takes with it the bookmarks that were
\* created since: their files are nobody's business any more.
DeleteUser ==
    /\ up /\ user = "leaving"
    /\ \A b \in Bookmarks : del["purge"][b] = "idle"
    /\ user' = "gone"
    /\ row' = [b \in Bookmarks |-> None]
    /\ mishap' = mishap \cup {b \in Bookmarks : row[b] # None}
    /\ UNCHANGED <<born, file, extraction, deletion, trash, up, command, wish>>

-----------------------------------------------------------------------------
(* The cleanup command, a process of its own.                              *)

Loading(b) == row[b] # None /\ row[b].state = "loading"

\* removeLoadingBookmarks reads the rows it is going to delete.
CleanupRows ==
    /\ "cleanup" \in Deleters /\ cleaning = "off"
    /\ cleaning' = "rows"
    /\ clean' = IF up THEN "no" ELSE "running"
    /\ Read("cleanup", {b \in Bookmarks : Loading(b)})
    /\ UNCHANGED <<row, born, file, extraction, trash, up, user, listed, wish, mishap>>

\* A mistake to catch: the archives are listed before the rows are deleted.
CleanupFiles_First ==
    /\ cleaning = "rows"
    /\ cleaning' = "files"
    /\ listed' = {b \in Bookmarks : file[b] # "none"}
    /\ UNCHANGED <<row, born, file, extraction, deletion, trash, up, user, wish,
                   mishap, clean>>

\* removeOrphanFiles lists the archives once the deletions are over.
CleanupFiles ==
    /\ cleaning = "rows"
    /\ \A b \in Bookmarks : del["cleanup"][b] = "idle"
    /\ cleaning' = "files"
    /\ listed' = {b \in Bookmarks : file[b] # "none"}
    /\ UNCHANGED <<row, born, file, extraction, deletion, trash, up, user, wish,
                   mishap, clean>>

\* An archive without a row is removed.
CleanupFile(b) ==
    /\ cleaning = "files" /\ b \in listed
    /\ listed' = listed \ {b}
    /\ file' = [file EXCEPT ![b] = IF row[b] = None THEN "none" ELSE @]
    /\ UNCHANGED <<row, born, extraction, deletion, trash, up, user, cleaning,
                   wish, mishap, clean>>

CleanupEnds ==
    /\ cleaning = "files" /\ listed = {}
    /\ cleaning' = "off"
    /\ clean' = IF clean = "running" THEN "yes" ELSE clean
    /\ UNCHANGED <<row, born, file, extraction, deletion, trash, up, user,
                   listed, wish, mishap>>

-----------------------------------------------------------------------------
(* The server.                                                             *)

\* The server stops or crashes: handlers stop where they are.  Launched
\* tasks are lost with the memory bus and may survive in redis.
Stop ==
    /\ MayStop /\ up
    /\ up' = FALSE
    /\ \E keep \in SUBSET {b \in Bookmarks : ex[b] = "queued"} :
          ex' = [b \in Bookmarks |->
                   IF b \in born /\ b \notin keep THEN "done" ELSE ex[b]]
    /\ \E keep \in SUBSET {b \in Bookmarks : trash[b] # "no"} :
          trash' = [b \in Bookmarks |-> IF b \in keep THEN trash[b] ELSE "no"]
    /\ copy' = [b \in Bookmarks |-> None]
    /\ del' = [d \in AllDeleters |->
                 IF d = "cleanup" THEN del[d] ELSE [b \in Bookmarks |-> "idle"]]
    /\ mishap' = mishap \cup
          {b \in Bookmarks : \/ Unsettled(b) \/ ex[b] \in {"created", "queued"}
                             \/ \E d \in AllDeleters \ {"cleanup"} :
                                   del[d][b] = "gone" /\ held[d][b]}
    /\ user' = IF user = "leaving" THEN "here" ELSE user
    /\ UNCHANGED <<row, born, file, saved, held, command, wish>>

Boot ==
    /\ MayStop /\ ~ up
    /\ up' = TRUE
    /\ clean' = "no"
    /\ UNCHANGED <<row, born, file, extraction, deletion, trash, user, cleaning,
                   listed, wish, mishap>>
-----------------------------------------------------------------------------
\* One step of the goroutines that create and extract b.
Extract(b) ==
    \/ Launch(b) \/ Start(b) \/ NoExtractor(b) \/ BeginArchive(b)
    \/ FinishArchive(b) \/ ArchiveFails(b) \/ SaveBookmark(b)
    \/ FetchLinks(b) \/ Panic(b) \/ End(b)

Users ==
    \/ \E b \in Bookmarks, m \in Marks :
          Create(b, m) \/ LaunchFails(b, m) \/ Edit(b, m)
    \/ \E b \in Bookmarks : MoveToTrash(b) \/ Restore(b) \/ RequestDelete(b)

Deletion ==
    \/ \E b \in Bookmarks : TrashDue(b) \/ RunDeleteTask(b)
    \/ \E d \in Deleters, b \in Bookmarks : DeleteRow(d, b) \/ DeleteFile(d, b)
    \/ PurgeUser \/ DeleteUser

Cleanup ==
    \/ CleanupRows \/ CleanupFiles \/ CleanupEnds
    \/ \E b \in Bookmarks : CleanupFile(b)

Next ==
    \/ \E b \in Bookmarks : Extract(b)
    \/ Users \/ Deletion \/ Cleanup \/ Stop \/ Boot

Spec == Init /\ [][Next]_vars

\* Go runs every goroutine that can run, and a worker takes what is queued.
\* No user, deletion, cleanup, stop or restart has to happen.
FairSpec == Spec /\ \A b \in Bookmarks : WF_vars(Extract(b))

-----------------------------------------------------------------------------
(* Properties.                                                             *)

\* What a loaded row says can be read: the archive that its file_path names
\* is there and complete.  The reader opens it with zipfs.HTTPZipFile
\* (api_bookmarks.go:269) and has no other check.
ArchiveReadable ==
    \A b \in Bookmarks :
        row[b] # None /\ row[b].state = "loaded" /\ row[b].path => file[b] = "whole"

\* A bookmark that was deleted does not come back: the extraction that was
\* working on a copy of it saves the copy after the deletion (tasks.go:218,
\* 381), which must not create the row again.
StaysDeleted ==
    [][\A b \in born : row[b] = None => row'[b] = None]_vars

\* Once a bookmark is shown as loaded, what its user writes stays: the
\* handler still runs, fetching links, and holds a copy older than the edit.
LateEditSurvives ==
    \A b \in Bookmarks :
        row[b] # None /\ row[b].state = "loaded" /\ wish[b] # None
            => row[b].mark = wish[b]

\* Some deleter is about to remove the file of b.
FileIsDue(b) == \E d \in Deleters : del[d][b] = "gone" /\ held[d][b]

\* An archive is without its row only while a deletion is under way, or
\* after one of the events that "mishap" lists: the row was deleted during
\* its extraction or by a deleter that read it before the extraction saved
\* it, went away with the user, or a crash or a failed query came between.
OrphansAreExplained ==
    \A b \in born : row[b] = None /\ file[b] # "none" => FileIsDue(b) \/ b \in mishap

\* A cleanup that ran with no server leaves nothing to clean: no row that
\* loads for ever and no archive without a row, whatever crash came before.
CleanupCleans ==
    clean = "yes" => \A b \in Bookmarks :
        ~ Loading(b) /\ (row[b] = None => file[b] = "none")

\* A bookmark that was queued for extraction does not stay loading, whether
\* the page can be read, the archive written, or the handler panics ("Never
\* stay hanging", tasks.go:209), unless the server stops or a query fails.
NeverHangs ==
    \A b \in Bookmarks : ex[b] = "queued" ~> ~ Loading(b) \/ b \in mishap

=============================================================================
