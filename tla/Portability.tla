---------------------------- MODULE Portability ----------------------------
(***************************************************************************)
(* Export and import of users with their bookmarks (internal/portability,  *)
(* the commands export and import, and the same from the profile).         *)
(*                                                                         *)
(* An export reads the rows of its users one after the other and copies    *)
(* each archive into one file, while the server goes on.  An import writes *)
(* all rows in one transaction and the archives beside it: what the        *)
(* transaction rolls back, the files do not.                               *)
(*                                                                         *)
(* The rows of tokens and of collections are inserted like those of        *)
(* bookmarks and have no files; they are left out.                         *)
(***************************************************************************)
CONSTANTS
    Users,     \* the users that there are, each with its name
    NewIds,    \* the identifiers that an import gives to users
    Bookmarks, \* what requests create
    NewUIDs,   \* the UIDs that an import gives to bookmarks
    Databases, \* subset of {"sqlite", "postgres"}
    None

Ids  == Users \cup NewIds
UIDs == Bookmarks \cup NewUIDs

\* A row, what an export says of it, the tables of users, and a transaction.
Row == [owner : Ids, of : Bookmarks, loaded : BOOLEAN, path : BOOLEAN, imported : BOOLEAN]
Item == [owner : Ids, of : Bookmarks, loaded : BOOLEAN, content : Bookmarks \cup {"empty", None}]
Some(S, T) == UNION {[D -> T] : D \in SUBSET S}
Zip == [users : Some(Ids, Users), items : Some(UIDs, Item)]
Transaction == [users : Some(Ids, Users), left : SUBSET Ids,
                rows : Some(UIDs, Row), deleted : SUBSET UIDs]

With(f, x, y) == [z \in DOMAIN f \cup {x} |-> IF z = x THEN y ELSE f[z]]

PortabilityAssumption ==
    /\ Users \cap NewIds = {} /\ Bookmarks \cap NewUIDs = {}
    /\ None \notin Ids \cup UIDs /\ None \notin Row /\ None \notin Zip /\ None \notin Transaction
    /\ {"partial", "empty"} \cap UIDs = {}
    /\ Databases \subseteq {"sqlite", "postgres"}

VARIABLES
    database, \* what the server and the commands are connected to
    user, \* the table of users: the name of an identifier, or None
    row,  \* the table of bookmarks: by UID, or None
    file, \* the archives: None, "partial", "empty", or whose content it is
    job,  \* the extraction of a bookmark
    del,  \* the deletion of a bookmark by a request
    ex,   \* the export
    zip,  \* the file that it wrote, or None
    im,   \* the import
    tx,   \* its transaction, or None
    lost,    \* history: archives of rows that the import removed or opened for writing
    crossed, \* history: archives written while a deletion was to remove them
    missed   \* history: rows deleted that were not among those selected before

server == <<database, user, row, file, job, del>>
export == <<ex, zip>>
import == <<im, tx, lost, crossed, missed>>
vars == <<server, export, import>>

-----------------------------------------------------------------------------
(* The server: requests and extractions.                                   *)

\* Whom a transaction makes wait: with SQLite, where it is the one writer,
\* everybody; else who needs what it deleted.  (The lock comes with the first
\* write: what was written before it makes that write fail, an ImportFails.)
OneWriter == database = "sqlite"
Locked == OneWriter /\ tx # None
Held(b) == Locked \/ (tx # None /\ b \in tx.deleted)

Create(b, u) ==
    /\ job[b] = "none" /\ user[u] # None
    /\ ~Locked /\ (tx # None => u \notin tx.left)
    /\ row' = [row EXCEPT ![b] = [owner |-> u, of |-> b, loaded |-> FALSE, path |-> FALSE,
                                  imported |-> FALSE]]
    /\ job' = [job EXCEPT ![b] = "running"]
    /\ UNCHANGED <<database, user, file, del, export, import>>

Archive(b) ==
    /\ job[b] = "running"
    /\ file' = [file EXCEPT ![b] = b]
    /\ job' = [job EXCEPT ![b] = "filed"]
    /\ UNCHANGED <<database, user, row, del, export, import>>

\* An UPDATE by the number of the row: one that was imported has another.
SaveRow(b) ==
    /\ job[b] = "filed" /\ ~Held(b)
    /\ IF row[b] # None /\ ~row[b].imported
       THEN /\ row' = [row EXCEPT ![b].loaded = TRUE, ![b].path = TRUE]
            /\ job' = [job EXCEPT ![b] = "done"]
       ELSE /\ job' = [job EXCEPT ![b] = "late"]
            /\ UNCHANGED row
    /\ UNCHANGED <<database, user, file, del, export, import>>

Delete(b) ==
    /\ row[b] # None /\ ~Held(b)
    /\ row' = [row EXCEPT ![b] = None]
    /\ del' = [del EXCEPT ![b] = IF row[b].path THEN "removing" ELSE "removed"]
    /\ UNCHANGED <<database, user, file, job, export, import>>

RemoveFiles(b) ==
    /\ del[b] = "removing"
    /\ file' = [file EXCEPT ![b] = None]
    /\ del' = [del EXCEPT ![b] = "removed"]
    /\ UNCHANGED <<database, user, row, job, export, import>>

\* The bookmarks of a user are deleted first.
DeleteUser(u) ==
    /\ user[u] # None /\ \A b \in UIDs : row[b] # None => row[b].owner # u
    /\ ~Locked /\ (tx # None => u \notin tx.left /\ (u = im.me => im.pc = "users"))
    /\ user' = [user EXCEPT ![u] = None]
    /\ UNCHANGED <<database, row, file, job, del, export, import>>

-----------------------------------------------------------------------------
(* Export.                                                                 *)

NoExport == [pc |-> "idle", users |-> <<>>, todo |-> {}, cur |-> None, info |-> None, items |-> <<>>]

ExportUsers(us) ==
    /\ ex.pc = "idle"
    /\ ex' = [ex EXCEPT !.pc = "list", !.users = [u \in us |-> user[u]]]
    /\ UNCHANGED <<server, zip, import>>

GetBookmarks ==
    /\ ex.pc = "list"
    /\ ex' = [ex EXCEPT !.pc = "next",
                        !.todo = {b \in UIDs : row[b] # None /\ row[b].owner \in DOMAIN ex.users}]
    /\ UNCHANGED <<server, zip, import>>

\* saveBookmark: the row as it is now, which must still be there,
SaveInfo(b) ==
    /\ ex.pc = "next" /\ b \in ex.todo /\ row[b] # None
    /\ ex' = [ex EXCEPT !.pc = "open", !.cur = b, !.info = row[b]]
    /\ UNCHANGED <<server, zip, import>>

\* A mistake to catch: the row is read once more after its archive was looked for.
SaveContainer_Rereads ==
    /\ ex.pc = "open" /\ row[ex.cur] # None
    /\ LET content == IF ex.info.path THEN file[ex.cur] ELSE None
           item == [owner |-> ex.info.owner, of |-> ex.info.of, loaded |-> row[ex.cur].loaded,
                    content |-> content]
       IN  /\ content # "partial"
           /\ ex' = [ex EXCEPT !.pc = "next", !.todo = @ \ {ex.cur}, !.items = With(@, ex.cur, item)]
    /\ UNCHANGED <<server, zip, import>>

\* and its archive, if the row names one and it is there.
SaveContainer ==
    /\ ex.pc = "open"
    /\ LET content == IF ex.info.path THEN file[ex.cur] ELSE None
           item == [owner |-> ex.info.owner, of |-> ex.info.of, loaded |-> ex.info.loaded,
                    content |-> content]
       IN  /\ content # "partial"
           /\ ex' = [ex EXCEPT !.pc = "next", !.todo = @ \ {ex.cur}, !.items = With(@, ex.cur, item),
                               !.cur = None, !.info = None]
    /\ UNCHANGED <<server, zip, import>>

SaveData ==
    /\ ex.pc = "next" /\ ex.todo = {}
    /\ zip' = [users |-> ex.users, items |-> ex.items]
    /\ ex' = [NoExport EXCEPT !.pc = "done"]
    /\ UNCHANGED <<server, import>>

\* Any error ends an export, and a file without data.json is none.
ExportFails ==
    /\ ex.pc \in {"list", "next", "open"}
    /\ ex' = [NoExport EXCEPT !.pc = "failed"]
    /\ UNCHANGED <<server, zip, import>>

-----------------------------------------------------------------------------
(* Import.                                                                 *)

\* What the transaction sees of the two tables.
SeenUser(u) == IF u \in DOMAIN tx.users THEN tx.users[u] ELSE IF u \in tx.left THEN None ELSE user[u]
SeenRow(b) == IF b \in DOMAIN tx.rows THEN tx.rows[b] ELSE IF b \in tx.deleted THEN None ELSE row[b]

Begin(mode, names, me) ==
    /\ im.pc = "idle" /\ zip # None
    /\ im' = [im EXCEPT !.pc = IF mode = "clear" THEN "clear" ELSE "users", !.mode = mode,
                        !.names = names, !.me = me,
                        !.users = IF mode = "single" THEN [u \in DOMAIN zip.users |-> me] ELSE <<>>]
    /\ tx' = [users |-> <<>>, left |-> {}, rows |-> <<>>, deleted |-> {}]
    /\ UNCHANGED <<server, export, lost, crossed, missed>>

\* The command, with the users it is told to import and perhaps with -clear.
BeginFull(names) == Begin("append", names, None)
BeginClear == Begin("clear", Users, None)

\* The profile: one user of any name becomes the one who sent the file.
BeginSingle(me) == user[me] # None /\ (\E u \in Ids : DOMAIN zip.users = {u}) /\ Begin("single", {}, me)

ClearDB ==
    /\ im.pc = "clear"
    /\ tx' = [tx EXCEPT !.deleted = {b \in UIDs : row[b] # None},
                        !.left = {u \in Ids : user[u] # None}]
    /\ im' = [im EXCEPT !.pc = "users"]
    /\ UNCHANGED <<server, export, lost, crossed, missed>>

\* Users whose names are not taken get new identifiers; the bookmarks of the
\* other ones are not imported.
LoadUsers ==
    /\ im.pc = "users" /\ im.mode # "single"
    /\ LET taken == {SeenUser(u) : u \in Ids}
           news == {u \in DOMAIN zip.users : zip.users[u] \in im.names \ taken}
       IN  \E id \in [news -> NewIds] :
              /\ \A u, v \in news : id[u] = id[v] => u = v
              /\ tx' = [tx EXCEPT !.users = [i \in {id[u] : u \in news} |->
                                                zip.users[CHOOSE u \in news : id[u] = i]]]
              /\ im' = [im EXCEPT !.pc = "next", !.users = id,
                                  !.todo = {b \in DOMAIN zip.items : zip.items[b].owner \in news}]
    /\ UNCHANGED <<server, export, lost, crossed, missed>>

\* SingleUserImporter.loadBookmarks selects the files of the old bookmarks,
SelectOld ==
    /\ im.pc = "users" /\ im.mode = "single"
    /\ im' = [im EXCEPT !.pc = "delete",
                        !.old = {b \in UIDs : row[b] # None /\ row[b].owner = im.me /\ row[b].path}]
    /\ UNCHANGED <<server, export, tx, lost, crossed, missed>>

\* A mistake to catch: the bookmarks of everybody are deleted.
DeleteOld_All ==
    /\ im.pc = "delete"
    /\ LET rows == {b \in UIDs : row[b] # None}
       IN  /\ tx' = [tx EXCEPT !.deleted = rows]
           /\ missed' = {b \in rows : row[b].path} \ im.old
    /\ im' = [im EXCEPT !.pc = "next", !.todo = DOMAIN zip.items]
    /\ UNCHANGED <<server, export, lost, crossed>>

\* deletes their rows,
DeleteOld ==
    /\ im.pc = "delete"
    /\ LET rows == {b \in UIDs : row[b] # None /\ row[b].owner = im.me}
       IN  /\ tx' = [tx EXCEPT !.deleted = rows]
           /\ missed' = {b \in rows : row[b].path} \ im.old
    /\ im' = [im EXCEPT !.pc = "next", !.todo = DOMAIN zip.items]
    /\ UNCHANGED <<server, export, lost, crossed>>

\* A mistake to catch: the row keeps the identifier that its user had.
InsertRow_Owner(b, uid) ==
    LET owner == zip.items[b].owner
    IN  /\ im.pc = "next" /\ b \in im.todo
        /\ IF im.mode = "clear" THEN uid = b ELSE uid \in NewUIDs
        /\ SeenRow(uid) = None /\ SeenUser(owner) # None
        /\ tx' = [tx EXCEPT !.rows = With(@, uid, [owner |-> owner, of |-> zip.items[b].of,
                      loaded |-> zip.items[b].loaded, path |-> TRUE, imported |-> TRUE])]
        /\ im' = [im EXCEPT !.pc = "create", !.cur = b, !.uid = uid]
        /\ UNCHANGED <<server, export, lost, crossed, missed>>

\* loadBookmark: the row with its user and its UID, which always names a file,
InsertRow(b, uid) ==
    LET owner == im.users[zip.items[b].owner]
    IN  /\ im.pc = "next" /\ b \in im.todo
        /\ IF im.mode = "clear" THEN uid = b ELSE uid \in NewUIDs
        /\ SeenRow(uid) = None /\ SeenUser(owner) # None
        /\ tx' = [tx EXCEPT !.rows = With(@, uid, [owner |-> owner, of |-> zip.items[b].of,
                      loaded |-> zip.items[b].loaded, path |-> TRUE, imported |-> TRUE])]
        /\ im' = [im EXCEPT !.pc = "create", !.cur = b, !.uid = uid]
        /\ UNCHANGED <<server, export, lost, crossed, missed>>

\* the file, which is there from now on,
CreateFile ==
    /\ im.pc = "create"
    /\ file' = [file EXCEPT ![im.uid] = "partial"]
    /\ im' = [im EXCEPT !.pc = "copy"]
    /\ lost' = lost \cup ({im.uid} \cap {b \in UIDs : row[b] # None})
    /\ crossed' = crossed \cup {b \in {im.uid} : del[b] = "removing"}
    /\ UNCHANGED <<database, user, row, job, del, export, tx, missed>>

\* and what it contains.
CopyFiles ==
    /\ im.pc = "copy"
    /\ file' = [file EXCEPT ![im.uid] = IF zip.items[im.cur].content = None THEN "empty"
                                        ELSE zip.items[im.cur].content]
    /\ im' = [im EXCEPT !.pc = "next", !.todo = @ \ {im.cur}, !.cur = None, !.uid = None]
    /\ UNCHANGED <<database, user, row, job, del, export, tx, lost, crossed, missed>>

\* A mistake to catch: the old files go before all new ones are there.
RemoveOld_Early(b) ==
    /\ im.pc = "next" /\ b \in im.old
    /\ file' = [file EXCEPT ![b] = None]
    /\ im' = [im EXCEPT !.old = @ \ {b}]
    /\ lost' = lost \cup {b}
    /\ UNCHANGED <<database, user, row, job, del, export, tx, crossed, missed>>

\* The files of the old bookmarks go when all new ones are there.
RemoveOld(b) ==
    /\ im.pc = "next" /\ im.todo = {} /\ b \in im.old
    /\ file' = [file EXCEPT ![b] = None]
    /\ im' = [im EXCEPT !.old = @ \ {b}]
    /\ lost' = lost \cup {b}
    /\ UNCHANGED <<database, user, row, job, del, export, tx, crossed, missed>>

\* What an import knew of its rows ends with its transaction.
Forgotten == [im EXCEPT !.names = {}, !.me = None, !.users = <<>>, !.old = {}, !.cur = None, !.uid = None]

Commit ==
    /\ im.pc = "next" /\ im.todo = {} /\ im.old = {}
    /\ user' = [u \in Ids |-> SeenUser(u)]
    /\ row' = [b \in UIDs |-> SeenRow(b)]
    /\ tx' = None
    /\ im' = [Forgotten EXCEPT !.pc = IF im.mode = "clear" THEN "glob" ELSE "done"]
    /\ lost' = {}
    /\ UNCHANGED <<database, file, job, del, export, crossed, missed>>

\* An error or the end of the process: the transaction was never there.
ImportFails ==
    /\ im.pc \in {"clear", "users", "delete", "next", "create", "copy"}
    /\ tx' = None
    /\ im' = [Forgotten EXCEPT !.pc = "failed"]
    /\ UNCHANGED <<server, export, lost, crossed, missed>>

\* removeOrphanFiles, after an import with -clear.
Glob ==
    /\ im.pc = "glob"
    /\ im' = [im EXCEPT !.pc = "orphans", !.todo = {b \in UIDs : file[b] # None}]
    /\ UNCHANGED <<server, export, tx, lost, crossed, missed>>

FindOrphan(b) ==
    /\ im.pc = "orphans" /\ b \in im.todo
    /\ im' = IF row[b] # None THEN [im EXCEPT !.todo = @ \ {b}]
             ELSE [im EXCEPT !.pc = "remove", !.cur = b]
    /\ UNCHANGED <<server, export, tx, lost, crossed, missed>>

RemoveOrphan ==
    /\ im.pc = "remove"
    /\ file' = [file EXCEPT ![im.cur] = None]
    /\ im' = [im EXCEPT !.pc = "orphans", !.todo = @ \ {im.cur}, !.cur = None]
    /\ UNCHANGED <<database, user, row, job, del, export, tx, lost, crossed, missed>>

AllDone ==
    /\ im.pc = "orphans" /\ im.todo = {}
    /\ im' = [im EXCEPT !.pc = "done"]
    /\ UNCHANGED <<server, export, tx, lost, crossed, missed>>

-----------------------------------------------------------------------------

Init ==
    /\ database \in Databases
    /\ user = [u \in Ids |-> IF u \in Users THEN u ELSE None]
    /\ row = [b \in UIDs |-> None]
    /\ file = [b \in UIDs |-> None]
    /\ job = [b \in Bookmarks |-> "none"]
    /\ del = [b \in UIDs |-> "none"]
    /\ ex = NoExport
    /\ zip = None
    /\ im = [pc |-> "idle", mode |-> None, names |-> {}, me |-> None, users |-> <<>>, old |-> {},
             todo |-> {}, cur |-> None, uid |-> None]
    /\ tx = None
    /\ lost = {} /\ crossed = {} /\ missed = {}

Server ==
    \/ \E b \in Bookmarks, u \in Ids : Create(b, u)
    \/ \E b \in Bookmarks : Archive(b) \/ SaveRow(b)
    \/ \E b \in UIDs : Delete(b) \/ RemoveFiles(b)
    \/ \E u \in Ids : DeleteUser(u)

Export ==
    \/ \E us \in {{u \in Ids : user[u] # None}} \cup {{u} : u \in {v \in Ids : user[v] # None}} :
          us # {} /\ ExportUsers(us)
    \/ GetBookmarks \/ SaveContainer \/ SaveData \/ ExportFails
    \/ \E b \in UIDs : SaveInfo(b)

Import ==
    \/ \E names \in SUBSET Users \ {{}} : BeginFull(names)
    \/ \E me \in Ids : zip # None /\ BeginSingle(me)
    \/ BeginClear \/ ClearDB \/ LoadUsers \/ SelectOld \/ DeleteOld
    \/ \E b, uid \in UIDs : InsertRow(b, uid)
    \/ CreateFile \/ CopyFiles
    \/ \E b \in UIDs : RemoveOld(b) \/ FindOrphan(b)
    \/ Commit \/ ImportFails \/ Glob \/ RemoveOrphan \/ AllDone

Next == Server \/ Export \/ Import

Spec == Init /\ [][Next]_vars

-----------------------------------------------------------------------------
(* Properties.                                                             *)

\* Types, and that an import under way has a transaction.
TypeOK ==
    /\ \A u \in Ids : user[u] \in Users \cup {None}
    /\ \A b \in UIDs :
          /\ row[b] # None => row[b].owner \in Ids /\ row[b].of \in Bookmarks
          /\ file[b] \in Bookmarks \cup {None, "partial", "empty"}
          /\ row[b] # None => user[row[b].owner] # None
    /\ tx # None <=> im.pc \in {"clear", "users", "delete", "next", "create", "copy"}

\* An item without the archive that its row names: the bookmark was deleted
\* while the export was at it.
Torn(b) == zip # None /\ b \in DOMAIN zip.items /\ zip.items[b].loaded /\ zip.items[b].content = None

\* An export has the whole archive of every bookmark that it says is loaded,
\* unless that was deleted meanwhile.
ExportIsWhole ==
    zip # None => \A b \in DOMAIN zip.items :
        zip.items[b].loaded => zip.items[b].content = zip.items[b].of \/ del[b] # "none"

\* A loaded bookmark has its own archive, also after an import that failed at
\* any point.  The exceptions: an import with -clear that opened an archive of
\* a row, or a single user's that removed it when all its bookmarks were
\* loaded, and failed before the commit; an export overtaken by a deletion;
\* and a deletion that removes the archive of a row which came back.
LoadedIsReadable ==
    \A b \in UIDs :
        row[b] # None /\ row[b].loaded
            => \/ file[b] = row[b].of
               \/ row[b].imported /\ Torn(row[b].of)
               \/ b \in lost /\ (im.mode = "clear" \/ im.todo = {})
               \/ b \in crossed

\* An import leaves other users alone, with their rows and archives: all that
\* there are, or all but the one who sent the file.
OthersAreSpared ==
    [][im' # im /\ im.mode \in {"append", "single"}
        => \A b \in UIDs :
              row[b] # None /\ row[b].owner # im.me
                  => row'[b] = row[b] /\ file'[b] = file[b]]_vars

\* What an import inserts belongs to the user of that name, or to the one who
\* sent the file, although users get new identifiers; and with -clear there is
\* in the end what was exported, under the same UIDs.
ImportIsExact ==
    [][tx # None /\ tx' = None /\ im'.pc # "failed"
        => \A b \in UIDs :
              LET r == row'[b]
                  item == zip.items[r.of]
              IN  /\ r # None /\ r.imported /\ b \in DOMAIN tx.rows
                        => /\ r.of \in DOMAIN zip.items
                           /\ r.loaded = item.loaded
                           /\ IF im.mode = "single" THEN r.owner = im.me
                              ELSE user'[r.owner] = zip.users[item.owner]
                  /\ im.mode = "clear"
                        => (r # None <=> b \in DOMAIN zip.items) /\ (r # None => r.of = b)]_vars

\* An import that is done leaves no archive without a row, but for those of
\* bookmarks that were being extracted or deleted, and, with PostgreSQL, were
\* saved between the selection of the old ones and their deletion.
NothingIsLeft ==
    im.pc = "done" /\ im.mode # "append"
        => \A b \in UIDs :
              file[b] # None /\ row[b] = None
                  => \/ del[b] # "none"
                     \/ b \in Bookmarks /\ job[b] \in {"running", "filed", "late"}
                     \/ b \in missed /\ ~OneWriter

\* Users, rows and archives agree: rows have their users, loaded rows their
\* archives, and archives their rows.
FilesFollowRows == TypeOK /\ LoadedIsReadable /\ NothingIsLeft
=============================================================================
