----------------------------- MODULE Migrations -----------------------------
(***************************************************************************)
(* The migrations that every command of Readeck applies when it starts     *)
(* (internal/db): the server, a worker and the commands are processes on   *)
(* one database and one folder of archives.                                *)
(*                                                                         *)
(* All migrations of a start are one transaction.  Two of them also change *)
(* files: number 7 rewrites the articles in the archives, and number 16    *)
(* gives new UIDs to all rows and new names to all archives.  What the     *)
(* transaction rolls back, the files do not.                               *)
(***************************************************************************)
EXTENDS Integers, Sequences

CONSTANTS
    Processes,
    Bookmarks, \* those that there are, each with an archive
    Articles,  \* those with an article in their archive
    Spare,     \* the files that may be created, apart from the archives
    Kinds,     \* what each migration is: "archives", "uuids", "rows" or "schema"
    Versions,  \* what the database may be at before: -1 is an empty one
    Dialects,  \* subset of {"sqlite3", "postgres"}
    Faults,    \* subset of {"fail", "crash"}
    MaxDraws,  \* bound: how often new UIDs are drawn
    None

Files == Bookmarks \cup Spare
N == Len(Kinds)

\* The rows, a transaction, an archive and a folder of them.
Database == [version : -1 .. N, times : [1 .. N -> Nat], draw : Nat, rows : SUBSET Bookmarks]
Transaction == [view : Database \cup {None}, wrote : BOOLEAN]
Archive == [draw : Nat, file : Files]
Folder == [Bookmarks -> Archive \cup {None}]

\* Only number 16 gives new UIDs.
ASSUME MigrationsAssumption ==
    /\ Kinds \in Seq({"archives", "uuids", "rows", "schema"})
    /\ \A m, n \in 1 .. N : Kinds[m] = "uuids" /\ Kinds[n] = "uuids" => m = n
    /\ Versions \subseteq -1 .. N /\ MaxDraws \in Nat
    /\ Articles \subseteq Bookmarks /\ Bookmarks \cap Spare = {}
    /\ None \notin Files /\ None \notin Archive /\ None \notin Folder
    /\ None \notin Database /\ None \notin Transaction
    /\ Dialects \subseteq {"sqlite3", "postgres"} /\ Faults \subseteq {"fail", "crash"}

VARIABLES
    dialect,
    database, \* what is committed: the version, how often each migration was
              \* applied to it, the draw of the UIDs, and the rows
    drawn,    \* the draws so far, also those rolled back
    cur,      \* the folder bookmarks: of each bookmark the draw in its name
              \* and its file; None when there is no folder
    new,      \* the folder bookmarks-new
    temp,     \* the files with a tilde behind their name
    data,     \* what a file holds: "whole", "partial" or "mixed"
    proc,     \* the processes
    tx,       \* their transactions, or None
    torn,     \* history: the folders were switched without a commit
    stopped,  \* history: a process was stopped in the middle of number 16
    shared    \* history: two processes rewrote archives at the same time

disk == <<cur, new, temp, data>>
history == <<torn, stopped, shared>>
vars == <<dialect, database, drawn, disk, proc, tx, history>>

-----------------------------------------------------------------------------
(* The database.                                                           *)

\* Each migration once, up to a version; those of archives leave no trace here.
Upto(v) == [m \in 1 .. N |-> IF m <= v /\ Kinds[m] # "archives" THEN 1 ELSE 0]

\* The first write of a transaction waits for the other one to end.  With
\* SQLite it then fails if the transaction had read before that end; with
\* PostgreSQL each statement sees what is committed.
CanWrite(p) ==
    \/ tx[p].wrote
    \/ /\ \A q \in Processes \ {p} : tx[q] # None => ~tx[q].wrote
       /\ dialect = "sqlite3" => tx[p].view \in {None, database}

\* The database as a write of the process finds it, and leaves it.
Seen(p) == IF tx[p].wrote THEN tx[p].view ELSE database
Write(p, db) == tx' = [tx EXCEPT ![p] = [view |-> db, wrote |-> TRUE]]

\* Where a process goes on: with its next migration, or with the commit.
Step(m) == IF m > N THEN "commit" ELSE Kinds[m]
Goto(p, pc) == proc' = [proc EXCEPT ![p].pc = pc]

\* getLastMigration, before the transaction.
Start(p) ==
    /\ proc[p].pc = "off"
    /\ proc' = [proc EXCEPT ![p].pc = "begin", ![p].last = database.version]
    /\ UNCHANGED <<dialect, database, drawn, disk, tx, history>>

Begin(p) ==
    /\ proc[p].pc = "begin"
    /\ proc' = [proc EXCEPT ![p].m = proc[p].last + 1,
                            ![p].pc = IF proc[p].last = -1 THEN "create" ELSE Step(proc[p].last + 1)]
    /\ tx' = [tx EXCEPT ![p] = [view |-> None, wrote |-> FALSE]]
    /\ UNCHANGED <<dialect, database, drawn, disk, history>>

\* The whole schema, and a record of every migration.
CreateSchema(p) ==
    /\ proc[p].pc = "create" /\ CanWrite(p) /\ Seen(p).version = -1
    /\ Write(p, [Seen(p) EXCEPT !.version = N, !.times = Upto(N)])
    /\ Goto(p, "commit")
    /\ UNCHANGED <<dialect, database, drawn, disk, history>>

\* ALTER TABLE, CREATE TABLE: what was applied before cannot be again.
Alter(p) ==
    /\ proc[p].pc = "schema" /\ CanWrite(p) /\ Seen(p).times[proc[p].m] = 0
    /\ Write(p, [Seen(p) EXCEPT !.times[proc[p].m] = @ + 1])
    /\ Goto(p, "record")
    /\ UNCHANGED <<dialect, database, drawn, disk, history>>

\* Rows are selected first, which fixes what SQLite shows to the transaction.
ReadRows(p) ==
    /\ proc[p].pc \in {"rows", "uuids"}
    /\ tx' = [tx EXCEPT ![p].view = IF dialect = "sqlite3" /\ @ = None THEN database ELSE @]
    /\ Goto(p, IF proc[p].pc = "rows" THEN "rewrite" ELSE "draw")
    /\ UNCHANGED <<dialect, database, drawn, disk, history>>

RewriteRows(p) ==
    /\ proc[p].pc = "rewrite" /\ CanWrite(p)
    /\ Write(p, [Seen(p) EXCEPT !.times[proc[p].m] = @ + 1])
    /\ Goto(p, "record")
    /\ UNCHANGED <<dialect, database, drawn, disk, history>>

\* A mistake to catch: a migration that is recorded already is no error.
Record_Again(p) ==
    /\ proc[p].pc = "record" /\ CanWrite(p)
    /\ Write(p, [Seen(p) EXCEPT !.version = IF @ > proc[p].m THEN @ ELSE proc[p].m])
    /\ proc' = [proc EXCEPT ![p].m = @ + 1, ![p].pc = Step(proc[p].m + 1)]
    /\ UNCHANGED <<dialect, database, drawn, disk, history>>

\* insertMigration: its number is the primary key.
Record(p) ==
    /\ proc[p].pc = "record" /\ CanWrite(p) /\ Seen(p).version < proc[p].m
    /\ Write(p, [Seen(p) EXCEPT !.version = proc[p].m])
    /\ proc' = [proc EXCEPT ![p].m = @ + 1, ![p].pc = Step(proc[p].m + 1)]
    /\ UNCHANGED <<dialect, database, drawn, disk, history>>

Commit(p) ==
    /\ proc[p].pc = "commit"
    /\ database' = Seen(p)
    /\ tx' = [tx EXCEPT ![p] = None]
    /\ proc' = [proc EXCEPT ![p].pc = "up", ![p].moved = FALSE]
    /\ UNCHANGED <<dialect, drawn, disk, history>>

-----------------------------------------------------------------------------
(* Number 7: each archive is written anew beside the old one, and takes    *)
(* its place when all are there.                                           *)

There(b) == cur # None /\ cur[b] # None
InArchives == {"walk", "write", "remove", "rename"}

Walk(p) ==
    /\ proc[p].pc = "archives" /\ cur # None
    /\ proc' = [proc EXCEPT ![p].pc = "walk", ![p].mine = {}, ![p].bad = FALSE,
                            ![p].todo = {b \in Bookmarks : There(b)},
                            ![p].names = [b \in Bookmarks |-> IF There(b) THEN cur[b].draw ELSE None]]
    /\ UNCHANGED <<dialect, database, drawn, disk, tx, history>>

\* The name with the tilde that the process means is there.
HasTemp(p, b) == temp[b] # None /\ temp[b].draw = proc[p].names[b]

Used == {temp[b].file : b \in {a \in Bookmarks : temp[a] # None}}
            \cup {cur[b].file : b \in {a \in Bookmarks : There(a)}}
            \cup {new[b].file : b \in {a \in Bookmarks : new # None /\ new[a] # None}}
            \cup {proc[q].out : q \in Processes}

\* os.Create empties the file that is there, or makes another one.
OpenTemp(p, b) ==
    LET f == IF HasTemp(p, b) THEN temp[b].file ELSE CHOOSE g \in Spare : g \notin Used IN
    /\ proc[p].pc = "walk" /\ b \in proc[p].todo \cap Articles
    /\ There(b) /\ cur[b].draw = proc[p].names[b] /\ data[cur[b].file] = "whole"
    /\ HasTemp(p, b) \/ Spare \ Used # {}
    /\ temp' = [temp EXCEPT ![b] = [draw |-> proc[p].names[b], file |-> f]]
    /\ data' = [data EXCEPT ![f] = IF \E q \in Processes : proc[q].out = f THEN "mixed" ELSE "partial"]
    /\ proc' = [proc EXCEPT ![p].pc = "write", ![p].out = f, ![p].todo = @ \ {b}, ![p].mine = @ \cup {b}]
    /\ shared' = (shared \/ \E q \in Processes \ {p} : proc[q].pc \in InArchives)
    /\ UNCHANGED <<dialect, database, drawn, cur, new, tx, torn, stopped>>

CloseTemp(p) ==
    /\ proc[p].pc = "write"
    /\ data' = [data EXCEPT ![proc[p].out] = IF @ = "mixed" THEN "mixed" ELSE "whole"]
    /\ proc' = [proc EXCEPT ![p].pc = "walk", ![p].out = None]
    /\ UNCHANGED <<dialect, database, drawn, cur, new, temp, tx, history>>

\* Nothing to change.
Skip(p, b) ==
    /\ proc[p].pc = "walk" /\ b \in proc[p].todo \ Articles
    /\ proc' = [proc EXCEPT ![p].todo = @ \ {b}]
    /\ UNCHANGED <<dialect, database, drawn, disk, tx, history>>

\* An archive that cannot be read, or is not there any more,
BadArchive(p, b) ==
    /\ proc[p].pc = "walk" /\ b \in proc[p].todo
    /\ There(b) /\ cur[b].draw = proc[p].names[b] => data[cur[b].file] # "whole"
    /\ proc' = [proc EXCEPT ![p].todo = @ \ {b}, ![p].bad = TRUE]
    /\ UNCHANGED <<dialect, database, drawn, disk, tx, history>>

\* and one that cannot be written: the walk goes on.
WriteFails(p) ==
    /\ proc[p].pc = "write" /\ "fail" \in Faults
    /\ proc' = [proc EXCEPT ![p].pc = "walk", ![p].out = None, ![p].bad = TRUE]
    /\ UNCHANGED <<dialect, database, drawn, disk, tx, history>>

\* What was written takes the place of the old ones, unless one could not be.
EndWalk(p) ==
    /\ proc[p].pc = "walk" /\ proc[p].todo = {}
    /\ proc' = [proc EXCEPT ![p].pc = IF proc[p].bad THEN "remove" ELSE "rename", ![p].todo = proc[p].mine]
    /\ UNCHANGED <<dialect, database, drawn, disk, tx, history>>

RemoveTemp(p, b) ==
    /\ proc[p].pc = "remove" /\ b \in proc[p].todo
    /\ temp' = IF HasTemp(p, b) THEN [temp EXCEPT ![b] = None] ELSE temp
    /\ proc' = [proc EXCEPT ![p].todo = @ \ {b}]
    /\ UNCHANGED <<dialect, database, drawn, cur, new, data, tx, history>>

RenameTemp(p, b) ==
    /\ proc[p].pc = "rename" /\ b \in proc[p].todo /\ HasTemp(p, b) /\ cur # None
    /\ cur' = [cur EXCEPT ![b] = temp[b]]
    /\ temp' = [temp EXCEPT ![b] = None]
    /\ proc' = [proc EXCEPT ![p].todo = @ \ {b}]
    /\ UNCHANGED <<dialect, database, drawn, new, data, tx, history>>

EndRename(p) ==
    /\ proc[p].pc = "rename" /\ proc[p].todo = {}
    /\ Goto(p, "record")
    /\ UNCHANGED <<dialect, database, drawn, disk, tx, history>>

-----------------------------------------------------------------------------
(* Number 16: new UIDs, and a new folder in which the archives have the    *)
(* names that the rows now say.                                            *)

DrawUUIDs(p) ==
    /\ proc[p].pc = "draw" /\ CanWrite(p) /\ drawn < MaxDraws
    /\ drawn' = drawn + 1
    /\ Write(p, [Seen(p) EXCEPT !.draw = drawn + 1, !.times[proc[p].m] = @ + 1])
    /\ proc' = [proc EXCEPT ![p].pc = "mkdir", ![p].old = Seen(p).draw, ![p].todo = Seen(p).rows]
    /\ UNCHANGED <<dialect, database, disk, history>>

MakeFolder(p) ==
    /\ proc[p].pc = "mkdir" /\ new = None
    /\ new' = [b \in Bookmarks |-> None]
    /\ Goto(p, "link")
    /\ UNCHANGED <<dialect, database, drawn, cur, temp, data, tx, history>>

\* An archive that is not there is left out.
Link(p, b) ==
    /\ proc[p].pc = "link" /\ b \in proc[p].todo
    /\ new' = IF There(b) /\ cur[b].draw = proc[p].old
              THEN [new EXCEPT ![b] = [draw |-> tx[p].view.draw, file |-> cur[b].file]] ELSE new
    /\ proc' = [proc EXCEPT ![p].todo = @ \ {b}]
    /\ UNCHANGED <<dialect, database, drawn, cur, temp, data, tx, history>>

\* A mistake to catch: the old folder goes before all archives are linked.
RemoveFolder_Early(p) ==
    /\ proc[p].pc = "link"
    /\ cur' = None
    /\ temp' = [b \in Bookmarks |-> None]
    /\ proc' = [proc EXCEPT ![p].pc = "switch", ![p].moved = TRUE]
    /\ UNCHANGED <<dialect, database, drawn, new, data, tx, history>>

RemoveFolder(p) ==
    /\ proc[p].pc = "link" /\ proc[p].todo = {}
    /\ cur' = None
    /\ temp' = [b \in Bookmarks |-> None]
    /\ proc' = [proc EXCEPT ![p].pc = "switch", ![p].moved = TRUE]
    /\ UNCHANGED <<dialect, database, drawn, new, data, tx, history>>

RenameFolder(p) ==
    /\ proc[p].pc = "switch"
    /\ cur' = new
    /\ new' = None
    /\ Goto(p, "record")
    /\ UNCHANGED <<dialect, database, drawn, temp, data, tx, history>>

-----------------------------------------------------------------------------
(* Failures.                                                               *)

Idle == [pc |-> "off", last |-> 0, m |-> 0, todo |-> {}, names |-> [b \in Bookmarks |-> None],
         mine |-> {}, out |-> None, bad |-> FALSE, old |-> 0, moved |-> FALSE]

\* The transaction is rolled back, and the process ends.
Ends(p) ==
    /\ tx' = [tx EXCEPT ![p] = None]
    /\ proc' = [proc EXCEPT ![p] = Idle]
    /\ torn' = (torn \/ proc[p].moved)
    /\ UNCHANGED <<dialect, database, drawn, shared>>

\* Number 7 failed and has removed what it wrote.
AfterRemoval(p) ==
    /\ proc[p].pc = "remove" /\ proc[p].todo = {}
    /\ Ends(p) /\ UNCHANGED <<disk, stopped>>

\* Number 16 fails while it links.
LinkFails(p) ==
    /\ proc[p].pc = "link" /\ "fail" \in Faults
    /\ new' = None
    /\ Ends(p) /\ UNCHANGED <<cur, temp, data, stopped>>

\* An error that the state itself causes: what was applied or is there already,
\* what is gone, or a write after a read that is out of date.
Conflict(p) ==
    /\ \/ proc[p].pc = "create" /\ Seen(p).version # -1
       \/ proc[p].pc = "schema" /\ Seen(p).times[proc[p].m] > 0
       \/ proc[p].pc = "record" /\ Seen(p).version >= proc[p].m
       \/ proc[p].pc = "archives" /\ cur = None
       \/ proc[p].pc = "rename" /\ \E b \in proc[p].todo : ~HasTemp(p, b) \/ cur = None
       \/ proc[p].pc = "mkdir" /\ new # None
       \/ dialect = "sqlite3" /\ proc[p].pc \in {"rewrite", "draw"} /\ ~tx[p].wrote /\ tx[p].view # database
    /\ Ends(p) /\ UNCHANGED <<disk, stopped>>

\* Any other error of a statement or of a file, and the lock that is not free
\* in time.
Fail(p) ==
    /\ "fail" \in Faults
    /\ proc[p].pc \in {"create", "schema", "rows", "rewrite", "record", "commit", "archives", "walk",
                       "rename", "uuids", "draw", "mkdir", "switch"}
    /\ Ends(p) /\ UNCHANGED <<disk, stopped>>

Crash(p) ==
    /\ "crash" \in Faults /\ proc[p].pc \notin {"off", "up"}
    /\ stopped' = (stopped \/ proc[p].pc \in {"link", "switch"})
    /\ Ends(p) /\ UNCHANGED disk

\* A process that was started does its work and ends.
Stop(p) ==
    /\ proc[p].pc = "up"
    /\ proc' = [proc EXCEPT ![p] = Idle]
    /\ UNCHANGED <<dialect, database, drawn, disk, tx, history>>

-----------------------------------------------------------------------------

Init ==
    /\ dialect \in Dialects
    /\ \E v \in Versions :
          database = [version |-> v, times |-> Upto(v), draw |-> 0,
                      rows |-> IF v = -1 THEN {} ELSE Bookmarks]
    /\ drawn = 0
    /\ cur = [b \in Bookmarks |-> IF b \in database.rows THEN [draw |-> 0, file |-> b] ELSE None]
    /\ new = None
    /\ temp = [b \in Bookmarks |-> None]
    /\ data = [f \in Files |-> "whole"]
    /\ proc = [p \in Processes |-> Idle]
    /\ tx = [p \in Processes |-> None]
    /\ torn = FALSE /\ stopped = FALSE /\ shared = FALSE

Next ==
    \E p \in Processes :
        \/ Start(p) \/ Begin(p) \/ CreateSchema(p) \/ Alter(p) \/ ReadRows(p) \/ RewriteRows(p)
        \/ Record(p) \/ Commit(p)
        \/ Walk(p) \/ CloseTemp(p) \/ WriteFails(p) \/ EndWalk(p) \/ EndRename(p)
        \/ \E b \in Bookmarks :
              \/ OpenTemp(p, b) \/ Skip(p, b) \/ BadArchive(p, b) \/ RemoveTemp(p, b) \/ RenameTemp(p, b) \/ Link(p, b)
        \/ DrawUUIDs(p) \/ MakeFolder(p) \/ RemoveFolder(p) \/ RenameFolder(p)
        \/ AfterRemoval(p) \/ LinkFails(p) \/ Conflict(p) \/ Fail(p) \/ Crash(p) \/ Stop(p)

Spec == Init /\ [][Next]_vars

-----------------------------------------------------------------------------
(* Properties.                                                             *)

\* The archive of a row is whole and has the name that the row says.
Follows(b, draw) ==
    There(b) /\ cur[b].draw = draw /\ data[cur[b].file] = "whole"

\* Each migration was applied once to what is committed, whichever processes
\* started at the same time, failed or were stopped.
AppliedOnce == database.times = Upto(database.version)

\* Each row has its archive, whatever failed and whoever started at the same
\* time; while the folders are switched the rows are those of that transaction.
\* The exceptions: a process that switched the folders and did not commit, and
\* two that rewrote the archives at the same time.
RowsKeepArchives ==
    ~torn /\ ~shared =>
        \A b \in database.rows :
            \/ Follows(b, database.draw)
            \/ \E p \in Processes :
                  proc[p].moved /\ (proc[p].pc = "switch" \/ Follows(b, tx[p].view.draw))

\* The new folder, which keeps number 16 from ever beginning again, is only
\* left by a process that was stopped in it or failed when it switched.
FolderIsNotLeft ==
    new # None => torn \/ stopped \/ \E p \in Processes : proc[p].pc \in {"link", "switch"}

\* Names of archives and rows agree, and no failure leaves half of a switch.
ArchivesFollow == RowsKeepArchives /\ FolderIsNotLeft

\* 16_uuid.go: if something goes wrong, the new folder is removed and the
\* transaction is rolled back: the rows have their archives as before.
RollbackKeepsArchives ==
    (\A p \in Processes : tx[p] = None) /\ cur # None
        => \A b \in database.rows : Follows(b, database.draw)
=============================================================================
