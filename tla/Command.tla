------------------------------ MODULE Command ------------------------------
(***************************************************************************)
(* A command: it applies the migrations that are due, as every start does, *)
(* and then exports and imports next to a server.                          *)
(*                                                                         *)
(* Processes start on a database of any version; when one of them has come *)
(* through, the users and bookmarks of Portability begin, who know nothing *)
(* of the archives before.                                                 *)
(***************************************************************************)
EXTENDS Migrations

CONSTANTS Users, NewIds, Created, NewUIDs

VARIABLES started, connection, user, row, file, job, del, ex, zip, im, import, lost, crossed, missed

Portable == INSTANCE Portability WITH
    Bookmarks <- Created, Databases <- {"sqlite", "postgres"},
    database <- connection, tx <- import

ASSUME CommandAssumption == Portable!PortabilityAssumption

commands == <<connection, user, row, file, job, del, ex, zip, im, import, lost, crossed, missed>>

Migrate == ~started /\ Next /\ UNCHANGED <<started, commands>>

\* appPreRun has returned; what the migrations went through is forgotten.
RunCommand ==
    /\ ~started
    /\ \E p \in Processes : proc[p].pc = "up" /\ \A q \in Processes \ {p} : proc[q].pc = "off"
    /\ started' = TRUE
    /\ database' = [version |-> N, times |-> Upto(N), draw |-> 0, rows |-> Bookmarks]
    /\ drawn' = 0 /\ new' = None
    /\ cur' = [b \in Bookmarks |-> [draw |-> 0, file |-> b]]
    /\ temp' = [b \in Bookmarks |-> None] /\ data' = [f \in Files |-> "whole"]
    /\ proc' = [p \in Processes |-> Idle] /\ tx' = [p \in Processes |-> None]
    /\ torn' = FALSE /\ stopped' = FALSE /\ shared' = FALSE
    /\ UNCHANGED <<dialect, commands>>

Work == started /\ Portable!Next /\ UNCHANGED <<started, vars>>

CommandNext == Migrate \/ RunCommand \/ Work

\* Both halves are on one database.
CommandInit ==
    /\ Init /\ Portable!Init /\ started = FALSE
    /\ connection = "postgres" <=> dialect = "postgres"

CommandSpec == CommandInit /\ [][CommandNext]_<<vars, started, commands>>

-----------------------------------------------------------------------------
(* Properties of both halves: AppliedOnce and ArchivesFollow of Migrations *)
(* and these.                                                              *)

\* An export has the archive of each bookmark that it says is loaded.
ExportIsWhole == Portable!ExportIsWhole

\* A row has its user, a loaded one its archive, and an archive its row, after
\* any import.
FilesFollowRows == Portable!FilesFollowRows

\* An import leaves other users alone.
OthersAreSpared == Portable!OthersAreSpared

\* An import gives its bookmarks to the right users, and a restore gives back
\* what was exported.
ImportIsExact == Portable!ImportIsExact
=============================================================================
