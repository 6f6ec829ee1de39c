---------------------------- MODULE MCMigrations ----------------------------
(***************************************************************************)
(* Instances of Migrations for TLC.  The order of the kinds is the one of  *)
(* the code, with one of each that is next to those that change files.     *)
(***************************************************************************)
EXTENDS Migrations, TLC

\* Numbers 7, 11, 16, 17 and 27.
MCKinds == <<"archives", "rows", "uuids", "schema", "rows">>
Oldest == {0}

\* No database yet, the oldest one, one between the two that change files, and
\* one that only the last migration is new to, which nothing keeps from being
\* applied twice but its record.
OldAndNew == {-1, 0, 2, 4}
=============================================================================
