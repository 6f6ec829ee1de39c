----------------------------- MODULE MCCommand -----------------------------
(***************************************************************************)
(* Command, for TLC: two processes, users, bookmarks and new identifiers   *)
(* of each kind.                                                           *)
(***************************************************************************)
EXTENDS Command, MCMigrations

CommandSymmetry ==
    Permutations(Users) \cup Permutations(NewIds)
        \cup Permutations(Created) \cup Permutations(NewUIDs)

\* What two processes make of the files that both rewrite is no promise of the
\* code: its run goes on to the first step of that only.
Telling == ~shared
=============================================================================
