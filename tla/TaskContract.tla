--------------------------- MODULE TaskContract ---------------------------
(***************************************************************************)
(* What the task manager of pkg/superbus promises to the code that         *)
(* launches tasks, without timers, events or workers.                      *)
(*                                                                         *)
(* Each key has at most one current payload.  A payload is submitted once; *)
(* it may be withdrawn or replaced at any time and never comes back.  The  *)
(* queue may accept a payload only while it is current, and only accepted  *)
(* payloads reach a handler.  Nothing says that a handler is called once:  *)
(* the queue does not promise that.                                        *)
(***************************************************************************)
CONSTANTS Launches, Keys, None

VARIABLES
    current,   \* current[k]: the payload of key k, or None
    used,      \* the payloads submitted so far
    accepted,  \* the payloads the queue accepted
    begun      \* the payloads a handler was called with

vars == <<current, used, accepted, begun>>

Init ==
    /\ current = [k \in Keys |-> None]
    /\ used = {}
    /\ accepted = {}
    /\ begun = {}

\* A new payload replaces the one of its key.
Submit(p, k) ==
    /\ p \notin used
    /\ current' = [current EXCEPT ![k] = p]
    /\ used' = used \cup {p}
    /\ UNCHANGED <<accepted, begun>>

\* The payloads of some keys are removed: canceled, run, expired or lost.
Withdraw(ks) ==
    /\ current' = [k \in Keys |-> IF k \in ks THEN None ELSE current[k]]
    /\ UNCHANGED <<used, accepted, begun>>

\* A current payload is accepted for execution.
Accept(p) ==
    /\ \E k \in Keys : current[k] = p
    /\ accepted' = accepted \cup {p}
    /\ UNCHANGED <<current, used, begun>>

\* A handler is called with an accepted payload.
Begin(p) ==
    /\ p \in accepted
    /\ begun' = begun \cup {p}
    /\ UNCHANGED <<current, used, accepted>>

Next ==
    \/ \E p \in Launches, k \in Keys : Submit(p, k)
    \/ \E ks \in SUBSET Keys : Withdraw(ks)
    \/ \E p \in Launches : Accept(p) \/ Begin(p)

Spec == Init /\ [][Next]_vars

=============================================================================
