------------------------------ MODULE MemStore ------------------------------
(***************************************************************************)
(* The in-memory key/value store of pkg/superbus/store.go, whose values    *)
(* expire by timers of the runtime.                                        *)
(*                                                                         *)
(* Every method runs under the store's lock and is one step.  The function *)
(* of an expired timer is started by the runtime on its own goroutine and  *)
(* takes the lock later: between the two, other calls may replace the      *)
(* value, reset the timer or forget it.                                    *)
(*                                                                         *)
(* A value is named by the Set that stored it; lifetime[w] tells what      *)
(* expiration that Set was given.  An armed timer may fire at any moment.  *)
(***************************************************************************)
EXTENDS Naturals, FiniteSets

CONSTANTS
    Keys,
    Writes,     \* the calls of Set; a write is also the value it stores
    Timers,     \* the timers the runtime may allocate
    None,
    MayClear    \* TRUE: Clear, which only the test harness calls, is used

StoreAssumption ==
    /\ None \notin Writes
    /\ None \notin Timers
    /\ None \notin Keys
    /\ MayClear \in BOOLEAN

ASSUME StoreConstants == StoreAssumption

VARIABLES
    data,      \* data[k]: the value of key k, or None
    timers,    \* timers[k]: the timer the store knows for k, or None
    owner,     \* owner[t]: the key whose entry t deletes; None: not allocated
    armed,     \* timers that will fire
    blocked,   \* started functions that wait for the lock, each with its
               \* timer and the write whose expiration is over
    cause,     \* history: cause[t], the write that armed t last
    lifetime   \* history: lifetime[w], the expiration given to w

vars == <<data, timers, owner, armed, blocked, cause, lifetime>>

Lifetimes == {"none", "negative", "zero", "positive"}

\* What every variable ranges over; a value was stored by its Set, and a
\* timer that may still delete something belongs to a key.
TypeOK ==
    /\ data \in [Keys -> Writes \cup {None}]
    /\ timers \in [Keys -> Timers \cup {None}]
    /\ owner \in [Timers -> Keys \cup {None}]
    /\ armed \subseteq Timers
    /\ blocked \subseteq Timers \X Writes
    /\ cause \in [Timers -> Writes \cup {None}]
    /\ lifetime \in [Writes -> Lifetimes]
    /\ \A k \in Keys :
          /\ data[k] # None => lifetime[data[k]] # "none"
          /\ timers[k] # None => owner[timers[k]] = k
    /\ \A t \in armed : owner[t] # None /\ cause[t] # None
    /\ \A b \in blocked : owner[b[1]] # None

Init ==
    /\ data = [k \in Keys |-> None]
    /\ timers = [k \in Keys |-> None]
    /\ owner = [t \in Timers |-> None]
    /\ armed = {}
    /\ blocked = {}
    /\ cause = [t \in Timers |-> None]
    /\ lifetime = [w \in Writes |-> "none"]

-----------------------------------------------------------------------------

\* What every Set does first.
Store(k, w, exp) ==
    /\ lifetime[w] = "none"
    /\ lifetime' = [lifetime EXCEPT ![w] = exp]
    /\ data' = [data EXCEPT ![k] = w]

\* Set with no expiration: the timer of the key, if any, is stopped.
SetForever(k, w) ==
    /\ Store(k, w, "zero")
    /\ timers' = [timers EXCEPT ![k] = None]
    /\ armed' = armed \ {timers[k]}
    /\ UNCHANGED <<owner, blocked, cause>>

\* Set with a negative duration, which a caller that computes the time to a
\* deadline passes once the deadline is over: no timer is touched.
SetPast(k, w) ==
    /\ Store(k, w, "negative")
    /\ UNCHANGED <<timers, owner, armed, blocked, cause>>

\* A mistake to catch: the timer is stopped where it is to be reset.
SetReset_Stops(k, w) ==
    /\ timers[k] # None
    /\ Store(k, w, "positive")
    /\ armed' = armed \ {timers[k]}
    /\ UNCHANGED <<timers, owner, blocked, cause>>

\* Set with an expiration when the key has a timer: the timer is reset.
SetReset(k, w) ==
    /\ timers[k] # None
    /\ Store(k, w, "positive")
    /\ armed' = armed \cup {timers[k]}
    /\ cause' = [cause EXCEPT ![timers[k]] = w]
    /\ UNCHANGED <<timers, owner, blocked>>

\* Set with an expiration when the key has none: a timer is made.
SetArm(k, w, t) ==
    /\ timers[k] = None
    /\ owner[t] = None
    /\ Store(k, w, "positive")
    /\ timers' = [timers EXCEPT ![k] = t]
    /\ owner' = [owner EXCEPT ![t] = k]
    /\ armed' = armed \cup {t}
    /\ cause' = [cause EXCEPT ![t] = w]
    /\ UNCHANGED blocked

\* Del: the timer is stopped; a function that has started is not.
Del(k) ==
    /\ data' = [data EXCEPT ![k] = None]
    /\ timers' = [timers EXCEPT ![k] = None]
    /\ armed' = armed \ {timers[k]}
    /\ UNCHANGED <<owner, blocked, cause, lifetime>>

\* Clear: both maps are replaced, and the timers go on.
Clear ==
    /\ MayClear
    /\ data' = [k \in Keys |-> None]
    /\ timers' = [k \in Keys |-> None]
    /\ UNCHANGED <<owner, armed, blocked, cause, lifetime>>

\* The runtime starts the function of a timer on a goroutine.
Fire(t) ==
    /\ t \in armed
    /\ armed' = armed \ {t}
    /\ blocked' = blocked \cup {<<t, cause[t]>>}
    /\ UNCHANGED <<data, timers, owner, cause, lifetime>>

\* The function gets the lock: it deletes the entries of its key, whatever
\* they are by now.
Expire(t, w) ==
    /\ <<t, w>> \in blocked
    /\ blocked' = blocked \ {<<t, w>>}
    /\ data' = [data EXCEPT ![owner[t]] = None]
    /\ timers' = [timers EXCEPT ![owner[t]] = None]
    /\ UNCHANGED <<owner, armed, cause, lifetime>>

Next ==
    \/ \E k \in Keys, w \in Writes :
          \/ SetForever(k, w) \/ SetPast(k, w) \/ SetReset(k, w)
          \/ \E t \in Timers : SetArm(k, w, t)
    \/ \E k \in Keys : Del(k)
    \/ Clear
    \/ \E t \in Timers : Fire(t) \/ \E w \in Writes : Expire(t, w)

Spec == Init /\ [][Next]_vars

\* Timers fire, and the lock is granted to everyone who waits for it.
FairSpec ==
    /\ Spec
    /\ \A t \in Timers : WF_vars(Fire(t)) /\ WF_vars(\E w \in Writes : Expire(t, w))

-----------------------------------------------------------------------------
(* Properties.                                                             *)

\* Timer t will fire or has fired, and will then empty key k.
Watches(t, k) ==
    /\ owner[t] = k
    /\ t \in armed \/ \E w \in Writes : <<t, w>> \in blocked

\* A value stored with an expiration always has somebody who will delete it,
\* whatever happened to the timers of its key before (store.go:107-118).
ExpiringIsWatched ==
    \A k \in Keys :
       data[k] # None /\ lifetime[data[k]] = "positive"
          => \E t \in Timers : Watches(t, k)

\* A value stored with an expiration does not stay forever.
ValueExpires ==
    \A k \in Keys, w \in Writes :
       data[k] = w /\ lifetime[w] = "positive" ~> data[k] # w

=============================================================================
