---------------------------- MODULE TaskManager ----------------------------
(***************************************************************************)
(* The delayed task queue of pkg/superbus (tasks.go on top of events.go    *)
(* and store.go).                                                          *)
(*                                                                         *)
(* A launch stores a payload under the task's key and then pushes an event *)
(* that names the key only.  The listener reads the payload of the key,    *)
(* arms a timer, and the timer reads the payload of the key again before   *)
(* it hands the handler to a worker.  The payload under the key is         *)
(* therefore read twice, and written by later launches, cancellations,     *)
(* expiry and the end of any run, all without a common lock.               *)
(*                                                                         *)
(* A launch l is at once the identity of its payload (the fresh UUID of    *)
(* tasks.go:225) and of the single event it pushes; stage[l] follows that  *)
(* event, and seen[l] is the payload the listener found for it, which need *)
(* not be l's.  Two events of one key have the same content, so the order  *)
(* in which the wire delivers them cannot be observed: the wire is a set.  *)
(*                                                                         *)
(* Time is counted in ticks.  What a payload has left to live and a timer  *)
(* has left to wait are counted down together by Tick.                     *)
(***************************************************************************)
EXTENDS Naturals, FiniteSets

CONSTANTS
    Launches,    \* the launches of a run; a launch is also its payload's ID
    Keys,        \* store keys, prefix:name:id
    None,        \* no payload
    Registered,  \* the keys whose task has a handler in this process
    Cancelable,  \* the keys of the tasks that some code cancels
    NumWorkers,  \* goroutines that range over the queue
    TTL,         \* ticks a payload lives: tasks.go:237 adds the delay to 30
                 \* seconds as nanoseconds, so it is the same for all tasks
    Delay,       \* Delay[k]: ticks before a task of key k may run
    Backends,    \* deployments: "redis" (store and list), "memory" (MemStore
                 \* and channel)
    Prompt,      \* TRUE: goroutines that can run do so within a tick
    MayStop      \* TRUE: the process may stop, crash and start again

ASSUME TaskAssumption ==
    /\ None \notin Launches
    /\ Registered \subseteq Keys
    /\ Cancelable \subseteq Keys
    /\ NumWorkers \in Nat \ {0}
    /\ TTL \in Nat \ {0}
    /\ Delay \in [Keys -> Nat]
    /\ \A k \in Keys : Delay[k] < TTL
    /\ Backends \subseteq {"memory", "redis"}
    /\ Prompt \in BOOLEAN
    /\ MayStop \in BOOLEAN

VARIABLES
    store,      \* store[k]: the payload stored under k, or None
    ttl,        \* ttl[k]: ticks before that payload expires
    stage,      \* stage[l]: how far the event of l has come
    keyOf,      \* keyOf[l]: the key l was launched for
    seen,       \* seen[l]: p0, the payload the listener read for l's event
    left,       \* left[l]: ticks before l's timer fires
    phase,      \* the process: up, stopping, closing, down
    backend,    \* what the bus was loaded with, once and for all (bus.Load)
    validated,  \* history: payloads a timer found still stored in time
    started,    \* history: payloads a handler was called with
    fate        \* history: fate[l], how the payload of l left the store

vars == <<store, ttl, stage, keyOf, seen, left, phase, backend,
          validated, started, fate>>

wire == <<stage, keyOf, seen, left>>
history == <<validated, started, fate>>

\* Events and payloads outlive the process.
Persistent == backend = "redis"

Stages == {"idle", "stored", "pushed", "received", "armed", "ready",
           "running", "done", "dropped"}
Phases == {"up", "stopping", "closing", "down"}
Fates == {"none", "live", "superseded", "canceled", "canceledLate", "wiped",
          "finished", "expired", "discarded", "lost"}

At(s) == {l \in Launches : stage[l] \in s}

\* What every variable ranges over; a launch has a key once it is made, and
\* has seen a payload once its timer is armed.
TypeOK ==
    /\ store \in [Keys -> Launches \cup {None}]
    /\ ttl \in [Keys -> 0..TTL]
    /\ stage \in [Launches -> Stages]
    /\ keyOf \in [Launches -> Keys \cup {None}]
    /\ seen \in [Launches -> Launches \cup {None}]
    /\ left \in [Launches -> Nat]
    /\ phase \in Phases
    /\ backend \in Backends
    /\ validated \subseteq Launches
    /\ started \subseteq Launches
    /\ fate \in [Launches -> Fates]
    /\ \A l \in Launches :
          /\ stage[l] # "idle" => keyOf[l] \in Keys
          /\ stage[l] \in {"armed", "ready", "running", "done"} => seen[l] \in Launches

Init ==
    /\ store = [k \in Keys |-> None]
    /\ ttl = [k \in Keys |-> 0]
    /\ stage = [l \in Launches |-> "idle"]
    /\ keyOf = [l \in Launches |-> None]
    /\ seen = [l \in Launches |-> None]
    /\ left = [l \in Launches |-> 0]
    /\ phase = "up"
    /\ backend \in Backends
    /\ validated = {}
    /\ started = {}
    /\ fate = [l \in Launches |-> "none"]

-----------------------------------------------------------------------------
(* The store.                                                              *)

\* The payload stored under k, if there is one, meets the given fate.
Leaves(k, how) == [l \in Launches |-> IF l = store[k] THEN how ELSE fate[l]]

\* delPayload and Store.Del: whatever is under k is removed.
Del(k, how) ==
    /\ store' = [store EXCEPT ![k] = None]
    /\ ttl' = [ttl EXCEPT ![k] = 0]
    /\ fate' = Leaves(k, how)

-----------------------------------------------------------------------------
(* The callers of the task manager.                                        *)

\* A mistake to catch: the payload lives for the delay, with no slack.
LaunchStore_NoSlack(l, k) ==
    /\ stage[l] = "idle"
    /\ Persistent \/ phase # "down"
    /\ store' = [store EXCEPT ![k] = l]
    /\ ttl' = [ttl EXCEPT ![k] = Delay[k]]
    /\ fate' = [Leaves(k, "superseded") EXCEPT ![l] = "live"]
    /\ stage' = [stage EXCEPT ![l] = "stored"]
    /\ keyOf' = [keyOf EXCEPT ![l] = k]
    /\ UNCHANGED <<backend, seen, left, phase, validated, started>>

\* First half of Launch: a payload with a fresh ID replaces the one under k.
LaunchStore(l, k) ==
    /\ stage[l] = "idle"
    /\ Persistent \/ phase # "down"
    /\ store' = [store EXCEPT ![k] = l]
    /\ ttl' = [ttl EXCEPT ![k] = TTL]
    /\ fate' = [Leaves(k, "superseded") EXCEPT ![l] = "live"]
    /\ stage' = [stage EXCEPT ![l] = "stored"]
    /\ keyOf' = [keyOf EXCEPT ![l] = k]
    /\ UNCHANGED <<backend, seen, left, phase, validated, started>>

\* Second half of Launch on redis: the event is appended to the list.
LaunchPush(l) ==
    /\ Persistent
    /\ stage[l] = "stored"
    /\ stage' = [stage EXCEPT ![l] = "pushed"]
    /\ UNCHANGED <<backend, store, ttl, keyOf, seen, left, phase, history>>

\* Second half of Launch on the channel once Stop closed it: the send
\* panics, and the payload stays behind without an event.
LaunchPanic(l) ==
    /\ ~Persistent
    /\ stage[l] = "stored"
    /\ phase \notin {"up", "down"}
    /\ stage' = [stage EXCEPT ![l] = "dropped"]
    /\ UNCHANGED <<backend, store, ttl, keyOf, seen, left, phase, history>>

\* Task.Cancel.  The history tells a cancellation that comes before a timer
\* accepted the payload from one that comes later.
Cancel(k) ==
    /\ Del(k, IF store[k] \in validated THEN "canceledLate" ELSE "canceled")
    /\ UNCHANGED <<backend, wire, phase, validated, started>>

-----------------------------------------------------------------------------
(* The listener, the timers and the workers.                               *)

\* The listener takes one event: out of the list on redis, directly from the
\* blocked launcher on the unbuffered channel.  It handles one at a time.
Receive(l) ==
    /\ phase = "up"
    /\ At({"received"}) = {}
    /\ stage[l] = IF Persistent THEN "pushed" ELSE "stored"
    /\ stage' = [stage EXCEPT ![l] = "received"]
    /\ UNCHANGED <<backend, store, ttl, keyOf, seen, left, phase, history>>

\* onTask without a payload: the task was canceled, or is already over.
OnTaskGone(l) ==
    /\ stage[l] = "received"
    /\ store[keyOf[l]] = None
    /\ stage' = [stage EXCEPT ![l] = "dropped"]
    /\ UNCHANGED <<backend, store, ttl, keyOf, seen, left, phase, history>>

\* onTask without a handler: the payload is removed.
OnTaskUnregistered(l) ==
    /\ stage[l] = "received"
    /\ store[keyOf[l]] # None
    /\ keyOf[l] \notin Registered
    /\ Del(keyOf[l], "discarded")
    /\ stage' = [stage EXCEPT ![l] = "dropped"]
    /\ UNCHANGED <<backend, keyOf, seen, left, phase, validated, started>>

\* onTask: remember the payload and arm a timer with its delay.
OnTaskArm(l) ==
    /\ stage[l] = "received"
    /\ store[keyOf[l]] # None
    /\ keyOf[l] \in Registered
    /\ seen' = [seen EXCEPT ![l] = store[keyOf[l]]]
    /\ left' = [left EXCEPT ![l] = Delay[keyOf[l]]]
    /\ stage' = [stage EXCEPT ![l] = "armed"]
    /\ UNCHANGED <<backend, store, ttl, keyOf, phase, history>>

\* A timer has fired and finds its payload gone or replaced.
FireStale(l) ==
    /\ stage[l] = "armed"
    /\ left[l] = 0
    /\ store[keyOf[l]] # seen[l]
    /\ stage' = [stage EXCEPT ![l] = "dropped"]
    /\ UNCHANGED <<backend, store, ttl, keyOf, seen, left, phase, history>>

\* A mistake to catch: any payload of the key will do.
FireValid_NoIDCheck(l) ==
    /\ stage[l] = "armed"
    /\ left[l] = 0
    /\ store[keyOf[l]] # None
    /\ stage' = [stage EXCEPT ![l] = "ready"]
    /\ validated' = validated \cup {seen[l]}
    /\ UNCHANGED <<backend, store, ttl, keyOf, seen, left, phase, started, fate>>

\* A timer has fired and finds its payload: its goroutine now waits for a
\* worker to take the handler from the unbuffered queue.
FireValid(l) ==
    /\ stage[l] = "armed"
    /\ left[l] = 0
    /\ store[keyOf[l]] = seen[l]
    /\ stage' = [stage EXCEPT ![l] = "ready"]
    /\ validated' = validated \cup {seen[l]}
    /\ UNCHANGED <<backend, store, ttl, keyOf, seen, left, phase, started, fate>>

\* A mistake to catch: one worker fewer than configured.
Start_OffByOne(l) ==
    /\ stage[l] = "ready"
    /\ phase \in {"up", "stopping"}
    /\ Cardinality(At({"running"})) < NumWorkers - 1
    /\ stage' = [stage EXCEPT ![l] = "running"]
    /\ started' = started \cup {seen[l]}
    /\ UNCHANGED <<backend, store, ttl, keyOf, seen, left, phase, validated, fate>>

\* A free worker takes the handler and calls it; nothing is read again.
Start(l) ==
    /\ stage[l] = "ready"
    /\ phase \in {"up", "stopping"}
    /\ Cardinality(At({"running"})) < NumWorkers
    /\ stage' = [stage EXCEPT ![l] = "running"]
    /\ started' = started \cup {seen[l]}
    /\ UNCHANGED <<backend, store, ttl, keyOf, seen, left, phase, validated, fate>>

\* The handler returned or panicked; the deferred function removes the
\* payload of the key, be it the one that was run or not.
Finish(l) ==
    /\ stage[l] = "running"
    /\ stage' = [stage EXCEPT ![l] = "done"]
    /\ Del(keyOf[l], IF store[keyOf[l]] = seen[l] THEN "finished" ELSE "wiped")
    /\ UNCHANGED <<backend, keyOf, seen, left, phase, validated, started>>

-----------------------------------------------------------------------------
(* Time.                                                                   *)

Dec(n) == IF n = 0 THEN 0 ELSE n - 1

\* A goroutine that only needs a processor.
Due ==
    \/ At({"stored", "pushed", "received"}) # {}
    \/ \E l \in At({"armed"}) : left[l] = 0

Expiring == {k \in Keys : store[k] # None /\ ttl[k] = 1}

\* A tick of the clock; payloads whose time is over disappear.
Tick ==
    /\ Prompt => ~Due
    /\ \/ \E k \in Keys : store[k] # None
       \/ \E l \in At({"armed"}) : left[l] > 0
    /\ ttl' = [k \in Keys |-> Dec(ttl[k])]
    /\ store' = [k \in Keys |-> IF k \in Expiring THEN None ELSE store[k]]
    /\ fate' = [l \in Launches |->
                  IF \E k \in Expiring : store[k] = l THEN "expired" ELSE fate[l]]
    /\ left' = [l \in Launches |-> Dec(left[l])]
    /\ UNCHANGED <<backend, stage, keyOf, seen, phase, validated, started>>

-----------------------------------------------------------------------------
(* The end of the process.                                                 *)

\* Stop, first step: the listener is told to end.
StopListener ==
    /\ MayStop
    /\ phase = "up"
    /\ phase' = "stopping"
    /\ UNCHANGED <<backend, store, ttl, wire, history>>

\* A mistake to catch: Stop does not wait for the listener to return.
CloseQueue_NoListenerWait ==
    /\ phase = "stopping"
    /\ At({"armed", "ready"}) = {}
    /\ phase' = "closing"
    /\ UNCHANGED <<backend, store, ttl, wire, history>>

\* Stop, second step: the listener has returned and every timer goroutine
\* has handed over its task or given up; the queue is closed.
CloseQueue ==
    /\ phase = "stopping"
    /\ At({"received", "armed", "ready"}) = {}
    /\ phase' = "closing"
    /\ UNCHANGED <<backend, store, ttl, wire, history>>

\* What is left of a launch once the process is gone.
Gone(s) == IF s \in {"received", "armed", "ready", "running"} THEN "dropped" ELSE s

\* The memory of the process is gone; redis and what is in it stays.  A
\* launcher between the two halves of Launch may belong to this process or,
\* on redis, to another one.
Exit ==
    /\ phase' = "down"
    /\ \E lost \in SUBSET At({"stored"}) :
          /\ ~Persistent => lost = At({"stored"})
          /\ stage' = [l \in Launches |->
                         IF l \in lost THEN "dropped" ELSE Gone(stage[l])]
    /\ IF Persistent
       THEN UNCHANGED <<store, ttl, fate>>
       ELSE /\ store' = [k \in Keys |-> None]
            /\ ttl' = [k \in Keys |-> 0]
            /\ fate' = [l \in Launches |->
                          IF \E k \in Keys : store[k] = l THEN "lost" ELSE fate[l]]
    /\ UNCHANGED <<backend, keyOf, seen, left, validated, started>>

\* Stop, last step: the workers have returned and the process ends.
StopDone ==
    /\ phase = "closing"
    /\ At({"running"}) = {}
    /\ Exit

\* The process is killed.
Crash ==
    /\ MayStop
    /\ phase # "down"
    /\ Exit

\* TaskManager.Start in a new process.
Restart ==
    /\ phase = "down"
    /\ phase' = "up"
    /\ UNCHANGED <<backend, store, ttl, wire, history>>

-----------------------------------------------------------------------------

EventStep(l) ==
    \/ LaunchPush(l) \/ LaunchPanic(l) \/ Receive(l)
    \/ OnTaskGone(l) \/ OnTaskUnregistered(l) \/ OnTaskArm(l)
    \/ FireStale(l) \/ FireValid(l)
    \/ Start(l) \/ Finish(l)

Next ==
    \/ \E l \in Launches, k \in Keys : LaunchStore(l, k)
    \/ \E l \in Launches : EventStep(l)
    \/ \E k \in Cancelable : Cancel(k)
    \/ Tick
    \/ StopListener \/ CloseQueue \/ StopDone \/ Crash \/ Restart

Spec == Init /\ [][Next]_vars

\* Goroutines that can run do run, handlers return and time passes; nobody
\* has to launch or cancel anything, and no process has to stop or restart.
Fairness ==
    /\ \A l \in Launches : WF_vars(EventStep(l))
    /\ WF_vars(Tick)
    /\ WF_vars(CloseQueue) /\ WF_vars(StopDone)

FairSpec == Spec /\ Fairness

-----------------------------------------------------------------------------
(* Properties.                                                             *)

\* The delay of a task is the time its user has to change their mind: when
\* a timer hands a payload over (tasks.go:147-153) at least the delay has
\* passed since that very payload was launched, however many launches and
\* cancellations of the key came before it.
DelayRespected ==
    [][\A l \in Launches :
          stage[l] = "armed" /\ stage'[l] = "ready"
             => TTL - ttl[keyOf[l]] >= Delay[keyOf[l]]]_vars

\* A cancellation that comes before a timer accepted the payload is final:
\* no handler is, or will be, called with that payload, not even after the
\* key was launched again (the ID check of tasks.go:147).
UndoIsFinal ==
    \A l \in At({"ready", "running", "done"}) : fate[seen[l]] # "canceled"

\* When goroutines are scheduled within a tick and the process stays up, a
\* payload expires only after its timer has accepted it (tasks.go:237
\* against tasks.go:133): no launch is lost to the time limit before its
\* delay is over.
TimerBeatsExpiry ==
    Prompt /\ ~MayStop =>
       \A l \in Launches : fate[l] = "expired" => l \in validated

\* Stop closes the queue only when nothing can be sent to it any more: no
\* timer is armed or blocked, and no event is left in the listener that
\* could arm one (tasks.go:204-214).
NoSendOnClosedQueue ==
    phase = "closing" => At({"received", "armed", "ready"}) = {}

\* The task manager keeps the promise TaskContract states: a handler is
\* called only with payloads that were current when their delay was over.
Contract == INSTANCE TaskContract WITH
    current  <- store,
    used     <- {l \in Launches : stage[l] # "idle"},
    accepted <- validated,
    begun    <- started

ContractSpec == Contract!Spec

\* Every launch comes to an end: its event is handled, and its timer either
\* gives up or gets a worker that runs the handler.
EventSettles ==
    \A l \in Launches : stage[l] = "stored" ~> stage[l] \in {"done", "dropped"}

\* A launch is run unless a user canceled it, a later launch of the key took
\* its place, or the end of another run of the key removed its payload.
LaunchTakesEffect ==
    \A l \in Launches :
       stage[l] = "stored" /\ keyOf[l] \in Registered
          ~> \/ l \in started
             \/ fate[l] \in {"superseded", "canceled", "canceledLate", "wiped"}

=============================================================================
