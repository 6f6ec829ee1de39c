---------------------------- MODULE SuperbusProofs ----------------------------
(***************************************************************************)
(* What TLC checks of pkg/superbus on small instances, proved: of the task *)
(* manager for any launches, keys, delays, workers and either backend, and *)
(* of the in-memory store for any keys, writes and timers.                 *)
(***************************************************************************)
EXTENDS TaskManager, TLAPS

\* The definitions of the steps that follow one event.
USE DEF At

LEMMA TypeInit == Init => TypeOK
  BY TaskAssumption DEF Init, TypeOK, Stages, Phases, Fates

LEMMA TypeStep == TypeOK /\ [Next]_vars => TypeOK'
<1> SUFFICES ASSUME TypeOK, [Next]_vars PROVE TypeOK'
  OBVIOUS
<1> USE TaskAssumption DEF TypeOK, Stages, Phases, Fates
<1>1. ASSUME NEW l \in Launches, NEW k \in Keys, LaunchStore(l, k) PROVE TypeOK'
  BY <1>1 DEF LaunchStore, Leaves
<1>2. ASSUME NEW l \in Launches, LaunchPush(l) \/ LaunchPanic(l) \/ Receive(l)
      PROVE  TypeOK'
  BY <1>2 DEF LaunchPush, LaunchPanic, Receive, history
<1>3. ASSUME NEW l \in Launches, OnTaskGone(l) \/ OnTaskArm(l) PROVE TypeOK'
  BY <1>3 DEF OnTaskGone, OnTaskArm, history
<1>4. ASSUME NEW l \in Launches, OnTaskUnregistered(l) PROVE TypeOK'
  BY <1>4 DEF OnTaskUnregistered, Del, Leaves
<1>5. ASSUME NEW l \in Launches, FireStale(l) \/ FireValid(l) PROVE TypeOK'
  BY <1>5 DEF FireStale, FireValid, history
<1>6. ASSUME NEW l \in Launches, Start(l) PROVE TypeOK'
  BY <1>6 DEF Start
<1>7. ASSUME NEW l \in Launches, Finish(l) PROVE TypeOK'
  BY <1>7 DEF Finish, Del, Leaves
<1>8. ASSUME NEW k \in Keys, Cancel(k) PROVE TypeOK'
  BY <1>8 DEF Cancel, Del, Leaves, wire
<1>9. CASE Tick
  BY <1>9 DEF Tick, Dec
<1>10. CASE StopListener \/ CloseQueue \/ Restart
  BY <1>10 DEF StopListener, CloseQueue, Restart, wire, history
<1>11. CASE StopDone \/ Crash
  BY <1>11 DEF StopDone, Crash, Exit, Gone
<1>12. CASE UNCHANGED vars
  BY <1>12 DEF vars
<1> QED
  BY <1>1, <1>2, <1>3, <1>4, <1>5, <1>6, <1>7, <1>8, <1>9, <1>10, <1>11, <1>12
  DEF Next, EventStep

\* The variables stay in their ranges, and the fields of a launch are set in
\* the stages that read them.
THEOREM TypeCorrect == Spec => []TypeOK
  BY TypeInit, TypeStep, PTL DEF Spec

-----------------------------------------------------------------------------
(* Payloads.  A payload is stored once: under the key of its launch, and   *)
(* live while it is there.  What a timer saw was launched, and what was    *)
(* handed over was accepted before any cancellation.                       *)

StoredIsLive ==
    \A k \in Keys : store[k] # None =>
       /\ keyOf[store[k]] = k
       /\ stage[store[k]] # "idle"
       /\ fate[store[k]] = "live"

SeenWasLaunched ==
    \A l \in Launches :
       stage[l] \in {"armed", "ready", "running", "done"} => stage[seen[l]] # "idle"

HandedOverWasValidated ==
    \A l \in Launches :
       stage[l] \in {"ready", "running", "done"} => seen[l] \in validated

ValidatedWasLaunched == \A p \in validated : stage[p] # "idle"

ValidatedIsNotCanceled == \A p \in validated : fate[p] # "canceled"

PayloadInv ==
    /\ TypeOK
    /\ StoredIsLive
    /\ SeenWasLaunched
    /\ HandedOverWasValidated
    /\ ValidatedWasLaunched
    /\ ValidatedIsNotCanceled

LEMMA PayloadInductive == PayloadInv /\ [Next]_vars => PayloadInv'
<1> SUFFICES ASSUME PayloadInv, [Next]_vars, TypeOK' PROVE PayloadInv'
  BY TypeStep DEF PayloadInv
<1> USE TaskAssumption DEF PayloadInv, TypeOK, StoredIsLive, SeenWasLaunched,
        HandedOverWasValidated, ValidatedWasLaunched, ValidatedIsNotCanceled
<1>1. ASSUME NEW l \in Launches, NEW k \in Keys, LaunchStore(l, k) PROVE PayloadInv'
  BY <1>1 DEF LaunchStore, Leaves
<1>2. ASSUME NEW l \in Launches, LaunchPush(l) \/ LaunchPanic(l) \/ Receive(l)
      PROVE  PayloadInv'
  BY <1>2 DEF LaunchPush, LaunchPanic, Receive, history
<1>3. ASSUME NEW l \in Launches, OnTaskGone(l) \/ OnTaskArm(l) PROVE PayloadInv'
  BY <1>3 DEF OnTaskGone, OnTaskArm, history
<1>4. ASSUME NEW l \in Launches, OnTaskUnregistered(l) PROVE PayloadInv'
  BY <1>4 DEF OnTaskUnregistered, Del, Leaves
<1>5. ASSUME NEW l \in Launches, FireStale(l) \/ FireValid(l) PROVE PayloadInv'
  BY <1>5 DEF FireStale, FireValid, history
<1>6. ASSUME NEW l \in Launches, Start(l) PROVE PayloadInv'
  BY <1>6 DEF Start
<1>7. ASSUME NEW l \in Launches, Finish(l) PROVE PayloadInv'
  BY <1>7 DEF Finish, Del, Leaves
<1>8. ASSUME NEW k \in Keys, Cancel(k) PROVE PayloadInv'
  BY <1>8 DEF Cancel, Del, Leaves, wire
<1>9. CASE Tick
  BY <1>9 DEF Tick, Dec, Expiring
<1>10. CASE StopListener \/ CloseQueue \/ Restart
  BY <1>10 DEF StopListener, CloseQueue, Restart, wire, history
<1>11. CASE StopDone \/ Crash
  BY <1>11 DEF StopDone, Crash, Exit, Gone
<1>12. CASE UNCHANGED vars
  BY <1>12 DEF vars
<1> QED
  BY <1>1, <1>2, <1>3, <1>4, <1>5, <1>6, <1>7, <1>8, <1>9, <1>10, <1>11, <1>12
  DEF Next, EventStep

LEMMA PayloadInvariant == Spec => []PayloadInv
<1>1. Init => PayloadInv
  BY TypeInit, TaskAssumption DEF Init, PayloadInv, StoredIsLive, SeenWasLaunched,
     HandedOverWasValidated, ValidatedWasLaunched, ValidatedIsNotCanceled
<1> QED
  BY <1>1, PayloadInductive, PTL DEF Spec

\* A payload canceled before a timer accepted it never reaches a worker
\* (tasks.go:136-150), for any number of launches and cancellations.
THEOREM UndoSafe == Spec => []UndoIsFinal
<1>1. PayloadInv => UndoIsFinal
  BY DEF PayloadInv, UndoIsFinal, HandedOverWasValidated, ValidatedIsNotCanceled
<1> QED
  BY <1>1, PayloadInvariant, PTL

\* What Stop relies on: once the queue is closed, or the process gone, no launch
\* is anywhere between the listener and a worker.
QueueInv == phase \in {"closing", "down"} => At({"received", "armed", "ready"}) = {}

LEMMA QueueInductive == TypeOK /\ QueueInv /\ [Next]_vars => QueueInv'
<1> SUFFICES ASSUME TypeOK, QueueInv, [Next]_vars PROVE QueueInv'
  OBVIOUS
<1> USE DEF TypeOK, QueueInv
<1>1. ASSUME NEW l \in Launches, NEW k \in Keys, LaunchStore(l, k) PROVE QueueInv'
  BY <1>1 DEF LaunchStore
<1>2. ASSUME NEW l \in Launches, EventStep(l) PROVE QueueInv'
  BY <1>2 DEF EventStep, LaunchPush, LaunchPanic, Receive, OnTaskGone, OnTaskUnregistered,
     OnTaskArm, FireStale, FireValid, Start, Finish
<1>3. ASSUME NEW k \in Keys, Cancel(k) PROVE QueueInv'
  BY <1>3 DEF Cancel, wire
<1>4. CASE Tick
  BY <1>4 DEF Tick
<1>5. CASE StopListener \/ CloseQueue \/ Restart
  BY <1>5 DEF StopListener, CloseQueue, Restart, wire
<1>6. CASE StopDone \/ Crash
  BY <1>6 DEF StopDone, Crash, Exit, Gone
<1>7. CASE UNCHANGED vars
  BY <1>7 DEF vars
<1> QED
  BY <1>1, <1>2, <1>3, <1>4, <1>5, <1>6, <1>7, TaskAssumption DEF Next

\* The order in which Stop ends the listener, waits for the timers and closes
\* the queue (tasks.go:204-214) leaves nobody who could send to a closed queue,
\* whatever is launched or killed meanwhile.
THEOREM QueueSafe == Spec => []NoSendOnClosedQueue
<1>1. Init => QueueInv
  BY DEF Init, QueueInv
<1>2. QueueInv => NoSendOnClosedQueue
  BY DEF QueueInv, NoSendOnClosedQueue
<1> QED
  BY <1>1, <1>2, QueueInductive, TypeCorrect, PTL DEF Spec

\* Between Launch, the two reads of onTask, Cancel and the deferred delete,
\* only payloads that are current when their delay is over reach a handler.
THEOREM KeepsContract == Spec => ContractSpec
<1>1. Init => Contract!Init
  BY DEF Init, Contract!Init
<1>2. PayloadInv /\ [Next]_vars => [Contract!Next]_(Contract!vars)
  <2> SUFFICES ASSUME PayloadInv, [Next]_vars PROVE [Contract!Next]_(Contract!vars)
    OBVIOUS
  <2> USE TaskAssumption DEF PayloadInv, TypeOK, Contract!Next, Contract!vars
  <2>1. ASSUME NEW l \in Launches, NEW k \in Keys, LaunchStore(l, k)
        PROVE  Contract!Submit(l, k)
    BY <2>1 DEF LaunchStore, Contract!Submit
  <2>2. ASSUME NEW l \in Launches, LaunchPush(l) \/ LaunchPanic(l) \/ Receive(l)
        PROVE  UNCHANGED Contract!vars
    BY <2>2 DEF LaunchPush, LaunchPanic, Receive, history
  <2>3. ASSUME NEW l \in Launches, OnTaskGone(l) \/ OnTaskArm(l) \/ FireStale(l)
        PROVE  UNCHANGED Contract!vars
    BY <2>3 DEF OnTaskGone, OnTaskArm, FireStale, history
  <2>4. ASSUME NEW l \in Launches, OnTaskUnregistered(l)
        PROVE  Contract!Next
    <3>1. Contract!Withdraw({keyOf[l]})
      BY <2>4 DEF OnTaskUnregistered, Del, Contract!Withdraw
    <3> QED
      BY <3>1, <2>4 DEF OnTaskUnregistered
  <2>5. ASSUME NEW l \in Launches, FireValid(l) PROVE Contract!Next
    <3>1. Contract!Accept(seen[l])
      BY <2>5 DEF FireValid, Contract!Accept
    <3> QED
      BY <3>1, <2>5 DEF FireValid
  <2>6. ASSUME NEW l \in Launches, Start(l) PROVE Contract!Next
    <3>1. Contract!Begin(seen[l])
      BY <2>6 DEF Start, Contract!Begin, HandedOverWasValidated
    <3> QED
      BY <3>1, <2>6 DEF Start
  <2>7. ASSUME NEW l \in Launches, Finish(l) PROVE Contract!Next
    <3>1. Contract!Withdraw({keyOf[l]})
      BY <2>7 DEF Finish, Del, Contract!Withdraw
    <3> QED
      BY <3>1, <2>7 DEF Finish
  <2>8. ASSUME NEW k \in Keys, Cancel(k) PROVE Contract!Withdraw({k})
    BY <2>8 DEF Cancel, Del, wire, Contract!Withdraw
  <2>9. CASE Tick
    <3>1. Contract!Withdraw(Expiring)
      BY <2>9 DEF Tick, Contract!Withdraw
    <3> QED
      BY <3>1 DEF Expiring
  <2>10. CASE StopListener \/ CloseQueue \/ Restart
    BY <2>10 DEF StopListener, CloseQueue, Restart, wire, history
  <2>11. CASE StopDone \/ Crash
    <3>1. Contract!Withdraw(Keys) \/ UNCHANGED Contract!vars
      BY <2>11 DEF StopDone, Crash, Exit, Gone, Contract!Withdraw
    <3> QED
      BY <3>1
  <2>12. ASSUME UNCHANGED vars PROVE UNCHANGED Contract!vars
    BY <2>12 DEF vars
  <2> HIDE DEF PayloadInv, TypeOK
  <2> QED
    BY <2>1, <2>2, <2>3, <2>4, <2>5, <2>6, <2>7, <2>8, <2>9, <2>10, <2>11, <2>12
    DEF Next, EventStep
<1> QED
  BY <1>1, <1>2, PayloadInvariant, PTL DEF Spec, ContractSpec, Contract!Spec

-----------------------------------------------------------------------------
(* Delays.  While the payload a timer saw is stored, the time the payload  *)
(* has lived and the time the timer still waits add up to the delay.       *)

TimerInv ==
    \A l \in Launches :
       stage[l] = "armed" /\ store[keyOf[l]] = seen[l]
          => ttl[keyOf[l]] + Delay[keyOf[l]] <= TTL + left[l]

LEMMA TimerInductive == PayloadInv /\ TimerInv /\ [Next]_vars => TimerInv'
<1> SUFFICES ASSUME PayloadInv, TimerInv, [Next]_vars PROVE TimerInv'
  OBVIOUS
<1> USE TaskAssumption DEF PayloadInv, TypeOK, StoredIsLive, SeenWasLaunched, TimerInv
<1>1. ASSUME NEW l \in Launches, NEW k \in Keys, LaunchStore(l, k) PROVE TimerInv'
  BY <1>1 DEF LaunchStore, Leaves
<1>2. ASSUME NEW l \in Launches, LaunchPush(l) \/ LaunchPanic(l) \/ Receive(l)
      PROVE  TimerInv'
  BY <1>2 DEF LaunchPush, LaunchPanic, Receive, history
<1>3. ASSUME NEW l \in Launches, OnTaskGone(l) \/ OnTaskArm(l) PROVE TimerInv'
  BY <1>3 DEF OnTaskGone, OnTaskArm, history
<1>4. ASSUME NEW l \in Launches, OnTaskUnregistered(l) PROVE TimerInv'
  BY <1>4 DEF OnTaskUnregistered, Del, Leaves
<1>5. ASSUME NEW l \in Launches, FireStale(l) \/ FireValid(l) PROVE TimerInv'
  BY <1>5 DEF FireStale, FireValid, history
<1>6. ASSUME NEW l \in Launches, Start(l) PROVE TimerInv'
  BY <1>6 DEF Start
<1>7. ASSUME NEW l \in Launches, Finish(l) PROVE TimerInv'
  BY <1>7 DEF Finish, Del, Leaves
<1>8. ASSUME NEW k \in Keys, Cancel(k) PROVE TimerInv'
  BY <1>8 DEF Cancel, Del, Leaves, wire
<1>9. CASE Tick
  BY <1>9 DEF Tick, Dec, Expiring
<1>10. CASE StopListener \/ CloseQueue \/ Restart
  BY <1>10 DEF StopListener, CloseQueue, Restart, wire, history
<1>11. CASE StopDone \/ Crash
  BY <1>11 DEF StopDone, Crash, Exit, Gone
<1>12. CASE UNCHANGED vars
  BY <1>12 DEF vars
<1> QED
  BY <1>1, <1>2, <1>3, <1>4, <1>5, <1>6, <1>7, <1>8, <1>9, <1>10, <1>11, <1>12
  DEF Next, EventStep

\* No timer hands a payload over before the delay of its task has passed
\* since its launch (tasks.go:133, 147): the time to undo is never shortened
\* by launches and cancellations that came before.
THEOREM DelaySafe == Spec => DelayRespected
<1>1. Init => TimerInv
  BY DEF Init, TimerInv
<1>2. PayloadInv /\ TimerInv /\ [Next]_vars =>
         [\A l \in Launches :
            stage[l] = "armed" /\ stage'[l] = "ready"
               => TTL - ttl[keyOf[l]] >= Delay[keyOf[l]]]_vars
  <2> SUFFICES ASSUME PayloadInv, TimerInv, Next, NEW l \in Launches,
                      stage[l] = "armed", stage'[l] = "ready"
               PROVE  TTL - ttl[keyOf[l]] >= Delay[keyOf[l]]
    OBVIOUS
  <2> USE TaskAssumption DEF PayloadInv, TypeOK
  <2>1. FireValid(l)
    <3>1. ASSUME NEW m \in Launches, EventStep(m) PROVE FireValid(l)
      BY <3>1 DEF EventStep, LaunchPush, LaunchPanic, Receive, OnTaskGone,
         OnTaskUnregistered, OnTaskArm, FireStale, FireValid, Start, Finish
    <3>2. \E m \in Launches : EventStep(m)
      BY DEF Next, LaunchStore, Cancel, Tick, StopListener, CloseQueue, Restart,
         StopDone, Crash, Exit, Gone, wire
    <3> QED
      BY <3>1, <3>2
  <2> QED
    BY <2>1 DEF FireValid, TimerInv
<1> QED
  BY <1>1, <1>2, TimerInductive, PayloadInvariant, PTL DEF Spec, DelayRespected

-----------------------------------------------------------------------------
(* Expiry.  When goroutines run within a tick and the process stays up, a  *)
(* stored payload is either on its way to the listener with all its time   *)
(* left, or its own timer runs ahead of it, or it was accepted.            *)

OnItsWay(l) ==
    /\ stage[l] \in {"stored", "pushed", "received"}
    /\ ttl[keyOf[l]] = TTL

TimerAhead(l) ==
    /\ stage[l] = "armed"
    /\ seen[l] = l
    /\ ttl[keyOf[l]] + Delay[keyOf[l]] = TTL + left[l]

PromptInv ==
    /\ phase = "up"
    /\ \A k \in Keys : store[k] # None =>
          OnItsWay(store[k]) \/ TimerAhead(store[k]) \/ store[k] \in validated
    /\ \A l \in Launches : fate[l] = "expired" => l \in validated

LEMMA PromptInductive ==
  Prompt /\ ~MayStop /\ PayloadInv /\ PromptInv /\ [Next]_vars => PromptInv'
<1> SUFFICES ASSUME Prompt, ~MayStop, PayloadInv, PromptInv, [Next]_vars
             PROVE  PromptInv'
  OBVIOUS
<1> USE TaskAssumption DEF PayloadInv, TypeOK, StoredIsLive, PromptInv, OnItsWay, TimerAhead
<1>1. ASSUME NEW l \in Launches, NEW k \in Keys, LaunchStore(l, k) PROVE PromptInv'
  BY <1>1 DEF LaunchStore, Leaves
<1>2. ASSUME NEW l \in Launches, LaunchPush(l) \/ LaunchPanic(l) \/ Receive(l)
      PROVE  PromptInv'
  BY <1>2 DEF LaunchPush, LaunchPanic, Receive, history
<1>3. ASSUME NEW l \in Launches, OnTaskGone(l) \/ OnTaskArm(l) PROVE PromptInv'
  BY <1>3 DEF OnTaskGone, OnTaskArm, history
<1>4. ASSUME NEW l \in Launches, OnTaskUnregistered(l) PROVE PromptInv'
  BY <1>4 DEF OnTaskUnregistered, Del, Leaves
<1>5. ASSUME NEW l \in Launches, FireStale(l) \/ FireValid(l) PROVE PromptInv'
  BY <1>5 DEF FireStale, FireValid, history
<1>6. ASSUME NEW l \in Launches, Start(l) PROVE PromptInv'
  BY <1>6 DEF Start
<1>7. ASSUME NEW l \in Launches, Finish(l) PROVE PromptInv'
  BY <1>7 DEF Finish, Del, Leaves
<1>8. ASSUME NEW k \in Keys, Cancel(k) PROVE PromptInv'
  BY <1>8 DEF Cancel, Del, Leaves, wire
<1>9. CASE Tick
  <2>1. ASSUME NEW k \in Keys, store[k] # None
        PROVE  /\ ~OnItsWay(store[k])
               /\ TimerAhead(store[k]) => left[store[k]] > 0
    BY <2>1, <1>9 DEF Tick, Due
  <2>2. ASSUME NEW k \in Expiring PROVE store[k] \in validated
    BY <2>1, <2>2 DEF Expiring
  <2>3. ASSUME NEW k \in Keys, store'[k] # None
        PROVE  TimerAhead(store[k])' \/ store'[k] \in validated'
    <3>1. store'[k] = store[k] /\ k \notin Expiring
      BY <1>9, <2>3 DEF Tick
    <3>2. CASE TimerAhead(store[k])
      <4>1. left[store[k]] > 0 /\ ttl[k] > 1
        BY <2>1, <3>1, <3>2, <2>3 DEF Expiring
      <4>2. ttl'[k] = ttl[k] - 1 /\ left'[store[k]] = left[store[k]] - 1
        BY <1>9, <4>1, <2>3, <3>1 DEF Tick, Dec
      <4>3. UNCHANGED <<stage, seen, keyOf>> /\ keyOf[store[k]] = k
        BY <1>9, <2>3, <3>1 DEF Tick
      <4>4. ttl[k] + Delay[k] = TTL + left[store[k]]
        BY <3>2, <4>3
      <4>5. ttl[k] \in Nat /\ Delay[k] \in Nat /\ left[store[k]] \in Nat
        BY <2>3, <3>1
      <4>6. (ttl[k] - 1) + Delay[k] = TTL + (left[store[k]] - 1)
        BY <4>1, <4>4, <4>5
      <4> QED
        BY <3>1, <3>2, <4>2, <4>3, <4>6
    <3> QED
      BY <2>1, <2>3, <3>1, <3>2, <1>9 DEF Tick
  <2>4. ASSUME NEW l \in Launches, fate'[l] = "expired" PROVE l \in validated'
    BY <2>2, <2>4, <1>9 DEF Tick
  <2> QED
    BY <2>3, <2>4, <1>9 DEF Tick
<1>10. CASE StopListener \/ CloseQueue \/ Restart
  BY <1>10 DEF StopListener, CloseQueue, Restart, wire, history
<1>11. CASE StopDone \/ Crash
  BY <1>11 DEF StopDone, Crash, Exit, Gone
<1>12. CASE UNCHANGED vars
  BY <1>12 DEF vars
<1> QED
  BY <1>1, <1>2, <1>3, <1>4, <1>5, <1>6, <1>7, <1>8, <1>9, <1>10, <1>11, <1>12
  DEF Next, EventStep

\* A launch never runs out of time before its delay is over: the 30 seconds
\* a payload lives (tasks.go:237) cover every delay below them.
THEOREM ExpirySafe == Spec => []TimerBeatsExpiry
<1>1. CASE Prompt /\ ~MayStop
  <2>1. Init => PromptInv
    BY <1>1 DEF Init, PromptInv
  <2>2. PromptInv => TimerBeatsExpiry
    BY DEF PromptInv, TimerBeatsExpiry
  <2>3. PayloadInv /\ PromptInv /\ [Next]_vars => PromptInv'
    BY <1>1, PromptInductive
  <2> QED
    BY <2>1, <2>2, <2>3, PayloadInvariant, PTL DEF Spec
<1>2. CASE ~(Prompt /\ ~MayStop)
  <2>1. TimerBeatsExpiry
    BY <1>2 DEF TimerBeatsExpiry
  <2> QED
    BY <2>1, PTL
<1> QED
  BY <1>1, <1>2

-----------------------------------------------------------------------------
(* The in-memory store, of which the task manager only knows that a value  *)
(* is gone when its time is over.                                          *)

CONSTANTS Writes, Timers, MayClear
VARIABLES data, timers, owner, armed, blocked, cause, lifetime

Memory == INSTANCE MemStore

StoreInv == Memory!StoreAssumption /\ Memory!TypeOK /\ Memory!ExpiringIsWatched

LEMMA StoreTypeStep ==
    Memory!StoreAssumption /\ Memory!TypeOK /\ [Memory!Next]_(Memory!vars) => Memory!TypeOK'
<1> SUFFICES ASSUME Memory!StoreAssumption, Memory!TypeOK, [Memory!Next]_(Memory!vars)
             PROVE  Memory!TypeOK'
  OBVIOUS
<1> USE DEF Memory!StoreAssumption, Memory!TypeOK, Memory!Lifetimes
<1>1. ASSUME NEW k \in Keys, NEW w \in Writes, Memory!SetForever(k, w) PROVE Memory!TypeOK'
  BY <1>1 DEF Memory!SetForever, Memory!Store
<1>2. ASSUME NEW k \in Keys, NEW w \in Writes, Memory!SetPast(k, w) PROVE Memory!TypeOK'
  BY <1>2 DEF Memory!SetPast, Memory!Store
<1>3. ASSUME NEW k \in Keys, NEW w \in Writes, Memory!SetReset(k, w) PROVE Memory!TypeOK'
  BY <1>3 DEF Memory!SetReset, Memory!Store
<1>4. ASSUME NEW k \in Keys, NEW w \in Writes, NEW t \in Timers, Memory!SetArm(k, w, t)
      PROVE  Memory!TypeOK'
  BY <1>4 DEF Memory!SetArm, Memory!Store
<1>5. ASSUME NEW k \in Keys, Memory!Del(k) PROVE Memory!TypeOK'
  BY <1>5 DEF Memory!Del
<1>6. CASE Memory!Clear
  BY <1>6 DEF Memory!Clear
<1>7. ASSUME NEW t \in Timers, Memory!Fire(t) PROVE Memory!TypeOK'
  BY <1>7 DEF Memory!Fire
<1>8. ASSUME NEW t \in Timers, NEW w \in Writes, Memory!Expire(t, w) PROVE Memory!TypeOK'
  BY <1>8 DEF Memory!Expire
<1>9. CASE UNCHANGED Memory!vars
  BY <1>9 DEF Memory!vars
<1> QED
  BY <1>1, <1>2, <1>3, <1>4, <1>5, <1>6, <1>7, <1>8, <1>9 DEF Memory!Next

\* The keys a step does not touch stay watched.
LEMMA OthersStayWatched ==
  ASSUME Memory!StoreAssumption, Memory!TypeOK,
         NEW j \in Keys, NEW k \in Keys, j # k, NEW t \in Timers,
         Memory!Watches(t, j), owner' = owner, blocked' = blocked,
         armed' = armed \ {timers[k]} \/ armed' = armed \cup {timers[k]}
  PROVE  Memory!Watches(t, j)'
<1>1. t # timers[k]
  BY DEF Memory!StoreAssumption, Memory!TypeOK, Memory!Watches
<1> QED
  BY <1>1 DEF Memory!Watches

LEMMA WatchedStep == StoreInv /\ [Memory!Next]_(Memory!vars) => Memory!ExpiringIsWatched'
<1> SUFFICES ASSUME StoreInv, [Memory!Next]_(Memory!vars), NEW j \in Keys,
                    data'[j] # None, lifetime'[data'[j]] = "positive"
             PROVE  \E t \in Timers : Memory!Watches(t, j)'
  BY DEF Memory!ExpiringIsWatched
<1> USE DEF Memory!StoreAssumption, StoreInv
<1>1. ASSUME data'[j] = data[j], lifetime[data[j]] = "positive"
      PROVE  \E t \in Timers : Memory!Watches(t, j)
  BY <1>1 DEF Memory!ExpiringIsWatched
<1>2. ASSUME NEW k \in Keys, NEW w \in Writes, Memory!SetForever(k, w)
      PROVE  \E t \in Timers : Memory!Watches(t, j)'
  <2>1. j # k /\ data'[j] = data[j] /\ lifetime[data[j]] = "positive"
    BY <1>2 DEF Memory!SetForever, Memory!Store, Memory!TypeOK
  <2> QED
    BY <1>1, <1>2, <2>1, OthersStayWatched DEF Memory!SetForever
<1>3. ASSUME NEW k \in Keys, NEW w \in Writes, Memory!SetPast(k, w)
      PROVE  \E t \in Timers : Memory!Watches(t, j)'
  <2>1. data'[j] = data[j] /\ lifetime[data[j]] = "positive"
    BY <1>3 DEF Memory!SetPast, Memory!Store, Memory!TypeOK
  <2> QED
    BY <1>1, <1>3, <2>1 DEF Memory!SetPast, Memory!Watches
<1>4. ASSUME NEW k \in Keys, NEW w \in Writes, Memory!SetReset(k, w)
      PROVE  \E t \in Timers : Memory!Watches(t, j)'
  <2>1. CASE j = k
    <3>1. timers[k] \in Timers /\ owner[timers[k]] = k
      BY <1>4 DEF Memory!SetReset, Memory!TypeOK
    <3> QED
      BY <1>4, <2>1, <3>1 DEF Memory!SetReset, Memory!Watches
  <2>2. CASE j # k
    <3>1. data'[j] = data[j] /\ lifetime[data[j]] = "positive"
      BY <1>4, <2>2 DEF Memory!SetReset, Memory!Store, Memory!TypeOK
    <3> QED
      BY <1>1, <1>4, <2>2, <3>1, OthersStayWatched DEF Memory!SetReset
  <2> QED
    BY <2>1, <2>2
<1>5. ASSUME NEW k \in Keys, NEW w \in Writes, NEW s \in Timers, Memory!SetArm(k, w, s)
      PROVE  \E t \in Timers : Memory!Watches(t, j)'
  <2>1. CASE j = k
    BY <1>5, <2>1 DEF Memory!SetArm, Memory!Watches, Memory!TypeOK
  <2>2. CASE j # k
    <3>1. data'[j] = data[j] /\ lifetime[data[j]] = "positive"
      BY <1>5, <2>2 DEF Memory!SetArm, Memory!Store, Memory!TypeOK
    <3>2. PICK t \in Timers : Memory!Watches(t, j)
      BY <1>1, <3>1
    <3>3. t # s
      BY <1>5, <3>2 DEF Memory!SetArm, Memory!Watches
    <3> QED
      BY <1>5, <3>2, <3>3 DEF Memory!SetArm, Memory!Watches, Memory!TypeOK
  <2> QED
    BY <2>1, <2>2
<1>6. ASSUME NEW k \in Keys, Memory!Del(k) PROVE \E t \in Timers : Memory!Watches(t, j)'
  <2>1. j # k /\ data'[j] = data[j] /\ lifetime[data[j]] = "positive"
    BY <1>6 DEF Memory!Del, Memory!TypeOK
  <2> QED
    BY <1>1, <1>6, <2>1, OthersStayWatched DEF Memory!Del
<1>7. CASE Memory!Clear
  BY <1>7 DEF Memory!Clear
<1>8. ASSUME NEW s \in Timers, Memory!Fire(s) PROVE \E t \in Timers : Memory!Watches(t, j)'
  <2>1. cause[s] \in Writes
    BY <1>8 DEF Memory!Fire, Memory!TypeOK
  <2> QED
    BY <1>1, <1>8, <2>1 DEF Memory!Fire, Memory!Watches
<1>9. ASSUME NEW s \in Timers, NEW u \in Writes, Memory!Expire(s, u)
      PROVE  \E t \in Timers : Memory!Watches(t, j)'
  <2>1. owner[s] # j /\ data'[j] = data[j] /\ lifetime[data[j]] = "positive"
    BY <1>9 DEF Memory!Expire, Memory!TypeOK
  <2> QED
    BY <1>1, <1>9, <2>1 DEF Memory!Expire, Memory!Watches
<1>10. CASE UNCHANGED Memory!vars
  BY <1>1, <1>10 DEF Memory!vars, Memory!Watches
<1> QED
  BY <1>2, <1>3, <1>4, <1>5, <1>6, <1>7, <1>8, <1>9, <1>10 DEF Memory!Next

\* Values, timers and the functions that wait for the lock keep their types,
\* and no two keys have one timer, however Set, Del and Clear and the timers
\* follow each other (store.go:94-141).
THEOREM StoreTypeCorrect ==
  ASSUME Memory!StoreAssumption
  PROVE  Memory!Spec => []Memory!TypeOK
<1>1. Memory!Init => Memory!TypeOK
  BY DEF Memory!StoreAssumption, Memory!Init, Memory!TypeOK, Memory!Lifetimes
<1>2. Memory!TypeOK /\ [Memory!Next]_(Memory!vars) => Memory!TypeOK'
  BY StoreTypeStep
<1> QED
  BY <1>1, <1>2, PTL DEF Memory!Spec

\* No value that was given an expiration is ever left without a timer that
\* will fire or a started function that will delete it (store.go:95-133),
\* through any sequence of Set, Del and Clear and any races of the timers.
THEOREM StoreSafe ==
  ASSUME Memory!StoreAssumption
  PROVE  Memory!Spec => []Memory!ExpiringIsWatched
<1>1. Memory!Init => StoreInv
  BY DEF Memory!StoreAssumption, Memory!Init, StoreInv, Memory!TypeOK,
     Memory!ExpiringIsWatched, Memory!Lifetimes
<1>2. StoreInv /\ [Memory!Next]_(Memory!vars) => StoreInv'
  BY StoreTypeStep, WatchedStep DEF StoreInv
<1>3. StoreInv => Memory!ExpiringIsWatched
  BY DEF StoreInv
<1> QED
  BY <1>1, <1>2, <1>3, PTL DEF Memory!Spec

=============================================================================
