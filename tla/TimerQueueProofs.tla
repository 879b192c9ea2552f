--------------------------- MODULE TimerQueueProofs ---------------------------
(* Theorems about TimerQueue, for any timers, clients and ring size.       *)
EXTENDS TimerQueue, FiniteSetTheorems, WellFoundedInduction, TLAPS

(* The inductive invariant.  What keeps Disarm() honest is that the        *)
(* in-callback states belong to the dispatch thread alone: an item is in   *)
(* one of them exactly while it is the item in hand, so no other thread's  *)
(* compare-exchange from kIdle can succeed meanwhile, and the store that   *)
(* ends the callback can overwrite nothing but an in-callback state.       *)
InHandInv ==
  /\ current # NoTimer <=> dispatch \in {"callback", "rearm", "retire"}
  /\ \A t \in Timers : state[t] \in InCallbackStates <=> t = current
  /\ dispatch = "rearm" => state[current] = "InCallback"

(* An item any place of the queue refers to has been constructed.          *)
ConstructedInv ==
  /\ \A p \in Threads : call[p] # "none" => arg[p] \in Timers /\ state[arg[p]] # "none"
  /\ \A i \in 0..RingSize-1 : buffer[i] \in Timers => state[buffer[i]] # "none"
  /\ \A t \in Timers : t \in taken \cup waitQueue \cup rescheduled => state[t] # "none"

DisarmedInv == \A t \in disarmed : state[t] = "Disarmed"

IInv == TypeOK /\ InHandInv /\ ConstructedInv /\ DisarmedInv

USE RingSizeAssumption, ThreadsAssumption, NoTimerAssumption, TimesAssumption

-----------------------------------------------------------------------------

(* A due time clamped at queueing is late by at most one interval.         *)
LEMMA ClampedDueLate ==
  ASSUME NEW d \in Int, NEW i \in 0..MaxLag
  PROVE  ClampedDue(d, i) \in Lateness
  BY DEF ClampedDue, Larger, Lateness

LEMMA SlotInRing ==
  ASSUME NEW s \in Nat
  PROVE  Slot(s) \in 0..RingSize-1
  BY DEF Slot

LEMMA InitInv == Init => IInv
  <1> SUFFICES ASSUME Init PROVE IInv
    OBVIOUS
  <1>1. TypeOK
    <2>1. 0 - MaxLag \in Lateness /\ 0 \in 0..MaxLag
      BY DEF Lateness
    <2>2. \A i \in 0..RingSize-1 : i - RingSize \in Int
      OBVIOUS
    <2>3. consumed \in Int /\ nextSequence \in Nat /\ nextClaimable \in Nat
      BY DEF Init
    <2> QED
      BY <2>1, <2>2, <2>3 DEF Init, TypeOK
  <1>2. InHandInv /\ ConstructedInv /\ DisarmedInv
    BY DEF Init, InHandInv, ConstructedInv, DisarmedInv, InCallbackStates
  <1> QED
    BY <1>1, <1>2 DEF IInv

-----------------------------------------------------------------------------
(* The calls.                                                              *)

LEMMA QueueTimerInv ==
  ASSUME IInv, stopRequested' \in BOOLEAN,
         NEW p \in Threads, NEW t \in Timers, NEW d \in Int, NEW i \in 0..MaxLag,
         NEW s \in {"Idle", "Disarmed"}, QueueTimer(p, t, d, i, s)
  PROVE  IInv'
  <1>0. ClampedDue(d, i) \in Lateness
    BY ClampedDueLate
  <1>1. TypeOK'
    BY <1>0 DEF IInv, TypeOK, QueueTimer, loop
  <1>2. InHandInv'
    BY DEF IInv, TypeOK, InHandInv, QueueTimer, loop, InCallbackStates
  <1>3. ConstructedInv'
    BY DEF IInv, TypeOK, ConstructedInv, QueueTimer, loop
  <1>4. DisarmedInv'
    BY DEF IInv, TypeOK, DisarmedInv, QueueTimer
  <1> QED
    BY <1>1, <1>2, <1>3, <1>4 DEF IInv

LEMMA CallInv ==
  ASSUME IInv, NEW p \in Threads, NEW t \in Timers, CallStep(p) \/ CallBegins(p, t)
  PROVE  IInv'
  <1>1. CASE Queue(p, t)
    <2>1. PICK d \in Delays, i \in Intervals : QueueTimer(p, t, d, i, "Idle")
      BY <1>1 DEF Queue
    <2>2. d \in Int /\ i \in 0..MaxLag /\ stopRequested' \in BOOLEAN
      BY <1>1 DEF Queue, IInv, TypeOK
    <2> QED
      BY <2>1, <2>2, QueueTimerInv
  <1>2. CASE Shutdown(p, t)
    <2>1. stopRequested' \in BOOLEAN /\ QueueTimer(p, t, 0, 0, "Disarmed") /\ 0 \in 0..MaxLag
      BY <1>2 DEF Shutdown
    <2> QED
      BY <2>1, QueueTimerInv
  <1>3. CASE SelfDisarm(p, t)
    <2>1. state[t] = "InCallback" /\ t = current /\ dispatch = "callback"
      BY <1>3 DEF SelfDisarm, MayCall, IInv, InHandInv, InCallbackStates
    <2> QED
      BY <1>3, <2>1 DEF SelfDisarm, IInv, TypeOK, InHandInv, ConstructedInv, DisarmedInv,
                        ring, loop, calls, InCallbackStates
  <1>4. CASE BeginDisarm(p, t)
    BY <1>4 DEF BeginDisarm, Returned, IInv, TypeOK, InHandInv, ConstructedInv, DisarmedInv,
                items, ring, loop
  <1>5. CASE WriteSlot(p)
    <2>1. Slot(sequence[p]) \in 0..RingSize-1 /\ arg[p] \in Timers /\ state[arg[p]] # "none"
      BY <1>5, SlotInRing DEF WriteSlot, IInv, TypeOK, ConstructedInv
    <2> QED
      BY <1>5, <2>1 DEF WriteSlot, IInv, TypeOK, InHandInv, ConstructedInv, DisarmedInv,
                        items, loop
  <1>6. CASE Publish(p)
    <2>1. Slot(sequence[p]) \in 0..RingSize-1
      BY SlotInRing DEF IInv, TypeOK
    <2> QED
      BY <1>6, <2>1 DEF Publish, IInv, TypeOK, InHandInv, ConstructedInv, DisarmedInv,
                        items, loop
  <1>7. CASE Disarm(p)
    <2>1. arg[p] \in Timers /\ state[arg[p]] \in {"Idle", "Disarmed"} /\ arg[p] # current
      BY <1>7 DEF Disarm, DisarmReturns, DisarmStates, IInv, InHandInv, ConstructedInv,
                  InCallbackStates
    <2> QED
      BY <1>7, <2>1 DEF Disarm, DisarmReturns, IInv, TypeOK, InHandInv, ConstructedInv,
                        DisarmedInv, ring, loop, InCallbackStates
  <1>8. CASE DisarmWait(p)
    BY <1>8 DEF DisarmWait, IInv, TypeOK, InHandInv, ConstructedInv, DisarmedInv,
                items, ring, loop
  <1> QED
    BY <1>1, <1>2, <1>3, <1>4, <1>5, <1>6, <1>7, <1>8 DEF CallStep, CallBegins

-----------------------------------------------------------------------------
(* The dispatch thread.                                                    *)

LEMMA NotifiedCalls ==
  ASSUME TypeOK, NEW t
  PROVE  /\ Notified(t) \in [Threads -> {"none", "claim", "publish", "disarm", "parked"}]
         /\ \A p \in Threads : Notified(t)[p] # "none" => call[p] # "none"
  BY DEF Notified, TypeOK

LEMMA TakePublishedInv ==
  ASSUME IInv, TakePublished
  PROVE  IInv'
  <1>1. /\ Available \subseteq Nat
        /\ Cardinality(Available) \in Nat
    <2>1. Available \subseteq nextSequence..(nextSequence + RingSize - 1)
      BY DEF Available
    <2>2. nextSequence \in Int /\ nextSequence + RingSize - 1 \in Int
      BY DEF IInv, TypeOK
    <2>3. IsFiniteSet(nextSequence..(nextSequence + RingSize - 1))
      BY <2>2, FS_Interval
    <2>4. IsFiniteSet(Available)
      BY <2>1, <2>3, FS_Subset
    <2> QED
      BY <2>1, <2>4, FS_CardinalityType DEF IInv, TypeOK
  <1>2. \A s \in Available : Slot(s) \in 0..RingSize-1
    BY <1>1, SlotInRing
  <1>3. TypeOK'
    BY <1>1, <1>2 DEF TakePublished, IInv, TypeOK, items, calls
  <1>4. InHandInv'
    BY DEF TakePublished, Idling, IInv, InHandInv, items, calls
  <1>5. ConstructedInv'
    BY <1>2 DEF TakePublished, IInv, TypeOK, ConstructedInv, items, calls
  <1>6. DisarmedInv'
    BY DEF TakePublished, IInv, DisarmedInv, items
  <1> QED
    BY <1>3, <1>4, <1>5, <1>6 DEF IInv

LEMMA DispatchInv ==
  ASSUME IInv, DispatchLoop
  PROVE  IInv'
  <1>1. CASE LoopTop
    BY <1>1 DEF LoopTop, Idling, IInv, TypeOK, InHandInv, ConstructedInv, DisarmedInv,
                items, ring, calls
  <1>2. CASE TakePublished
    BY <1>2, TakePublishedInv
  <1>3. CASE Consume
    BY <1>3 DEF Consume, Idling, IInv, TypeOK, InHandInv, ConstructedInv, DisarmedInv,
                items, calls
  <1>4. CASE WaitTimeout
    BY <1>4 DEF WaitTimeout, Idling, IInv, TypeOK, InHandInv, ConstructedInv, DisarmedInv,
                items, ring, calls
  <1>5. ASSUME NEW t \in Timers, Fire(t)
        PROVE  IInv'
    <2>1. CASE state[t] = "Idle"
      BY <1>5, <2>1 DEF Fire, Idling, IInv, TypeOK, InHandInv, ConstructedInv, DisarmedInv,
                        ring, calls, InCallbackStates
    <2>2. CASE state[t] # "Idle"
      BY <1>5, <2>2 DEF Fire, Idling, IInv, TypeOK, InHandInv, ConstructedInv, DisarmedInv,
                        ring, calls
    <2> QED
      BY <2>1, <2>2
  <1>6. CASE CallbackReturns
    <2>1. current \in Timers /\ state[current] \in InCallbackStates
      BY <1>6 DEF CallbackReturns, Idling, IInv, TypeOK, InHandInv
    <2> QED
      BY <1>6, <2>1 DEF CallbackReturns, Recurs, Idling, IInv, TypeOK, InHandInv,
                        ConstructedInv, DisarmedInv, items, ring, calls, InCallbackStates
  <1>7. CASE Rearm
    <2>1. current \in Timers /\ state[current] \in InCallbackStates
      BY <1>7 DEF Rearm, Idling, IInv, TypeOK, InHandInv
    <2>2. due[current] + interval[current] \in Lateness
      BY <2>1 DEF IInv, TypeOK, Lateness
    <2>3. TypeOK'
      BY <1>7, <2>1, <2>2, NotifiedCalls DEF Rearm, Rearmed, IInv, TypeOK, ring
    <2>4. InHandInv'
      BY <1>7, <2>1 DEF Rearm, Rearmed, IInv, TypeOK, InHandInv, InCallbackStates
    <2>5. ConstructedInv'
      BY <1>7, <2>1, NotifiedCalls DEF Rearm, Rearmed, IInv, TypeOK, ConstructedInv, ring
    <2>6. DisarmedInv'
      BY <1>7, <2>1 DEF Rearm, IInv, TypeOK, DisarmedInv, InCallbackStates
    <2> QED
      BY <2>3, <2>4, <2>5, <2>6 DEF IInv
  <1>8. CASE Retire
    <2>1. current \in Timers
      BY <1>8 DEF Retire, Idling, IInv, TypeOK, InHandInv
    <2>2. TypeOK'
      BY <1>8, <2>1, NotifiedCalls DEF Retire, IInv, TypeOK, ring
    <2>3. InHandInv'
      BY <1>8, <2>1 DEF Retire, IInv, TypeOK, InHandInv, InCallbackStates
    <2>4. ConstructedInv'
      BY <1>8, <2>1, NotifiedCalls DEF Retire, IInv, TypeOK, ConstructedInv, ring
    <2>5. DisarmedInv'
      BY <1>8, <2>1 DEF Retire, IInv, TypeOK, DisarmedInv
    <2> QED
      BY <2>2, <2>3, <2>4, <2>5 DEF IInv
  <1>9. CASE ScanDone
    BY <1>9 DEF ScanDone, Idling, IInv, TypeOK, InHandInv, ConstructedInv, DisarmedInv,
                items, ring, calls
  <1> QED
    BY <1>1, <1>2, <1>3, <1>4, <1>5, <1>6, <1>7, <1>8, <1>9 DEF DispatchLoop

LEMMA TickInv ==
  ASSUME IInv, Tick
  PROVE  IInv'
  <1>1. \A t \in Timers : Larger(due[t] - 1, 0 - MaxLag) \in Lateness
    BY DEF IInv, TypeOK, Larger, Lateness
  <1>2. TypeOK'
    BY <1>1 DEF Tick, IInv, TypeOK, ring, loop, calls
  <1>3. InHandInv' /\ ConstructedInv' /\ DisarmedInv'
    BY DEF Tick, IInv, InHandInv, ConstructedInv, DisarmedInv, ring, loop, calls
  <1> QED
    BY <1>2, <1>3 DEF IInv

LEMMA NextInv == IInv /\ [Next]_vars => IInv'
  <1> SUFFICES ASSUME IInv, [Next]_vars PROVE IInv'
    OBVIOUS
  <1>1. CASE DispatchLoop
    BY <1>1, DispatchInv
  <1>2. ASSUME NEW p \in Threads, CallStep(p)
        PROVE  IInv'
    <2>1. CASE Timers = {}
      BY <1>2, <2>1 DEF IInv, ConstructedInv, TypeOK, CallStep, WriteSlot, Publish, Disarm,
                        DisarmReturns, DisarmWait
    <2>2. CASE Timers # {}
      BY <1>2, <2>2, CallInv
    <2> QED
      BY <2>1, <2>2
  <1>3. ASSUME NEW p \in Threads, NEW t \in Timers, CallBegins(p, t)
        PROVE  IInv'
    BY <1>3, CallInv
  <1>4. CASE Tick
    BY <1>4, TickInv
  <1>5. CASE UNCHANGED vars
    BY <1>5 DEF vars, items, ring, loop, calls, IInv, TypeOK, InHandInv, ConstructedInv,
                DisarmedInv
  <1> QED
    BY <1>1, <1>2, <1>3, <1>4, <1>5 DEF Next

(* The inductive invariant holds in every reachable state.                 *)
THEOREM Invariance == Spec => []IInv
  BY InitInv, NextInv, PTL DEF Spec

(* Type correctness of the timer queue; a timer is never later than the    *)
(* bound, because QueueTimer clamps due_ (timer_queue.cpp, "Mitigate       *)
(* callback flooding").                                                    *)
THEOREM TypeCorrect == Spec => []TypeOK
  <1>1. IInv => TypeOK
    BY DEF IInv
  <1> QED
    BY <1>1, Invariance, PTL

(* No callback of a timer runs, or can start, after a Disarm() that waits  *)
(* for it has returned: the promise of timer_queue.h.                      *)
THEOREM DisarmIsQuiescent == Spec => []NoCallbackAfterDisarm
  <1>1. IInv => NoCallbackAfterDisarm
    BY DEF IInv, TypeOK, DisarmedInv, InHandInv, InCallbackStates, NoCallbackAfterDisarm
  <1> QED
    BY <1>1, Invariance, PTL

(* The dispatch thread's assertion on a popped item cannot fail.           *)
THEOREM ScanAssertion == Spec => []PoppedIsIdleOrDisarmed
  <1>1. ASSUME IInv, dispatch = "scan", NEW t \in Timers, t \in waitQueue \cup rescheduled
        PROVE  state[t] \in {"Idle", "Disarmed"}
    <2>1. t # current
      BY <1>1 DEF IInv, InHandInv
    <2>2. state[t] # "none" /\ state[t] \notin InCallbackStates
      BY <1>1, <2>1 DEF IInv, InHandInv, ConstructedInv
    <2> QED
      BY <1>1, <2>2 DEF IInv, TypeOK
  <1>2. IInv => PoppedIsIdleOrDisarmed
    BY <1>1 DEF PoppedIsIdleOrDisarmed
  <1> QED
    BY <1>2, Invariance, PTL

(* A cancelled timer stays cancelled: kDisarmed is final, and a timer that *)
(* disarmed itself in its callback is retired, not rearmed.                *)
CancellationIsFinal ==
  [][\A t \in Timers :
       /\ state[t] = "Disarmed" => state'[t] = "Disarmed"
       /\ state[t] = "InCallbackSelfDisarmed" =>
            state'[t] \in {"InCallbackSelfDisarmed", "Disarmed"}]_vars

(* Cancellation is final, step by step: no store or compare-exchange on    *)
(* state_ ever takes an item out of kDisarmed, and the store that rearms a *)
(* recurring timer is never reached by one that disarmed itself.           *)
THEOREM CancellationStands == Spec => CancellationIsFinal
  <1> DEFINE Kept(t) ==
        /\ state[t] = "Disarmed" => state'[t] = "Disarmed"
        /\ state[t] = "InCallbackSelfDisarmed" =>
             state'[t] \in {"InCallbackSelfDisarmed", "Disarmed"}
  <1>1. ASSUME IInv, [Next]_vars, NEW u \in Timers
        PROVE  Kept(u)
    <2>1. CASE UNCHANGED state
      BY <2>1
    <2>2. ASSUME NEW t \in Timers, Fire(t)
          PROVE  Kept(u)
      <3>1. \/ state[t] = "Idle" /\ state' = [state EXCEPT ![t] = "InCallback"]
            \/ UNCHANGED state
        BY <2>2 DEF Fire
      <3> QED
        BY <1>1, <3>1 DEF IInv, TypeOK
    <2>3. CASE Rearm
      BY <1>1, <2>3 DEF Rearm, Rearmed, Idling, IInv, TypeOK, InHandInv
    <2>4. CASE Retire
      BY <1>1, <2>4 DEF Retire, IInv, TypeOK
    <2>5. ASSUME NEW p \in Threads, Disarm(p)
          PROVE  Kept(u)
      BY <1>1, <2>5 DEF Disarm, DisarmReturns, IInv, TypeOK
    <2>6. ASSUME NEW p \in Threads, NEW t \in Timers, CallBegins(p, t)
          PROVE  Kept(u)
      BY <1>1, <2>6 DEF CallBegins, Queue, Shutdown, QueueTimer, SelfDisarm, BeginDisarm, items,
                  IInv, TypeOK
    <2> QED
      BY <1>1, <2>1, <2>2, <2>3, <2>4, <2>5, <2>6
         DEF Next, vars, DispatchLoop, CallStep, items, LoopTop, TakePublished, Consume,
             WaitTimeout, CallbackReturns, ScanDone, WriteSlot, Publish, DisarmWait, Tick
  <1>2. IInv /\ [Next]_vars => [\A t \in Timers : Kept(t)]_vars
    BY <1>1
  <1> QED
    BY <1>2, Invariance, PTL DEF Spec, CancellationIsFinal
-----------------------------------------------------------------------------
(* Waiting in Disarm().                                                    *)

(* A thread waits for the callback in hand and for nothing else, and only  *)
(* the dispatch thread itself can make that wait endless: by calling       *)
(* Disarm() from the callback of a timer the callback has disarmed before. *)
WaitsOnCallback ==
  /\ \A p \in Threads : call[p] = "parked" =>
       arg[p] = current /\ dispatch \in {"callback", "rearm", "retire"}
  /\ call[Dispatcher] = "parked" => state[current] = "InCallbackSelfDisarmed"

(* The dispatch thread calls the queue from callbacks only, and waits in   *)
(* Disarm() only for a timer that has disarmed itself.                     *)
CallbackCalls ==
  /\ call[Dispatcher] # "none" => dispatch = "callback"
  /\ call[Dispatcher] = "disarm" /\ arg[Dispatcher] = current =>
       state[current] = "InCallbackSelfDisarmed"

WaitInv == WaitsOnCallback /\ CallbackCalls

LEMMA WaitStep ==
  ASSUME IInv, WaitInv, [Next]_vars
  PROVE  WaitInv'
  <1> USE DEF WaitInv, WaitsOnCallback, CallbackCalls
  <1>1. ASSUME Idling("top") \/ Idling("wait") \/ Idling("consume") \/ Idling("scan"),
               UNCHANGED calls
        PROVE  WaitInv'
    BY <1>1 DEF Idling, calls
  <1>2. CASE LoopTop \/ TakePublished \/ Consume \/ WaitTimeout \/ ScanDone
             \/ \E t \in Timers : Fire(t)
    BY <1>1, <1>2 DEF LoopTop, TakePublished, Consume, WaitTimeout, ScanDone, Fire
  <1>3. CASE CallbackReturns
    BY <1>3 DEF CallbackReturns, Idling, calls, items
  <1>4. CASE Rearm \/ Retire
    <2>1. \A p \in Threads : call'[p] # "parked"
      BY <1>4 DEF Rearm, Retire, Notified
    <2>2. call'[Dispatcher] = "none"
      BY <1>4 DEF Rearm, Retire, Notified, Idling, Threads
    <2> QED
      BY <2>1, <2>2 DEF Threads
  <1>5. ASSUME NEW p \in Threads, NEW t \in Timers, Queue(p, t) \/ Shutdown(p, t)
        PROVE  WaitInv'
    <2>1. /\ \A q \in Threads \ {p} : call'[q] = call[q] /\ arg'[q] = arg[q]
          /\ call'[p] = "claim" /\ state[t] = "none" /\ MayCall(p)
          /\ \A u \in Timers \ {t} : state'[u] = state[u]
          /\ UNCHANGED <<current, dispatch>>
      BY <1>5 DEF Queue, Shutdown, QueueTimer, IInv, TypeOK, loop
    <2>2. \A u : u = current /\ u # NoTimer => u \in Timers \ {t}
      BY <2>1 DEF IInv, TypeOK, InHandInv, InCallbackStates
    <2>3. dispatch = "callback" => current # NoTimer
      BY DEF IInv, InHandInv
    <2> QED
      BY <2>1, <2>2, <2>3 DEF MayCall, Threads
  <1>6. ASSUME NEW p \in Threads, NEW t \in Timers, SelfDisarm(p, t)
        PROVE  WaitInv'
    BY <1>6 DEF SelfDisarm, MayCall, IInv, TypeOK, InHandInv, InCallbackStates, calls, loop
  <1>7. ASSUME NEW p \in Threads, NEW t \in Timers, BeginDisarm(p, t)
        PROVE  WaitInv'
    <2>1. /\ \A q \in Threads \ {p} : call'[q] = call[q] /\ arg'[q] = arg[q]
          /\ call'[p] = "disarm" /\ arg'[p] = t /\ MayCall(p)
          /\ UNCHANGED <<state, current, dispatch>>
      BY <1>7 DEF BeginDisarm, IInv, TypeOK, loop, items
    <2>2. p = Dispatcher /\ t = current => state[current] = "InCallbackSelfDisarmed"
      BY <1>7 DEF BeginDisarm, IInv, InHandInv, InCallbackStates
    <2> QED
      BY <2>1, <2>2 DEF MayCall, Threads
  <1>8. ASSUME NEW p \in Threads, WriteSlot(p) \/ Publish(p)
        PROVE  WaitInv'
    <2>1. /\ \A q \in Threads \ {p} : call'[q] = call[q] /\ arg'[q] = arg[q]
          /\ call'[p] \in {"publish", "none"} /\ call[p] # "none"
          /\ UNCHANGED <<state, current, dispatch>>
      BY <1>8 DEF WriteSlot, Publish, IInv, TypeOK, loop, items
    <2> QED
      BY <2>1 DEF Threads
  <1>9. ASSUME NEW p \in Threads, Disarm(p)
        PROVE  WaitInv'
    <2>1. /\ \A q \in Threads \ {p} : call'[q] = call[q] /\ arg'[q] = arg[q]
          /\ call'[p] = "none" /\ call[p] = "disarm"
          /\ \A u \in Timers \ {arg[p]} : state'[u] = state[u]
          /\ state[arg[p]] \notin InCallbackStates
          /\ UNCHANGED <<current, dispatch>>
      BY <1>9 DEF Disarm, DisarmReturns, DisarmStates, IInv, TypeOK, loop, InCallbackStates
    <2>2. dispatch \in {"callback", "rearm", "retire"} => current \in Timers \ {arg[p]}
      BY <2>1 DEF IInv, TypeOK, InHandInv
    <2> QED
      BY <2>1, <2>2 DEF Threads
  <1>10. ASSUME NEW p \in Threads, DisarmWait(p)
        PROVE  WaitInv'
    <2>1. /\ \A q \in Threads \ {p} : call'[q] = call[q] /\ arg'[q] = arg[q]
          /\ call'[p] = "parked" /\ call[p] = "disarm" /\ arg'[p] = arg[p]
          /\ UNCHANGED <<state, current, dispatch>>
      BY <1>10 DEF DisarmWait, IInv, TypeOK, loop, items
    <2>2. arg[p] = current /\ dispatch \in {"callback", "rearm", "retire"}
      BY <1>10 DEF DisarmWait, IInv, InHandInv, ConstructedInv, TypeOK, InCallbackStates
    <2> QED
      BY <2>1, <2>2 DEF Threads
  <1>11. CASE Tick \/ UNCHANGED vars
    BY <1>11 DEF Tick, vars, items, loop, calls
  <1> QED
    BY <1>2, <1>3, <1>4, <1>5, <1>6, <1>7, <1>8, <1>9, <1>10, <1>11
       DEF Next, DispatchLoop, CallStep, CallBegins

(* A thread that waits in Disarm() (state_.wait) waits for the callback    *)
(* the dispatch thread has in hand, at any moment and for any number of    *)
(* threads: the notify_all() that ends that callback comes after the wait, *)
(* so no wake-up is lost, unless the callback waits for itself, which only *)
(* a second Disarm() of its own timer does.                                *)
THEOREM NoLostWakeUp == Spec => []WaitsOnCallback
  <1>1. Init => WaitInv
    BY DEF Init, WaitInv, WaitsOnCallback, CallbackCalls, Threads
  <1>2. IInv /\ IInv' /\ WaitInv /\ [Next]_vars => WaitInv'
    BY WaitStep
  <1>3. WaitInv => WaitsOnCallback
    BY DEF WaitInv
  <1> QED
    BY <1>1, <1>2, <1>3, Invariance, PTL DEF Spec

-----------------------------------------------------------------------------
(* The queue implements TimerService.                                      *)

(* What the dispatch thread has found out when the callback returned still *)
(* holds when it acts on it: nobody else can disarm the item meanwhile.    *)
VerdictInv ==
  /\ dispatch = "rearm" => interval[current] # 0
  /\ dispatch = "retire" =>
       interval[current] = 0 \/ state[current] = "InCallbackSelfDisarmed"

LEMMA VerdictStep ==
  ASSUME IInv, VerdictInv, [Next]_vars
  PROVE  VerdictInv'
  <1> USE DEF VerdictInv
  <1>1. CASE CallbackReturns
    BY <1>1 DEF CallbackReturns, Recurs, Idling, IInv, TypeOK, InHandInv, InCallbackStates, items
  <1>2. CASE LoopTop \/ TakePublished \/ Consume \/ WaitTimeout \/ ScanDone \/ Rearm \/ Retire
             \/ \E t \in Timers : Fire(t)
    <2>1. dispatch \notin {"rearm", "retire"} \/ Rearm \/ Retire
      BY <1>2 DEF LoopTop, TakePublished, Consume, WaitTimeout, ScanDone, Fire, Idling
    <2>2. dispatch' \notin {"rearm", "retire"}
      BY <1>2, <2>1 DEF LoopTop, TakePublished, Consume, WaitTimeout, ScanDone, Fire, Rearm, Retire
    <2> QED
      BY <2>2
  <1>3. ASSUME UNCHANGED <<dispatch, current>>,
               \A t \in Timers : t = current /\ dispatch \in {"rearm", "retire"} =>
                                 interval'[t] = interval[t] /\ state'[t] = state[t]
        PROVE  VerdictInv'
    <2>1. dispatch \in {"rearm", "retire"} => current \in Timers
      BY DEF IInv, TypeOK, InHandInv
    <2> QED
      BY <1>3, <2>1
  <1>4. ASSUME NEW p \in Threads, NEW t \in Timers, CallBegins(p, t)
        PROVE  VerdictInv'
    <2>1. CASE Queue(p, t) \/ Shutdown(p, t)
      <3>1. /\ \A u \in Timers \ {t} : interval'[u] = interval[u] /\ state'[u] = state[u]
            /\ state[t] = "none" /\ UNCHANGED <<dispatch, current>>
        BY <2>1 DEF Queue, Shutdown, QueueTimer, IInv, TypeOK, loop
      <3>2. t # current
        BY <3>1 DEF IInv, InHandInv, InCallbackStates
      <3> QED
        BY <1>3, <3>1, <3>2
    <2>2. CASE SelfDisarm(p, t)
      BY <2>2 DEF SelfDisarm, MayCall, loop
    <2>3. CASE BeginDisarm(p, t)
      BY <1>3, <2>3 DEF BeginDisarm, items, loop
    <2> QED
      BY <1>4, <2>1, <2>2, <2>3 DEF CallBegins
  <1>5. ASSUME NEW p \in Threads, CallStep(p)
        PROVE  VerdictInv'
    <2>1. CASE Disarm(p)
      <3>1. /\ \A u \in Timers \ {arg[p]} : state'[u] = state[u]
            /\ state[arg[p]] \notin InCallbackStates /\ arg[p] \in Timers
            /\ UNCHANGED <<dispatch, current, interval>>
        BY <2>1 DEF Disarm, DisarmReturns, DisarmStates, IInv, TypeOK, ConstructedInv, loop,
                    InCallbackStates
      <3>2. arg[p] # current
        BY <3>1 DEF IInv, InHandInv
      <3> QED
        BY <1>3, <3>1, <3>2
    <2>2. CASE WriteSlot(p) \/ Publish(p) \/ DisarmWait(p)
      BY <1>3, <2>2 DEF WriteSlot, Publish, DisarmWait, items, loop
    <2> QED
      BY <1>5, <2>1, <2>2 DEF CallStep
  <1>6. CASE Tick \/ UNCHANGED vars
    BY <1>3, <1>6 DEF Tick, vars, items, loop
  <1> QED
    BY <1>1, <1>2, <1>4, <1>5, <1>6 DEF Next, DispatchLoop

Phases == [t \in Timers |-> Phase[state[t]]]
seen == <<Phases, due, interval, disarmed>>

LEMMA PhaseOf ==
  ASSUME TypeOK, NEW t \in Timers
  PROVE  /\ Phases[t] = "none" <=> state[t] = "none"
         /\ Phases[t] = "armed" <=> state[t] = "Idle"
         /\ Phases[t] = "running" <=> state[t] = "InCallback"
         /\ Phases[t] = "ending" <=> state[t] = "InCallbackSelfDisarmed"
         /\ Phases[t] = "over" <=> state[t] = "Disarmed"
  BY DEF Phases, Phase, TypeOK, InCallbackStates

(* A store to state_ is one change of phase.                               *)
LEMMA PhaseChange ==
  ASSUME TypeOK, NEW t \in Timers, NEW s \in DOMAIN Phase, state' = [state EXCEPT ![t] = s]
  PROVE  Phases' = [Phases EXCEPT ![t] = Phase[s]]
  BY DEF Phases, TypeOK

LEMMA QueuedIsQueued ==
  ASSUME TypeOK, NEW p, NEW t \in Timers, NEW d, NEW i, NEW s \in {"Idle", "Disarmed"},
         QueueTimer(p, t, d, i, s)
  PROVE  Service!Queued(t, Phase[s], d, i)
  <1>1. Phases' = [Phases EXCEPT ![t] = Phase[s]] /\ Phases[t] = "none"
    BY PhaseChange, PhaseOf DEF QueueTimer, Phase
  <1>2. due' = [due EXCEPT ![t] = Service!Later(0 - i, d)]
    BY DEF QueueTimer, ClampedDue, Larger, Service!Later
  <1> QED
    BY <1>1, <1>2 DEF QueueTimer, Service!Queued, Service!Becomes, Phases

LEMMA StepServes ==
  ASSUME IInv, VerdictInv, [Next]_vars
  PROVE  [Service!Next]_seen
  <1> USE DEF IInv
  <1>1. ASSUME UNCHANGED <<state, due, interval, disarmed>>
        PROVE  UNCHANGED seen
    BY <1>1 DEF seen, Phases
  <1>2. ASSUME NEW t \in Timers, Fire(t)
        PROVE  [Service!Next]_seen
    <2>1. CASE state[t] = "Idle"
      <3>1. Phases' = [Phases EXCEPT ![t] = "running"]
        BY <1>2, <2>1, PhaseChange DEF Fire, Phase
      <3>2. \A u \in Timers : Phases[u] \notin {"running", "ending"}
        BY <1>2, PhaseOf DEF Fire, Idling, InHandInv, InCallbackStates
      <3>3. Service!Run(t)
        BY <1>2, <2>1, <3>1, <3>2, PhaseOf
           DEF Fire, DueNow, Service!Run, Service!Becomes, Service!InCallback, Phases
      <3> QED
        BY <3>3 DEF Service!Next
    <2>2. CASE state[t] # "Idle"
      BY <1>1, <1>2, <2>2 DEF Fire
    <2> QED
      BY <2>1, <2>2
  <1>3. CASE Rearm
    <2>1. PICK t \in Timers : t = current /\ state[t] = "InCallback" /\ interval[t] # 0
      BY <1>3 DEF Rearm, Idling, InHandInv, VerdictInv, TypeOK
    <2>2. Phases' = [Phases EXCEPT ![t] = "armed"]
      BY <1>3, <2>1, PhaseChange DEF Rearm, Rearmed, Phase
    <2>3. Service!Repeat(t)
      BY <1>3, <2>1, <2>2, PhaseOf DEF Rearm, Service!Repeat, Service!Becomes, Phases
    <2> QED
      BY <2>1, <2>3 DEF Service!Next
  <1>4. CASE Retire
    <2>1. PICK t \in Timers : /\ t = current /\ state[t] \in InCallbackStates
                              /\ state[t] = "InCallback" => interval[t] = 0
      BY <1>4 DEF Retire, Idling, InHandInv, VerdictInv, TypeOK, InCallbackStates
    <2>2. Phases' = [Phases EXCEPT ![t] = "over"]
      BY <1>4, <2>1, PhaseChange DEF Retire, Phase
    <2>3. Service!Finish(t)
      BY <1>4, <2>1, <2>2, PhaseOf
         DEF Retire, Service!Finish, Service!Becomes, Service!InCallback, Phases, InCallbackStates
    <2> QED
      BY <2>1, <2>3 DEF Service!Next
  <1>5. ASSUME NEW p \in Threads, NEW t \in Timers, Queue(p, t)
        PROVE  Service!Next
    <2>1. Service!Arm(t)
      BY <1>5, QueuedIsQueued DEF Queue, Service!Arm, Phase
    <2> QED
      BY <2>1 DEF Service!Next
  <1>6. ASSUME NEW p \in Threads, NEW t \in Timers, Shutdown(p, t)
        PROVE  Service!Next
    <2>1. Service!Stop(t)
      BY <1>6, QueuedIsQueued DEF Shutdown, Service!Stop, Phase
    <2> QED
      BY <2>1 DEF Service!Next
  <1>7. ASSUME NEW p \in Threads, NEW t \in Timers, SelfDisarm(p, t)
        PROVE  Service!Next
    <2>1. Phases' = [Phases EXCEPT ![t] = "ending"]
      BY <1>7, PhaseChange DEF SelfDisarm, Phase
    <2>2. Service!CancelInCallback(t)
      BY <1>7, <2>1, PhaseOf DEF SelfDisarm, Service!CancelInCallback, Service!Becomes, Phases
    <2> QED
      BY <2>2 DEF Service!Next
  <1>8. ASSUME NEW p \in Threads, Disarm(p)
        PROVE  Service!Next
    <2>1. PICK t \in Timers : t = arg[p] /\ state[t] \in {"Idle", "Disarmed"}
      BY <1>8 DEF Disarm, DisarmReturns, DisarmStates, ConstructedInv
    <2>2. Phases' = [Phases EXCEPT ![t] = "over"]
      BY <1>8, <2>1, PhaseChange DEF Disarm, DisarmReturns, Phase
    <2>3. Service!Cancel(t)
      BY <1>8, <2>1, <2>2, PhaseOf
         DEF Disarm, DisarmReturns, Service!Cancel, Service!Becomes, Phases
    <2> QED
      BY <2>1, <2>3 DEF Service!Next
  <1>9. CASE Tick
    <2>1. Service!TimePasses
      BY <1>9 DEF Tick, Larger, Service!TimePasses, Service!Later
    <2> QED
      BY <2>1 DEF Service!Next
  <1>10. CASE \/ LoopTop \/ TakePublished \/ Consume \/ WaitTimeout \/ CallbackReturns \/ ScanDone
              \/ \E p \in Threads : WriteSlot(p) \/ Publish(p) \/ DisarmWait(p)
              \/ \E p \in Threads, t \in Timers : BeginDisarm(p, t)
              \/ UNCHANGED vars
    BY <1>1, <1>10
       DEF LoopTop, TakePublished, Consume, WaitTimeout, CallbackReturns, ScanDone, WriteSlot, Publish,
           DisarmWait, BeginDisarm, vars, items
  <1> QED
    BY <1>2, <1>3, <1>4, <1>5, <1>6, <1>7, <1>8, <1>9, <1>10
       DEF Next, DispatchLoop, CallStep, CallBegins

(* The ring, the lists, the dispatch thread and the compare-exchanges on   *)
(* state_ (timer_queue.cpp) keep the promise of timer_queue.h, for any     *)
(* number of threads and timers: one callback at a time, never early, once *)
(* or at every interval without drift, and never after its cancellation.   *)
THEOREM KeepsItsPromise == Spec => ImplementsTimerService
  <1>1. Init => VerdictInv
    BY DEF Init, VerdictInv
  <1>2. Init => Service!Init
    BY DEF Init, Service!Init, Phase
  <1>3. IInv /\ VerdictInv /\ [Next]_vars => VerdictInv'
    BY VerdictStep
  <1>4. IInv /\ VerdictInv /\ [Next]_vars => [Service!Next]_(Service!vars)
    BY StepServes DEF Service!vars, seen, Phases
  <1> QED
    BY <1>1, <1>2, <1>3, <1>4, Invariance, PTL DEF Spec, ImplementsTimerService, Service!Spec

-----------------------------------------------------------------------------
(* The ring.  Sequences are handed out in order, written when their slot   *)
(* has been given back, and taken in order; the ones that may be in the    *)
(* ring lie in a window as wide as the ring, so no two share a slot.       *)

Ring == 0..RingSize-1
Pending(p) == call[p] \in {"claim", "publish"}
Writes(p, s) == call[p] = "publish" /\ sequence[p] = s

SeqInv ==
  /\ nextSequence <= nextClaimable
  /\ consumed < nextSequence
  /\ dispatch # "consume" => consumed = nextSequence - 1 /\ taken = {}
  /\ \A i \in Ring : published[i] < nextClaimable

(* A sequence number that is under way belongs to one thread and has not   *)
(* been published.                                                         *)
ClaimInv ==
  \A p \in Threads : Pending(p) =>
    /\ nextSequence <= sequence[p] /\ sequence[p] < nextClaimable
    /\ published[Slot(sequence[p])] # sequence[p]
    /\ \A q \in Threads : Pending(q) /\ sequence[q] = sequence[p] => q = p
    /\ call[p] = "publish" =>
         sequence[p] <= consumed + RingSize /\ buffer[Slot(sequence[p])] # NoTimer

(* A slot holds an item exactly while a sequence of the window that falls  *)
(* on it is being published or has been.                                   *)
SlotInv ==
  \A i \in Ring :
    /\ published[i] >= nextSequence =>
         published[i] <= consumed + RingSize /\ buffer[i] # NoTimer
    /\ buffer[i] # NoTimer =>
         \E s \in nextSequence..(consumed + RingSize) :
           Slot(s) = i /\ (published[i] = s \/ \E p \in Threads : Writes(p, s))

RingInv == SeqInv /\ ClaimInv /\ SlotInv

LEMMA SameSlot ==
  ASSUME NEW c \in Int, NEW a \in c+1..c+RingSize, NEW b \in c+1..c+RingSize, Slot(a) = Slot(b)
  PROVE  a = b
  <1>1. a % RingSize = b % RingSize
    BY DEF Slot
  <1>2. a = RingSize * (a \div RingSize) + (a % RingSize)
    OBVIOUS
  <1>3. b = RingSize * (b \div RingSize) + (b % RingSize)
    OBVIOUS
  <1> DEFINE x == a \div RingSize
             y == b \div RingSize
  <1>4. x \in Int /\ y \in Int /\ a - b = RingSize * x - RingSize * y
    BY <1>1, <1>2, <1>3
  <1>5. a - b < RingSize /\ b - a < RingSize
    OBVIOUS
  <1> HIDE DEF x, y
  <1>6. CASE x > y
    <2>1. RingSize * x >= RingSize * y + RingSize
      BY <1>4, <1>6
    <2> QED
      BY <1>4, <1>5, <2>1
  <1>7. CASE y > x
    <2>1. RingSize * y >= RingSize * x + RingSize
      BY <1>4, <1>7
    <2> QED
      BY <1>4, <1>5, <2>1
  <1>8. CASE x = y
    BY <1>4, <1>8
  <1> QED
    BY <1>4, <1>6, <1>7, <1>8

LEMMA LeastSequence ==
  ASSUME NEW S, S \subseteq Nat, S # {}
  PROVE  \E m \in S : \A s \in S : m <= s
  <1>1. PICK m \in S : \A s \in S : <<s, m>> \notin OpToRel(<, Nat)
    BY NatLessThanWellFounded, WFMin
  <1>2. ASSUME NEW s \in S
        PROVE  m <= s
    <2>1. s < m => <<s, m>> \in OpToRel(<, Nat)
      BY Zenon DEF OpToRel
    <2>2. ~(s < m)
      BY <1>1, <2>1, Zenon
    <2> QED
      BY <2>2
  <1> QED
    BY <1>2

(* What wait_until_published() finds is a run of sequences.                *)
LEMMA AvailableRun ==
  ASSUME TypeOK
  PROVE  \E m \in Nat :
           /\ m = nextSequence + Cardinality(Available) /\ nextSequence <= m
           /\ \A s : s \in Available <=> s \in Nat /\ nextSequence <= s /\ s < m
  <1> DEFINE S == {s \in nextSequence..(nextSequence + RingSize) : s \notin Available}
  <1>0. nextSequence \in Nat
    BY DEF TypeOK
  <1>1. S \subseteq Nat /\ S # {}
    <2>1. nextSequence + RingSize \in S
      BY <1>0 DEF Available
    <2> QED
      BY <1>0, <2>1
  <1>2. PICK m \in S : \A s \in S : m <= s
    BY <1>1, LeastSequence
  <1>3. m \in Nat /\ nextSequence <= m /\ m <= nextSequence + RingSize /\ m \notin Available
    BY <1>0, <1>2
  <1>4. nextSequence..(m - 1) \subseteq Available
    <2>1. ASSUME NEW s \in nextSequence..(m - 1), s \notin Available
          PROVE  FALSE
      <3>1. s \in S
        BY <1>0, <1>3, <2>1
      <3> QED
        BY <1>0, <1>2, <1>3, <2>1, <3>1
    <2> QED
      BY <2>1
  <1>5. Available \subseteq nextSequence..(m - 1)
    <2>1. ASSUME NEW s \in Available, s >= m
          PROVE  FALSE
      <3>1. s \in nextSequence..(nextSequence + RingSize - 1) /\ \A r \in nextSequence..s : IsPublished(r)
        BY DEF Available
      <3>2. m \in nextSequence..(nextSequence + RingSize - 1) /\ \A r \in nextSequence..m : IsPublished(r)
        BY <1>0, <1>3, <2>1, <3>1
      <3> QED
        BY <1>3, <3>2 DEF Available
    <2>2. \A s \in Available : s \in nextSequence..(nextSequence + RingSize - 1)
      BY DEF Available
    <2> QED
      BY <1>0, <1>3, <2>1, <2>2
  <1>6. Available = nextSequence..(m - 1)
    BY <1>4, <1>5
  <1>7. Cardinality(Available) = m - nextSequence
    <2>1. Cardinality(nextSequence..(m - 1)) = IF nextSequence > m - 1 THEN 0 ELSE (m - 1) - nextSequence + 1
      BY <1>0, <1>3, FS_Interval
    <2> QED
      BY <1>0, <1>3, <1>6, <2>1
  <1>8. \A s : s \in Available <=> s \in Nat /\ nextSequence <= s /\ s < m
    BY <1>0, <1>3, <1>6
  <1>9. m = nextSequence + Cardinality(Available)
    BY <1>0, <1>3, <1>7
  <1> QED
    BY <1>3, <1>8, <1>9
LEMMA RingTypes ==
  ASSUME TypeOK
  PROVE  /\ nextClaimable \in Nat /\ nextSequence \in Nat /\ consumed \in Int
         /\ \A i \in Ring : published[i] \in Int
         /\ \A p \in Threads : sequence[p] \in Nat /\ Slot(sequence[p]) \in Ring
         /\ \A s \in Nat : Slot(s) \in Ring
  BY SlotInRing DEF TypeOK, Ring

LEMMA InitRing == Init => RingInv
  <1> SUFFICES ASSUME Init PROVE RingInv
    OBVIOUS
  <1>1. SeqInv
    <2>1. \A i \in Ring : published[i] = i - RingSize /\ i - RingSize < 0
      BY DEF Init, Ring
    <2> QED
      BY <2>1 DEF Init, SeqInv
  <1>2. ClaimInv
    BY DEF Init, ClaimInv, Pending
  <1>3. SlotInv
    <2>1. \A i \in Ring : published[i] = i - RingSize /\ i - RingSize < 0 /\ buffer[i] = NoTimer
      BY DEF Init, Ring
    <2> QED
      BY <2>1 DEF Init, SlotInv, Ring
  <1> QED
    BY <1>1, <1>2, <1>3 DEF RingInv

(* Steps that touch neither the ring nor a sequence under way.             *)
RingQuiet ==
  /\ UNCHANGED <<ring, nextSequence, taken, sequence>>
  /\ dispatch' = "consume" <=> dispatch = "consume"
  /\ \A p \in Threads : Pending(p) \/ Pending(p)' => call'[p] = call[p]

LEMMA QuietRing ==
  ASSUME RingInv, RingQuiet
  PROVE  RingInv'
  <1>0. /\ UNCHANGED <<nextClaimable, published, buffer, consumed, nextSequence, taken, sequence>>
        /\ \A p \in Threads : /\ Pending(p)' <=> Pending(p)
                              /\ call'[p] = "publish" <=> call[p] = "publish"
    BY DEF RingQuiet, ring, Pending
  <1>1. SeqInv'
    BY <1>0 DEF RingInv, SeqInv, RingQuiet
  <1>2. ClaimInv'
    BY <1>0 DEF RingInv, ClaimInv
  <1>3. SlotInv'
    <2>1. \A p \in Threads : \A s : Writes(p, s)' <=> Writes(p, s)
      BY <1>0 DEF Writes
    <2> QED
      BY <1>0, <2>1 DEF RingInv, SlotInv
  <1> QED
    BY <1>1, <1>2, <1>3 DEF RingInv

LEMMA QueueRing ==
  ASSUME TypeOK, RingInv, NEW p \in Threads, NEW t \in Timers, NEW d, NEW i, NEW s, QueueTimer(p, t, d, i, s)
  PROVE  RingInv'
  <1>0. /\ call[p] = "none"
        /\ call' = [call EXCEPT ![p] = "claim"] /\ call \in [Threads -> {"none", "claim", "publish", "disarm", "parked"}]
        /\ sequence' = [sequence EXCEPT ![p] = nextClaimable] /\ sequence \in [Threads -> Nat]
        /\ nextClaimable' = nextClaimable + 1
        /\ UNCHANGED <<published, buffer, consumed, nextSequence, taken, dispatch>>
    BY DEF QueueTimer, MayCall, TypeOK, loop
  <1>a. /\ call'[p] = "claim" /\ sequence'[p] = nextClaimable
        /\ \A q \in Threads \ {p} : call'[q] = call[q] /\ sequence'[q] = sequence[q]
    BY <1>0
  <1>b. ~Pending(p) /\ \A q \in Threads \ {p} : Pending(q)' <=> Pending(q)
    BY <1>0, <1>a DEF Pending
  <1>1. SeqInv'
    BY <1>0, RingTypes DEF RingInv, SeqInv
  <1>2. ClaimInv'
    <2>1. ASSUME NEW q \in Threads, Pending(q)'
          PROVE  /\ nextSequence <= sequence'[q] /\ sequence'[q] < nextClaimable + 1
                 /\ published[Slot(sequence'[q])] # sequence'[q]
                 /\ call'[q] = "publish" =>
                      sequence'[q] <= consumed + RingSize /\ buffer[Slot(sequence'[q])] # NoTimer
      <3>1. CASE q = p
        BY <1>0, <1>a, <3>1, RingTypes DEF RingInv, SeqInv
      <3>2. CASE q # p
        <4>1. Pending(q) /\ sequence'[q] = sequence[q] /\ call'[q] = call[q]
          BY <1>a, <1>b, <2>1, <3>2
        <4> QED
          BY <4>1, RingTypes DEF RingInv, ClaimInv
      <3> QED
        BY <3>1, <3>2
    <2>2. ASSUME NEW q \in Threads, NEW r \in Threads, Pending(q)', Pending(r)', sequence'[q] = sequence'[r]
          PROVE  q = r
      <3>1. \A x \in Threads \ {p} : Pending(x)' => sequence'[x] = sequence[x] /\ sequence[x] < nextClaimable
        BY <1>a, <1>b DEF RingInv, ClaimInv
      <3>2. CASE q = p \/ r = p
        BY <1>a, <2>2, <3>1, <3>2, RingTypes
      <3>3. CASE q # p /\ r # p
        BY <1>a, <1>b, <2>2, <3>3 DEF RingInv, ClaimInv
      <3> QED
        BY <3>2, <3>3
    <2> QED
      BY <1>0, <2>1, <2>2 DEF ClaimInv
  <1>3. SlotInv'
    <2>1. \A q \in Threads : \A x : Writes(q, x) => Writes(q, x)'
      BY <1>0, <1>a DEF Writes
    <2> QED
      BY <1>0, <2>1 DEF RingInv, SlotInv
  <1> QED
    BY <1>1, <1>2, <1>3 DEF RingInv

(* The slot that claim_one() waited for is empty.                          *)
LEMMA SlotIsEmpty ==
  ASSUME TypeOK, RingInv, NEW p \in Threads, call[p] = "claim", SlotFree(sequence[p])
  PROVE  buffer[Slot(sequence[p])] = NoTimer
  <1> DEFINE s == sequence[p]
  <1>0. /\ s \in Nat /\ Slot(s) \in Ring /\ consumed \in Int /\ nextSequence \in Nat
        /\ consumed < nextSequence /\ nextSequence <= s /\ s <= consumed + RingSize
        /\ published[Slot(s)] # s
    BY RingTypes DEF RingInv, SeqInv, ClaimInv, Pending, SlotFree
  <1>1. ASSUME buffer[Slot(s)] # NoTimer
        PROVE  FALSE
    <2>1. PICK r \in nextSequence..(consumed + RingSize) :
            /\ Slot(r) = Slot(s)
            /\ published[Slot(s)] = r \/ \E q \in Threads : Writes(q, r)
      BY <1>0, <1>1 DEF RingInv, SlotInv
    <2>2. r \in consumed+1..consumed+RingSize /\ s \in consumed+1..consumed+RingSize
      BY <1>0
    <2>3. r = s
      BY <1>0, <2>1, <2>2, SameSlot
    <2>4. PICK q \in Threads : Writes(q, s)
      BY <1>0, <2>1, <2>3
    <2>5. q = p
      BY <2>4 DEF RingInv, ClaimInv, Pending, Writes
    <2> QED
      BY <2>4, <2>5 DEF Writes
  <1> QED
    BY <1>1

LEMMA WriteRing ==
  ASSUME IInv, RingInv, NEW p \in Threads, WriteSlot(p)
  PROVE  RingInv'
  <1>s. PICK s \in Nat : s = sequence[p]
    BY RingTypes DEF IInv
  <1>k. PICK k \in Ring : k = Slot(s)
    BY <1>s, RingTypes DEF IInv
  <1>0. /\ TypeOK /\ arg[p] \in Timers /\ arg[p] # NoTimer
        /\ call[p] = "claim" /\ s <= consumed + RingSize
        /\ call' = [call EXCEPT ![p] = "publish"] /\ buffer' = [buffer EXCEPT ![k] = arg[p]]
        /\ UNCHANGED <<published, nextClaimable, consumed, nextSequence, taken, dispatch, sequence>>
    BY <1>s, <1>k DEF WriteSlot, IInv, ConstructedInv, loop, SlotFree, TypeOK
  <1>a. /\ s \in Nat /\ k \in Ring
        /\ call'[p] = "publish" /\ \A q \in Threads \ {p} : call'[q] = call[q]
        /\ buffer'[k] # NoTimer /\ \A i \in Ring \ {k} : buffer'[i] = buffer[i]
    BY <1>0, <1>k DEF TypeOK, Ring
  <1>b. \A q \in Threads : Pending(q)' <=> Pending(q)
    BY <1>0, <1>a DEF Pending
  <1>c. /\ nextSequence <= s /\ s \in nextSequence..(consumed + RingSize)
        /\ nextSequence \in Nat /\ consumed \in Int
    BY <1>0, <1>s, <1>a, RingTypes DEF RingInv, ClaimInv, Pending
  <1>1. SeqInv'
    BY <1>0 DEF RingInv, SeqInv
  <1>2. ClaimInv'
    <2>1. ASSUME NEW q \in Threads, Pending(q)', call'[q] = "publish"
          PROVE  sequence[q] <= consumed + RingSize /\ buffer'[Slot(sequence[q])] # NoTimer
      <3>1. CASE q = p
        BY <1>0, <1>s, <1>k, <1>a, <3>1
      <3>2. CASE q # p
        <4>1. call[q] = "publish" /\ sequence[q] <= consumed + RingSize /\ buffer[Slot(sequence[q])] # NoTimer
          BY <1>a, <1>b, <2>1, <3>2 DEF RingInv, ClaimInv
        <4> QED
          BY <1>0, <1>a, <4>1, RingTypes
      <3> QED
        BY <3>1, <3>2
    <2> QED
      BY <1>0, <1>b, <2>1 DEF RingInv, ClaimInv
  <1>3. SlotInv'
    <2>1. \A q \in Threads : \A x : Writes(q, x) => Writes(q, x)'
      BY <1>0, <1>a DEF Writes
    <2>2. ASSUME NEW i \in Ring, published[i] >= nextSequence
          PROVE  published[i] <= consumed + RingSize /\ buffer'[i] # NoTimer
      BY <1>a, <2>2 DEF RingInv, SlotInv
    <2>3. ASSUME NEW i \in Ring, buffer'[i] # NoTimer
          PROVE  \E x \in nextSequence..(consumed + RingSize) :
                   Slot(x) = i /\ (published[i] = x \/ \E q \in Threads : Writes(q, x)')
      <3>1. CASE i = k
        <4>1. \E q \in Threads : Writes(q, s)'
          BY <1>0, <1>a, <1>s DEF Writes
        <4>2. Slot(s) = i
          BY <1>k, <3>1
        <4> QED
          BY <1>c, <4>1, <4>2
      <3>2. CASE i # k
        BY <1>a, <2>1, <2>3, <3>2 DEF RingInv, SlotInv
      <3> QED
        BY <3>1, <3>2
    <2> QED
      BY <1>0, <2>2, <2>3 DEF SlotInv
  <1> QED
    BY <1>1, <1>2, <1>3 DEF RingInv

LEMMA PublishRing ==
  ASSUME TypeOK, RingInv, NEW p \in Threads, Publish(p)
  PROVE  RingInv'
  <1> DEFINE s == sequence[p]
             k == Slot(s)
  <1>0. /\ call[p] = "publish" /\ call' = [call EXCEPT ![p] = "none"]
        /\ published' = [published EXCEPT ![k] = s]
        /\ UNCHANGED <<buffer, nextClaimable, consumed, nextSequence, taken, dispatch, sequence>>
    BY DEF Publish, loop
  <1>a. /\ s \in Nat /\ k \in Ring
        /\ call'[p] = "none" /\ \A q \in Threads \ {p} : call'[q] = call[q]
        /\ published'[k] = s /\ \A i \in Ring \ {k} : published'[i] = published[i]
    BY <1>0, RingTypes DEF TypeOK, Ring
  <1>b. ~Pending(p)' /\ \A q \in Threads \ {p} : Pending(q)' <=> Pending(q)
    BY <1>0, <1>a DEF Pending
  <1>c. /\ nextSequence <= s /\ s < nextClaimable /\ s <= consumed + RingSize /\ buffer[k] # NoTimer
        /\ \A q \in Threads : Pending(q) /\ sequence[q] = s => q = p
        /\ nextSequence \in Nat /\ consumed \in Int /\ nextClaimable \in Nat
    BY <1>0, RingTypes DEF RingInv, ClaimInv, Pending
  <1>d. k = Slot(s) /\ s = sequence[p]
    OBVIOUS
  <1> HIDE DEF s, k
  <1>1. SeqInv'
    BY <1>0, <1>a, <1>c DEF RingInv, SeqInv
  <1>2. ClaimInv'
    <2>1. ASSUME NEW q \in Threads, Pending(q)'
          PROVE  published'[Slot(sequence[q])] # sequence[q]
      <3>1. q # p /\ Pending(q) /\ sequence[q] # s
        BY <1>b, <1>c, <2>1
      <3>2. Slot(sequence[q]) \in Ring /\ published[Slot(sequence[q])] # sequence[q]
        BY <3>1, RingTypes DEF RingInv, ClaimInv
      <3> QED
        BY <1>a, <3>1, <3>2
    <2>2. \A q \in Threads : Pending(q)' => Pending(q) /\ call'[q] = call[q]
      BY <1>a, <1>b
    <2> QED
      BY <1>0, <2>1, <2>2 DEF RingInv, ClaimInv
  <1>3. SlotInv'
    <2>1. ASSUME NEW i \in Ring, published'[i] >= nextSequence
          PROVE  published'[i] <= consumed + RingSize /\ buffer[i] # NoTimer
      BY <1>a, <1>c, <2>1 DEF RingInv, SlotInv
    <2>2. ASSUME NEW i \in Ring, buffer[i] # NoTimer
          PROVE  \E x \in nextSequence..(consumed + RingSize) :
                   Slot(x) = i /\ (published'[i] = x \/ \E q \in Threads : Writes(q, x)')
      <3>1. CASE i = k
        <4>1. s \in nextSequence..(consumed + RingSize)
          BY <1>a, <1>c
        <4> QED
          BY <1>a, <1>d, <3>1, <4>1
      <3>2. CASE i # k
        <4>1. PICK x \in nextSequence..(consumed + RingSize) :
                Slot(x) = i /\ (published[i] = x \/ \E q \in Threads : Writes(q, x))
          BY <2>2 DEF RingInv, SlotInv
        <4>2. CASE published[i] = x
          BY <1>a, <3>2, <4>1, <4>2
        <4>3. ASSUME NEW q \in Threads, Writes(q, x)
              PROVE  Writes(q, x)'
          <5>1. q # p
            BY <1>d, <3>2, <4>1, <4>3 DEF Writes
          <5> QED
            BY <1>0, <1>a, <4>3, <5>1 DEF Writes
        <4> QED
          BY <4>1, <4>2, <4>3
      <3> QED
        BY <3>1, <3>2
    <2> QED
      BY <1>0, <2>1, <2>2 DEF SlotInv
  <1> QED
    BY <1>1, <1>2, <1>3 DEF RingInv

(* The slots that the dispatch thread empties.                             *)
LEMMA TakeRing ==
  ASSUME TypeOK, RingInv, TakePublished
  PROVE  /\ RingInv'
         /\ \A s \in Available : buffer[Slot(s)] # NoTimer /\ Slot(s) \in Ring
  <1>m. PICK m \in Nat :
          /\ m = nextSequence + Cardinality(Available) /\ nextSequence <= m
          /\ \A s : s \in Available <=> s \in Nat /\ nextSequence <= s /\ s < m
    BY AvailableRun
  <1>0. /\ nextSequence' = m /\ dispatch = "wait" /\ dispatch' = "consume"
        /\ buffer' = [i \in Ring |-> IF \E s \in Available : Slot(s) = i THEN NoTimer ELSE buffer[i]]
        /\ UNCHANGED <<published, nextClaimable, consumed, call, sequence>>
    BY <1>m DEF TakePublished, Idling, calls, Ring
  <1>1. nextSequence \in Nat /\ consumed \in Int /\ nextClaimable \in Nat /\ nextSequence = consumed + 1
    BY <1>0, RingTypes DEF RingInv, SeqInv
  <1>2. ASSUME NEW s \in Available
        PROVE  /\ s \in Nat /\ nextSequence <= s /\ s < m /\ published[Slot(s)] = s /\ Slot(s) \in Ring
               /\ s <= consumed + RingSize /\ s < nextClaimable /\ buffer[Slot(s)] # NoTimer
    <2>1. s \in Nat /\ nextSequence <= s /\ s < m
      BY <1>1, <1>m, <1>2
    <2>2. published[Slot(s)] = s /\ Slot(s) \in Ring
      <3>1. \A r \in nextSequence..s : IsPublished(r)
        BY <1>2 DEF Available
      <3> QED
        BY <1>1, <2>1, <3>1, RingTypes DEF IsPublished
    <2> QED
      BY <1>1, <2>1, <2>2 DEF RingInv, SlotInv, SeqInv
  <1>3. nextSequence <= m
    BY <1>m
  <1>4. SeqInv'
    <2>1. m <= nextClaimable
      <3>1. CASE m = nextSequence
        BY <3>1 DEF RingInv, SeqInv
      <3>2. CASE m > nextSequence
        <4>1. m - 1 \in Available
          <5>1. m - 1 \in Nat /\ nextSequence <= m - 1 /\ m - 1 < m
            BY <1>1, <3>2
          <5> QED
            BY <1>m, <5>1
        <4> QED
          BY <1>1, <1>2, <4>1
      <3> QED
        BY <1>1, <1>3, <3>1, <3>2
    <2> QED
      BY <1>0, <1>1, <1>3, <2>1 DEF RingInv, SeqInv
  <1>5. ASSUME NEW s \in nextSequence..(consumed + RingSize), Slot(s) \in Ring, buffer'[Slot(s)] = NoTimer,
               buffer[Slot(s)] # NoTimer
        PROVE  s \in Available
    <2>1. PICK r \in Available : Slot(r) = Slot(s)
      BY <1>0, <1>5
    <2>2. r \in consumed+1..consumed+RingSize /\ s \in consumed+1..consumed+RingSize
      BY <1>1, <1>2
    <2>3. r = s
      BY <1>1, <2>1, <2>2, SameSlot
    <2> QED
      BY <2>3
  <1>6. ClaimInv'
    <2>1. ASSUME NEW p \in Threads, Pending(p)
          PROVE  /\ m <= sequence[p]
                 /\ call[p] = "publish" => buffer'[Slot(sequence[p])] # NoTimer
      <3>1. /\ sequence[p] \in Nat /\ Slot(sequence[p]) \in Ring
            /\ nextSequence <= sequence[p] /\ published[Slot(sequence[p])] # sequence[p]
            /\ call[p] = "publish" =>
                 sequence[p] <= consumed + RingSize /\ buffer[Slot(sequence[p])] # NoTimer
        BY <2>1, RingTypes DEF RingInv, ClaimInv
      <3>2. sequence[p] \notin Available
        BY <1>2, <3>1
      <3>3. m <= sequence[p]
        BY <1>m, <1>1, <3>1, <3>2
      <3>4. call[p] = "publish" => sequence[p] \in nextSequence..(consumed + RingSize)
        BY <1>1, <3>1
      <3> QED
        BY <1>5, <3>1, <3>2, <3>3, <3>4
    <2>2. \A p \in Threads : Pending(p)' <=> Pending(p)
      BY <1>0 DEF Pending
    <2> QED
      BY <1>0, <2>1, <2>2 DEF RingInv, ClaimInv
  <1>7. SlotInv'
    <2>1. \A q \in Threads : \A x : Writes(q, x)' <=> Writes(q, x)
      BY <1>0 DEF Writes
    <2>2. ASSUME NEW i \in Ring, published[i] >= m
          PROVE  published[i] <= consumed + RingSize /\ buffer'[i] # NoTimer
      <3>1. published[i] \in Int /\ published[i] <= consumed + RingSize /\ buffer[i] # NoTimer
        BY <1>1, <1>3, <2>2, RingTypes DEF RingInv, SlotInv
      <3>2. \A s \in Available : Slot(s) # i
        BY <1>2, <2>2, <3>1
      <3> QED
        BY <1>0, <3>1, <3>2
    <2>3. ASSUME NEW i \in Ring, buffer'[i] # NoTimer
          PROVE  \E x \in m..(consumed + RingSize) :
                   Slot(x) = i /\ (published[i] = x \/ \E q \in Threads : Writes(q, x)')
      <3>1. buffer[i] # NoTimer /\ \A s \in Available : Slot(s) # i
        BY <1>0, <2>3
      <3>2. PICK x \in nextSequence..(consumed + RingSize) :
              Slot(x) = i /\ (published[i] = x \/ \E q \in Threads : Writes(q, x))
        BY <3>1 DEF RingInv, SlotInv
      <3>3. x \in m..(consumed + RingSize)
        <4>1. x \in Nat /\ nextSequence <= x /\ x \notin Available
          BY <1>1, <3>1, <3>2
        <4> QED
          BY <1>m, <1>1, <3>2, <4>1
      <3> QED
        BY <2>1, <3>2, <3>3
    <2> QED
      BY <1>0, <2>2, <2>3 DEF SlotInv
  <1> QED
    BY <1>2, <1>4, <1>6, <1>7 DEF RingInv

LEMMA WiderWindow ==
  ASSUME NEW a \in Int, NEW b \in Int, NEW c \in Int, NEW n \in Int, b <= c,
         NEW x \in a..(b + n)
  PROVE  x \in a..(c + n)
  OBVIOUS

LEMMA ConsumeRing ==
  ASSUME TypeOK, RingInv, Consume
  PROVE  RingInv'
  <1>0. /\ consumed' = nextSequence - 1 /\ taken' = {} /\ dispatch' = "scan"
        /\ UNCHANGED <<published, buffer, nextClaimable, nextSequence, call, sequence>>
    BY DEF Consume, calls
  <1>1. /\ nextSequence \in Nat /\ consumed \in Int /\ consumed < nextSequence
        /\ \A i \in Ring : published[i] \in Int
        /\ \A p \in Threads : sequence[p] \in Nat
    BY RingTypes DEF RingInv, SeqInv
  <1>2. \A p \in Threads : (Pending(p)' <=> Pending(p)) /\ \A x : Writes(p, x)' <=> Writes(p, x)
    BY <1>0 DEF Pending, Writes
  <1>3. consumed + RingSize <= consumed' + RingSize /\ consumed' \in Int
    BY <1>0, <1>1
  <1>4. SeqInv'
    BY <1>0, <1>1 DEF RingInv, SeqInv
  <1>5. ClaimInv'
    BY <1>0, <1>1, <1>2, <1>3 DEF RingInv, ClaimInv
  <1>6. SlotInv'
    <2>1. ASSUME NEW x \in nextSequence..(consumed + RingSize)
          PROVE  x \in nextSequence..(consumed' + RingSize)
      <3>1. nextSequence \in Int /\ consumed \in Int /\ consumed' \in Int /\ RingSize \in Int
            /\ consumed <= consumed'
        BY <1>0, <1>1
      <3> QED
        BY <2>1, <3>1, WiderWindow, Zenon
    <2> QED
      BY <1>0, <1>1, <1>2, <1>3, <2>1 DEF RingInv, SlotInv
  <1> QED
    BY <1>4, <1>5, <1>6 DEF RingInv

LEMMA NextRing ==
  ASSUME IInv, RingInv, [Next]_vars
  PROVE  RingInv'
  <1>0. TypeOK
    BY DEF IInv
  <1>1. CASE TakePublished
    BY <1>0, <1>1, TakeRing
  <1>2. CASE Consume
    BY <1>0, <1>2, ConsumeRing
  <1>3. ASSUME NEW p \in Threads, NEW t \in Timers, Queue(p, t) \/ Shutdown(p, t)
        PROVE  RingInv'
    BY <1>0, <1>3, QueueRing DEF Queue, Shutdown
  <1>4. ASSUME NEW p \in Threads, WriteSlot(p) \/ Publish(p)
        PROVE  RingInv'
    BY <1>0, <1>4, WriteRing, PublishRing
  <1>5. ASSUME NEW p \in Threads, Disarm(p) \/ DisarmWait(p)
        PROVE  RingQuiet
    BY <1>0, <1>5 DEF Disarm, DisarmReturns, DisarmWait, RingQuiet, Pending, loop, TypeOK
  <1>6. ASSUME NEW p \in Threads, NEW t \in Timers, SelfDisarm(p, t) \/ BeginDisarm(p, t)
        PROVE  RingQuiet
    BY <1>0, <1>6 DEF SelfDisarm, BeginDisarm, MayCall, RingQuiet, Pending, loop, calls, TypeOK
  <1>7. CASE LoopTop \/ WaitTimeout \/ CallbackReturns \/ ScanDone
    <2>1. RingQuiet
      BY <1>7 DEF LoopTop, WaitTimeout, CallbackReturns, ScanDone, Idling, RingQuiet, Pending, calls, items
    <2> QED
      BY <2>1, QuietRing
  <1>8. ASSUME NEW t \in Timers, Fire(t)
        PROVE  RingQuiet
    BY <1>8 DEF Fire, Idling, RingQuiet, Pending, calls
  <1>9. CASE Rearm \/ Retire
    <2>1. \A p \in Threads : Pending(p) \/ Pending(p)' => call'[p] = call[p]
      BY <1>0, <1>9 DEF Rearm, Retire, Notified, Pending, TypeOK
    <2>2. RingQuiet
      BY <1>9, <2>1 DEF Rearm, Retire, Idling, RingQuiet
    <2> QED
      BY <2>2, QuietRing
  <1>10. CASE Tick \/ UNCHANGED vars
    <2>1. RingQuiet
      BY <1>10 DEF Tick, vars, RingQuiet, Pending, calls, items, loop
    <2> QED
      BY <2>1, QuietRing
  <1> QED
    BY <1>1, <1>2, <1>3, <1>4, <1>5, <1>6, <1>7, <1>8, <1>9, <1>10, QuietRing
       DEF Next, DispatchLoop, CallStep, CallBegins
-----------------------------------------------------------------------------
(* Where a timer is: in the hands of a caller that waits for its slot, in  *)
(* a slot, or in one of the dispatch thread's lists.                       *)

Armed(t) == state[t] \in {"Idle"} \cup InCallbackStates
Claims(p, t) == call[p] = "claim" /\ arg[p] = t
Claimed(t) == \E p \in Threads : Claims(p, t)
Buffered(t) == \E i \in Ring : buffer[i] = t
Listed(t) == t \in taken \cup waitQueue \cup rescheduled \cup {current}

PlacedOnce(t) ==
  /\ \A p, q \in Threads : Claims(p, t) /\ Claims(q, t) => p = q
  /\ \A i, j \in Ring : buffer[i] = t /\ buffer[j] = t => i = j
  /\ ~(Claimed(t) /\ Buffered(t))
  /\ ~(Claimed(t) /\ Listed(t))
  /\ ~(Buffered(t) /\ Listed(t))
  /\ Armed(t) => Claimed(t) \/ Buffered(t) \/ Listed(t)

ListsInv ==
  /\ taken \cap (waitQueue \cup rescheduled \cup {current}) = {}
  /\ waitQueue \cap (rescheduled \cup {current}) = {}
  /\ current \notin rescheduled
  /\ NoTimer \notin taken \cup waitQueue \cup rescheduled

Placed == ListsInv /\ \A t \in Timers : PlacedOnce(t)

LEMMA StaysPlaced ==
  ASSUME NEW t \in Timers, PlacedOnce(t),
         \A p \in Threads : Claims(p, t)' <=> Claims(p, t),
         \A i \in Ring : buffer'[i] = t <=> buffer[i] = t,
         Listed(t)' <=> Listed(t),
         Armed(t)' => Armed(t)
  PROVE  PlacedOnce(t)'
  <1>1. (Claimed(t)' <=> Claimed(t)) /\ (Buffered(t)' <=> Buffered(t))
    BY DEF Claimed, Buffered
  <1> QED
    BY <1>1 DEF PlacedOnce

LEMMA InitPlaced == Init => Placed
  <1> SUFFICES ASSUME Init PROVE Placed
    OBVIOUS
  <1>1. ListsInv
    BY DEF Init, ListsInv
  <1>2. ASSUME NEW t \in Timers
        PROVE  PlacedOnce(t)
    <2>1. t # NoTimer /\ ~Claimed(t) /\ ~Buffered(t) /\ ~Listed(t) /\ ~Armed(t)
      BY DEF Init, Claimed, Claims, Buffered, Listed, Armed, Ring, InCallbackStates
    <2> QED
      BY <2>1 DEF PlacedOnce, Claimed, Buffered
  <1> QED
    BY <1>1, <1>2 DEF Placed

LEMMA QueuePlaced ==
  ASSUME IInv, Placed, NEW p \in Threads, NEW t \in Timers, NEW d, NEW i,
         NEW s \in {"Idle", "Disarmed"}, QueueTimer(p, t, d, i, s)
  PROVE  Placed'
  <1>0. /\ call[p] = "none" /\ state[t] = "none"
        /\ call' = [call EXCEPT ![p] = "claim"] /\ arg' = [arg EXCEPT ![p] = t]
        /\ state' = [state EXCEPT ![t] = s]
        /\ UNCHANGED <<buffer, taken, waitQueue, rescheduled, current>>
    BY DEF QueueTimer, MayCall, loop
  <1>a. /\ call'[p] = "claim" /\ arg'[p] = t
        /\ \A q \in Threads \ {p} : call'[q] = call[q] /\ arg'[q] = arg[q]
        /\ \A u \in Timers \ {t} : state'[u] = state[u]
    BY <1>0 DEF IInv, TypeOK
  <1>1. ListsInv'
    BY <1>0 DEF Placed, ListsInv
  <1>2. \A q \in Threads, u \in Timers : Claims(q, u)' <=> Claims(q, u) \/ (q = p /\ u = t)
    BY <1>0, <1>a DEF Claims
  <1>3. ASSUME NEW u \in Timers, u # t
        PROVE  PlacedOnce(u)'
    <2>1. (Listed(u)' <=> Listed(u)) /\ (Armed(u)' => Armed(u))
      BY <1>0, <1>a, <1>3 DEF Listed, Armed
    <2> QED
      BY <1>0, <1>2, <1>3, <2>1, StaysPlaced DEF Placed
  <1>4. PlacedOnce(t)'
    <2>1. ~Claimed(t) /\ ~Buffered(t) /\ ~Listed(t)
      BY <1>0 DEF IInv, InHandInv, ConstructedInv, InCallbackStates, Claimed, Claims, Buffered,
                  Listed, Ring
    <2>2. Claimed(t)' /\ ~Buffered(t)' /\ ~Listed(t)'
      BY <1>0, <1>2, <2>1 DEF Claimed, Buffered, Listed
    <2> QED
      BY <1>0, <1>2, <2>1, <2>2 DEF PlacedOnce, Claimed, Buffered
  <1> QED
    BY <1>1, <1>3, <1>4 DEF Placed

LEMMA WritePlaced ==
  ASSUME IInv, RingInv, Placed, NEW p \in Threads, WriteSlot(p)
  PROVE  Placed'
  <1>k. PICK k \in Ring : k = Slot(sequence[p])
    BY RingTypes DEF IInv
  <1>t. PICK t \in Timers : t = arg[p]
    BY DEF WriteSlot, IInv, ConstructedInv
  <1>0. /\ call[p] = "claim" /\ buffer[k] = NoTimer
        /\ call' = [call EXCEPT ![p] = "publish"] /\ buffer' = [buffer EXCEPT ![k] = t]
        /\ UNCHANGED <<arg, state, taken, waitQueue, rescheduled, current>>
    BY <1>k, <1>t, SlotIsEmpty DEF WriteSlot, IInv, loop, items
  <1>a. /\ call'[p] = "publish" /\ \A q \in Threads \ {p} : call'[q] = call[q]
        /\ buffer'[k] = t /\ \A i \in Ring \ {k} : buffer'[i] = buffer[i]
        /\ t # NoTimer
    BY <1>0 DEF IInv, TypeOK, Ring
  <1>1. ListsInv'
    BY <1>0 DEF Placed, ListsInv
  <1>2. \A q \in Threads, u \in Timers : Claims(q, u)' <=> Claims(q, u) /\ q # p
    BY <1>0, <1>a DEF Claims
  <1>3. \A u \in Timers : (Listed(u)' <=> Listed(u)) /\ (Armed(u)' <=> Armed(u))
    BY <1>0 DEF Listed, Armed
  <1>4. ASSUME NEW u \in Timers, u # t
        PROVE  PlacedOnce(u)'
    <2>1. ~Claims(p, u)
      BY <1>t, <1>4 DEF Claims
    <2>2. \A i \in Ring : buffer'[i] = u <=> buffer[i] = u
      BY <1>0, <1>a, <1>4
    <2> QED
      BY <1>2, <1>3, <2>1, <2>2, StaysPlaced DEF Placed
  <1>5. PlacedOnce(t)'
    <2>1. Claims(p, t) /\ PlacedOnce(t)
      BY <1>0, <1>t DEF Claims, Placed
    <2>2. Claimed(t)
      BY <2>1 DEF Claimed
    <2>3. ~Buffered(t) /\ ~Listed(t)
      BY <2>1, <2>2 DEF PlacedOnce
    <2>4. ~Claimed(t)' /\ Buffered(t)' /\ ~Listed(t)'
      BY <1>2, <1>3, <1>a, <2>1, <2>3 DEF PlacedOnce, Claimed, Buffered
    <2>5. \A i \in Ring : buffer'[i] = t => i = k
      BY <1>a, <2>3 DEF Buffered
    <2> QED
      BY <2>4, <2>5 DEF PlacedOnce, Claimed
  <1> QED
    BY <1>1, <1>4, <1>5 DEF Placed

LEMMA TakePlaced ==
  ASSUME IInv, RingInv, Placed, TakePublished
  PROVE  Placed'
  <1>0. /\ taken = {} /\ taken' = {buffer[Slot(s)] : s \in Available}
        /\ buffer' = [i \in Ring |-> IF \E s \in Available : Slot(s) = i THEN NoTimer ELSE buffer[i]]
        /\ UNCHANGED <<call, arg, state, waitQueue, rescheduled, current>>
    BY DEF TakePublished, Idling, items, calls, Ring, RingInv, SeqInv
  <1>1. \A s \in Available : buffer[Slot(s)] \in Timers /\ Slot(s) \in Ring
    BY TakeRing DEF IInv, TypeOK, Ring
  <1>2. \A p \in Threads, u \in Timers : Claims(p, u)' <=> Claims(p, u)
    BY <1>0 DEF Claims
  <1>3. \A u \in Timers : u \in taken' => Buffered(u)
    BY <1>0, <1>1 DEF Buffered
  <1>4. ListsInv'
    <2>1. ASSUME NEW u \in taken'
          PROVE  u \in Timers /\ u \notin waitQueue \cup rescheduled \cup {current}
      <3>1. u \in Timers /\ Buffered(u)
        BY <1>0, <1>1, <1>3
      <3> QED
        BY <3>1 DEF Placed, PlacedOnce, Listed
    <2>2. \A u \in taken' : u # NoTimer
      BY <2>1
    <2> QED
      BY <1>0, <2>1, <2>2 DEF Placed, ListsInv
  <1>5. ASSUME NEW u \in Timers, u \notin taken'
        PROVE  PlacedOnce(u)'
    <2>1. \A s \in Available : buffer[Slot(s)] # u
      BY <1>0, <1>5
    <2>2. \A i \in Ring : buffer'[i] = u <=> buffer[i] = u
      BY <1>0, <2>1
    <2>3. (Listed(u)' <=> Listed(u)) /\ (Armed(u)' <=> Armed(u))
      BY <1>0, <1>5 DEF Listed, Armed
    <2> QED
      BY <1>2, <2>2, <2>3, StaysPlaced DEF Placed
  <1>6. ASSUME NEW u \in Timers, u \in taken'
        PROVE  PlacedOnce(u)'
    <2>1. PICK s \in Available : buffer[Slot(s)] = u
      BY <1>0, <1>6
    <2>2. Buffered(u) /\ PlacedOnce(u)
      BY <1>3, <1>6 DEF Placed
    <2>3. ~Claimed(u)'
      BY <1>2, <2>2 DEF PlacedOnce, Claimed
    <2>4. \A i \in Ring : buffer'[i] # u
      BY <1>0, <1>1, <2>1, <2>2 DEF PlacedOnce
    <2>5. Listed(u)' /\ ~Buffered(u)'
      BY <1>6, <2>4 DEF Listed, Buffered
    <2> QED
      BY <2>3, <2>4, <2>5 DEF PlacedOnce, Claimed
  <1> QED
    BY <1>4, <1>5, <1>6 DEF Placed

(* Steps that touch no slot and no claim: an item may move between lists,  *)
(* and one that leaves them is no longer armed.                            *)
OffRing ==
  /\ UNCHANGED buffer
  /\ \A p \in Threads, t \in Timers : Claims(p, t)' <=> Claims(p, t)
  /\ \A t \in Timers :
       /\ Listed(t)' => Listed(t)
       /\ Listed(t) => Listed(t)' \/ ~Armed(t)'
       /\ Armed(t)' => Armed(t)

LEMMA OffRingPlaced ==
  ASSUME Placed, OffRing, ListsInv'
  PROVE  Placed'
  <1>1. ASSUME NEW t \in Timers
        PROVE  PlacedOnce(t)'
    <2>1. PlacedOnce(t) /\ (Claimed(t)' <=> Claimed(t)) /\ (Buffered(t)' <=> Buffered(t))
      BY DEF Placed, OffRing, Claimed, Buffered
    <2>2. \A i, j \in Ring : buffer'[i] = t /\ buffer'[j] = t => i = j
      BY <2>1 DEF PlacedOnce, OffRing
    <2>3. \A p, q \in Threads : Claims(p, t)' /\ Claims(q, t)' => p = q
      BY <2>1 DEF PlacedOnce, OffRing
    <2> QED
      BY <2>1, <2>2, <2>3 DEF PlacedOnce, OffRing
  <1> QED
    BY <1>1 DEF Placed

LEMMA NotifiedClaims ==
  ASSUME TypeOK, NEW t, call' = Notified(t), UNCHANGED arg
  PROVE  \A p \in Threads, u \in Timers : Claims(p, u)' <=> Claims(p, u)
  BY DEF Notified, Claims, TypeOK

LEMMA DispatchPlaced ==
  ASSUME IInv, RingInv, Placed, DispatchLoop
  PROVE  Placed'
  <1>0. TypeOK /\ ListsInv
    BY DEF IInv, Placed
  <1>1. CASE TakePublished
    BY <1>1, TakePlaced
  <1>2. CASE LoopTop \/ WaitTimeout \/ CallbackReturns
    <2>1. UNCHANGED <<buffer, call, arg, state, taken, waitQueue, rescheduled, current>>
      BY <1>2 DEF LoopTop, WaitTimeout, CallbackReturns, items, ring, calls
    <2>2. OffRing /\ ListsInv'
      BY <1>0, <2>1 DEF OffRing, ListsInv, Claims, Listed, Armed
    <2> QED
      BY <2>2, OffRingPlaced
  <1>3. CASE Consume
    <2>1. /\ UNCHANGED <<buffer, call, arg, state, rescheduled, current>>
          /\ waitQueue' = waitQueue \cup taken /\ taken' = {}
      BY <1>3 DEF Consume, items, calls
    <2>2. OffRing
      BY <2>1 DEF OffRing, Claims, Listed, Armed
    <2>3. ListsInv'
      BY <1>0, <2>1 DEF ListsInv
    <2> QED
      BY <2>2, <2>3, OffRingPlaced
  <1>4. CASE ScanDone
    <2>1. /\ UNCHANGED <<buffer, call, arg, state, taken, current>>
          /\ waitQueue' = waitQueue \cup rescheduled /\ rescheduled' = {}
      BY <1>4 DEF ScanDone, items, ring, calls
    <2>2. OffRing
      BY <2>1 DEF OffRing, Claims, Listed, Armed
    <2>3. ListsInv'
      BY <1>0, <2>1 DEF ListsInv
    <2> QED
      BY <2>2, <2>3, OffRingPlaced
  <1>5. ASSUME NEW t \in Timers, Fire(t)
        PROVE  Placed'
    <2>1. /\ UNCHANGED <<buffer, call, arg, taken, rescheduled>>
          /\ t \in waitQueue /\ waitQueue' = waitQueue \ {t} /\ current = NoTimer
          /\ state \in [Timers -> {"none", "Idle", "Disarmed"} \cup InCallbackStates]
      BY <1>0, <1>5 DEF Fire, Idling, Front, ring, calls, IInv, InHandInv, TypeOK
    <2>2. CASE state[t] = "Idle"
      <3>1. /\ state' = [state EXCEPT ![t] = "InCallback"] /\ current' = t
        BY <1>5, <2>2 DEF Fire
      <3>2. \A u \in Timers : (Listed(u)' <=> Listed(u)) /\ (Armed(u)' <=> Armed(u))
        BY <2>1, <2>2, <3>1 DEF Listed, Armed, InCallbackStates
      <3>3. OffRing
        BY <2>1, <3>2 DEF OffRing, Claims
      <3>4. ListsInv'
        BY <1>0, <2>1, <3>1 DEF ListsInv
      <3> QED
        BY <3>3, <3>4, OffRingPlaced
    <2>3. CASE state[t] # "Idle"
      <3>1. UNCHANGED <<state, current>>
        BY <1>5, <2>3 DEF Fire
      <3>2. ~Armed(t)
        BY <2>1, <2>3 DEF Armed, IInv, InHandInv
      <3>3. \A u \in Timers \ {t} : Listed(u)' <=> Listed(u)
        BY <2>1, <3>1 DEF Listed
      <3>4. Listed(t) /\ \A u \in Timers : Armed(u)' <=> Armed(u)
        BY <2>1, <3>1 DEF Listed, Armed
      <3>5. OffRing
        BY <2>1, <3>2, <3>3, <3>4 DEF OffRing, Claims
      <3>6. ListsInv'
        BY <1>0, <2>1, <3>1 DEF ListsInv
      <3> QED
        BY <3>5, <3>6, OffRingPlaced
    <2> QED
      BY <2>2, <2>3
  <1>6. CASE Rearm
    <2>1. PICK c \in Timers : c = current
      BY <1>6 DEF Rearm, Idling, IInv, InHandInv, TypeOK
    <2>2. /\ UNCHANGED <<buffer, arg, taken, waitQueue>>
          /\ call' = Notified(c) /\ state' = [state EXCEPT ![c] = "Idle"]
          /\ rescheduled' = rescheduled \cup {c} /\ current' = NoTimer
          /\ state \in [Timers -> {"none", "Idle", "Disarmed"} \cup InCallbackStates]
          /\ state[c] \in InCallbackStates
      BY <1>0, <1>6, <2>1 DEF Rearm, Rearmed, ring, TypeOK, IInv, InHandInv
    <2>3. \A u \in Timers : (Listed(u)' <=> Listed(u)) /\ (Armed(u)' <=> Armed(u))
      BY <2>1, <2>2 DEF Listed, Armed
    <2>4. OffRing
      BY <1>0, <2>2, <2>3, NotifiedClaims DEF OffRing
    <2>5. ListsInv'
      BY <1>0, <2>1, <2>2 DEF ListsInv
    <2> QED
      BY <2>4, <2>5, OffRingPlaced
  <1>7. CASE Retire
    <2>1. PICK c \in Timers : c = current
      BY <1>7 DEF Retire, Idling, IInv, InHandInv, TypeOK
    <2>2. /\ UNCHANGED <<buffer, arg, taken, waitQueue, rescheduled>>
          /\ call' = Notified(c) /\ state' = [state EXCEPT ![c] = "Disarmed"]
          /\ current' = NoTimer
          /\ state \in [Timers -> {"none", "Idle", "Disarmed"} \cup InCallbackStates]
      BY <1>0, <1>7, <2>1 DEF Retire, ring, TypeOK
    <2>3. ~Armed(c)' /\ Listed(c) /\ ~Listed(c)'
      BY <1>0, <2>1, <2>2 DEF Listed, Armed, ListsInv, InCallbackStates
    <2>4. \A u \in Timers \ {c} : (Listed(u)' <=> Listed(u)) /\ (Armed(u)' <=> Armed(u))
      BY <2>1, <2>2 DEF Listed, Armed
    <2>5. OffRing
      BY <1>0, <2>2, <2>3, <2>4, NotifiedClaims DEF OffRing
    <2>6. ListsInv'
      BY <1>0, <2>1, <2>2 DEF ListsInv
    <2> QED
      BY <2>5, <2>6, OffRingPlaced
  <1> QED
    BY <1>1, <1>2, <1>3, <1>4, <1>5, <1>6, <1>7 DEF DispatchLoop

LEMMA NextPlaced ==
  ASSUME IInv, RingInv, Placed, [Next]_vars
  PROVE  Placed'
  <1>0. TypeOK /\ ListsInv
    BY DEF IInv, Placed
  <1>1. CASE DispatchLoop
    BY <1>1, DispatchPlaced
  <1>2. ASSUME NEW p \in Threads, NEW t \in Timers, Queue(p, t) \/ Shutdown(p, t)
        PROVE  Placed'
    BY <1>2, QueuePlaced DEF Queue, Shutdown
  <1>3. ASSUME NEW p \in Threads, WriteSlot(p)
        PROVE  Placed'
    BY <1>3, WritePlaced
  <1>4. ASSUME NEW p \in Threads, Publish(p) \/ Disarm(p) \/ DisarmWait(p)
        PROVE  Placed'
    <2>1. /\ UNCHANGED <<buffer, taken, waitQueue, rescheduled, current>>
          /\ \E c \in {"none", "parked"} : call' = [call EXCEPT ![p] = c]
          /\ arg' = [arg EXCEPT ![p] = NoTimer] \/ UNCHANGED arg
          /\ call[p] \in {"publish", "disarm"}
      BY <1>4 DEF Publish, Disarm, DisarmReturns, DisarmWait, loop, ring
    <2>2. \A q \in Threads, u \in Timers : Claims(q, u)' <=> Claims(q, u)
      BY <1>0, <2>1 DEF Claims, TypeOK
    <2>3. \A u \in Timers : Armed(u)' => Armed(u)
      <3>1. UNCHANGED state \/ state' = [state EXCEPT ![arg[p]] = "Disarmed"]
        BY <1>4 DEF Publish, Disarm, DisarmReturns, DisarmWait, items
      <3> QED
        BY <1>0, <3>1 DEF Armed, TypeOK, InCallbackStates
    <2>4. OffRing /\ ListsInv'
      BY <1>0, <2>1, <2>2, <2>3 DEF OffRing, ListsInv, Listed
    <2> QED
      BY <2>4, OffRingPlaced
  <1>5. ASSUME NEW p \in Threads, NEW t \in Timers, SelfDisarm(p, t)
        PROVE  Placed'
    <2>1. /\ UNCHANGED <<buffer, taken, waitQueue, rescheduled, current, call, arg>>
          /\ state' = [state EXCEPT ![t] = "InCallbackSelfDisarmed"] /\ state[t] = "InCallback"
      BY <1>5 DEF SelfDisarm, loop, ring, calls
    <2>2. \A u \in Timers : Armed(u)' => Armed(u)
      BY <1>0, <2>1 DEF Armed, TypeOK, InCallbackStates
    <2>3. OffRing /\ ListsInv'
      BY <1>0, <2>1, <2>2 DEF OffRing, ListsInv, Listed, Claims
    <2> QED
      BY <2>3, OffRingPlaced
  <1>6. ASSUME NEW p \in Threads, NEW t \in Timers, BeginDisarm(p, t)
        PROVE  Placed'
    <2>1. /\ UNCHANGED <<buffer, taken, waitQueue, rescheduled, current, state>>
          /\ call[p] = "none" /\ call' = [call EXCEPT ![p] = "disarm"] /\ arg' = [arg EXCEPT ![p] = t]
      BY <1>6 DEF BeginDisarm, MayCall, loop, ring, items
    <2>2. \A q \in Threads, u \in Timers : Claims(q, u)' <=> Claims(q, u)
      BY <1>0, <2>1 DEF Claims, TypeOK
    <2>3. OffRing /\ ListsInv'
      BY <1>0, <2>1, <2>2 DEF OffRing, ListsInv, Listed, Armed
    <2> QED
      BY <2>3, OffRingPlaced
  <1>7. CASE Tick \/ UNCHANGED vars
    <2>1. UNCHANGED <<buffer, call, arg, state, taken, waitQueue, rescheduled, current>>
      BY <1>7 DEF Tick, vars, items, ring, loop, calls
    <2>2. OffRing /\ ListsInv'
      BY <1>0, <2>1 DEF OffRing, ListsInv, Claims, Listed, Armed
    <2> QED
      BY <2>2, OffRingPlaced
  <1> QED
    BY <1>1, <1>2, <1>3, <1>4, <1>5, <1>6, <1>7 DEF Next, CallStep, CallBegins

LEMMA PlacedHeldOnce ==
  ASSUME TypeOK, Placed
  PROVE  ArmedHeldOnce
  <1>1. NoTimer \notin taken
    BY DEF Placed, ListsInv
  <1>2. ASSUME NEW t \in Timers
        PROVE  Cardinality(Holders(t)) \in IF Armed(t) THEN {1} ELSE {0, 1}
    <2> DEFINE C == {p \in Threads : Claims(p, t)}
               B == {i \in Ring : buffer[i] = t}
               L == {list \in {"taken", "waitQueue", "rescheduled", "current"} :
                       CASE list = "taken" -> t \in taken
                         [] list = "waitQueue" -> t \in waitQueue
                         [] list = "rescheduled" -> t \in rescheduled
                         [] list = "current" -> t = current}
    <2>0. Holders(t) = C \cup B \cup L
      BY DEF Holders, Ring, Claims
    <2>1. PlacedOnce(t) /\ ListsInv
      BY DEF Placed
    <2>2. (C # {} <=> Claimed(t)) /\ (B # {} <=> Buffered(t))
      BY DEF Claimed, Buffered
    <2>3. L # {} <=> Listed(t)
      BY DEF Listed
    <2>4. \A x, y \in C : x = y
      BY <2>1 DEF PlacedOnce
    <2>5. \A x, y \in B : x = y
      BY <2>1 DEF PlacedOnce
    <2>6. \A x, y \in L : x = y
      BY <2>1 DEF ListsInv
    <2>7. ~(C # {} /\ B # {}) /\ ~(C # {} /\ L # {}) /\ ~(B # {} /\ L # {})
      BY <2>1, <2>2, <2>3 DEF PlacedOnce
    <2>8. Armed(t) => C # {} \/ B # {} \/ L # {}
      BY <2>1, <2>2, <2>3 DEF PlacedOnce
    <2> HIDE DEF C, B, L
    <2>9. \A x, y \in Holders(t) : x = y
      BY <2>0, <2>4, <2>5, <2>6, <2>7
    <2>10. CASE Holders(t) = {}
      <3>1. Cardinality(Holders(t)) = 0 /\ ~Armed(t)
        BY <2>0, <2>8, <2>10, FS_EmptySet
      <3> QED
        BY <3>1
    <2>11. ASSUME NEW x \in Holders(t)
           PROVE  Cardinality(Holders(t)) = 1
      <3>1. Holders(t) = {x}
        BY <2>9
      <3> QED
        BY <3>1, FS_Singleton
    <2> QED
      BY <2>10, <2>11
  <1> QED
    BY <1>1, <1>2 DEF ArmedHeldOnce, Armed

(* The ring never has two items for one slot: a claimed sequence is at     *)
(* most a ring's length ahead of what was consumed when its slot is        *)
(* written, the slot it falls on is empty then, and it stays until the     *)
(* dispatch thread takes that very sequence.                               *)
THEOREM RingInvariance == Spec => [](IInv /\ RingInv)
  <1>1. Init => IInv /\ RingInv
    BY InitInv, InitRing
  <1>2. (IInv /\ RingInv) /\ [Next]_vars => (IInv /\ RingInv)'
    BY NextInv, NextRing
  <1> QED
    BY <1>1, <1>2, PTL DEF Spec

(* An armed timer is in exactly one place, its caller's hands, one slot of *)
(* the ring or one of the dispatch thread's lists: it is never lost,       *)
(* overwritten in the ring or queued twice, whatever the ring's size and   *)
(* however many callers race for its slots.                                *)
THEOREM ArmedOnce == Spec => []ArmedHeldOnce
  <1>1. Init => IInv /\ RingInv /\ Placed
    BY InitInv, InitRing, InitPlaced
  <1>2. (IInv /\ RingInv /\ Placed) /\ [Next]_vars => (IInv /\ RingInv /\ Placed)'
    BY NextInv, NextRing, NextPlaced
  <1>3. IInv /\ RingInv /\ Placed => ArmedHeldOnce
    BY PlacedHeldOnce DEF IInv
  <1> QED
    BY <1>1, <1>2, <1>3, PTL DEF Spec
=============================================================================
