------------------------------ MODULE TimerQueue ------------------------------
(***************************************************************************)
(* The timer queue of src/core/timer_queue.cpp: one dispatch thread that   *)
(* runs every timer callback, and any number of threads that queue timers  *)
(* through a disruptor ring buffer and cancel them with Disarm().          *)
(*                                                                         *)
(* due_ is kept relative to clock::now(): 0 is "due now", a negative value *)
(* is lateness, and one Tick ages every timer by one.  The sorted lists    *)
(* wait_queue_ and wait_items are sets; the front of the list is any item  *)
(* of least due_ (how std::forward_list breaks ties is left open).         *)
(***************************************************************************)
EXTENDS Integers, FiniteSets

CONSTANTS
  Timers,       \* wait items that may ever be constructed
  Clients,      \* threads that call the public API
  Dispatcher,   \* the thread of TimerThreadMain
  NoTimer,
  RingSize,     \* kWaitCount, 512 in the code
  Delays,       \* first due times a caller asks for, relative to now
  Intervals,    \* periods; 0 is "not recurring"
  MaxLag        \* bound: a timer later than MaxLag ticks counts as MaxLag late

ASSUME RingSizeAssumption == RingSize \in Nat \ {0}
ASSUME ThreadsAssumption == Dispatcher \notin Clients
ASSUME NoTimerAssumption == NoTimer \notin Timers
ASSUME TimesAssumption ==
  /\ MaxLag \in Nat
  /\ Delays \subseteq Int
  /\ Intervals \subseteq 0..MaxLag

Threads == Clients \cup {Dispatcher}

VARIABLES
  \* the wait items
  state,           \* TimerQueueWaitItem::state_; "none" before construction
  due,             \* due_ - now()
  interval,
  \* the ring buffer between the callers and the dispatch thread
  nextClaimable,   \* claim_strategy_: next sequence to hand out
  published,       \* claim_strategy_: last sequence published in each slot
  buffer,          \* buffer_: the item stored in each slot
  consumed,        \* consumed_: last sequence the dispatch thread gave back
  \* the dispatch thread
  nextSequence,
  taken,           \* items moved out of the ring, not merged yet
  waitQueue,       \* wait_queue_
  rescheduled,     \* recurring items to merge after the scan
  current,         \* wait_item in hand during its callback
  dispatch,        \* where TimerThreadMain stands
  stopRequested,
  \* the calls in progress, one per thread
  call, arg, sequence,
  \* history: items on which a Disarm() that promises quiescence returned
  disarmed

items == <<state, due, interval>>
ring == <<nextClaimable, published, buffer, consumed>>
loop == <<nextSequence, taken, waitQueue, rescheduled, current, dispatch>>
calls == <<call, arg, sequence>>
vars == <<items, ring, loop, stopRequested, calls, disarmed>>

Slot(s) == s % RingSize
Larger(a, b) == IF a >= b THEN a ELSE b
InCallbackStates == {"InCallback", "InCallbackSelfDisarmed"}

Init ==
  /\ state = [t \in Timers |-> "none"]
  /\ due = [t \in Timers |-> 0 - MaxLag]
  /\ interval = [t \in Timers |-> 0]
  /\ nextClaimable = 0
  /\ published = [i \in 0..RingSize-1 |-> i - RingSize]
  /\ buffer = [i \in 0..RingSize-1 |-> NoTimer]
  /\ consumed = -1
  /\ nextSequence = 0
  /\ taken = {}
  /\ waitQueue = {}
  /\ rescheduled = {}
  /\ current = NoTimer
  /\ dispatch = "top"
  /\ stopRequested = FALSE
  /\ call = [p \in Threads |-> "none"]
  /\ arg = [p \in Threads |-> NoTimer]
  /\ sequence = [p \in Threads |-> 0]
  /\ disarmed = {}

-----------------------------------------------------------------------------
(* Calls into the queue.  A callback runs on the dispatch thread and may   *)
(* itself queue and disarm timers.                                         *)

MayCall(p) ==
  /\ call[p] = "none"
  /\ p = Dispatcher => dispatch = "callback"

(* QueueTimerOnce/Recurring: construct the item, clamp its due time so     *)
(* that it is at most one interval late, take a sequence number.           *)
UnclampedDue(d, i) == d    \* mutation
ClampedDue(d, i) == Larger(0 - i, d)

QueueTimer(p, t, d, i, s) ==
  /\ MayCall(p)
  /\ state[t] = "none"
  /\ state' = [state EXCEPT ![t] = s]
  /\ due' = [due EXCEPT ![t] = ClampedDue(d, i)]
  /\ interval' = [interval EXCEPT ![t] = i]
  /\ sequence' = [sequence EXCEPT ![p] = nextClaimable]
  /\ nextClaimable' = nextClaimable + 1
  /\ call' = [call EXCEPT ![p] = "claim"]
  /\ arg' = [arg EXCEPT ![p] = t]
  /\ UNCHANGED <<published, buffer, consumed, loop, disarmed>>

Queue(p, t) ==
  /\ \E d \in Delays, i \in Intervals : QueueTimer(p, t, d, i, "Idle")
  /\ UNCHANGED stopRequested

(* claim_one() spins until the slot's previous item was consumed.          *)
SlotFreeOffByOne(s) == consumed >= s - RingSize - 1    \* mutation
SlotFree(s) == consumed >= s - RingSize

WriteSlot(p) ==
  /\ call[p] = "claim"
  /\ SlotFree(sequence[p])
  /\ buffer' = [buffer EXCEPT ![Slot(sequence[p])] = arg[p]]
  /\ call' = [call EXCEPT ![p] = "publish"]
  /\ UNCHANGED <<items, nextClaimable, published, consumed, loop,
                 stopRequested, arg, sequence, disarmed>>

Publish(p) ==
  /\ call[p] = "publish"
  /\ published' = [published EXCEPT ![Slot(sequence[p])] = sequence[p]]
  /\ call' = [call EXCEPT ![p] = "none"]
  /\ arg' = [arg EXCEPT ![p] = NoTimer]
  /\ UNCHANGED <<items, nextClaimable, buffer, consumed, loop,
                 stopRequested, sequence, disarmed>>

(* The weak_ptr is in the callers' hands once QueueTimer has returned.     *)
Returned(t) ==
  /\ state[t] # "none"
  /\ \A p \in Threads : call[p] \in {"claim", "publish"} => arg[p] # t

(* Disarm() from the callback of the item itself only marks it.            *)
SelfDisarm(p, t) ==
  /\ MayCall(p)
  /\ p = Dispatcher
  /\ state[t] = "InCallback"
  /\ state' = [state EXCEPT ![t] = "InCallbackSelfDisarmed"]
  /\ UNCHANGED <<due, interval, ring, loop, stopRequested, calls, disarmed>>

BeginDisarm(p, t) ==
  /\ MayCall(p)
  /\ Returned(t)
  /\ ~(p = Dispatcher /\ state[t] = "InCallback")
  /\ call' = [call EXCEPT ![p] = "disarm"]
  /\ arg' = [arg EXCEPT ![p] = t]
  /\ UNCHANGED <<items, ring, loop, stopRequested, sequence, disarmed>>

(* The retry loop of Disarm(): CAS Idle -> Disarmed, leave when already    *)
(* Disarmed, and otherwise wait on state_ until the callback has finished. *)
DisarmReturns(p, from) ==
  /\ call[p] = "disarm"
  /\ state[arg[p]] \in from
  /\ state' = [state EXCEPT ![arg[p]] = "Disarmed"]
  /\ disarmed' = disarmed \cup {arg[p]}
  /\ call' = [call EXCEPT ![p] = "none"]
  /\ arg' = [arg EXCEPT ![p] = NoTimer]
  /\ UNCHANGED <<due, interval, ring, loop, stopRequested, sequence>>

DisarmStatesSelf == {"Idle", "InCallbackSelfDisarmed", "Disarmed"}    \* mutation
DisarmStates == {"Idle", "Disarmed"}

Disarm(p) == DisarmReturns(p, DisarmStates)

DisarmWait(p) ==
  /\ call[p] = "disarm"
  /\ state[arg[p]] \in InCallbackStates
  /\ call' = [call EXCEPT ![p] = "parked"]
  /\ UNCHANGED <<items, ring, loop, stopRequested, arg, sequence, disarmed>>

(* state_.notify_all(): every thread parked on t looks at state_ again.    *)
NotNotified(t) == call    \* mutation: no notify_all()
Notified(t) ==
  [p \in Threads |-> IF call[p] = "parked" /\ arg[p] = t THEN "disarm" ELSE call[p]]

(* ~TimerQueue: ask the dispatch thread to stop, then queue a disarmed     *)
(* item that is due at once, so that it looks at the stop token.           *)
ShutdownWithoutKick(p, t) ==    \* mutation: only request_stop()
  /\ p \in Clients
  /\ t \in Timers
  /\ stopRequested' = TRUE
  /\ UNCHANGED <<items, ring, loop, calls, disarmed>>
Shutdown(p, t) ==
  /\ p \in Clients
  /\ ~stopRequested
  /\ stopRequested' = TRUE
  /\ QueueTimer(p, t, 0, 0, "Disarmed")

-----------------------------------------------------------------------------
(* TimerThreadMain                                                         *)

Idling(pc) == dispatch = pc /\ call[Dispatcher] = "none"

LoopTop ==
  /\ Idling("top")
  /\ dispatch' = IF stopRequested THEN "exited" ELSE "wait"
  /\ UNCHANGED <<items, ring, nextSequence, taken, waitQueue, rescheduled,
                 current, stopRequested, calls, disarmed>>

IsPublished(s) == published[Slot(s)] = s

(* The contiguous run of published sequences that starts at nextSequence.  *)
Available ==
  {s \in nextSequence..(nextSequence + RingSize - 1) :
     \A r \in nextSequence..s : IsPublished(r)}

TakePublished ==
  /\ Idling("wait")
  /\ Available # {}
  /\ taken' = {buffer[Slot(s)] : s \in Available}
  /\ buffer' = [i \in 0..RingSize-1 |->
                  IF \E s \in Available : Slot(s) = i THEN NoTimer ELSE buffer[i]]
  /\ nextSequence' = nextSequence + Cardinality(Available)
  /\ dispatch' = "consume"
  /\ UNCHANGED <<items, nextClaimable, published, consumed, waitQueue,
                 rescheduled, current, stopRequested, calls, disarmed>>

Consume ==
  /\ Idling("consume")
  /\ consumed' = nextSequence - 1
  /\ waitQueue' = waitQueue \cup taken
  /\ taken' = {}
  /\ dispatch' = "scan"
  /\ UNCHANGED <<items, nextClaimable, published, buffer, nextSequence,
                 rescheduled, current, stopRequested, calls, disarmed>>

DueNow(t) == due[t] <= 0
Front(t) == t \in waitQueue /\ \A u \in waitQueue : due[t] <= due[u]

WaitTimeout ==
  /\ Idling("wait")
  /\ Available = {}
  /\ \E t \in waitQueue : Front(t) /\ DueNow(t)
  /\ dispatch' = "scan"
  /\ UNCHANGED <<items, ring, nextSequence, taken, waitQueue, rescheduled,
                 current, stopRequested, calls, disarmed>>

(* Pop the front and CAS Idle -> InCallback; a disarmed item is dropped.   *)
Fire(t) ==
  /\ Idling("scan")
  /\ Front(t) /\ DueNow(t)
  /\ waitQueue' = waitQueue \ {t}
  /\ IF state[t] = "Idle"
     THEN /\ state' = [state EXCEPT ![t] = "InCallback"]
          /\ current' = t
          /\ dispatch' = "callback"
     ELSE UNCHANGED <<state, current, dispatch>>
  /\ UNCHANGED <<due, interval, ring, nextSequence, taken, rescheduled,
                 stopRequested, calls, disarmed>>

RecursAlways(t) == interval[t] # 0    \* mutation: forgets the self-disarm
Recurs(t) == interval[t] # 0 /\ state[t] # "InCallbackSelfDisarmed"

CallbackReturns ==
  /\ Idling("callback")
  /\ dispatch' = IF Recurs(current) THEN "rearm" ELSE "retire"
  /\ UNCHANGED <<items, ring, nextSequence, taken, waitQueue, rescheduled,
                 current, stopRequested, calls, disarmed>>

RearmInPlace ==    \* mutation: merged back at once, not after the scan
  /\ Idling("rearm")
  /\ due' = [due EXCEPT ![current] = @ + interval[current]]
  /\ state' = [state EXCEPT ![current] = "Idle"]
  /\ call' = Notified(current)
  /\ waitQueue' = waitQueue \cup {current}
  /\ current' = NoTimer
  /\ dispatch' = "scan"
  /\ UNCHANGED <<interval, ring, nextSequence, taken, rescheduled,
                 stopRequested, arg, sequence, disarmed>>

RearmedUnreset == "InCallback"    \* mutation: kIdle is not stored
Rearmed == "Idle"

Rearm ==
  /\ Idling("rearm")
  /\ due' = [due EXCEPT ![current] = @ + interval[current]]
  /\ state' = [state EXCEPT ![current] = Rearmed]
  /\ call' = Notified(current)
  /\ rescheduled' = rescheduled \cup {current}
  /\ current' = NoTimer
  /\ dispatch' = "scan"
  /\ UNCHANGED <<interval, ring, nextSequence, taken, waitQueue,
                 stopRequested, arg, sequence, disarmed>>

Retire ==
  /\ Idling("retire")
  /\ state' = [state EXCEPT ![current] = "Disarmed"]
  /\ call' = Notified(current)
  /\ current' = NoTimer
  /\ dispatch' = "scan"
  /\ UNCHANGED <<due, interval, ring, nextSequence, taken, waitQueue,
                 rescheduled, stopRequested, arg, sequence, disarmed>>

ScanDone ==
  /\ Idling("scan")
  /\ \A t \in waitQueue : ~DueNow(t)
  /\ waitQueue' = waitQueue \cup rescheduled
  /\ rescheduled' = {}
  /\ dispatch' = "top"
  /\ UNCHANGED <<items, ring, nextSequence, taken, current, stopRequested,
                 calls, disarmed>>

(* Time passes; it never waits for the dispatch thread.                    *)
Tick ==
  /\ due' = [t \in Timers |-> Larger(due[t] - 1, 0 - MaxLag)]
  /\ UNCHANGED <<state, interval, ring, loop, stopRequested, calls, disarmed>>

-----------------------------------------------------------------------------

DispatchLoop ==
  \/ LoopTop \/ TakePublished \/ Consume \/ WaitTimeout
  \/ \E t \in Timers : Fire(t)
  \/ CallbackReturns \/ Rearm \/ Retire \/ ScanDone

(* Steps that finish a call already begun.                                 *)
CallStep(p) == WriteSlot(p) \/ Publish(p) \/ Disarm(p) \/ DisarmWait(p)

CallBegins(p, t) ==
  Queue(p, t) \/ SelfDisarm(p, t) \/ BeginDisarm(p, t) \/ Shutdown(p, t)

Next ==
  \/ DispatchLoop
  \/ \E p \in Threads : CallStep(p)
  \/ \E p \in Threads, t \in Timers : CallBegins(p, t)
  \/ Tick

Spec == Init /\ [][Next]_vars

(* Threads keep running and time passes.  A callback makes finitely many   *)
(* calls of its own and returns (strong fairness: each of its calls makes  *)
(* the return wait).  Nothing makes a client call the queue or the program *)
(* shut down.                                                              *)
Fairness ==
  /\ WF_vars(DispatchLoop)
  /\ SF_vars(CallbackReturns)
  /\ \A p \in Threads : WF_vars(CallStep(p))
  /\ WF_vars(Tick)

FairSpec == Spec /\ Fairness

-----------------------------------------------------------------------------

Lateness == {d \in Int : d >= 0 - MaxLag}

TypeOK ==
  /\ state \in [Timers -> {"none", "Idle", "Disarmed"} \cup InCallbackStates]
  /\ due \in [Timers -> Lateness]
  /\ interval \in [Timers -> 0..MaxLag]
  /\ nextClaimable \in Nat
  /\ published \in [0..RingSize-1 -> Int]
  /\ buffer \in [0..RingSize-1 -> Timers \cup {NoTimer}]
  /\ consumed \in Int
  /\ nextSequence \in Nat
  /\ taken \subseteq Timers \cup {NoTimer}
  /\ waitQueue \subseteq Timers \cup {NoTimer}
  /\ rescheduled \subseteq Timers
  /\ current \in Timers \cup {NoTimer}
  /\ dispatch \in {"top", "wait", "consume", "scan", "callback", "rearm", "retire", "exited"}
  /\ stopRequested \in BOOLEAN
  /\ call \in [Threads -> {"none", "claim", "publish", "disarm", "parked"}]
  /\ arg \in [Threads -> Timers \cup {NoTimer}]
  /\ sequence \in [Threads -> Nat]
  /\ disarmed \subseteq Timers

(* timer_queue.h on Disarm(): "No callbacks will be running after this     *)
(* call."  Once a Disarm() that waits for quiescence has returned, the     *)
(* item is neither in its callback nor able to enter it again, whoever     *)
(* races: other disarmers, a self-disarming callback, a recurring rearm.   *)
NoCallbackAfterDisarm ==
  \A t \in disarmed : state[t] = "Disarmed" /\ current # t

(* The assertion of the scan: an item the dispatch thread pops and cannot  *)
(* move to kInCallback is disarmed, never still in a callback.             *)
PoppedIsIdleOrDisarmed ==
  dispatch = "scan" =>
    \A t \in Timers :
      t \in waitQueue \cup rescheduled => state[t] \in {"Idle", "Disarmed"}

(* Ownership of an item moves from its caller through the ring to the      *)
(* dispatch thread's lists: an armed item is in exactly one of these       *)
(* places, so it is never lost, overwritten in the ring, or queued twice,  *)
(* and the dispatch thread never takes an empty slot.                      *)
Holders(t) ==
  {p \in Threads : call[p] = "claim" /\ arg[p] = t}
    \cup {i \in 0..RingSize-1 : buffer[i] = t}
    \cup {list \in {"taken", "waitQueue", "rescheduled", "current"} :
            CASE list = "taken" -> t \in taken
              [] list = "waitQueue" -> t \in waitQueue
              [] list = "rescheduled" -> t \in rescheduled
              [] list = "current" -> t = current}

ArmedHeldOnce ==
  /\ NoTimer \notin taken
  /\ \A t \in Timers :
       Cardinality(Holders(t))
         \in IF state[t] \in {"Idle"} \cup InCallbackStates THEN {1} ELSE {0, 1}

(* The timer queue implements TimerService, whoever calls it when: one     *)
(* callback at a time, never before its time, once or every interval after *)
(* the time it was due, and not again once it is cancelled.                *)
Phase == [none |-> "none", Idle |-> "armed", InCallback |-> "running",
          InCallbackSelfDisarmed |-> "ending", Disarmed |-> "over"]

Service == INSTANCE TimerService WITH
             phase <- [t \in Timers |-> Phase[state[t]]], quiet <- disarmed

ImplementsTimerService == Service!Spec

(* A callback can block the only dispatch thread for good: by disarming    *)
(* itself twice, or by queueing a timer while the ring is full.            *)
DispatchStuck ==
  \/ call[Dispatcher] = "parked"
  \/ call[Dispatcher] = "claim" /\ ~SlotFree(sequence[Dispatcher])

(* Every armed timer comes to its callback or is cancelled, however late   *)
(* the recurring timers before it are.                                     *)
EventuallyRuns ==
  \A t \in Timers :
    (state[t] = "Idle" /\ Returned(t))
      ~> (state[t] # "Idle" \/ DispatchStuck \/ stopRequested)

(* A thread that waits in Disarm() for a running callback is woken when    *)
(* the callback has finished.                                              *)
WaitersWake ==
  \A p \in Clients :
    call[p] = "parked" ~> (call[p] # "parked" \/ DispatchStuck)

(* ~TimerQueue joins the dispatch thread: the queued item gets it out of a *)
(* wait without a timeout.                                                 *)
ShutdownJoins ==
  stopRequested ~> (dispatch = "exited" \/ DispatchStuck)

(* timer_queue.h on Disarm(): it waits for the callback "except when       *)
(* called from the corresponding callback itself, where it will mark the   *)
(* wait item for disarmament and return immediately".                      *)
SelfDisarmNeverBlocks == call[Dispatcher] # "parked"
=============================================================================
