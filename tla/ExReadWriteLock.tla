--------------------------- MODULE ExReadWriteLock ---------------------------
(***************************************************************************)
(* The guest kernel's reader/writer lock X_ERWLOCK, as the Ex*ReadWrite-   *)
(* Lock* exports of src/kernel/xboxkrnl/xboxkrnl_threading.cpp implement   *)
(* it.  Four counters live under a spin lock, so every section between     *)
(* xeKeKfAcquireSpinLock and its release is one step.  The waits and the   *)
(* wake-ups come after the spin lock is released and are steps of their    *)
(* own, on an auto-reset event for writers and a semaphore for readers,    *)
(* neither of which says which waiter it wakes.                            *)
(***************************************************************************)
EXTENDS Integers, FiniteSets

CONSTANTS
  Threads,
  Modulus     \* the counters are uint32_t: 2^32 in the code

ASSUME ThreadsAssumption == IsFiniteSet(Threads)
ASSUME ModulusAssumption == Modulus \in Nat /\ Cardinality(Threads) + 1 < Modulus

VARIABLES
  lockCount,         \* lock_count: holders and waiters, less one
  writersWaiting,    \* writers_waiting_count
  readersWaiting,    \* readers_waiting_count
  readersEntry,      \* readers_entry_count: readers in, or let in
  writerEvent,       \* writer_event is signaled
  readerSemaphore,   \* count of reader_semaphore
  pc,                \* where each thread stands in its call
  grant              \* the caller's copy of readers_waiting_count in a release

counters == <<lockCount, writersWaiting, readersWaiting, readersEntry>>
vars == <<counters, writerEvent, readerSemaphore, pc, grant>>

Init ==
  /\ lockCount = -1
  /\ writersWaiting = 0
  /\ readersWaiting = 0
  /\ readersEntry = 0
  /\ writerEvent = FALSE
  /\ readerSemaphore = 0
  /\ pc = [t \in Threads |-> "out"]
  /\ grant = [t \in Threads |-> 0]

At(place) == {t \in Threads : pc[t] = place}
Goes(t, place) == pc' = [pc EXCEPT ![t] = place]

(* uint32_t arithmetic wraps. *)
Plus1(n) == IF n = Modulus - 1 THEN 0 ELSE n + 1
Less1Signed(n) == n - 1    \* mutation: a signed counter
Less1(n) == IF n = 0 THEN Modulus - 1 ELSE n - 1

-----------------------------------------------------------------------------

AcquireExclusive(t) ==
  /\ pc[t] = "out"
  /\ lockCount' = lockCount + 1
  /\ IF lockCount' = 0
     THEN Goes(t, "writing") /\ UNCHANGED writersWaiting
     ELSE Goes(t, "waitWrite") /\ writersWaiting' = Plus1(writersWaiting)
  /\ UNCHANGED <<readersWaiting, readersEntry, writerEvent, readerSemaphore, grant>>

(* A failed attempt changes nothing. *)
TryAcquireExclusiveLate(t) ==    \* mutation: lock_count <= 0
  /\ pc[t] = "out"
  /\ lockCount <= 0
  /\ lockCount' = 0
  /\ Goes(t, "writing")
  /\ UNCHANGED <<writersWaiting, readersWaiting, readersEntry, writerEvent,
                 readerSemaphore, grant>>
TryAcquireExclusive(t) ==
  /\ pc[t] = "out"
  /\ lockCount < 0
  /\ lockCount' = 0
  /\ Goes(t, "writing")
  /\ UNCHANGED <<writersWaiting, readersWaiting, readersEntry, writerEvent,
                 readerSemaphore, grant>>

(* A reader joins the readers that are in, unless a writer is waiting.     *)
MayJoinAlways == readersEntry # 0    \* mutation: overtakes a waiting writer
MayJoin == readersEntry # 0 /\ writersWaiting = 0

AcquireShared(t) ==
  /\ pc[t] = "out"
  /\ lockCount' = lockCount + 1
  /\ IF lockCount' = 0 \/ MayJoin
     THEN /\ Goes(t, "reading")
          /\ readersEntry' = Plus1(readersEntry)
          /\ UNCHANGED readersWaiting
     ELSE /\ Goes(t, "waitRead")
          /\ readersWaiting' = Plus1(readersWaiting)
          /\ UNCHANGED readersEntry
  /\ UNCHANGED <<writersWaiting, writerEvent, readerSemaphore, grant>>

TryAcquireShared(t) ==
  /\ pc[t] = "out"
  /\ lockCount < 0 \/ MayJoin
  /\ lockCount' = lockCount + 1
  /\ readersEntry' = Plus1(readersEntry)
  /\ Goes(t, "reading")
  /\ UNCHANGED <<writersWaiting, readersWaiting, writerEvent, readerSemaphore, grant>>

-----------------------------------------------------------------------------
(* ExReleaseReadWriteLock.  The three ways out of its critical section     *)
(* that leave somebody waiting are an action each.                         *)

Holds(t) == pc[t] \in {"reading", "writing"}

(* Nobody else holds the lock or waits for it. *)
ReleaseLast(t) ==
  /\ Holds(t)
  /\ lockCount' = lockCount - 1
  /\ lockCount' < 0
  /\ readersEntry' = 0
  /\ Goes(t, "out")
  /\ UNCHANGED <<writersWaiting, readersWaiting, writerEvent, readerSemaphore, grant>>

(* A writer leaves and lets in all the readers that wait. *)
ReleaseToReaders(t) ==
  /\ Holds(t)
  /\ lockCount' = lockCount - 1
  /\ lockCount' >= 0
  /\ readersEntry = 0 /\ readersWaiting # 0
  /\ readersWaiting' = 0
  /\ readersEntry' = readersWaiting
  /\ grant' = [grant EXCEPT ![t] = readersWaiting]
  /\ Goes(t, "releaseSemaphore")
  /\ UNCHANGED <<writersWaiting, writerEvent, readerSemaphore>>

(* Otherwise the caller is taken for a reader.  The last one wakes a       *)
(* writer.  A writer that leaves only other writers behind comes here too, *)
(* with readers_entry_count = 0, and the decrement wraps.                  *)
ReleaseToWriterFirst(t) ==    \* mutation: readers_waiting_count is not looked at
  /\ Holds(t)
  /\ lockCount' = lockCount - 1
  /\ lockCount' >= 0
  /\ readersEntry' = Less1(readersEntry)
  /\ IF readersEntry' # 0
     THEN Goes(t, "out") /\ UNCHANGED writersWaiting
     ELSE Goes(t, "setEvent") /\ writersWaiting' = Less1(writersWaiting)
  /\ UNCHANGED <<readersWaiting, writerEvent, readerSemaphore, grant>>
ReleaseToWriterOnly(t) ==    \* mutation: wakes no writer while readers wait
  /\ Holds(t)
  /\ lockCount' = lockCount - 1
  /\ lockCount' >= 0
  /\ readersEntry # 0 \/ readersWaiting = 0
  /\ readersEntry' = Less1(readersEntry)
  /\ IF readersEntry' # 0 \/ readersWaiting # 0
     THEN Goes(t, "out") /\ UNCHANGED writersWaiting
     ELSE Goes(t, "setEvent") /\ writersWaiting' = Less1(writersWaiting)
  /\ UNCHANGED <<readersWaiting, writerEvent, readerSemaphore, grant>>
ReleaseToWriter(t) ==
  /\ Holds(t)
  /\ lockCount' = lockCount - 1
  /\ lockCount' >= 0
  /\ readersEntry # 0 \/ readersWaiting = 0
  /\ readersEntry' = Less1(readersEntry)
  /\ IF readersEntry' # 0
     THEN Goes(t, "out") /\ UNCHANGED writersWaiting
     ELSE Goes(t, "setEvent") /\ writersWaiting' = Less1(writersWaiting)
  /\ UNCHANGED <<readersWaiting, writerEvent, readerSemaphore, grant>>

Release(t) == ReleaseLast(t) \/ ReleaseToReaders(t) \/ ReleaseToWriter(t)

(* The wake-ups, after the spin lock was released. *)
ReleaseSemaphoreOne(t) ==    \* mutation: one token, not readers_waiting_count
  /\ pc[t] = "releaseSemaphore"
  /\ readerSemaphore' = readerSemaphore + 1
  /\ grant' = [grant EXCEPT ![t] = 0]
  /\ Goes(t, "out")
  /\ UNCHANGED <<counters, writerEvent>>

ReleaseSemaphore(t) ==
  /\ pc[t] = "releaseSemaphore"
  /\ readerSemaphore' = readerSemaphore + grant[t]
  /\ grant' = [grant EXCEPT ![t] = 0]
  /\ Goes(t, "out")
  /\ UNCHANGED <<counters, writerEvent>>

SetEvent(t) ==
  /\ pc[t] = "setEvent"
  /\ writerEvent' = TRUE
  /\ Goes(t, "out")
  /\ UNCHANGED <<counters, readerSemaphore, grant>>

(* The waits end.  Any waiter may take the signal. *)
WakeWriter(t) ==
  /\ pc[t] = "waitWrite"
  /\ writerEvent
  /\ writerEvent' = FALSE
  /\ Goes(t, "writing")
  /\ UNCHANGED <<counters, readerSemaphore, grant>>

WakeReader(t) ==
  /\ pc[t] = "waitRead"
  /\ readerSemaphore > 0
  /\ readerSemaphore' = readerSemaphore - 1
  /\ Goes(t, "reading")
  /\ UNCHANGED <<counters, writerEvent, grant>>

-----------------------------------------------------------------------------

Acquire(t) ==
  \/ AcquireExclusive(t) \/ TryAcquireExclusive(t)
  \/ AcquireShared(t) \/ TryAcquireShared(t)

Signal(t) == ReleaseSemaphore(t) \/ SetEvent(t)
Wake(t) == WakeWriter(t) \/ WakeReader(t)

Next == \E t \in Threads : Acquire(t) \/ Release(t) \/ Signal(t) \/ Wake(t)

Spec == Init /\ [][Next]_vars

(* Holders release, and threads keep running inside a call; nobody has to  *)
(* acquire the lock.                                                       *)
Fairness ==
  \A t \in Threads : WF_vars(Release(t)) /\ WF_vars(Signal(t)) /\ WF_vars(Wake(t))

FairSpec == Spec /\ Fairness

-----------------------------------------------------------------------------

Counter == 0..Modulus-1

TypeOK ==
  /\ lockCount \in Int
  /\ writersWaiting \in Counter
  /\ readersWaiting \in Counter
  /\ readersEntry \in Counter
  /\ writerEvent \in BOOLEAN
  /\ readerSemaphore \in Nat
  /\ pc \in [Threads -> {"out", "waitWrite", "waitRead", "writing", "reading",
                         "setEvent", "releaseSemaphore"}]
  /\ grant \in [Threads -> Counter]

(* The lock as its callers see it. *)
Lock == INSTANCE ReadWriteLock WITH readers <- At("reading"), writers <- At("writing")

(* The lock implements ReadWriteLock: whatever the interleaving of         *)
(* releases, late signals and stolen wake-ups, nobody enters beside a      *)
(* writer.                                                                 *)
ImplementsReadWriteLock == Lock!Spec

(* A writer that releases while only writers wait makes                    *)
(* readers_entry_count wrap, wakes nobody, and leaves a lock that nobody   *)
(* holds and nobody can enter.                                             *)
Wedged == readersEntry = Modulus - 1

(* The counters agree with the threads behind them: lock_count with all    *)
(* holders and waiters, and, unless wedged, each waiting or entry counter  *)
(* with the threads it stands for, the wake-ups still under way included.  *)
InFlight ==
  IF At("releaseSemaphore") = {} THEN 0
  ELSE grant[CHOOSE t \in At("releaseSemaphore") : TRUE]
N(place) == Cardinality(At(place))
Signaled == IF writerEvent THEN 1 ELSE 0

CountersExact ==
  /\ lockCount + 1 = N("reading") + N("writing") + N("waitRead") + N("waitWrite")
  /\ writersWaiting + Signaled + N("setEvent") = N("waitWrite")
  /\ readersWaiting + readerSemaphore + InFlight = N("waitRead")
  /\ ~Wedged => readersEntry = N("reading") + readerSemaphore + InFlight

(* No wake-up is lost, but for the one defect above: a lock that nobody    *)
(* holds while threads wait has a signal on its way to one of them.        *)
StalledOnlyIfWedged ==
  /\ At("waitRead") \cup At("waitWrite") # {}
  /\ At("reading") \cup At("writing") = {}
  => \/ writerEvent /\ At("waitWrite") # {}
     \/ readerSemaphore > 0 /\ At("waitRead") # {}
     \/ At("setEvent") \cup At("releaseSemaphore") # {}
     \/ Wedged /\ writersWaiting > 0

(* Only a writer's release makes the lock wedged, and only while another   *)
(* writer waits and no reader does; from then on nobody enters.            *)
WedgedOnlyByWriters ==
  [][/\ ~Wedged /\ Wedged' =>
          /\ At("writing") # {} /\ At("writing")' = {}
          /\ readersWaiting = 0 /\ writersWaiting > 0
     /\ Wedged => Wedged' /\ At("reading")' \cup At("writing")' = {}]_vars

(* A writer waiting is followed by a writer entering, however many readers *)
(* keep arriving, unless the lock wedges; and a reader likewise.           *)
WritersAdmitted ==
  At("waitWrite") # {} ~> (At("writing") # {} \/ Wedged)
ReadersAdmitted ==
  At("waitRead") # {} ~> (At("reading") # {} \/ Wedged)
=============================================================================
