------------------------ MODULE ExReadWriteLockProofs ------------------------
(* Theorems about ExReadWriteLock, for any finite set of threads.          *)
EXTENDS ExReadWriteLock, FiniteSetTheorems, TLAPS

Places == {"out", "waitWrite", "waitRead", "writing", "reading", "setEvent",
           "releaseSemaphore"}

(* The inductive invariant.  The counters are exact (CountersExact), and   *)
(* this is not enough: a wake-up that is still under way must already hold *)
(* the lock for the thread it will wake.  So a writer that is in, a set    *)
(* event and a thread about to set it are one token, of which there is at  *)
(* most one, and while there is one no reader is in or let in.             *)
Handoff == N("writing") + Signaled + N("setEvent")

HandoffInv ==
  /\ Handoff <= 1
  /\ ~Wedged /\ Handoff = 1 => readersEntry = 0
  /\ ~Wedged /\ Handoff = 0 /\ readersEntry = 0 => lockCount = -1
  /\ ~Wedged /\ readersEntry > 0 /\ writersWaiting = 0 => readersWaiting = 0

(* One release of the semaphore is under way at a time. *)
OneGrant ==
  \/ At("releaseSemaphore") = {}
  \/ \E t \in Threads : At("releaseSemaphore") = {t} /\ grant[t] > 0

(* A wedged lock: only waiters are left, and nothing is coming for them. *)
WedgedInv ==
  Wedged => /\ Handoff = 0
            /\ N("reading") = 0
            /\ readerSemaphore = 0
            /\ At("releaseSemaphore") = {}
            /\ writersWaiting > 0

(* Every thread is somewhere. *)
Conserved ==
  N("out") + N("waitWrite") + N("waitRead") + N("writing") + N("reading")
    + N("setEvent") + N("releaseSemaphore") = Cardinality(Threads)

IInv ==
  /\ TypeOK /\ CountersExact /\ HandoffInv /\ OneGrant /\ WedgedInv /\ Conserved

USE ThreadsAssumption, ModulusAssumption

-----------------------------------------------------------------------------
(* Counting threads by place.                                              *)

LEMMA CountType ==
  ASSUME NEW place
  PROVE  /\ IsFiniteSet(At(place))
         /\ N(place) \in Nat
         /\ N(place) = 0 <=> At(place) = {}
  <1>1. IsFiniteSet(At(place))
    BY FS_Subset DEF At
  <1> QED
    BY <1>1, FS_CardinalityType, FS_EmptySet DEF N


LEMMA Moves ==
  ASSUME TypeOK, NEW t \in Threads, NEW a \in Places, NEW b \in Places,
         pc[t] = a, a # b, Goes(t, b)
  PROVE  /\ N(a)' = N(a) - 1
         /\ N(b)' = N(b) + 1
         /\ \A c \in Places \ {a, b} : N(c)' = N(c) /\ At(c)' = At(c)
         /\ At(a)' = At(a) \ {t}
         /\ At(b)' = At(b) \cup {t}
         /\ N(a) > 0
  <1>1. /\ At(a)' = At(a) \ {t}
        /\ At(b)' = At(b) \cup {t}
        /\ \A c \in Places \ {a, b} : At(c)' = At(c)
        /\ t \in At(a)
        /\ t \notin At(b)
    BY DEF At, Goes, TypeOK
  <1>2. N(a)' = N(a) - 1
    <2>1. IsFiniteSet(At(a))
      BY CountType
    <2>2. Cardinality(At(a) \ {t}) = Cardinality(At(a)) - 1
      BY <1>1, <2>1, FS_RemoveElement
    <2> QED
      BY <1>1, <2>2 DEF N
  <1>3. N(b)' = N(b) + 1
    <2>1. IsFiniteSet(At(b))
      BY CountType
    <2> QED
      BY <1>1, <2>1, FS_AddElement DEF N
  <1>4. N(a) > 0
    BY <1>1, CountType
  <1>5. \A c \in Places \ {a, b} : N(c)' = N(c)
    BY <1>1 DEF N
  <1> QED
    BY <1>1, <1>2, <1>3, <1>4, <1>5

LEMMA CounterArithmetic ==
  ASSUME NEW n \in Counter
  PROVE  /\ Plus1(n) \in Counter
         /\ Less1(n) \in Counter
         /\ n < Modulus - 1 => Plus1(n) = n + 1
         /\ n > 0 => Less1(n) = n - 1
         /\ Less1(0) = Modulus - 1
  BY DEF Counter, Plus1, Less1

LEMMA InFlightCases ==
  /\ At("releaseSemaphore") = {} => InFlight = 0
  /\ \A t : At("releaseSemaphore") = {t} => InFlight = grant[t]
  BY DEF InFlight

LEMMA InFlightNext ==
  /\ At("releaseSemaphore")' = {} => InFlight' = 0
  /\ \A t : At("releaseSemaphore")' = {t} => InFlight' = grant'[t]
  BY DEF InFlight

LEMMA InFlightKept ==
  ASSUME TypeOK, OneGrant, At("releaseSemaphore")' = At("releaseSemaphore"),
         UNCHANGED grant
  PROVE  OneGrant' /\ InFlight' = InFlight
  BY InFlightCases, InFlightNext DEF OneGrant

LEMMA InFlightType ==
  ASSUME TypeOK, OneGrant
  PROVE  InFlight \in Nat
  BY InFlightCases DEF OneGrant, TypeOK, Counter

(* What the counts say of each other, for every step's arithmetic. *)
Numbers ==
  /\ N("out") \in Nat /\ N("reading") \in Nat /\ N("writing") \in Nat
  /\ N("waitRead") \in Nat /\ N("waitWrite") \in Nat
  /\ N("setEvent") \in Nat /\ N("releaseSemaphore") \in Nat
  /\ InFlight \in Nat
  /\ Signaled \in Nat /\ Signaled <= 1
  /\ lockCount \in Int
  /\ writersWaiting \in Nat /\ readersWaiting \in Nat
  /\ readersEntry \in Nat /\ readerSemaphore \in Nat
  /\ Cardinality(Threads) \in Nat

LEMMA Bounds ==
  ASSUME IInv
  PROVE  /\ Numbers
         /\ writersWaiting < Modulus - 1
         /\ readersWaiting < Modulus - 1
         /\ ~Wedged => readersEntry < Modulus - 1
         /\ ~Wedged /\ N("out") > 0 => readersEntry < Modulus - 2
  <1>1. /\ N("out") \in Nat /\ N("reading") \in Nat /\ N("writing") \in Nat
        /\ N("waitRead") \in Nat /\ N("waitWrite") \in Nat
        /\ N("setEvent") \in Nat /\ N("releaseSemaphore") \in Nat
    BY CountType
  <1>2. /\ InFlight \in Nat
        /\ Signaled \in Nat /\ Signaled <= 1
        /\ lockCount \in Int
        /\ writersWaiting \in Nat /\ readersWaiting \in Nat
        /\ readersEntry \in Nat /\ readerSemaphore \in Nat
    BY InFlightType DEF IInv, TypeOK, Signaled, Counter
  <1>3. Cardinality(Threads) \in Nat
    BY FS_CardinalityType
  <1>4. Numbers
    BY <1>1, <1>2, <1>3 DEF Numbers
  <1> QED
    BY <1>4 DEF IInv, CountersExact, Conserved, Numbers

(* Nobody holds the lock or waits for it. *)
LEMMA Idle ==
  ASSUME IInv, lockCount < 0
  PROVE  /\ lockCount = -1
         /\ N("reading") = 0 /\ N("writing") = 0
         /\ N("waitRead") = 0 /\ N("waitWrite") = 0
         /\ N("setEvent") = 0 /\ Signaled = 0
         /\ writersWaiting = 0 /\ readersWaiting = 0 /\ readersEntry = 0
         /\ readerSemaphore = 0 /\ InFlight = 0
         /\ ~Wedged
  <1> Numbers /\ CountersExact
    BY Bounds DEF IInv
  <1>1. /\ lockCount + 1 = 0
        /\ N("reading") <= 0 /\ N("writing") <= 0
        /\ N("waitRead") <= 0 /\ N("waitWrite") <= 0
    BY DEF Numbers, CountersExact
  <1>2. /\ N("setEvent") <= 0 /\ Signaled <= 0
        /\ writersWaiting <= 0 /\ readersWaiting <= 0
        /\ readerSemaphore <= 0 /\ InFlight <= 0
    BY <1>1 DEF Numbers, CountersExact
  <1>3. ~Wedged
    BY <1>2 DEF IInv, WedgedInv, Numbers
  <1>4. readersEntry <= 0
    BY <1>1, <1>2, <1>3 DEF Numbers, CountersExact
  <1> QED
    BY <1>1, <1>2, <1>3, <1>4 DEF Numbers

-----------------------------------------------------------------------------
(* One lemma per operation: where the thread went, what became of the      *)
(* counters, and the arithmetic that restores the invariant.               *)

(* Most operations leave the release of the semaphore alone. *)
LEMMA GrantKept ==
  ASSUME IInv, NEW t \in Threads, NEW b \in Places, Goes(t, b), UNCHANGED grant,
         pc[t] # "releaseSemaphore", b # "releaseSemaphore"
  PROVE  OneGrant' /\ InFlight' = InFlight
  <1>1. At("releaseSemaphore")' = At("releaseSemaphore")
    BY DEF Goes, At, IInv, TypeOK
  <1> QED
    BY <1>1, InFlightKept DEF IInv

(* A thread enters a lock that is idle, exclusively. *)
LEMMA EnterIdle ==
  ASSUME IInv, TypeOK', NEW t \in Threads, pc[t] = "out", Goes(t, "writing"),
         lockCount < 0, lockCount' = 0,
         UNCHANGED <<writersWaiting, readersWaiting, readersEntry, writerEvent,
                     readerSemaphore, grant>>
  PROVE  IInv'
  <1> Numbers /\ CountersExact /\ Conserved
    BY Bounds DEF IInv
  <1>1. OneGrant' /\ InFlight' = InFlight
    BY GrantKept DEF Places
  <1>2. Signaled' = Signaled /\ Wedged' = Wedged
    BY DEF Signaled, Wedged
  <1>3. /\ N("out")' = N("out") - 1
        /\ N("writing")' = N("writing") + 1
        /\ UNCHANGED <<N("reading"), N("waitRead"), N("waitWrite"), N("setEvent"),
                       N("releaseSemaphore"), At("releaseSemaphore")>>
    BY Moves DEF IInv, Places
  <1>4. CountersExact'
    <2>1. lockCount' = lockCount + 1
      BY Idle
    <2> QED
      BY <1>1, <1>2, <1>3, <2>1 DEF Numbers, CountersExact
  <1>5. Conserved'
    BY <1>3 DEF Numbers, Conserved
  <1>6. HandoffInv' /\ WedgedInv'
    BY <1>2, <1>3, Idle DEF HandoffInv, WedgedInv, Handoff
  <1> QED
    BY <1>1, <1>4, <1>5, <1>6 DEF IInv

LEMMA AcquireExclusiveInv ==
  ASSUME IInv, NEW t \in Threads, AcquireExclusive(t)
  PROVE  IInv'
  <1> Numbers /\ CountersExact /\ Conserved
    BY Bounds DEF IInv
  <1>1. TypeOK'
    BY CounterArithmetic DEF AcquireExclusive, Goes, IInv, TypeOK
  <1>2. CASE lockCount' = 0
    <2>1. lockCount < 0
      BY <1>2 DEF AcquireExclusive, Numbers
    <2> QED
      BY <1>1, <1>2, <2>1, EnterIdle DEF AcquireExclusive
  <1>3. CASE lockCount' # 0
    <2>1. OneGrant' /\ InFlight' = InFlight
      BY <1>3, GrantKept DEF AcquireExclusive, Places
    <2>2. /\ lockCount' = lockCount + 1
          /\ UNCHANGED <<readersWaiting, readersEntry, readerSemaphore, Signaled>>
          /\ Wedged' = Wedged
      BY DEF AcquireExclusive, Signaled, Wedged
    <2>3. writersWaiting' = writersWaiting + 1
      BY <1>3, Bounds, CounterArithmetic DEF AcquireExclusive, IInv, TypeOK
    <2>4. /\ N("out")' = N("out") - 1
          /\ N("waitWrite")' = N("waitWrite") + 1
          /\ UNCHANGED <<N("reading"), N("waitRead"), N("writing"), N("setEvent"),
                         N("releaseSemaphore"), At("releaseSemaphore")>>
      BY <1>3, Moves DEF AcquireExclusive, IInv, Places
    <2>5. CountersExact'
      BY <2>1, <2>2, <2>3, <2>4 DEF Numbers, CountersExact
    <2>6. Conserved'
      BY <2>4 DEF Numbers, Conserved
    <2>7. HandoffInv' /\ WedgedInv'
      BY <1>3, <2>2, <2>3, <2>4 DEF Numbers, IInv, HandoffInv, WedgedInv, Handoff
    <2> QED
      BY <1>1, <2>1, <2>5, <2>6, <2>7 DEF IInv
  <1> QED
    BY <1>2, <1>3

LEMMA TryAcquireExclusiveInv ==
  ASSUME IInv, NEW t \in Threads, TryAcquireExclusive(t)
  PROVE  IInv'
  <1>1. TypeOK'
    BY DEF TryAcquireExclusive, Goes, IInv, TypeOK
  <1> QED
    BY <1>1, EnterIdle DEF TryAcquireExclusive

(* A reader goes in beside the readers that are in, or into an idle lock. *)
LEMMA EnterSharedInv ==
  ASSUME IInv, NEW t \in Threads, pc[t] = "out", Goes(t, "reading"),
         lockCount < 0 \/ MayJoin,
         lockCount' = lockCount + 1,
         readersEntry' = Plus1(readersEntry),
         UNCHANGED <<writersWaiting, readersWaiting, writerEvent, readerSemaphore, grant>>
  PROVE  IInv'
  <1> Numbers /\ CountersExact /\ Conserved
    BY Bounds DEF IInv
  <1>1. TypeOK'
    BY CounterArithmetic DEF Goes, IInv, TypeOK
  <1>2. OneGrant' /\ InFlight' = InFlight
    BY GrantKept DEF Places
  <1>3. /\ N("out")' = N("out") - 1
        /\ N("out") > 0
        /\ N("reading")' = N("reading") + 1
        /\ UNCHANGED <<N("writing"), N("waitRead"), N("waitWrite"), N("setEvent"),
                       N("releaseSemaphore"), At("releaseSemaphore")>>
        /\ Signaled' = Signaled
    BY Moves DEF IInv, Places, Signaled
  <1>4. writersWaiting = 0 /\ ~Wedged
    BY Idle DEF MayJoin, IInv, WedgedInv
  <1>5. /\ readersEntry < Modulus - 2
        /\ readersEntry' = readersEntry + 1
        /\ ~Wedged'
    BY <1>3, <1>4, Bounds, CounterArithmetic DEF Numbers, IInv, TypeOK, Wedged
  <1>6. Handoff = 0 /\ readersWaiting = 0
    <2>1. CASE lockCount < 0
      BY <2>1, Idle DEF Handoff
    <2>2. CASE MayJoin
      <3>1. Handoff # 1 /\ Handoff <= 1 /\ readersWaiting = 0
        BY <1>4, <2>2 DEF MayJoin, IInv, HandoffInv, Numbers
      <3>2. Handoff \in Nat
        BY DEF Numbers, Handoff
      <3> QED
        BY <3>1, <3>2
    <2> QED
      BY <2>1, <2>2
  <1>7. CountersExact' /\ Conserved'
    BY <1>2, <1>3, <1>4, <1>5 DEF Numbers, CountersExact, Conserved
  <1>8. HandoffInv' /\ WedgedInv'
    BY <1>3, <1>5, <1>6 DEF Numbers, HandoffInv, WedgedInv, Handoff
  <1> QED
    BY <1>1, <1>2, <1>7, <1>8 DEF IInv

LEMMA AcquireSharedInv ==
  ASSUME IInv, NEW t \in Threads, AcquireShared(t)
  PROVE  IInv'
  <1> Numbers /\ CountersExact /\ Conserved
    BY Bounds DEF IInv
  <1>1. CASE lockCount' = 0 \/ MayJoin
    <2>1. lockCount < 0 \/ MayJoin
      BY <1>1 DEF AcquireShared, Numbers
    <2> QED
      BY <1>1, <2>1, EnterSharedInv DEF AcquireShared
  <1>2. CASE ~(lockCount' = 0 \/ MayJoin)
    <2>1. TypeOK'
      BY <1>2, CounterArithmetic DEF AcquireShared, Goes, IInv, TypeOK
    <2>2. OneGrant' /\ InFlight' = InFlight
      BY <1>2, GrantKept DEF AcquireShared, Places
    <2>3. /\ lockCount' = lockCount + 1
          /\ UNCHANGED <<writersWaiting, readersEntry, readerSemaphore, Signaled>>
          /\ Wedged' = Wedged
      BY <1>2 DEF AcquireShared, Signaled, Wedged
    <2>4. readersWaiting' = readersWaiting + 1
      BY <1>2, Bounds, CounterArithmetic DEF AcquireShared, IInv, TypeOK
    <2>5. /\ N("out")' = N("out") - 1
          /\ N("waitRead")' = N("waitRead") + 1
          /\ UNCHANGED <<N("reading"), N("waitWrite"), N("writing"), N("setEvent"),
                         N("releaseSemaphore"), At("releaseSemaphore")>>
      BY <1>2, Moves DEF AcquireShared, IInv, Places
    <2>6. CountersExact' /\ Conserved'
      BY <2>2, <2>3, <2>4, <2>5 DEF Numbers, CountersExact, Conserved
    <2>7. HandoffInv' /\ WedgedInv'
      BY <1>2, <2>3, <2>4, <2>5
         DEF MayJoin, Numbers, IInv, HandoffInv, WedgedInv, Handoff
    <2> QED
      BY <2>1, <2>2, <2>6, <2>7 DEF IInv
  <1> QED
    BY <1>1, <1>2

LEMMA TryAcquireSharedInv ==
  ASSUME IInv, NEW t \in Threads, TryAcquireShared(t)
  PROVE  IInv'
  BY EnterSharedInv DEF TryAcquireShared

(* What a thread that holds the lock may conclude. *)
LEMMA Holder ==
  ASSUME IInv, NEW t \in Threads, Holds(t)
  PROVE  /\ ~Wedged
         /\ pc[t] = "reading" => /\ N("reading") > 0 /\ readersEntry > 0
                                 /\ Handoff = 0
         /\ pc[t] = "writing" => /\ Handoff = 1 /\ readersEntry = 0
                                 /\ N("writing") = 1 /\ N("setEvent") = 0 /\ Signaled = 0
                                 /\ N("reading") = 0 /\ readerSemaphore = 0
                                 /\ InFlight = 0 /\ At("releaseSemaphore") = {}
  <1> Numbers /\ CountersExact /\ HandoffInv
    BY Bounds DEF IInv
  <1>1. Handoff \in Nat /\ Handoff <= 1
    BY DEF Numbers, Handoff, HandoffInv
  <1>2. t \in At(pc[t])
    BY DEF At
  <1>3. CASE pc[t] = "reading"
    <2>1. N("reading") > 0
      BY <1>2, <1>3, CountType DEF Numbers
    <2>2. ~Wedged
      BY <2>1 DEF IInv, WedgedInv, Numbers
    <2>3. readersEntry > 0
      BY <2>1, <2>2 DEF CountersExact, Numbers
    <2>4. Handoff = 0
      BY <1>1, <2>2, <2>3 DEF HandoffInv, Numbers
    <2> QED
      BY <1>3, <2>1, <2>2, <2>3, <2>4
  <1>4. CASE pc[t] = "writing"
    <2>1. N("writing") > 0
      BY <1>2, <1>4, CountType DEF Numbers
    <2>2. /\ N("writing") <= 1 /\ N("setEvent") <= 0 /\ Signaled <= 0 /\ Handoff >= 1
      BY <1>1, <2>1 DEF Numbers, Handoff
    <2>3. Handoff = 1
      BY <1>1, <2>2
    <2>4. ~Wedged /\ readersEntry = 0
      BY <2>3 DEF IInv, WedgedInv, HandoffInv
    <2>5. N("reading") <= 0 /\ readerSemaphore <= 0 /\ InFlight <= 0
      BY <2>4 DEF CountersExact, Numbers
    <2>6. At("releaseSemaphore") = {}
      BY <2>5, InFlightCases DEF IInv, OneGrant, TypeOK, Counter
    <2> QED
      BY <1>4, <2>1, <2>2, <2>3, <2>4, <2>5, <2>6 DEF Numbers
  <1> QED
    BY <1>3, <1>4 DEF Holds

LEMMA ReleaseLastInv ==
  ASSUME IInv, NEW t \in Threads, ReleaseLast(t)
  PROVE  IInv'
  <1> Numbers /\ CountersExact /\ Conserved
    BY Bounds DEF IInv
  <1>1. TypeOK'
    BY DEF ReleaseLast, Goes, IInv, TypeOK, Counter
  <1>2. OneGrant' /\ InFlight' = InFlight
    BY GrantKept DEF ReleaseLast, Holds, Places
  <1>3. /\ lockCount' = lockCount - 1 /\ lockCount <= 0 /\ readersEntry' = 0
        /\ UNCHANGED <<writersWaiting, readersWaiting, readerSemaphore, Signaled>>
        /\ ~Wedged'
    BY DEF ReleaseLast, Signaled, Wedged, Numbers
  <1>4. N("reading") + N("writing") > 0
    BY Holder DEF ReleaseLast, Holds, Numbers
  <1>5. /\ lockCount = 0
        /\ N("reading") + N("writing") = 1
        /\ N("waitRead") = 0 /\ N("waitWrite") = 0
    <2>1. /\ lockCount >= 0 /\ N("reading") + N("writing") <= 1
          /\ N("waitRead") <= 0 /\ N("waitWrite") <= 0
      BY <1>3, <1>4 DEF Numbers, CountersExact
    <2> QED
      BY <1>3, <1>4, <2>1 DEF Numbers
  <1>6. /\ writersWaiting = 0 /\ readersWaiting = 0 /\ N("setEvent") = 0
        /\ Signaled = 0 /\ readerSemaphore = 0 /\ InFlight = 0
    <2>1. /\ writersWaiting <= 0 /\ readersWaiting <= 0 /\ N("setEvent") <= 0
          /\ Signaled <= 0 /\ readerSemaphore <= 0 /\ InFlight <= 0
      BY <1>5 DEF Numbers, CountersExact
    <2> QED
      BY <2>1 DEF Numbers
  <1>7. /\ N("out")' = N("out") + 1
        /\ N("reading")' = 0 /\ N("writing")' = 0
        /\ UNCHANGED <<N("waitRead"), N("waitWrite"), N("setEvent"),
                       N("releaseSemaphore"), At("releaseSemaphore")>>
    <2>1. CASE pc[t] = "reading"
      <3>1. N("reading") = 1 /\ N("writing") = 0
        <4>1. N("reading") >= 1 /\ N("reading") <= 1 /\ N("writing") <= 0
          BY <1>5, <2>1, Holder DEF ReleaseLast, Numbers
        <4> QED
          BY <4>1 DEF Numbers
      <3> QED
        BY <2>1, <3>1, Moves DEF ReleaseLast, IInv, Places
    <2>2. CASE pc[t] = "writing"
      <3>1. N("writing") = 1 /\ N("reading") = 0
        BY <2>2, Holder DEF ReleaseLast
      <3> QED
        BY <2>2, <3>1, Moves DEF ReleaseLast, IInv, Places
    <2> QED
      BY <2>1, <2>2 DEF ReleaseLast, Holds
  <1>8. CountersExact'
    BY <1>2, <1>3, <1>5, <1>6, <1>7 DEF CountersExact
  <1>9. Conserved'
    BY <1>5, <1>7 DEF Numbers, Conserved
  <1>10. HandoffInv' /\ WedgedInv'
    BY <1>3, <1>5, <1>6, <1>7 DEF HandoffInv, WedgedInv, Handoff
  <1> QED
    BY <1>1, <1>2, <1>8, <1>9, <1>10 DEF IInv

LEMMA ReleaseToReadersInv ==
  ASSUME IInv, NEW t \in Threads, ReleaseToReaders(t)
  PROVE  IInv'
  <1> Numbers /\ CountersExact /\ Conserved
    BY Bounds DEF IInv
  <1>1. TypeOK'
    BY DEF ReleaseToReaders, Goes, IInv, TypeOK, Counter
  <1>2. /\ pc[t] = "writing"
        /\ N("writing") = 1 /\ N("setEvent") = 0 /\ Signaled = 0
        /\ N("reading") = 0 /\ readerSemaphore = 0
        /\ InFlight = 0 /\ At("releaseSemaphore") = {}
    <2>1. readersEntry = 0
      BY DEF ReleaseToReaders
    <2> QED
      BY <2>1, Holder DEF ReleaseToReaders, Holds, Numbers
  <1>3. /\ lockCount' = lockCount - 1
        /\ readersWaiting > 0 /\ readersWaiting' = 0
        /\ readersEntry' = readersWaiting
        /\ UNCHANGED <<writersWaiting, readerSemaphore, Signaled>>
        /\ grant'[t] = readersWaiting
    BY DEF ReleaseToReaders, Signaled, Numbers, IInv, TypeOK
  <1>4. ~Wedged'
    BY <1>3, Bounds DEF Wedged, Numbers
  <1>5. /\ N("writing")' = N("writing") - 1
        /\ N("releaseSemaphore")' = N("releaseSemaphore") + 1
        /\ At("releaseSemaphore")' = At("releaseSemaphore") \cup {t}
        /\ UNCHANGED <<N("out"), N("reading"), N("waitRead"), N("waitWrite"), N("setEvent")>>
    BY <1>2, Moves DEF ReleaseToReaders, IInv, Places
  <1>6. At("releaseSemaphore")' = {t} /\ InFlight' = readersWaiting /\ OneGrant'
    <2>1. At("releaseSemaphore")' = {t}
      BY <1>2, <1>5
    <2> QED
      BY <2>1, <1>3, InFlightNext DEF OneGrant
  <1>7. CountersExact'
    <2>1. lockCount' + 1 = N("reading")' + N("writing")' + N("waitRead")' + N("waitWrite")'
      BY <1>3, <1>5 DEF Numbers, CountersExact
    <2>2. writersWaiting' + Signaled' + N("setEvent")' = N("waitWrite")'
      BY <1>3, <1>5 DEF CountersExact
    <2>3. readersWaiting' + readerSemaphore' + InFlight' = N("waitRead")'
      BY <1>2, <1>3, <1>5, <1>6 DEF Numbers, CountersExact
    <2>4. readersEntry' = N("reading")' + readerSemaphore' + InFlight'
      BY <1>2, <1>3, <1>5, <1>6 DEF Numbers
    <2> QED
      BY <2>1, <2>2, <2>3, <2>4 DEF CountersExact
  <1>8. Conserved'
    BY <1>5 DEF Numbers, Conserved
  <1>9. HandoffInv' /\ WedgedInv'
    BY <1>2, <1>3, <1>4, <1>5 DEF HandoffInv, WedgedInv, Handoff, Numbers
  <1> QED
    BY <1>1, <1>6, <1>7, <1>8, <1>9 DEF IInv

(* A reader leaves others in. *)
LEMMA ReaderLeaves ==
  ASSUME IInv, NEW t \in Threads, ReleaseToWriter(t), pc[t] = "reading", readersEntry' # 0
  PROVE  IInv'
  <1> Numbers /\ CountersExact /\ Conserved
    BY Bounds DEF IInv
  <1>1. TypeOK'
    BY CounterArithmetic DEF ReleaseToWriter, Goes, IInv, TypeOK
  <1>2. OneGrant' /\ InFlight' = InFlight
    BY GrantKept DEF ReleaseToWriter, Places
  <1>3. ~Wedged /\ readersEntry > 0 /\ Handoff = 0
    BY Holder DEF ReleaseToWriter
  <1>4. /\ lockCount' = lockCount - 1
        /\ readersEntry' = readersEntry - 1
        /\ UNCHANGED <<writersWaiting, readersWaiting, readerSemaphore, Signaled>>
    BY <1>3, CounterArithmetic DEF ReleaseToWriter, Signaled, IInv, TypeOK
  <1>5. ~Wedged'
    BY <1>3, <1>4, Bounds DEF Wedged, Numbers
  <1>6. /\ N("out")' = N("out") + 1
        /\ N("reading")' = N("reading") - 1
        /\ UNCHANGED <<N("writing"), N("waitRead"), N("waitWrite"), N("setEvent"),
                       N("releaseSemaphore"), At("releaseSemaphore")>>
    BY Moves DEF ReleaseToWriter, IInv, Places
  <1>7. CountersExact'
    <2>1. readersEntry = N("reading") + readerSemaphore + InFlight
      BY <1>3 DEF CountersExact
    <2>2. readersEntry' = N("reading")' + readerSemaphore' + InFlight'
      BY <1>2, <1>4, <1>6, <2>1 DEF Numbers
    <2>3. lockCount' + 1 = N("reading")' + N("writing")' + N("waitRead")' + N("waitWrite")'
      BY <1>4, <1>6 DEF Numbers, CountersExact
    <2> QED
      BY <1>2, <1>4, <1>6, <2>2, <2>3 DEF CountersExact
  <1>8. Conserved'
    BY <1>6 DEF Numbers, Conserved
  <1>9. HandoffInv' /\ WedgedInv'
    BY <1>3, <1>4, <1>5, <1>6 DEF Numbers, IInv, HandoffInv, WedgedInv, Handoff
  <1> QED
    BY <1>1, <1>2, <1>7, <1>8, <1>9 DEF IInv

(* The last reader leaves, to a writer that waits: there is one, because   *)
(* somebody waits and readers wait only behind a writer.                   *)
LEMMA LastReaderLeaves ==
  ASSUME IInv, NEW t \in Threads, ReleaseToWriter(t), pc[t] = "reading", readersEntry' = 0
  PROVE  IInv'
  <1> Numbers /\ CountersExact /\ Conserved
    BY Bounds DEF IInv
  <1>1. TypeOK'
    <2>1. Goes(t, "setEvent") /\ writersWaiting' = Less1(writersWaiting)
      BY DEF ReleaseToWriter
    <2>2. writersWaiting' \in Counter /\ readersEntry' \in Counter
      BY <2>1, CounterArithmetic DEF ReleaseToWriter, IInv, TypeOK
    <2>3. lockCount' \in Int
      BY DEF ReleaseToWriter, Numbers
    <2>4. UNCHANGED <<readersWaiting, writerEvent, readerSemaphore, grant>>
      BY DEF ReleaseToWriter
    <2> QED
      BY <2>1, <2>2, <2>3, <2>4 DEF Goes, IInv, TypeOK
  <1>2. OneGrant' /\ InFlight' = InFlight
    BY GrantKept DEF ReleaseToWriter, Places
  <1>3. ~Wedged /\ readersEntry > 0 /\ Handoff = 0 /\ N("reading") > 0
    BY Holder DEF ReleaseToWriter
  <1>4. /\ lockCount' = lockCount - 1 /\ lockCount >= 1
        /\ readersEntry = 1
        /\ UNCHANGED <<readersWaiting, readerSemaphore, Signaled>>
    <2>1. /\ lockCount' = lockCount - 1 /\ lockCount - 1 >= 0
          /\ UNCHANGED <<readersWaiting, readerSemaphore, Signaled>>
          /\ Less1(readersEntry) = 0
      BY DEF ReleaseToWriter, Signaled
    <2>2. readersEntry - 1 = 0
      BY <1>3, <2>1, CounterArithmetic DEF IInv, TypeOK
    <2> QED
      BY <2>1, <2>2 DEF Numbers
  <1>5. N("reading") = 1 /\ readerSemaphore = 0 /\ InFlight = 0
    <2>1. N("reading") <= 1 /\ readerSemaphore <= 0 /\ InFlight <= 0
      BY <1>3, <1>4 DEF Numbers, CountersExact
    <2> QED
      BY <1>3, <2>1 DEF Numbers
  <1>6. N("writing") = 0 /\ N("setEvent") = 0 /\ Signaled = 0
    <2>1. N("writing") <= 0 /\ N("setEvent") <= 0 /\ Signaled <= 0
      BY <1>3 DEF Handoff, Numbers
    <2> QED
      BY <2>1 DEF Numbers
  <1>7. writersWaiting > 0
    <2>1. SUFFICES ASSUME writersWaiting = 0
                   PROVE  FALSE
      BY DEF Numbers
    <2>2. readersWaiting = 0
      BY <1>3, <2>1 DEF IInv, HandoffInv
    <2>3. N("waitRead") = 0 /\ N("waitWrite") = 0
      BY <1>5, <1>6, <2>1, <2>2 DEF CountersExact
    <2> QED
      BY <1>4, <1>5, <1>6, <2>3 DEF CountersExact, Numbers
  <1>8. writersWaiting' = writersWaiting - 1
    BY <1>7, CounterArithmetic DEF ReleaseToWriter, IInv, TypeOK
  <1>9. /\ N("reading")' = N("reading") - 1
        /\ N("setEvent")' = N("setEvent") + 1
        /\ UNCHANGED <<N("out"), N("writing"), N("waitRead"), N("waitWrite"),
                       N("releaseSemaphore"), At("releaseSemaphore")>>
    BY Moves DEF ReleaseToWriter, IInv, Places
  <1>10. CountersExact'
    BY <1>2, <1>4, <1>5, <1>8, <1>9 DEF Numbers, CountersExact
  <1>11. Conserved'
    BY <1>9 DEF Numbers, Conserved
  <1>12. ~Wedged'
    BY Bounds DEF Wedged, Numbers
  <1>13. HandoffInv' /\ WedgedInv'
    BY <1>4, <1>6, <1>9, <1>12 DEF HandoffInv, WedgedInv, Handoff
  <1> QED
    BY <1>1, <1>2, <1>10, <1>11, <1>13 DEF IInv

(* A writer leaves only writers behind: the counter wraps.                 *)
LEMMA WriterWedges ==
  ASSUME IInv, NEW t \in Threads, ReleaseToWriter(t), pc[t] = "writing"
  PROVE  IInv' /\ Wedged' /\ writersWaiting > 0 /\ readersWaiting = 0
  <1> Numbers /\ CountersExact /\ Conserved
    BY Bounds DEF IInv
  <1>1. /\ readersEntry = 0 /\ N("writing") = 1 /\ N("setEvent") = 0 /\ Signaled = 0
        /\ N("reading") = 0 /\ readerSemaphore = 0
        /\ InFlight = 0 /\ At("releaseSemaphore") = {}
    BY Holder DEF ReleaseToWriter
  <1>2. readersEntry' = Modulus - 1 /\ readersEntry' # 0
    <2>1. readersEntry' = Less1(0) /\ 0 \in Counter
      BY <1>1 DEF ReleaseToWriter, IInv, TypeOK
    <2>2. Modulus - 1 # 0
      BY DEF Numbers
    <2> QED
      BY <2>1, <2>2, CounterArithmetic
  <1>3. /\ lockCount' = lockCount - 1 /\ lockCount >= 1 /\ readersWaiting = 0
        /\ UNCHANGED <<writersWaiting, readersWaiting, readerSemaphore, Signaled>>
        /\ Goes(t, "out")
    BY <1>1, <1>2 DEF ReleaseToWriter, Signaled, Numbers
  <1>4. TypeOK'
    BY <1>3, CounterArithmetic DEF ReleaseToWriter, Goes, IInv, TypeOK
  <1>5. OneGrant' /\ InFlight' = InFlight
    BY <1>3, GrantKept DEF ReleaseToWriter, Places
  <1>6. /\ N("out")' = N("out") + 1
        /\ N("writing")' = N("writing") - 1
        /\ UNCHANGED <<N("reading"), N("waitRead"), N("waitWrite"), N("setEvent"),
                       N("releaseSemaphore"), At("releaseSemaphore")>>
    BY <1>3, Moves DEF ReleaseToWriter, IInv, Places
  <1>7. writersWaiting > 0
    <2>1. SUFFICES ASSUME writersWaiting = 0
                   PROVE  FALSE
      BY DEF Numbers
    <2>2. N("waitRead") = 0 /\ N("waitWrite") = 0
      BY <1>1, <1>3, <2>1 DEF CountersExact
    <2> QED
      BY <1>1, <1>3, <2>2 DEF CountersExact, Numbers
  <1>8. Wedged'
    BY <1>2 DEF Wedged
  <1>9. CountersExact'
    BY <1>3, <1>5, <1>6, <1>8 DEF Numbers, CountersExact
  <1>10. Conserved'
    BY <1>6 DEF Numbers, Conserved
  <1>11. HandoffInv' /\ WedgedInv'
    BY <1>1, <1>3, <1>6, <1>7, <1>8 DEF HandoffInv, WedgedInv, Handoff
  <1> QED
    BY <1>3, <1>4, <1>5, <1>7, <1>8, <1>9, <1>10, <1>11 DEF IInv

LEMMA ReleaseInv ==
  ASSUME IInv, NEW t \in Threads, Release(t)
  PROVE  IInv'
  BY ReleaseLastInv, ReleaseToReadersInv, ReaderLeaves, LastReaderLeaves, WriterWedges
     DEF Release, ReleaseToWriter, Holds

-----------------------------------------------------------------------------
(* The wake-ups and the ends of the waits.                                 *)

LEMMA ReleaseSemaphoreInv ==
  ASSUME IInv, NEW t \in Threads, ReleaseSemaphore(t)
  PROVE  IInv'
  <1> Numbers /\ CountersExact /\ Conserved
    BY Bounds DEF IInv
  <1>1. TypeOK'
    BY DEF ReleaseSemaphore, Goes, IInv, TypeOK, counters, Counter
  <1>2. At("releaseSemaphore") = {t} /\ InFlight = grant[t] /\ ~Wedged
    <2>1. t \in At("releaseSemaphore")
      BY DEF ReleaseSemaphore, At
    <2>2. At("releaseSemaphore") = {t}
      BY <2>1 DEF IInv, OneGrant
    <2> QED
      BY <2>1, <2>2, InFlightCases DEF IInv, WedgedInv
  <1>3. /\ N("releaseSemaphore")' = N("releaseSemaphore") - 1
        /\ At("releaseSemaphore")' = At("releaseSemaphore") \ {t}
        /\ N("out")' = N("out") + 1
        /\ UNCHANGED <<N("reading"), N("writing"), N("waitRead"), N("waitWrite"), N("setEvent")>>
    BY Moves DEF ReleaseSemaphore, IInv, Places
  <1>4. /\ UNCHANGED <<lockCount, writersWaiting, readersWaiting, readersEntry, Signaled>>
        /\ Wedged' = Wedged
        /\ readerSemaphore' = readerSemaphore + InFlight
    BY <1>2 DEF ReleaseSemaphore, counters, Signaled, Wedged
  <1>5. At("releaseSemaphore")' = {} /\ OneGrant' /\ InFlight' = 0
    <2>1. At("releaseSemaphore")' = {}
      BY <1>2, <1>3
    <2> QED
      BY <2>1, InFlightNext DEF OneGrant
  <1>6. CountersExact'
    BY <1>3, <1>4, <1>5 DEF Numbers, CountersExact
  <1>7. Conserved'
    BY <1>3 DEF Numbers, Conserved
  <1>8. HandoffInv' /\ WedgedInv'
    BY <1>2, <1>3, <1>4 DEF IInv, HandoffInv, WedgedInv, Handoff
  <1> QED
    BY <1>1, <1>5, <1>6, <1>7, <1>8 DEF IInv

LEMMA SetEventInv ==
  ASSUME IInv, NEW t \in Threads, SetEvent(t)
  PROVE  IInv'
  <1> Numbers /\ CountersExact /\ Conserved /\ HandoffInv
    BY Bounds DEF IInv
  <1>1. TypeOK'
    BY DEF SetEvent, Goes, IInv, TypeOK, counters
  <1>2. OneGrant' /\ InFlight' = InFlight
    BY GrantKept DEF SetEvent, Places
  <1>3. /\ N("setEvent")' = N("setEvent") - 1
        /\ N("setEvent") > 0
        /\ N("out")' = N("out") + 1
        /\ UNCHANGED <<N("reading"), N("writing"), N("waitRead"), N("waitWrite"),
                       N("releaseSemaphore"), At("releaseSemaphore")>>
    BY Moves DEF SetEvent, IInv, Places
  <1>4. Signaled = 0 /\ Signaled' = 1
    <2>1. Signaled <= 0
      BY <1>3 DEF HandoffInv, Handoff, Numbers
    <2> QED
      BY <2>1 DEF Numbers, SetEvent, Signaled
  <1>5. /\ UNCHANGED <<lockCount, writersWaiting, readersWaiting, readersEntry,
                       readerSemaphore>>
        /\ Wedged' = Wedged
    BY DEF SetEvent, counters, Wedged
  <1>6. CountersExact'
    BY <1>2, <1>3, <1>4, <1>5 DEF Numbers, CountersExact
  <1>7. Conserved'
    BY <1>3 DEF Numbers, Conserved
  <1>8. HandoffInv' /\ WedgedInv'
    <2>1. Handoff' = Handoff
      BY <1>3, <1>4 DEF Handoff, Numbers
    <2> QED
      BY <1>3, <1>5, <2>1 DEF IInv, HandoffInv, WedgedInv
  <1> QED
    BY <1>1, <1>2, <1>6, <1>7, <1>8 DEF IInv

LEMMA WakeWriterInv ==
  ASSUME IInv, NEW t \in Threads, WakeWriter(t)
  PROVE  IInv'
  <1> Numbers /\ CountersExact /\ Conserved
    BY Bounds DEF IInv
  <1>1. TypeOK'
    BY DEF WakeWriter, Goes, IInv, TypeOK, counters
  <1>2. OneGrant' /\ InFlight' = InFlight
    BY GrantKept DEF WakeWriter, Places
  <1>3. /\ N("waitWrite")' = N("waitWrite") - 1
        /\ N("writing")' = N("writing") + 1
        /\ UNCHANGED <<N("out"), N("reading"), N("waitRead"), N("setEvent"),
                       N("releaseSemaphore"), At("releaseSemaphore")>>
    BY Moves DEF WakeWriter, IInv, Places
  <1>4. Signaled = 1 /\ Signaled' = 0
    BY DEF WakeWriter, Signaled
  <1>5. /\ UNCHANGED <<lockCount, writersWaiting, readersWaiting, readersEntry,
                       readerSemaphore>>
        /\ Wedged' = Wedged
    BY DEF WakeWriter, counters, Wedged
  <1>6. CountersExact'
    BY <1>2, <1>3, <1>4, <1>5 DEF Numbers, CountersExact
  <1>7. Conserved'
    BY <1>3 DEF Numbers, Conserved
  <1>8. HandoffInv' /\ WedgedInv'
    <2>1. Handoff' = Handoff
      BY <1>3, <1>4 DEF Handoff, Numbers
    <2> QED
      BY <1>3, <1>5, <2>1 DEF IInv, HandoffInv, WedgedInv
  <1> QED
    BY <1>1, <1>2, <1>6, <1>7, <1>8 DEF IInv

LEMMA WakeReaderInv ==
  ASSUME IInv, NEW t \in Threads, WakeReader(t)
  PROVE  IInv'
  <1> Numbers /\ CountersExact /\ Conserved
    BY Bounds DEF IInv
  <1>1. TypeOK'
    BY DEF WakeReader, Goes, IInv, TypeOK, counters
  <1>2. OneGrant' /\ InFlight' = InFlight
    BY GrantKept DEF WakeReader, Places
  <1>3. /\ N("waitRead")' = N("waitRead") - 1
        /\ N("reading")' = N("reading") + 1
        /\ UNCHANGED <<N("out"), N("writing"), N("waitWrite"), N("setEvent"),
                       N("releaseSemaphore"), At("releaseSemaphore")>>
    BY Moves DEF WakeReader, IInv, Places
  <1>4. /\ UNCHANGED <<lockCount, writersWaiting, readersWaiting, readersEntry, Signaled>>
        /\ Wedged' = Wedged
        /\ readerSemaphore > 0
        /\ readerSemaphore' = readerSemaphore - 1
    BY DEF WakeReader, counters, Signaled, Wedged
  <1>5. ~Wedged
    BY <1>4 DEF IInv, WedgedInv
  <1>6. CountersExact'
    BY <1>2, <1>3, <1>4, <1>5 DEF Numbers, CountersExact
  <1>7. Conserved'
    BY <1>3 DEF Numbers, Conserved
  <1>8. HandoffInv' /\ WedgedInv'
    BY <1>3, <1>4, <1>5 DEF IInv, HandoffInv, WedgedInv, Handoff
  <1> QED
    BY <1>1, <1>2, <1>6, <1>7, <1>8 DEF IInv

-----------------------------------------------------------------------------

LEMMA InitInv == Init => IInv
  <1> SUFFICES ASSUME Init PROVE IInv
    OBVIOUS
  <1>1. Cardinality(Threads) \in Nat /\ Modulus > 1
    BY FS_CardinalityType
  <1>2. /\ At("out") = Threads
        /\ \A place \in Places \ {"out"} : At(place) = {}
    BY DEF Init, At, Places
  <1>3. /\ N("out") = Cardinality(Threads)
        /\ N("reading") = 0 /\ N("writing") = 0
        /\ N("waitRead") = 0 /\ N("waitWrite") = 0
        /\ N("setEvent") = 0 /\ N("releaseSemaphore") = 0
    BY <1>2, FS_EmptySet DEF N, Places
  <1>4. InFlight = 0 /\ Signaled = 0 /\ ~Wedged
    BY <1>1, <1>2, InFlightCases DEF Init, Signaled, Wedged, Places
  <1>5. TypeOK
    <2>1. 0 \in Counter /\ lockCount \in Int
      BY <1>1 DEF Init, Counter
    <2> QED
      BY <2>1 DEF Init, TypeOK
  <1>6. CountersExact
    BY <1>3, <1>4 DEF Init, CountersExact
  <1>7. HandoffInv /\ WedgedInv
    BY <1>3, <1>4 DEF Init, HandoffInv, WedgedInv, Handoff
  <1>8. OneGrant
    BY <1>2 DEF OneGrant, Places
  <1>9. Conserved
    BY <1>1, <1>3 DEF Conserved
  <1> QED
    BY <1>5, <1>6, <1>7, <1>8, <1>9 DEF IInv

LEMMA NextInv == IInv /\ [Next]_vars => IInv'
  <1> SUFFICES ASSUME IInv, [Next]_vars PROVE IInv'
    OBVIOUS
  <1>1. ASSUME NEW t \in Threads, Acquire(t) PROVE IInv'
    BY <1>1, AcquireExclusiveInv, TryAcquireExclusiveInv, AcquireSharedInv,
       TryAcquireSharedInv DEF Acquire
  <1>2. ASSUME NEW t \in Threads, Release(t) PROVE IInv'
    BY <1>2, ReleaseInv
  <1>3. ASSUME NEW t \in Threads, Signal(t) PROVE IInv'
    BY <1>3, ReleaseSemaphoreInv, SetEventInv DEF Signal
  <1>4. ASSUME NEW t \in Threads, Wake(t) PROVE IInv'
    BY <1>4, WakeWriterInv, WakeReaderInv DEF Wake
  <1>5. CASE UNCHANGED vars
    <2>1. /\ TypeOK'
          /\ \A place : At(place)' = At(place)
          /\ UNCHANGED grant
      BY <1>5 DEF vars, counters, IInv, TypeOK, At
    <2>2. OneGrant' /\ InFlight' = InFlight
      BY <2>1, InFlightKept DEF IInv
    <2>3. Signaled' = Signaled /\ Wedged' = Wedged
      BY <1>5 DEF vars, counters, Signaled, Wedged
    <2>4. \A place : N(place)' = N(place)
      BY <2>1 DEF N
    <2>5. CountersExact' /\ HandoffInv' /\ WedgedInv' /\ Conserved'
      BY <1>5, <2>1, <2>2, <2>3, <2>4
         DEF vars, counters, IInv, CountersExact, HandoffInv, WedgedInv, Conserved, Handoff
    <2> QED
      BY <2>1, <2>2, <2>5 DEF IInv
  <1> QED
    BY <1>1, <1>2, <1>3, <1>4, <1>5 DEF Next

(* The inductive invariant holds in every reachable state. *)
THEOREM Invariance == Spec => []IInv
  BY InitInv, NextInv, PTL DEF Spec

(* The variables keep their types; the counters never leave uint32_t's     *)
(* range except by the wrap that wedges the lock.                          *)
THEOREM TypeCorrect == Spec => []TypeOK
  BY Invariance, PTL DEF IInv

(* The four counters of X_ERWLOCK always agree with the threads in the     *)
(* lock, in its waits and in its wake-ups.                                 *)
THEOREM Accounting == Spec => []CountersExact
  BY Invariance, PTL DEF IInv

(* A lock that threads wait for while nobody holds it has a wake-up on its *)
(* way to one of them, unless a writer's release has wedged it.            *)
THEOREM WakeUpUnderWay == Spec => []StalledOnlyIfWedged
  <1>1. ASSUME IInv,
               At("waitRead") \cup At("waitWrite") # {},
               At("reading") \cup At("writing") = {},
               ~(readerSemaphore > 0 /\ At("waitRead") # {}),
               ~(writerEvent /\ At("waitWrite") # {}),
               At("setEvent") \cup At("releaseSemaphore") = {}
        PROVE  Wedged /\ writersWaiting > 0
    <2> Numbers /\ HandoffInv /\ CountersExact
      BY <1>1, Bounds DEF IInv
    <2>1. /\ N("reading") = 0 /\ N("writing") = 0 /\ N("setEvent") = 0 /\ InFlight = 0
      BY <1>1, CountType, InFlightCases
    <2>2. N("waitRead") + N("waitWrite") > 0
      <3>1. N("waitRead") # 0 \/ N("waitWrite") # 0
        BY <1>1, CountType
      <3> QED
        BY <3>1 DEF Numbers
    <2>3. Signaled = 0
      <3>1. CASE writerEvent
        <4>1. N("waitWrite") = 0 /\ Signaled = 1
          BY <1>1, <3>1, CountType DEF Signaled
        <4> QED
          BY <4>1 DEF CountersExact, Numbers
      <3>2. CASE ~writerEvent
        BY <3>2 DEF Signaled
      <3> QED
        BY <3>1, <3>2
    <2>4. readerSemaphore = 0
      <3>1. CASE At("waitRead") # {}
        BY <1>1, <3>1 DEF Numbers
      <3>2. CASE At("waitRead") = {}
        <4>1. N("waitRead") = 0
          BY <3>2, CountType
        <4>2. readerSemaphore <= 0
          BY <4>1 DEF CountersExact, Numbers
        <4> QED
          BY <4>2 DEF Numbers
      <3> QED
        BY <3>1, <3>2
    <2>5. Handoff = 0
      BY <2>1, <2>3 DEF Handoff
    <2>6. Wedged
      <3>1. SUFFICES ASSUME ~Wedged
                     PROVE  FALSE
        OBVIOUS
      <3>2. readersEntry = 0
        BY <2>1, <2>4, <3>1 DEF CountersExact
      <3>3. lockCount = -1
        BY <2>5, <3>1, <3>2 DEF HandoffInv
      <3> QED
        BY <2>1, <2>2, <3>3 DEF CountersExact, Numbers
    <2> QED
      BY <1>1, <2>6 DEF IInv, WedgedInv
  <1>2. IInv => StalledOnlyIfWedged
    BY <1>1 DEF StalledOnlyIfWedged
  <1> QED
    BY <1>2, Invariance, PTL

-----------------------------------------------------------------------------
(* The lock implements ReadWriteLock.                                      *)

Exclusive ==
  At("writing") # {} =>
    /\ At("reading") = {}
    /\ \A t \in At("writing") : At("writing") = {t}

LEMMA WriterAlone == IInv => Exclusive
  <1> SUFFICES ASSUME IInv, At("writing") # {}
               PROVE  /\ At("reading") = {}
                      /\ \A t \in At("writing") : At("writing") = {t}
    BY DEF Exclusive
  <1> Numbers /\ HandoffInv /\ CountersExact
    BY Bounds DEF IInv
  <1>1. N("writing") # 0
    BY CountType
  <1>2. N("writing") = 1 /\ Handoff = 1
    <2>1. N("writing") <= 1 /\ Handoff >= 1 /\ Handoff <= 1
      BY <1>1 DEF Numbers, HandoffInv, Handoff
    <2>2. Handoff \in Nat
      BY DEF Numbers, Handoff
    <2> QED
      BY <1>1, <2>1, <2>2 DEF Numbers
  <1>3. ~Wedged /\ readersEntry = 0
    BY <1>2 DEF IInv, WedgedInv, HandoffInv
  <1>4. N("reading") = 0
    <2>1. N("reading") <= 0
      BY <1>3 DEF CountersExact, Numbers
    <2> QED
      BY <2>1 DEF Numbers
  <1>5. ASSUME NEW t \in At("writing") PROVE At("writing") = {t}
    <2>1. IsFiniteSet(At("writing"))
      BY CountType
    <2>2. PICK w : At("writing") = {w}
      BY <1>2, <2>1, FS_Singleton DEF N
    <2> QED
      BY <1>5, <2>2
  <1> QED
    BY <1>4, <1>5, CountType

LEMMA StepImplements ==
  ASSUME IInv, Exclusive, Exclusive', [Next]_vars
  PROVE  [Lock!Next]_<<At("reading"), At("writing")>>
  <1>1. ASSUME NEW t \in Threads, Goes(t, "writing"), pc[t] \in {"out", "waitWrite"}
        PROVE  Lock!Next
    <2>1. /\ At("writing")' = At("writing") \cup {t} /\ t \notin At("writing")
          /\ At("reading")' = At("reading")
      BY <1>1 DEF Goes, At, IInv, TypeOK
    <2>2. At("writing") = {} /\ At("reading") = {}
      BY <2>1 DEF Exclusive
    <2> QED
      BY <2>1, <2>2 DEF Lock!Next, Lock!EnterExclusive
  <1>2. ASSUME NEW t \in Threads, Goes(t, "reading"), pc[t] \in {"out", "waitRead"}
        PROVE  Lock!Next
    <2>1. /\ At("reading")' = At("reading") \cup {t} /\ t \notin At("reading")
          /\ At("writing")' = At("writing")
      BY <1>2 DEF Goes, At, IInv, TypeOK
    <2>2. At("writing") = {}
      BY <2>1 DEF Exclusive
    <2> QED
      BY <2>1, <2>2 DEF Lock!Next, Lock!EnterShared
  <1>3. ASSUME NEW t \in Threads, NEW b \in Places \ {"reading", "writing"}, Goes(t, b),
               Holds(t)
        PROVE  Lock!Next
    <2>1. /\ At("reading")' = At("reading") \ {t}
          /\ At("writing")' = At("writing") \ {t}
          /\ t \in At("reading") \cup At("writing")
      BY <1>3 DEF Goes, At, Holds, IInv, TypeOK
    <2> QED
      BY <2>1 DEF Lock!Next, Lock!Leave
  <1>4. ASSUME NEW t \in Threads, NEW b \in Places \ {"reading", "writing"}, Goes(t, b),
               pc[t] \in Places \ {"reading", "writing"}
        PROVE  UNCHANGED <<At("reading"), At("writing")>>
    BY <1>4 DEF Goes, At, IInv, TypeOK
  <1>5. ASSUME NEW t \in Threads, Acquire(t)
        PROVE  [Lock!Next]_<<At("reading"), At("writing")>>
    BY <1>1, <1>2, <1>4, <1>5
       DEF Acquire, AcquireExclusive, TryAcquireExclusive, AcquireShared, TryAcquireShared,
           Places
  <1>6. ASSUME NEW t \in Threads, Release(t)
        PROVE  Lock!Next
    BY <1>3, <1>6 DEF Release, ReleaseLast, ReleaseToReaders, ReleaseToWriter, Places
  <1>7. ASSUME NEW t \in Threads, Signal(t)
        PROVE  UNCHANGED <<At("reading"), At("writing")>>
    BY <1>4, <1>7 DEF Signal, ReleaseSemaphore, SetEvent, Places
  <1>8. ASSUME NEW t \in Threads, Wake(t)
        PROVE  Lock!Next
    BY <1>1, <1>2, <1>8 DEF Wake, WakeWriter, WakeReader
  <1>9. CASE UNCHANGED vars
    BY <1>9 DEF vars, At
  <1> QED
    BY <1>5, <1>6, <1>7, <1>8, <1>9 DEF Next

(* Mutual exclusion, as refinement: for any finite set of threads, every   *)
(* behaviour of the exports is one of the abstract reader/writer lock.     *)
THEOREM Implements == Spec => ImplementsReadWriteLock
  <1>1. Init => Lock!Init
    BY DEF Init, Lock!Init, At
  <1>2. IInv /\ Exclusive /\ Exclusive' /\ [Next]_vars
          => [Lock!Next]_<<At("reading"), At("writing")>>
    BY StepImplements
  <1> QED
    BY <1>1, <1>2, WriterAlone, Invariance, PTL
       DEF Spec, ImplementsReadWriteLock, Lock!Spec

(* Only a writer's release to writers alone wedges the lock, and a wedged  *)
(* lock is never entered again.                                            *)
THEOREM WedgeIsTheWritersRelease == Spec => WedgedOnlyByWriters
  <1> DEFINE Step ==
        /\ ~Wedged /\ Wedged' =>
             /\ At("writing") # {} /\ At("writing")' = {}
             /\ readersWaiting = 0 /\ writersWaiting > 0
        /\ Wedged => Wedged' /\ At("reading")' \cup At("writing")' = {}
  <1>1. IInv /\ IInv' /\ [Next]_vars => [Step]_vars
    <2> SUFFICES ASSUME IInv, IInv', Next PROVE Step
      OBVIOUS
    <2> PICK t \in Threads : Acquire(t) \/ Release(t) \/ Signal(t) \/ Wake(t)
      BY DEF Next
    <2> Numbers /\ CountersExact
      BY Bounds DEF IInv
    <2>1. CASE Wedged
      <3>1. /\ Handoff = 0 /\ N("reading") = 0 /\ readerSemaphore = 0
            /\ At("releaseSemaphore") = {} /\ writersWaiting > 0
        BY <2>1 DEF IInv, WedgedInv
      <3>2. N("writing") = 0 /\ N("setEvent") = 0 /\ ~writerEvent
        <4>1. N("writing") <= 0 /\ N("setEvent") <= 0 /\ Signaled <= 0
          BY <3>1 DEF Handoff, Numbers
        <4> QED
          BY <4>1 DEF Numbers, Signaled
      <3>3. At("reading") = {} /\ At("writing") = {} /\ At("setEvent") = {}
        BY <3>1, <3>2, CountType
      <3>4. lockCount >= 0
        BY <3>1 DEF CountersExact, Numbers
      <3>5. pc[t] \notin {"reading", "writing", "setEvent", "releaseSemaphore"}
        BY <3>1, <3>3 DEF At
      <3>6. ~Release(t) /\ ~Signal(t) /\ ~Wake(t)
        BY <3>1, <3>2, <3>5 DEF Release, ReleaseLast, ReleaseToReaders, ReleaseToWriter, Holds,
                                Signal, ReleaseSemaphore, SetEvent, Wake, WakeWriter, WakeReader
      <3>7. ~MayJoin /\ lockCount + 1 # 0 /\ ~(lockCount < 0)
        BY <3>1, <3>4 DEF MayJoin, Numbers
      <3>8. /\ UNCHANGED readersEntry
            /\ \E b \in {"waitRead", "waitWrite"} : Goes(t, b)
        BY <3>6, <3>7 DEF Acquire, AcquireExclusive, TryAcquireExclusive, AcquireShared,
                          TryAcquireShared
      <3>9. At("reading")' = {} /\ At("writing")' = {}
        BY <3>3, <3>8 DEF Goes, At, IInv, TypeOK
      <3> QED
        BY <2>1, <3>8, <3>9 DEF Wedged
    <2>2. CASE ~Wedged /\ Wedged'
      <3>1. readersEntry' = Modulus - 1 /\ readersEntry # Modulus - 1
        BY <2>2 DEF Wedged
      <3>2. N("reading")' = 0 /\ At("releaseSemaphore")' = {}
        BY <2>2 DEF IInv, WedgedInv
      <3>3. ~(pc[t] = "out" /\ Goes(t, "reading"))
        BY <3>2, Moves DEF IInv, Places, Numbers
      <3>4. ~Acquire(t) /\ ~Signal(t) /\ ~Wake(t)
        BY <3>1, <3>3 DEF Acquire, AcquireExclusive, TryAcquireExclusive, AcquireShared,
                    TryAcquireShared, Signal, ReleaseSemaphore, SetEvent, Wake, WakeWriter,
                    WakeReader, counters
      <3>5. ~ReleaseLast(t) /\ ~ReleaseToReaders(t)
        <4>1. ASSUME ReleaseToReaders(t) PROVE t \in At("releaseSemaphore")'
          BY <4>1 DEF ReleaseToReaders, Goes, At, IInv, TypeOK
        <4>2. Modulus - 1 # 0
          BY DEF Numbers
        <4> QED
          BY <3>1, <3>2, <4>1, <4>2 DEF ReleaseLast
      <3>6. ReleaseToWriter(t)
        BY <3>4, <3>5 DEF Release
      <3>7. pc[t] # "reading"
        <4>1. SUFFICES ASSUME pc[t] = "reading" PROVE FALSE
          OBVIOUS
        <4>2. readersEntry > 0 /\ readersEntry < Modulus - 1
          BY <2>2, <4>1, Holder, Bounds DEF Holds
        <4>3. readersEntry' = readersEntry - 1
          BY <3>6, <4>2, CounterArithmetic DEF ReleaseToWriter, IInv, TypeOK
        <4> QED
          BY <3>1, <4>2, <4>3 DEF Numbers
      <3>8. pc[t] = "writing" /\ readersWaiting = 0 /\ writersWaiting > 0
        BY <3>6, <3>7, WriterWedges DEF ReleaseToWriter, Holds
      <3>9. At("writing") = {t}
        BY <3>8, WriterAlone DEF Exclusive, At
      <3>10. \E b \in {"out", "setEvent"} : Goes(t, b)
        BY <3>6 DEF ReleaseToWriter
      <3>11. At("writing")' = {}
        BY <3>9, <3>10 DEF Goes, At, IInv, TypeOK
      <3> QED
        BY <2>2, <3>8, <3>9, <3>11
    <2> QED
      BY <2>1, <2>2
  <1> QED
    BY <1>1, Invariance, PTL DEF Spec, WedgedOnlyByWriters
=============================================================================
