--------------------------- MODULE ThreadSuspension ---------------------------
(***************************************************************************)
(* Starting, suspending and resuming a guest thread on Linux: the suspend  *)
(* count of src/system/xthread.cpp above the host thread of                *)
(* src/core/threading_posix.cpp, which stops a thread with a signal whose  *)
(* handler waits on a semaphore.                                           *)
(*                                                                         *)
(* One thread, Target, is created, suspended, resumed and terminated by    *)
(* the others; it may also suspend itself.  What a thread does under       *)
(* state_mutex_ is one step.  SIGRTMIN+n is a real-time signal: it queues, *)
(* and it is blocked while its handler runs.                               *)
(***************************************************************************)
EXTENDS Integers, FiniteSets

CONSTANTS
  Callers, Creator, Target, Nobody,
  CountModulus,      \* X_KTHREAD::suspend_count is a byte: 256 in the code
  MaxSuspends        \* bound on the calls that suspend

ASSUME ThreadsAssumption ==
  /\ IsFiniteSet(Callers) /\ Creator \in Callers
  /\ Target \notin Callers /\ Nobody \notin Callers \cup {Target}
ASSUME BoundsAssumption == CountModulus \in Nat \ {0, 1} /\ MaxSuspends \in Nat

Threads == Callers \cup {Target}

VARIABLES
  \* PosixCondition<Thread>
  state, suspendCount,  \* state_, suspend_count_
  sem,                  \* suspend_sem_
  signals,              \* kThreadSuspend signals queued for the thread
  \* XThread
  guestCount,           \* X_KTHREAD::suspend_count
  suspendMutex,         \* suspend_mutex_
  \* the thread
  place, handler, cancelled,
  \* calls in progress, and the count they read
  call, previous,
  \* history
  suspends,             \* calls that suspend, so far
  nested,               \* host Suspends of a thread that was suspended already
  spare,                \* tokens posted for a start, which nobody waits for
  gapResume,            \* a Resume came before suspend_count_ was stored
  orderly               \* no call overlapped another or suspended again

host == <<state, suspendCount, sem, signals>>
guest == <<guestCount, suspendMutex>>
thread == <<place, handler, cancelled>>
calls == <<call, previous>>
history == <<suspends, nested, spare, gapResume, orderly>>
vars == <<host, guest, thread, calls, history>>

(* XThread::Create always creates the host thread suspended, and resumes   *)
(* it unless the title asked for X_CREATE_SUSPENDED.                       *)
Init ==
  /\ state = "uninitialized" /\ suspendCount = 0 /\ sem = 0 /\ signals = 0
  /\ guestCount \in {0, 1}
  /\ suspendMutex = Nobody
  /\ place = "new" /\ handler = FALSE /\ cancelled = FALSE
  /\ call = [x \in Threads |->
               IF x = Creator /\ guestCount = 0 THEN "create" ELSE "idle"]
  /\ previous = [x \in Threads |-> 0]
  /\ suspends = 0 /\ nested = 0 /\ spare = 0 /\ gapResume = FALSE /\ orderly = TRUE

Goes(x, from, to) == call[x] = from /\ call' = [call EXCEPT ![x] = to]

(* Target takes its next step only outside the handler.                    *)
CanStep(x) == x = Target => place = "guest" /\ ~handler
WaitStarted == state # "uninitialized"
\* The Resume that brings the count to zero will post a token
Owed == suspendCount > 0 /\ state = "suspended"

-----------------------------------------------------------------------------
(* ThreadStartRoutine                                                      *)

Announce ==
  /\ place = "new"
  /\ place' = "announced"
  /\ state' = "suspended"
  /\ UNCHANGED <<suspendCount, sem, signals, guest, handler, cancelled, calls, history>>

StoreSuspendCount ==
  /\ place = "announced" /\ ~handler
  /\ place' = "starter"
  /\ suspendCount' = 1
  /\ spare' = IF suspendCount = 0 /\ state = "suspended" THEN 1 ELSE 0
  /\ UNCHANGED <<state, sem, signals, guest, handler, cancelled, calls, suspends, nested,
                 gapResume, orderly>>

Start ==
  /\ place = "starter" /\ ~handler
  /\ suspendCount = 0
  /\ place' = "guest"
  /\ UNCHANGED <<host, guest, handler, cancelled, calls, history>>

(* signal_handler: the thread is stopped while it waits for a token.       *)
HandleSignal ==
  /\ signals > 0 /\ ~handler
  /\ place \notin {"new", "gone"}
  /\ handler' = TRUE
  /\ signals' = signals - 1
  /\ UNCHANGED <<state, suspendCount, sem, guest, place, cancelled, calls, history>>

HandlerReturns ==
  /\ handler /\ sem > 0
  /\ handler' = FALSE
  /\ sem' = sem - 1
  /\ UNCHANGED <<state, suspendCount, signals, guest, place, cancelled, calls, history>>

-----------------------------------------------------------------------------
(* XThread::Suspend                                                        *)

Idle(x) == call[x] = "idle"
\* A thread that suspended itself waits to be resumed
Waiting(x) == call[x] \in {"semWait", "cvWait"}
Orderly(x) == orderly /\ \A y \in Threads \ {x} : Idle(y)

(* Nobody has the handle before XThread::Create returns, which waits for    *)
(* the thread to announce itself, and nobody signals a thread that is gone: *)
(* what pthread_kill does then is undefined.                               *)
Usable == WaitStarted /\ call[Creator] # "create" /\ place # "gone"

(* NtSuspendThread refuses a thread that has set `terminated' in its Exit;  *)
(* Exit is one step here, so that Usable says as much, but for a thread     *)
(* whose Exit waits for somebody's Terminate: it may be suspended here.     *)
BeginSuspend(x) ==
  /\ CanStep(x) /\ Usable
  /\ suspends < MaxSuspends
  /\ Goes(x, "idle", "check")
  /\ guestCount' = (guestCount + 1) % CountModulus
  /\ suspends' = suspends + 1
  /\ orderly' = (Orderly(x) /\ guestCount = 0)
  /\ UNCHANGED <<host, suspendMutex, thread, previous, nested, spare, gapResume>>

(* "Wrapped to 0 - treat as not suspended."                                *)
CheckWrapped(x) ==
  /\ CanStep(x)
  /\ Goes(x, "check", IF guestCount = 0 THEN "idle" ELSE "hostSuspend")
  /\ UNCHANGED <<host, guest, thread, previous, history>>

(* PosixCondition<Thread>::Suspend, also called by TerminateTitle.         *)
HostSuspend(x) ==
  /\ CanStep(x) /\ WaitStarted
  /\ \/ Goes(x, "hostSuspend", IF x = Target THEN "semWait" ELSE "kill")
     \/ Goes(x, "titleSuspend", "titleKill")
  /\ state' = "suspended"
  /\ suspendCount' = suspendCount + 1
  /\ nested' = nested + (IF Owed THEN 1 ELSE 0)
  /\ UNCHANGED <<sem, signals, guest, thread, previous, suspends, spare, gapResume, orderly>>

SendSignal(x) ==
  /\ Goes(x, "kill", "idle") \/ Goes(x, "titleKill", "terminate")
  /\ signals' = IF place = "gone" THEN signals ELSE signals + 1
  /\ UNCHANGED <<state, suspendCount, sem, guest, thread, previous, history>>

(* WaitSuspended, on the thread itself.                                    *)
WaitSuspended ==
  /\ CanStep(Target)
  /\ sem > 0
  /\ Goes(Target, "semWait", "idle")
  /\ sem' = sem - 1
  /\ UNCHANGED <<state, suspendCount, signals, guest, thread, previous, history>>

-----------------------------------------------------------------------------
(* XThread::Resume and SelfSuspend: suspend_mutex_ does not keep Suspend    *)
(* from adding to the count between the load and the store.                *)

BeginResume(x) ==
  /\ x # Target /\ Usable
  /\ Goes(x, "idle", "lock")
  /\ orderly' = (orderly /\ \A y \in Threads \ {x} : Idle(y) \/ Waiting(y))
  /\ UNCHANGED <<host, guest, thread, previous, suspends, nested, spare, gapResume>>

BeginSelfSuspend ==
  /\ CanStep(Target)
  /\ suspends < MaxSuspends
  /\ Goes(Target, "idle", "lock")
  /\ suspends' = suspends + 1
  /\ orderly' = (Orderly(Target) /\ guestCount = 0)
  /\ UNCHANGED <<host, guest, thread, previous, nested, spare, gapResume>>

LoadCount(x) ==
  /\ CanStep(x)
  /\ suspendMutex = Nobody
  /\ Goes(x, "lock", "store")
  /\ suspendMutex' = x
  /\ previous' = [previous EXCEPT ![x] = guestCount]
  /\ UNCHANGED <<host, guestCount, thread, history>>

(* Mutant: the test for zero is missing. *)
LoweredBelow0(n) == n - 1

Lowered(n) == IF n > 0 THEN n - 1 ELSE 0

Unlock(x) == suspendMutex' = Nobody /\ previous' = [previous EXCEPT ![x] = 0]

(* Mutant: Resume tests the count it read instead of the one it leaves. *)
LowerCountEarlyTest(x) ==
  /\ x # Target /\ call[x] = "store"
  /\ guestCount' = IF previous[x] > 0 THEN previous[x] - 1 ELSE guestCount
  /\ call' = [call EXCEPT ![x] = IF previous[x] = 0 THEN "hostResume" ELSE "idle",
                          ![Target] = IF @ = "cvWait" THEN "cvWake" ELSE @]
  /\ Unlock(x)
  /\ UNCHANGED <<host, thread, history>>

(* Whether to resume the host thread is decided by the count just stored or *)
(* by the one read, where nothing was stored: the build may keep either.    *)
LowerCount(x) ==
  /\ x # Target /\ call[x] = "store"
  /\ guestCount' = IF previous[x] > 0 THEN previous[x] - 1 ELSE guestCount
  /\ \E count \in {Lowered(previous[x]), guestCount'} :
       call' = [call EXCEPT ![x] = IF count = 0 THEN "hostResume" ELSE "idle",
                            ![Target] = IF @ = "cvWait" THEN "cvWake" ELSE @]
  /\ Unlock(x)
  /\ UNCHANGED <<host, thread, history>>

(* The wait on suspend_cv_ gives the mutex up.                             *)
AfterTest(n) == IF n = 0 THEN "idle" ELSE "cvWait"


RaiseCount ==
  /\ CanStep(Target)
  /\ guestCount' = (previous[Target] + 1) % CountModulus
  /\ Goes(Target, "store", AfterTest(guestCount'))
  /\ Unlock(Target)
  /\ UNCHANGED <<host, thread, history>>

(* Notified, it tests the count again with the mutex.                      *)
WakeUp ==
  /\ CanStep(Target)
  /\ suspendMutex = Nobody
  /\ Goes(Target, "cvWake", AfterTest(guestCount))
  /\ UNCHANGED <<host, guest, thread, previous, history>>

(* Mutants: the state is not tested; the count is tested before it is lowered. *)
PostsInAnyState == suspendCount = 1
PostsEarly == suspendCount = 0 /\ state = "suspended"

(* PosixCondition<Thread>::Resume, also called by XThread::Create.         *)
Posts == suspendCount = 1 /\ state = "suspended"

HostResume(x) ==
  /\ WaitStarted
  /\ Goes(x, "hostResume", "idle") \/ Goes(x, "create", "idle")
  /\ suspendCount' = Lowered(suspendCount)
  /\ state' = IF Posts THEN "running" ELSE state
  /\ sem' = IF Posts THEN sem + 1 ELSE sem
  /\ gapResume' = (gapResume \/ (place = "announced" /\ suspendCount = 0))
  /\ UNCHANGED <<signals, guest, thread, previous, suspends, nested, spare, orderly>>

-----------------------------------------------------------------------------
(* Termination                                                             *)

(* TerminateTitle suspends every running guest thread, then ends it.       *)
TerminateTitle(x) ==
  /\ x # Target /\ Usable
  /\ place = "guest" /\ ~cancelled
  /\ suspends < MaxSuspends
  /\ Goes(x, "idle", "titleSuspend")
  /\ suspends' = suspends + 1
  /\ UNCHANGED <<host, guest, thread, previous, nested, spare, gapResume, orderly>>

Terminate(x) ==
  /\ Goes(x, "terminate", "idle")
  /\ cancelled' = (cancelled \/ (state # "finished" /\ place # "gone"))
  /\ state' = "finished"
  /\ UNCHANGED <<suspendCount, sem, signals, guest, place, handler, previous, history>>

(* pthread_cancel, asynchronous: wherever the thread is.                   *)
Cancelled ==
  /\ cancelled /\ place # "gone"
  /\ place' = "gone"
  /\ UNCHANGED <<host, guest, handler, cancelled, calls, history>>

(* XThread::Exit, on the thread itself; if somebody terminates it already, *)
(* it waits for that.                                                      *)
Exit ==
  /\ CanStep(Target) /\ place = "guest" /\ call[Target] = "idle"
  /\ state # "finished"
  /\ state' = "finished"
  /\ place' = "gone"
  /\ UNCHANGED <<suspendCount, sem, signals, guest, handler, cancelled, calls, history>>

-----------------------------------------------------------------------------
ThreadStep == Announce \/ StoreSuspendCount \/ Start \/ HandleSignal \/ HandlerReturns
              \/ Cancelled

CallStep(x) ==
  \/ CheckWrapped(x) \/ HostSuspend(x) \/ SendSignal(x)
  \/ LowerCount(x) \/ HostResume(x) \/ Terminate(x)

SelfStep == BeginSelfSuspend \/ RaiseCount \/ WakeUp \/ WaitSuspended \/ Exit

CallBegins(x) == BeginSuspend(x) \/ BeginResume(x) \/ TerminateTitle(x)

Next ==
  \/ ThreadStep \/ SelfStep
  \/ \E x \in Threads : CallStep(x) \/ LoadCount(x) \/ CallBegins(x)

Spec == Init /\ [][Next]_vars

(* Threads go on with what they do, and a mutex that is free again and     *)
(* again is got in the end.                                                *)
Fairness ==
  /\ WF_vars(ThreadStep) /\ WF_vars(WaitSuspended) /\ WF_vars(RaiseCount)
  /\ SF_vars(WakeUp)
  /\ \A x \in Threads : WF_vars(CallStep(x)) /\ SF_vars(LoadCount(x))

FairSpec == Spec /\ Fairness

-----------------------------------------------------------------------------
(* Properties                                                              *)

Places == {"new", "announced", "starter", "guest", "gone"}
CallPlaces == {"idle", "create", "check", "hostSuspend", "kill", "semWait", "lock", "store",
               "cvWait", "cvWake", "hostResume", "titleSuspend", "titleKill", "terminate"}

\* Types; the counts stay within what the calls made so far allow.
TypeOK ==
  /\ state \in {"uninitialized", "running", "suspended", "finished"}
  /\ suspendCount \in 0..suspends+1 /\ sem \in 0..suspends+1 /\ signals \in 0..suspends
  /\ guestCount \in 0..CountModulus-1
  /\ suspendMutex \in Threads \cup {Nobody}
  /\ place \in Places /\ handler \in BOOLEAN /\ cancelled \in BOOLEAN
  /\ call \in [Threads -> CallPlaces]
  /\ previous \in [Threads -> 0..CountModulus-1]
  /\ suspends \in 0..MaxSuspends /\ nested \in 0..suspends /\ spare \in {0, 1}
  /\ gapResume \in BOOLEAN /\ orderly \in BOOLEAN

Alive == place # "gone" /\ ~cancelled
One(b) == IF b THEN 1 ELSE 0

Signalling == {x \in Callers : call[x] \in {"kill", "titleKill"}}
\* Waits for a token that are under way or will come
Waits == Cardinality(Signalling) + signals + One(handler) + One(call[Target] = "semWait")

(* Suspending twice makes the thread wait twice, but the resume that brings *)
(* the count to zero posts one token: each nested Suspend leaves a wait too *)
(* many.  The start of the thread posts one that nobody waits for.         *)
TokensBalance ==
  Alive => Waits - sem = One(Owed) + nested - spare

Quiet == \A x \in Threads : Idle(x) \/ Waiting(x)

(* Between calls, host and guest agree whether the thread is suspended,    *)
(* unless calls overlapped or nested, or a Resume came before the starting *)
(* thread had stored its count: then it is suspended for good.             *)
CountsAgree ==
  Quiet /\ Alive /\ orderly /\ ~gapResume /\ place \in {"starter", "guest"} =>
    (suspendCount > 0 <=> guestCount > 0 /\ call[Target] # "cvWait")

Stopped == place # "guest" \/ handler \/ call[Target] \in {"semWait", "cvWait"}

(* A suspended thread does not run once the signal has been delivered.     *)
SuspendedIsStopped ==
  Quiet /\ Alive /\ signals = 0 /\ suspendCount > 0 => Stopped

(* A thread whose count is back at zero runs again.                        *)
ResumedRuns ==
  (guestCount = 0 /\ WaitStarted) ~>
    \/ ~Stopped \/ ~Alive \/ guestCount > 0 \/ ~orderly \/ gapResume

===============================================================================
