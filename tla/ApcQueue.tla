------------------------------- MODULE ApcQueue -------------------------------
(***************************************************************************)
(* The user APCs of one guest thread: queued by other threads, announced   *)
(* by a hint in the host thread's callback queue, delivered by the thread  *)
(* itself when it returns alerted from a wait, run down when it exits      *)
(* (src/system/xthread.cpp, src/kernel/xboxkrnl/xboxkrnl_threading.cpp,    *)
(* src/core/threading_posix.cpp).                                          *)
(*                                                                         *)
(* What is done under apc_lock or callback_mutex_ is one step.  The bodies *)
(* of routines are left out.                                               *)
(***************************************************************************)
EXTENDS Naturals, FiniteSets, SequencesExt

CONSTANTS
  Posters,     \* threads that queue APCs for the guest thread
  Blocks,      \* the system heap's blocks for APCs
  GuestApcs,   \* APC objects in the title's own memory
  Arguments,   \* what an APC is about
  None,
  MaxPosts     \* bound on the title's insertions

ASSUME ApcAssumption ==
  /\ Blocks \cap GuestApcs = {}
  /\ None \notin Blocks \cup GuestApcs \cup Arguments
  /\ IsFiniteSet(Posters) /\ MaxPosts \in Nat

Apcs == Blocks \cup GuestApcs

VARIABLES
  apcs,        \* X_KTHREAD::apc_lists[1]
  disabled,    \* apc_disable_count is not 0
  used,        \* blocks that are allocated
  argument,    \* argument[b]: what block b was queued for
  hints,       \* length of user_callbacks_
  post,        \* post[p]: how far p is with queueing a block
  place,       \* where the guest thread is
  taken,       \* the APC it delivers or runs down
  runs,        \* what the routine that runs was queued for
  alerted,     \* the delivery follows a wait that a hint has ended
  posts,       \* insertions by the title
  unhinted     \* history: a hint was used up, APCs stayed queued

blocks == <<used, argument>>
delivery == <<taken, runs, alerted>>
bounds == <<posts, unhinted>>
apcVars == <<apcs, disabled, blocks, hints, post, place, delivery, bounds>>

Idle == [at |-> "idle", block |-> None]

ApcInit ==
  /\ apcs = <<>> /\ disabled = FALSE
  /\ used = {} /\ argument = [b \in Blocks |-> None]
  /\ hints = 0
  /\ post = [p \in Posters |-> Idle]
  /\ place = "deliver" /\ taken = None /\ runs = None /\ alerted = FALSE   \* XThread::Execute
  /\ posts = 0 /\ unhinted = FALSE

Queued == ToSet(apcs)

-----------------------------------------------------------------------------
(* Queueing: EnqueueApc and NtQueueApcThread                               *)

AllocateApc(p, x) ==
  /\ post[p].at = "idle"
  /\ Blocks # used
  /\ LET b == CHOOSE b \in Blocks \ used : TRUE IN
       /\ used' = used \cup {b}
       /\ argument' = [argument EXCEPT ![b] = x]
       /\ post' = [post EXCEPT ![p] = [at |-> "allocated", block |-> b]]
  /\ UNCHANGED <<apcs, disabled, hints, place, delivery, unhinted>>

(* xeKeInsertQueueApc; may_queue_apcs is set once and for all.              *)
InsertQueueApc(p) ==
  /\ post[p].at = "allocated"
  /\ apcs' = Append(apcs, post[p].block)
  /\ post' = [post EXCEPT ![p].at = "inserted"]
  /\ UNCHANGED <<disabled, blocks, hints, place, delivery, bounds>>

(* Mutant: the hint is dropped unless the thread waits already. *)
QueueUserCallbackIfWaiting(p) ==
  /\ post[p].at = "inserted"
  /\ hints' = IF place = "wait" THEN hints + 1 ELSE hints
  /\ post' = [post EXCEPT ![p] = Idle]
  /\ UNCHANGED <<apcs, disabled, blocks, place, delivery, bounds>>

QueueUserCallback(p) ==
  /\ post[p].at = "inserted"
  /\ hints' = hints + 1
  /\ post' = [post EXCEPT ![p] = Idle]
  /\ UNCHANGED <<apcs, disabled, blocks, place, delivery, bounds>>

(* A title's thread calls NtQueueApcThread.                                 *)
NtQueueApcThread(p, x) ==
  /\ posts < MaxPosts
  /\ posts' = posts + 1
  /\ AllocateApc(p, x)

(* An APC of the title's own gets no hint.                                 *)
KeInsertQueueApc(a) ==
  /\ posts < MaxPosts
  /\ a \notin Queued
  /\ posts' = posts + 1
  /\ apcs' = Append(apcs, a)
  /\ UNCHANGED <<disabled, blocks, hints, post, place, delivery, unhinted>>

KeRemoveQueueApc(a) ==
  /\ a \in Queued
  /\ apcs' = RemoveFirst(apcs, a)
  /\ UNCHANGED <<disabled, blocks, hints, post, place, delivery, bounds>>

-----------------------------------------------------------------------------
(* Delivery                                                                *)

Goes(from, to) == place = from /\ place' = to

EnterOrLeaveCriticalRegion ==
  /\ place = "run"
  /\ disabled' = ~disabled
  /\ UNCHANGED <<apcs, blocks, hints, post, place, delivery, bounds>>

(* KeDelayExecutionThread delivers before it waits, the other waits do not. *)
BeginAlertableWait ==
  /\ \/ Goes("run", "deliver") /\ alerted' = FALSE
     \/ Goes("run", "wait") /\ UNCHANGED alerted
  /\ UNCHANGED <<apcs, disabled, blocks, hints, post, taken, runs, bounds>>

(* Mutant: the queue is not tested. *)
TakeHintUntested == hints' = hints - 1

(* DispatchQueuedUserCallbacks: one hint per wait.                         *)
TakeHint ==
  /\ hints > 0
  /\ hints' = hints - 1

Alerted ==
  /\ Goes("wait", "deliver")
  /\ TakeHint
  /\ alerted' = TRUE
  /\ UNCHANGED <<apcs, disabled, blocks, post, taken, runs, bounds>>

(* The object is signalled or the time is up.                              *)
WaitEnds ==
  /\ Goes("wait", "run")
  /\ UNCHANGED <<apcs, disabled, blocks, hints, post, delivery, bounds>>

(* DeliverAPCs, one turn of the loop: the arguments are copied and the      *)
(* block is freed before the routine runs.                                 *)
Free(b) ==
  /\ used' = used \ {b}
  /\ argument' = [x \in Blocks |-> IF x = b THEN None ELSE argument[x]]

TakeApc ==
  /\ Goes("deliver", "taken")
  /\ apcs # <<>> /\ ~disabled
  /\ taken' = Head(apcs) /\ apcs' = Tail(apcs)
  /\ UNCHANGED <<disabled, blocks, hints, post, alerted, runs, bounds>>

FreeTaken ==
  /\ Goes("taken", "routine")
  /\ runs' = IF taken \in Blocks THEN argument[taken] ELSE None
  /\ Free(taken)
  /\ taken' = None
  /\ UNCHANGED <<apcs, disabled, hints, post, alerted, bounds>>

RoutineReturns ==
  /\ Goes("routine", "deliver")
  /\ runs' = None
  /\ UNCHANGED <<apcs, disabled, blocks, hints, post, taken, alerted, bounds>>

DeliveryEnds ==
  /\ Goes("deliver", IF alerted THEN "run" ELSE "delivered")
  /\ apcs = <<>> \/ disabled
  /\ unhinted' = (apcs # <<>> /\ (unhinted \/ alerted))
  /\ UNCHANGED <<apcs, disabled, blocks, hints, post, delivery, posts>>

\* Execute goes on to the thread's entry, KeDelayExecutionThread to its wait
AfterDelivery ==
  /\ place = "delivered" /\ place' \in {"run", "wait"}
  /\ UNCHANGED <<apcs, disabled, blocks, hints, post, delivery, bounds>>

-----------------------------------------------------------------------------
(* XThread::Exit and RundownAPCs                                           *)

Exit ==
  /\ Goes("run", "rundown")
  /\ UNCHANGED <<apcs, disabled, blocks, hints, post, delivery, bounds>>

RundownTake ==
  /\ Goes("rundown", "rundownTaken")
  /\ apcs # <<>>
  /\ taken' = Head(apcs) /\ apcs' = Tail(apcs)
  /\ UNCHANGED <<disabled, blocks, hints, post, alerted, runs, bounds>>

(* Mutant: the test of DeliverAPCs, which spares the blocks of the heap. *)
RundownFreeOthers ==
  /\ Goes("rundownTaken", "rundown")
  /\ taken' = None
  /\ UNCHANGED <<apcs, disabled, blocks, hints, post, runs, alerted, bounds>>

RundownFree ==
  /\ Goes("rundownTaken", "rundown")
  /\ Free(taken)
  /\ taken' = None
  /\ UNCHANGED <<apcs, disabled, hints, post, runs, alerted, bounds>>

RundownEnds ==
  /\ Goes("rundown", "gone")
  /\ apcs = <<>>
  /\ UNCHANGED <<apcs, disabled, blocks, hints, post, delivery, bounds>>

-----------------------------------------------------------------------------
(* What the guest thread does without being asked to                       *)
GuestProceeds ==
  \/ Alerted \/ TakeApc \/ FreeTaken \/ RoutineReturns \/ DeliveryEnds \/ AfterDelivery
  \/ RundownTake \/ RundownFree \/ RundownEnds

PosterProceeds(p) == InsertQueueApc(p) \/ QueueUserCallback(p)

GuestChooses == EnterOrLeaveCriticalRegion \/ BeginAlertableWait \/ WaitEnds \/ Exit

TitlePosts == \E a \in GuestApcs : KeInsertQueueApc(a) \/ KeRemoveQueueApc(a)

===============================================================================
