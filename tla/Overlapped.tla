------------------------------ MODULE Overlapped ------------------------------
(***************************************************************************)
(* Asynchronous operations of the title (XAM_OVERLAPPED): put off to the   *)
(* kernel's dispatch thread or completed on the spot, completed by result, *)
(* event and APC, and queried by XamGetOverlappedResult                    *)
(* (src/system/kernel_state.cpp, src/kernel/xam/xam_msg.cpp); the APCs are *)
(* those of ApcQueue.                                                      *)
(*                                                                         *)
(* One guest thread submits; its place in the code is ApcQueue's place.    *)
(* What is done under the global lock is one step.  The dispatch thread's  *)
(* wait ends only when it is notified.                                     *)
(***************************************************************************)
EXTENDS ApcQueue

CONSTANTS
  Ops,                     \* overlapped structures
  WithEvent, WithRoutine,  \* those that have an event, a completion routine
  Dispatcher, Guest,       \* the two threads that complete operations
  MaxSubmits               \* bound on the submissions

ASSUME OverlappedAssumption ==
  /\ WithEvent \subseteq Ops /\ WithRoutine \subseteq Ops
  /\ {Dispatcher, Guest} \subseteq Posters /\ Dispatcher # Guest
  /\ Ops \subseteq Arguments
  /\ IsFiniteSet(Ops) /\ MaxSubmits \in Nat

Completers == {Dispatcher, Guest}

VARIABLES
  result,      \* "pending" or not
  details,     \* details[o]: the submission whose error and length are stored
  event,       \* the operation's auto-reset event is set
  submits,     \* submits[o]: how often o was submitted
  early,       \* history: o was submitted again before all was over
  queue,       \* dispatch_queue_
  running,     \* dispatch_thread_running_
  dispatch,    \* where the dispatch thread is
  completing,  \* completing[c]: what c completes, and how far it is
  query,       \* what the guest thread submits or asks about
  shutdown,    \* how far the destructor is
  missed       \* history: it notified a thread that is about to wait

opVars == <<result, details, event, submits, early>>
dispatchVars == <<queue, running, dispatch>>
endVars == <<shutdown, missed>>
vars == <<apcVars, opVars, dispatchVars, completing, query, endVars>>

Nothing == [at |-> "nothing", op |-> None, number |-> 0]

Init ==
  /\ ApcInit
  /\ result = [o \in Ops |-> "none"] /\ details = [o \in Ops |-> 0]
  /\ event = [o \in Ops |-> FALSE]
  /\ submits = [o \in Ops |-> 0] /\ early = [o \in Ops |-> FALSE]
  /\ queue = <<>> /\ running = TRUE /\ dispatch = "test"
  /\ completing = [c \in Completers |-> Nothing]
  /\ query = None
  /\ shutdown = "no" /\ missed = FALSE

guest == <<apcs, disabled, blocks, hints, post, delivery, bounds>>   \* all but its place

-----------------------------------------------------------------------------
(* Submitting                                                              *)

\* Something of o's last completion is still to come, or was not collected
Unfinished(o) ==
  \/ event[o] \/ runs = o
  \/ \E c \in Completers : completing[c].op = o
  \/ \E b \in used : argument[b] = o

Total == Cardinality({x \in Ops \X (1..MaxSubmits) : x[2] <= submits[x[1]]})

Submitted(o) ==
  /\ Total < MaxSubmits /\ result[o] # "pending"
  /\ submits' = [submits EXCEPT ![o] = @ + 1]
  /\ early' = [early EXCEPT ![o] = Unfinished(o)]

(* CompleteOverlappedDeferredEx                                            *)
SubmitDeferred(o) ==
  /\ Goes("run", "push")
  /\ Submitted(o)
  /\ query' = o
  /\ result' = [result EXCEPT ![o] = "pending"]
  /\ UNCHANGED <<guest, details, event, dispatchVars, completing, endVars>>

(* Mutant: the dispatch thread is not notified. *)
PushDeferredSilently ==
  /\ Goes("push", "run")
  /\ queue' = Append(queue, query)
  /\ query' = None
  /\ UNCHANGED <<guest, opVars, running, dispatch, completing, endVars>>

PushDeferred ==
  /\ Goes("push", "run")
  /\ queue' = Append(queue, query)
  /\ dispatch' = IF dispatch = "waiting" THEN "woken" ELSE dispatch
  /\ query' = None
  /\ UNCHANGED <<guest, opVars, running, completing, endVars>>

(* CompleteOverlappedImmediateEx completes on the guest thread itself.      *)
SubmitImmediate(o) ==
  /\ Goes("run", "completing")
  /\ Submitted(o)
  /\ completing' = [completing EXCEPT ![Guest] = [at |-> "result", op |-> o, number |-> submits'[o]]]
  /\ UNCHANGED <<guest, result, details, event, dispatchVars, query, endVars>>

-----------------------------------------------------------------------------
(* The dispatch thread                                                     *)

TestRunning ==
  /\ dispatch = "test"
  /\ dispatch' = IF running THEN "lock" ELSE "exited"
  /\ UNCHANGED <<apcVars, opVars, queue, running, completing, query, endVars>>

WaitForWork ==
  /\ dispatch = "lock" /\ queue = <<>>
  /\ dispatch' = "waiting"
  /\ UNCHANGED <<apcVars, opVars, queue, running, completing, query, endVars>>

ExitWoken ==
  /\ dispatch = "woken" /\ ~running
  /\ dispatch' = "exited"
  /\ UNCHANGED <<apcVars, opVars, queue, running, completing, query, endVars>>

RunDeferred ==
  /\ dispatch = "lock" \/ (dispatch = "woken" /\ running)
  /\ queue # <<>>
  /\ dispatch' = "run" /\ queue' = Tail(queue)
  /\ completing' = [completing EXCEPT ![Dispatcher] = 
       [at |-> "result", op |-> Head(queue), number |-> submits[Head(queue)]]]
  /\ UNCHANGED <<apcVars, opVars, running, query, endVars>>

-----------------------------------------------------------------------------
(* CompleteOverlappedEx, on the thread c                                   *)

Completes(c, from, to) ==
  /\ completing[c].at = from
  /\ completing' = [completing EXCEPT ![c].at = to]

(* Mutant: the event is set with the result, before the details are stored. *)
StoreResultAndSignal(c) ==
  LET o == completing[c].op IN
  /\ Completes(c, "result", "details")
  /\ result' = [result EXCEPT ![o] = "done"]
  /\ event' = [event EXCEPT ![o] = @ \/ o \in WithEvent]
  /\ UNCHANGED <<apcVars, details, submits, early, dispatchVars, query, endVars>>

StoreResult(c) ==
  /\ Completes(c, "result", "details")
  /\ result' = [result EXCEPT ![completing[c].op] = "done"]
  /\ UNCHANGED <<apcVars, details, event, submits, early, dispatchVars, query, endVars>>

StoreDetails(c) ==
  /\ Completes(c, "details", "event")
  /\ details' = [details EXCEPT ![completing[c].op] = completing[c].number]
  /\ UNCHANGED <<apcVars, result, event, submits, early, dispatchVars, query, endVars>>

SetEvent(c) ==
  LET o == completing[c].op IN
  /\ Completes(c, "event", IF o \in WithRoutine THEN "routine" ELSE "over")
  /\ event' = [event EXCEPT ![o] = @ \/ o \in WithEvent]
  /\ UNCHANGED <<apcVars, result, details, submits, early, dispatchVars, query, endVars>>

EnqueueApc(c) ==
  /\ Completes(c, "routine", "over")
  /\ AllocateApc(c, completing[c].op)
  /\ UNCHANGED <<posts, opVars, dispatchVars, query, endVars>>

(* No memory, or no handle of the thread that submitted is left.           *)
NoApc(c) ==
  /\ Completes(c, "routine", "over")
  /\ Blocks = used \/ place = "gone"
  /\ UNCHANGED <<apcVars, opVars, dispatchVars, query, endVars>>

Completed(c) ==
  /\ completing[c].at = "over" /\ post[c].at = "idle"
  /\ completing' = [completing EXCEPT ![c] = Nothing]
  /\ IF c = Guest THEN Goes("completing", "run") /\ UNCHANGED dispatch
                  ELSE dispatch' = "test" /\ UNCHANGED place
  /\ UNCHANGED <<guest, opVars, queue, running, query, endVars>>

-----------------------------------------------------------------------------
(* XamGetOverlappedResult                                                  *)

GetResult(o) ==
  /\ submits[o] > 0
  /\ IF result[o] # "pending" THEN Goes("run", "polled")
                              ELSE o \in WithEvent /\ Goes("run", "eventWait")
  /\ query' = o
  /\ UNCHANGED <<guest, opVars, dispatchVars, completing, endVars>>

TakeEvent(from, to) ==
  /\ Goes(from, to)
  /\ event[query]
  /\ event' = [event EXCEPT ![query] = FALSE]
  /\ UNCHANGED <<guest, result, details, submits, early, dispatchVars, completing, query, endVars>>

EventWaited == TakeEvent("eventWait", "answered")

GetResultReturns ==
  /\ Goes("polled", "run") \/ Goes("answered", "run")
  /\ query' = None
  /\ UNCHANGED <<guest, opVars, dispatchVars, completing, endVars>>

(* XMsgCancelIORequest waits alertable, and delivers nothing when alerted.  *)
CancelIORequest(o) ==
  /\ Goes("run", "cancelWait")
  /\ o \in WithEvent /\ submits[o] > 0
  /\ query' = o
  /\ UNCHANGED <<guest, opVars, dispatchVars, completing, endVars>>

CancelWaited == TakeEvent("cancelWait", "answered")

CancelAlerted ==
  /\ Goes("cancelWait", "run")
  /\ TakeHint
  /\ unhinted' = (unhinted \/ apcs # <<>>)
  /\ query' = None
  /\ UNCHANGED <<apcs, disabled, blocks, post, delivery, posts>>
  /\ UNCHANGED <<opVars, dispatchVars, completing, endVars>>

-----------------------------------------------------------------------------
(* ~KernelState, after the title's threads have ended                      *)

StopDispatch ==
  /\ shutdown = "no" /\ place = "gone"
  /\ shutdown' = "stopping" /\ running' = FALSE
  /\ UNCHANGED <<apcVars, opVars, queue, dispatch, completing, query, missed>>

\* It has tested its flag, and will find nothing to do
AboutToWait == dispatch = "lock" /\ queue = <<>>

(* Mutant: the destructor notifies nobody. *)
NotifyNobody ==
  /\ shutdown = "stopping"
  /\ shutdown' = "joining"
  /\ missed' = AboutToWait
  /\ UNCHANGED <<apcVars, opVars, dispatchVars, completing, query>>

NotifyDispatch ==
  /\ shutdown = "stopping"
  /\ shutdown' = "joining"
  /\ dispatch' = IF dispatch = "waiting" THEN "woken" ELSE dispatch
  /\ missed' = AboutToWait
  /\ UNCHANGED <<apcVars, opVars, queue, running, completing, query>>

JoinDispatch ==
  /\ shutdown = "joining" /\ dispatch = "exited"
  /\ shutdown' = "joined"
  /\ UNCHANGED <<apcVars, opVars, dispatchVars, completing, query, missed>>

-----------------------------------------------------------------------------
others == <<opVars, dispatchVars, completing, query, endVars>>

GuestStep ==
  \/ GuestProceeds /\ UNCHANGED others
  \/ PushDeferred \/ EventWaited \/ GetResultReturns \/ CancelWaited \/ CancelAlerted

GuestCall ==
  \/ GuestChooses /\ UNCHANGED others
  \/ \E o \in Ops : SubmitDeferred(o) \/ SubmitImmediate(o) \/ GetResult(o) \/ CancelIORequest(o)

DispatchStep == TestRunning \/ WaitForWork \/ ExitWoken \/ RunDeferred

CompletionStep(c) ==
  \/ StoreResult(c) \/ StoreDetails(c) \/ SetEvent(c) \/ EnqueueApc(c) \/ NoApc(c)
  \/ Completed(c)

TitleStep ==
  /\ \/ TitlePosts
     \/ \E p \in Posters \ Completers, x \in Arguments \ Ops : NtQueueApcThread(p, x)
  /\ UNCHANGED others

PosterStep(p) == PosterProceeds(p) /\ UNCHANGED others

ShutdownStep == NotifyDispatch \/ JoinDispatch

Next ==
  \/ GuestStep \/ GuestCall \/ DispatchStep \/ TitleStep \/ StopDispatch \/ ShutdownStep
  \/ \E c \in Completers : CompletionStep(c)
  \/ \E p \in Posters : PosterStep(p)

Spec == Init /\ [][Next]_vars

(* Threads go on with what they do; nothing makes the title wait, ask or    *)
(* leave a critical region.                                                *)
Fairness ==
  /\ WF_vars(GuestStep) /\ WF_vars(DispatchStep) /\ WF_vars(ShutdownStep)
  /\ \A c \in Completers : WF_vars(CompletionStep(c))
  /\ \A p \in Posters : WF_vars(PosterStep(p))

FairSpec == Spec /\ Fairness

-----------------------------------------------------------------------------
(* Properties                                                              *)

Places == {"run", "wait", "deliver", "delivered", "taken", "routine", "rundown", "rundownTaken",
           "gone", "push", "completing", "polled", "eventWait", "answered", "cancelWait"}

(* Types; hints stay within the insertions they announce.                   *)
TypeOK ==
  /\ place \in Places
  /\ completing \in [Completers -> [at : {"nothing", "result", "details", "event", "routine", "over"},
                                    op : Ops \cup {None}, number : 0..MaxSubmits]]
  /\ posts \in 0..MaxPosts /\ unhinted \in BOOLEAN
  /\ apcs \in Seq(Apcs) /\ disabled \in BOOLEAN
  /\ used \subseteq Blocks /\ argument \in [Blocks -> Arguments \cup {None}]
  /\ hints \in 0..MaxPosts + Total
  /\ post \in [Posters -> [at : {"idle", "allocated", "inserted"}, block : Blocks \cup {None}]]
  /\ taken \in Apcs \cup {None} /\ runs \in Arguments \cup {None} /\ alerted \in BOOLEAN
  /\ result \in [Ops -> {"none", "pending", "done"}]
  /\ details \in [Ops -> 0..MaxSubmits] /\ submits \in [Ops -> 0..MaxSubmits]
  /\ event \in [Ops -> BOOLEAN] /\ early \in [Ops -> BOOLEAN]
  /\ queue \in Seq(Ops) /\ running \in BOOLEAN
  /\ dispatch \in {"test", "lock", "waiting", "woken", "run", "exited"}
  /\ query \in Ops \cup {None}
  /\ shutdown \in {"no", "stopping", "joining", "joined"} /\ missed \in BOOLEAN

One(b) == IF b THEN 1 ELSE 0
Holders(b) ==
  Cardinality({i \in DOMAIN apcs : apcs[i] = b})
  + Cardinality({p \in Posters : post[p] = [at |-> "allocated", block |-> b]})
  + One(taken = b)

(* A block of the system heap is in one place while it is allocated and in  *)
(* none when it is free: none is forgotten, freed twice or still queued.    *)
(* One that is queued after the rundown stays in the list for good.         *)
BlocksAccounted == \A b \in Blocks : Holders(b) = One(b \in used)

(* A waiting thread with a block queued has a hint to wake it, there or     *)
(* about to come, unless a wait used one up without delivering.             *)
WakeUpPending ==
  place = "wait" /\ Queued \cap Blocks # {} =>
    hints > 0 \/ unhinted \/ \E p \in Posters : post[p].at = "inserted"

Final(o) == result[o] # "pending" /\ details[o] = submits[o]

(* Whoever waited for the event, and the completion routine, find the       *)
(* operation's result and length, unless it was submitted again early; who  *)
(* polls may find the result alone.                                         *)
CompletionIsFinal ==
  /\ place = "answered" /\ ~early[query] => Final(query)
  /\ runs \in Ops /\ ~early[runs] => Final(runs)

(* A pending operation is completed, unless the kernel shuts down.          *)
OperationCompletes ==
  \A o \in Ops : result[o] = "pending" ~> result[o] # "pending" \/ ~running

(* The destructor gets the dispatch thread out of its wait, unless it       *)
(* notified between the thread's test and the wait that follows.            *)
DispatchJoins == shutdown = "stopping" ~> shutdown = "joined" \/ missed
===============================================================================
