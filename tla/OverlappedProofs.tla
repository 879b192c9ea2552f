--------------------------- MODULE OverlappedProofs ---------------------------
(* Theorems about Overlapped: any operations, blocks, posters and bounds.  *)
EXTENDS Overlapped, SequenceLemmas

USE ApcAssumption, OverlappedAssumption

-----------------------------------------------------------------------------
(* The inductive invariant, part by part.                                  *)

(* TypeOK in three parts, with nothing said of the number of hints.        *)
PostType == [at : {"idle", "allocated", "inserted"}, block : Blocks \cup {None}]
HeapTyped ==
  /\ used \subseteq Blocks /\ argument \in [Blocks -> Arguments \cup {None}]
  /\ post \in [Posters -> PostType]

(* The guest thread asks about an operation wherever it needs one.         *)
AsksPlaces == {"push", "polled", "eventWait", "answered", "cancelWait"}
ThreadTyped ==
  /\ place \in Places
  /\ apcs \in Seq(Apcs) /\ disabled \in BOOLEAN /\ hints \in Nat
  /\ taken \in Apcs \cup {None} /\ runs \in Arguments \cup {None} /\ alerted \in BOOLEAN
  /\ posts \in 0..MaxPosts /\ unhinted \in BOOLEAN
  /\ query \in Ops \cup {None}
  /\ place \in AsksPlaces => query \in Ops

CompletingType == [at : {"nothing", "result", "details", "event", "routine", "over"},
                   op : Ops \cup {None}, number : 0..MaxSubmits]
OpsTyped ==
  /\ result \in [Ops -> {"none", "pending", "done"}]
  /\ details \in [Ops -> 0..MaxSubmits] /\ submits \in [Ops -> 0..MaxSubmits]
  /\ event \in [Ops -> BOOLEAN] /\ early \in [Ops -> BOOLEAN]
  /\ queue \in Seq(Ops) /\ running \in BOOLEAN
  /\ dispatch \in {"test", "lock", "waiting", "woken", "run", "exited"}
  /\ shutdown \in {"no", "stopping", "joining", "joined"} /\ missed \in BOOLEAN
  /\ completing \in [Completers -> CompletingType]
  /\ \A c \in Completers : completing[c].at = "nothing" => completing[c].op = None

(* While the guest thread completes an operation it is nowhere else.       *)
GuestCompletes == completing[Guest].at # "nothing" => place = "completing"

Typed == HeapTyped /\ ThreadTyped /\ OpsTyped /\ GuestCompletes

(* Every hint, there or to come, was paid for by an insertion of the title *)
(* or a submission.                                                        *)
Posting == {p \in Posters : post[p].at # "idle"}
Unqueued(c) == completing[c].at \in {"result", "details", "event", "routine"}
PostCount == Cardinality(Posting)
Owed == One(Unqueued(Dispatcher)) + One(Unqueued(Guest)) + Len(queue) + One(place = "push")
Budget == hints + PostCount + Owed <= posts + Total

(* The one place of each allocated block.                                  *)
Allocated(p, b) == post[p].at = "allocated" /\ post[p].block = b
Accounts ==
  /\ IsInjective(apcs)
  /\ taken # None => place \in {"taken", "rundownTaken"}
  /\ \A b \in Blocks : b \in used <=> b \in Queued \/ taken = b \/ \E p \in Posters : Allocated(p, b)
  /\ \A b \in Blocks : b \in Queued => taken # b
  /\ \A p \in Posters, b \in Blocks : Allocated(p, b) => b \notin Queued /\ taken # b
  /\ \A p, q \in Posters, b \in Blocks : Allocated(p, b) /\ Allocated(q, b) => p = q
  /\ \A p \in Posters : post[p].at = "allocated" => post[p].block \in Blocks

(* A hint for the blocks in the queue is there or on its way, or the       *)
(* thread has just used it and delivers.                                   *)
Hinted ==
  Queued \cap Blocks # {} =>
    \/ hints > 0 \/ unhinted
    \/ \E p \in Posters : post[p].at = "inserted"
    \/ alerted /\ place \in {"deliver", "taken", "routine"}

(* A pending operation is asked for in one place: on its way to the queue, *)
(* in the queue, or about to be completed by the dispatch thread.          *)
Pushing(o) == place = "push" /\ query = o
Dispatched(o) == completing[Dispatcher].at = "result" /\ completing[Dispatcher].op = o
OnTheSpot(o) == completing[Guest].at = "result" /\ completing[Guest].op = o
Asked ==
  /\ IsInjective(queue)
  /\ \A o \in Ops : Pushing(o) \/ o \in ToSet(queue) \/ Dispatched(o) => result[o] = "pending"
  /\ \A o \in ToSet(queue) : ~Pushing(o) /\ ~Dispatched(o)
  /\ \A o \in Ops : ~(Pushing(o) /\ Dispatched(o))
  /\ \A o \in Ops : result[o] = "pending" => ~OnTheSpot(o)

(* What the title can learn of an operation's completion, it learns when   *)
(* its result and details are stored.                                      *)
Told(o) ==
  \/ event[o] \/ runs = o
  \/ \E b \in used : argument[b] = o
  \/ place = "answered" /\ query = o
Stored(o) ==
  /\ Told(o) => Final(o)
  /\ \A c \in Completers : completing[c].op = o =>
       /\ completing[c].number = submits[o]
       /\ completing[c].at \in {"result", "details"} => ~Told(o)
       /\ completing[c].at = "details" => result[o] # "pending"
       /\ completing[c].at \in {"event", "routine", "over"} => Final(o)
       /\ \A d \in Completers : completing[d].op = o => d = c
Results == \A o \in Ops : ~early[o] => Stored(o)

IInv == Typed /\ Budget /\ Accounts /\ Hinted /\ Asked /\ Results

-----------------------------------------------------------------------------
(* Who may take a step, and what each of them leaves alone.                *)

ApcStep ==
  /\ \/ GuestProceeds \/ GuestChooses \/ TitlePosts
     \/ \E p \in Posters \ Completers, x \in Arguments \ Ops : NtQueueApcThread(p, x)
     \/ \E p \in Posters : PosterProceeds(p)
  /\ UNCHANGED others

GuestOpStep ==
  \/ PushDeferred \/ EventWaited \/ GetResultReturns \/ CancelWaited \/ CancelAlerted
  \/ \E o \in Ops : SubmitDeferred(o) \/ SubmitImmediate(o) \/ GetResult(o) \/ CancelIORequest(o)

LEMMA NextMoves ==
  ASSUME [Next]_vars
  PROVE  \/ ApcStep \/ GuestOpStep \/ DispatchStep
         \/ \E c \in Completers : CompletionStep(c)
         \/ StopDispatch \/ ShutdownStep \/ UNCHANGED vars
  BY DEF Next, GuestStep, GuestCall, TitleStep, PosterStep, ApcStep, GuestOpStep

LEMMA ApcFrame ==
  ASSUME ApcStep
  PROVE  UNCHANGED <<result, details, event, submits, early, queue, running, dispatch,
                     completing, query, shutdown, missed>>
  BY DEF ApcStep, others, opVars, dispatchVars, endVars

LEMMA GuestOpFrame ==
  ASSUME GuestOpStep
  PROVE  UNCHANGED <<apcs, disabled, used, argument, post, taken, runs, alerted, posts,
                     details, running, shutdown, missed>>
  BY DEF GuestOpStep, PushDeferred, EventWaited, GetResultReturns, CancelWaited, TakeEvent,
         CancelAlerted, SubmitDeferred, SubmitImmediate, Submitted, GetResult,
         CancelIORequest, guest, blocks, delivery, bounds, opVars, dispatchVars, endVars

LEMMA DispatchFrame ==
  ASSUME DispatchStep
  PROVE  /\ UNCHANGED <<apcs, disabled, used, argument, hints, post, place, taken, runs,
                        alerted, posts, unhinted>>
         /\ UNCHANGED <<result, details, event, submits, early, running, query, shutdown,
                        missed>>
  BY DEF DispatchStep, TestRunning, WaitForWork, ExitWoken, RunDeferred, apcVars, blocks,
         delivery, bounds, opVars, endVars

LEMMA CompletionFrame ==
  ASSUME NEW c \in Completers, CompletionStep(c)
  PROVE  UNCHANGED <<apcs, disabled, hints, taken, runs, alerted, posts, unhinted, submits,
                     early, queue, running, query, shutdown, missed>>
  BY DEF CompletionStep, StoreResult, StoreDetails, SetEvent, EnqueueApc, NoApc, Completed,
         AllocateApc, Goes, apcVars, guest, blocks, delivery, bounds, opVars, dispatchVars,
         endVars

LEMMA ShutdownFrame ==
  ASSUME StopDispatch \/ ShutdownStep
  PROVE  /\ UNCHANGED <<apcs, disabled, used, argument, hints, post, place, taken, runs,
                        alerted, posts, unhinted>>
         /\ UNCHANGED <<result, details, event, submits, early, queue, completing, query>>
  BY DEF StopDispatch, ShutdownStep, NotifyDispatch, JoinDispatch, apcVars, blocks,
         delivery, bounds, opVars, dispatchVars

LEMMA StutterFrame ==
  ASSUME UNCHANGED vars
  PROVE  /\ UNCHANGED <<apcs, disabled, used, argument, hints, post, place, taken, runs,
                        alerted, posts, unhinted>>
         /\ UNCHANGED <<result, details, event, submits, early, queue, running, dispatch,
                        completing, query, shutdown, missed>>
  BY DEF vars, apcVars, blocks, delivery, bounds, opVars, dispatchVars, endVars

-----------------------------------------------------------------------------
(* The number of submissions.                                              *)

Submissions == {x \in Ops \X (1..MaxSubmits) : x[2] <= submits[x[1]]}

LEMMA SubmissionsFinite ==
  /\ IsFiniteSet(Submissions) /\ Total = Cardinality(Submissions) /\ Total \in Nat
  /\ IsFiniteSet(Submissions') /\ Total' = Cardinality(Submissions') /\ Total' \in Nat
  <1>1. IsFiniteSet(1..MaxSubmits)
    BY FS_Interval
  <1>2. IsFiniteSet(Ops \X (1..MaxSubmits))
    BY <1>1, FS_Product
  <1>3. IsFiniteSet(Submissions) /\ IsFiniteSet(Submissions')
    BY <1>2, FS_Subset DEF Submissions
  <1>4. Total = Cardinality(Submissions) /\ Total' = Cardinality(Submissions')
    BY DEF Submissions, Total
  <1> QED
    BY <1>3, <1>4, FS_CardinalityType

(* An operation is not submitted more often than all of them together.     *)
LEMMA RoomToSubmit ==
  ASSUME Typed, NEW o \in Ops, Total < MaxSubmits
  PROVE  submits[o] \in 0..MaxSubmits-1
  <1>1. submits[o] \in 0..MaxSubmits
    BY DEF Typed, OpsTyped
  <1>2. ASSUME submits[o] = MaxSubmits
        PROVE  FALSE
    <2> DEFINE f == [i \in 1..MaxSubmits |-> <<o, i>>]
    <2>1. f \in Injection(1..MaxSubmits, Submissions)
      BY <1>2 DEF Injection, IsInjective, Submissions
    <2>2. Cardinality(1..MaxSubmits) <= Cardinality(Submissions)
      BY <2>1, SubmissionsFinite, FS_Injection
    <2>3. Cardinality(1..MaxSubmits) = MaxSubmits
      BY FS_Interval
    <2> QED
      BY <2>2, <2>3, SubmissionsFinite
  <1> QED
    BY <1>1, <1>2

LEMMA SubmittedCounts ==
  ASSUME Typed, NEW o \in Ops, Submitted(o)
  PROVE  /\ submits' \in [Ops -> 0..MaxSubmits]
         /\ submits'[o] = submits[o] + 1
         /\ \A p \in Ops \ {o} : submits'[p] = submits[p]
         /\ Total' = Total + 1
  <1>1. submits[o] \in 0..MaxSubmits-1
    BY RoomToSubmit DEF Submitted
  <1>2. /\ submits' \in [Ops -> 0..MaxSubmits]
        /\ submits'[o] = submits[o] + 1
        /\ \A p \in Ops \ {o} : submits'[p] = submits[p]
    BY <1>1 DEF Typed, OpsTyped, Submitted
  <1> DEFINE x == <<o, submits[o] + 1>>
  <1>3. Submissions' = Submissions \cup {x}
    <2>1. ASSUME NEW p \in Ops, NEW i \in 1..MaxSubmits
          PROVE  <<p, i>> \in Submissions' <=> <<p, i>> \in Submissions \/ <<p, i>> = x
      <3>1. submits[p] \in Nat
        BY DEF Typed, OpsTyped
      <3>2. CASE p = o
        BY <1>2, <3>1, <3>2 DEF Submissions
      <3>3. CASE p # o
        BY <1>2, <3>3 DEF Submissions
      <3> QED
        BY <3>2, <3>3
    <2>2. Submissions \subseteq Ops \X (1..MaxSubmits) /\ Submissions' \subseteq Ops \X (1..MaxSubmits)
      BY DEF Submissions
    <2>3. x \in Ops \X (1..MaxSubmits)
      BY <1>1
    <2>4. \A y \in Ops \X (1..MaxSubmits) : \E p \in Ops, i \in 1..MaxSubmits : y = <<p, i>>
      OBVIOUS
    <2> HIDE DEF x
    <2> QED
      BY <2>1, <2>2, <2>3, <2>4
  <1>4. x \notin Submissions
    BY <1>1 DEF Submissions
  <1>5. Cardinality(Submissions \cup {x}) = Cardinality(Submissions) + 1
    BY <1>4, SubmissionsFinite, FS_AddElement
  <1> QED
    BY <1>2, <1>3, <1>5, SubmissionsFinite

LEMMA TotalKept == ASSUME UNCHANGED submits PROVE Total' = Total
  BY DEF Total

-----------------------------------------------------------------------------
(* Types.                                                                  *)

LEMMA AllocateType ==
  ASSUME Typed, NEW p \in Posters, NEW x \in Arguments \cup {None}, AllocateApc(p, x)
  PROVE  HeapTyped'
  <1> DEFINE b == CHOOSE b \in Blocks \ used : TRUE
  <1>1. b \in Blocks
    BY DEF Typed, HeapTyped, AllocateApc
  <1>2. /\ used' = used \cup {b}
        /\ argument' = [argument EXCEPT ![b] = x]
        /\ post' = [post EXCEPT ![p] = [at |-> "allocated", block |-> b]]
    BY DEF AllocateApc
  <1> HIDE DEF b
  <1> QED
    BY <1>1, <1>2 DEF Typed, HeapTyped, PostType

LEMMA HeapTypedStep ==
  ASSUME Typed, [Next]_vars
  PROVE  HeapTyped'
  <1> USE DEF HeapTyped
  <1>0. HeapTyped
    BY DEF Typed
  <1>1. CASE UNCHANGED <<used, argument, post>>
    BY <1>0, <1>1
  <1>2. CASE FreeTaken \/ RundownFree
    BY <1>0, <1>2 DEF FreeTaken, RundownFree, Free
  <1>3. ASSUME NEW p \in Posters, NEW x \in Arguments, NtQueueApcThread(p, x)
        PROVE  HeapTyped'
    BY <1>3, AllocateType DEF NtQueueApcThread
  <1>4. ASSUME NEW p \in Posters, PosterProceeds(p)
        PROVE  HeapTyped'
    BY <1>0, <1>4 DEF PosterProceeds, InsertQueueApc, QueueUserCallback, Idle, blocks, PostType
  <1>5. ASSUME NEW c \in Completers, EnqueueApc(c)
        PROVE  HeapTyped'
    <2>1. completing[c].op \in Arguments \cup {None} /\ c \in Posters
      BY DEF Typed, OpsTyped, Completers, CompletingType
    <2> QED
      BY <1>5, <2>1, AllocateType DEF EnqueueApc
  <1>6. CASE ApcStep
    BY <1>1, <1>2, <1>3, <1>4, <1>6
       DEF ApcStep, GuestProceeds, Alerted, TakeApc, RoutineReturns, DeliveryEnds,
           AfterDelivery, RundownTake, RundownEnds, GuestChooses, EnterOrLeaveCriticalRegion,
           BeginAlertableWait, WaitEnds, Exit, TitlePosts, KeInsertQueueApc,
           KeRemoveQueueApc, blocks
  <1>7. ASSUME NEW c \in Completers, CompletionStep(c)
        PROVE  HeapTyped'
    BY <1>1, <1>5, <1>7
       DEF CompletionStep, StoreResult, StoreDetails, SetEvent, NoApc, Completed, apcVars, guest, blocks
  <1> QED
    BY <1>1, <1>6, <1>7, NextMoves, GuestOpFrame, DispatchFrame, ShutdownFrame, StutterFrame

LEMMA ApcThreadTyped ==
  ASSUME Typed, Accounts, ApcStep
  PROVE  ThreadTyped' /\ (place' # place => place' # "completing" /\ place # "completing")
  <1> USE DEF ThreadTyped, AsksPlaces
  <1>0. ThreadTyped /\ UNCHANGED query
    BY ApcFrame DEF Typed
  <1> DEFINE Goal ==
        /\ apcs' \in Seq(Apcs) /\ disabled' \in BOOLEAN /\ hints' \in Nat
        /\ taken' \in Apcs \cup {None} /\ runs' \in Arguments \cup {None}
        /\ alerted' \in BOOLEAN /\ posts' \in 0..MaxPosts /\ unhinted' \in BOOLEAN
        /\ place' \in Places
        /\ place' # place => {place, place'} \cap (AsksPlaces \cup {"completing"}) = {}
  <1>1. CASE GuestProceeds
    <2>1. apcs # <<>> => Head(apcs) \in Apcs /\ Tail(apcs) \in Seq(Apcs)
      BY <1>0, HeadTailProperties
    <2>2. CASE Alerted
      BY <1>0, <2>2 DEF Alerted, TakeHint, Goes, Places, bounds
    <2>3. CASE RoutineReturns \/ RundownEnds \/ AfterDelivery
      BY <1>0, <2>3 DEF RoutineReturns, RundownEnds, AfterDelivery, Goes, Places, delivery, bounds
    <2>4. CASE DeliveryEnds
      <3>1. unhinted' \in BOOLEAN
        BY <1>0, <2>4 DEF DeliveryEnds
      <3> QED
        BY <1>0, <2>4, <3>1 DEF DeliveryEnds, Goes, Places, delivery
    <2>5. CASE TakeApc \/ RundownTake
      BY <1>0, <2>1, <2>5 DEF TakeApc, RundownTake, Goes, Places, bounds
    <2>6. CASE FreeTaken \/ RundownFree
      <3>1. runs' \in Arguments \cup {None}
        BY <1>0, <2>6 DEF FreeTaken, RundownFree, Typed, HeapTyped
      <3> QED
        BY <1>0, <2>6, <3>1 DEF FreeTaken, RundownFree, Goes, Places, bounds
    <2> QED
      BY <1>1, <2>2, <2>3, <2>4, <2>5, <2>6 DEF GuestProceeds
  <1>2. CASE GuestChooses
    BY <1>0, <1>2 DEF GuestChooses, EnterOrLeaveCriticalRegion, BeginAlertableWait, WaitEnds,
                      Exit, Goes, Places, delivery, bounds
  <1>3. CASE TitlePosts
    <2>1. \A a \in GuestApcs : Append(apcs, a) \in Seq(Apcs) /\ RemoveFirst(apcs, a) \in Seq(Apcs)
      BY <1>0, AppendProperties, RemoveFirstDistinct DEF Apcs, Accounts
    <2>2. apcs' \in Seq(Apcs)
      BY <1>3, <2>1 DEF TitlePosts, KeInsertQueueApc, KeRemoveQueueApc
    <2> QED
      BY <1>0, <1>3, <2>2 DEF TitlePosts, KeInsertQueueApc, KeRemoveQueueApc, delivery, bounds
  <1>4. ASSUME NEW p \in Posters, NEW x \in Arguments, NtQueueApcThread(p, x)
        PROVE  Goal
    BY <1>0, <1>4 DEF NtQueueApcThread, AllocateApc, delivery
  <1>5. ASSUME NEW p \in Posters, PosterProceeds(p)
        PROVE  Goal
    <2>1. post[p].at = "allocated" => Append(apcs, post[p].block) \in Seq(Apcs)
      BY <1>0, AppendProperties DEF Apcs, Accounts
    <2>2. CASE InsertQueueApc(p)
      <3>1. apcs' \in Seq(Apcs)
        BY <2>1, <2>2 DEF InsertQueueApc
      <3> QED
        BY <1>0, <2>2, <3>1 DEF InsertQueueApc, delivery, bounds
    <2>3. CASE QueueUserCallback(p)
      BY <1>0, <2>3 DEF QueueUserCallback, delivery, bounds
    <2> QED
      BY <1>5, <2>2, <2>3 DEF PosterProceeds
  <1>6. Goal
    BY <1>1, <1>2, <1>3, <1>4, <1>5 DEF ApcStep
  <1> QED
    BY <1>0, <1>6

LEMMA GuestOpThreadTyped ==
  ASSUME Typed, GuestOpStep
  PROVE  ThreadTyped'
  <1>0. /\ ThreadTyped
        /\ UNCHANGED <<apcs, disabled, taken, runs, alerted, posts>>
    BY GuestOpFrame DEF Typed
  <1>1. place' \in Places /\ query' \in Ops \cup {None} /\ (place' \in AsksPlaces => query' \in Ops)
    BY <1>0 DEF GuestOpStep, PushDeferred, EventWaited, GetResultReturns, CancelWaited,
         TakeEvent, CancelAlerted, SubmitDeferred, SubmitImmediate, GetResult,
         CancelIORequest, Goes, ThreadTyped, AsksPlaces, Places
  <1>2. hints' \in Nat /\ unhinted' \in BOOLEAN
    <2>1. CASE CancelAlerted
      BY <1>0, <2>1 DEF CancelAlerted, TakeHint, ThreadTyped
    <2>2. CASE UNCHANGED <<hints, unhinted>>
      BY <1>0, <2>2 DEF ThreadTyped
    <2> QED
      BY <2>1, <2>2 DEF GuestOpStep, PushDeferred, EventWaited, GetResultReturns,
         CancelWaited, TakeEvent, SubmitDeferred, SubmitImmediate, GetResult,
         CancelIORequest, guest, bounds
  <1> QED
    BY <1>0, <1>1, <1>2 DEF ThreadTyped

LEMMA ThreadTypedStep ==
  ASSUME Typed, Accounts, [Next]_vars
  PROVE  ThreadTyped'
  <1>1. ASSUME UNCHANGED <<apcs, disabled, hints, taken, runs, alerted, posts, unhinted, query>>,
               place' = place \/ place' = "run"
        PROVE  ThreadTyped'
    BY <1>1 DEF Typed, ThreadTyped, Places, AsksPlaces
  <1>2. ASSUME NEW c \in Completers, CompletionStep(c)
        PROVE  place' = place \/ place' = "run"
    BY <1>2 DEF CompletionStep, StoreResult, StoreDetails, SetEvent, EnqueueApc, NoApc,
                Completed, AllocateApc, Goes, apcVars
  <1> QED
    BY <1>1, <1>2, NextMoves, ApcThreadTyped, GuestOpThreadTyped, DispatchFrame,
       CompletionFrame, ShutdownFrame, StutterFrame

LEMMA CompletionOpsTyped ==
  ASSUME Typed, NEW c \in Completers, CompletionStep(c)
  PROVE  OpsTyped'
  <1>0. OpsTyped /\ UNCHANGED <<submits, early, queue, running, shutdown, missed>>
    BY CompletionFrame DEF Typed
  <1>1. completing[c] \in CompletingType /\ completing[c].number \in 0..MaxSubmits
    BY <1>0 DEF OpsTyped, CompletingType
  <1>2. result' \in [Ops -> {"none", "pending", "done"}]
    BY <1>0 DEF OpsTyped, CompletionStep, StoreResult, StoreDetails, SetEvent, EnqueueApc,
                NoApc, Completed, opVars
  <1>3. details' \in [Ops -> 0..MaxSubmits]
    BY <1>0, <1>1 DEF OpsTyped, CompletionStep, StoreResult, StoreDetails, SetEvent, EnqueueApc,
                NoApc, Completed, opVars
  <1>4. event' \in [Ops -> BOOLEAN]
    BY <1>0 DEF OpsTyped, CompletionStep, StoreResult, StoreDetails, SetEvent, EnqueueApc,
                NoApc, Completed, opVars
  <1>5. dispatch' \in {"test", "lock", "waiting", "woken", "run", "exited"}
    BY <1>0 DEF OpsTyped, CompletionStep, StoreResult, StoreDetails, SetEvent, EnqueueApc,
                NoApc, Completed, dispatchVars
  <1>6. /\ completing' \in [Completers -> CompletingType]
        /\ \A d \in Completers : completing'[d].at = "nothing" => completing'[d].op = None
    <2>1. CASE Completed(c)
      BY <1>0, <2>1 DEF Completed, Nothing, OpsTyped, CompletingType
    <2>2. ASSUME NEW to \in {"details", "event", "routine", "over"},
                 completing' = [completing EXCEPT ![c].at = to]
          PROVE  /\ completing' \in [Completers -> CompletingType]
                 /\ \A d \in Completers : completing'[d].at = "nothing" => completing'[d].op = None
      <3>1. /\ completing'[c] = [completing[c] EXCEPT !.at = to]
            /\ \A d \in Completers \ {c} : completing'[d] = completing[d]
        BY <1>0, <2>2 DEF OpsTyped
      <3>2. completing'[c] \in CompletingType /\ completing'[c].at # "nothing"
        BY <1>1, <3>1 DEF CompletingType
      <3>3. \A d \in Completers : completing'[d] \in CompletingType
        BY <1>0, <3>1, <3>2 DEF OpsTyped
      <3> QED
        BY <1>0, <2>2, <3>1, <3>2, <3>3 DEF OpsTyped
    <2>3. CASE ~Completed(c)
      <3>1. \E to \in {"details", "event", "routine", "over"} :
              completing' = [completing EXCEPT ![c].at = to]
        BY <2>3 DEF CompletionStep, StoreResult, StoreDetails, SetEvent, EnqueueApc, NoApc,
                    Completes
      <3> QED
        BY <2>2, <3>1
    <2> QED
      BY <2>1, <2>3
  <1> QED
    BY <1>0, <1>2, <1>3, <1>4, <1>5, <1>6 DEF OpsTyped

LEMMA OpsTypedStep ==
  ASSUME Typed, [Next]_vars
  PROVE  OpsTyped'
  <1>0. OpsTyped
    BY DEF Typed
  <1>1. CASE ApcStep \/ UNCHANGED vars
    BY <1>0, <1>1, ApcFrame, StutterFrame DEF OpsTyped
  <1>2. CASE DispatchStep
    <2>1. queue' \in Seq(Ops) /\ dispatch' \in {"test", "lock", "waiting", "woken", "run", "exited"}
      <3>1. queue # <<>> => Tail(queue) \in Seq(Ops)
        BY <1>0, HeadTailProperties DEF OpsTyped
      <3> QED
        BY <1>0, <1>2, <3>1
           DEF OpsTyped, DispatchStep, TestRunning, WaitForWork, ExitWoken, RunDeferred
    <2>2. CASE RunDeferred
      <3>1. Head(queue) \in Ops /\ submits[Head(queue)] \in 0..MaxSubmits
        BY <1>0, <2>2, HeadTailProperties DEF OpsTyped, RunDeferred
      <3>2. completing' = [completing EXCEPT ![Dispatcher] =
              [at |-> "result", op |-> Head(queue), number |-> submits[Head(queue)]]]
        BY <2>2 DEF RunDeferred
      <3> QED
        BY <1>0, <1>2, <2>1, <3>1, <3>2, DispatchFrame DEF OpsTyped, CompletingType, Completers
    <2>3. CASE UNCHANGED completing
      BY <1>0, <1>2, <2>1, <2>3, DispatchFrame DEF OpsTyped
    <2> QED
      BY <1>2, <2>2, <2>3 DEF DispatchStep, TestRunning, WaitForWork, ExitWoken
  <1>3. CASE StopDispatch \/ ShutdownStep
    <2>1. /\ running' \in BOOLEAN /\ missed' \in BOOLEAN
          /\ shutdown' \in {"no", "stopping", "joining", "joined"}
          /\ dispatch' \in {"test", "lock", "waiting", "woken", "run", "exited"}
      BY <1>0, <1>3 DEF OpsTyped, StopDispatch, ShutdownStep, NotifyDispatch, JoinDispatch,
                        AboutToWait, dispatchVars
    <2> QED
      BY <1>0, <1>3, <2>1, ShutdownFrame DEF OpsTyped
  <1>4. CASE GuestOpStep
    <2>0. UNCHANGED <<details, running, shutdown, missed>>
      BY <1>4, GuestOpFrame
    <2>1. CASE PushDeferred
      <3>1. queue' \in Seq(Ops)
        BY <1>0, <2>1, AppendProperties DEF PushDeferred, Goes, Typed, ThreadTyped, AsksPlaces, OpsTyped
      <3> QED
        BY <1>0, <2>0, <2>1, <3>1 DEF PushDeferred, opVars, OpsTyped
    <2>2. CASE \/ EventWaited \/ CancelWaited \/ GetResultReturns \/ CancelAlerted
               \/ \E o \in Ops : GetResult(o) \/ CancelIORequest(o)
      BY <1>0, <2>0, <2>2 DEF EventWaited, CancelWaited, TakeEvent, GetResultReturns, CancelAlerted,
                  GetResult, CancelIORequest, opVars, dispatchVars, OpsTyped
    <2>3. ASSUME NEW o \in Ops, Submitted(o)
          PROVE  submits' \in [Ops -> 0..MaxSubmits] /\ early' \in [Ops -> BOOLEAN]
                 /\ submits'[o] \in 0..MaxSubmits
      <3>1. Unfinished(o) \in BOOLEAN
        BY DEF Unfinished
      <3>2. submits' \in [Ops -> 0..MaxSubmits]
        BY <2>3, SubmittedCounts
      <3> QED
        BY <1>0, <2>3, <3>1, <3>2 DEF Submitted, OpsTyped
    <2>4. ASSUME NEW o \in Ops, SubmitDeferred(o)
          PROVE  OpsTyped'
      <3>1. submits' \in [Ops -> 0..MaxSubmits] /\ early' \in [Ops -> BOOLEAN]
        BY <2>3, <2>4 DEF SubmitDeferred
      <3>2. result' \in [Ops -> {"none", "pending", "done"}]
        BY <1>0, <2>4 DEF SubmitDeferred, OpsTyped
      <3> QED
        BY <1>0, <2>0, <2>4, <3>1, <3>2 DEF SubmitDeferred, dispatchVars, OpsTyped
    <2>5. ASSUME NEW o \in Ops, SubmitImmediate(o)
          PROVE  OpsTyped'
      <3>1. /\ submits' \in [Ops -> 0..MaxSubmits] /\ early' \in [Ops -> BOOLEAN]
            /\ submits'[o] \in 0..MaxSubmits
        BY <2>3, <2>5 DEF SubmitImmediate
      <3>2. completing' = [completing EXCEPT ![Guest] =
              [at |-> "result", op |-> o, number |-> submits'[o]]]
        BY <2>5 DEF SubmitImmediate
      <3>3. /\ completing' \in [Completers -> CompletingType]
            /\ \A c \in Completers : completing'[c].at = "nothing" => completing'[c].op = None
        BY <1>0, <3>1, <3>2 DEF OpsTyped, CompletingType, Completers
      <3> QED
        BY <1>0, <2>0, <2>5, <3>1, <3>3 DEF SubmitImmediate, dispatchVars, OpsTyped
    <2> QED
      BY <1>4, <2>1, <2>2, <2>4, <2>5 DEF GuestOpStep
  <1> QED
    BY <1>1, <1>2, <1>3, <1>4, NextMoves, CompletionOpsTyped

LEMMA GuestCompletesStep ==
  ASSUME Typed, Accounts, [Next]_vars
  PROVE  GuestCompletes'
  <1> USE DEF GuestCompletes
  <1>0. GuestCompletes
    BY DEF Typed
  <1>1. CASE ApcStep
    BY <1>0, <1>1, ApcFrame, ApcThreadTyped
  <1>2. CASE GuestOpStep
    <2>1. \/ UNCHANGED completing /\ place # "completing"
          \/ place' = "completing"
      BY <1>2 DEF GuestOpStep, PushDeferred, EventWaited, GetResultReturns, CancelWaited,
         TakeEvent, CancelAlerted, SubmitDeferred, SubmitImmediate, GetResult,
         CancelIORequest, Goes
    <2> QED
      BY <1>0, <2>1
  <1>3. CASE DispatchStep
    <2>1. UNCHANGED place
      BY <1>3, DispatchFrame
    <2>2. completing'[Guest] = completing[Guest]
      BY <1>3 DEF DispatchStep, TestRunning, WaitForWork, ExitWoken, RunDeferred, Typed,
                  OpsTyped, Completers
    <2> QED
      BY <1>0, <2>1, <2>2
  <1>4. ASSUME NEW c \in Completers, CompletionStep(c)
        PROVE  GuestCompletes'
    <2>0. completing \in [Completers -> CompletingType] /\ Guest \in Completers
      BY DEF Typed, OpsTyped, Completers
    <2>1. CASE Completed(c)
      BY <1>0, <2>0, <2>1 DEF Completed, Nothing
    <2>2. CASE UNCHANGED place /\ \E from, to : Completes(c, from, to) /\ from # "nothing"
      BY <1>0, <2>0, <2>2 DEF Completes, CompletingType
    <2> QED
      BY <1>4, <2>1, <2>2 DEF CompletionStep, StoreResult, StoreDetails, SetEvent, EnqueueApc,
         NoApc, AllocateApc, apcVars
  <1> QED
    BY <1>0, <1>1, <1>2, <1>3, <1>4, NextMoves, ShutdownFrame, StutterFrame

LEMMA TypedStep ==
  ASSUME Typed, Accounts, [Next]_vars
  PROVE  Typed'
  BY HeapTypedStep, ThreadTypedStep, OpsTypedStep, GuestCompletesStep DEF Typed

-----------------------------------------------------------------------------
(* The blocks.                                                             *)

LEMMA AccountsKept ==
  ASSUME Accounts, UNCHANGED <<apcs, used, taken, post>>,
         place \in {"taken", "rundownTaken"} => place' = place
  PROVE  Accounts'
  BY DEF Accounts, Allocated, Queued

LEMMA AllocateAccounts ==
  ASSUME Typed, Accounts, NEW p \in Posters, NEW x, AllocateApc(p, x)
  PROVE  Accounts'
  <1> DEFINE b == CHOOSE b \in Blocks \ used : TRUE
  <1>1. b \in Blocks \ used
    BY DEF Typed, HeapTyped, AllocateApc
  <1>2. /\ used' = used \cup {b}
        /\ post' = [post EXCEPT ![p] = [at |-> "allocated", block |-> b]]
        /\ UNCHANGED <<apcs, taken, place>>
    BY DEF AllocateApc, delivery
  <1> HIDE DEF b
  <1>3. /\ \A d : Allocated(p, d)' <=> d = b
        /\ \A d : ~Allocated(p, d)
        /\ \A q \in Posters \ {p}, d \in Blocks : Allocated(q, d)' <=> Allocated(q, d)
        /\ \A q \in Posters \ {p} : post'[q] = post[q]
    BY <1>2 DEF Typed, HeapTyped, AllocateApc, Allocated
  <1>4. Queued' = Queued
    BY <1>2 DEF Queued
  <1>5. b \notin Queued /\ taken # b /\ \A q \in Posters : ~Allocated(q, b)
    BY <1>1 DEF Accounts
  <1>6. post'[p].at = "allocated" /\ post'[p].block = b
    BY <1>2 DEF Typed, HeapTyped
  <1>7. \A d \in Blocks : d \in used' <=> d \in Queued' \/ taken' = d \/ \E q \in Posters : Allocated(q, d)'
    BY <1>1, <1>2, <1>3, <1>4 DEF Accounts
  <1>8. /\ \A q \in Posters, d \in Blocks : Allocated(q, d)' => d \notin Queued' /\ taken' # d
        /\ \A q, r \in Posters, d \in Blocks : Allocated(q, d)' /\ Allocated(r, d)' => q = r
    BY <1>1, <1>2, <1>3, <1>4, <1>5 DEF Accounts
  <1>9. \A q \in Posters : post'[q].at = "allocated" => post'[q].block \in Blocks
    BY <1>1, <1>3, <1>6 DEF Accounts
  <1> QED
    BY <1>2, <1>4, <1>7, <1>8, <1>9 DEF Accounts

LEMMA AccountsStep ==
  ASSUME Typed, Accounts, [Next]_vars
  PROVE  Accounts'
  <1>0. apcs \in Seq(Apcs) /\ IsInjective(apcs) /\ taken \in Apcs \cup {None}
    BY DEF Typed, ThreadTyped, Accounts
  <1>1. CASE TakeApc \/ RundownTake
    <2> DEFINE h == Head(apcs)
    <2>1. /\ apcs # <<>> /\ taken' = h /\ apcs' = Tail(apcs)
          /\ taken = None /\ place' \in {"taken", "rundownTaken"}
          /\ UNCHANGED <<used, post>>
      BY <1>1 DEF TakeApc, RundownTake, Goes, blocks, Accounts
    <2>2. /\ h \in Queued /\ Queued = Queued' \cup {h}
          /\ IsInjective(apcs') /\ h \notin Queued'
      BY <1>0, <2>1, TailDistinct DEF Queued
    <2> HIDE DEF h
    <2>3. \A b \in Blocks : taken # b
      BY <2>1
    <2> QED
      BY <2>1, <2>2, <2>3 DEF Accounts, Allocated
  <1>2. CASE FreeTaken \/ RundownFree
    <2>1. /\ used' = used \ {taken} /\ taken' = None
          /\ UNCHANGED <<apcs, post>>
      BY <1>2 DEF FreeTaken, RundownFree, Free
    <2>2. Queued' = Queued /\ \A p, b : Allocated(p, b)' <=> Allocated(p, b)
      BY <2>1 DEF Queued, Allocated
    <2> QED
      BY <2>1, <2>2 DEF Accounts
  <1>3. ASSUME NEW a \in GuestApcs, KeInsertQueueApc(a)
        PROVE  Accounts'
    <2>1. a \in Apcs /\ a \notin Blocks /\ a \notin Queued /\ apcs' = Append(apcs, a)
      BY <1>3 DEF KeInsertQueueApc, Apcs
    <2>2. Queued' = Queued \cup {a} /\ IsInjective(apcs')
      BY <1>0, <2>1, AppendDistinct DEF Queued
    <2> QED
      BY <1>3, <2>1, <2>2 DEF KeInsertQueueApc, blocks, delivery, Accounts, Allocated
  <1>4. ASSUME NEW a \in GuestApcs, KeRemoveQueueApc(a)
        PROVE  Accounts'
    <2>1. a \notin Blocks
      OBVIOUS
    <2>2. Queued' = Queued \ {a} /\ IsInjective(apcs')
      BY <1>0, <1>4, RemoveFirstDistinct DEF KeRemoveQueueApc, Queued
    <2> QED
      BY <1>4, <2>1, <2>2 DEF KeRemoveQueueApc, blocks, delivery, Accounts, Allocated
  <1>5. ASSUME NEW p \in Posters, InsertQueueApc(p)
        PROVE  Accounts'
    <2> DEFINE b == post[p].block
    <2>1. /\ Allocated(p, b) /\ b \in Blocks /\ b \notin Queued /\ taken # b /\ b \in Apcs
          /\ apcs' = Append(apcs, b)
          /\ UNCHANGED <<used, taken, place>>
      BY <1>5 DEF InsertQueueApc, Accounts, Allocated, Apcs, blocks, delivery
    <2>2. Queued' = Queued \cup {b} /\ IsInjective(apcs')
      BY <1>0, <2>1, AppendDistinct DEF Queued
    <2>3. /\ \A d : ~Allocated(p, d)' /\ (Allocated(p, d) <=> d = b)
          /\ \A q \in Posters \ {p}, d \in Blocks : Allocated(q, d)' <=> Allocated(q, d)
          /\ \A q \in Posters \ {p} : post'[q] = post[q]
          /\ post'[p].at # "allocated"
      BY <1>5 DEF InsertQueueApc, Allocated, Typed, HeapTyped, PostType
    <2> HIDE DEF b
    <2>4. \A d \in Blocks : d \in used' <=> d \in Queued' \/ taken' = d \/ \E q \in Posters : Allocated(q, d)'
      BY <2>1, <2>2, <2>3 DEF Accounts
    <2>5. \A q \in Posters \ {p} : ~Allocated(q, b)
      BY <2>1 DEF Accounts
    <2>6. \A q \in Posters, d \in Blocks : Allocated(q, d)' => d \notin Queued' /\ taken' # d
      BY <2>1, <2>2, <2>3, <2>5 DEF Accounts
    <2> QED
      BY <2>1, <2>2, <2>3, <2>4, <2>6 DEF Accounts
  <1>6. ASSUME NEW p \in Posters, QueueUserCallback(p)
        PROVE  Accounts'
    <2>1. UNCHANGED <<apcs, used, taken, place>>
      BY <1>6 DEF QueueUserCallback, blocks, delivery
    <2>2. /\ \A q \in Posters, d \in Blocks : Allocated(q, d)' <=> Allocated(q, d)
          /\ \A q \in Posters : post'[q].at = "allocated" => post'[q] = post[q]
      BY <1>6 DEF QueueUserCallback, Idle, Allocated, Typed, HeapTyped, PostType
    <2> QED
      BY <2>1, <2>2 DEF Accounts, Queued
  <1>7. CASE ApcStep
    <2>1. CASE \/ Alerted \/ RoutineReturns \/ DeliveryEnds \/ AfterDelivery \/ RundownEnds
               \/ GuestChooses
      BY <2>1, AccountsKept
         DEF Alerted, RoutineReturns, DeliveryEnds, AfterDelivery, RundownEnds, GuestChooses,
             EnterOrLeaveCriticalRegion, BeginAlertableWait, WaitEnds, Exit, Goes, blocks,
             delivery
    <2>2. ASSUME NEW p \in Posters, NEW x \in Arguments, NtQueueApcThread(p, x)
          PROVE  Accounts'
      BY <2>2, AllocateAccounts DEF NtQueueApcThread
    <2> QED
      BY <1>1, <1>2, <1>3, <1>4, <1>5, <1>6, <1>7, <2>1, <2>2
         DEF ApcStep, GuestProceeds, TitlePosts, PosterProceeds
  <1>8. CASE GuestOpStep
    <2>1. place \in {"taken", "rundownTaken"} => place' = place
      BY <1>8 DEF GuestOpStep, PushDeferred, EventWaited, GetResultReturns, CancelWaited,
         TakeEvent, CancelAlerted, SubmitDeferred, SubmitImmediate, GetResult,
         CancelIORequest, Goes
    <2> QED
      BY <1>8, <2>1, GuestOpFrame, AccountsKept
  <1>9. ASSUME NEW c \in Completers, CompletionStep(c)
        PROVE  Accounts'
    <2>1. CASE EnqueueApc(c)
      <3>1. c \in Posters
        BY DEF Completers
      <3> QED
        BY <2>1, <3>1, AllocateAccounts DEF EnqueueApc
    <2>2. CASE ~EnqueueApc(c)
      BY <1>9, <2>2, AccountsKept
         DEF CompletionStep, StoreResult, StoreDetails, SetEvent, NoApc, Completed, Goes,
             apcVars, guest, blocks, delivery
    <2> QED
      BY <2>1, <2>2
  <1> QED
    BY <1>7, <1>8, <1>9, NextMoves, AccountsKept, DispatchFrame, ShutdownFrame, StutterFrame

(* Counting the holders of a block.                                         *)
LEMMA AccountsCount ==
  ASSUME Typed, Accounts
  PROVE  BlocksAccounted
  <1> SUFFICES ASSUME NEW b \in Blocks
               PROVE  Holders(b) = One(b \in used)
    BY DEF BlocksAccounted
  <1> DEFINE P == {p \in Posters : post[p] = [at |-> "allocated", block |-> b]}
             I == {i \in DOMAIN apcs : apcs[i] = b}
  <1>1. Cardinality(I) = IF b \in Queued THEN 1 ELSE 0
    BY DistinctCount DEF Typed, ThreadTyped, Accounts, Queued
  <1>2. \A p \in Posters : p \in P <=> Allocated(p, b)
    BY DEF Typed, HeapTyped, PostType, Allocated
  <1>3. Cardinality(P) = IF \E p \in Posters : Allocated(p, b) THEN 1 ELSE 0
    <2>1. ASSUME NEW p \in Posters, Allocated(p, b)
          PROVE  P = {p}
      BY <1>2, <2>1 DEF Accounts
    <2>2. CASE ~\E p \in Posters : Allocated(p, b)
      <3>1. P = {}
        BY <1>2, <2>2
      <3> QED
        BY <2>2, <3>1, FS_EmptySet
    <2> QED
      BY <2>1, <2>2, FS_Singleton
  <1>4. Holders(b) = Cardinality(I) + Cardinality(P) + One(taken = b)
    BY DEF Holders
  <1> HIDE DEF P, I
  <1> QED
    BY <1>1, <1>3, <1>4 DEF Accounts, One

-----------------------------------------------------------------------------
(* The hints.                                                              *)

Delivering == alerted /\ place \in {"deliver", "taken", "routine"}
Inserted == \E p \in Posters : post[p].at = "inserted"

LEMMA HintedKept ==
  ASSUME Hinted, Queued' \cap Blocks \subseteq Queued, hints' >= hints \/ hints' > 0,
         hints \in Nat, hints' \in Nat, unhinted => unhinted', Inserted => Inserted',
         Delivering => Delivering'
  PROVE  Hinted'
  BY DEF Hinted, Inserted, Delivering

LEMMA AllocateKeepsHints ==
  ASSUME Typed, NEW p \in Posters, NEW x, AllocateApc(p, x)
  PROVE  Inserted => Inserted'
  <1>1. post[p].at = "idle" /\ \A q \in Posters \ {p} : post'[q] = post[q]
    BY DEF AllocateApc, Typed, HeapTyped
  <1> QED
    BY <1>1 DEF Inserted

LEMMA HintedStep ==
  ASSUME Typed, Accounts, Hinted, [Next]_vars
  PROVE  Hinted'
  <1>0. /\ apcs \in Seq(Apcs) /\ IsInjective(apcs)
        /\ hints \in Nat /\ hints' \in Nat
        /\ unhinted \in BOOLEAN /\ alerted \in BOOLEAN
        /\ (apcs = <<>> => Queued = {})
    BY ThreadTypedStep DEF Typed, ThreadTyped, Accounts, Queued, ToSet
  <1>1. ASSUME UNCHANGED <<apcs, hints, unhinted, alerted, post>>, Delivering => Delivering'
        PROVE  Hinted'
    BY <1>0, <1>1, HintedKept DEF Queued, Inserted
  <1>2. CASE GuestProceeds
    <2>1. CASE Alerted
      BY <1>0, <2>1 DEF Alerted, Hinted, Goes
    <2>2. CASE TakeApc \/ RundownTake
      <3>1. apcs # <<>> /\ apcs' = Tail(apcs) /\ UNCHANGED <<hints, unhinted, post, alerted>>
        BY <2>2 DEF TakeApc, RundownTake, bounds
      <3>2. Queued' \subseteq Queued
        BY <1>0, <3>1, TailDistinct DEF Queued
      <3>3. Delivering => Delivering'
        BY <2>2, <3>1 DEF TakeApc, RundownTake, Goes, Delivering
      <3> QED
        BY <1>0, <3>1, <3>2, <3>3, HintedKept DEF Inserted
    <2>3. CASE FreeTaken \/ RundownFree \/ RoutineReturns \/ AfterDelivery \/ RundownEnds
      BY <1>1, <2>3 DEF FreeTaken, RundownFree, RoutineReturns, AfterDelivery, RundownEnds,
                        Goes, Delivering, delivery, bounds
    <2>4. CASE DeliveryEnds
      <3>1. UNCHANGED <<apcs, hints, post>> /\ unhinted' = (apcs # <<>> /\ (unhinted \/ alerted))
        BY <2>4 DEF DeliveryEnds
      <3>2. Queued' = Queued
        BY <3>1 DEF Queued
      <3> QED
        BY <1>0, <3>1, <3>2 DEF Hinted
    <2> QED
      BY <1>2, <2>1, <2>2, <2>3, <2>4 DEF GuestProceeds
  <1>3. CASE GuestChooses
    <2>1. CASE BeginAlertableWait
      <3>1. /\ UNCHANGED <<apcs, hints, unhinted, post>> /\ ~Delivering
        BY <2>1 DEF BeginAlertableWait, Goes, bounds, Delivering
      <3> QED
        BY <1>0, <3>1, HintedKept DEF Queued, Inserted
    <2>2. CASE EnterOrLeaveCriticalRegion \/ WaitEnds \/ Exit
      BY <1>1, <2>2 DEF EnterOrLeaveCriticalRegion, WaitEnds, Exit, Goes, Delivering,
                        delivery, bounds
    <2> QED
      BY <1>3, <2>1, <2>2 DEF GuestChooses
  <1>4. CASE TitlePosts
    <2>1. UNCHANGED <<hints, unhinted, post, alerted, place>>
      BY <1>4 DEF TitlePosts, KeInsertQueueApc, KeRemoveQueueApc, delivery, bounds
    <2>2. ASSUME NEW a \in GuestApcs, KeInsertQueueApc(a)
          PROVE  Queued' \cap Blocks \subseteq Queued
      <3>1. a \in Apcs /\ a \notin Blocks
        BY DEF Apcs
      <3> QED
        BY <1>0, <2>2, <3>1, AppendDistinct DEF KeInsertQueueApc, Queued
    <2>3. ASSUME NEW a \in GuestApcs, KeRemoveQueueApc(a)
          PROVE  Queued' \cap Blocks \subseteq Queued
      BY <1>0, <2>3, RemoveFirstDistinct DEF KeRemoveQueueApc, Queued
    <2> QED
      BY <1>0, <1>4, <2>1, <2>2, <2>3, HintedKept DEF TitlePosts, Inserted, Delivering
  <1>5. ASSUME NEW p \in Posters, NEW x, AllocateApc(p, x), UNCHANGED unhinted
        PROVE  Hinted'
    <2>1. UNCHANGED <<apcs, hints, alerted, place>>
      BY <1>5 DEF AllocateApc, delivery
    <2>2. Inserted => Inserted'
      BY <1>5, AllocateKeepsHints
    <2> QED
      BY <1>0, <1>5, <2>1, <2>2, HintedKept DEF Queued, Delivering
  <1>6. ASSUME NEW p \in Posters, InsertQueueApc(p)
        PROVE  Hinted'
    <2>1. post'[p].at = "inserted"
      BY <1>6 DEF InsertQueueApc, Typed, HeapTyped
    <2> QED
      BY <2>1 DEF Hinted
  <1>7. ASSUME NEW p \in Posters, QueueUserCallback(p)
        PROVE  Hinted'
    BY <1>0, <1>7 DEF QueueUserCallback, Hinted
  <1>8. CASE ApcStep
    BY <1>2, <1>3, <1>4, <1>5, <1>6, <1>7, <1>8
       DEF ApcStep, PosterProceeds, NtQueueApcThread, AllocateApc
  <1>9. CASE GuestOpStep
    <2>1. UNCHANGED <<apcs, alerted, post>> /\ ~Delivering
      BY <1>9, GuestOpFrame
         DEF GuestOpStep, PushDeferred, EventWaited, GetResultReturns, CancelWaited,
             TakeEvent, CancelAlerted, SubmitDeferred, SubmitImmediate, GetResult,
             CancelIORequest, Goes, Delivering
    <2>2. CASE CancelAlerted
      <3>1. unhinted' = (unhinted \/ apcs # <<>>) /\ Queued' = Queued
        BY <2>1, <2>2 DEF CancelAlerted, Queued
      <3> QED
        BY <1>0, <3>1 DEF Hinted
    <2>3. CASE UNCHANGED <<hints, unhinted>>
      BY <1>1, <2>1, <2>3
    <2> QED
      BY <1>9, <2>2, <2>3
         DEF GuestOpStep, PushDeferred, EventWaited, GetResultReturns, CancelWaited,
             TakeEvent, SubmitDeferred, SubmitImmediate, GetResult, CancelIORequest, guest,
             bounds
  <1>10. ASSUME NEW c \in Completers, CompletionStep(c)
         PROVE  Hinted'
    <2>1. CASE EnqueueApc(c)
      <3>1. c \in Posters /\ UNCHANGED unhinted
        BY <1>10, CompletionFrame DEF Completers
      <3> QED
        BY <1>5, <2>1, <3>1 DEF EnqueueApc
    <2>2. CASE ~EnqueueApc(c)
      <3>1. UNCHANGED <<apcs, hints, unhinted, alerted>>
        BY <1>10, CompletionFrame
      <3>2. UNCHANGED post /\ (Delivering => UNCHANGED place)
        BY <1>10, <2>2
           DEF CompletionStep, StoreResult, StoreDetails, SetEvent, NoApc, Completed, Goes,
               apcVars, guest, Delivering
      <3> QED
        BY <1>1, <3>1, <3>2 DEF Delivering
    <2> QED
      BY <2>1, <2>2
  <1> QED
    BY <1>1, <1>8, <1>9, <1>10, NextMoves, DispatchFrame, ShutdownFrame, StutterFrame
       DEF Delivering

-----------------------------------------------------------------------------
(* The budget of hints.                                                    *)

LEMMA PostingCounts ==
  /\ IsFiniteSet(Posting) /\ PostCount \in Nat
  /\ IsFiniteSet(Posting') /\ PostCount' \in Nat
  <1>1. IsFiniteSet(Posting) /\ IsFiniteSet(Posting')
    BY FS_Subset DEF Posting
  <1> QED
    BY <1>1, FS_CardinalityType DEF PostCount

LEMMA PostingMoves ==
  ASSUME NEW p \in Posters,
         \A q \in Posters \ {p} : post'[q].at = "idle" <=> post[q].at = "idle"
  PROVE  /\ post[p].at = "idle" /\ post'[p].at # "idle" =>
              PostCount' = PostCount + 1
         /\ post[p].at # "idle" /\ post'[p].at = "idle" =>
              PostCount' = PostCount - 1
         /\ (post[p].at = "idle" <=> post'[p].at = "idle") =>
              PostCount' = PostCount
  <1>1. CASE post[p].at = "idle" /\ post'[p].at # "idle"
    <2>1. Posting' = Posting \cup {p} /\ p \notin Posting
      BY <1>1 DEF Posting
    <2>2. Cardinality(Posting \cup {p}) = Cardinality(Posting) + 1
      BY <2>1, PostingCounts, FS_AddElement
    <2> QED
      BY <1>1, <2>1, <2>2 DEF PostCount
  <1>2. CASE post[p].at # "idle" /\ post'[p].at = "idle"
    <2>1. Posting' = Posting \ {p} /\ p \in Posting
      BY <1>2 DEF Posting
    <2>2. Cardinality(Posting \ {p}) = Cardinality(Posting) - 1
      BY <2>1, PostingCounts, FS_RemoveElement
    <2> QED
      BY <1>2, <2>1, <2>2 DEF PostCount
  <1>3. CASE post[p].at = "idle" <=> post'[p].at = "idle"
    <2>1. Posting' = Posting
      BY <1>3 DEF Posting
    <2> QED
      BY <1>3, <2>1 DEF PostCount
  <1> QED
    BY <1>1, <1>2, <1>3

LEMMA BudgetTypes ==
  ASSUME Typed, Accounts, [Next]_vars
  PROVE  /\ hints \in Nat /\ hints' \in Nat /\ posts \in Nat /\ posts' \in Nat
         /\ Total \in Nat /\ Total' \in Nat
         /\ Len(queue) \in Nat /\ Len(queue)' \in Nat /\ Owed \in Nat /\ Owed' \in Nat
         /\ PostCount \in Nat /\ PostCount' \in Nat
         /\ Budget <=> hints + PostCount + Owed <= posts + Total
         /\ Budget' <=> hints' + PostCount' + Owed' <= posts' + Total'
  <1>1. /\ hints \in Nat /\ hints' \in Nat /\ posts \in Nat /\ posts' \in Nat
        /\ Len(queue) \in Nat /\ Len(queue)' \in Nat
    BY TypedStep, LenProperties DEF Typed, ThreadTyped, OpsTyped
  <1>2. \A b : One(b) \in {0, 1}
    BY DEF One
  <1>3. /\ Owed \in Nat /\ Owed' \in Nat
    BY <1>1, <1>2 DEF Owed
  <1> QED
    BY <1>1, <1>3, PostingCounts, SubmissionsFinite DEF Budget

(* What a step may do to the terms of the budget.                          *)
LEMMA BudgetMoves ==
  ASSUME Typed, Accounts, Budget, [Next]_vars,
         \/ /\ hints' <= hints /\ PostCount' <= PostCount /\ Owed' <= Owed
            /\ posts' >= posts /\ Total' = Total
         \/ /\ hints' = hints /\ PostCount' = PostCount + 1 /\ Owed' = Owed
            /\ posts' = posts + 1 /\ Total' = Total
         \/ /\ hints' = hints /\ PostCount' = PostCount + 1 /\ Owed' <= Owed - 1
            /\ posts' = posts /\ Total' = Total
         \/ /\ hints' = hints + 1 /\ PostCount' = PostCount - 1 /\ Owed' = Owed
            /\ posts' = posts /\ Total' = Total
         \/ /\ hints' = hints /\ PostCount' = PostCount /\ Owed' <= Owed + 1
            /\ posts' = posts /\ Total' = Total + 1
  PROVE  Budget'
  <1>1. /\ hints \in Nat /\ hints' \in Nat /\ posts \in Nat /\ posts' \in Nat
        /\ Total \in Nat /\ Total' \in Nat /\ Owed \in Nat /\ Owed' \in Nat
        /\ PostCount \in Nat /\ PostCount' \in Nat
        /\ hints + PostCount + Owed <= posts + Total
    BY BudgetTypes
  <1>2. PICK h \in Nat, p \in Nat, o \in Nat, s \in Nat, t \in Nat :
          h = hints /\ p = PostCount /\ o = Owed /\ s = posts /\ t = Total
    BY <1>1
  <1>3. PICK hh \in Nat, pp \in Nat, oo \in Nat, ss \in Nat, tt \in Nat :
          hh = hints' /\ pp = PostCount' /\ oo = Owed' /\ ss = posts' /\ tt = Total'
    BY <1>1
  <1>4. h + p + o <= s + t
    BY <1>1, <1>2
  <1>5. \/ hh <= h /\ pp <= p /\ oo <= o /\ ss >= s /\ tt = t
        \/ hh = h /\ pp = p + 1 /\ oo = o /\ ss = s + 1 /\ tt = t
        \/ hh = h /\ pp = p + 1 /\ oo <= o - 1 /\ ss = s /\ tt = t
        \/ hh = h + 1 /\ pp = p - 1 /\ oo = o /\ ss = s /\ tt = t
        \/ hh = h /\ pp = p /\ oo <= o + 1 /\ ss = s /\ tt = t + 1
    BY <1>2, <1>3
  <1>6. hh + pp + oo <= ss + tt
    BY <1>4, <1>5
  <1> QED
    BY <1>3, <1>6 DEF Budget

LEMMA BudgetStep ==
  ASSUME Typed, Accounts, Budget, [Next]_vars
  PROVE  Budget'
  <1>0. \A b : One(b) \in {0, 1}
    BY DEF One
  <1>1. ASSUME NEW p \in Posters, NEW x, AllocateApc(p, x)
        PROVE  UNCHANGED hints /\ PostCount' = PostCount + 1
    <2>1. /\ \A q \in Posters \ {p} : post'[q] = post[q]
          /\ post[p].at = "idle" /\ post'[p].at = "allocated"
      BY <1>1 DEF AllocateApc, Typed, HeapTyped
    <2> QED
      BY <1>1, <2>1, PostingMoves DEF AllocateApc
  <1>2. CASE ApcStep
    <2>1. Owed' = Owed /\ Total' = Total
      <3>1. place' = "push" <=> place = "push"
        BY <1>2, ApcThreadTyped DEF ApcStep, GuestProceeds, GuestChooses, TitlePosts,
           PosterProceeds, Alerted, TakeApc, FreeTaken, RoutineReturns, DeliveryEnds,
           AfterDelivery, RundownTake, RundownFree, RundownEnds, EnterOrLeaveCriticalRegion,
           BeginAlertableWait, WaitEnds, Exit, KeInsertQueueApc, KeRemoveQueueApc,
           NtQueueApcThread, AllocateApc, InsertQueueApc, QueueUserCallback, Goes
      <3> QED
        BY <1>2, <3>1, ApcFrame, TotalKept DEF Owed, Unqueued, One
    <2>2. CASE GuestProceeds \/ GuestChooses
      <3>0. (hints' = hints \/ TakeHint) /\ UNCHANGED <<post, posts>>
        BY <2>2 DEF GuestProceeds, GuestChooses, Alerted, TakeApc,
           FreeTaken, RoutineReturns, DeliveryEnds, AfterDelivery, RundownTake, RundownFree,
           RundownEnds, EnterOrLeaveCriticalRegion, BeginAlertableWait, WaitEnds, Exit, bounds
      <3>1. hints' <= hints /\ UNCHANGED <<post, posts>>
        BY <3>0, BudgetTypes DEF TakeHint
      <3>2. PostCount' = PostCount
        BY <3>1 DEF PostCount, Posting
      <3> QED
        BY <2>1, <3>1, <3>2, BudgetTypes
    <2>3. CASE TitlePosts
      <3>0. (posts' = posts \/ posts' = posts + 1) /\ UNCHANGED <<hints, post>>
        BY <2>3 DEF TitlePosts, KeInsertQueueApc, KeRemoveQueueApc, bounds
      <3>1. posts' >= posts /\ UNCHANGED <<hints, post>>
        BY <3>0, BudgetTypes
      <3>2. PostCount' = PostCount
        BY <3>1 DEF PostCount, Posting
      <3> QED
        BY <2>1, <3>1, <3>2, BudgetTypes
    <2>4. ASSUME NEW p \in Posters, NEW x \in Arguments, NtQueueApcThread(p, x)
          PROVE  Budget'
      <3>1. posts' = posts + 1 /\ UNCHANGED hints /\ PostCount' = PostCount + 1
        BY <1>1, <2>4 DEF NtQueueApcThread
      <3> QED
        BY <2>1, <3>1, BudgetMoves
    <2>5. ASSUME NEW p \in Posters, InsertQueueApc(p)
          PROVE  Budget'
      <3>1. /\ \A q \in Posters \ {p} : post'[q] = post[q]
            /\ post[p].at # "idle" /\ post'[p].at # "idle"
            /\ UNCHANGED <<hints, posts>>
        BY <2>5 DEF InsertQueueApc, Typed, HeapTyped, bounds
      <3>2. PostCount' = PostCount
        BY <3>1, PostingMoves
      <3> QED
        BY <2>1, <3>1, <3>2, BudgetTypes
    <2>6. ASSUME NEW p \in Posters, QueueUserCallback(p)
          PROVE  Budget'
      <3>1. /\ \A q \in Posters \ {p} : post'[q] = post[q]
            /\ post[p].at # "idle" /\ post'[p].at = "idle"
            /\ hints' = hints + 1 /\ UNCHANGED posts
        BY <2>6 DEF QueueUserCallback, Idle, Typed, HeapTyped, bounds
      <3>2. PostCount' = PostCount - 1
        BY <3>1, PostingMoves
      <3> QED
        BY <2>1, <3>1, <3>2, BudgetTypes
    <2> QED
      BY <1>2, <2>2, <2>3, <2>4, <2>5, <2>6 DEF ApcStep, PosterProceeds
  <1>3. CASE GuestOpStep
    <2>0. UNCHANGED <<post, posts>> /\ PostCount' = PostCount
      BY <1>3, GuestOpFrame DEF PostCount, Posting
    <2>1. CASE PushDeferred
      <3>1. Len(queue') = Len(queue) + 1
        BY <2>1, AppendProperties DEF PushDeferred, Goes, Typed, ThreadTyped, AsksPlaces, OpsTyped
      <3>2. /\ place = "push" /\ place' # "push"
            /\ UNCHANGED <<hints, submits, completing>>
        BY <2>1 DEF PushDeferred, Goes, guest, opVars
      <3>3. Owed' = Owed
        BY <1>0, <3>1, <3>2, BudgetTypes DEF Owed, Unqueued, One
      <3> QED
        BY <2>0, <3>2, <3>3, BudgetTypes, TotalKept
    <2>2. CASE \/ EventWaited \/ CancelWaited \/ GetResultReturns \/ CancelAlerted
               \/ \E o \in Ops : GetResult(o) \/ CancelIORequest(o)
      <3>1. /\ place # "push" /\ place' # "push"
            /\ UNCHANGED <<submits, completing, queue>>
            /\ hints' = hints \/ TakeHint
        BY <2>2 DEF EventWaited, CancelWaited, TakeEvent, GetResultReturns,
           CancelAlerted, GetResult, CancelIORequest, Goes, guest, opVars,
           dispatchVars
      <3>2. Owed' = Owed
        BY <3>1 DEF Owed, Unqueued, One
      <3>3. hints' <= hints
        BY <3>1, BudgetTypes DEF TakeHint
      <3> QED
        BY <2>0, <3>1, <3>2, <3>3, BudgetTypes, TotalKept
    <2>3. ASSUME NEW o \in Ops, SubmitDeferred(o)
          PROVE  Budget'
      <3>1. /\ place # "push" /\ place' = "push"
            /\ UNCHANGED <<hints, completing, queue>>
        BY <2>3 DEF SubmitDeferred, Goes, guest, dispatchVars
      <3>2. Owed' = Owed + 1
        BY <1>0, <3>1, BudgetTypes DEF Owed, Unqueued, One
      <3>3. Total' = Total + 1
        BY <2>3, SubmittedCounts DEF SubmitDeferred
      <3> QED
        BY <2>0, <3>1, <3>2, <3>3, BudgetMoves
    <2>4. ASSUME NEW o \in Ops, SubmitImmediate(o)
          PROVE  Budget'
      <3>1. /\ place # "push" /\ place' # "push"
            /\ UNCHANGED <<hints, queue>>
            /\ completing'[Dispatcher] = completing[Dispatcher]
        BY <2>4 DEF SubmitImmediate, Goes, guest, dispatchVars, Typed, OpsTyped, Completers
      <3>2. Owed' <= Owed + 1
        BY <1>0, <3>1, BudgetTypes DEF Owed, Unqueued, One
      <3>3. Total' = Total + 1
        BY <2>4, SubmittedCounts DEF SubmitImmediate
      <3> QED
        BY <2>0, <3>1, <3>2, <3>3, BudgetMoves
    <2> QED
      BY <1>3, <2>1, <2>2, <2>3, <2>4 DEF GuestOpStep
  <1>4. CASE DispatchStep
    <2>0. UNCHANGED <<hints, post, posts, place, submits>> /\ PostCount' = PostCount
      BY <1>4, DispatchFrame DEF PostCount, Posting
    <2>1. CASE RunDeferred
      <3>1. /\ Len(queue') = Len(queue) - 1
            /\ completing'[Guest] = completing[Guest]
        BY <2>1, HeadTailProperties DEF RunDeferred, Typed, OpsTyped, Completers
      <3>2. Owed' <= Owed
        BY <1>0, <2>0, <3>1, BudgetTypes DEF Owed, Unqueued, One
      <3> QED
        BY <2>0, <3>2, BudgetTypes, TotalKept
    <2>2. CASE UNCHANGED <<queue, completing>>
      <3>1. Owed' = Owed
        BY <2>0, <2>2 DEF Owed, Unqueued
      <3> QED
        BY <2>0, <3>1, BudgetTypes, TotalKept
    <2> QED
      BY <1>4, <2>1, <2>2 DEF DispatchStep, TestRunning, WaitForWork, ExitWoken
  <1>5. ASSUME NEW c \in Completers, CompletionStep(c)
        PROVE  Budget'
    <2>0. UNCHANGED <<hints, posts, submits, queue>> /\ c \in Posters
      BY <1>5, CompletionFrame DEF Completers
    <2>1. /\ \A d \in Completers \ {c} : completing'[d] = completing[d]
          /\ Unqueued(c)' => Unqueued(c)
      BY <1>5 DEF CompletionStep, StoreResult, StoreDetails, SetEvent, EnqueueApc, NoApc,
                  Completed, Completes, Nothing, Unqueued, Typed, OpsTyped
    <2>2. place' = "push" => place = "push"
      BY <1>5 DEF CompletionStep, StoreResult, StoreDetails, SetEvent, EnqueueApc, NoApc,
                  Completed, AllocateApc, Goes, apcVars
    <2>3. CASE EnqueueApc(c)
      <3>1. PostCount' = PostCount + 1
        BY <1>1, <2>0, <2>3 DEF EnqueueApc
      <3>2. Unqueued(c) /\ ~Unqueued(c)'
        BY <2>3 DEF EnqueueApc, Completes, Unqueued, Typed, OpsTyped
      <3>3. Owed' <= Owed - 1
        <4>1. /\ One(place = "push")' <= One(place = "push")
              /\ One(Unqueued(c)) = 1 /\ One(Unqueued(c)') = 0
          BY <1>0, <2>2, <3>2 DEF One
        <4>2. Len(queue)' = Len(queue)
          BY <2>0
        <4> DEFINE g == One(Unqueued(Guest))
                   d == One(Unqueued(Dispatcher))
                   n == Len(queue)
                   q == One(place = "push")
        <4>5. \A u, m, v, w \in Nat : w <= v =>
                /\ 0 + u + m + w <= (1 + u + m + v) - 1
                /\ u + 0 + m + w <= (u + 1 + m + v) - 1
          OBVIOUS
        <4>6. g \in Nat /\ d \in Nat /\ n \in Nat /\ n' = n /\ q \in Nat /\ q' \in Nat /\ q' <= q
          <5>1. n \in Nat /\ n' = n /\ q' <= q
            BY <4>1, <4>2, BudgetTypes
          <5>2. q \in {0, 1} /\ q' \in {0, 1} /\ g \in {0, 1} /\ d \in {0, 1}
            BY <1>0
          <5> HIDE DEF d, g, n, q
          <5> QED
            BY <5>1, <5>2
        <4>7. Owed = d + g + n + q /\ Owed' = d' + g' + n' + q'
          BY DEF Owed
        <4>3. CASE c = Dispatcher
          <5>1. g' = g
            BY <2>1, <4>3 DEF Unqueued, Completers
          <5>2. d = 1 /\ d' = 0
            BY <4>1, <4>3
          <5> HIDE DEF d, g, n, q
          <5> QED
            BY <4>5, <4>6, <4>7, <5>1, <5>2
        <4>4. CASE c = Guest
          <5>1. d' = d
            BY <2>1, <4>4 DEF Unqueued, Completers
          <5>2. g = 1 /\ g' = 0
            BY <4>1, <4>4
          <5> HIDE DEF d, g, n, q
          <5> QED
            BY <4>5, <4>6, <4>7, <5>1, <5>2
        <4> QED
          BY <4>3, <4>4 DEF Completers
      <3> QED
        BY <2>0, <3>1, <3>3, TotalKept, BudgetMoves
    <2>4. CASE ~EnqueueApc(c)
      <3>1. UNCHANGED post
        BY <1>5, <2>4 DEF CompletionStep, StoreResult, StoreDetails, SetEvent, NoApc,
                          Completed, apcVars, guest
      <3>2. PostCount' = PostCount
        BY <3>1 DEF PostCount, Posting
      <3>3. Owed' <= Owed
        BY <1>0, <2>0, <2>1, <2>2, BudgetTypes DEF Owed, Unqueued, One, Completers
      <3> QED
        BY <2>0, <3>2, <3>3, BudgetTypes, TotalKept
    <2> QED
      BY <2>3, <2>4
  <1>6. CASE StopDispatch \/ ShutdownStep \/ UNCHANGED vars
    <2>1. UNCHANGED <<hints, post, posts, place, submits, queue, completing>>
      BY <1>6, ShutdownFrame, StutterFrame
    <2>2. PostCount' = PostCount /\ Owed' = Owed
      BY <2>1 DEF PostCount, Posting, Owed, Unqueued
    <2> QED
      BY <2>1, <2>2, BudgetTypes, TotalKept
  <1> QED
    BY <1>2, <1>3, <1>4, <1>5, <1>6, NextMoves

-----------------------------------------------------------------------------
(* Where a pending operation is asked for.                                 *)

OpPlaces == AsksPlaces \cup {"completing"}

LEMMA ApcPlaces ==
  ASSUME Typed, Accounts, ApcStep
  PROVE  place' # place => place \notin OpPlaces /\ place' \notin OpPlaces
  BY ApcThreadTyped DEF OpPlaces, AsksPlaces, ApcStep, GuestProceeds, GuestChooses, TitlePosts,
     PosterProceeds, Alerted, TakeApc, FreeTaken, RoutineReturns, DeliveryEnds,
     AfterDelivery, RundownTake, RundownFree, RundownEnds, EnterOrLeaveCriticalRegion,
     BeginAlertableWait, WaitEnds, Exit, KeInsertQueueApc, KeRemoveQueueApc,
     NtQueueApcThread, AllocateApc, InsertQueueApc, QueueUserCallback, Goes

LEMMA QueueTyped ==
  ASSUME Typed
  PROVE  queue \in Seq(Ops) /\ ToSet(queue) \subseteq Ops
  BY ToSetProperties DEF Typed, OpsTyped

LEMMA AskedKept ==
  ASSUME Typed, Asked, UNCHANGED <<queue, result>>,
         \A o \in Ops : /\ Pushing(o)' => Pushing(o)
                        /\ Dispatched(o)' => Dispatched(o)
                        /\ OnTheSpot(o)' => OnTheSpot(o)
  PROVE  Asked'
  <1>1. ToSet(queue)' = ToSet(queue) /\ ToSet(queue) \subseteq Ops /\ IsInjective(queue)'
    BY QueueTyped DEF Asked, Pushing, Dispatched, OnTheSpot
  <1>2. \A o \in Ops : Pushing(o) \/ o \in ToSet(queue) \/ Dispatched(o) => result[o] = "pending"
    BY DEF Asked
  <1>3. \A o \in Ops : Pushing(o)' \/ o \in ToSet(queue)' \/ Dispatched(o)' => result'[o] = "pending"
    BY <1>1, <1>2 DEF Pushing, Dispatched
  <1>4. \A o \in ToSet(queue)' : ~Pushing(o)' /\ ~Dispatched(o)'
    BY <1>1 DEF Asked, Pushing, Dispatched
  <1>5. \A o \in Ops : ~(Pushing(o)' /\ Dispatched(o)')
    BY DEF Asked, Pushing, Dispatched
  <1>6. \A o \in Ops : result'[o] = "pending" => ~OnTheSpot(o)'
    BY DEF Asked, OnTheSpot
  <1> QED
    BY <1>1, <1>3, <1>4, <1>5, <1>6 DEF Asked, Pushing, Dispatched, OnTheSpot

LEMMA StoreResultAsked ==
  ASSUME Typed, Asked, NEW c \in Completers, StoreResult(c)
  PROVE  Asked'
  <1>0. PICK x : x = completing[c].op
    OBVIOUS
  <1>1. /\ completing[c].at = "result"
        /\ completing' = [completing EXCEPT ![c].at = "details"]
        /\ result' = [result EXCEPT ![x] = "done"]
        /\ UNCHANGED <<place, query, queue>>
    BY <1>0 DEF StoreResult, Completes, apcVars, dispatchVars
  <1>2. /\ completing'[c].at = "details"
        /\ \A d \in Completers \ {c} : completing'[d] = completing[d]
        /\ \A o \in Ops \ {x} : result'[o] = result[o]
        /\ x \in Ops => result'[x] = "done"
    BY <1>1 DEF Typed, OpsTyped, CompletingType
  <1>3. \A o \in Ops : /\ Pushing(o)' <=> Pushing(o)
                       /\ Dispatched(o)' => Dispatched(o)
                       /\ c = Dispatcher => ~Dispatched(o)'
                       /\ OnTheSpot(o)' => OnTheSpot(o)
    BY <1>1, <1>2 DEF Pushing, Dispatched, OnTheSpot, Completers
  <1>4. ASSUME x \in Ops
        PROVE  ~Pushing(x)' /\ x \notin ToSet(queue) /\ ~Dispatched(x)'
    <2>1. CASE c = Dispatcher
      BY <1>0, <1>1, <1>3, <1>4, <2>1 DEF Asked, Pushing, Dispatched, OnTheSpot
    <2>2. CASE c = Guest
      BY <1>0, <1>1, <1>3, <1>4, <2>2 DEF Asked, Pushing, Dispatched, OnTheSpot
    <2> QED
      BY <2>1, <2>2 DEF Completers
  <1>5. ToSet(queue)' = ToSet(queue) /\ ToSet(queue) \subseteq Ops /\ IsInjective(queue)'
    BY <1>1, QueueTyped DEF Asked, Pushing, Dispatched, OnTheSpot
  <1>6. \A o \in Ops : Pushing(o)' \/ o \in ToSet(queue)' \/ Dispatched(o)' => result'[o] = "pending"
    <2>1. ASSUME NEW o \in Ops, Pushing(o)' \/ o \in ToSet(queue)' \/ Dispatched(o)'
          PROVE  result'[o] = "pending"
      <3>1. ASSUME o = x
            PROVE  FALSE
        <4>1. ~Pushing(x)' /\ x \notin ToSet(queue) /\ ~Dispatched(x)'
          BY <1>4, <2>1, <3>1
        <4> QED
          BY <1>5, <2>1, <3>1, <4>1 DEF Pushing, Dispatched
      <3>2. Pushing(o) \/ o \in ToSet(queue) \/ Dispatched(o)
        BY <1>3, <1>5, <2>1
      <3> QED
        BY <1>2, <3>1, <3>2 DEF Asked
    <2> QED
      BY <2>1
  <1>7. \A o \in Ops : result'[o] = "pending" => ~OnTheSpot(o)'
    BY <1>2, <1>3 DEF Asked, Pushing, Dispatched, OnTheSpot
  <1> QED
    BY <1>3, <1>5, <1>6, <1>7 DEF Asked, Pushing, Dispatched, OnTheSpot

LEMMA AskedStep ==
  ASSUME Typed, Accounts, Asked, [Next]_vars
  PROVE  Asked'
  <1>0. queue \in Seq(Ops) /\ ToSet(queue) \subseteq Ops
    BY QueueTyped
  <1>1. CASE ApcStep
    <2>1. UNCHANGED <<queue, result, completing, query>>
      BY <1>1, ApcFrame
    <2>2. place' = "push" => place = "push"
      BY <1>1, ApcPlaces DEF OpPlaces, AsksPlaces
    <2> QED
      BY <2>1, <2>2, AskedKept DEF Pushing, Dispatched, OnTheSpot
  <1>2. CASE PushDeferred
    <2>1. /\ place = "push" /\ place' = "run"
          /\ queue' = Append(queue, query) /\ query \in Ops
          /\ UNCHANGED <<result, completing>>
      BY <1>2 DEF PushDeferred, Goes, opVars, Typed, ThreadTyped, AsksPlaces
    <2>2. Pushing(query) /\ query \notin ToSet(queue) /\ ~Dispatched(query)
      BY <2>1 DEF Pushing, Asked
    <2>3. ToSet(queue)' = ToSet(queue) \cup {query} /\ IsInjective(queue)'
      BY <1>0, <2>1, <2>2, AppendDistinct DEF Asked, Pushing, Dispatched, OnTheSpot
    <2>4. \A o \in Ops : ~Pushing(o)' /\ (Dispatched(o)' <=> Dispatched(o))
      BY <2>1 DEF Pushing, Dispatched
    <2>5. \A o \in Ops : result[o] = "pending" => ~OnTheSpot(o)
      BY DEF Asked, Pushing, Dispatched, OnTheSpot
    <2> QED
      BY <1>0, <2>1, <2>2, <2>3, <2>4, <2>5 DEF Asked, Pushing, Dispatched, OnTheSpot
  <1>3. ASSUME NEW x \in Ops, SubmitDeferred(x)
        PROVE  Asked'
    <2>1. /\ place = "run" /\ place' = "push" /\ query' = x
          /\ result[x] # "pending" /\ result'[x] = "pending"
          /\ \A o \in Ops \ {x} : result'[o] = result[o]
          /\ UNCHANGED <<queue, completing>>
      BY <1>3 DEF SubmitDeferred, Submitted, Goes, dispatchVars, Typed, OpsTyped
    <2>2. \A o \in Ops : (Pushing(o)' <=> o = x) /\ ~Pushing(o) /\ (Dispatched(o)' <=> Dispatched(o))
      BY <2>1 DEF Pushing, Dispatched
    <2>3. \A o \in Ops : ~OnTheSpot(o)'
      BY <2>1 DEF Typed, GuestCompletes, OnTheSpot
    <2>4. x \notin ToSet(queue) /\ ~Dispatched(x)
      BY <2>1 DEF Asked, Pushing, Dispatched, OnTheSpot
    <2>5. ToSet(queue)' = ToSet(queue) /\ IsInjective(queue)'
      BY <2>1 DEF Asked, Pushing, Dispatched, OnTheSpot
    <2>6. \A o \in Ops : o \in ToSet(queue) \/ Dispatched(o) => result[o] = "pending"
      BY DEF Asked, Pushing, Dispatched, OnTheSpot
    <2>7. \A o \in ToSet(queue) : ~Dispatched(o)
      BY DEF Asked, Pushing, Dispatched, OnTheSpot
    <2> QED
      BY <1>0, <2>1, <2>2, <2>3, <2>4, <2>5, <2>6, <2>7 DEF Asked, Pushing, Dispatched, OnTheSpot
  <1>4. ASSUME NEW x \in Ops, SubmitImmediate(x)
        PROVE  Asked'
    <2>1. /\ place' = "completing" /\ result[x] # "pending"
          /\ completing'[Guest].op = x
          /\ completing'[Dispatcher] = completing[Dispatcher]
          /\ UNCHANGED <<queue, result>>
      BY <1>4 DEF SubmitImmediate, Submitted, Goes, dispatchVars, Typed, OpsTyped, Completers
    <2>2. \A o \in Ops : /\ ~Pushing(o)' /\ (Dispatched(o)' <=> Dispatched(o))
                         /\ OnTheSpot(o)' => o = x
      BY <2>1 DEF Pushing, Dispatched, OnTheSpot
    <2> QED
      BY <1>0, <2>1, <2>2 DEF Asked, Pushing, Dispatched, OnTheSpot
  <1>5. CASE \/ EventWaited \/ CancelWaited \/ GetResultReturns \/ CancelAlerted
             \/ \E o \in Ops : GetResult(o) \/ CancelIORequest(o)
    <2>1. place' # "push" /\ UNCHANGED <<queue, result, completing>>
      BY <1>5 DEF EventWaited, CancelWaited, TakeEvent, GetResultReturns, CancelAlerted,
                  GetResult, CancelIORequest, Goes, opVars, dispatchVars
    <2> QED
      BY <2>1, AskedKept DEF Pushing, Dispatched, OnTheSpot
  <1>6. CASE GuestOpStep
    BY <1>2, <1>3, <1>4, <1>5, <1>6 DEF GuestOpStep
  <1>7. CASE DispatchStep
    <2>0. UNCHANGED <<place, query, result>>
      BY <1>7, DispatchFrame
    <2>1. CASE RunDeferred
      <3> DEFINE h == Head(queue)
      <3>1. /\ queue # <<>> /\ queue' = Tail(queue)
            /\ completing'[Dispatcher].op = h
            /\ completing'[Guest] = completing[Guest]
        BY <2>1 DEF RunDeferred, Typed, OpsTyped, Completers
      <3>2. /\ h \in ToSet(queue) /\ h \notin ToSet(queue)'
            /\ ToSet(queue)' \subseteq ToSet(queue) /\ IsInjective(queue)'
        BY <1>0, <3>1, TailDistinct DEF Asked, Pushing, Dispatched, OnTheSpot
      <3> HIDE DEF h
      <3>3. \A o \in Ops : /\ Pushing(o)' <=> Pushing(o)
                           /\ Dispatched(o)' => o = h
                           /\ OnTheSpot(o)' <=> OnTheSpot(o)
        BY <2>0, <3>1 DEF Pushing, Dispatched, OnTheSpot
      <3>4. \A o \in Ops : result[o] = "pending" => ~OnTheSpot(o)
        BY DEF Asked, Pushing, Dispatched, OnTheSpot
      <3> QED
        BY <1>0, <2>0, <3>2, <3>3, <3>4 DEF Asked, Pushing, Dispatched, OnTheSpot
    <2>2. CASE UNCHANGED <<queue, completing>>
      BY <2>0, <2>2, AskedKept DEF Pushing, Dispatched, OnTheSpot
    <2> QED
      BY <1>7, <2>1, <2>2 DEF DispatchStep, TestRunning, WaitForWork, ExitWoken
  <1>8. ASSUME NEW c \in Completers, CompletionStep(c)
        PROVE  Asked'
    <2>1. CASE ~StoreResult(c)
      <3>1. /\ UNCHANGED <<queue, query, result>>
            /\ place' = "push" => place = "push"
        BY <1>8, <2>1, CompletionFrame
           DEF CompletionStep, StoreDetails, SetEvent, EnqueueApc, NoApc, Completed,
               AllocateApc, Goes, apcVars, opVars
      <3>2. \A d \in Completers : completing'[d].at = "result" => completing'[d] = completing[d]
        BY <1>8, <2>1
           DEF CompletionStep, StoreDetails, SetEvent, EnqueueApc, NoApc, Completed,
               Completes, Nothing, Typed, OpsTyped, CompletingType
      <3> QED
        BY <3>1, <3>2, AskedKept DEF Pushing, Dispatched, OnTheSpot, Completers
    <2> QED
      BY <1>8, <2>1, StoreResultAsked
  <1>9. CASE StopDispatch \/ ShutdownStep \/ UNCHANGED vars
    <2>1. UNCHANGED <<place, query, queue, result, completing>>
      BY <1>9, ShutdownFrame, StutterFrame
    <2> QED
      BY <2>1, AskedKept DEF Pushing, Dispatched, OnTheSpot
  <1> QED
    BY <1>1, <1>6, <1>7, <1>8, <1>9, NextMoves

-----------------------------------------------------------------------------
(* What the title is told.                                                 *)

LEMMA StoredKept ==
  ASSUME NEW o \in Ops, Stored(o), result'[o] = result[o], details'[o] = details[o],
         submits'[o] = submits[o], Told(o)' => Told(o),
         \A c \in Completers : completing'[c].op = o => completing'[c] = completing[c]
  PROVE  Stored(o)'
  BY DEF Stored, Final

LEMMA ApcTold ==
  ASSUME Typed, Accounts, ApcStep, NEW o \in Ops
  PROVE  Told(o)' => Told(o)
  <1>1. /\ UNCHANGED <<event, query>> /\ (place' = "answered" => place = "answered")
        /\ o # None
    BY ApcFrame, ApcPlaces DEF OpPlaces, AsksPlaces
  <1>2. ASSUME NEW b, Free(b)
        PROVE  \A d \in used' : d \in used /\ argument'[d] = argument[d]
    BY <1>2 DEF Free, Typed, HeapTyped
  <1>3. ASSUME NEW b \in used', argument'[b] = o
        PROVE  b \in used /\ argument[b] = o
    <2>1. CASE UNCHANGED blocks
      BY <1>3, <2>1 DEF blocks
    <2>2. CASE FreeTaken \/ RundownFree
      BY <1>2, <1>3, <2>2 DEF FreeTaken, RundownFree
    <2>3. ASSUME NEW p \in Posters, NEW x \in Arguments \ Ops, NtQueueApcThread(p, x)
          PROVE  b \in used /\ argument[b] = o
      BY <1>3, <2>3 DEF NtQueueApcThread, AllocateApc, Typed, HeapTyped
    <2> QED
      BY <2>1, <2>2, <2>3
         DEF ApcStep, GuestProceeds, GuestChooses, TitlePosts, PosterProceeds, Alerted,
             TakeApc, RoutineReturns, DeliveryEnds, AfterDelivery, RundownTake, RundownEnds,
             EnterOrLeaveCriticalRegion, BeginAlertableWait, WaitEnds, Exit,
             KeInsertQueueApc, KeRemoveQueueApc, InsertQueueApc, QueueUserCallback
  <1>4. ASSUME runs' = o
        PROVE  Told(o)
    <2>1. CASE FreeTaken
      <3>1. taken \in Blocks /\ argument[taken] = o
        BY <1>1, <1>4, <2>1 DEF FreeTaken
      <3>2. taken \in used
        BY <3>1 DEF Accounts
      <3> QED
        BY <3>1, <3>2 DEF Told
    <2>2. CASE runs' = runs
      BY <1>4, <2>2 DEF Told
    <2>3. CASE runs' = None
      BY <1>1, <1>4, <2>3
    <2> QED
      BY <2>1, <2>2, <2>3
         DEF ApcStep, GuestProceeds, GuestChooses, TitlePosts, PosterProceeds, Alerted,
             TakeApc, RoutineReturns, DeliveryEnds, AfterDelivery, RundownTake, RundownFree,
             RundownEnds, EnterOrLeaveCriticalRegion, BeginAlertableWait, WaitEnds, Exit,
             KeInsertQueueApc, KeRemoveQueueApc, InsertQueueApc, QueueUserCallback,
             NtQueueApcThread, AllocateApc, delivery
  <1> QED
    BY <1>1, <1>3, <1>4 DEF Told

(* An operation submitted when all of the last completion is over.         *)
LEMMA SubmittedClean ==
  ASSUME Typed, NEW o \in Ops, Submitted(o), ~early'[o]
  PROVE  /\ ~event[o] /\ runs # o
         /\ \A c \in Completers : completing[c].op # o
         /\ \A b \in used : argument[b] # o
  BY DEF Typed, OpsTyped, Submitted, Unfinished

LEMMA GuestOpStored ==
  ASSUME Typed, Results, GuestOpStep, NEW o \in Ops, ~early'[o]
  PROVE  Stored(o)'
  <1>0. UNCHANGED <<used, argument, runs, details>>
    BY GuestOpFrame
  <1>1. CASE PushDeferred \/ GetResultReturns \/ CancelAlerted
             \/ \E x \in Ops : GetResult(x) \/ CancelIORequest(x)
    <2>1. /\ place' # "answered"
          /\ UNCHANGED <<event, result, submits, early, completing>>
      BY <1>1 DEF PushDeferred, GetResultReturns, CancelAlerted, GetResult, CancelIORequest,
                  Goes, opVars
    <2>2. Told(o)' => Told(o)
      BY <1>0, <2>1 DEF Told
    <2> QED
      BY <1>0, <2>1, <2>2, StoredKept DEF Results
  <1>2. CASE EventWaited \/ CancelWaited
    <2>1. /\ event[query] /\ event' = [event EXCEPT ![query] = FALSE]
          /\ UNCHANGED <<query, result, submits, early, completing>>
      BY <1>2 DEF EventWaited, CancelWaited, TakeEvent
    <2>2. Told(o)' => Told(o)
      BY <1>0, <2>1 DEF Told, Typed, OpsTyped
    <2> QED
      BY <1>0, <2>1, <2>2, StoredKept DEF Results
  <1>3. ASSUME NEW x \in Ops, SubmitDeferred(x)
        PROVE  Stored(o)'
    <2>1. /\ place' = "push" /\ query' = x /\ Submitted(x)
          /\ \A y \in Ops \ {x} : /\ result'[y] = result[y] /\ submits'[y] = submits[y]
                                  /\ early'[y] = early[y]
          /\ UNCHANGED <<event, completing>>
      BY <1>3 DEF SubmitDeferred, Submitted, Goes, Typed, OpsTyped
    <2>2. CASE o = x
      <3>1. ~Told(o)' /\ \A c \in Completers : completing'[c].op # o
        BY <1>0, <2>1, <2>2, SubmittedClean DEF Told
      <3> QED
        BY <3>1 DEF Stored
    <2>3. CASE o # x
      <3>1. Told(o)' => Told(o)
        BY <1>0, <2>1 DEF Told
      <3> QED
        BY <1>0, <2>1, <2>3, <3>1, StoredKept DEF Results
    <2> QED
      BY <2>2, <2>3
  <1>4. ASSUME NEW x \in Ops, SubmitImmediate(x)
        PROVE  Stored(o)'
    <2>1. /\ place' = "completing" /\ Submitted(x)
          /\ \A y \in Ops \ {x} : submits'[y] = submits[y] /\ early'[y] = early[y]
          /\ UNCHANGED <<event, query, result>>
      BY <1>4 DEF SubmitImmediate, Submitted, Goes, Typed, OpsTyped
    <2>2. /\ completing'[Guest] = [at |-> "result", op |-> x, number |-> submits'[x]]
          /\ completing'[Dispatcher] = completing[Dispatcher]
      BY <1>4 DEF SubmitImmediate, Typed, OpsTyped, Completers
    <2>3. Told(o)' => Told(o)
      BY <1>0, <2>1 DEF Told
    <2>4. CASE o = x
      <3>1. ~Told(o)' /\ completing'[Dispatcher].op # o
        BY <1>0, <2>1, <2>2, <2>4, SubmittedClean DEF Told, Completers
      <3> QED
        BY <2>2, <2>4, <3>1 DEF Stored, Completers
    <2>5. CASE o # x
      <3>1. \A c \in Completers : completing'[c].op = o => completing'[c] = completing[c]
        BY <2>2, <2>5 DEF Completers
      <3> QED
        BY <1>0, <2>1, <2>3, <2>5, <3>1, StoredKept DEF Results
    <2> QED
      BY <2>4, <2>5
  <1> QED
    BY <1>1, <1>2, <1>3, <1>4 DEF GuestOpStep

LEMMA DispatchStored ==
  ASSUME Typed, Asked, Results, DispatchStep, NEW o \in Ops, ~early'[o]
  PROVE  Stored(o)'
  <1>1. /\ UNCHANGED <<result, details, submits, early>>
        /\ Told(o)' <=> Told(o)
    BY DispatchFrame DEF Told
  <1>2. Stored(o)
    BY <1>1 DEF Results
  <1>3. CASE RunDeferred
    <2> DEFINE h == Head(queue)
    <2>1. /\ completing'[Dispatcher] = [at |-> "result", op |-> h, number |-> submits[h]]
          /\ completing'[Guest] = completing[Guest]
          /\ queue # <<>>
      BY <1>3 DEF RunDeferred, Typed, OpsTyped, Completers
    <2>2. h \in ToSet(queue)
      BY <2>1, QueueTyped, TailDistinct
    <2> HIDE DEF h
    <2>3. CASE o = h
      <3>1. result[o] = "pending" /\ ~OnTheSpot(o)
        BY <2>2, <2>3 DEF Asked
      <3>2. ~Told(o) /\ ~Final(o)
        BY <1>2, <3>1 DEF Stored, Final
      <3>3. completing[Guest].op # o
        <4>1. completing[Guest] \in CompletingType
          BY DEF Typed, OpsTyped, Completers
        <4>2. completing[Guest].at = "nothing" => completing[Guest].op = None
          BY DEF Typed, OpsTyped, Completers
        <4> QED
          BY <1>2, <3>1, <3>2, <4>1, <4>2 DEF Stored, OnTheSpot, CompletingType, Completers
      <3> QED
        BY <1>1, <2>1, <2>3, <3>2, <3>3 DEF Stored, Completers
    <2>4. CASE o # h
      <3>1. \A c \in Completers : completing'[c].op = o => completing'[c] = completing[c]
        BY <2>1, <2>4 DEF Completers
      <3> QED
        BY <1>1, <1>2, <3>1, StoredKept
    <2> QED
      BY <2>3, <2>4
  <1>4. CASE UNCHANGED completing
    BY <1>1, <1>2, <1>4, StoredKept
  <1> QED
    BY <1>3, <1>4 DEF DispatchStep, TestRunning, WaitForWork, ExitWoken

(* An operation that c does not complete, or no longer completes.          *)
LEMMA CompletionElsewhere ==
  ASSUME Typed, NEW c \in Completers, CompletionStep(c), NEW o \in Ops, Stored(o),
         completing[c].op # o
  PROVE  Stored(o)'
  <1> DEFINE x == completing[c].op
  <1>1. UNCHANGED <<runs, query, submits>> /\ (place' = "answered" => place = "answered")
    BY CompletionFrame
       DEF CompletionStep, StoreResult, StoreDetails, SetEvent, EnqueueApc, NoApc, Completed,
           AllocateApc, Goes, apcVars
  <1>2. result'[o] = result[o] /\ details'[o] = details[o] /\ event'[o] = event[o]
    BY DEF CompletionStep, StoreResult, StoreDetails, SetEvent, EnqueueApc, NoApc, Completed,
           opVars, Typed, OpsTyped
  <1>3. \A b \in used' : argument'[b] = o => b \in used /\ argument[b] = o
    <2>1. CASE EnqueueApc(c)
      BY <2>1 DEF EnqueueApc, AllocateApc, Typed, HeapTyped
    <2>2. CASE UNCHANGED <<used, argument>>
      BY <2>2
    <2> QED
      BY <2>1, <2>2 DEF CompletionStep, StoreResult, StoreDetails, SetEvent, NoApc, Completed,
                        apcVars, guest, blocks
  <1>4. \A d \in Completers : completing'[d].op = o => completing'[d] = completing[d]
    <2>1. completing'[c].op \in {x, None}
      BY DEF CompletionStep, StoreResult, StoreDetails, SetEvent, EnqueueApc, NoApc, Completed,
             Completes, Nothing, Typed, OpsTyped, CompletingType
    <2>2. \A d \in Completers \ {c} : completing'[d] = completing[d]
      BY DEF CompletionStep, StoreResult, StoreDetails, SetEvent, EnqueueApc, NoApc, Completed,
             Completes, Typed, OpsTyped
    <2> QED
      BY <2>1, <2>2
  <1>5. Told(o)' => Told(o)
    BY <1>1, <1>2, <1>3 DEF Told
  <1> QED
    BY <1>1, <1>2, <1>4, <1>5, StoredKept

(* The operation that c completes.                                         *)
LEMMA CompletionHere ==
  ASSUME Typed, NEW c \in Completers, CompletionStep(c), NEW o \in Ops, Stored(o),
         completing[c].op = o
  PROVE  Stored(o)'
  <1>1. UNCHANGED <<runs, query, submits>> /\ (place' = "answered" => place = "answered")
    BY CompletionFrame
       DEF CompletionStep, StoreResult, StoreDetails, SetEvent, EnqueueApc, NoApc, Completed,
           AllocateApc, Goes, apcVars
  <1>2. \A d \in Completers \ {c} : completing'[d] = completing[d] /\ completing[d].op # o
    BY DEF CompletionStep, StoreResult, StoreDetails, SetEvent, EnqueueApc, NoApc, Completed,
           Completes, Typed, OpsTyped, Stored
  <1>3. completing[c].number = submits[o]
    BY DEF Stored
  <1>4. ASSUME NEW to, completing' = [completing EXCEPT ![c].at = to]
        PROVE  completing'[c].at = to /\ completing'[c].op = o /\ completing'[c].number = submits[o]
    BY <1>3, <1>4 DEF Typed, OpsTyped, CompletingType
  <1>5. ASSUME UNCHANGED <<event, used, argument>>
        PROVE  Told(o)' => Told(o)
    BY <1>1, <1>5 DEF Told
  <1>6. CASE StoreResult(c)
    <2>1. /\ completing[c].at = "result" /\ completing'[c].at = "details"
          /\ completing'[c].number = submits[o]
          /\ result'[o] = "done"
          /\ UNCHANGED <<event, used, argument>>
      BY <1>4, <1>6 DEF StoreResult, Completes, apcVars, blocks, Typed, OpsTyped
    <2>2. ~Told(o)'
      BY <1>5, <2>1 DEF Stored
    <2> QED
      BY <1>1, <1>2, <2>1, <2>2 DEF Stored
  <1>7. CASE StoreDetails(c)
    <2>1. /\ completing[c].at = "details" /\ completing'[c].at = "event"
          /\ completing'[c].number = submits[o]
          /\ details'[o] = submits[o]
          /\ result'[o] = result[o]
      BY <1>3, <1>4, <1>7 DEF StoreDetails, Completes, Typed, OpsTyped
    <2>2. Final(o)'
      BY <1>1, <2>1 DEF Stored, Final
    <2> QED
      BY <1>1, <1>2, <2>1, <2>2 DEF Stored
  <1>8. CASE SetEvent(c) \/ EnqueueApc(c) \/ NoApc(c)
    <2>1. /\ completing[c].at \in {"event", "routine"}
          /\ completing'[c].at \in {"routine", "over"}
          /\ completing'[c].number = submits[o]
          /\ UNCHANGED <<result, details>>
      BY <1>4, <1>8 DEF SetEvent, EnqueueApc, NoApc, Completes, opVars
    <2>2. Final(o)'
      BY <1>1, <2>1 DEF Stored, Final
    <2> QED
      BY <1>1, <1>2, <2>1, <2>2 DEF Stored
  <1>9. CASE Completed(c)
    <2>1. /\ completing'[c].op = None /\ o # None
          /\ UNCHANGED <<result, details, event, used, argument>>
      BY <1>9 DEF Completed, Nothing, opVars, guest, blocks, Typed, OpsTyped
    <2>2. \A d \in Completers : completing'[d].op # o
      BY <1>2, <2>1
    <2> QED
      BY <1>1, <1>5, <2>1, <2>2, StoredKept
  <1> QED
    BY <1>6, <1>7, <1>8, <1>9 DEF CompletionStep

LEMMA ResultsStep ==
  ASSUME Typed, Accounts, Asked, Results, [Next]_vars
  PROVE  Results'
  <1> SUFFICES ASSUME NEW o \in Ops, ~early'[o]
               PROVE  Stored(o)'
    BY DEF Results
  <1>1. CASE ApcStep
    <2>1. UNCHANGED <<result, details, submits, early, completing>>
      BY <1>1, ApcFrame
    <2> QED
      BY <1>1, <2>1, ApcTold, StoredKept DEF Results
  <1>2. ASSUME NEW c \in Completers, CompletionStep(c)
        PROVE  Stored(o)'
    <2>1. Stored(o)
      BY <1>2, CompletionFrame DEF Results
    <2> QED
      BY <1>2, <2>1, CompletionElsewhere, CompletionHere
  <1>3. CASE StopDispatch \/ ShutdownStep \/ UNCHANGED vars
    <2>1. UNCHANGED <<result, details, event, submits, early, completing, place, query, runs,
                      used, argument>>
      BY <1>3, ShutdownFrame, StutterFrame
    <2>2. Told(o)' => Told(o)
      BY <2>1 DEF Told
    <2> QED
      BY <2>1, <2>2, StoredKept DEF Results
  <1> QED
    BY <1>1, <1>2, <1>3, GuestOpStored, DispatchStored, NextMoves

-----------------------------------------------------------------------------
(* The invariant holds, and what follows from it.                          *)

LEMMA InitIInv == Init => IInv
  <1> SUFFICES ASSUME Init
               PROVE  IInv
    OBVIOUS
  <1> USE DEF Init, ApcInit
  <1>1. Typed
    <2>1. HeapTyped
      BY DEF HeapTyped, PostType, Idle
    <2>2. ThreadTyped
      <3>1. <<>> \in Seq(Apcs)
        OBVIOUS
      <3>2. place \in Places /\ place \notin AsksPlaces
        BY DEF Places, AsksPlaces
      <3>3. posts \in 0..MaxPosts /\ hints \in Nat
        OBVIOUS
      <3> QED
        BY <3>1, <3>2, <3>3 DEF ThreadTyped
    <2>3. OpsTyped
      <3>1. <<>> \in Seq(Ops)
        OBVIOUS
      <3>2. Nothing \in CompletingType /\ 0 \in 0..MaxSubmits
        BY DEF Nothing, CompletingType
      <3> QED
        BY <3>1, <3>2 DEF OpsTyped, Nothing
    <2>4. GuestCompletes
      BY DEF GuestCompletes, Completers, Nothing
    <2> QED
      BY <2>1, <2>2, <2>3, <2>4 DEF Typed
  <1>2. Budget
    <2>1. Posting = {}
      BY DEF Posting, Idle
    <2>2. PostCount = 0
      BY <2>1, FS_EmptySet DEF PostCount
    <2>3. Owed = 0
      BY DEF Owed, Unqueued, One, Completers, Nothing
    <2>4. Total \in Nat
      BY SubmissionsFinite
    <2> QED
      BY <2>2, <2>3, <2>4 DEF Budget
  <1>3. Accounts
    BY DEF Accounts, Allocated, Idle, Queued, ToSet, IsInjective
  <1>4. Hinted
    BY DEF Hinted, Queued, ToSet
  <1>5. Asked
    BY DEF Asked, Pushing, Dispatched, OnTheSpot, ToSet, IsInjective, Completers, Nothing
  <1>6. Results
    BY DEF Results, Stored, Told, Final, Completers, Nothing
  <1> QED
    BY <1>1, <1>2, <1>3, <1>4, <1>5, <1>6 DEF IInv

(* The inductive invariant: the types, the budget of hints, the one place  *)
(* of each block and of each pending operation, the hint that is owed, and *)
(* what is stored before the title is told.                                *)
THEOREM IInvHolds == Spec => []IInv
  <1>1. IInv /\ [Next]_vars => IInv'
    BY TypedStep, BudgetStep, AccountsStep, HintedStep, AskedStep, ResultsStep DEF IInv
  <1> QED
    BY InitIInv, <1>1, PTL DEF Spec

(* Every variable keeps its type, and a thread never has more hints than   *)
(* the title's insertions and submissions account for.                     *)
THEOREM TypeCorrect == Spec => []TypeOK
  <1>1. IInv => TypeOK
    <2> SUFFICES ASSUME IInv
                 PROVE  TypeOK
      OBVIOUS
    <2>1. hints \in 0..MaxPosts + Total
      <3>1. hints \in Nat /\ posts \in 0..MaxPosts /\ Total \in Nat
        BY SubmissionsFinite DEF IInv, Typed, ThreadTyped
      <3>2. PostCount \in Nat /\ Owed \in Nat
        <4>1. Len(queue) \in Nat
          BY LenProperties DEF IInv, Typed, OpsTyped
        <4> QED
          BY <4>1, PostingCounts DEF Owed, One
      <3>3. hints + PostCount + Owed <= posts + Total
        BY DEF IInv, Budget
      <3> QED
        BY <3>1, <3>2, <3>3
    <2> QED
      BY <2>1 DEF IInv, Typed, HeapTyped, ThreadTyped, OpsTyped, PostType, CompletingType, TypeOK
  <1> QED
    BY <1>1, IInvHolds, PTL

(* A block of the system heap is in exactly one place while it is          *)
(* allocated and in none while it is free.                                 *)
THEOREM BlocksHaveOnePlace == Spec => []BlocksAccounted
  <1>1. IInv => BlocksAccounted
    BY AccountsCount DEF IInv
  <1> QED
    BY <1>1, IInvHolds, PTL

(* A waiting thread with a block queued has a hint, there or to come,      *)
(* unless a wait used one up without delivering.                           *)
THEOREM WaitingThreadIsHinted == Spec => []WakeUpPending
  <1>1. IInv => WakeUpPending
    BY DEF IInv, Hinted, WakeUpPending
  <1> QED
    BY <1>1, IInvHolds, PTL

(* Who waited for the event, and the completion routine, find the result   *)
(* and the details of the operation stored (CompleteOverlappedEx), unless  *)
(* it was submitted again before its last completion was over.             *)
THEOREM ToldWhenFinal == Spec => []CompletionIsFinal
  <1>1. IInv => CompletionIsFinal
    <2> SUFFICES ASSUME IInv
                 PROVE  CompletionIsFinal
      OBVIOUS
    <2>1. place = "answered" => query \in Ops
      BY DEF IInv, Typed, ThreadTyped, AsksPlaces
    <2>2. \A o \in Ops : ~early[o] /\ Told(o) => Final(o)
      BY DEF IInv, Results, Stored
    <2> QED
      BY <2>1, <2>2 DEF CompletionIsFinal, Told
  <1> QED
    BY <1>1, IInvHolds, PTL

(* What they find does not change until the title submits the operation    *)
(* again: no store of its completion is still to come.                     *)
ToldStands ==
  [][\A o \in Ops : Told(o) /\ ~early[o] /\ submits'[o] = submits[o]
                      => result'[o] = result[o] /\ details'[o] = details[o]]_vars

LEMMA ToldStandsStep ==
  ASSUME Typed, Results, [Next]_vars, NEW o \in Ops,
         Told(o), ~early[o], submits'[o] = submits[o]
  PROVE  result'[o] = result[o] /\ details'[o] = details[o]
  <1>1. CASE ApcStep
    BY <1>1, ApcFrame
  <1>2. CASE PushDeferred \/ EventWaited \/ GetResultReturns \/ CancelWaited \/ CancelAlerted
    BY <1>2 DEF PushDeferred, EventWaited, GetResultReturns, CancelWaited, CancelAlerted, TakeEvent,
                opVars
  <1>3. ASSUME NEW x \in Ops,
               SubmitDeferred(x) \/ SubmitImmediate(x) \/ GetResult(x) \/ CancelIORequest(x)
        PROVE  result'[o] = result[o] /\ details'[o] = details[o]
    <2>1. CASE GetResult(x) \/ CancelIORequest(x) \/ SubmitImmediate(x)
      BY <2>1 DEF GetResult, CancelIORequest, SubmitImmediate, opVars
    <2>2. CASE SubmitDeferred(x)
      <3>1. /\ submits' = [submits EXCEPT ![x] = @ + 1] /\ details' = details
            /\ result' = [result EXCEPT ![x] = "pending"]
        BY <2>2 DEF SubmitDeferred, Submitted
      <3>2. submits[x] \in Nat /\ submits \in [Ops -> Nat] /\ result \in [Ops -> {"none", "pending", "done"}]
        BY DEF Typed, OpsTyped
      <3>3. x # o
        BY <3>1, <3>2
      <3> QED
        BY <3>1, <3>2, <3>3
    <2> QED
      BY <1>3, <2>1, <2>2
  <1>4. CASE DispatchStep
    BY <1>4, DispatchFrame
  <1>5. ASSUME NEW c \in Completers, CompletionStep(c)
        PROVE  result'[o] = result[o] /\ details'[o] = details[o]
    <2>1. ~(completing[c].op = o /\ completing[c].at \in {"result", "details"})
      BY DEF Results, Stored
    <2>2. CASE StoreResult(c) \/ StoreDetails(c)
      BY <2>1, <2>2 DEF StoreResult, StoreDetails, Completes, Typed, OpsTyped
    <2>3. CASE SetEvent(c) \/ EnqueueApc(c) \/ NoApc(c) \/ Completed(c)
      BY <2>3 DEF SetEvent, EnqueueApc, NoApc, Completed, opVars
    <2> QED
      BY <1>5, <2>2, <2>3 DEF CompletionStep
  <1>6. CASE StopDispatch \/ ShutdownStep
    BY <1>6, ShutdownFrame
  <1>7. CASE UNCHANGED vars
    BY <1>7, StutterFrame
  <1> QED
    BY <1>1, <1>2, <1>3, <1>4, <1>5, <1>6, <1>7, NextMoves DEF GuestOpStep

(* After ToldWhenFinal: the result stands as the event or the routine      *)
(* announced it.                                                           *)
THEOREM WhatWasToldStands == Spec => ToldStands
  <1>1. IInv /\ [Next]_vars =>
          [\A o \in Ops : Told(o) /\ ~early[o] /\ submits'[o] = submits[o]
                           => result'[o] = result[o] /\ details'[o] = details[o]]_vars
    BY ToldStandsStep DEF IInv
  <1> QED
    BY <1>1, IInvHolds, PTL DEF Spec, ToldStands

-----------------------------------------------------------------------------
(* The dispatch thread's sleep.                                            *)

(* A pending operation is always in somebody's hands, the dispatch thread  *)
(* does not sleep while the queue holds one or while it is to stop, unless *)
(* the destructor's notification came too early for it, and it never wakes *)
(* up to an empty queue it would take from.                                *)
NothingLeftBehind ==
  /\ \A o \in Ops : result[o] = "pending" => Pushing(o) \/ o \in ToSet(queue) \/ Dispatched(o)
  /\ dispatch = "waiting" => queue = <<>> /\ (running \/ shutdown = "stopping" \/ missed)
  /\ dispatch = "woken" /\ running => queue # <<>>

(* Past its test of the flag, and outside a completion.                    *)
DispatchInv ==
  /\ running <=> shutdown = "no"
  /\ shutdown # "no" => place = "gone"
  /\ dispatch = "lock" /\ ~running /\ queue = <<>> => shutdown = "stopping" \/ missed
  /\ dispatch # "run" => completing[Dispatcher].at = "nothing"

LEMMA SleepStep ==
  ASSUME Typed, NothingLeftBehind, DispatchInv, [Next]_vars
  PROVE  NothingLeftBehind' /\ DispatchInv'
  <1>0. queue \in Seq(Ops) /\ ToSet(queue) \subseteq Ops
    BY QueueTyped
  <1>1. CASE ApcStep
    <2>1. UNCHANGED <<queue, result, completing, query, dispatch, running, shutdown, missed>>
      BY <1>1, ApcFrame
    <2>2. /\ place = "push" => place' = "push"
          /\ place = "gone" => place' = "gone"
      BY <1>1 DEF ApcStep, GuestProceeds, GuestChooses, TitlePosts, PosterProceeds, Alerted, TakeApc,
         FreeTaken, RoutineReturns, DeliveryEnds, AfterDelivery, RundownTake, RundownFree, RundownEnds,
         EnterOrLeaveCriticalRegion, BeginAlertableWait, WaitEnds, Exit, KeInsertQueueApc,
         KeRemoveQueueApc, NtQueueApcThread, AllocateApc, InsertQueueApc, QueueUserCallback, Goes
    <2> QED
      BY <2>1, <2>2 DEF NothingLeftBehind, DispatchInv, Pushing, Dispatched
  <1>2. CASE PushDeferred
    <2>1. /\ queue' = Append(queue, query) /\ query \in Ops
          /\ dispatch' = IF dispatch = "waiting" THEN "woken" ELSE dispatch
          /\ place = "push" /\ UNCHANGED <<result, completing, running, shutdown, missed>>
      BY <1>2 DEF PushDeferred, Goes, opVars, endVars, Typed, ThreadTyped, AsksPlaces
    <2>2. ToSet(queue)' = ToSet(queue) \cup {query} /\ queue' # <<>>
      <3>1. ToSet(Append(queue, query)) = ToSet(queue) \cup {query}
        BY <1>0, <2>1, AppendDistinct
      <3>2. Append(queue, query) # <<>>
        BY <1>0, <2>1
      <3> QED
        BY <2>1, <3>1, <3>2
    <2>3. \A o \in Ops : Pushing(o) => o = query
      BY DEF Pushing
    <2> QED
      BY <2>1, <2>2, <2>3 DEF NothingLeftBehind, DispatchInv, Dispatched
  <1>3. ASSUME NEW x \in Ops, SubmitDeferred(x)
        PROVE  NothingLeftBehind' /\ DispatchInv'
    <2>1. /\ place = "run" /\ place' = "push" /\ query' = x
          /\ \A o \in Ops \ {x} : result'[o] = result[o]
          /\ UNCHANGED <<queue, completing, dispatch, running, shutdown, missed>>
      BY <1>3 DEF SubmitDeferred, Submitted, Goes, dispatchVars, endVars, Typed, OpsTyped
    <2> QED
      BY <2>1 DEF NothingLeftBehind, DispatchInv, Pushing, Dispatched
  <1>4. CASE \/ EventWaited \/ CancelWaited \/ GetResultReturns \/ CancelAlerted
             \/ \E o \in Ops : SubmitImmediate(o) \/ GetResult(o) \/ CancelIORequest(o)
    <2>1. /\ place \notin {"push", "gone"}
          /\ UNCHANGED <<queue, result, dispatch, running, shutdown, missed>>
          /\ completing'[Dispatcher] = completing[Dispatcher]
      BY <1>4 DEF EventWaited, CancelWaited, TakeEvent, GetResultReturns, CancelAlerted, SubmitImmediate,
                  GetResult, CancelIORequest, Goes, opVars, dispatchVars, endVars, Typed, OpsTyped,
                  Completers
    <2> QED
      BY <2>1 DEF NothingLeftBehind, DispatchInv, Pushing, Dispatched
  <1>5. CASE DispatchStep
    <2>0. UNCHANGED <<place, query, result, running, shutdown, missed>>
      BY <1>5, DispatchFrame
    <2>1. CASE RunDeferred
      <3> DEFINE h == Head(queue)
      <3>1. /\ queue # <<>> /\ queue' = Tail(queue) /\ dispatch # "run" /\ dispatch' = "run"
            /\ completing'[Dispatcher].op = h /\ completing'[Dispatcher].at = "result"
        BY <2>1 DEF RunDeferred, Typed, OpsTyped, Completers
      <3>2. ToSet(queue) = ToSet(queue)' \cup {h}
        BY <1>0, <3>1, TailDistinct
      <3> HIDE DEF h
      <3>3. \A o \in Ops : ~Dispatched(o)
        BY <3>1 DEF DispatchInv, Dispatched
      <3> QED
        BY <2>0, <3>1, <3>2, <3>3 DEF NothingLeftBehind, DispatchInv, Pushing, Dispatched
    <2>2. CASE TestRunning \/ WaitForWork \/ ExitWoken
      <3>1. UNCHANGED <<queue, completing>>
        BY <2>2 DEF TestRunning, WaitForWork, ExitWoken
      <3> QED
        BY <2>0, <2>2, <3>1 DEF TestRunning, WaitForWork, ExitWoken, NothingLeftBehind, DispatchInv,
                                Pushing, Dispatched
    <2> QED
      BY <1>5, <2>1, <2>2 DEF DispatchStep
  <1>6. ASSUME NEW c \in Completers, CompletionStep(c)
        PROVE  NothingLeftBehind' /\ DispatchInv'
    <2>0. UNCHANGED <<queue, query, running, shutdown, missed>>
      BY <1>6, CompletionFrame
    <2>1. /\ place = "push" => place' = "push"
          /\ place = "gone" => place' = "gone"
      BY <1>6 DEF CompletionStep, StoreResult, StoreDetails, SetEvent, EnqueueApc, NoApc, Completed,
                  AllocateApc, Goes, apcVars
    <2>2. /\ completing[c].at # "nothing"
          /\ \A d \in Completers \ {c} : completing'[d] = completing[d]
          /\ \A o \in Ops : completing[c].at = "result" /\ completing[c].op = o
                              => result'[o] # "pending"
          /\ \A o \in Ops : result'[o] = "pending" => result[o] = "pending"
      BY <1>6 DEF CompletionStep, StoreResult, StoreDetails, SetEvent, EnqueueApc, NoApc, Completed,
                  Completes, opVars, Typed, OpsTyped
    <2>3. c = Dispatcher => dispatch = "run"
      BY <2>2 DEF DispatchInv
    <2>4. \/ UNCHANGED dispatch /\ c = Dispatcher
          \/ UNCHANGED dispatch /\ c # Dispatcher
          \/ c = Dispatcher /\ dispatch' = "test" /\ completing'[Dispatcher].at = "nothing"
      BY <1>6 DEF CompletionStep, StoreResult, StoreDetails, SetEvent, EnqueueApc, NoApc, Completed,
                  dispatchVars, Nothing, Typed, OpsTyped, Completers
    <2>5. NothingLeftBehind'
      <3>1. \A o \in Ops : result'[o] = "pending" /\ Dispatched(o) => Dispatched(o)'
        BY <2>2 DEF Dispatched, Completers
      <3>2. \A o \in Ops : Pushing(o) => Pushing(o)'
        BY <2>0, <2>1 DEF Pushing
      <3> QED
        BY <2>0, <2>2, <2>3, <2>4, <3>1, <3>2 DEF NothingLeftBehind
    <2>6. DispatchInv'
      BY <2>0, <2>1, <2>2, <2>3, <2>4 DEF DispatchInv, Completers
    <2> QED
      BY <2>5, <2>6
  <1>7. CASE StopDispatch \/ ShutdownStep
    <2>1. UNCHANGED <<place, query, queue, result, completing>>
      BY <1>7, ShutdownFrame
    <2>2. /\ \A o \in Ops : Pushing(o)' <=> Pushing(o)
          /\ \A o \in Ops : Dispatched(o)' <=> Dispatched(o)
          /\ ToSet(queue)' = ToSet(queue)
      BY <2>1 DEF Pushing, Dispatched
    <2>3. CASE StopDispatch
      <3>1. place = "gone" /\ shutdown' = "stopping" /\ running' = FALSE /\ UNCHANGED dispatch
        BY <2>3 DEF StopDispatch
      <3> QED
        BY <2>1, <2>2, <3>1 DEF NothingLeftBehind, DispatchInv
    <2>4. CASE NotifyDispatch
      <3>1. /\ shutdown = "stopping" /\ shutdown' = "joining" /\ UNCHANGED running
            /\ dispatch' = IF dispatch = "waiting" THEN "woken" ELSE dispatch
            /\ missed' = AboutToWait
        BY <2>4 DEF NotifyDispatch
      <3>2. ~running
        BY <3>1 DEF DispatchInv
      <3>3. /\ dispatch' # "waiting" /\ (dispatch' # "run" => dispatch # "run")
            /\ dispatch' = "lock" /\ queue' = <<>> => missed'
        BY <2>1, <3>1 DEF AboutToWait
      <3>4. NothingLeftBehind'
        BY <2>1, <2>2, <3>1, <3>2, <3>3 DEF NothingLeftBehind
      <3>5. DispatchInv'
        BY <2>1, <3>1, <3>2, <3>3 DEF DispatchInv
      <3> QED
        BY <3>4, <3>5
    <2>5. CASE JoinDispatch
      <3>1. /\ shutdown = "joining" /\ dispatch = "exited" /\ shutdown' = "joined"
            /\ UNCHANGED <<running, dispatch, missed>>
        BY <2>5 DEF JoinDispatch, dispatchVars
      <3> QED
        BY <2>1, <2>2, <3>1 DEF NothingLeftBehind, DispatchInv
    <2> QED
      BY <1>7, <2>3, <2>4, <2>5 DEF ShutdownStep
  <1>8. CASE UNCHANGED vars
    BY <1>8, StutterFrame DEF NothingLeftBehind, DispatchInv, Pushing, Dispatched
  <1> QED
    BY <1>1, <1>2, <1>3, <1>4, <1>5, <1>6, <1>7, <1>8, NextMoves DEF GuestOpStep

(* No deferred completion is forgotten and none is slept through           *)
(* (DispatchThread and CompleteOverlappedDeferredEx of kernel_state.cpp),  *)
(* although the thread waits on its condition once, without a loop: every  *)
(* push that finds it asleep wakes it, and a wake-up finds the item.  Only *)
(* the destructor's notification, made without the lock, can be lost.      *)
THEOREM NoCompletionIsLost == Spec => []NothingLeftBehind
  <1>1. Init => NothingLeftBehind /\ DispatchInv
    BY DEF Init, NothingLeftBehind, DispatchInv, Nothing, Completers
  <1>2. IInv /\ NothingLeftBehind /\ DispatchInv /\ [Next]_vars
          => NothingLeftBehind' /\ DispatchInv'
    BY SleepStep DEF IInv
  <1> QED
    BY <1>1, <1>2, IInvHolds, PTL DEF Spec
=============================================================================
