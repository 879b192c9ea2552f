------------------------------ MODULE XmaDecoder ------------------------------
(***************************************************************************)
(* The XMA decoder of src/audio/xma_decoder.cpp and xma_context.cpp: guest *)
(* threads allocate hardware contexts and drive them by writing the kick   *)
(* and lock registers; one worker thread scans the contexts and decodes    *)
(* the enabled ones; a control thread pauses, resumes and shuts down.      *)
(*                                                                         *)
(* The audio data is left out.  Everything a guest thread does under a     *)
(* context's lock_ is a single store, so it is one step that needs the     *)
(* worker not to hold that lock.                                           *)
(***************************************************************************)
EXTENDS Integers, FiniteSets

CONSTANTS
  NumContexts,   \* kContextCount, 320 in the code
  Guests,        \* guest threads that use XMA
  NoGuest,
  Sharing,       \* may a guest disable a context that another one drives?
  Pausing        \* may the emulator pause the decoder?

ASSUME NumContextsAssumption == NumContexts \in Nat \ {0}
ASSUME GuestsAssumption == NoGuest \notin Guests
ASSUME SharingAssumption == Sharing \in BOOLEAN /\ Pausing \in BOOLEAN

Contexts == 0..NumContexts-1

VARIABLES
  \* XmaContext
  allocated,      \* is_allocated_
  enabled,        \* is_enabled_
  workDone,       \* work_completion_event_, auto-reset
  \* XmaDecoder
  free,           \* context_bitmap_: indices that Acquire() may hand out
  workEvent,      \* work_event_, auto-reset
  running,        \* worker_running_
  paused,         \* paused_
  pauseFence, resumeFence,
  \* the worker thread
  worker, n, didWork,
  \* the control thread: Pause, Resume, Shutdown
  control,
  \* guest threads: the call in progress and the contexts it has yet to visit
  op, todo, kicked,
  holder,         \* the guest that XMACreateContext gave a context to
  \* history
  quiet           \* contexts a lock register write returned for, not kicked since

flags == <<allocated, enabled, workDone, free>>
handshake == <<running, paused, pauseFence, resumeFence>>
guests == <<op, todo, kicked, holder>>
loop == <<worker, n, didWork>>
vars == <<flags, workEvent, handshake, loop, control, guests, quiet>>

Init ==
  /\ allocated = [c \in Contexts |-> FALSE]
  /\ enabled = [c \in Contexts |-> FALSE]
  /\ workDone = [c \in Contexts |-> FALSE]
  /\ free = Contexts
  /\ workEvent = FALSE
  /\ running = TRUE
  /\ paused = FALSE
  /\ pauseFence = FALSE
  /\ resumeFence = FALSE
  /\ worker = "top"
  /\ n = 0
  /\ didWork = FALSE
  /\ control = "idle"
  /\ op = [g \in Guests |-> "idle"]
  /\ todo = [g \in Guests |-> {}]
  /\ kicked = [g \in Guests |-> {}]
  /\ holder = [c \in Contexts |-> NoGuest]
  /\ quiet = {}

Lowest(S) == CHOOSE c \in S : \A d \in S : c <= d
LockFree(c) == ~(worker = "decode" /\ n = c)

-----------------------------------------------------------------------------
(* Guest threads                                                           *)

Begins(g, call, S) ==
  /\ op[g] = "idle"
  /\ op' = [op EXCEPT ![g] = call]
  /\ todo' = [todo EXCEPT ![g] = S]

(* The call visits its next context, and goes on with `next' after the last *)
Visits(g, c, call, next) ==
  /\ op[g] = call
  /\ todo[g] # {}
  /\ c = Lowest(todo[g])
  /\ todo' = [todo EXCEPT ![g] = @ \ {c}]
  /\ op' = [op EXCEPT ![g] = IF todo[g] = {c} THEN next ELSE call]

(* AllocateContext: take a bit, then mark the context; none left is an     *)
(* error return that changes nothing.                                      *)
AcquireBit(g) ==
  /\ free # {}
  /\ Begins(g, "setAllocated", {Lowest(free)})
  /\ free' = free \ {Lowest(free)}
  /\ UNCHANGED <<allocated, enabled, workDone, workEvent, handshake, loop, control,
                 kicked, holder, quiet>>

SetAllocated(g, c) ==
  /\ Visits(g, c, "setAllocated", "idle")
  /\ allocated' = [allocated EXCEPT ![c] = TRUE]
  /\ holder' = [holder EXCEPT ![c] = g]
  /\ UNCHANGED <<enabled, workDone, free, workEvent, handshake, loop, control, kicked,
                 quiet>>

(* ReleaseContext: XmaContext::Release() under the lock, then the bit.     *)
ReleaseBitFirst(g, c) ==    \* mutation: the bit, then is_allocated_
  /\ holder[c] = g
  /\ LockFree(c)
  /\ Begins(g, "releaseBit", {c})
  /\ free' = free \cup {c}
  /\ holder' = [holder EXCEPT ![c] = NoGuest]
  /\ quiet' = quiet \ {c}
  /\ UNCHANGED <<allocated, enabled, workDone, workEvent, handshake, loop, control,
                 kicked>>
ReleaseContext(g, c) ==
  /\ holder[c] = g
  /\ LockFree(c)
  /\ Begins(g, "releaseBit", {c})
  /\ allocated' = [allocated EXCEPT ![c] = FALSE]
  /\ holder' = [holder EXCEPT ![c] = NoGuest]
  /\ quiet' = quiet \ {c}
  /\ UNCHANGED <<enabled, workDone, free, workEvent, handshake, loop, control, kicked>>

ReleaseBit(g, c) ==
  /\ Visits(g, c, "releaseBit", "idle")
  /\ free' = free \cup {c}
  /\ UNCHANGED <<allocated, enabled, workDone, workEvent, handshake, loop, control,
                 kicked, holder, quiet>>

(* A write to a kick register: Enable() each context, wake the worker, and *)
(* wait for each context in turn.                                          *)
Held(g) == {c \in Contexts : holder[c] = g}

BeginKick(g, S) ==
  /\ S # {} /\ S \subseteq Held(g)
  /\ Begins(g, "enable", S)
  /\ kicked' = [kicked EXCEPT ![g] = S]
  /\ UNCHANGED <<flags, workEvent, handshake, loop, control, holder, quiet>>

Enable(g, c) ==
  /\ Visits(g, c, "enable", "setEvent")
  /\ LockFree(c)
  /\ enabled' = [enabled EXCEPT ![c] = TRUE]
  /\ quiet' = quiet \ {c}
  /\ UNCHANGED <<allocated, workDone, free, workEvent, handshake, loop, control, kicked,
                 holder>>

KickWithoutEvent(g) ==    \* mutation: work_event_->Set() is missing
  /\ op[g] = "setEvent"
  /\ op' = [op EXCEPT ![g] = "wait"]
  /\ todo' = [todo EXCEPT ![g] = kicked[g]]
  /\ UNCHANGED <<flags, workEvent, handshake, loop, control, kicked, holder, quiet>>
Kick(g) ==
  /\ op[g] = "setEvent"
  /\ workEvent' = TRUE
  /\ op' = [op EXCEPT ![g] = "wait"]
  /\ todo' = [todo EXCEPT ![g] = kicked[g]]
  /\ UNCHANGED <<flags, handshake, loop, control, kicked, holder, quiet>>

WaitSkipped(g, c) ==    \* mutation: the wait is missing
  /\ Visits(g, c, "wait", "idle")
  /\ workDone' = [workDone EXCEPT ![c] = FALSE]
  /\ UNCHANGED <<allocated, enabled, free, workEvent, handshake, loop, control, kicked,
                 holder, quiet>>
WaitForWorkDone(g, c) ==
  /\ Visits(g, c, "wait", "idle")
  /\ workDone[c]
  /\ workDone' = [workDone EXCEPT ![c] = FALSE]
  /\ UNCHANGED <<allocated, enabled, free, workEvent, handshake, loop, control, kicked,
                 holder, quiet>>

(* A write to a lock register: Disable() and Block() each context.  The    *)
(* guest that does so need not be the one that kicks the context.          *)
MayLock(g) == {c \in Contexts : holder[c] = g \/ (Sharing /\ holder[c] # NoGuest)}

BeginLock(g, S) ==
  /\ S # {} /\ S \subseteq MayLock(g)
  /\ Begins(g, "disable", S)
  /\ UNCHANGED <<flags, workEvent, handshake, loop, control, kicked, holder, quiet>>

Disable(g) ==
  LET c == Lowest(todo[g]) IN
  /\ op[g] = "disable"
  /\ LockFree(c)
  /\ enabled' = [enabled EXCEPT ![c] = FALSE]
  /\ op' = [op EXCEPT ![g] = "block"]
  /\ UNCHANGED <<allocated, workDone, free, workEvent, handshake, loop, control, todo,
                 kicked, holder, quiet>>

Block(g) ==
  LET c == Lowest(todo[g]) IN
  /\ op[g] = "block"
  /\ LockFree(c)
  /\ quiet' = quiet \cup {c}
  /\ todo' = [todo EXCEPT ![g] = @ \ {c}]
  /\ op' = [op EXCEPT ![g] = IF todo[g] = {c} THEN "idle" ELSE "disable"]
  /\ UNCHANGED <<flags, workEvent, handshake, loop, control, kicked, holder>>

-----------------------------------------------------------------------------
(* WorkerThreadMain; XmaContext::Work() is checkAllocated .. decode.       *)

Goes(pc) == worker' = pc
NextContext == n' = n + 1 /\ Goes("checkAllocated")

Top ==
  /\ worker = "top"
  /\ n' = 0
  /\ didWork' = FALSE
  /\ Goes(IF running THEN "checkAllocated" ELSE "exited")
  /\ UNCHANGED <<flags, workEvent, handshake, control, guests, quiet>>

CheckAllocatedPastEnd ==    \* mutation: n <= kContextCount
  /\ worker = "checkAllocated"
  /\ IF n > NumContexts \/ ~running THEN Goes("pause") /\ UNCHANGED n
     ELSE IF n = NumContexts \/ allocated[n] THEN Goes("checkEnabled") /\ UNCHANGED n
     ELSE NextContext
  /\ UNCHANGED <<flags, workEvent, handshake, didWork, control, guests, quiet>>
CheckAllocated ==
  /\ worker = "checkAllocated"
  /\ IF n = NumContexts \/ ~running THEN Goes("pause") /\ UNCHANGED n
     ELSE IF allocated[n] THEN Goes("checkEnabled") /\ UNCHANGED n
     ELSE NextContext
  /\ UNCHANGED <<flags, workEvent, handshake, didWork, control, guests, quiet>>

CheckEnabled ==
  /\ worker = "checkEnabled"
  /\ IF enabled[n] THEN Goes("lock") /\ UNCHANGED n ELSE NextContext
  /\ UNCHANGED <<flags, workEvent, handshake, didWork, control, guests, quiet>>

(* Under the lock the two flags are not looked at again. *)
LockContextKeepEnabled ==    \* mutation: is_enabled_ is not reset
  /\ worker = "lock"
  /\ Goes("decode")
  /\ UNCHANGED <<flags, workEvent, handshake, n, didWork, control, guests, quiet>>
LockContext ==
  /\ worker = "lock"
  /\ enabled' = [enabled EXCEPT ![n] = FALSE]
  /\ Goes("decode")
  /\ UNCHANGED <<allocated, workDone, free, workEvent, handshake, n, didWork, control,
                 guests, quiet>>

Decode ==
  /\ worker = "decode"
  /\ Goes("signal")
  /\ UNCHANGED <<flags, workEvent, handshake, n, didWork, control, guests, quiet>>

SignalWorkDone ==
  /\ worker = "signal"
  /\ workDone' = [workDone EXCEPT ![n] = TRUE]
  /\ didWork' = TRUE
  /\ NextContext
  /\ UNCHANGED <<allocated, enabled, free, workEvent, handshake, control, guests, quiet>>

AfterScan == Goes(IF didWork THEN "top" ELSE "idle")

PauseCheckNoResume ==    \* mutation: does not wait for resume_fence_
  /\ worker = "pause"
  /\ pauseFence' = (paused \/ pauseFence)
  /\ AfterScan
  /\ UNCHANGED <<flags, workEvent, running, paused, resumeFence, n, didWork, control,
                 guests, quiet>>
PauseCheck ==
  /\ worker = "pause"
  /\ IF paused THEN pauseFence' = TRUE /\ Goes("resume")
     ELSE AfterScan /\ UNCHANGED pauseFence
  /\ UNCHANGED <<flags, workEvent, running, paused, resumeFence, n, didWork, control,
                 guests, quiet>>

Resumed ==
  /\ worker = "resume"
  /\ resumeFence
  /\ resumeFence' = FALSE
  /\ AfterScan
  /\ UNCHANGED <<flags, workEvent, running, paused, pauseFence, n, didWork, control,
                 guests, quiet>>

Idle ==
  /\ worker = "idle"
  /\ workEvent
  /\ workEvent' = FALSE
  /\ Goes("top")
  /\ UNCHANGED <<flags, handshake, n, didWork, control, guests, quiet>>

-----------------------------------------------------------------------------
(* Pause(), Resume() and Shutdown(), called from one thread.               *)

Pause ==
  /\ Pausing
  /\ control = "idle" /\ ~paused
  /\ paused' = TRUE
  /\ control' = "pauseEvent"
  /\ UNCHANGED <<flags, workEvent, running, pauseFence, resumeFence, loop, guests, quiet>>

Shutdown ==
  /\ control = "idle"
  /\ running' = FALSE
  /\ control' = "stopEvent"
  /\ UNCHANGED <<flags, workEvent, paused, pauseFence, resumeFence, loop, guests, quiet>>

ControlEventUnset ==    \* mutation: work_event_->Set() is missing
  /\ control \in {"pauseEvent", "stopEvent"}
  /\ control' = IF control = "pauseEvent" THEN "pausing"
                ELSE IF paused THEN "stopResume" ELSE "joining"
  /\ UNCHANGED <<flags, workEvent, handshake, loop, guests, quiet>>
ControlEvent ==
  /\ control \in {"pauseEvent", "stopEvent"}
  /\ workEvent' = TRUE
  /\ control' = IF control = "pauseEvent" THEN "pausing"
                ELSE IF paused THEN "stopResume" ELSE "joining"
  /\ UNCHANGED <<flags, handshake, loop, guests, quiet>>

PauseReturns ==
  /\ control = "pausing"
  /\ pauseFence
  /\ pauseFence' = FALSE
  /\ control' = "idle"
  /\ UNCHANGED <<flags, workEvent, running, paused, resumeFence, loop, guests, quiet>>

Resume ==
  /\ control = "stopResume" \/ (control = "idle" /\ paused)
  /\ paused' = FALSE
  /\ control' = IF control = "idle" THEN "resumeSignal" ELSE "stopSignal"
  /\ UNCHANGED <<flags, workEvent, running, pauseFence, resumeFence, loop, guests, quiet>>

ResumeSignal ==
  /\ control \in {"resumeSignal", "stopSignal"}
  /\ resumeFence' = TRUE
  /\ control' = IF control = "resumeSignal" THEN "idle" ELSE "joining"
  /\ UNCHANGED <<flags, workEvent, running, paused, pauseFence, loop, guests, quiet>>

(* The worker has exited, or two seconds have passed. *)
Join ==
  /\ control = "joining"
  /\ control' = "down"
  /\ UNCHANGED <<flags, workEvent, handshake, loop, guests, quiet>>

-----------------------------------------------------------------------------

Worker ==
  \/ Top \/ CheckAllocated \/ CheckEnabled \/ LockContext \/ Decode \/ SignalWorkDone
  \/ PauseCheck \/ Resumed \/ Idle

(* Steps that finish a call already begun. *)
GuestStep(g) ==
  \/ Kick(g) \/ Disable(g) \/ Block(g)
  \/ \E c \in Contexts :
       \/ SetAllocated(g, c) \/ ReleaseBit(g, c)
       \/ Enable(g, c) \/ WaitForWorkDone(g, c)
ControlStep ==
  \/ ControlEvent \/ PauseReturns \/ ResumeSignal \/ Join
  \/ (control = "stopResume" /\ Resume)

GuestCall(g) ==
  \/ AcquireBit(g)
  \/ \E c \in Contexts : ReleaseContext(g, c)
  \/ \E S \in SUBSET Contexts : BeginKick(g, S) \/ BeginLock(g, S)

Next ==
  \/ Worker
  \/ \E g \in Guests : GuestStep(g) \/ GuestCall(g)
  \/ ControlStep \/ Pause \/ Resume \/ Shutdown

Spec == Init /\ [][Next]_vars

(* Threads that are inside a call keep running; nothing makes a guest call *)
(* the decoder, or the control thread resume it.                           *)
FairSpec ==
  /\ Spec
  /\ WF_vars(Worker)
  /\ WF_vars(ControlStep)
  /\ \A g \in Guests : WF_vars(GuestStep(g))

-----------------------------------------------------------------------------

TypeOK ==
  /\ allocated \in [Contexts -> BOOLEAN]
  /\ enabled \in [Contexts -> BOOLEAN]
  /\ workDone \in [Contexts -> BOOLEAN]
  /\ free \subseteq Contexts
  /\ {workEvent, running, paused, pauseFence, resumeFence, didWork} \subseteq BOOLEAN
  /\ worker \in {"top", "checkAllocated", "checkEnabled", "lock", "decode", "signal",
                 "pause", "resume", "idle", "exited"}
  /\ n \in 0..NumContexts
  /\ worker \in {"checkEnabled", "lock", "decode", "signal"} => n \in Contexts
  /\ control \in {"idle", "pauseEvent", "pausing", "resumeSignal", "stopEvent",
                  "stopResume", "stopSignal", "joining", "down"}
  /\ op \in [Guests -> {"idle", "setAllocated", "releaseBit", "enable", "setEvent",
                        "wait", "disable", "block"}]
  /\ todo \in [Guests -> SUBSET Contexts]
  /\ kicked \in [Guests -> SUBSET Contexts]
  /\ holder \in [Contexts -> Guests \cup {NoGuest}]
  /\ quiet \subseteq Contexts

(* AllocateContext asserts that the context behind the bit it acquired is  *)
(* not allocated, and a context has one owner: its bit is free exactly     *)
(* when nobody is allocating, holding or releasing it, so a release that   *)
(* races with an allocation never gives a context to two guests.           *)
Owners(c) ==
  {g \in Guests :
     holder[c] = g \/ (op[g] \in {"setAllocated", "releaseBit"} /\ c \in todo[g])}

OneOwner ==
  /\ \A g \in Guests : op[g] = "setAllocated" => \A c \in todo[g] : ~allocated[c]
  /\ \A c \in Contexts : Cardinality(Owners(c)) = IF c \in free THEN 0 ELSE 1

(* After Pause() has returned, and until Resume(), the worker is parked    *)
(* between two scans and touches no context.                               *)
PausedIsParked ==
  control = "idle" /\ paused => worker = "resume" /\ ~resumeFence

(* WriteRegister on a kick: "Block until the worker finishes, so the game  *)
(* sees updated context data."  The wait for a context ends only when no   *)
(* decode of it is still asked for, about to start or in progress: a       *)
(* completion left over from an earlier kick never ends it.                *)
Pending(c) == enabled[c] \/ (worker \in {"lock", "decode"} /\ n = c)

KickSeesItsDecode ==
  [][\A g \in Guests :
       op[g] = "wait" /\ todo'[g] # todo[g] => ~Pending(Lowest(todo[g]))]_vars

(* WriteRegister on a lock: Block() after Disable() keeps the game from    *)
(* modifying the context "while a decode was still in progress on the      *)
(* worker thread".  Once it has returned, and until the context is kicked  *)
(* again, no decode of it is in progress.                                  *)
LockExcludesDecode ==
  \A c \in quiet : ~(worker = "decode" /\ n = c)

(* A kick is answered: neither the worker's scan order nor the auto-reset  *)
(* events lose it.  Excluded are a shutdown meanwhile, after which the     *)
(* worker answers nobody, and a pause that is never resumed.               *)
KickAnswered ==
  \A g \in Guests :
    op[g] = "wait" ~> (op[g] # "wait" \/ ~running \/ []paused)

(* Pause() returns, also when the worker had gone to sleep on its event.   *)
PauseCompletes == control = "pausing" ~> control # "pausing"

(* After Shutdown() the worker thread exits, parked or asleep as it may    *)
(* have been.                                                              *)
WorkerExits == ~running ~> worker = "exited"
=============================================================================
