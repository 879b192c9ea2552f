--------------------------- MODULE XmaDecoderProofs ---------------------------
(* Theorems about XmaDecoder, for any number of contexts and any guests.   *)
EXTENDS XmaDecoder, FiniteSetTheorems, WellFoundedInduction, TLAPS

USE NumContextsAssumption, GuestsAssumption, SharingAssumption

(* A call that visits contexts has one left to visit; a kick waits for     *)
(* contexts that its guest holds.                                          *)
Visiting == {"setAllocated", "releaseBit", "enable", "wait", "disable", "block"}
Kicking == {"enable", "setEvent", "wait"}

CallOK(g) ==
  /\ op[g] \in Visiting => todo[g] # {}
  /\ op[g] \in Kicking => /\ kicked[g] # {}
                          /\ todo[g] \subseteq kicked[g]
                          /\ kicked[g] \subseteq Held(g)
Calls == \A g \in Guests : CallOK(g)

(* A context that is neither free nor held is claimed by one guest that is *)
(* allocating or releasing it.                                             *)
Claims(g, c) == op[g] \in {"setAllocated", "releaseBit"} /\ c \in todo[g]

Ownership ==
  /\ \A c \in Contexts : allocated[c] <=> holder[c] # NoGuest
  /\ \A c \in free : holder[c] = NoGuest
  /\ \A g \in Guests, c \in Contexts : Claims(g, c) => c \notin free /\ holder[c] = NoGuest
  /\ \A g, h \in Guests, c \in Contexts : Claims(g, c) /\ Claims(h, c) => g = h
  /\ \A c \in Contexts \ free : holder[c] # NoGuest \/ \E g \in Guests : Claims(g, c)

(* A context is enabled, worked on or reported done only while a guest is  *)
(* in the middle of kicking it, and no two of these at once.               *)
Drives(g, c) ==
  \/ op[g] = "enable" /\ c \in kicked[g] \ todo[g]
  \/ op[g] = "setEvent" /\ c \in kicked[g]
  \/ op[g] = "wait" /\ c \in todo[g]
Working(c) == worker \in {"lock", "decode", "signal"} /\ n = c
Busy(c) == enabled[c] \/ workDone[c] \/ Working(c)

Kicks ==
  /\ \A c \in Contexts : Busy(c) => \E g \in Guests : Drives(g, c)
  /\ \A c \in Contexts : workDone[c] => ~enabled[c] /\ ~Working(c)
  /\ worker \in {"decode", "signal"} => ~enabled[n]

(* Without sharing a context is locked only by the guest that holds it, and *)
(* so not in the middle of a kick.                                          *)
Quiet ==
  /\ \A g \in Guests : op[g] \in {"disable", "block"} => todo[g] \subseteq Held(g)
  /\ \A g \in Guests, c \in quiet : ~Drives(g, c)

(* The two fences.  A parked worker is in one of four situations: its       *)
(* resume is signalled; its pause is not answered yet; the decoder is       *)
(* paused; or the decoder is about to signal the resume.                    *)
Parking ==
  /\ pauseFence => /\ worker = "resume" /\ ~resumeFence
                   /\ paused /\ control \in {"pauseEvent", "pausing"}
  /\ resumeFence => worker = "resume"
  /\ worker = "resume" =>
       \/ resumeFence
       \/ paused /\ control \in {"pauseEvent", "pausing"} /\ pauseFence
       \/ paused /\ control \in {"idle", "stopEvent", "stopResume"}
       \/ ~paused /\ control \in {"resumeSignal", "stopSignal"}
  /\ control \in {"resumeSignal", "stopSignal"} =>
       ~paused /\ worker = "resume" /\ ~resumeFence
  /\ paused /\ control \in {"idle", "stopEvent", "stopResume"} =>
       worker = "resume" /\ ~resumeFence
  /\ control \in {"pauseEvent", "pausing", "stopResume"} => paused
  /\ control \in {"joining", "down"} => ~paused

-----------------------------------------------------------------------------
(* The operators of the model.                                             *)

(* Lowest of a set of contexts is its least member.                        *)
LEMMA LowestIsLeast ==
  ASSUME NEW S, S \subseteq Contexts, S # {}
  PROVE  Lowest(S) \in S /\ \A d \in S : Lowest(S) <= d
  <1>1. S \subseteq Nat
    BY DEF Contexts
  <1>2. PICK c \in S : \A d \in S : <<d, c>> \notin OpToRel(<, Nat)
    BY <1>1, NatLessThanWellFounded, WFMin
  <1>3. ASSUME NEW d \in S
        PROVE  c <= d
    <2>1. d < c => <<d, c>> \in OpToRel(<, Nat)
      BY <1>1, Zenon DEF OpToRel
    <2>2. ~(d < c)
      BY <1>2, <2>1, Zenon
    <2> QED
      BY <1>1, <2>2
  <1> QED
    BY <1>3 DEF Lowest

(* A call starts in a guest that is in none.                               *)
LEMMA BegunCall ==
  ASSUME TypeOK, NEW g \in Guests, NEW call, NEW S, Begins(g, call, S)
  PROVE  op[g] = "idle" /\ op'[g] = call /\ todo'[g] = S
  BY DEF TypeOK, Begins

(* The context that a call visits is one it has left to visit.             *)
LEMMA VisitedIsLeft ==
  ASSUME TypeOK, NEW g \in Guests, NEW c \in Contexts, NEW call, NEW next,
         Visits(g, c, call, next)
  PROVE  /\ op[g] = call
         /\ c \in todo[g]
         /\ todo'[g] = todo[g] \ {c}
         /\ op'[g] = IF todo[g] = {c} THEN next ELSE call
  BY LowestIsLeast DEF TypeOK, Visits

-----------------------------------------------------------------------------
(* Type correctness.                                                       *)

ControlMove == ControlStep \/ Pause \/ Resume \/ Shutdown
GuestMove(g) == GuestStep(g) \/ GuestCall(g)

(* Who may take a step, and what each of them leaves alone.                *)
LEMMA NextMoves ==
  ASSUME [Next]_vars
  PROVE  Worker \/ ControlMove \/ (\E g \in Guests : GuestMove(g)) \/ UNCHANGED vars
  BY DEF Next, ControlMove, GuestMove

LEMMA WorkerFrame ==
  ASSUME Worker
  PROVE  UNCHANGED <<allocated, free, running, paused, control, op, todo, kicked, holder,
                     quiet>>
  BY DEF Worker, Top, CheckAllocated, CheckEnabled, LockContext, Decode, SignalWorkDone,
         PauseCheck, Resumed, Idle, flags, handshake, guests, loop

LEMMA ControlFrame ==
  ASSUME ControlMove
  PROVE  UNCHANGED <<allocated, enabled, workDone, free, worker, n, didWork, op, todo,
                     kicked, holder, quiet>>
  BY DEF ControlMove, ControlStep, ControlEvent, PauseReturns, ResumeSignal, Join, Pause,
         Resume, Shutdown, flags, handshake, guests, loop

LEMMA GuestFrame ==
  ASSUME NEW g \in Guests, GuestMove(g)
  PROVE  UNCHANGED <<running, paused, pauseFence, resumeFence, worker, n, didWork, control>>
  BY DEF GuestMove, GuestStep, GuestCall, AcquireBit, SetAllocated, ReleaseContext,
         ReleaseBit, BeginKick, Enable, Kick, WaitForWorkDone, BeginLock, Disable, Block,
         flags, handshake, guests, loop

(* A guest's step is a step of one call: another guest's is left alone.     *)
LEMMA OtherGuests ==
  ASSUME TypeOK, NEW g \in Guests, GuestMove(g), NEW h \in Guests \ {g}
  PROVE  op'[h] = op[h] /\ todo'[h] = todo[h] /\ kicked'[h] = kicked[h]
  BY DEF TypeOK, GuestMove, GuestStep, GuestCall, AcquireBit, SetAllocated, ReleaseContext,
         ReleaseBit, BeginKick, Enable, Kick, WaitForWorkDone, BeginLock, Disable, Block,
         flags, handshake, guests, loop, Begins, Visits

-----------------------------------------------------------------------------
(* Type correctness.                                                       *)

LEMMA InitType == Init => TypeOK
  <1> SUFFICES ASSUME Init PROVE TypeOK
    OBVIOUS
  <1>1. n \in 0..NumContexts
    BY DEF Init
  <1> QED
    BY <1>1 DEF Init, TypeOK

LEMMA WorkerType == ASSUME TypeOK, Worker PROVE TypeOK'
  <1>1. /\ enabled' \in [Contexts -> BOOLEAN]
        /\ workDone' \in [Contexts -> BOOLEAN]
    BY DEF TypeOK, Worker, Top, CheckAllocated, CheckEnabled, LockContext, Decode,
           SignalWorkDone, PauseCheck, Resumed, Idle, flags
  <1>2. {workEvent', running', paused', pauseFence', resumeFence', didWork'} \subseteq BOOLEAN
    BY DEF TypeOK, Worker, Top, CheckAllocated, CheckEnabled, LockContext, Decode,
           SignalWorkDone, PauseCheck, Resumed, Idle, handshake
  <1>3. /\ worker' \in {"top", "checkAllocated", "checkEnabled", "lock", "decode", "signal",
                        "pause", "resume", "idle", "exited"}
        /\ n' \in 0..NumContexts
        /\ worker' \in {"checkEnabled", "lock", "decode", "signal"} => n' \in Contexts
    BY DEF TypeOK, Worker, Top, CheckAllocated, CheckEnabled, LockContext, Decode, Contexts,
           SignalWorkDone, PauseCheck, Resumed, Idle, Goes, NextContext, AfterScan
  <1> QED
    BY <1>1, <1>2, <1>3, WorkerFrame DEF TypeOK

LEMMA ControlType == ASSUME TypeOK, ControlMove PROVE TypeOK'
  <1>1. /\ {workEvent', running', paused', pauseFence', resumeFence', didWork'} \subseteq BOOLEAN
        /\ control' \in {"idle", "pauseEvent", "pausing", "resumeSignal", "stopEvent",
                         "stopResume", "stopSignal", "joining", "down"}
    BY DEF TypeOK, ControlMove, ControlStep, ControlEvent, PauseReturns, ResumeSignal, Join,
           Pause, Resume, Shutdown, flags, handshake, guests, loop
  <1> QED
    BY <1>1, ControlFrame DEF TypeOK

LEMMA GuestType == ASSUME TypeOK, Calls, NEW g \in Guests, GuestMove(g) PROVE TypeOK'
  <1>0. UNCHANGED <<running, paused, pauseFence, resumeFence, worker, n, didWork, control>>
    BY GuestFrame
  <1> USE DEF GuestMove, GuestStep, GuestCall, AcquireBit, SetAllocated, ReleaseContext,
              ReleaseBit, BeginKick, Enable, Kick, WaitForWorkDone, BeginLock, Disable,
              Block, flags, guests, Begins, Visits
  <1>1. todo[g] # {} => Lowest(todo[g]) \in Contexts
    BY LowestIsLeast DEF TypeOK
  <1>2. free # {} => Lowest(free) \in Contexts
    BY LowestIsLeast DEF TypeOK
  <1>3. /\ allocated' \in [Contexts -> BOOLEAN]
        /\ enabled' \in [Contexts -> BOOLEAN]
        /\ workDone' \in [Contexts -> BOOLEAN]
        /\ workEvent' \in BOOLEAN
    BY DEF TypeOK
  <1>4. free' \subseteq Contexts /\ holder' \in [Contexts -> Guests \cup {NoGuest}]
    BY DEF TypeOK
  <1>5. quiet' \subseteq Contexts
    BY <1>1 DEF TypeOK, Calls, CallOK, Visiting
  <1>6. op' \in [Guests -> {"idle", "setAllocated", "releaseBit", "enable", "setEvent",
                            "wait", "disable", "block"}]
    BY DEF TypeOK
  <1>7. todo' \in [Guests -> SUBSET Contexts] /\ kicked' \in [Guests -> SUBSET Contexts]
    BY <1>2 DEF TypeOK
  <1> HIDE DEF GuestMove
  <1> QED
    BY <1>0, <1>3, <1>4, <1>5, <1>6, <1>7 DEF TypeOK

-----------------------------------------------------------------------------
(* The calls and the ownership of the contexts.                            *)

(* A guest takes no context from another: it allocates one that nobody     *)
(* holds.                                                                  *)
LEMMA HeldKept ==
  ASSUME TypeOK, Ownership, NEW g \in Guests, GuestMove(g), NEW h \in Guests \ {g}
  PROVE  Held(h) \subseteq Held(h)'
  <1> USE DEF TypeOK, Held
  <1>1. CASE UNCHANGED holder
    BY <1>1
  <1>2. ASSUME NEW c \in Contexts, SetAllocated(g, c)
        PROVE  Held(h) \subseteq Held(h)'
    <2>1. holder[c] = NoGuest
      BY <1>2, VisitedIsLeft DEF SetAllocated, Ownership, Claims
    <2> QED
      BY <1>2, <2>1 DEF SetAllocated
  <1>3. ASSUME NEW c \in Contexts, ReleaseContext(g, c)
        PROVE  Held(h) \subseteq Held(h)'
    BY <1>3 DEF ReleaseContext
  <1> QED
    BY <1>1, <1>2, <1>3 DEF GuestMove, GuestStep, GuestCall, AcquireBit, ReleaseBit, BeginKick,
       Enable, Kick, WaitForWorkDone, BeginLock, Disable, Block, guests

(* Every step keeps the calls in progress well formed.                     *)
LEMMA CallsStep ==
  ASSUME TypeOK, Calls, Ownership, [Next]_vars
  PROVE  Calls'
  <1>1. CASE UNCHANGED <<op, todo, kicked, holder>>
    BY <1>1 DEF Calls, CallOK, Held
  <1>2. ASSUME NEW g \in Guests, GuestMove(g)
        PROVE  Calls'
    <2>1. \A h \in Guests \ {g} : CallOK(h)'
      BY <1>2, OtherGuests, HeldKept DEF Calls, CallOK
    <2>2. CallOK(g)'
      <3> USE DEF TypeOK, Calls, CallOK, Visiting, Kicking, Held, flags, guests
      <3>1. CASE \E c \in Contexts : SetAllocated(g, c) \/ ReleaseBit(g, c)
        BY <3>1 DEF SetAllocated, ReleaseBit, Visits
      <3>2. CASE \E c \in Contexts : Enable(g, c) \/ WaitForWorkDone(g, c)
        BY <3>2 DEF Enable, WaitForWorkDone, Visits
      <3>3. CASE Kick(g) \/ Disable(g) \/ Block(g)
        BY <3>3 DEF Kick, Disable, Block
      <3>4. CASE \E S \in SUBSET Contexts : BeginKick(g, S) \/ BeginLock(g, S)
        BY <3>4 DEF BeginKick, BeginLock, Begins
      <3>5. CASE AcquireBit(g)
        <4>1. Begins(g, "setAllocated", {Lowest(free)})
          BY <3>5 DEF AcquireBit
        <4>2. op'[g] = "setAllocated" /\ todo'[g] = {Lowest(free)}
          BY <4>1, BegunCall
        <4> QED
          BY <4>2
      <3>6. ASSUME NEW c \in Contexts, ReleaseContext(g, c)
            PROVE  CallOK(g)'
        <4>1. Begins(g, "releaseBit", {c})
          BY <3>6 DEF ReleaseContext
        <4>2. op'[g] = "releaseBit" /\ todo'[g] = {c}
          BY <4>1, BegunCall
        <4> QED
          BY <4>2
      <3> QED
        BY <1>2, <3>1, <3>2, <3>3, <3>4, <3>5, <3>6 DEF GuestMove, GuestStep, GuestCall
    <2> QED
      BY <2>1, <2>2 DEF Calls
  <1> QED
    BY <1>1, <1>2, NextMoves, WorkerFrame, ControlFrame DEF vars, guests

(* The claims of a guest after its step, and those of the others.           *)
(* Every step keeps free, held and claimed apart: the claims of the guest  *)
(* that moves change by one context, those of the others do not.           *)
LEMMA OwnershipStep ==
  ASSUME TypeOK, Ownership, [Next]_vars
  PROVE  Ownership'
  <1>1. CASE UNCHANGED <<allocated, free, op, todo, holder>>
    BY <1>1 DEF Ownership, Claims
  <1>2. ASSUME NEW g \in Guests, GuestMove(g)
        PROVE  Ownership'
    <2>0. \A h \in Guests \ {g}, c \in Contexts : Claims(h, c)' <=> Claims(h, c)
      BY <1>2, OtherGuests DEF Claims
    <2>1. ASSUME NEW c \in Contexts, SetAllocated(g, c)
          PROVE  Ownership'
      <3>1. Claims(g, c) /\ \A d \in Contexts : Claims(g, d)' <=> d # c /\ Claims(g, d)
        BY <2>1, VisitedIsLeft DEF SetAllocated, Claims
      <3> QED
        BY <2>0, <2>1, <3>1 DEF TypeOK, SetAllocated, Ownership
    <2>2. ASSUME NEW c \in Contexts, ReleaseBit(g, c)
          PROVE  Ownership'
      <3>1. Claims(g, c) /\ \A d \in Contexts : Claims(g, d)' <=> d # c /\ Claims(g, d)
        BY <2>2, VisitedIsLeft DEF ReleaseBit, Claims
      <3> QED
        BY <2>0, <2>2, <3>1 DEF TypeOK, ReleaseBit, Ownership
    <2>3. CASE AcquireBit(g)
      <3>1. Lowest(free) \in free /\ free \subseteq Contexts
        BY <2>3, LowestIsLeast DEF AcquireBit, TypeOK
      <3>2. \A d \in Contexts : ~Claims(g, d) /\ (Claims(g, d)' <=> d = Lowest(free))
        BY <2>3 DEF TypeOK, AcquireBit, Begins, Claims
      <3> QED
        BY <2>0, <2>3, <3>1, <3>2 DEF AcquireBit, Ownership
    <2>4. ASSUME NEW c \in Contexts, ReleaseContext(g, c)
          PROVE  Ownership'
      <3>1. \A d \in Contexts : ~Claims(g, d) /\ (Claims(g, d)' <=> d = c)
        BY <2>4 DEF TypeOK, ReleaseContext, Begins, Claims
      <3> QED
        BY <2>0, <2>4, <3>1 DEF TypeOK, ReleaseContext, Ownership
    <2>5. CASE \/ Kick(g) \/ Disable(g) \/ Block(g)
               \/ \E c \in Contexts : Enable(g, c) \/ WaitForWorkDone(g, c)
               \/ \E S \in SUBSET Contexts : BeginKick(g, S) \/ BeginLock(g, S)
      <3>1. UNCHANGED <<allocated, free, holder>>
        BY <2>5 DEF Kick, Disable, Block, Enable, WaitForWorkDone, BeginKick, BeginLock,
                    flags
      <3>2. \A d \in Contexts : ~Claims(g, d) /\ ~Claims(g, d)'
        BY <2>5 DEF TypeOK, Kick, Disable, Block, Enable, WaitForWorkDone, BeginKick,
                    BeginLock, Begins, Visits, Claims
      <3> QED
        BY <2>0, <3>1, <3>2 DEF Ownership
    <2> QED
      BY <1>2, <2>1, <2>2, <2>3, <2>4, <2>5 DEF GuestMove, GuestStep, GuestCall
  <1> QED
    BY <1>1, <1>2, NextMoves, WorkerFrame, ControlFrame DEF vars, guests, flags

-----------------------------------------------------------------------------
(* Kicks.                                                                  *)

(* Every step keeps the flags and the worker on contexts that are being    *)
(* kicked.                                                                 *)
LEMMA KicksStep ==
  ASSUME TypeOK, Calls, Kicks, [Next]_vars
  PROVE  Kicks'
  <1> USE DEF Kicks, Busy, Working
  <1>1. CASE UNCHANGED <<enabled, workDone, worker, n, op, todo, kicked>>
    BY <1>1 DEF Drives
  <1>2. CASE Worker
    <2>1. \A g \in Guests, c \in Contexts : Drives(g, c)' <=> Drives(g, c)
      BY <1>2, WorkerFrame DEF Drives
    <2>2. CASE Top \/ PauseCheck \/ Resumed \/ Idle
      BY <2>1, <2>2 DEF TypeOK, Top, PauseCheck, Resumed, Idle, Goes, AfterScan, flags
    <2>3. CASE CheckAllocated
      BY <2>1, <2>3 DEF TypeOK, CheckAllocated, Goes, NextContext, flags
    <2>4. CASE CheckEnabled
      BY <2>1, <2>4 DEF TypeOK, CheckEnabled, Goes, NextContext, flags
    <2>5. CASE LockContext
      BY <2>1, <2>5 DEF TypeOK, LockContext, Goes
    <2>6. CASE Decode
      BY <2>1, <2>6 DEF TypeOK, Decode, Goes, flags
    <2>7. CASE SignalWorkDone
      BY <2>1, <2>7 DEF TypeOK, SignalWorkDone, Goes, NextContext
    <2> QED
      BY <1>2, <2>2, <2>3, <2>4, <2>5, <2>6, <2>7 DEF Worker
  <1>3. ASSUME NEW g \in Guests, GuestMove(g)
        PROVE  Kicks'
    <2>0. /\ \A h \in Guests \ {g}, c \in Contexts : Drives(h, c)' <=> Drives(h, c)
          /\ UNCHANGED <<worker, n>>
      BY <1>3, OtherGuests, GuestFrame DEF Drives
    <2>1. ASSUME NEW c \in Contexts, Enable(g, c)
          PROVE  Kicks'
      <3>1. op[g] = "enable" /\ c \in todo[g] /\ c \in Held(g)
        BY <2>1, VisitedIsLeft DEF Enable, Calls, CallOK, Kicking
      <3>2. \A h \in Guests : ~Drives(h, c)
        BY <3>1 DEF Calls, CallOK, Kicking, Held, Drives
      <3>3. Drives(g, c)' /\ \A d \in Contexts : Drives(g, d) => Drives(g, d)'
        BY <2>1, <3>1, VisitedIsLeft DEF Enable, Calls, CallOK, Kicking, Drives
      <3> QED
        BY <2>0, <2>1, <3>2, <3>3 DEF TypeOK, Enable
    <2>2. ASSUME NEW c \in Contexts, WaitForWorkDone(g, c)
          PROVE  Kicks'
      <3>1. \A d \in Contexts \ {c} : Drives(g, d) => Drives(g, d)'
        BY <2>2 DEF TypeOK, WaitForWorkDone, Visits, Drives
      <3> QED
        BY <2>0, <2>2, <3>1 DEF TypeOK, WaitForWorkDone
    <2>3. CASE Disable(g)
      <3>1. \A d \in Contexts : ~Drives(g, d)
        BY <2>3 DEF Disable, Drives
      <3> QED
        BY <2>0, <2>3, <3>1 DEF TypeOK, Disable
    <2>4. CASE \/ Kick(g) \/ Block(g)
               \/ \E c \in Contexts : SetAllocated(g, c) \/ ReleaseBit(g, c)
               \/ GuestCall(g)
      <3>1. UNCHANGED <<enabled, workDone>>
        BY <2>4 DEF Kick, Block, SetAllocated, ReleaseBit, GuestCall, AcquireBit,
                    ReleaseContext, BeginKick, BeginLock, flags
      <3>2. \A d \in Contexts : Drives(g, d) => Drives(g, d)'
        BY <2>4 DEF TypeOK, Kick, Block, SetAllocated, ReleaseBit, GuestCall, AcquireBit,
                    ReleaseContext, BeginKick, BeginLock, Begins, Visits, Drives
      <3> QED
        BY <2>0, <3>1, <3>2
    <2> QED
      BY <1>3, <2>1, <2>2, <2>3, <2>4 DEF GuestMove, GuestStep
  <1> QED
    BY <1>1, <1>2, <1>3, NextMoves, ControlFrame DEF vars, guests, flags, loop

(* A wait that goes on has taken a completion, and with one set the context *)
(* is neither enabled nor worked on.                                        *)
LEMMA WaitStep ==
  ASSUME TypeOK, Calls, Kicks, [Next]_vars, NEW g \in Guests, op[g] = "wait",
         todo'[g] # todo[g]
  PROVE  ~Pending(Lowest(todo[g]))
  <1>1. GuestMove(g)
    BY NextMoves, WorkerFrame, ControlFrame, OtherGuests DEF vars, guests
  <1>2. PICK c \in Contexts : WaitForWorkDone(g, c)
    BY <1>1, VisitedIsLeft
       DEF GuestMove, GuestStep, GuestCall, Kick, Disable, Block, SetAllocated, ReleaseBit,
           Enable, AcquireBit, ReleaseContext, BeginKick, BeginLock, Begins, Visits
  <1>3. c = Lowest(todo[g]) /\ workDone[c]
    BY <1>2 DEF WaitForWorkDone, Visits
  <1> QED
    BY <1>3 DEF Kicks, Working, Pending

-----------------------------------------------------------------------------
(* Locks.                                                                  *)

(* Without sharing, nobody kicks a context between a lock and the next     *)
(* kick.                                                                   *)
LEMMA QuietStep ==
  ASSUME TypeOK, Calls, Ownership, ~Sharing, Quiet, [Next]_vars
  PROVE  Quiet'
  <1>1. CASE UNCHANGED <<op, todo, kicked, holder, quiet>>
    BY <1>1 DEF Quiet, Held, Drives
  <1>2. ASSUME NEW g \in Guests, GuestMove(g)
        PROVE  Quiet'
    <2>1. \A h \in Guests \ {g} :
            /\ op'[h] \in {"disable", "block"} => todo'[h] \subseteq Held(h)'
            /\ \A c \in Contexts : Drives(h, c)' <=> Drives(h, c)
      BY <1>2, OtherGuests, HeldKept DEF Quiet, Drives
    <2>2. ASSUME NEW c \in Contexts, Enable(g, c)
          PROVE  Quiet'
      <3>1. \A d \in Contexts \ {c} : Drives(g, d)' => Drives(g, d)
        BY <2>2, VisitedIsLeft DEF Enable, Drives, Calls, CallOK, Kicking
      <3>2. op'[g] \notin {"disable", "block"}
        BY <2>2, VisitedIsLeft DEF Enable
      <3> QED
        BY <2>1, <2>2, <3>1, <3>2 DEF Enable, Quiet, TypeOK
    <2>3. CASE Block(g)
      <3>1. Lowest(todo[g]) \in todo[g] /\ todo[g] \subseteq Held(g)
        BY <2>3, LowestIsLeast DEF Block, TypeOK, Calls, CallOK, Visiting, Quiet
      <3>2. \A h \in Guests \ {g} : ~Drives(h, Lowest(todo[g]))
        BY <3>1 DEF Drives, Held, Calls, CallOK, Kicking
      <3>3. \A d \in Contexts : ~Drives(g, d)'
        BY <2>3 DEF Block, Drives, TypeOK
      <3>4. todo'[g] \subseteq Held(g)'
        BY <2>3, <3>1 DEF Block, Held, TypeOK
      <3>5. quiet' = quiet \cup {Lowest(todo[g])}
        BY <2>3 DEF Block
      <3>6. quiet' \subseteq Contexts
        BY <3>1, <3>5 DEF TypeOK
      <3> QED
        BY <2>1, <3>2, <3>3, <3>4, <3>5, <3>6 DEF Quiet
    <2>4. CASE \/ Disable(g)
               \/ \E S \in SUBSET Contexts : BeginLock(g, S)
      <3>1. todo'[g] \subseteq Held(g)'
        BY <2>4 DEF Disable, BeginLock, Begins, Held, MayLock, TypeOK, Quiet, guests
      <3>2. \A d \in Contexts : ~Drives(g, d)'
        BY <2>4 DEF Disable, BeginLock, Begins, Drives, TypeOK
      <3>3. UNCHANGED quiet
        BY <2>4 DEF Disable, BeginLock
      <3> QED
        BY <2>1, <3>1, <3>2, <3>3 DEF Quiet, TypeOK
    <2>5. CASE \/ Kick(g)
               \/ \E c \in Contexts : WaitForWorkDone(g, c)
               \/ \E c \in Contexts : SetAllocated(g, c) \/ ReleaseBit(g, c)
               \/ AcquireBit(g) \/ \E c \in Contexts : ReleaseContext(g, c)
               \/ \E S \in SUBSET Contexts : BeginKick(g, S)
      <3>1. op'[g] \notin {"disable", "block"}
        BY <2>5 DEF Kick, WaitForWorkDone, SetAllocated, ReleaseBit, AcquireBit,
                    ReleaseContext, BeginKick, Begins, Visits, TypeOK
      <3>2. \A d \in Contexts : Drives(g, d)' => Drives(g, d)
        BY <2>5 DEF Kick, WaitForWorkDone, SetAllocated, ReleaseBit, AcquireBit,
                    ReleaseContext, BeginKick, Begins, Visits, TypeOK, Drives
      <3>3. quiet' \subseteq quiet
        BY <2>5 DEF Kick, WaitForWorkDone, SetAllocated, ReleaseBit, AcquireBit,
                    ReleaseContext, BeginKick
      <3> QED
        BY <2>1, <3>1, <3>2, <3>3 DEF Quiet, TypeOK
    <2> QED
      BY <1>2, <2>2, <2>3, <2>4, <2>5 DEF GuestMove, GuestStep, GuestCall
  <1> QED
    BY <1>1, <1>2, NextMoves, WorkerFrame, ControlFrame DEF vars, guests

-----------------------------------------------------------------------------
(* Pausing.                                                                *)

(* The handshake of Pause, Resume and Shutdown with the worker.            *)
LEMMA ParkingStep ==
  ASSUME TypeOK, Parking, [Next]_vars
  PROVE  Parking'
  <1>1. CASE UNCHANGED <<handshake, worker, control>>
    BY <1>1 DEF Parking, handshake
  <1>2. CASE Worker
    <2>1. CASE Top \/ CheckAllocated \/ CheckEnabled \/ LockContext \/ Decode
               \/ SignalWorkDone \/ Idle
      <3>1. /\ worker # "resume" /\ worker' # "resume"
            /\ UNCHANGED <<paused, pauseFence, resumeFence, control>>
        BY <2>1 DEF Top, CheckAllocated, CheckEnabled, LockContext, Decode, SignalWorkDone,
                    Idle, Goes, NextContext, handshake
      <3> QED
        BY <3>1 DEF Parking
    <2>2. CASE PauseCheck
      BY <2>2 DEF TypeOK, Parking, PauseCheck, Goes, AfterScan
    <2>3. CASE Resumed
      BY <2>3 DEF TypeOK, Parking, Resumed, Goes, AfterScan
    <2> QED
      BY <1>2, <2>1, <2>2, <2>3 DEF Worker
  <1>3. CASE ControlMove
    <2>1. UNCHANGED worker
      BY <1>3, ControlFrame
    <2>2. CASE Pause
      BY <2>1, <2>2 DEF TypeOK, Parking, Pause
    <2>3. CASE Resume
      BY <2>1, <2>3 DEF TypeOK, Parking, Resume
    <2>4. CASE Shutdown
      BY <2>1, <2>4 DEF TypeOK, Parking, Shutdown
    <2>5. CASE ControlEvent
      BY <2>1, <2>5 DEF TypeOK, Parking, ControlEvent, handshake
    <2>6. CASE PauseReturns
      BY <2>1, <2>6 DEF TypeOK, Parking, PauseReturns
    <2>7. CASE ResumeSignal
      BY <2>1, <2>7 DEF TypeOK, Parking, ResumeSignal
    <2>8. CASE Join
      BY <2>1, <2>8 DEF TypeOK, Parking, Join, handshake
    <2> QED
      BY <1>3, <2>2, <2>3, <2>4, <2>5, <2>6, <2>7, <2>8 DEF ControlMove, ControlStep
  <1> QED
    BY <1>1, <1>2, <1>3, NextMoves, GuestFrame DEF vars, handshake, loop

-----------------------------------------------------------------------------
(* The inductive invariant.                                                *)

IInv == TypeOK /\ Calls /\ Ownership /\ Kicks /\ Parking

LEMMA InitIInv == Init => IInv /\ Quiet
  <1> SUFFICES ASSUME Init PROVE IInv /\ Quiet
    OBVIOUS
  <1>1. TypeOK
    BY InitType
  <1>2. Calls /\ Ownership
    BY DEF Init, Calls, CallOK, Visiting, Kicking, Ownership, Claims
  <1>3. Kicks /\ Quiet
    BY DEF Init, Kicks, Busy, Working, Quiet, Drives
  <1>4. Parking
    BY DEF Init, Parking
  <1> QED
    BY <1>1, <1>2, <1>3, <1>4 DEF IInv

LEMMA TypeStep ==
  ASSUME TypeOK, Calls, [Next]_vars
  PROVE  TypeOK'
  <1>1. CASE UNCHANGED vars
    BY <1>1 DEF TypeOK, vars, flags, handshake, guests, loop
  <1> QED
    BY <1>1, NextMoves, WorkerType, ControlType, GuestType

(* What the code keeps of the calls, the contexts, the kicks and the pause *)
(* handshake, in every reachable state.                                    *)
THEOREM IInvHolds == Spec => []IInv
  <1>1. Init => IInv
    BY InitIInv
  <1>2. IInv /\ [Next]_vars => IInv'
    BY TypeStep, CallsStep, OwnershipStep, KicksStep, ParkingStep DEF IInv
  <1> QED
    BY <1>1, <1>2, PTL DEF Spec

(* The variables of the decoder stay in their types: the worker never      *)
(* looks at a context past the end of the array, and a register write only *)
(* at contexts.                                                            *)
THEOREM TypeCorrect == Spec => []TypeOK
  <1>1. IInv => TypeOK
    BY DEF IInv
  <1> QED
    BY <1>1, IInvHolds, PTL

(* The claims counted: a context has as many owners as Ownership allows.   *)
LEMMA OwnershipCounts ==
  ASSUME TypeOK, Ownership
  PROVE  OneOwner
  <1>1. \A g \in Guests, c \in Contexts : g \in Owners(c) <=> holder[c] = g \/ Claims(g, c)
    BY DEF Owners, Claims
  <1>2. ASSUME NEW c \in Contexts
        PROVE  Cardinality(Owners(c)) = IF c \in free THEN 0 ELSE 1
    <2>1. CASE c \in free
      <3>1. Owners(c) = {}
        BY <2>1 DEF Owners, Ownership, Claims
      <3> QED
        BY <2>1, <3>1, FS_EmptySet
    <2>2. CASE c \notin free
      <3>1. PICK g \in Guests : holder[c] = g \/ Claims(g, c)
        BY <2>2 DEF TypeOK, Ownership
      <3>2. \A h \in Owners(c) : h = g
        BY <1>1, <3>1 DEF TypeOK, Ownership, Owners
      <3>3. Owners(c) = {g}
        BY <1>1, <3>1, <3>2
      <3> QED
        BY <2>2, <3>3, FS_Singleton
    <2> QED
      BY <2>1, <2>2
  <1>3. \A g \in Guests : op[g] = "setAllocated" => \A c \in todo[g] : ~allocated[c]
    BY DEF TypeOK, Ownership, Claims
  <1> QED
    BY <1>2, <1>3 DEF OneOwner

(* AllocateContext and ReleaseContext never give a context to two guests   *)
(* and never lose one, and the context behind an acquired bit is not       *)
(* allocated, for any number of guests that allocate and release at once.  *)
THEOREM ContextHasOneOwner == Spec => []OneOwner
  <1>1. IInv => OneOwner
    BY OwnershipCounts DEF IInv
  <1> QED
    BY <1>1, IInvHolds, PTL

(* Once Pause() has returned the worker is parked between two scans until  *)
(* Resume(), whatever is pending on its event and its fences.              *)
THEOREM PauseParks == Spec => []PausedIsParked
  <1>1. IInv => PausedIsParked
    BY DEF IInv, Parking, PausedIsParked
  <1> QED
    BY <1>1, IInvHolds, PTL

(* WriteRegister on a kick returns only when no decode of the context is   *)
(* asked for, about to start or in progress, even when other guests        *)
(* disable the context meanwhile.                                          *)
THEOREM WaitEndsAfterDecode == Spec => KickSeesItsDecode
  <1>1. IInv /\ [Next]_vars =>
          [\A g \in Guests :
             op[g] = "wait" /\ todo'[g] # todo[g] => ~Pending(Lowest(todo[g]))]_vars
    BY WaitStep DEF IInv
  <1> QED
    BY <1>1, IInvHolds, PTL DEF Spec, KickSeesItsDecode

(* When every guest locks only its own contexts, no decode of a context    *)
(* runs from the return of Block() to its next kick.  (With sharing it     *)
(* does not hold: XmaDecoderLockRace shows the trace.)                     *)
THEOREM LockHolds ==
  ASSUME ~Sharing
  PROVE  Spec => []LockExcludesDecode
  <1>1. Init => Quiet
    BY InitIInv
  <1>2. Quiet /\ IInv /\ [Next]_vars => Quiet'
    BY QuietStep DEF IInv
  <1>3. IInv /\ Quiet => LockExcludesDecode
    BY DEF IInv, Kicks, Busy, Working, Quiet, LockExcludesDecode, TypeOK
  <1> QED
    BY <1>1, <1>2, <1>3, IInvHolds, PTL DEF Spec

-----------------------------------------------------------------------------
(* The worker's sleep.  It waits on work_event_, an auto-reset event that  *)
(* kicks, Pause() and Shutdown() share, after a scan that decoded nothing. *)

Asleep == worker = "idle" /\ ~workEvent
Stopping == {"stopResume", "stopSignal", "joining", "down"}

(* The worker never sleeps while somebody waits for it: not while Pause()  *)
(* waits for its answer, not after Shutdown() has set the event, and,      *)
(* before a shutdown, not while a kicked context that a guest waits for is *)
(* still enabled; without sharing every such context is done already.      *)
WakeUpNotLost ==
  Asleep =>
    /\ control # "pausing" /\ control \notin Stopping
    /\ running => \A g \in Guests : op[g] = "wait" =>
                    \A c \in todo[g] : ~enabled[c] /\ (Sharing \/ workDone[c])

(* The worker looks at the context before it can sleep: its scan has not   *)
(* passed it, or it has decoded something and scans again.                 *)
WillVisit(c) ==
  \/ worker \in {"top", "lock", "decode", "signal"}
  \/ worker \in {"checkAllocated", "checkEnabled"} /\ n <= c
  \/ worker \in {"checkAllocated", "checkEnabled", "pause", "resume"} /\ didWork

Waits(g, c) == op[g] = "wait" /\ c \in todo[g]

Heard == running => \A g \in Guests, c \in Contexts :
                      Waits(g, c) /\ enabled[c] => workEvent \/ WillVisit(c)

(* Without sharing nobody takes a kick back.                               *)
Asked == \A g \in Guests, c \in Contexts : Drives(g, c) => Busy(c)

ControlHeard ==
  /\ control = "pausing" /\ ~workEvent => worker # "idle" /\ (resumeFence => didWork)
  /\ control \in Stopping => workEvent \/ worker \in {"top", "exited"}
  /\ running <=> control # "stopEvent" /\ control \notin Stopping
  /\ running => worker # "exited"

LEMMA ControlHeardStep ==
  ASSUME TypeOK, Parking, ControlHeard, [Next]_vars
  PROVE  ControlHeard'
  <1> USE DEF Stopping
  <1>1. CASE UNCHANGED vars
    BY <1>1 DEF ControlHeard, vars, handshake, loop
  <1>2. CASE Worker
    <2>0. UNCHANGED <<control, running, paused>>
      BY <1>2, WorkerFrame
    <2>1. CASE Top
      BY <2>0, <2>1 DEF TypeOK, Parking, ControlHeard, Top, Goes, handshake
    <2>2. CASE CheckAllocated \/ CheckEnabled \/ LockContext \/ Decode \/ SignalWorkDone
      <3>1. /\ worker # "resume" /\ worker' \notin {"idle", "exited"} /\ worker \notin {"top", "exited", "idle"}
            /\ UNCHANGED <<workEvent, resumeFence>>
        BY <2>2 DEF CheckAllocated, CheckEnabled, LockContext, Decode, SignalWorkDone, Goes, NextContext,
                    handshake, flags
      <3> QED
        BY <2>0, <3>1 DEF Parking, ControlHeard
    <2>3. CASE PauseCheck
      BY <2>0, <2>3 DEF TypeOK, Parking, ControlHeard, PauseCheck, Goes, AfterScan
    <2>4. CASE Resumed
      BY <2>0, <2>4 DEF TypeOK, Parking, ControlHeard, Resumed, Goes, AfterScan
    <2>5. CASE Idle
      BY <2>0, <2>5 DEF TypeOK, Parking, ControlHeard, Idle, Goes, handshake
    <2> QED
      BY <1>2, <2>1, <2>2, <2>3, <2>4, <2>5 DEF Worker
  <1>3. CASE ControlMove
    <2>0. UNCHANGED <<worker, didWork>>
      BY <1>3, ControlFrame
    <2>1. CASE Pause \/ Resume
      BY <2>0, <2>1 DEF TypeOK, Parking, ControlHeard, Pause, Resume
    <2>2. CASE Shutdown
      BY <2>0, <2>2 DEF TypeOK, Parking, ControlHeard, Shutdown
    <2>3. CASE ControlEvent
      BY <2>0, <2>3 DEF TypeOK, Parking, ControlHeard, ControlEvent, handshake
    <2>4. CASE PauseReturns
      BY <2>0, <2>4 DEF TypeOK, Parking, ControlHeard, PauseReturns
    <2>5. CASE ResumeSignal \/ Join
      BY <2>0, <2>5 DEF TypeOK, Parking, ControlHeard, ResumeSignal, Join, handshake
    <2> QED
      BY <1>3, <2>1, <2>2, <2>3, <2>4, <2>5 DEF ControlMove, ControlStep
  <1>4. ASSUME NEW g \in Guests, GuestMove(g)
        PROVE  ControlHeard'
    <2>1. workEvent => workEvent'
      BY <1>4 DEF GuestMove, GuestStep, GuestCall, AcquireBit, SetAllocated, ReleaseContext, ReleaseBit,
                  BeginKick, Enable, Kick, WaitForWorkDone, BeginLock, Disable, Block, flags
    <2> QED
      BY <1>4, <2>1, GuestFrame DEF ControlHeard, TypeOK
  <1> QED
    BY <1>1, <1>2, <1>3, <1>4, NextMoves

LEMMA HeardStep ==
  ASSUME TypeOK, Calls, Ownership, Heard, [Next]_vars
  PROVE  Heard'
  <1>0. \A c \in Contexts : c \in 0..NumContexts /\ c # NumContexts /\ c \in Int
    BY DEF Contexts
  <1>1. CASE UNCHANGED vars
    BY <1>1 DEF Heard, Waits, WillVisit, vars, flags, handshake, guests, loop
  <1>2. CASE Worker
    <2>0. UNCHANGED <<op, todo, running>>
      BY <1>2, WorkerFrame
    <2>1. SUFFICES ASSUME running, NEW g \in Guests, NEW c \in Contexts, Waits(g, c), enabled'[c]
                   PROVE  workEvent' \/ WillVisit(c)'
      BY <2>0 DEF Heard, Waits
    <2>2. enabled[c]
      BY <1>2, <2>1 DEF TypeOK, Worker, Top, CheckAllocated, CheckEnabled, LockContext, Decode, SignalWorkDone,
                        PauseCheck, Resumed, Idle, flags
    <2>3. allocated[c]
      BY <2>1 DEF Waits, Calls, CallOK, Kicking, Held, Ownership, TypeOK
    <2>4. workEvent \/ WillVisit(c)
      BY <2>1, <2>2 DEF Heard
    <2>5. n \in Int /\ c \in Int /\ c < NumContexts /\ n <= NumContexts
      BY <1>0 DEF TypeOK, Contexts
    <2>6. CASE Top
      BY <2>1, <2>5, <2>6 DEF Top, Goes, WillVisit, Contexts
    <2>7. CASE CheckAllocated
      <3>1. CASE n = c
        BY <2>1, <2>3, <2>4, <2>5, <2>7, <3>1 DEF CheckAllocated, Goes, WillVisit
      <3>2. CASE n # c
        BY <2>1, <2>4, <2>5, <2>7, <3>2 DEF CheckAllocated, Goes, NextContext, WillVisit
      <3> QED
        BY <3>1, <3>2
    <2>8. CASE CheckEnabled
      BY <2>2, <2>4, <2>5, <2>8 DEF CheckEnabled, Goes, NextContext, WillVisit
    <2>9. CASE LockContext \/ Decode \/ SignalWorkDone
      BY <2>9 DEF LockContext, Decode, SignalWorkDone, Goes, NextContext, WillVisit
    <2>10. CASE PauseCheck \/ Resumed
      BY <2>4, <2>10 DEF PauseCheck, Resumed, Goes, AfterScan, WillVisit
    <2>11. CASE Idle
      BY <2>11 DEF Idle, Goes, WillVisit
    <2> QED
      BY <1>2, <2>6, <2>7, <2>8, <2>9, <2>10, <2>11 DEF Worker
  <1>3. CASE ControlMove
    <2>1. /\ running' => running
          /\ workEvent => workEvent'
      BY <1>3 DEF ControlMove, ControlStep, ControlEvent, PauseReturns, ResumeSignal, Join, Pause, Resume,
                  Shutdown, handshake, TypeOK
    <2> QED
      BY <1>3, <2>1, ControlFrame DEF Heard, Waits, WillVisit
  <1>4. ASSUME NEW g \in Guests, GuestMove(g)
        PROVE  Heard'
    <2>0. /\ UNCHANGED <<running, worker, n, didWork>>
          /\ \A h \in Guests \ {g} : op'[h] = op[h] /\ todo'[h] = todo[h]
      BY <1>4, GuestFrame, OtherGuests
    <2>1. CASE Kick(g)
      BY <2>1 DEF Kick, Heard
    <2>2. ASSUME NEW c \in Contexts, Enable(g, c)
          PROVE  Heard'
      <3>1. op[g] = "enable" /\ op'[g] # "wait" /\ c \in Held(g)
        BY <2>2, VisitedIsLeft DEF Enable, Calls, CallOK, Kicking
      <3>2. \A h \in Guests : ~Waits(h, c)'
        BY <2>0, <2>2, <3>1 DEF Waits, Calls, CallOK, Kicking, Held, TypeOK
      <3>3. /\ UNCHANGED workEvent /\ \A d \in Contexts \ {c} : enabled'[d] = enabled[d]
            /\ ~Waits(g, c)
        BY <2>2, <3>1 DEF Enable, TypeOK, Waits
      <3>4. \A h \in Guests, d \in Contexts : Waits(h, d)' => Waits(h, d)
        BY <2>0, <3>1 DEF Waits
      <3> QED
        BY <2>0, <3>2, <3>3, <3>4 DEF Heard, WillVisit
    <2>3. CASE ~Kick(g) /\ ~(\E c \in Contexts : Enable(g, c))
      <3>1. /\ UNCHANGED workEvent /\ \A d \in Contexts : enabled'[d] => enabled[d]
        BY <1>4, <2>3
           DEF GuestMove, GuestStep, GuestCall, AcquireBit, SetAllocated, ReleaseContext, ReleaseBit, BeginKick,
               WaitForWorkDone, BeginLock, Disable, Block, flags, TypeOK
      <3>2. \A d \in Contexts : Waits(g, d)' => Waits(g, d)
        BY <1>4, <2>3
           DEF GuestMove, GuestStep, GuestCall, AcquireBit, SetAllocated, ReleaseContext, ReleaseBit, BeginKick,
               WaitForWorkDone, BeginLock, Disable, Block, Begins, Visits, TypeOK, Waits
      <3> QED
        BY <2>0, <3>1, <3>2 DEF Heard, Waits, WillVisit
    <2> QED
      BY <2>1, <2>2, <2>3
  <1> QED
    BY <1>1, <1>2, <1>3, <1>4, NextMoves

LEMMA AskedStep ==
  ASSUME TypeOK, Calls, Quiet, Asked, [Next]_vars
  PROVE  Asked'
  <1> USE DEF Busy, Working
  <1>1. CASE UNCHANGED <<enabled, workDone, worker, n, op, todo, kicked>>
    BY <1>1 DEF Asked, Drives
  <1>2. CASE Worker
    <2>1. \A g \in Guests, c \in Contexts : Drives(g, c)' <=> Drives(g, c)
      BY <1>2, WorkerFrame DEF Drives
    <2>2. \A c \in Contexts : Busy(c) => Busy(c)'
      BY <1>2
         DEF TypeOK, Worker, Top, CheckAllocated, CheckEnabled, LockContext, Decode, SignalWorkDone, PauseCheck,
             Resumed, Idle, Goes, NextContext, AfterScan, flags
    <2> QED
      BY <2>1, <2>2 DEF Asked
  <1>3. ASSUME NEW g \in Guests, GuestMove(g)
        PROVE  Asked'
    <2>0. /\ \A h \in Guests \ {g}, c \in Contexts : Drives(h, c)' <=> Drives(h, c)
          /\ UNCHANGED <<worker, n>>
      BY <1>3, OtherGuests, GuestFrame DEF Drives
    <2>1. ASSUME NEW c \in Contexts, Enable(g, c)
          PROVE  Asked'
      <3>1. enabled'[c] /\ UNCHANGED workDone /\ \A d \in Contexts \ {c} : enabled'[d] = enabled[d]
        BY <2>1 DEF Enable, TypeOK
      <3>2. \A d \in Contexts \ {c} : Drives(g, d)' => Drives(g, d)
        BY <2>1, VisitedIsLeft DEF Enable, Drives, Calls, CallOK, Kicking
      <3> QED
        BY <2>0, <3>1, <3>2 DEF Asked
    <2>2. ASSUME NEW c \in Contexts, WaitForWorkDone(g, c)
          PROVE  Asked'
      <3>1. /\ op[g] = "wait" /\ c \in todo[g] /\ c \in Held(g)
            /\ ~Drives(g, c)' /\ \A d \in Contexts : Drives(g, d)' => Drives(g, d)
        BY <2>2, VisitedIsLeft DEF WaitForWorkDone, Drives, Calls, CallOK, Kicking
      <3>2. \A h \in Guests \ {g} : ~Drives(h, c)
        BY <3>1 DEF Calls, CallOK, Kicking, Held, Drives
      <3>3. UNCHANGED enabled /\ \A d \in Contexts \ {c} : workDone'[d] = workDone[d]
        BY <2>2 DEF WaitForWorkDone, TypeOK
      <3> QED
        BY <2>0, <3>1, <3>2, <3>3 DEF Asked
    <2>3. CASE Disable(g)
      <3>1. PICK c \in Contexts : c = Lowest(todo[g]) /\ c \in Held(g)
        BY <2>3, LowestIsLeast DEF Disable, TypeOK, Calls, CallOK, Visiting, Quiet
      <3>2. \A h \in Guests \ {g} : ~Drives(h, c)
        BY <3>1 DEF Calls, CallOK, Kicking, Held, Drives
      <3>3. UNCHANGED workDone /\ \A d \in Contexts \ {c} : enabled'[d] = enabled[d]
        BY <2>3, <3>1 DEF Disable, TypeOK
      <3>4. \A d \in Contexts : ~Drives(g, d)'
        BY <2>3 DEF Disable, Drives, TypeOK
      <3> QED
        BY <2>0, <3>2, <3>3, <3>4 DEF Asked
    <2>4. CASE \/ Kick(g) \/ Block(g)
               \/ \E c \in Contexts : SetAllocated(g, c) \/ ReleaseBit(g, c)
               \/ GuestCall(g)
      <3>1. UNCHANGED <<enabled, workDone>>
        BY <2>4 DEF Kick, Block, SetAllocated, ReleaseBit, GuestCall, AcquireBit,
                    ReleaseContext, BeginKick, BeginLock, flags
      <3>2. \A d \in Contexts : Drives(g, d)' => Drives(g, d)
        BY <2>4 DEF TypeOK, Kick, Block, SetAllocated, ReleaseBit, GuestCall, AcquireBit,
                    ReleaseContext, BeginKick, BeginLock, Begins, Visits, Drives
      <3> QED
        BY <2>0, <3>1, <3>2 DEF Asked
    <2> QED
      BY <1>3, <2>1, <2>2, <2>3, <2>4 DEF GuestMove, GuestStep
  <1> QED
    BY <1>1, <1>2, <1>3, NextMoves, ControlFrame DEF vars, guests, flags, loop

(* No Pause() or Shutdown() is slept through, and before a shutdown no     *)
(* kick whose context is still enabled (WorkerThreadMain, work_event_ of   *)
(* xma_decoder.cpp; WakeUpNotLost says what sharing changes), although the *)
(* event remembers one signal only and the worker reads each flag of a     *)
(* context once a scan: what is left of KickAnswered, PauseCompletes and   *)
(* WorkerExits is that the worker goes on.                                 *)
THEOREM NobodyIsSleptThrough == Spec => []WakeUpNotLost
  <1> DEFINE J == IInv /\ Heard /\ ControlHeard /\ (~Sharing => Quiet /\ Asked)
  <1>1. Init => J
    <2>1. Init => Heard /\ ControlHeard /\ Asked
      BY DEF Init, Heard, Waits, ControlHeard, Stopping, Asked, Drives
    <2> QED
      BY <2>1, InitIInv
  <1>2. J /\ [Next]_vars => J'
    <2> SUFFICES ASSUME J, [Next]_vars PROVE J'
      OBVIOUS
    <2>1. IInv'
      BY TypeStep, CallsStep, OwnershipStep, KicksStep, ParkingStep DEF IInv
    <2>2. Heard' /\ ControlHeard'
      BY HeardStep, ControlHeardStep DEF IInv
    <2>3. ~Sharing => Quiet' /\ Asked'
      BY QuietStep, AskedStep DEF IInv
    <2> QED
      BY <2>1, <2>2, <2>3
  <1>3. J => WakeUpNotLost
    <2> SUFFICES ASSUME J, Asleep PROVE WakeUpNotLost
      BY DEF WakeUpNotLost
    <2>1. control # "pausing" /\ control \notin Stopping
      BY DEF Asleep, ControlHeard
    <2>2. ASSUME running, NEW g \in Guests, op[g] = "wait", NEW c \in todo[g]
          PROVE  ~enabled[c] /\ (Sharing \/ workDone[c])
      <3>1. c \in Contexts
        BY DEF IInv, TypeOK
      <3>2. ~enabled[c]
        BY <2>2, <3>1 DEF Asleep, Heard, Waits, WillVisit
      <3>3. ~Sharing => workDone[c]
        BY <2>2, <3>1, <3>2 DEF Asked, Drives, Busy, Working, Asleep
      <3> QED
        BY <3>2, <3>3
    <2> QED
      BY <2>1, <2>2 DEF WakeUpNotLost
  <1> QED
    BY <1>1, <1>2, <1>3, PTL DEF Spec
=============================================================================
