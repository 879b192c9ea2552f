----------------------------- MODULE TimerService -----------------------------
(***************************************************************************)
(* What the timer queue promises to the threads that use it                *)
(* (include/rex/thread/timer_queue.h), with nothing of the ring, the lists *)
(* and the threads that keep the promise.  TimerQueue is shown to          *)
(* implement this.                                                         *)
(*                                                                         *)
(* due is the time left: 0 is now, a negative value is lateness.           *)
(***************************************************************************)
EXTENDS Integers

CONSTANTS Timers, Delays, Intervals, MaxLag

VARIABLES
  phase,      \* "none", "armed", "running", "ending" (cancelled by its own callback), "over"
  due, interval,
  quiet       \* timers that a Disarm() has declared quiet

vars == <<phase, due, interval, quiet>>

Later(a, b) == IF a >= b THEN a ELSE b
InCallback(t) == phase[t] \in {"running", "ending"}
Becomes(t, p) == phase' = [phase EXCEPT ![t] = p]

Init ==
  /\ phase = [t \in Timers |-> "none"]
  /\ due = [t \in Timers |-> 0 - MaxLag]
  /\ interval = [t \in Timers |-> 0]
  /\ quiet = {}

(* The first callback is scheduled at max(now() - interval, due).          *)
Queued(t, p, d, i) ==
  /\ phase[t] = "none"
  /\ Becomes(t, p)
  /\ due' = [due EXCEPT ![t] = Later(0 - i, d)]
  /\ interval' = [interval EXCEPT ![t] = i]
  /\ UNCHANGED quiet

Arm(t) == \E d \in Delays, i \in Intervals : Queued(t, "armed", d, i)

(* The queue uses a timer of its own to end, which never runs.             *)
Stop(t) == Queued(t, "over", 0, 0)

(* A callback starts when it is due and no other callback runs.            *)
Run(t) ==
  /\ phase[t] = "armed" /\ due[t] <= 0
  /\ \A u \in Timers : ~InCallback(u)
  /\ Becomes(t, "running")
  /\ UNCHANGED <<due, interval, quiet>>

(* It repeats one interval after the time it was due, not after it ran.    *)
Repeat(t) ==
  /\ phase[t] = "running" /\ interval[t] # 0
  /\ Becomes(t, "armed")
  /\ due' = [due EXCEPT ![t] = @ + interval[t]]
  /\ UNCHANGED <<interval, quiet>>

Finish(t) ==
  /\ InCallback(t)
  /\ phase[t] = "running" => interval[t] = 0
  /\ Becomes(t, "over")
  /\ UNCHANGED <<due, interval, quiet>>

CancelInCallback(t) ==
  /\ phase[t] = "running"
  /\ Becomes(t, "ending")
  /\ UNCHANGED <<due, interval, quiet>>

(* Cancelled from outside, it does not run and never will.                 *)
Cancel(t) ==
  /\ phase[t] \in {"armed", "over"}
  /\ Becomes(t, "over")
  /\ quiet' = quiet \cup {t}
  /\ UNCHANGED <<due, interval>>

TimePasses ==
  /\ due' = [t \in Timers |-> Later(due[t] - 1, 0 - MaxLag)]
  /\ UNCHANGED <<phase, interval, quiet>>

Next ==
  \/ \E t \in Timers :
       Arm(t) \/ Stop(t) \/ Run(t) \/ Repeat(t) \/ Finish(t) \/ CancelInCallback(t) \/ Cancel(t)
  \/ TimePasses

Spec == Init /\ [][Next]_vars
=============================================================================
