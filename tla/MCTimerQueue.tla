---------------------------- MODULE MCTimerQueue ----------------------------
(* Instances of TimerQueue for TLC.                                        *)
EXTENDS TimerQueue

(* A due time in the past, which QueueTimer clamps, and one in the future. *)
MCDelays == {0 - 2, 1}
=============================================================================
