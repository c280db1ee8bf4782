------------------------------ MODULE MCTimers ------------------------------
(* The timers alone. *)
EXTENDS BinaryHeapTimers

TimersSpec == TimersInit /\ [][TimersNext]_timerVars

=============================================================================
