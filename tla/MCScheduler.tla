---------------------------- MODULE MCScheduler -----------------------------
(* Frames and calls of Scheduler as model values.                          *)
EXTENDS Scheduler

CONSTANTS f1, f2, r1
=============================================================================
