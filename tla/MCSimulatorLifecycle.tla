------------------------ MODULE MCSimulatorLifecycle ------------------------
(***************************************************************************)
(* Model-checking instance of SimulatorLifecycle: the tick counter is     *)
(* 3 bits wide, so that it wraps within every second or third dwell.      *)
(***************************************************************************)
EXTENDS SimulatorLifecycle
=============================================================================
