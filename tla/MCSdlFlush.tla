----------------------------- MODULE MCSdlFlush -----------------------------
(***************************************************************************)
(* Model-checking instance of SdlFlush with the OD-1 panel height and the *)
(* simulator's 40-line draw buffer: eight bands.                          *)
(***************************************************************************)
EXTENDS SdlFlush
=============================================================================
