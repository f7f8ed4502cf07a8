------------------------------- MODULE MCKiosk -------------------------------
(* Model-checking instance of Kiosk, with the server of MCWsHandler. *)
EXTENDS Kiosk, MCWsHandler
=============================================================================
