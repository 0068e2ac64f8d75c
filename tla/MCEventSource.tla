---------------------------- MODULE MCEventSource ----------------------------
(* An instance of the event source for TLC.                                *)
EXTENDS EventSource
=============================================================================
