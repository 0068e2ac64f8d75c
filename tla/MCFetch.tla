------------------------------ MODULE MCFetch ------------------------------
(* An instance of a request for TLC.                                      *)
EXTENDS Fetch
=============================================================================
