---------------------------- MODULE MCEventLoop -----------------------------
(* Instances of the event loop for TLC.                                    *)
EXTENDS EventLoop, TLC

Symmetry == Permutations(Promises)

=============================================================================
