----------------------------- MODULE MCStreams ------------------------------
(* Instances of the streams for TLC.                                       *)
EXTENDS Streams, TLC

Symmetry == Permutations(Streams)

=============================================================================
