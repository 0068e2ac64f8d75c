---------------------------- MODULE MCBroadcast -----------------------------
(* Instances of BroadcastChannel for TLC.                                  *)
EXTENDS Broadcast, TLC

\* The threads that are never freed, the mortal ones, the channels and the names
\* can be exchanged (the order of the list is not part of the state).
Symmetry ==
  Permutations(Mortal) \cup Permutations(Threads \ Mortal)
  \cup Permutations(Channels) \cup Permutations(Names)

=============================================================================
