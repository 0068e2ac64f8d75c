------------------------------ MODULE MCLibuv -------------------------------
(* Instances of the two components that keep tables of libuv handles, the  *)
(* timers and the event library of lws, for TLC.  They share no state, so  *)
(* one run explores them one beside the other: a behaviour is one of       *)
(* either, while the other waits in its initial state.                     *)
EXTENDS Timers, EvLib, TLC

CONSTANTS m1, m2, m3, a, b

MCDelays == {-1, 0, 1}

VARIABLE component

MCInit == component \in {"timers", "evlib"} /\ TimersInit /\ Init

MCNext ==
  /\ UNCHANGED component
  /\ \/ component = "timers" /\ TimersNext /\ UNCHANGED vars
     \/ component = "evlib" /\ Next /\ UNCHANGED timersVars

MCSpec == MCInit /\ [][MCNext]_<<component, timersVars, vars>>

\* Timers, descriptors and wsis are interchangeable; m1 to m3 are the timers of the one
\* component and the descriptors of the other.
Symmetry == Permutations({m1, m2, m3}) \cup Permutations({a, b})

=============================================================================
