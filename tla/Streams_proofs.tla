--------------------------- MODULE Streams_proofs ---------------------------
(***************************************************************************)
(* Proofs about the streams, for any set of streams and any number of      *)
(* calls.                                                                  *)
(***************************************************************************)
EXTENDS Streams, TLAPS

(***************************************************************************)
(* The inductive invariant, of each stream s and of the runtime.           *)
(***************************************************************************)
\* A stream that was not allocated is nowhere.
Unused(s) ==
  handle[s] = "none" =>
    /\ doing[s] = {} /\ usable[s] = {} /\ current # s
    /\ s \notin pinned /\ s \notin finalized /\ s \notin server /\ s \notin held
    /\ s \notin built /\ s \notin answering /\ s \notin settled

\* The handle stops at once, its requests when it is closed.
Ended(s) ==
  /\ handle[s] # "open" => "read" \notin doing[s] /\ "listen" \notin doing[s]
  /\ handle[s] \notin {"open", "closing"} =>
       /\ "connect" \notin doing[s] /\ "write" \notin doing[s]
       /\ "shutdown" \notin doing[s] /\ current # s

\* A wrapper that was collected left a handle that is closed, or is about to be, and
\* nothing refers to it.
Collected(s) ==
  /\ s \in finalized =>
       /\ handle[s] \in {"closing", "freed"}
       /\ "lookup" \notin doing[s] /\ s \notin pinned
       /\ phase \in {"running", "draining"} => s \notin held
  /\ handle[s] = "freed" => s \in finalized

\* A socket is looked up, then connects, then has its web streams, which read and
\* write; a server is looked up, then listens.
Staged(s) ==
  /\ "lookup" \in doing[s] => doing[s] = {"lookup"} /\ s \notin built
  /\ "connect" \in doing[s] => s \notin built /\ s \notin server
  /\ "listen" \in doing[s] => s \in server
  /\ "read" \in doing[s] \/ "write" \in doing[s] \/ "shutdown" \in doing[s] => s \in built
  /\ usable[s] # {} => s \in built
  /\ s \in built => s \notin server

Pinned(s) ==
  handle[s] = "open" /\ (Active(s) \/ "connect" \in doing[s]) => s \in pinned

Answered(s) == s \in answering => "write" \in doing[s] \/ s \in finalized

\* Both ends of the closed promise.
Pending(s) ==
  /\ handle[s] = "open" => s \notin settled
  /\ handle[s] = "open" /\ ("lookup" \in doing[s] \/ "connect" \in doing[s])
       => active[s] # {}
  /\ phase = "running" /\ s \notin finalized =>
       /\ s \in built \/ s \in server => (s \in settled <=> handle[s] # "open")
       /\ s \in built => (s \in settled <=> active[s] = {})

\* The engine was freed: who is not pinned was finalized.
Gone(s) ==
  /\ phase \in {"freed", "done"} => handle[s] = "none" \/ s \in finalized \/ s \in pinned
  /\ phase = "done" => handle[s] # "closing"

Local(s) ==
  /\ Unused(s) /\ Ended(s) /\ Collected(s) /\ Staged(s) /\ Pinned(s) /\ Answered(s)
  /\ Pending(s) /\ Gone(s)

\* The callback that runs.
Current ==
  /\ connected => current \in Streams /\ "connect" \notin doing[current]
  /\ phase \in {"freed", "done"} /\ current # None => current \in finalized
  /\ phase = "done" => current = None

Sound == TypeOK /\ Current /\ \A s \in Streams : Local(s)

----------------------------------------------------------------------------
\* The types, one set of streams at a time.
SetTypes ==
  /\ pinned \subseteq Streams /\ finalized \subseteq Streams /\ server \subseteq Streams
  /\ held \subseteq Streams /\ built \subseteq Streams /\ answering \subseteq Streams
  /\ settled \subseteq Streams
FunTypes ==
  /\ handle \in [Streams -> {"none", "open", "closing", "closed", "freed"}]
  /\ doing \in [Streams -> SUBSET ({"lookup", "read", "listen"} \cup Requests)]
  /\ active \in [Streams -> SUBSET {"readable", "writable", "accept"}]
  /\ usable \in [Streams -> SUBSET {"readable", "writable"}]
OtherTypes ==
  /\ current \in Streams \cup {None} /\ connected \in BOOLEAN
  /\ uncaught \in BOOLEAN /\ phase \in {"running", "draining", "freed", "done"}
CallTypes == calls \in 0..MaxCalls

\* TypeOK is these four.
LEMMA Types == TypeOK <=> SetTypes /\ FunTypes /\ OtherTypes /\ CallTypes
BY DEF TypeOK, SetTypes, FunTypes, OtherTypes, CallTypes

\* What every script call does and leaves alone.
Called ==
  /\ phase \in {"running", "draining"}
  /\ UNCHANGED <<current, connected, finalized, uncaught, phase>>

\* What is not the step of a script.
LoopStep ==
  \/ \E s \in Streams :
       \/ Looked(s) \/ RequestCb(s) \/ ReadCb(s) \/ CloseCb(s) \/ Collect(s)
       \/ \E t \in Streams : ConnectionCb(s, t)
  \/ CallbackEnd \/ FreeRuntime \/ FreeEngine \/ LoopClose

\* A script call stays below its bound.
LEMMA CallFacts == Calling /\ CallTypes => CallTypes' /\ Called
BY StreamsAssumption DEF Calling, Called, CallTypes

\* The invariant holds at first.
LEMMA InitSound == Init => Sound
<1> SUFFICES ASSUME Init PROVE Sound
  OBVIOUS
<1>1. SetTypes
  BY DEF Init, SetTypes
<1>2. FunTypes
  BY DEF Init, FunTypes
<1>3. OtherTypes
  BY DEF Init, OtherTypes
<1>4. CallTypes
  BY StreamsAssumption DEF Init, CallTypes
<1>5. Current
  BY DEF Init, Current
<1>6. \A s \in Streams : Local(s)
  BY StreamsAssumption DEF Init, Local, Unused, Ended, Collected, Staged, Pinned, Active,
         Answered, Pending, Gone
<1> QED
  BY <1>1, <1>2, <1>3, <1>4, <1>5, <1>6, Types DEF Sound

----------------------------------------------------------------------------
(* The types.                                                              *)

\* What is to be shown of a step.
TypesNext == SetTypes' /\ FunTypes' /\ OtherTypes' /\ CallTypes'

\* Every call of a script keeps the types.
LEMMA ScriptTypes ==
  ASSUME SetTypes, FunTypes, OtherTypes, CallTypes, NEW s \in Streams, Script(s)
  PROVE  TypesNext
<1>0. CallTypes' /\ Called
  BY CallFacts DEF Script, NewSocket, Abort, Close, Pull, Cancel, Write, EndWriting, Forget
<1> USE <1>0 DEF TypesNext, Called, SetTypes, FunTypes, OtherTypes, Requests
<1>1. ASSUME NEW isServer \in BOOLEAN, NewSocket(s, isServer) PROVE TypesNext
  BY <1>1 DEF NewSocket
<1>2. CASE Abort(s)
  BY <1>2 DEF Abort, GiveUp, CloseStream, CloseHandles
<1>3. CASE Close(s)
  BY <1>3 DEF Close, GiveUp, CloseStream, CloseHandles
<1>4. CASE Pull(s)
  BY <1>4 DEF Pull, StartRead
<1>5. CASE Cancel(s)
  BY <1>5 DEF Cancel, CloseHalf, BothOver, Halted, Unpinned
<1>6. CASE Write(s)
  BY <1>6 DEF Write
<1>7. CASE EndWriting(s)
  BY <1>7 DEF EndWriting, CloseHalf, BothOver, Shut
<1>8. CASE Forget(s)
  BY <1>8 DEF Forget
<1> QED
  BY <1>1, <1>2, <1>3, <1>4, <1>5, <1>6, <1>7, <1>8 DEF Script

\* So does every step of the loop, the collector and the teardown.
LEMMA LoopTypes ==
  ASSUME SetTypes, FunTypes, OtherTypes, CallTypes, LoopStep
  PROVE  TypesNext
<1>0. CallTypes'
  BY DEF LoopStep, RequestCb, Looked, ConnectCb, ReadCb, WriteCb, ShutdownCb, ConnectionCb,
         CloseCb, Collect, CallbackEnd, FreeRuntime, FreeEngine, LoopClose, Callback,
         CallTypes
<1> USE <1>0 DEF TypesNext, SetTypes, FunTypes, OtherTypes, Requests, nativeVars, socketVars
<1>1. ASSUME NEW s \in Streams, Looked(s) PROVE TypesNext
  BY <1>1 DEF Looked, Done
<1>2. ASSUME NEW s \in Streams, ConnectCb(s) PROVE TypesNext
  BY <1>2 DEF ConnectCb, Callback, Done
<1>3. ASSUME NEW s \in Streams, ReadCb(s) PROVE TypesNext
  BY <1>3 DEF ReadCb, Callback, CloseHalf, BothOver, Halted, Unpinned
<1>4. ASSUME NEW s \in Streams, WriteCb(s) PROVE TypesNext
  BY <1>4 DEF WriteCb, Callback, Dispatches, CloseHalf, BothOver, Shut, Done
<1>5. ASSUME NEW s \in Streams, ShutdownCb(s) PROVE TypesNext
  BY <1>5 DEF ShutdownCb, Callback, Done
<1>6. ASSUME NEW s \in Streams, CloseCb(s) PROVE TypesNext
  BY <1>6 DEF CloseCb
<1>7. ASSUME NEW s \in Streams, Collect(s) PROVE TypesNext
  BY <1>7 DEF Collect, Garbage, Created, Finalize, Quiet
<1>8. ASSUME NEW s \in Streams, NEW t \in Streams, ConnectionCb(s, t) PROVE TypesNext
  <2>1. FunTypes'
    BY <1>8 DEF ConnectionCb
  <2>2. SetTypes' /\ OtherTypes'
    BY <1>8 DEF ConnectionCb
  <2> QED
    BY <2>1, <2>2
<1>9. CASE CallbackEnd
  BY <1>9 DEF CallbackEnd, Unpins
<1>10. CASE FreeRuntime
  BY <1>10 DEF FreeRuntime, Created, Detached, Finalize, Quiet
<1>11. CASE FreeEngine
  BY <1>11 DEF FreeEngine, Created, Finalize, Quiet
<1>12. CASE LoopClose
  BY <1>12 DEF LoopClose
<1> QED
  BY <1>1, <1>2, <1>3, <1>4, <1>5, <1>6, <1>7, <1>8, <1>9, <1>10, <1>11, <1>12
  DEF LoopStep, RequestCb

----------------------------------------------------------------------------
(* The rest of the invariant.                                              *)

\* The same, of the rest.
Kept == Current' /\ \A x \in Streams : Local(x)'

\* Every call of a script keeps the invariant.
LEMMA ScriptSound ==
  ASSUME Sound, NEW s \in Streams, Script(s)
  PROVE  Kept
<1>0. SetTypes /\ FunTypes /\ OtherTypes /\ Called
  BY Types, CallFacts DEF Sound, Script, NewSocket, Abort, Close, Pull, Cancel, Write,
     EndWriting, Forget
<1>1. Current /\ \A x \in Streams : Local(x)
  BY DEF Sound
<1> USE <1>0, <1>1 DEF Kept, Called, SetTypes, FunTypes, OtherTypes, Requests, Current, Local,
    Unused, Ended, Collected, Staged, Pinned, Active, Answered, Pending, Gone
<1>2. ASSUME NEW isServer \in BOOLEAN, NewSocket(s, isServer) PROVE Kept
  BY <1>2 DEF NewSocket
<1>3. CASE Abort(s)
  BY <1>3 DEF Abort, GiveUp, CloseStream, CloseHandles
<1>4. CASE Close(s)
  BY <1>4 DEF Close, GiveUp, CloseStream, CloseHandles
<1>5. CASE Pull(s)
  BY <1>5 DEF Pull, StartRead
<1>6. CASE Cancel(s)
  BY <1>6 DEF Cancel, CloseHalf, BothOver, Halted, Unpinned
<1>7. CASE Write(s)
  BY <1>7 DEF Write
<1>8. CASE EndWriting(s)
  BY <1>8 DEF EndWriting, CloseHalf, BothOver, Shut
<1>9. CASE Forget(s)
  BY <1>9 DEF Forget
<1> QED
  BY <1>2, <1>3, <1>4, <1>5, <1>6, <1>7, <1>8, <1>9 DEF Script

\* So does every step of the loop, the collector and the teardown.
LEMMA LoopSound ==
  ASSUME Sound, LoopStep
  PROVE  Kept
<1>0. SetTypes /\ FunTypes /\ OtherTypes
  BY Types DEF Sound
<1>1. Current /\ \A s \in Streams : Local(s)
  BY DEF Sound
<1>2. None \notin Streams
  BY StreamsAssumption
<1> USE <1>0, <1>1, <1>2 DEF Kept, SetTypes, FunTypes, OtherTypes, Requests, Current, Local,
    Unused, Ended, Collected, Staged, Pinned, Active, Answered, Pending, Gone,
    nativeVars, socketVars
<1>3. ASSUME NEW s \in Streams, Looked(s) PROVE Kept
  BY <1>3 DEF Looked, Done
<1>4. ASSUME NEW s \in Streams, ConnectCb(s) PROVE Kept
  BY <1>4 DEF ConnectCb, Callback, Done
<1>5. ASSUME NEW s \in Streams, ReadCb(s) PROVE Kept
  BY <1>5 DEF ReadCb, Callback, CloseHalf, BothOver, Halted, Unpinned
<1>6. ASSUME NEW s \in Streams, WriteCb(s) PROVE Kept
  BY <1>6 DEF WriteCb, Callback, Dispatches, CloseHalf, BothOver, Shut, Done
<1>7. ASSUME NEW s \in Streams, ShutdownCb(s) PROVE Kept
  BY <1>7 DEF ShutdownCb, Callback, Done
<1>8. ASSUME NEW s \in Streams, CloseCb(s) PROVE Kept
  BY <1>8 DEF CloseCb
<1>9. ASSUME NEW s \in Streams, Collect(s) PROVE Kept
  <2>1. Current'
    BY <1>9 DEF Collect, Quiet
  <2>2. ASSUME NEW x \in Streams PROVE Local(x)'
    BY <1>9, <2>2 DEF Collect, Garbage, Created, Finalize, Quiet
  <2> QED
    BY <2>1, <2>2
<1>10. ASSUME NEW s \in Streams, NEW t \in Streams, ConnectionCb(s, t) PROVE Kept
  BY <1>10 DEF ConnectionCb
<1>11. CASE CallbackEnd
  BY <1>11 DEF CallbackEnd, Unpins
<1>12. CASE FreeRuntime
  BY <1>12 DEF FreeRuntime, Created, Detached, Finalize, Quiet
<1>13. CASE FreeEngine
  BY <1>13 DEF FreeEngine, Created, Finalize, Quiet, DrainOver
<1>14. CASE LoopClose
  BY <1>14 DEF LoopClose
<1> QED
  BY <1>3, <1>4, <1>5, <1>6, <1>7, <1>8, <1>9, <1>10, <1>11, <1>12, <1>13, <1>14
  DEF LoopStep, RequestCb

\* Every step keeps the invariant.
LEMMA NextSound == Sound /\ [Next]_vars => Sound'
<1>1. ASSUME Sound, NEW s \in Streams, Script(s)
      PROVE  Sound'
  <2>1. SetTypes /\ FunTypes /\ OtherTypes /\ CallTypes
    BY <1>1, Types DEF Sound
  <2>2. TypeOK'
    BY <1>1, <2>1, ScriptTypes
       DEF TypesNext, TypeOK, SetTypes, FunTypes, OtherTypes, CallTypes
  <2>3. Kept
    BY <1>1, ScriptSound
  <2> QED
    BY <2>2, <2>3 DEF Sound, Kept
<1>2. ASSUME Sound, LoopStep
      PROVE  Sound'
  <2>1. SetTypes /\ FunTypes /\ OtherTypes /\ CallTypes
    BY <1>2, Types DEF Sound
  <2>2. TypeOK'
    BY <1>2, <2>1, LoopTypes
       DEF TypesNext, TypeOK, SetTypes, FunTypes, OtherTypes, CallTypes
  <2>3. Kept
    BY <1>2, LoopSound
  <2> QED
    BY <2>2, <2>3 DEF Sound, Kept
<1>3. ASSUME Sound, UNCHANGED vars
      PROVE  Sound'
  BY <1>3 DEF vars, nativeVars, socketVars, Sound, TypeOK, Current, Local, Unused, Ended,
     Collected, Staged, Pinned, Active, Answered, Pending, Gone
<1> QED
  BY <1>1, <1>2, <1>3 DEF Next, LoopStep

\* It always holds.
LEMMA Invariance == Spec => []Sound
BY InitSound, NextSound, PTL DEF Spec

----------------------------------------------------------------------------
\* Whatever scripts, the network and the collector do, a stream that connects, reads or
\* listens has its pin, and a pinned wrapper is not collected (mod_streams.c:402-424,
\* 523-540).
THEOREM ActivesPinned == Spec => []ActivePinned
<1>1. Sound => ActivePinned
  BY DEF Sound, TypeOK, Local, Pinned, Collected, ActivePinned
<1> QED
  BY <1>1, Invariance, PTL

\* The struct of a stream outlives its requests, its watchers and the callback that
\* runs (mod_streams.c:73-80, 523-540).
THEOREM StructsAlive == Spec => []StructAlive
<1>1. Sound => StructAlive
  <2> SUFFICES ASSUME Sound, NEW s \in Streams, handle[s] = "freed"
               PROVE  current # s /\ doing[s] = {}
    BY DEF StructAlive
  <2>1. doing[s] \subseteq {"lookup", "read", "listen", "connect", "write", "shutdown"}
    BY DEF Sound, TypeOK, Requests
  <2>2. s \in finalized
    BY DEF Sound, Local, Collected
  <2> QED
    BY <2>1, <2>2 DEF Sound, Local, Ended, Collected
<1> QED
  BY <1>1, Invariance, PTL

\* No write promise is forgotten while there is a wrapper, also when the handle is
\* closed with the write in flight (mod_streams.c:94-117, 269-286).
THEOREM AllWritesAnswered == Spec => []WritesAnswered
<1>1. Sound => WritesAnswered
  BY DEF Sound, TypeOK, Local, Answered, WritesAnswered
<1> QED
  BY <1>1, Invariance, PTL

\* The closed promise and the handle agree, in whatever order the halves end
\* (direct-sockets/utils.js:134-176, 267-272).
THEOREM ClosedIsSettled == Spec => []ClosedSettled
<1>1. Sound => ClosedSettled
  BY DEF Sound, TypeOK, Local, Pending, ClosedSettled
<1> QED
  BY <1>1, Invariance, PTL

\* When the loop is closed every handle is closed and every struct freed, but for the
\* pins that were taken while the loop was drained (vm.c:655-778).
THEOREM EverythingFreed == Spec => []AllFreed
<1>1. Sound => AllFreed
  BY DEF Sound, Local, Gone, Collected, AllFreed, Created
<1> QED
  BY <1>1, Invariance, PTL

\* Pins and structs live as long as they are needed and no longer, for any mix of calls,
\* events, collections and teardown (mod_streams.c:402-424, 523-540; vm.c:655-778).
THEOREM PinsHold == Spec => []Pins
BY ActivesPinned, StructsAlive, EverythingFreed, PTL DEF Pins

=============================================================================
