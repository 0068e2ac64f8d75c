------------------------------ MODULE Streams -------------------------------
(***************************************************************************)
(* TCP and pipe sockets of one runtime: the native streams                 *)
(* (src/src/mod_streams.c) under the sockets and servers of                *)
(* src/src/js/core/direct-sockets, with the pins that keep a wrapper alive *)
(* (src/src/vm.c), the garbage collector and the teardown.                 *)
(*                                                                         *)
(* One thread: callbacks of libuv run one after the other, and scripts run *)
(* between callbacks or in one.  A callback is two steps, up to the end of *)
(* its handler and the rest, so scripts and collections fall in between.   *)
(* Bytes, addresses and errors are left out, and so is the order of        *)
(* callbacks of one turn of the loop.                                      *)
(***************************************************************************)
EXTENDS Integers, FiniteSets

CONSTANTS
  Streams,  \* TJSStream allocations, each used once
  None,
  MaxCalls  \* bound: what scripts call

ASSUME StreamsAssumption == None \notin Streams /\ MaxCalls \in Nat

VARIABLES
  \* TJSStream and libuv's part of it
  handle,     \* "none", "open", "closing", "closed", "freed" (the struct too)
  doing,      \* "lookup" (of the socket), "connect", "write" and "shutdown"
              \* (requests), "read" and "listen" (the handle is active)
  pinned,     \* streams with a pin, which are those in qrt->handle_pins
  finalized,  \* streams whose wrapper was collected
  current,    \* the stream whose callback is running, or None
  connected,  \* that callback is uv__stream_connect_cb
  \* BaseStreamSocket and BaseStreamServerSocket
  server,     \* the streams of servers
  held,       \* sockets a script can reach
  built,      \* sockets whose web streams were made
  active,     \* #readableActive, #writableActive and, of a server, #active
  usable,     \* the web streams that are neither closed nor errored
  answering,  \* sockets with a #pendingWrite
  settled,    \* sockets whose closed promise is settled
  \* the runtime
  uncaught,   \* an exception in a handler: TJS_Stop
  phase,      \* "running", "draining" (TJS_FreeRuntime runs the loop),
              \* "freed" (the engine is), "done" (the loop is closed)
  calls

nativeVars == <<handle, doing, pinned, finalized, current, connected>>
socketVars == <<server, held, built, active, usable, answering, settled>>
vars == <<nativeVars, socketVars, uncaught, phase, calls>>

Requests == {"connect", "write", "shutdown"}
Active(s) == doing[s] \cap {"read", "listen"} # {}   \* uv_is_active
Created == {s \in Streams : handle[s] # "none"}
Dead == {s \in Streams : handle[s] \in {"closed", "freed"}}

----------------------------------------------------------------------------
\* uv_close of the streams in S that are not closing yet.
CloseHandles(S) ==
  /\ handle' = [s \in Streams |-> IF s \in S /\ handle[s] = "open" THEN "closing"
                                  ELSE handle[s]]
  /\ doing' = [s \in Streams |-> IF s \in S THEN doing[s] \ {"read", "listen"}
                                 ELSE doing[s]]

\* uv_read_start and the pin; it throws on a handle that is closed.
StartRead(s) ==
  /\ doing' = [doing EXCEPT ![s] = @ \cup {"read"}]
  /\ pinned' = pinned \cup {s}

\* tjs_stream_close, which every end of a socket comes to: it drops the pin.
CloseStream(s) == CloseHandles({s}) /\ pinned' = pinned \ {s}

\* tjs_stream_stop_read: it drops the pin, unless the handle is closed.
Halted(s) == [doing EXCEPT ![s] = @ \ {"read"}]
Unpinned(s) == IF handle[s] = "open" THEN pinned \ {s} ELSE pinned

\* #handleClosingReadable and #handleClosingWritable with #maybeClose: the second
\* of them closes the handle and settles the closed promise.  The operations
\* that lead here leave doing[s] as busy[s] and the pins as pins.
\* Mutant: the readable half alone closes the handle.
EitherOver(s, half) == half \in active[s]
BothOver(s, half) == active[s] = {half}
CloseHalf(s, half, busy, pins) ==
  /\ active' = [active EXCEPT ![s] = @ \ {half}]
  /\ IF BothOver(s, half)
     THEN /\ handle' = [handle EXCEPT ![s] = IF @ = "open" THEN "closing" ELSE @]
          /\ doing' = [busy EXCEPT ![s] = @ \ {"read"}]
          /\ pinned' = pins \ {s}
          /\ settled' = settled \cup {s}
     ELSE /\ doing' = busy /\ pinned' = pins
          /\ UNCHANGED <<handle, settled>>

\* silentClose and kRejectClosed of a socket or a server that did not open.
GiveUp(s) == CloseStream(s) /\ settled' = settled \cup {s}

----------------------------------------------------------------------------
\* What scripts call: between callbacks or in one.
Calling ==
  /\ phase = "draining" => current # None
  /\ phase \in {"running", "draining"}
  /\ calls < MaxCalls /\ calls' = calls + 1
  /\ UNCHANGED <<current, connected, finalized, uncaught, phase>>

\* new TCPSocket, new TCPServerSocket; those of pipes take no lookup, which is one
\* that ends at once.
NewSocket(s, isServer) ==
  /\ Calling
  /\ handle[s] = "none" /\ handle' = [handle EXCEPT ![s] = "open"]
  /\ doing' = [doing EXCEPT ![s] = {"lookup"}]
  /\ held' = held \cup {s}
  /\ server' = IF isServer THEN server \cup {s} ELSE server
  /\ active' = [active EXCEPT ![s] = IF isServer THEN {"accept"}
                                     ELSE {"readable", "writable"}]
  /\ UNCHANGED <<pinned, built, usable, answering, settled>>

\* The signal of an open socket is aborted while it connects.
Abort(s) ==
  /\ Calling
  /\ handle[s] = "open" /\ "connect" \in doing[s]
  /\ GiveUp(s)
  /\ UNCHANGED <<server, held, built, active, usable, answering>>

\* close() of a socket or a server.
Close(s) ==
  /\ Calling
  /\ s \in held /\ active[s] # {}
  /\ active' = [active EXCEPT ![s] = {}]
  /\ GiveUp(s)
  /\ UNCHANGED <<server, held, built, usable, answering>>

\* pull() of the readable stream; startRead throws if the handle is closed, and may
\* throw if it is not.
Pull(s) ==
  /\ Calling
  /\ s \in held /\ "readable" \in usable[s] /\ "read" \notin doing[s]
  /\ \/ /\ handle[s] = "open"
        /\ StartRead(s)
        /\ UNCHANGED usable
     \/ /\ usable' = [usable EXCEPT ![s] = @ \ {"readable"}]
        /\ UNCHANGED <<doing, pinned>>
  /\ UNCHANGED <<handle, server, held, built, active, answering, settled>>

\* cancel() of the readable stream.
Cancel(s) ==
  /\ Calling
  /\ s \in held /\ "readable" \in usable[s]
  /\ usable' = [usable EXCEPT ![s] = @ \ {"readable"}]
  /\ CloseHalf(s, "readable", Halted(s),
               IF "read" \in doing[s] THEN Unpinned(s) ELSE pinned)
  /\ UNCHANGED <<server, held, built, answering>>

\* A chunk for the writable stream that is not written at once; write throws if the
\* handle is closed, and may throw if it is not.  The web stream writes one chunk
\* after the other.
Write(s) ==
  /\ Calling
  /\ s \in held /\ "writable" \in usable[s] /\ s \notin answering
  /\ \/ /\ handle[s] = "open"
        /\ doing' = [doing EXCEPT ![s] = @ \cup {"write"}]
        /\ answering' = answering \cup {s}
        /\ UNCHANGED usable
     \/ /\ usable' = [usable EXCEPT ![s] = @ \ {"writable"}]
        /\ UNCHANGED <<doing, answering>>
  /\ UNCHANGED <<handle, pinned, server, held, built, active, settled>>

\* uv_shutdown, which throws on a closed handle and may throw on an open one.
Shut(s) == IF handle[s] = "open"
           THEN {doing, [doing EXCEPT ![s] = @ \cup {"shutdown"}]}
           ELSE {doing}

\* close() or abort() of the writable stream, which waits for its writes.
EndWriting(s) ==
  /\ Calling
  /\ s \in held /\ "writable" \in usable[s] /\ s \notin answering
  /\ usable' = [usable EXCEPT ![s] = @ \ {"writable"}]
  /\ \E busy \in Shut(s) : CloseHalf(s, "writable", busy, pinned)
  /\ UNCHANGED <<server, held, built, answering>>

\* The last reference of the script goes.
Forget(s) ==
  /\ Calling
  /\ s \in held /\ held' = held \ {s}
  /\ UNCHANGED <<handle, doing, pinned, server, built, active, usable, answering,
                 settled>>

----------------------------------------------------------------------------
\* Callbacks of the loop.  A stream that outlives the engine (its pin was taken
\* while the loop was drained) is not followed any further.
Callback(s) ==
  /\ phase # "done" /\ (phase = "freed" => s \in finalized)
  /\ current = None /\ current' = s
  /\ UNCHANGED <<server, held, finalized, phase, calls>>

Done(s, what) == [doing EXCEPT ![s] = @ \ {what}]

\* The lookup ends, which is no callback of the stream: the socket connects, the
\* server binds and listens; or something fails, a closed handle included.
Looked(s) ==
  /\ phase \in {"running", "draining"} /\ current = None
  /\ "lookup" \in doing[s]
  /\ \/ /\ handle[s] = "open"
        /\ doing' = [doing EXCEPT ![s] = IF s \in server THEN {"listen"} ELSE {"connect"}]
        /\ pinned' = pinned \cup {s}
        /\ UNCHANGED <<handle, active, settled>>
     \/ /\ handle' = [handle EXCEPT ![s] = IF @ = "open" THEN "closing" ELSE @]
        /\ doing' = Done(s, "lookup") /\ pinned' = pinned \ {s}
        /\ settled' = settled \cup {s}
        /\ UNCHANGED active
  /\ UNCHANGED <<finalized, current, connected, server, held, built, usable, answering,
                 uncaught, phase, calls>>

\* uv__stream_connect_cb up to the end of the handler and of the jobs it queued:
\* the web streams are made and reading starts, or something failed.
ConnectCb(s) ==
  /\ Callback(s)
  /\ "connect" \in doing[s]
  /\ connected' = TRUE
  /\ IF s \in finalized
     THEN /\ doing' = Done(s, "connect")
          /\ UNCHANGED <<handle, pinned, built, usable, settled>>
     ELSE \/ /\ handle[s] = "open"
             /\ doing' = [doing EXCEPT ![s] = (@ \ {"connect"}) \cup {"read"}]
             /\ pinned' = pinned \cup {s}
             /\ built' = built \cup {s}
             /\ usable' = [usable EXCEPT ![s] = {"readable", "writable"}]
             /\ UNCHANGED <<handle, settled>>
          \/ /\ handle' = [handle EXCEPT ![s] = IF @ = "open" THEN "closing" ELSE @]
             /\ doing' = Done(s, "connect") /\ pinned' = pinned \ {s}
             /\ settled' = settled \cup {s}
             /\ UNCHANGED <<built, usable>>
  /\ UNCHANGED <<active, answering, uncaught>>

\* What a callback does after its handler: that of a connect drops the pin unless
\* the handle became active.
Unpins(s) == ~Active(s)
CallbackEnd ==
  /\ current # None
  /\ pinned' = IF connected /\ Unpins(current) THEN pinned \ {current} ELSE pinned
  /\ current' = None /\ connected' = FALSE
  /\ UNCHANGED <<handle, doing, finalized, socketVars, uncaught, phase, calls>>

\* onread: a chunk that fills the queue stops the reading, the end or an error does
\* and ends the readable half.  A chunk that leaves room changes nothing here.
ReadCb(s) ==
  /\ Callback(s)
  /\ "read" \in doing[s]
  /\ \/ /\ doing' = Halted(s) /\ pinned' = Unpinned(s)
        /\ UNCHANGED <<handle, active, usable, settled>>
     \/ /\ usable' = [usable EXCEPT ![s] = @ \ {"readable"}]
        /\ CloseHalf(s, "readable", Halted(s), Unpinned(s))
  /\ UNCHANGED <<connected, built, answering, uncaught>>

\* uv__stream_write_cb and onwrite.  A write that fails errors the writable stream,
\* whose abort() is called only if a script asked for it before.
\* maybe_invoke_callback passes over a finalized stream; mutant: over a closed one.
DispatchesOpen(s) == handle[s] = "open"
Dispatches(s) == s \notin finalized
WriteCb(s) ==
  /\ Callback(s)
  /\ "write" \in doing[s]
  /\ IF ~Dispatches(s)
     THEN /\ doing' = Done(s, "write")
          /\ UNCHANGED <<handle, pinned, active, usable, answering, settled>>
     ELSE /\ answering' = answering \ {s}
          /\ \/ /\ handle[s] = "open" /\ doing' = Done(s, "write")
                /\ UNCHANGED <<handle, pinned, active, usable, settled>>
             \/ /\ usable' = [usable EXCEPT ![s] = @ \ {"writable"}]
                /\ doing' = Done(s, "write")
                /\ UNCHANGED <<handle, pinned, active, settled>>
             \/ /\ "writable" \in usable[s]
                /\ usable' = [usable EXCEPT ![s] = @ \ {"writable"}]
                /\ \E busy \in Shut(s) :
                     CloseHalf(s, "writable", [busy EXCEPT ![s] = @ \ {"write"}], pinned)
  /\ UNCHANGED <<connected, built, uncaught>>

\* uv__stream_shutdown_cb; no socket sets the handler.
ShutdownCb(s) ==
  /\ Callback(s)
  /\ "shutdown" \in doing[s] /\ doing' = Done(s, "shutdown")
  /\ UNCHANGED <<handle, pinned, connected, built, active, usable, answering, settled,
                 uncaught>>

\* uv__stream_connection_cb of server s with stream t for the client: it becomes a
\* socket that reads; or uv_accept fails and t is dropped; or getpeername throws,
\* the client being gone, and nothing catches that.
ConnectionCb(s, t) ==
  /\ current = None /\ phase \in {"running", "draining"}
  /\ "listen" \in doing[s] /\ handle[t] = "none"
  /\ current' = s
  /\ \/ /\ handle' = [handle EXCEPT ![t] = "open"]
        /\ doing' = [doing EXCEPT ![t] = {"read"}] /\ pinned' = pinned \cup {t}
        /\ held' = held \cup {t} /\ built' = built \cup {t}
        /\ active' = [active EXCEPT ![t] = {"readable", "writable"}]
        /\ usable' = [usable EXCEPT ![t] = {"readable", "writable"}]
        /\ UNCHANGED <<finalized, uncaught>>
     \/ /\ handle' = [handle EXCEPT ![t] = "closing"]
        /\ finalized' = finalized \cup {t}
        /\ UNCHANGED <<doing, pinned, held, built, active, usable, uncaught>>
     \/ /\ handle' = [handle EXCEPT ![t] = "open"]
        /\ uncaught' = TRUE
        /\ UNCHANGED <<doing, pinned, finalized, held, built, active, usable>>
  /\ UNCHANGED <<connected, server, answering, settled, phase, calls>>

\* uv__stream_close_cb, after the requests of the handle were canceled.
CloseCb(s) ==
  /\ current = None /\ phase # "done"
  /\ handle[s] = "closing" /\ doing[s] \cap Requests = {}
  /\ handle' = [handle EXCEPT ![s] = IF s \in finalized THEN "freed" ELSE "closed"]
  /\ UNCHANGED <<doing, pinned, finalized, current, connected, socketVars, uncaught,
                 phase, calls>>

----------------------------------------------------------------------------
\* tjs_stream_finalizer of the streams in S.  Mutant: it frees them at once.
FinalizeAtOnce(S, h) == [s \in Streams |-> IF s \in S THEN "freed" ELSE h[s]]
Finalize(S, h) ==
  [s \in Streams |-> IF s \notin S THEN h[s]
                     ELSE CASE h[s] = "open" -> "closing"
                            [] h[s] = "closed" -> "freed"
                            [] OTHER -> h[s]]
Quiet(S) == [s \in Streams |-> IF s \in S THEN doing[s] \ {"read", "listen"} ELSE doing[s]]

\* What the collector frees, at any time: what no script, no pin and no lookup holds.
Garbage == {s \in Created \ finalized : s \notin held \cup pinned /\ "lookup" \notin doing[s]}
Collect(s) ==
  /\ phase \in {"running", "draining"}
  /\ s \in Garbage
  /\ finalized' = finalized \cup {s}
  /\ handle' = Finalize({s}, handle) /\ doing' = Quiet({s})
  /\ UNCHANGED <<pinned, current, connected, socketVars, uncaught, phase, calls>>

\* TJS_FreeRuntime up to the first turn of the loop: every pinned stream is
\* detached, the pins go, and the garbage is collected.
Detached == pinned
FreeRuntime ==
  /\ phase = "running" /\ current = None
  /\ phase' = "draining"
  /\ LET gone == {s \in Created \ finalized : s \notin held /\ "lookup" \notin doing[s]}
         shut == [s \in Streams |-> IF s \in Detached /\ handle[s] = "open" THEN "closing"
                                    ELSE handle[s]]
     IN  /\ finalized' = finalized \cup gone
         /\ handle' = Finalize(gone, shut)
         /\ doing' = Quiet(Detached \cup gone)
  /\ pinned' = {}
  /\ UNCHANGED <<current, connected, socketVars, uncaught, calls>>

\* The drain has a bound (32 turns), enough for every handle that is closing.
\* Mutant: it goes on while the loop is alive.
LoopDead == \A s \in Streams : handle[s] # "closing" /\ doing[s] = {}
DrainOver == \A s \in Streams : handle[s] # "closing"

\* The engine is freed, and every wrapper that nothing holds with it.
FreeEngine ==
  /\ phase = "draining" /\ current = None
  /\ DrainOver
  /\ phase' = "freed"
  /\ LET gone == Created \ (finalized \cup pinned)
     IN  /\ finalized' = finalized \cup gone
         /\ handle' = Finalize(gone, handle)
         /\ doing' = [s \in Streams |-> Quiet(gone)[s] \ {"lookup"}]
  /\ UNCHANGED <<pinned, current, connected, socketVars, uncaught, calls>>

\* uv_loop_close, after at most five turns of the loop.
LoopClose ==
  /\ phase = "freed" /\ current = None
  /\ \A s \in Streams : handle[s] # "closing"
  /\ phase' = "done"
  /\ UNCHANGED <<nativeVars, socketVars, uncaught, calls>>

----------------------------------------------------------------------------
Init ==
  /\ handle = [s \in Streams |-> "none"] /\ doing = [s \in Streams |-> {}]
  /\ pinned = {} /\ finalized = {} /\ current = None /\ connected = FALSE
  /\ server = {} /\ held = {} /\ built = {} /\ answering = {} /\ settled = {}
  /\ active = [s \in Streams |-> {}] /\ usable = [s \in Streams |-> {}]
  /\ uncaught = FALSE /\ phase = "running" /\ calls = 0

Script(s) ==
  \/ \E isServer \in BOOLEAN : NewSocket(s, isServer)
  \/ Abort(s) \/ Close(s) \/ Pull(s) \/ Cancel(s) \/ Write(s) \/ EndWriting(s)
  \/ Forget(s)

RequestCb(s) == ConnectCb(s) \/ WriteCb(s) \/ ShutdownCb(s)

Next ==
  \/ \E s \in Streams :
       \/ Script(s) \/ Looked(s) \/ RequestCb(s) \/ ReadCb(s) \/ CloseCb(s) \/ Collect(s)
       \/ \E t \in Streams : ConnectionCb(s, t)
  \/ CallbackEnd \/ FreeRuntime \/ FreeEngine \/ LoopClose

Spec == Init /\ [][Next]_vars

\* The loop takes a handle that is closing to its close callback, and the teardown
\* goes on; whether the network answers an open handle is not assumed.
Turn ==
  \/ \E s \in Streams : CloseCb(s) \/ (handle[s] = "closing" /\ RequestCb(s))
  \/ CallbackEnd \/ FreeEngine \/ LoopClose
FairSpec == Spec /\ WF_vars(Turn)

----------------------------------------------------------------------------
TypeOK ==
  /\ handle \in [Streams -> {"none", "open", "closing", "closed", "freed"}]
  /\ doing \in [Streams -> SUBSET ({"lookup", "read", "listen"} \cup Requests)]
  /\ {pinned, finalized, server, held, built, answering, settled} \subseteq SUBSET Streams
  /\ current \in Streams \cup {None} /\ connected \in BOOLEAN
  /\ active \in [Streams -> SUBSET {"readable", "writable", "accept"}]
  /\ usable \in [Streams -> SUBSET {"readable", "writable"}]
  /\ uncaught \in BOOLEAN /\ phase \in {"running", "draining", "freed", "done"}
  /\ calls \in 0..MaxCalls

\* A stream that connects, reads or listens is pinned, so that no collection ends
\* it and the teardown finds it; in the drain too, where it was pinned since.
\* The wrapper of a pinned stream is there: the check of the finalizer (line 527).
ActivePinned ==
  /\ \A s \in Streams :
       handle[s] = "open" /\ (Active(s) \/ "connect" \in doing[s]) => s \in pinned
  /\ pinned \cap finalized = {}

\* No callback is owed to, or runs on, a stream whose struct was freed.
StructAlive == \A s \in Streams : handle[s] = "freed" => current # s /\ doing[s] = {}

\* The promise of a write is settled when its request ends, closed handle or not:
\* there is always a request that will, or nobody is left to see it.
WritesAnswered == answering \subseteq {s \in Streams : "write" \in doing[s]} \cup finalized

\* The closed promise of an open socket is settled exactly when both halves are
\* over, by close(), by the peer or by the web streams, and then the handle is
\* closed; that of a server when it was closed.
ClosedSettled ==
  phase = "running" =>
    /\ \A s \in (built \cup server) \ finalized : s \in settled <=> handle[s] # "open"
    /\ \A s \in built \ finalized : s \in settled <=> active[s] = {}

\* "Cleanup loop. All handles should be closed." (vm.c:759), and every struct is
\* freed; except for what was pinned while the loop was drained.
AllFreed == phase = "done" => \A s \in Created \ pinned : handle[s] = "freed"

\* The teardown ends, also if a peer never takes what was written.
TeardownEnds == phase = "draining" ~> phase = "done"

\* Pins: a stream with something under way is pinned, no callback meets a struct that
\* was freed, and none is left when the teardown is done.
Pins == ActivePinned /\ StructAlive /\ AllFreed

=============================================================================
