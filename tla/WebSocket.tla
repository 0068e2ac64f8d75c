------------------------------ MODULE WebSocket ------------------------------
(***************************************************************************)
(* WebSocket and WebSocketStream clients of one runtime: the native socket *)
(* (src/src/ws.c), the two classes over it (src/src/js/polyfills/ws.js and *)
(* ws-stream.js), its pin, the count of connections that keeps the loop    *)
(* alive, and the teardown.                                                *)
(*                                                                         *)
(* libwebsockets calls back on the thread of the loop.  A callback that    *)
(* does something after its handler returned leaves that on the stack      *)
(* todo, since scripts, microtasks and the collector run in between.       *)
(* Payloads, headers and reasons are left out; a message is a number, and  *)
(* is received whole.                                                      *)
(***************************************************************************)
EXTENDS Integers, Sequences, FiniteSets

CONSTANTS
  Sockets,    \* TJSWs allocations, each used once
  Streaming,  \* those that belong to a WebSocketStream
  Codes,      \* the close codes that scripts and peers give
  MaxCalls,   \* bound: what scripts call
  MaxEvents   \* bound: a peer sends no message to a socket with so many events

ASSUME WebSocketAssumption ==
  /\ Streaming \subseteq Sockets
  /\ Codes \subseteq Nat \ {0, 1005, 1006}
  /\ 1000 \in Codes   \* that of an abort
  /\ MaxCalls \in Nat /\ MaxEvents \in Nat

VARIABLES
  \* TJSWs and lws's part of it
  wsi,         \* "null", "connecting", "open", "echoing" (the peer's close)
  pinned,      \* sockets with a pin
  pending,     \* pending_writes: messages are <<number, "text" or "blob">>
  wanted,      \* sockets lws was asked to call back when they are writable
  timer,       \* sockets with the one-second timeout of close()
  close_code,  \* 0: none
  finalized,   \* sockets whose wrapper was collected
  \* the classes
  readyState,  \* "none" before the constructor
  blobs,       \* messages whose Blob is still being read
  stream,      \* the state of the WebSocketStream
  \* the runtime
  conns,       \* active_conns
  jobs,        \* sockets with an emit_abnormal_close job
  todo,        \* what callbacks do after a handler, innermost first
  phase,       \* "running", "ended" by itself, "stopped"
  silenced,    \* sockets detached by the teardown
  \* history
  events,      \* what was dispatched to each socket
  sent,        \* what was written to each connection
  given,       \* the close codes both sides gave
  reported,    \* the code of the close event, or 0
  calls

nativeVars == <<wsi, pinned, pending, wanted, timer, close_code, conns>>
teardownVars == <<finalized, phase, silenced>>
heardVars == <<readyState, stream, events, reported>>
vars == <<nativeVars, teardownVars, heardVars, blobs, jobs, todo, sent, given, calls>>

Live(s) == wsi[s] # "null"
Owed(s) == Live(s) \/ \E i \in DOMAIN todo : todo[i] \in {<<"close", s>>, <<"release", s>>}
NewStream == [opened |-> "pending", closed |-> "pending", readable |-> "open",
              writable |-> "open", hadError |-> FALSE, signal |-> TRUE]

----------------------------------------------------------------------------
\* The listeners of WebSocketStream, on the record of one stream.
Settle(p, outcome) == IF p = "pending" THEN outcome ELSE p
Stop(half, how) == IF half = "open" THEN how ELSE half

HearOpen(r) == IF r.opened = "pending"
               THEN [r EXCEPT !.opened = "resolved", !.signal = FALSE] ELSE r
HearError(r) == [r EXCEPT !.hadError = TRUE, !.signal = FALSE,
                          !.opened = Settle(@, "rejected")]
HearClose(r) ==
  LET clean == r.opened # "pending" /\ ~r.hadError IN
  [r EXCEPT !.signal = FALSE, !.opened = Settle(@, "rejected"),
            !.closed = Settle(@, IF clean THEN "resolved" ELSE "rejected"),
            !.readable = Stop(@, IF clean THEN "closed" ELSE "errored"),
            !.writable = Stop(@, "errored")]

\* The listener of the signal.
HearAbort(r) ==
  [r EXCEPT !.signal = FALSE, !.opened = Settle(@, "rejected"), !.closed = Settle(@, "rejected"),
            !.readable = Stop(@, "errored"), !.writable = Stop(@, "errored")]

\* An event of socket s reaches its handler, and the listeners of its stream, which
\* make r of it; after the teardown cleared the callbacks there is no handler.
Hear(s, event, state, r) ==
  IF s \in silenced THEN UNCHANGED <<readyState, events, stream>>
  ELSE /\ readyState' = [readyState EXCEPT ![s] = state]
       /\ events' = [events EXCEPT ![s] = Append(@, event)]
       /\ stream' = IF s \in Streaming THEN [stream EXCEPT ![s] = r] ELSE stream

EmitClose(s, code) ==
  /\ Hear(s, "close", "CLOSED", HearClose(stream[s]))
  /\ reported' = [reported EXCEPT ![s] = code]
EmitError(s) ==
  /\ Hear(s, "error", readyState[s], HearError(stream[s]))
  /\ UNCHANGED reported

----------------------------------------------------------------------------
\* Scripts, in a handler or between callbacks.
Calling ==
  /\ phase = "running" /\ calls < MaxCalls /\ calls' = calls + 1
  /\ UNCHANGED <<teardownVars, todo, events, reported, sent>>
Usable(s) == readyState[s] # "none" /\ s \notin finalized

\* The constructors.  lws may find no route at once: then there is no wsi, and a
\* job emits the events.
Pin(s) == pinned \cup {s}
Connect(s) ==
  /\ Calling
  /\ readyState[s] = "none" /\ readyState' = [readyState EXCEPT ![s] = "CONNECTING"]
  /\ \/ /\ wsi' = [wsi EXCEPT ![s] = "connecting"]
        /\ pinned' = Pin(s) /\ conns' = conns + 1
        /\ UNCHANGED jobs
     \/ /\ jobs' = jobs \cup {s}
        /\ UNCHANGED <<wsi, pinned, conns>>
  /\ UNCHANGED <<pending, wanted, timer, close_code, blobs, stream, given>>

\* ws_queue_write.
QueueMessage(s, m) == [pending EXCEPT ![s] = Append(@, m)]
QueueWrite(s, m) ==
  /\ pending' = QueueMessage(s, m)
  /\ wanted' = IF Live(s) THEN wanted \cup {s} ELSE wanted

\* WebSocket.send; what is sent when the socket is not open is dropped, or throws.
Send(s, kind) ==
  LET m == <<calls, kind>> IN
  /\ readyState[s] = "OPEN"
  /\ IF kind = "text" THEN QueueWrite(s, m) /\ UNCHANGED blobs
     ELSE /\ blobs' = [blobs EXCEPT ![s] = @ \cup {m}]
          /\ UNCHANGED <<pending, wanted>>

SendCall(s, kind) ==
  /\ Calling /\ Usable(s) /\ s \notin Streaming
  /\ Send(s, kind)
  /\ UNCHANGED <<wsi, pinned, timer, close_code, conns, readyState, stream, jobs, given>>

\* A Blob has been read; its bytes are queued whatever happened to the socket since.
BlobRead(s, m) ==
  /\ phase = "running" /\ m \in blobs[s]
  /\ blobs' = [blobs EXCEPT ![s] = @ \ {m}]
  /\ QueueWrite(s, m)
  /\ UNCHANGED <<wsi, pinned, timer, close_code, conns, teardownVars, heardVars, jobs, todo,
                 sent, given, calls>>

\* WebSocket.close with tjs_ws_close; closeWebSocket is the same.
\* Mutants: a socket that is closed can be closed; lws is given no timeout.
CanCloseAgain(s) == readyState[s] \notin {"none", "CLOSING"}
CanClose(s) == readyState[s] \in {"CONNECTING", "OPEN"}
ArmNothing(s) == timer
ArmTimeout(s) == IF Live(s) THEN timer \cup {s} ELSE timer
CloseSocket(s, code) ==
  IF CanClose(s)
  THEN /\ readyState' = [readyState EXCEPT ![s] = "CLOSING"]
       /\ close_code' = [close_code EXCEPT ![s] = code]
       /\ given' = [given EXCEPT ![s] = @ \cup {code}]
       /\ timer' = ArmTimeout(s)
       /\ wanted' = IF Live(s) THEN wanted \cup {s} ELSE wanted
  ELSE UNCHANGED <<readyState, close_code, given, timer, wanted>>

\* close() of either class; the stream's does nothing to its two halves.
Close(s, code) ==
  /\ Calling /\ Usable(s)
  /\ CloseSocket(s, code)
  /\ UNCHANGED <<wsi, pinned, pending, conns, blobs, stream, jobs>>

\* The halves of a WebSocketStream, which scripts have once it is opened: cancel()
\* of the readable, close() and abort() of the writable one.
EndHalf(s, half, how, code) ==
  /\ Calling /\ Usable(s) /\ s \in Streaming
  /\ stream[s].opened = "resolved" /\ stream[s][half] = "open"
  /\ stream' = [stream EXCEPT ![s][half] = how]
  /\ CloseSocket(s, code)
  /\ UNCHANGED <<wsi, pinned, pending, conns, blobs, jobs>>

\* write(): it throws when the socket is not open, which errors the stream.
StreamWrite(s, kind) ==
  /\ Calling /\ Usable(s) /\ s \in Streaming
  /\ stream[s].opened = "resolved" /\ stream[s].writable = "open"
  /\ \/ Send(s, kind) /\ UNCHANGED stream
     \/ /\ readyState[s] # "OPEN" /\ stream' = [stream EXCEPT ![s].writable = "errored"]
        /\ UNCHANGED <<pending, wanted, blobs>>
  /\ UNCHANGED <<wsi, pinned, timer, close_code, conns, readyState, jobs, given>>

\* The signal is aborted while the listener is on it.
Abort(s) ==
  /\ Calling /\ Usable(s) /\ s \in Streaming /\ stream[s].signal
  /\ stream' = [stream EXCEPT ![s] = HearAbort(@)]
  /\ CloseSocket(s, 1000)
  /\ UNCHANGED <<wsi, pinned, pending, conns, blobs, jobs>>

Scripts ==
  \E s \in Sockets :
    \/ Connect(s) \/ Abort(s)
    \/ \E kind \in {"text", "blob"} : SendCall(s, kind) \/ StreamWrite(s, kind)
    \/ \E code \in Codes : \/ Close(s, code)
                           \/ EndHalf(s, "readable", "closed", code)
                           \/ EndHalf(s, "writable", "errored", code)

----------------------------------------------------------------------------
\* Callbacks of lws.  Microtasks were drained before.
Service ==
  /\ phase = "running" /\ todo = <<>> /\ jobs = {}
  /\ UNCHANGED <<teardownVars, blobs, jobs, conns, calls>>

\* CLIENT_ESTABLISHED; whether a timeout that was set before survives is up to lws.
Established(s) ==
  /\ Service
  /\ wsi[s] = "connecting" /\ wsi' = [wsi EXCEPT ![s] = "open"]
  /\ timer' \in {timer, timer \ {s}}
  /\ Hear(s, "open", "OPEN", HearOpen(stream[s]))
  /\ UNCHANGED <<pinned, pending, wanted, close_code, todo, sent, given, reported>>

\* CLIENT_RECEIVE, with the last fragment of a message.
Receive(s) ==
  /\ Service
  /\ wsi[s] = "open" /\ Len(events[s]) < MaxEvents
  /\ Hear(s, "message", readyState[s], stream[s])
  /\ UNCHANGED <<wsi, pinned, pending, wanted, timer, close_code, todo, sent, given, reported>>

\* CLIENT_WRITEABLE: one message, and another callback if there are more.  A write
\* that fails ends the connection, which Closed can do at any time.
\* Mutant: the callback is not asked for again.
WantOnce(s) == wanted \ {s}
WantMore(s) == IF Len(pending[s]) > 1 THEN wanted ELSE wanted \ {s}
Writeable(s) ==
  /\ Service
  /\ wsi[s] = "open" /\ s \in wanted
  /\ wanted' = WantMore(s)
  /\ IF pending[s] = <<>> THEN UNCHANGED <<pending, sent>>
     ELSE /\ sent' = [sent EXCEPT ![s] = Append(@, Head(pending[s]))]
          /\ pending' = [pending EXCEPT ![s] = Tail(@)]
  /\ UNCHANGED <<wsi, pinned, timer, close_code, heardVars, todo, given>>

\* WS_PEER_INITIATED_CLOSE, with a code or (0) without.
PeerClose(s, code) ==
  /\ Service
  /\ wsi[s] = "open" /\ wsi' = [wsi EXCEPT ![s] = "echoing"]
  /\ close_code' = [close_code EXCEPT ![s] = IF code = 0 THEN @ ELSE code]
  /\ given' = [given EXCEPT ![s] = @ \cup ({code} \ {0})]
  /\ UNCHANGED <<pinned, pending, wanted, timer, heardVars, todo, sent>>

\* CLIENT_CLOSED, after either side's close, a timeout or a failure: the close
\* event first, then the connection is let go.
ReportCode(s) == IF close_code[s] = 0 THEN 1005 ELSE close_code[s]
Closed(s) ==
  /\ Service
  /\ wsi[s] \in {"open", "echoing"} /\ wsi' = [wsi EXCEPT ![s] = "null"]
  /\ EmitClose(s, ReportCode(s))
  /\ todo' = <<<<"release", s>>>>
  /\ UNCHANGED <<pinned, pending, wanted, timer, close_code, sent, given>>

\* CLIENT_CONNECTION_ERROR: two events, and handlers, jobs and scripts between them.
ConnectionError(s) ==
  /\ Service
  /\ wsi[s] = "connecting" /\ wsi' = [wsi EXCEPT ![s] = "null"]
  /\ EmitError(s)
  /\ todo' = <<<<"close", s>>>>
  /\ UNCHANGED <<pinned, pending, wanted, timer, close_code, sent, given>>

\* emit_abnormal_close, a microtask: it runs after whatever handler queued it.
AbnormalClose(s) ==
  /\ phase = "running" /\ s \in jobs /\ jobs' = jobs \ {s}
  /\ EmitError(s)
  /\ todo' = <<<<"abandon", s>>>> \o todo
  /\ UNCHANGED <<nativeVars, teardownVars, blobs, sent, given, calls>>

\* The rest of the callback on top of the stack, once its microtasks are drained.
\* Mutant: the connection is not counted down.
KeepCount == conns
LetGo == conns - 1
CallbackEnd ==
  /\ phase = "running" /\ jobs = {} /\ todo # <<>>
  /\ LET s == Head(todo)[2] IN
     \/ /\ Head(todo)[1] = "release"
        /\ conns' = LetGo /\ pinned' = pinned \ {s}
        /\ todo' = Tail(todo)
        /\ UNCHANGED heardVars
     \/ /\ Head(todo)[1] \in {"close", "abandon"}
        /\ EmitClose(s, 1006)
        /\ todo' = IF Head(todo)[1] = "close" THEN <<<<"release", s>>>> \o Tail(todo)
                   ELSE Tail(todo)
        /\ UNCHANGED <<conns, pinned>>
  /\ UNCHANGED <<wsi, pending, wanted, timer, close_code, teardownVars, blobs, jobs, sent,
                 given, calls>>

Lws ==
  \/ \E s \in Sockets :
       \/ Established(s) \/ Receive(s) \/ Writeable(s) \/ Closed(s) \/ ConnectionError(s)
       \/ AbnormalClose(s)
       \/ \E code \in Codes \cup {0} : PeerClose(s, code)
       \/ \E m \in blobs[s] : BlobRead(s, m)
  \/ CallbackEnd

----------------------------------------------------------------------------
\* The collector: neither pinned nor held by a job or by a promise.
Collect(s) ==
  /\ phase = "running" /\ Usable(s)
  /\ s \notin pinned \cup jobs /\ blobs[s] = {}
  /\ \A i \in DOMAIN todo : todo[i] # <<"abandon", s>>
  /\ finalized' = finalized \cup {s}
  /\ UNCHANGED <<nativeVars, heardVars, blobs, jobs, todo, phase, silenced, sent, given, calls>>

\* TJS_Run returns: nothing keeps the loop alive, or it was stopped.  The teardown
\* begins by clearing the callbacks of what is pinned.
Detached == pinned
LoopReturns(how) ==
  /\ phase = "running" /\ todo = <<>> /\ phase' = how
  /\ how = "ended" => /\ conns = 0 /\ jobs = {}
                      /\ \A s \in Sockets : blobs[s] = {}
  /\ silenced' = Detached
  /\ UNCHANGED <<nativeVars, heardVars, finalized, blobs, jobs, todo, sent, given, calls>>

\* lws_context_destroy closes what is left, one socket after the other.
DestroyWsi(s) ==
  /\ phase # "running" /\ Live(s)
  /\ wsi' = [wsi EXCEPT ![s] = "null"]
  /\ EmitClose(s, IF wsi[s] = "connecting" THEN 1006 ELSE ReportCode(s))
  /\ conns' = conns - 1 /\ pinned' = pinned \ {s}
  /\ UNCHANGED <<pending, wanted, timer, close_code, teardownVars, blobs, jobs, todo, sent,
                 given, calls>>

Teardown ==
  \/ \E s \in Sockets : Collect(s) \/ DestroyWsi(s)
  \/ \E how \in {"ended", "stopped"} : LoopReturns(how)

Init ==
  /\ wsi = [s \in Sockets |-> "null"] /\ pinned = {} /\ conns = 0
  /\ pending = [s \in Sockets |-> <<>>] /\ wanted = {} /\ timer = {}
  /\ close_code = [s \in Sockets |-> 0] /\ finalized = {} /\ silenced = {}
  /\ readyState = [s \in Sockets |-> "none"] /\ blobs = [s \in Sockets |-> {}]
  /\ stream = [s \in Streaming |-> NewStream]
  /\ jobs = {} /\ todo = <<>> /\ phase = "running"
  /\ events = [s \in Sockets |-> <<>>] /\ sent = [s \in Sockets |-> <<>>]
  /\ given = [s \in Sockets |-> {}] /\ reported = [s \in Sockets |-> 0]
  /\ calls = 0

Next == Scripts \/ Lws \/ Teardown

Spec == Init /\ [][Next]_vars

\* lws fires its timeouts, ends what it is closing or connecting, and the
\* microtasks and callbacks that began are finished.
FairSpec ==
  /\ Spec /\ WF_vars(CallbackEnd)
  /\ \A s \in Sockets : /\ WF_vars(AbnormalClose(s))
                        /\ WF_vars(Closed(s) /\ (s \in timer \/ wsi[s] = "echoing"))
                        /\ WF_vars(Established(s) \/ ConnectionError(s))

----------------------------------------------------------------------------
\* Types.
TypeOK ==
  /\ wsi \in [Sockets -> {"null", "connecting", "open", "echoing"}]
  /\ readyState \in [Sockets -> {"none", "CONNECTING", "OPEN", "CLOSING", "CLOSED"}]
  /\ pinned \subseteq Sockets /\ wanted \subseteq Sockets /\ timer \subseteq Sockets
  /\ finalized \subseteq Sockets /\ silenced \subseteq Sockets /\ jobs \subseteq Sockets
  /\ todo \in Seq({"close", "release", "abandon"} \X Sockets)
  /\ conns \in Nat /\ phase \in {"running", "ended", "stopped"}
  /\ close_code \in [Sockets -> Codes \cup {0}]
  /\ reported \in [Sockets -> Codes \cup {0, 1005, 1006}]
  /\ stream \in [Streaming -> [opened : {"pending", "resolved", "rejected"},
                               closed : {"pending", "resolved", "rejected"},
                               readable : {"open", "closed", "errored"},
                               writable : {"open", "closed", "errored"},
                               hadError : BOOLEAN, signal : BOOLEAN]]

\* A socket that lws will call back, or whose callback is not finished, is pinned
\* and not collected: lws holds a pointer to its struct (ws.c:469-470, 278-321).
OwedIsPinned == \A s \in Sockets : Owed(s) => s \in pinned /\ s \notin finalized

\* The count that keeps the loop alive is exactly the number of sockets that lws
\* will still call back, however callbacks, jobs and scripts nest.
RefsExact == conns = Cardinality({s \in Sockets : Owed(s)})

\* A runtime that ends by itself has told every socket that it is closed: a
\* connecting, closing or failed socket does not get lost with the loop.
NoneForgotten ==
  phase = "ended" => \A s \in Sockets : readyState[s] \in {"none", "CLOSED"}

\* The events of a socket: open comes first and once, an error only before it, and
\* after the close event, which is dispatched once, there is none; readyState is
\* CLOSED from that event on, whatever close() and the handshake do meanwhile.
EventsOrdered ==
  \A s \in Sockets :
    LET e == events[s] IN
    /\ \A i \in DOMAIN e : /\ e[i] \in {"open", "error"} => i = 1
                           /\ e[i] = "message" => e[1] = "open"
                           /\ e[i] = "close" => i = Len(e)
    /\ readyState[s] = "CLOSED" <=> e # <<>> /\ e[Len(e)] = "close"

\* The teardown calls no handler: what lws closes then was pinned, and detached.
SilentTeardown == [][phase # "running" => UNCHANGED events]_vars

\* While a message waits on an open connection, lws has been asked to call back:
\* no message is stuck, whoever queued it and when (a Blob's bytes come late).
WriteWanted ==
  \A s \in Sockets : wsi[s] = "open" /\ pending[s] # <<>> => s \in wanted

\* Messages other than Blobs are written in the order of the calls to send(), and
\* no message is written twice.
SentInOrder ==
  \A s \in Sockets :
    LET q == sent[s] \o pending[s] IN
    \A i, j \in DOMAIN q :
      i < j => q[i] # q[j] /\ (q[i][2] = "text" /\ q[j][2] = "text" => q[i][1] < q[j][1])

\* The close event tells what happened: 1006 if and only if the connection was
\* never open, 1005 only if neither side gave a code, else a code one side gave,
\* whichever way the two closes and the failure of the connection cross.
CodeTruthful ==
  \A s \in Sockets : readyState[s] = "CLOSED" =>
    /\ reported[s] = 1006 <=> events[s][1] = "error"
    /\ reported[s] = 1005 => given[s] = {}
    /\ reported[s] \notin {1005, 1006} => reported[s] \in given[s]

\* Once a WebSocketStream has seen the close event, both its promises are settled
\* and both its halves are over, in whichever of its paths it was.
StreamSettled ==
  \A s \in Streaming : readyState[s] = "CLOSED" =>
    /\ "pending" \notin {stream[s].opened, stream[s].closed}
    /\ "open" \notin {stream[s].readable, stream[s].writable}

\* A socket does not stay CLOSING: the event comes, or the handshake finishes
\* after all and it is OPEN again, or the runtime ends.
ClosingEnds ==
  \A s \in Sockets : readyState[s] = "CLOSING" ~> (readyState[s] # "CLOSING" \/ phase # "running")

\* Lifetimes: a socket that lws will call back is pinned, it alone holds the loop, and
\* the runtime does not end before it has told every socket that it is closed.
Lifetimes == TypeOK /\ OwedIsPinned /\ RefsExact /\ NoneForgotten

\* The events of a socket come in order with a close code that is true, and with them
\* everything of a WebSocketStream ends.
EventsTrue == EventsOrdered /\ CodeTruthful /\ StreamSettled

\* Messages are neither stuck nor reordered nor written twice.
MessagesKept == WriteWanted /\ SentInOrder

\* Every closing ends, and with the runtime it ends in silence.
Closes == SilentTeardown /\ ClosingEnds

=============================================================================
