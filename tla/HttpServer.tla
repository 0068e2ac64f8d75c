----------------------------- MODULE HttpServer -----------------------------
(***************************************************************************)
(* tjs.serve(): src/src/httpserver.c under src/src/js/core/httpserver.js.  *)
(*                                                                         *)
(* Everything runs in callbacks of lws on the thread of the loop.  A       *)
(* callback that calls a handler also drains the microtasks, so a script   *)
(* may answer inside it: frame is the callback that still uses its request *)
(* when the script comes back.  A wsi is an address, which lws gives to    *)
(* the next connection.                                                    *)
(***************************************************************************)
EXTENDS Integers, Sequences, FiniteSets

CONSTANTS
  Wsis,         \* the connections (for HTTP/2 and HTTP/3, the streams)
  Muxed,        \* those that are streams of HTTP/2 or HTTP/3
  Http3,        \* the choices for the option http3
  MaxRequests,  \* the requests of a run
  MaxBody,      \* pieces of a request body
  MaxPieces,    \* pieces of a response body, if there is one, and of a chunk
  MaxChunks,    \* chunks of a streaming response, before the last one
  MaxSends      \* the messages that a WebSocket connection queues

ASSUME HttpServerAssumption == {MaxRequests, MaxBody, MaxPieces, MaxChunks, MaxSends} \subseteq Nat \ {0}
                               /\ Muxed \subseteq Wsis /\ Http3 \subseteq BOOLEAN

Ids == 1..MaxRequests
None == 0   \* no request
Ws == -1    \* the user pointer is a TJSWsConnection

VARIABLES
  server,   \* TJSHttpServer
  vhost,    \* the vhosts that lws has, and those whose protocol it initialised
  req,      \* TJSHttpRequest of each id; live: it is in active_requests
  wsi,      \* what lws and the code keep for each connection
  js,       \* #handleRequest of each id
  body,     \* the ReadableStream of a chunked request body (#streamControllers)
  refs,     \* what WebSocket connections add to tjs__lws_conn_ref
  frame,    \* <<the callback that waits for a script, its request>>
  stopped,  \* TJS_Stop was called, or freed memory was used
  wire      \* history: the last that was sent on each connection, <<id, part>>

vars == <<server, vhost, req, wsi, js, body, refs, frame, stopped, wire>>

Running == stopped = "none"
\* A connection that a callback gave up is closed at once.
Closing == {w \in Wsis : wsi[w].state = "closing"}
Outside == Running /\ frame[1] = "none" /\ Closing = {}
Scripts == Running /\ (frame[1] = "none" => Closing = {})
NoFrame == <<"none", None>>
Nothing == <<None, "none">>
Live == {r \in Ids : req[r].live}

NoRequest == [live |-> FALSE, wsi |-> None, kind |-> "none", complete |-> FALSE,
              dispatched |-> FALSE, responded |-> FALSE, streaming |-> FALSE,
              pending |-> <<>>, chunks |-> 0, left |-> 0]
\* tx: the transaction that lws reads, "none", "open", "done", or "ws" after an upgrade;
\* again: it calls LWS_CALLBACK_HTTP once more; rest: the pieces of the body to come, 0 when
\* only its end is to come, Read after it; made: the requests created for the transaction;
\* queue: pending_writes of a TJSWsConnection.
Read == -1
FreeWsi == [state |-> "free", user |-> None, tx |-> "none", kind |-> "none",
            again |-> FALSE, rest |-> Read, made |-> 0, want |-> FALSE, queue |-> 0]

Init ==
  /\ server = [state |-> "none", closed |-> FALSE, count |-> 0, pinned |-> FALSE,
               onClose |-> "none", nextId |-> 1, upgrades |-> {}]
  /\ vhost = [alive |-> {}, dying |-> {}, ready |-> {}]
  /\ req = [r \in Ids |-> NoRequest]
  /\ wsi = [w \in Wsis |-> FreeWsi]
  /\ js = [r \in Ids |-> "none"]
  /\ body = [r \in Ids |-> "none"]
  /\ refs = 0
  /\ frame = NoFrame
  /\ stopped = "none"
  /\ wire = [w \in Wsis |-> Nothing]

----------------------------------------------------------------------------
\* The server.

\* The constructor, with a vhost for HTTP/3 or not.  When the QUIC listener fails, with its
\* vhost made or not, the vhosts go and the program gets the exception.
\* Mutant: the pin does not wait for every vhost.
CountOne(vs) == 1
Count(vs) == Cardinality(vs)
Create ==
  /\ Outside /\ server.state = "none"
  /\ \E http3 \in Http3 : \E fails \in {FALSE, http3} : \E made \in {http3, http3 /\ ~fails} :
       LET vs == {"tcp"} \cup (IF made THEN {"quic"} ELSE {}) IN
       /\ server' = [server EXCEPT !.state = IF fails THEN "failed" ELSE "open",
                                   !.closed = fails, !.count = Count(vs), !.pinned = TRUE,
                                   !.onClose = IF fails THEN "none" ELSE "armed"]
       /\ vhost' = [vhost EXCEPT !.alive = vs, !.dying = IF fails THEN vs ELSE {}]
  /\ UNCHANGED <<req, wsi, js, body, refs, frame, stopped, wire>>

\* close(), once.  Scripts call it in handlers, too.
Close ==
  /\ Scripts /\ server.state = "open"
  /\ server' = [server EXCEPT !.state = "closed", !.closed = TRUE]
  /\ vhost' = [vhost EXCEPT !.dying = vhost.alive]
  /\ UNCHANGED <<req, wsi, js, body, refs, frame, stopped, wire>>

\* lws initialises the protocol of a vhost, which need not come before it dies.
ProtocolInit(v) ==
  /\ Outside /\ v \in vhost.alive \ vhost.ready
  /\ vhost' = [vhost EXCEPT !.ready = @ \cup {v}]
  /\ UNCHANGED <<server, req, wsi, js, body, refs, frame, stopped, wire>>

\* lws frees a vhost that has no connections.  LWS_CALLBACK_PROTOCOL_DESTROY comes for
\* one whose protocol was initialised; the last one calls onClose and unpins the server.
\* Mutant: the count is tested before it is decreased.
LastLate == server.count = 0
Last == server.count = 1
ProtocolDestroy(v) ==
  /\ Outside /\ v \in vhost.dying
  /\ \A w \in Wsis : wsi[w].state = "free"
  /\ vhost' = [vhost EXCEPT !.alive = @ \ {v}, !.dying = @ \ {v}]
  /\ server' = IF v \notin vhost.ready THEN server
               ELSE [server EXCEPT !.count = @ - 1, !.pinned = @ /\ ~Last,
                                   !.onClose = IF Last /\ @ = "armed" THEN "fired" ELSE @]
  /\ UNCHANGED <<req, wsi, js, body, refs, frame, stopped, wire>>

----------------------------------------------------------------------------
\* Requests.

\* A request that is gone: what its handler sends returns at once, so its steps end here.
\* A stream that is still open stays so.
Gone(r) ==
  /\ req' = [req EXCEPT ![r] = NoRequest]
  /\ js' = [js EXCEPT ![r] = "gone"]
  /\ body' = [body EXCEPT ![r] = IF @ = "open" THEN "orphan" ELSE "none"]

\* tjs_http_req_complete: the wsi is free for the next transaction.
ClearUser(w, r) == IF wsi[w].user = r THEN None ELSE wsi[w].user
Complete(r, closes) ==
  LET w == req[r].wsi IN
  /\ Gone(r)
  /\ wsi' = [wsi EXCEPT ![w].user = ClearUser(w, r), ![w].tx = "done", ![w].want = FALSE,
                        ![w].state = IF closes THEN "closing" ELSE @]

\* tjs_http_invoke_handler: #handleRequest starts, with a stream for a chunked body.
Dispatch(r, kind) ==
  /\ js' = [js EXCEPT ![r] = "handling"]
  /\ body' = [body EXCEPT ![r] = IF kind = "chunked" THEN "open" ELSE @]

\* onBodyChunk: a stream that the handler cancelled throws when it is enqueued to or
\* closed, and the error stops the program.  close() of the server dropped the callback.
OnBodyChunk(r, last) ==
  LET after == IF body[r] = "open" /\ last /\ ~server.closed THEN "ended" ELSE body[r] IN
  /\ stopped' = IF server.closed THEN "callback"
                ELSE IF body[r] = "cancelled" THEN "controller" ELSE "none"
  /\ body' = [body EXCEPT ![r] = after]

\* A peer connects.  An HTTP/1.1 connection that was kept alive is "open" with tx "done".
Connect(w) ==
  /\ Outside /\ server.state = "open" /\ vhost.ready = vhost.alive /\ wsi[w].state = "free"
  /\ wsi' = [wsi EXCEPT ![w].state = "open"]
  /\ UNCHANGED <<server, vhost, req, js, body, refs, frame, stopped, wire>>

\* LWS_CALLBACK_HTTP.  lws calls it again for a POST on HTTP/2, unless the transaction
\* completed in between; a wsi whose user is set has its request already.
\* Mutant: the second call makes a request, too.
NewAlways(w) == TRUE
New(w) == wsi[w].user = None
Arrive(w, conn) ==
  LET r == server.nextId IN
  IF New(w) /\ ~server.closed
  THEN /\ r \in Ids
       /\ server' = [server EXCEPT !.nextId = @ + 1]
       /\ wsi' = [wsi EXCEPT ![w] = [conn EXCEPT !.user = r, !.made = @ + 1]]
       /\ req' = [req EXCEPT ![r] = [NoRequest EXCEPT !.live = TRUE, !.wsi = w, !.kind = conn.kind,
                                                      !.complete = conn.kind = "none",
                                                      !.dispatched = conn.kind # "length"]]
       /\ IF conn.kind = "length" THEN UNCHANGED <<js, body>> ELSE Dispatch(r, conn.kind)
  ELSE /\ wsi' = [wsi EXCEPT ![w] = conn]
       /\ UNCHANGED <<server, req, js, body>>

Idle(w) == /\ wsi[w].state = "open"
           /\ wsi[w].tx \in (IF w \in Muxed THEN {"none"} ELSE {"none", "done"})
LwsHttp == Outside /\ UNCHANGED <<vhost, refs, frame, stopped, wire>>

Http(w) ==
  /\ LwsHttp /\ Idle(w)
  /\ \E kind \in {"none", "length", "chunked"}, n \in 1..MaxBody, again \in {FALSE, (w \in Muxed)} :
       /\ w \in Muxed => kind # "chunked"
       /\ Arrive(w, [wsi[w] EXCEPT !.tx = "open", !.kind = kind, !.again = again, !.made = 0,
                                   !.rest = IF kind # "none" THEN n ELSE IF again THEN 0 ELSE Read])
HttpAgain(w) ==
  /\ LwsHttp /\ wsi[w].state = "open" /\ wsi[w].tx = "open" /\ wsi[w].again
  /\ Arrive(w, [wsi[w] EXCEPT !.again = FALSE])

\* lws reads on after a transaction that completed before its body was read.
Reads(w) == Outside /\ wsi[w].state = "open" /\ ~wsi[w].again /\ UNCHANGED <<vhost, refs, wire>>
Lost(w, conn) ==
  /\ wsi' = [wsi EXCEPT ![w] = [conn EXCEPT !.state = IF server.closed THEN @ ELSE "closing"]]
  /\ UNCHANGED <<server, req, js, body, frame, stopped>>

\* LWS_CALLBACK_HTTP_BODY with a piece of the body.
HttpBody(w) ==
  LET r == wsi[w].user
      conn == [wsi[w] EXCEPT !.rest = @ - 1] IN
  /\ Reads(w) /\ wsi[w].rest > 0
  /\ IF r = None \/ server.closed THEN Lost(w, conn)
     ELSE /\ wsi' = [wsi EXCEPT ![w] = conn]
          /\ IF req[r].kind = "chunked"
             THEN OnBodyChunk(r, FALSE) /\ frame' = <<"chunk", r>>
             ELSE UNCHANGED <<body, frame, stopped>>
          /\ UNCHANGED <<server, req, js>>

\* The loop over the chunks goes on with its request.
BodyReturns ==
  LET r == frame[2] IN
  /\ Running /\ frame[1] = "chunk"
  /\ IF req[r].live THEN frame' = NoFrame /\ stopped' = "none" ELSE stopped' = "freed" /\ frame' = frame
  /\ UNCHANGED <<server, vhost, req, wsi, js, body, refs, wire>>

\* The last chunk, or LWS_CALLBACK_HTTP_BODY_COMPLETION.
FirstCall(r) == ~req[r].dispatched
HttpBodyEnds(w) ==
  LET r == wsi[w].user
      conn == [wsi[w] EXCEPT !.rest = Read] IN
  /\ Reads(w) /\ wsi[w].rest = 0
  /\ IF r = None \/ server.closed THEN Lost(w, conn)
     ELSE /\ wsi' = [wsi EXCEPT ![w] = conn]
          /\ req' = [req EXCEPT ![r].complete = TRUE, ![r].dispatched = TRUE]
          /\ IF req[r].kind = "chunked"
             THEN OnBodyChunk(r, TRUE) /\ UNCHANGED js
             ELSE /\ IF FirstCall(r) THEN Dispatch(r, "length") ELSE UNCHANGED <<js, body>>
                  /\ UNCHANGED stopped
          /\ UNCHANGED <<server, frame>>

----------------------------------------------------------------------------
\* #handleRequest.  write: lws_write of the headers succeeds.
Script(r) == Scripts /\ UNCHANGED <<vhost, server, refs, frame, stopped>> /\ r \in Ids

\* The handler cancels the stream of the request body.
CancelBody(r) ==
  /\ Script(r) /\ body[r] = "open" /\ js[r] = "handling"
  /\ body' = [body EXCEPT ![r] = "cancelled"]
  /\ UNCHANGED <<req, wsi, js, wire>>

Sent(r, part) == wire' = [wire EXCEPT ![req[r].wsi] = <<r, part>>]

\* sendResponse with no body or with n pieces.  When it throws, catch tries once more with a 500.
May(r) == req[r].live /\ ~req[r].responded
SendResponse(r) ==
  LET w == req[r].wsi IN
  /\ Script(r) /\ js[r] \in {"handling", "caught"}
  /\ \E n \in {0, MaxPieces}, write \in BOOLEAN :
       IF ~May(r)
       THEN /\ js' = [js EXCEPT ![r] = "finished"] /\ UNCHANGED <<req, wsi, body, wire>>
       ELSE IF ~write
       THEN /\ js' = [js EXCEPT ![r] = IF @ = "handling" THEN "caught" ELSE "finished"]
            /\ req' = [req EXCEPT ![r].responded = TRUE]
            /\ UNCHANGED <<wsi, body, wire>>
       ELSE /\ Sent(r, IF n > 0 THEN "head" ELSE "whole")
            /\ IF n = 0 THEN Complete(r, FALSE)
               ELSE /\ req' = [req EXCEPT ![r].responded = TRUE, ![r].left = n]
                    /\ js' = [js EXCEPT ![r] = "finished"]
                    /\ wsi' = [wsi EXCEPT ![w].want = TRUE]
                    /\ UNCHANGED body

\* sendHeaders of a streaming response.
SendHeaders(r) ==
  /\ Script(r) /\ js[r] = "handling" /\ UNCHANGED <<body, wsi>>
  /\ \E write \in BOOLEAN :
       IF ~May(r)
       THEN js' = [js EXCEPT ![r] = "streaming"] /\ UNCHANGED <<req, wire>>
       ELSE /\ req' = [req EXCEPT ![r].responded = TRUE, ![r].streaming = TRUE]
            /\ js' = [js EXCEPT ![r] = IF write THEN "streaming" ELSE "caught"]
            /\ IF write THEN Sent(r, "head") ELSE UNCHANGED wire

\* sendBody: a chunk, or the last one, which is empty on HTTP/2.
SendBody(r) ==
  /\ Script(r) /\ js[r] = "streaming" /\ UNCHANGED <<body, wire>>
  /\ \E final \in BOOLEAN :
       /\ final \/ req[r].chunks < MaxChunks
       /\ js' = [js EXCEPT ![r] = IF final THEN "finished" ELSE @]
       /\ LET w == req[r].wsi
              len == IF ~final THEN MaxPieces ELSE IF w \in Muxed THEN 0 ELSE 1 IN
               /\ req' = [req EXCEPT ![r].chunks = @ + 1,
                                     ![r].pending = Append(@, [left |-> len, final |-> final])]
               /\ wsi' = [wsi EXCEPT ![w].want = TRUE]

----------------------------------------------------------------------------
\* LWS_CALLBACK_HTTP_WRITEABLE.  A peer without credit only delays it.
\* FINAL is on the last piece only.  Mutant: on every piece of the last chunk or body.
EveryPiece(n) == TRUE
LastPiece(n) == n <= 1
FinalPiece(c) == c.final /\ LastPiece(c.left)
\* Mutant: a chunk that was sent in part waits for the next sendBody.
WantNext(pending) == FALSE
WantMore(pending) == pending # <<>>
Writes == Outside /\ UNCHANGED <<server, vhost, refs, frame, stopped>>
WriteFails(w) == wsi' = [wsi EXCEPT ![w].state = "closing"] /\ UNCHANGED <<req, js, body, wire>>

WriteStream(w) ==
  LET r == wsi[w].user
      c == Head(req[r].pending)
      rest == IF c.left > 1 THEN <<[c EXCEPT !.left = @ - 1]>> \o Tail(req[r].pending)
              ELSE Tail(req[r].pending) IN
  /\ Writes /\ wsi[w].state = "open" /\ wsi[w].want /\ r \in Ids /\ ~server.closed
  /\ req[r].streaming /\ req[r].pending # <<>>
  /\ \/ WriteFails(w)
     \/ /\ Sent(r, IF FinalPiece(c) THEN "final" ELSE "data")
        /\ IF c.final /\ c.left <= 1 THEN \E closes \in BOOLEAN : Complete(r, closes)
           ELSE /\ req' = [req EXCEPT ![r].pending = rest]
                /\ wsi' = [wsi EXCEPT ![w].want = WantMore(rest)]
                /\ UNCHANGED <<js, body>>

WriteBuffered(w) ==
  LET r == wsi[w].user IN
  /\ Writes /\ wsi[w].state = "open" /\ wsi[w].want /\ r \in Ids /\ ~server.closed
  /\ req[r].left > 0
  /\ \/ WriteFails(w)
     \/ /\ Sent(r, IF LastPiece(req[r].left) THEN "final" ELSE "data")
        /\ IF req[r].left = 1 THEN \E closes \in BOOLEAN : Complete(r, closes)
           ELSE req' = [req EXCEPT ![r].left = @ - 1] /\ UNCHANGED <<wsi, js, body>>

\* A server that is closed ignores it.
WriteIgnored(w) ==
  /\ Writes /\ wsi[w].state = "open" /\ wsi[w].want /\ server.closed
  /\ wsi' = [wsi EXCEPT ![w].want = FALSE]
  /\ UNCHANGED <<req, js, body, wire>>

----------------------------------------------------------------------------
\* WebSocket connections.

\* LWS_CALLBACK_HTTP_CONFIRM_UPGRADE with acceptUpgrade in the handler, then the 101 and
\* LWS_CALLBACK_ESTABLISHED, which takes the wsi out of pending_upgrades.  When the 101 is
\* not sent, the entry stays, and whatever connection gets the address next is upgraded.
Upgrade(w) ==
  /\ Outside /\ Idle(w) /\ w \notin Muxed /\ ~server.closed
  /\ \E accepts, sent \in BOOLEAN :
       LET pending == server.upgrades \cup (IF accepts THEN {w} ELSE {})
           up == w \in pending /\ sent IN
       /\ server' = [server EXCEPT !.upgrades = IF up THEN pending \ {w} ELSE pending]
       /\ wsi' = [wsi EXCEPT ![w].tx = "ws", ![w].rest = Read, ![w].user = IF up THEN Ws ELSE @,
                             ![w].state = IF up THEN @ ELSE "closing"]
       /\ refs' = refs + (IF up THEN 1 ELSE 0)
  /\ UNCHANGED <<vhost, req, js, body, frame, stopped, wire>>

\* sendText and sendBinary.
WsSend(w) ==
  /\ Scripts /\ wsi[w].user = Ws /\ wsi[w].queue < MaxSends
  /\ wsi' = [wsi EXCEPT ![w].queue = @ + 1, ![w].want = TRUE]
  /\ UNCHANGED <<server, vhost, req, js, body, refs, frame, stopped, wire>>

\* LWS_CALLBACK_SERVER_WRITEABLE.
WsWriteable(w) ==
  /\ Writes /\ wsi[w].state = "open" /\ wsi[w].want /\ wsi[w].user = Ws /\ ~server.closed
  /\ \/ WriteFails(w)
     \/ /\ wsi' = [wsi EXCEPT ![w].queue = @ - 1, ![w].want = wsi[w].queue > 1]
        /\ UNCHANGED <<req, js, body, wire>>

----------------------------------------------------------------------------
\* The end of a connection: by the peer, by a timeout, by a body that is not well formed,
\* or because its vhost dies.
Drop(w) ==
  /\ Outside /\ wsi[w].state = "open"
  /\ wsi' = [wsi EXCEPT ![w].state = "closing"]
  /\ UNCHANGED <<server, vhost, req, js, body, refs, frame, stopped, wire>>

Freed(w) == wsi' = [wsi EXCEPT ![w] = FreeWsi] /\ wire' = [wire EXCEPT ![w] = Nothing]

\* LWS_CALLBACK_CLOSED of a WebSocket.
Unref(n) == n - 1
WsClosed(w) ==
  /\ Running /\ frame[1] = "none" /\ wsi[w].state = "closing" /\ wsi[w].user = Ws
  /\ Freed(w) /\ refs' = Unref(refs)
  /\ UNCHANGED <<server, vhost, req, js, body, frame, stopped>>

\* LWS_CALLBACK_CLOSED_HTTP: the body of the request ends if it did not.
MustEnd(r) == req[r].kind = "chunked" /\ ~req[r].complete
ClosedHttp(w) ==
  LET r == wsi[w].user IN
  /\ Running /\ frame[1] = "none" /\ wsi[w].state = "closing" /\ r # Ws
  /\ IF r # None /\ MustEnd(r)
     THEN /\ req' = [req EXCEPT ![r].complete = TRUE]
          /\ OnBodyChunk(r, TRUE) /\ frame' = <<"closed", r>>
          /\ UNCHANGED <<wsi, js, wire>>
     ELSE /\ IF r = None THEN UNCHANGED <<req, js, body>> ELSE Gone(r)
          /\ Freed(w)
          /\ UNCHANGED <<frame, stopped>>
  /\ UNCHANGED <<server, vhost, refs>>

\* The callback frees the request that it still holds.
ClosedReturns ==
  LET r == frame[2] IN
  /\ Running /\ frame[1] = "closed"
  /\ IF req[r].live
     THEN /\ Freed(req[r].wsi) /\ Gone(r)
          /\ frame' = NoFrame /\ UNCHANGED stopped
     ELSE stopped' = "freed" /\ UNCHANGED <<wsi, req, js, body, frame, wire>>
  /\ UNCHANGED <<server, vhost, refs>>

----------------------------------------------------------------------------
Lws(w) == \/ Connect(w) \/ Http(w) \/ HttpAgain(w) \/ HttpBody(w) \/ HttpBodyEnds(w)
          \/ WriteStream(w) \/ WriteBuffered(w) \/ WriteIgnored(w)
          \/ Upgrade(w) \/ WsWriteable(w) \/ Drop(w) \/ WsClosed(w) \/ ClosedHttp(w)
Next ==
  \/ Create \/ Close \/ BodyReturns \/ ClosedReturns
  \/ \E v \in {"tcp", "quic"} : ProtocolInit(v) \/ ProtocolDestroy(v)
  \/ \E w \in Wsis : Lws(w) \/ WsSend(w)
  \/ \E r \in Ids : CancelBody(r) \/ SendResponse(r) \/ SendHeaders(r) \/ SendBody(r)

Spec == Init /\ [][Next]_vars

\* Callbacks return, and lws tears down the connections of a dying vhost, then the vhost.
FairSpec ==
  /\ Spec
  /\ WF_vars(BodyReturns) /\ WF_vars(ClosedReturns)
  /\ \A w \in Wsis : /\ WF_vars(server.closed /\ Drop(w))
                     /\ WF_vars(ClosedHttp(w)) /\ WF_vars(WsClosed(w))
  /\ \A v \in {"tcp", "quic"} : WF_vars(ProtocolDestroy(v))

----------------------------------------------------------------------------
\* Properties.

\* The table of requests and the user pointers of the connections are one to one, and the
\* handler runs at most once for a transaction, and for a body of known length only when
\* it has all of it: HTTP/2 calls twice, and an empty body completes, too.
RequestsExact ==
  Outside =>
    /\ \A r \in Live : wsi[req[r].wsi].user = r
    /\ \A w \in Wsis : wsi[w].user \in Live \cup {None, Ws} /\ wsi[w].made <= 1
    /\ \A r \in Live : req[r].kind = "length" /\ js[r] # "none" => req[r].complete

\* On a connection the responses come in the order of their requests, each is one head,
\* data and one end, and the end is sent when nothing of the response is left: the request
\* is gone by then, so nothing can follow.
Framed ==
  [][\A w \in Wsis :
       LET was == wire[w]
           is == wire'[w] IN
       is \notin {was, Nothing}
       => /\ IF was[2] \in {"head", "data"}
             THEN is[1] = was[1] /\ is[2] \in {"data", "final"}
             ELSE is[1] > was[1] /\ is[2] \in {"head", "whole"}
          /\ is[2] \in {"final", "whole"} => ~req'[is[1]].live]_vars

\* A response or a message that waits has asked lws for a callback: nothing that the code
\* queued is forgotten on a connection that stays.
WriteWanted ==
  \A w \in Wsis :
    LET u == wsi[w].user IN
    Running /\ wsi[w].state = "open" /\ ~server.closed
      /\ \/ u \in Ids /\ (req[u].left > 0 \/ (req[u].streaming /\ req[u].pending # <<>>))
         \/ u = Ws /\ wsi[w].queue > 0
    => wsi[w].want

\* The stream of a request body is left open only by a response that completes before the
\* body was read: when the peer goes away the reader learns it.
BodyEnds ==
  [][\A r \in Ids : body'[r] = "orphan" /\ body[r] = "open"
                    => wsi'[req[r].wsi].state # "free"]_vars

\* The server is pinned as long as a vhost can report to it, onClose is not called before,
\* and each established WebSocket holds the loop once, also across close().
ServerAlive ==
  Running =>
    /\ vhost.alive \cap vhost.ready # {} => server.pinned /\ server.onClose # "fired"
    /\ refs = Cardinality({w \in Wsis : wsi[w].user = Ws})

\* close() resolves, with any number of requests under way but an upload of chunks, when
\* lws initialised the vhosts before.  Such an upload ends with its connection, and its end
\* calls the callback that close() dropped, which stops the program (httpserver.c:1253, 1722).
Uploading == frame # NoFrame \/ \E r \in Live : MustEnd(r)
ClosedResolves ==
  (/\ Running /\ server.closed /\ server.onClose = "armed" /\ ~Uploading
   /\ vhost.alive \subseteq vhost.ready /\ Cardinality(vhost.alive) = server.count)
  ~> server.onClose = "fired"

\* What goes over a connection is framed, and what a handler reads comes to an end.
Exchanges == Framed /\ BodyEnds

=============================================================================
