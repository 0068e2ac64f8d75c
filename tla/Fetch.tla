------------------------------- MODULE Fetch -------------------------------
(***************************************************************************)
(* One fetch(): the promise and the body stream of                         *)
(* src/src/js/polyfills/fetch/fetch.js, the HttpClient of                  *)
(* polyfills/http-client.js that follows redirects, and a native client of *)
(* src/src/httpclient.c for each hop, driven by callbacks of lws.          *)
(*                                                                         *)
(* A handler that throws stops the program (tjs_call_handler), and         *)
(* microtasks run after each handler, so that an abort may come between    *)
(* two callbacks of one lws event.                                         *)
(***************************************************************************)
EXTENDS Integers, Sequences, FiniteSets

CONSTANTS
  MaxRedirects,  \* kMaxRedirects
  MaxData,       \* the chunks of a response body
  MaxChunks,     \* the chunks of the request body
  FailingHops    \* the hops whose connection may fail at once

ASSUME FetchAssumption == {MaxRedirects, MaxData, MaxChunks} \subseteq Nat

Hops == 1..(MaxRedirects + 1)

VARIABLES
  mode,      \* request.redirect
  streaming, \* the request body is a ReadableStream
  fetch,     \* what fetch.js keeps for the request, see FetchInit
  client,    \* HttpClient: the count of redirects and the hop of #client, or 0
  hop,       \* for each hop the native client and its connection, see NewHop
  refs,      \* the connections that hold the loop (tjs__lws_conn_ref)
  event,     \* <<hop, callback>> while an ESTABLISHED event is delivered
  upload,    \* the chunks that the body stream has left, and its pending reads
  delivered  \* history: the hop of each chunk that went into the body

fetchVars == <<mode, streaming, fetch, client, hop, refs, event, upload, delivered>>

NoEvent == <<0, "none">>
End == MaxChunks + 1  \* the end of a request body, behind its chunks
\* The client has a wsi.
Up(h) == hop[h].pinned
\* handlers: what HttpClient made of the callbacks, "deliver", "follow" or "fail".
NewHop == [handlers |-> "deliver", location |-> FALSE, status |-> "none",
           pinned |-> FALSE, completed |-> FALSE, torndown |-> FALSE,
           conn |-> "none", killed |-> FALSE, body |-> FALSE, served |-> 0,
           sendBuf |-> <<>>, bodyDone |-> FALSE, writable |-> FALSE, blocked |-> FALSE,
           wire |-> <<>>]

\* httpclient_connect, and the handshake that asks for the body.
Connecting(body) ==
  [NewHop EXCEPT !.pinned = TRUE, !.conn = "connecting", !.body = body,
                 !.writable = body \/ streaming,
                 !.sendBuf = IF body THEN [i \in 1..MaxChunks |-> i] ELSE <<>>,
                 !.bodyDone = body]

----------------------------------------------------------------------------
\* client.oncomplete of fetch.js.  close() of a stream that is not readable throws.
FetchComplete(f, ok) ==
  [f EXCEPT !.completes = @ + 1, !.controller = FALSE,
            !.stopped = IF ok /\ f.controller /\ f.stream # "readable" THEN "stream" ELSE @,
            !.stream = IF ~f.controller \/ f.stream # "readable" THEN @
                       ELSE IF ok THEN "closed" ELSE "errored",
            !.timers = IF ok \/ f.resolved THEN @ ELSE Append(@, "rejected")]

\* httpclient_teardown.
\* Mutant: it runs for every terminal callback.
DownAgain(h) == TRUE
Down(h) == ~hop[h].torndown

\* The client reports COMPLETE, unless it did, and a redirect opens the next hop, if
\* it has a Location; 301 to 303 drop the body.  how: "abort", "timer", or the
\* terminal callbacks "complete" and "close", which tear the client down.
\* Mutants: a broken connection ends a body; an abort leaves the connection to the
\* server.
First(h) == ~hop[h].completed
Broken(how) == TRUE
Succeeded(how) == how = "complete"
MarksLess(how) == how = "timer"
Marks(how) == how \in {"abort", "timer"}
Ends(f, h, how) ==
  LET down == how \in {"complete", "close"} /\ Down(h)
      ok == Succeeded(how)
      follows == First(h) /\ ok /\ hop[h].handlers = "follow" /\ hop[h].location
      ended == [hop EXCEPT ![h].completed = TRUE,
                           ![h].killed = @ \/ Marks(how),
                           ![h].pinned = @ /\ ~down,
                           ![h].torndown = @ \/ down,
                           ![h].conn = CASE how = "complete" -> "idle"
                                         [] how = "close" -> "closed"
                                         [] OTHER -> @] IN
  \E opens \in IF h + 1 \in FailingHops THEN BOOLEAN ELSE {TRUE}, keep \in BOOLEAN :
    /\ keep => hop[h].body
    /\ fetch' = IF ~First(h) THEN f
                ELSE IF follows THEN [f EXCEPT !.stopped = IF opens THEN @ ELSE "connect"]
                ELSE FetchComplete(f, ok /\ hop[h].handlers = "deliver")
    /\ hop' = IF follows /\ opens THEN [ended EXCEPT ![h + 1] = Connecting(keep)] ELSE ended
    /\ refs' = refs - (IF down THEN 1 ELSE 0) + (IF follows /\ opens THEN 1 ELSE 0)
    /\ client' = [client EXCEPT !.current = CASE follows -> h + 1
                                              [] how = "abort" -> 0
                                              [] OTHER -> @]

\* HttpClient.abort and tjs_httpclient_abort, which leaves the close to the loop.
ClientAbort(f) ==
  LET h == client.current IN
  IF h # 0 /\ Up(h) /\ ~hop[h].completed
  THEN Ends(f, h, "abort")
  ELSE /\ fetch' = f /\ client' = [client EXCEPT !.current = 0]
       /\ UNCHANGED <<hop, refs>>

----------------------------------------------------------------------------
\* What scripts do.
Script == UNCHANGED <<mode, streaming, event, upload, delivered>>

\* fetch().
Call ==
  /\ Script
  /\ fetch.phase = "idle"
  /\ fetch' = IF fetch.signal = "none"
              THEN [fetch EXCEPT !.phase = "queued"]
              ELSE [fetch EXCEPT !.phase = "sent", !.promise = "rejected"]
  /\ UNCHANGED <<client, hop, refs>>

\* The signal aborts.  fetch listens from sendRequest until the request completes.
SignalAborts ==
  LET when == IF fetch.phase # "sent" THEN "early"
              ELSE IF fetch.resolved \/ fetch.completes > 0 THEN "late" ELSE "intime"
      f == [fetch EXCEPT !.signal = when] IN
  /\ Script
  /\ fetch.signal = "none"
  /\ IF fetch.phase = "sent" /\ fetch.completes = 0
     THEN ClientAbort(f)
     ELSE fetch' = f /\ UNCHANGED <<client, hop, refs>>

\* cancel() of the body.
CancelBody ==
  /\ Script
  /\ fetch.promise = "resolved" /\ fetch.stream = "readable"
  /\ ClientAbort([fetch EXCEPT !.stream = "cancelled"])

\* sendRequest, a microtask.  When open throws, the promise is rejected.  A whole body
\* that is empty counts as none (httpclient.c:473).
SendRequest ==
  /\ Script
  /\ fetch.phase = "queued"
  /\ \E opens \in IF 1 \in FailingHops THEN BOOLEAN ELSE {TRUE}, body \in BOOLEAN :
       /\ body => ~streaming /\ MaxChunks > 0
       /\ fetch' = [fetch EXCEPT !.phase = "sent",
                                 !.promise = IF opens THEN @ ELSE "rejected"]
       /\ hop' = IF opens THEN [hop EXCEPT ![1] = Connecting(body)] ELSE hop
       /\ refs' = IF opens THEN refs + 1 ELSE refs
  /\ client' = [client EXCEPT !.current = 1]

\* The zero timers: the first one settles the promise.
TimerFires ==
  /\ Script
  /\ fetch.timers # <<>> /\ event = NoEvent
  /\ fetch' = [fetch EXCEPT !.timers = Tail(@),
                            !.promise = IF @ = "pending" THEN Head(fetch.timers) ELSE @]
  /\ UNCHANGED <<client, hop, refs>>

----------------------------------------------------------------------------
\* The callbacks of lws.
Callback == event = NoEvent /\ UNCHANGED <<mode, streaming>>

\* ESTABLISHED_CLIENT_HTTP with a status: the callbacks follow.  An informational
\* response is followed by another one.
Established(h) ==
  /\ Callback
  /\ hop[h].conn = "connecting" /\ event' = <<h, "status">>
  /\ UNCHANGED <<fetch, client, hop, refs, upload, delivered>>

\* onstatus of HttpClient.  Bound: one informational response for each hop.
TooMany(n) == n > MaxRedirects
OnStatus(h) ==
  /\ event = <<h, "status">> /\ event' = <<h, "header">>
  /\ \E status \in {"info", "ok", "redirect"} :
       /\ status = "info" => hop[h].status = "none"
       /\ LET redirected == status = "redirect" /\ mode # "manual"
              count == client.redirects + 1 IN
          /\ hop' = [hop EXCEPT ![h].status = status,
                                ![h].handlers = IF ~redirected THEN @
                                                ELSE IF mode = "error" \/ TooMany(count)
                                                THEN "fail" ELSE "follow"]
          /\ client' = [client EXCEPT !.redirects = IF redirected /\ mode = "follow"
                                                    THEN count ELSE @]
          /\ fetch' = IF redirected THEN fetch ELSE [fetch EXCEPT !.status = status]
  /\ UNCHANGED <<mode, streaming, refs, upload, delivered>>

\* onheader: a redirect has a Location that parses, or not.
OnHeader(h) ==
  /\ event = <<h, "header">> /\ event' = <<h, "end">>
  /\ \E location \in BOOLEAN :
       hop' = [hop EXCEPT ![h].location = location /\ hop[h].handlers = "follow"]
  /\ UNCHANGED <<mode, streaming, fetch, client, refs, upload, delivered>>

\* onheadersend: fetch resolves from a timer.
OnHeadersEnd(h) ==
  /\ event = <<h, "end">> /\ event' = NoEvent
  /\ hop' = [hop EXCEPT ![h].conn = IF hop[h].status = "info" THEN "connecting" ELSE "body"]
  /\ fetch' = IF hop[h].handlers # "deliver" \/ fetch.status = "info" THEN fetch
              ELSE [fetch EXCEPT !.resolved = TRUE, !.timers = Append(@, "resolved")]
  /\ UNCHANGED <<mode, streaming, client, refs, upload, delivered>>

\* RECEIVE_CLIENT_HTTP_READ and ondata.  RECEIVE checks for an abort, but one of it
\* can read several times.  enqueue() throws when the stream is not readable.
Read(h) ==
  LET used == hop[h].handlers = "deliver" /\ fetch.controller IN
  /\ Callback
  /\ hop[h].conn = "body" /\ hop[h].served < MaxData
  /\ hop' = [hop EXCEPT ![h].served = @ + 1]
  /\ fetch' = [fetch EXCEPT !.stopped = IF used /\ fetch.stream # "readable" THEN "stream" ELSE @]
  /\ delivered' = IF used /\ fetch.stream = "readable" THEN Append(delivered, h) ELSE delivered
  /\ UNCHANGED <<client, refs, event, upload>>

\* COMPLETED_CLIENT_HTTP.
Completed(h) ==
  /\ Callback
  /\ hop[h].conn = "body" /\ hop[h].served = MaxData
  /\ Ends(fetch, h, "complete")
  /\ UNCHANGED <<event, upload, delivered>>

\* TIMER: the request timeout, which an abort cancels.
TimedOut(h) ==
  /\ Callback
  /\ hop[h].conn \in {"connecting", "body"} /\ ~hop[h].completed
  /\ Ends(fetch, h, "timer")
  /\ UNCHANGED <<event, upload, delivered>>

\* CLOSED_CLIENT_HTTP and CLIENT_CONNECTION_ERROR; for the connection of a request
\* that is over this is nothing.
Closed(h) ==
  /\ Callback
  /\ hop[h].conn \in {"connecting", "body", "idle"}
  /\ IF hop[h].conn = "idle" /\ ~Down(h)
     THEN hop' = [hop EXCEPT ![h].conn = "closed"] /\ UNCHANGED <<fetch, client, refs>>
     ELSE Ends(fetch, h, "close")
  /\ UNCHANGED <<event, upload, delivered>>

----------------------------------------------------------------------------
\* The request body.

\* ondrain reads the stream once more.
Drained == upload' = [upload EXCEPT !.reads = @ + 1]

\* CLIENT_HTTP_WRITEABLE of a stream: what is buffered, or the end, or nothing.
AskAgain(h) == hop[h].bodyDone /\ hop[h].sendBuf # <<>>
WriteStream(h) ==
  /\ Callback
  /\ streaming /\ hop[h].writable /\ hop[h].conn \in {"connecting", "body"} /\ ~hop[h].killed
  /\ hop' = [hop EXCEPT ![h].writable = AskAgain(h),
                        ![h].sendBuf = <<>>,
                        ![h].wire = IF hop[h].sendBuf # <<>> THEN @ \o hop[h].sendBuf
                                    ELSE IF hop[h].bodyDone THEN Append(@, End) ELSE @]
  /\ IF hop[h].bodyDone THEN UNCHANGED upload ELSE Drained
  /\ UNCHANGED <<fetch, client, refs, event, delivered>>

\* CLIENT_HTTP_WRITEABLE of a whole body: as much as the window of the peer takes,
\* the end with the last of it; with no window, a window update asks again.
WriteBody(h) ==
  LET left == hop[h].sendBuf IN
  /\ Callback
  /\ hop[h].body /\ hop[h].writable /\ hop[h].conn \in {"connecting", "body"} /\ ~hop[h].killed
  /\ \E n \in 0..Len(left) :
       hop' = [hop EXCEPT ![h].wire = @ \o SubSeq(left, 1, n)
                                        \o (IF n > 0 /\ n = Len(left) THEN <<End>> ELSE <<>>),
                          ![h].sendBuf = SubSeq(left, n + 1, Len(left)),
                          ![h].writable = n > 0 /\ n < Len(left),
                          ![h].blocked = n = 0 /\ left # <<>>]
  /\ UNCHANGED <<fetch, client, refs, event, upload, delivered>>

WindowUpdate(h) ==
  /\ Callback
  /\ hop[h].blocked /\ ~hop[h].killed
  /\ hop' = [hop EXCEPT ![h].blocked = FALSE, ![h].writable = TRUE]
  /\ UNCHANGED <<fetch, client, refs, event, upload, delivered>>

\* A read settles and its chunk goes to the client of the time: tjs_httpclient_senddata.
\* Mutant: only the first chunk asks for a write.
AskOnce(h) == hop[h].wire = <<>>
AskWrite(h) == TRUE
ReadSettles ==
  LET h == client.current IN
  /\ upload.reads > 0
  /\ upload' = [source |-> IF upload.source > 0 THEN upload.source - 1 ELSE 0,
                reads |-> upload.reads - 1]
  /\ hop' = IF h = 0 THEN hop
            ELSE [hop EXCEPT
                    ![h].sendBuf = IF upload.source = 0 THEN @
                                   ELSE Append(@, MaxChunks - upload.source + 1),
                    ![h].writable = @ \/ (Up(h) /\ AskWrite(h)
                                            /\ (upload.source > 0 \/ ~hop[h].bodyDone)),
                    ![h].bodyDone = @ \/ upload.source = 0]
  /\ UNCHANGED <<mode, streaming, fetch, client, refs, event, delivered>>

\* The stream fails, or gives something that is no chunk.
ReadFails ==
  /\ upload.reads > 0
  /\ upload' = [source |-> 0, reads |-> upload.reads - 1]
  /\ \E reject \in BOOLEAN :
       ClientAbort([fetch EXCEPT !.promise = IF reject /\ @ = "pending" THEN "rejected" ELSE @])
  /\ UNCHANGED <<mode, streaming, event, delivered>>

FetchInit ==
  /\ mode \in {"follow", "error", "manual"} /\ streaming \in BOOLEAN
  /\ fetch = [phase |-> "idle", signal |-> "none", promise |-> "pending", timers |-> <<>>,
              resolved |-> FALSE, status |-> "none", controller |-> TRUE,
              stream |-> "readable", completes |-> 0, stopped |-> "no"]
  /\ client = [redirects |-> 0, current |-> 0]
  /\ hop = [h \in Hops |-> NewHop]
  /\ refs = 0 /\ event = NoEvent /\ delivered = <<>>
  /\ upload = [source |-> MaxChunks, reads |-> 0]

\* A program that was stopped does no more.
FetchNext ==
  /\ fetch.stopped = "no"
  /\ \/ Call \/ SignalAborts \/ CancelBody \/ SendRequest \/ TimerFires
     \/ ReadSettles \/ ReadFails
     \/ \E h \in Hops :
          \/ Established(h) \/ OnStatus(h) \/ OnHeader(h) \/ OnHeadersEnd(h) \/ Read(h)
          \/ Completed(h) \/ TimedOut(h) \/ Closed(h)
          \/ WriteStream(h) \/ WriteBody(h) \/ WindowUpdate(h)

FetchSpec == FetchInit /\ [][FetchNext]_fetchVars

\* Microtasks and timers run, a callback goes on to the next one, and lws closes
\* what was marked to be closed.
FairSpec ==
  /\ FetchSpec /\ WF_fetchVars(SendRequest) /\ WF_fetchVars(TimerFires)
  /\ \A h \in Hops : /\ WF_fetchVars(OnStatus(h) \/ OnHeader(h) \/ OnHeadersEnd(h))
                     /\ WF_fetchVars(hop[h].killed /\ Closed(h))

----------------------------------------------------------------------------
\* The range of every variable; a client that reported is not waiting for a timer.
FetchTypeOK ==
  /\ mode \in {"follow", "error", "manual"} /\ streaming \in BOOLEAN
  /\ fetch.phase \in {"idle", "queued", "sent"}
  /\ fetch.signal \in {"none", "early", "intime", "late"}
  /\ fetch.promise \in {"pending", "resolved", "rejected"}
  /\ fetch.stream \in {"readable", "closed", "errored", "cancelled"}
  /\ fetch.completes \in 0..1 /\ Len(fetch.timers) <= 2
  /\ client.redirects \in Nat /\ client.current \in 0..(MaxRedirects + 2)
  /\ \A h \in Hops : /\ hop[h].handlers \in {"deliver", "follow", "fail"}
                     /\ hop[h].conn \in {"none", "connecting", "body", "idle", "closed"}
  /\ refs \in Int

\* The loop is held once for each client that is not torn down, whichever terminal
\* callbacks come, and such a client is pinned: one that is missing lets the process
\* exit early, one too many keeps it alive for ever.
RefsExact == refs = Cardinality({h \in Hops : Up(h)})

\* At most one client of a request waits for its response, and kMaxRedirects
\* redirects are followed and no more.
OneClient ==
  /\ Cardinality({h \in Hops : Up(h) /\ ~hop[h].completed}) <= 1
  /\ client.current <= MaxRedirects + 1

\* No handler uses a stream that is not readable, which would throw and stop the
\* program: the controller is gone before, also when scripts cancel or abort between
\* the callbacks.  (A redirect to where no connection can be opened does stop it.)
StreamSound == fetch.stopped # "stream"

\* A fetch that was aborted after its request was sent, and before its response, does not
\* resolve, although the headers may still be delivered after the abort.
AbortWins == fetch.signal = "intime" => fetch.promise # "resolved"

\* A fetch does not resolve that was aborted at any time before its response
\* (tests/test-fetch-stream-abort.js:26).
AbortBeforeResponse ==
  fetch.signal \in {"early", "intime"} => fetch.promise # "resolved"

\* A body that ends is whole and of one response: neither that of a redirect nor one
\* that broke off ends it.
BodyWhole ==
  fetch.stream = "closed" =>
    /\ Len(delivered) = MaxData
    /\ \A i \in DOMAIN delivered : hop[delivered[i]].handlers = "deliver"

\* The chunks of a request body are written in order, the end once and last.
UploadFramed ==
  \A h \in Hops : \A i, j \in DOMAIN hop[h].wire :
    i < j => hop[h].wire[i] < hop[h].wire[j]

\* An upload never stalls: what is left to write has asked for a write, waits for the
\* window of the peer, or waits for a read.
UploadMoves ==
  \A h \in Hops :
    LET x == hop[h] IN
    Up(h) /\ ~x.killed /\ End \notin {x.wire[i] : i \in DOMAIN x.wire} =>
      /\ streaming => \/ x.writable
                      \/ x.sendBuf = <<>> /\ ~x.bodyDone /\ upload.reads > 0
      /\ x.body => x.writable \/ x.blocked

\* Once the request is over, however it ended, the promise is settled, the connection
\* is let go, and so the process can exit.
CompletionSettles ==
  fetch.completes > 0 ~> fetch.promise # "pending" /\ refs = 0

\* The native clients of a request: each holds the loop until it is torn down, one waits.
ClientsSound == FetchTypeOK /\ RefsExact /\ OneClient

\* What scripts see of the response: a body that ends is whole, an abort after
\* the request was sent wins over it, and no callback trips over a stream that scripts closed.
BodySound == StreamSound /\ AbortWins /\ BodyWhole

\* The request body is written in order, and it moves.
UploadSound == UploadFramed /\ UploadMoves

=============================================================================
