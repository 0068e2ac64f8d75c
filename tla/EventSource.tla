----------------------------- MODULE EventSource -----------------------------
(***************************************************************************)
(* One EventSource (src/src/js/polyfills/eventsource.js) on top of fetch() *)
(* (polyfills/fetch/fetch.js) and a server that resumes after the          *)
(* Last-Event-ID it is sent.                                               *)
(*                                                                         *)
(* #connect is a coroutine: each of its awaits is a place where close()    *)
(* may come; so is every listener of an event it dispatches.  A connection *)
(* has a coroutine, a request and a parser's share of the stream.  The     *)
(* stream is lines of events, <<field, n>>: id, data and the blank line of *)
(* event n; a line may arrive in two pieces.                               *)
(***************************************************************************)
EXTENDS Integers, Sequences, FiniteSets

CONSTANTS
  MaxConns,  \* bound: no more than so many connections
  MaxEvent   \* bound: the events the server has

ASSUME EventSourceAssumption == MaxConns \in Nat \ {0} /\ MaxEvent \in Nat

Conns == 1..MaxConns

VARIABLES
  \* EventSource
  readyState,
  closed,        \* close() was called
  current,       \* the connection whose controller #abortController is, or 0
  timer,         \* #reconnectTimer is set
  lastEventId, lastEventIdBuffer, dataBuffer,  \* 0: empty
  buffer,        \* the connection whose half line is in #buffer, or 0
  listening,     \* a listener of an event dispatched synchronously is running
  \* the connections
  pc,            \* where the coroutine is
  feeding,       \* the pieces of the chunk #feed is splitting
  \* fetch and the network
  net,           \* "none", "unsent" (sendRequest is a microtask), "sent", "over"
  answer,        \* the response: "none", "good" or "bad" (status or type)
  arrived,       \* pieces that wait in the body
  served,        \* <<lines the server has written, half of the next one>>
  \* history
  heard,         \* the messages that were dispatched, each with its lastEventId
  tick           \* flips with every event that is dispatched

sourceVars == <<readyState, closed, current, timer, listening>>
parserVars == <<lastEventId, lastEventIdBuffer, dataBuffer, buffer, feeding>>
netVars == <<net, answer, arrived, served>>
heardVars == <<heard, tick>>
vars == <<sourceVars, parserVars, netVars, pc, heardVars>>

Busy(c) == pc[c] \notin {"none", "done"}
Line(i) == <<CASE i % 3 = 1 -> "id" [] i % 3 = 2 -> "data" [] OTHER -> "blank",
             ((i - 1) \div 3) + 1>>
Announce == tick' = ~tick /\ UNCHANGED heard

----------------------------------------------------------------------------
\* fetch: what abort() of the signal does.  The listener is added by sendRequest
\* only, so before that an abort is not noticed.
AbortFetch(c) ==
  IF net[c] = "sent"
  THEN /\ net' = [net EXCEPT ![c] = "over"]
       /\ arrived' = [arrived EXCEPT ![c] = <<>>]
  ELSE UNCHANGED <<net, arrived>>

\* cancel() of the body ends a request that is under way.
CancelBody(c) == AbortFetch(c) /\ UNCHANGED <<answer, served>>

\* EventSource.close, between callbacks or in a listener.
Close ==
  /\ ~closed /\ closed' = TRUE
  /\ listening \/ \A c \in Conns : pc[c] \notin {"feeding", "erroring"}
  /\ readyState' = "CLOSED"
  /\ timer' = FALSE
  /\ IF current = 0 THEN UNCHANGED netVars ELSE CancelBody(current)
  /\ UNCHANGED <<current, listening, parserVars, pc, heardVars>>

----------------------------------------------------------------------------
\* The first half of #connect, up to the await of the response.
\* Mutant: the id that was only parsed is the one to resume after.
ResumeParsed == lastEventIdBuffer
ResumeAfter == lastEventId
NoHalf == 0
Connect(c) ==
  IF readyState = "CLOSED"
  THEN /\ pc' = [pc EXCEPT ![c] = "done"]
       /\ UNCHANGED <<current, parserVars, net, served>>
  ELSE /\ pc' = [pc EXCEPT ![c] = "fetching"] /\ current' = c
       /\ buffer' = NoHalf /\ dataBuffer' = 0
       /\ lastEventIdBuffer' = ResumeAfter
       /\ net' = [net EXCEPT ![c] = "unsent"]
       /\ served' = [served EXCEPT ![c] = <<3 * ResumeAfter, FALSE>>]
       /\ UNCHANGED <<lastEventId, feeding>>

\* The microtask of the constructor.
FirstConnect ==
  /\ pc[1] = "queued" /\ Connect(1)
  /\ UNCHANGED <<readyState, closed, timer, listening, answer, arrived, heardVars>>

\* The reconnect timer.
TimerFires ==
  /\ timer /\ timer' = FALSE
  /\ \E c \in Conns : /\ pc[c] = "none" /\ c = current + 1
                      /\ Connect(c)
  /\ UNCHANGED <<readyState, closed, listening, answer, arrived, heardVars>>

\* #reconnect up to the listeners of its error event.
Reconnect(c) ==
  IF readyState = "CLOSED"
  THEN /\ pc' = [pc EXCEPT ![c] = "done"] /\ UNCHANGED <<readyState, listening, heardVars>>
  ELSE /\ readyState' = "CONNECTING" /\ Announce /\ listening' = TRUE
       /\ pc' = [pc EXCEPT ![c] = "erroring"]

\* The rest of it, which ends the coroutine.
\* Mutant: a close() in a listener is not noticed.
RearmAlways == TRUE
Rearm == readyState # "CLOSED"
ArmTimer(c) ==
  /\ pc[c] = "erroring" /\ pc' = [pc EXCEPT ![c] = "done"]
  /\ timer' = Rearm /\ listening' = FALSE
  /\ UNCHANGED <<readyState, closed, current, parserVars, netVars, heardVars>>

\* fetch rejects: the request is over and there was no response.
FetchRejects(c) ==
  /\ pc[c] = "fetching" /\ net[c] = "over" /\ answer[c] = "none"
  /\ Reconnect(c)
  /\ UNCHANGED <<closed, current, timer, parserVars, netVars>>

\* fetch resolves, a timer after the headers came: the request may be over.
\* Mutant: the close() of a source whose fetch was under way is not noticed.
WasClosedLate == FALSE
WasClosed == readyState = "CLOSED"
FetchResolves(c) ==
  /\ pc[c] = "fetching" /\ answer[c] # "none"
  /\ IF WasClosed \/ answer[c] = "bad"
     THEN /\ CancelBody(c)
          /\ pc' = [pc EXCEPT ![c] = IF WasClosed THEN "dropping" ELSE "failing"]
          /\ UNCHANGED <<readyState, heardVars>>
     ELSE /\ readyState' = "OPEN" /\ Announce
          /\ pc' = [pc EXCEPT ![c] = "reading"]
          /\ UNCHANGED netVars
  /\ UNCHANGED <<closed, current, timer, listening, parserVars>>

\* After the await of #cancelBody: nothing more, or #failConnection.
Cancelled(c) ==
  /\ pc[c] \in {"dropping", "failing"} /\ pc' = [pc EXCEPT ![c] = "done"]
  /\ IF pc[c] = "failing" /\ readyState # "CLOSED"
     THEN readyState' = "CLOSED" /\ Announce
     ELSE UNCHANGED <<readyState, heardVars>>
  /\ UNCHANGED <<closed, current, timer, listening, parserVars, netVars>>

\* reader.read() gives a chunk, of one piece or more, or the end.
ReadChunk(c) ==
  /\ pc[c] = "reading"
  /\ \E k \in 1..Len(arrived[c]) :
       /\ feeding' = SubSeq(arrived[c], 1, k)
       /\ arrived' = [arrived EXCEPT ![c] = SubSeq(@, k + 1, Len(@))]
  /\ pc' = [pc EXCEPT ![c] = "feeding"]
  /\ UNCHANGED <<sourceVars, lastEventId, lastEventIdBuffer, dataBuffer, buffer, net, answer,
                 served, heardVars>>

ReadEnds(c) ==
  /\ pc[c] = "reading" /\ net[c] = "over" /\ arrived[c] = <<>>
  /\ Reconnect(c)
  /\ UNCHANGED <<closed, current, timer, parserVars, netVars>>

\* #dispatchMessage.
MayDispatch == readyState # "CLOSED"
DispatchMessage ==
  /\ lastEventId' = lastEventIdBuffer /\ dataBuffer' = 0
  /\ IF dataBuffer # 0 /\ MayDispatch
     THEN /\ heard' = Append(heard, <<dataBuffer, lastEventIdBuffer>>)
          /\ tick' = ~tick /\ listening' = TRUE
     ELSE UNCHANGED heardVars /\ listening' = FALSE
  /\ UNCHANGED lastEventIdBuffer

\* #processField.
ProcessField(field, n) ==
  /\ lastEventIdBuffer' = IF field = "id" THEN n ELSE lastEventIdBuffer
  /\ dataBuffer' = IF field = "data" THEN n ELSE dataBuffer
  /\ listening' = FALSE
  /\ UNCHANGED <<lastEventId, heardVars>>

\* #feed, a piece at a time: the first half of a line stays in #buffer, and a line
\* behind the half of another one is a field nobody knows.
Feed(c) ==
  /\ pc[c] = "feeding" /\ feeding # <<>> /\ feeding' = Tail(feeding)
  /\ LET field == Head(feeding)[1][1]
         n == Head(feeding)[1][2]
         piece == Head(feeding)[2]
         whole == buffer = IF piece = "tail" THEN c ELSE 0 IN
     IF piece = "head"
     THEN /\ buffer' = c /\ listening' = FALSE
          /\ UNCHANGED <<lastEventId, lastEventIdBuffer, dataBuffer, heardVars>>
     ELSE /\ buffer' = 0
          /\ IF whole /\ field = "blank" THEN DispatchMessage
             ELSE ProcessField(IF whole THEN field ELSE "unknown", n)
  /\ UNCHANGED <<readyState, closed, current, timer, pc, netVars>>

\* The chunk is split: read on, or leave the loop when closed.
FeedReturns(c) ==
  /\ pc[c] = "feeding" /\ feeding = <<>>
  /\ IF readyState = "CLOSED"
     THEN pc' = [pc EXCEPT ![c] = "done"]
     ELSE pc' = [pc EXCEPT ![c] = "reading"]
  /\ listening' = FALSE
  /\ UNCHANGED <<readyState, closed, current, timer, parserVars, netVars, heardVars>>

----------------------------------------------------------------------------
\* fetch and the network, while no script of the source runs.
Network == /\ ~listening /\ feeding = <<>>
           /\ UNCHANGED <<sourceVars, parserVars, pc, heardVars>>

SendRequest(c) ==
  /\ Network
  /\ net[c] = "unsent" /\ net' = [net EXCEPT ![c] = "sent"]
  /\ UNCHANGED <<answer, arrived, served>>

Respond(c) ==
  /\ Network
  /\ net[c] = "sent" /\ answer[c] = "none"
  /\ \E how \in {"good", "bad"} : answer' = [answer EXCEPT ![c] = how]
  /\ UNCHANGED <<net, arrived, served>>

\* A piece of the stream: a line, or one half of it.
Arrive(c) ==
  LET i == served[c][1] + 1
      half == served[c][2] IN
  /\ Network
  /\ net[c] = "sent" /\ answer[c] = "good" /\ i <= 3 * MaxEvent
  /\ \E piece \in IF half THEN {"tail"} ELSE {"whole", "head"} :
       /\ arrived' = [arrived EXCEPT ![c] = Append(@, <<Line(i), piece>>)]
       /\ served' = [served EXCEPT ![c] =
                       IF piece = "head" THEN <<i - 1, TRUE>> ELSE <<i, FALSE>>]
  /\ UNCHANGED <<net, answer>>

\* The connection ends, or breaks, which drops what was not read.
EndRequest(c) ==
  /\ Network
  /\ net[c] = "sent" /\ net' = [net EXCEPT ![c] = "over"]
  /\ \/ UNCHANGED arrived
     \/ arrived' = [arrived EXCEPT ![c] = <<>>]
  /\ UNCHANGED <<answer, served>>

Init ==
  /\ readyState = "CONNECTING" /\ closed = FALSE /\ current = 0 /\ timer = FALSE
  /\ lastEventId = 0 /\ lastEventIdBuffer = 0 /\ dataBuffer = 0 /\ buffer = 0
  /\ listening = FALSE /\ feeding = <<>> /\ heard = <<>> /\ tick = FALSE
  /\ pc = [c \in Conns |-> IF c = 1 THEN "queued" ELSE "none"]
  /\ net = [c \in Conns |-> "none"] /\ answer = [c \in Conns |-> "none"]
  /\ arrived = [c \in Conns |-> <<>>] /\ served = [c \in Conns |-> <<0, FALSE>>]

\* Steps of the source once #connect runs.
Coroutine(c) ==
  \/ FetchRejects(c) \/ FetchResolves(c) \/ Cancelled(c) \/ ReadChunk(c) \/ ReadEnds(c)
  \/ Feed(c) \/ FeedReturns(c) \/ ArmTimer(c)

Next ==
  \/ Close \/ FirstConnect \/ TimerFires
  \/ \E c \in Conns : \/ Coroutine(c) \/ SendRequest(c) \/ Respond(c) \/ Arrive(c)
                      \/ EndRequest(c)

Spec == Init /\ [][Next]_vars

\* Microtasks and timers run, and a server answers or its connection breaks.
FairSpec ==
  /\ Spec
  /\ WF_vars(FirstConnect) /\ WF_vars(TimerFires)
  /\ \A c \in Conns : /\ WF_vars(Coroutine(c)) /\ WF_vars(SendRequest(c))
                      /\ WF_vars(Respond(c) \/ (answer[c] = "none" /\ EndRequest(c)))

----------------------------------------------------------------------------
\* The range of every variable; the half line is always one of the current connection.
TypeOK ==
  /\ readyState \in {"CONNECTING", "OPEN", "CLOSED"}
  /\ {closed, timer, listening, tick} \subseteq BOOLEAN
  /\ current \in 0..MaxConns /\ buffer \in {0, current}
  /\ {lastEventId, lastEventIdBuffer, dataBuffer} \subseteq 0..MaxEvent
  /\ pc \in [Conns -> {"none", "queued", "fetching", "reading", "feeding", "erroring",
                       "dropping", "failing", "done"}]
  /\ net \in [Conns -> {"none", "unsent", "sent", "over"}]
  /\ answer \in [Conns -> {"none", "good", "bad"}]

\* Whatever drops and whenever, scripts get every event once and in order, each
\* with its own id: resuming after the last event that was dispatched, not parsed,
\* neither skips nor repeats one (the comment at eventsource.js:31).
ExactlyOnce == \A i \in DOMAIN heard : heard[i] = <<i, i>>

\* Nothing is dispatched after close(), at whatever await or in whichever listener
\* it was called, and the source does not leave CLOSED.
SilentAfterClose == [][closed => tick' = tick /\ readyState' = "CLOSED"]_vars

\* A source that is not closed has exactly one thing going on, a connection or the
\* timer, so it neither gives up silently nor connects twice; a closed one has no
\* timer.
OneAttempt ==
  LET busy == Cardinality({c \in Conns : Busy(c)}) IN
  IF readyState = "CLOSED" THEN busy <= 1 /\ ~timer
  ELSE busy = IF timer THEN 0 ELSE 1

\* No request outlives its coroutine: nothing is on the wire that nobody reads.
NoOrphan == \A c \in Conns : net[c] \in {"unsent", "sent"} => Busy(c)

\* After close() everything ends, also a request that was sent after the abort,
\* provided that the server answers it.
CloseEnds == closed ~> \A c \in Conns : ~Busy(c) /\ net[c] \in {"none", "over"}

\* Exactly one attempt at a time, with its request and its half line.
OneConnection == TypeOK /\ OneAttempt /\ NoOrphan

\* close() is final, at whatever await it comes: no event follows, and all ends.
CloseIsFinal == SilentAfterClose /\ CloseEnds

=============================================================================
