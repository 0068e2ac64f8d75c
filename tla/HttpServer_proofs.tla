-------------------------- MODULE HttpServer_proofs --------------------------
(***************************************************************************)
(* Proofs about the HTTP server: its requests and their responses, the     *)
(* callbacks that it asks for, its pin and its WebSockets, for any number  *)
(* of connections and requests.                                            *)
(***************************************************************************)
EXTENDS HttpServer, SequenceTheorems, FiniteSetTheorems, TLAPS

(***************************************************************************)
(* The invariant.                                                          *)
(***************************************************************************)
Pieces == [left : Nat, final : BOOLEAN]
Requests == [live : BOOLEAN, wsi : Wsis \cup {None}, kind : {"none", "length", "chunked"},
             complete : BOOLEAN, dispatched : BOOLEAN, responded : BOOLEAN, streaming : BOOLEAN,
             pending : Seq(Pieces), chunks : Nat, left : Nat]
Connections == [state : {"free", "open", "closing"}, user : Ids \cup {None, Ws},
                tx : {"none", "open", "done", "ws"}, kind : {"none", "length", "chunked"},
                again : BOOLEAN, rest : Nat \cup {Read}, made : Nat, want : BOOLEAN, queue : Nat]
Parts == {"none", "head", "data", "final", "whole"}
Vhosts == {"tcp", "quic"}
Steps == {"none", "handling", "caught", "streaming", "finished", "gone"}

Servers == [state : {"none", "open", "closed", "failed"}, closed : BOOLEAN, count : Int,
            pinned : BOOLEAN, onClose : {"none", "armed", "fired"},
            nextId : 1 .. MaxRequests + 1, upgrades : SUBSET Wsis]

TypeOK ==
  /\ server \in Servers
  /\ vhost \in [alive : SUBSET Vhosts, dying : SUBSET Vhosts, ready : SUBSET Vhosts]
  /\ req \in [Ids -> Requests]
  /\ wsi \in [Wsis -> Connections]
  /\ js \in [Ids -> Steps]
  /\ body \in [Ids -> {"none", "open", "ended", "cancelled", "orphan"}]
  /\ refs \in Int
  /\ frame \in {NoFrame} \cup ({"chunk", "closed"} \X Ids)
  /\ wire \in [Wsis -> (Ids \cup {None}) \X Parts]

\* The pin: what was taken back was taken back after the last vhost.
PinOK ==
  /\ server.state = "none" => ~server.closed
  /\ vhost.dying \subseteq vhost.alive
  /\ Cardinality(vhost.alive) <= server.count
  /\ (server.pinned /\ server.onClose # "fired") \/ vhost.alive = {}

\* The WebSockets that hold the loop.
Established == {w \in Wsis : wsi[w].user = Ws}
RefsOK == IsFiniteSet(Established) /\ refs = Cardinality(Established)

Halfway(w) == wire[w][2] \in {"head", "data"}

\* A request, by where it is: not there, waiting for its body, being answered.
RequestOK(r) ==
  /\ ~req[r].live
       => req[r] = NoRequest /\ js[r] \in {"none", "gone"} /\ body[r] \in {"none", "orphan"}
  /\ r >= server.nextId => ~req[r].live /\ js[r] = "none" /\ body[r] = "none"
  /\ req[r].live => req[r].wsi \in Wsis /\ wsi[req[r].wsi].user = r
  /\ js[r] # "none" /\ req[r].kind = "length" => req[r].complete
  /\ ~req[r].dispatched /\ req[r].live => js[r] = "none"
  /\ js[r] \in {"none", "handling"} => ~req[r].responded
  /\ js[r] = "streaming" => req[r].streaming
  /\ req[r].streaming => req[r].left = 0
  /\ ~req[r].streaming => req[r].pending = <<>>
  /\ ~req[r].responded => req[r].left = 0 /\ ~req[r].streaming
  /\ req[r].left > 0 \/ req[r].pending # <<>> \/ js[r] = "streaming"
       => wire[req[r].wsi][1] = r /\ Halfway(req[r].wsi)
  /\ Running /\ body[r] = "open" => req[r].kind = "chunked" /\ ~req[r].complete

\* A connection: whose it is, what it waits for and what it sent last.
Waits(r) == req[r].left > 0 \/ (req[r].streaming /\ req[r].pending # <<>>)
ConnectionOK(w) ==
  LET u == wsi[w].user IN
  /\ u \in Ids => /\ req[u].live /\ req[u].wsi = w
                  /\ wsi[w].tx = "open" /\ wsi[w].state # "free"
                  /\ ~server.closed /\ Waits(u) => wsi[w].want
                  /\ ~Halfway(w) => wire[w][1] < u
  /\ u = Ws => /\ wsi[w].tx = "ws" /\ wsi[w].rest = Read /\ wsi[w].state # "free"
               /\ wsi[w].want => wsi[w].queue > 0
               /\ ~server.closed /\ wsi[w].queue > 0 => wsi[w].want
  /\ u # Ws => wsi[w].queue = 0
  /\ u = None => ~wsi[w].want /\ (wsi[w].tx = "open" => server.closed)
  /\ wsi[w].made <= 1
  /\ wire[w][1] < server.nextId
  /\ Halfway(w) => u \in Ids /\ wire[w][1] = u /\ req[u].responded

\* The callback that waits for a handler when the connection is gone ended the body.
FrameOK == Running /\ frame[1] = "closed" /\ req[frame[2]].live => body[frame[2]] # "open"

IInv ==
  /\ TypeOK /\ PinOK /\ RefsOK /\ FrameOK
  /\ \A r \in Ids : RequestOK(r)
  /\ \A w \in Wsis : ConnectionOK(w)
----------------------------------------------------------------------------
(* Types.                                                                  *)

\* Request numbers are neither of the other two user pointers.
LEMMA IdsAre == Ids \subseteq Nat \ {None, Ws} /\ None # Ws /\ MaxRequests \in Nat \ {0}
<1> QED
  BY HttpServerAssumption DEF Ids, None, Ws

\* A request is forgotten.
LEMMA GoneType ==
  ASSUME TypeOK, NEW r \in Ids, Gone(r)
  PROVE  /\ req' \in [Ids -> Requests] /\ js' \in [Ids -> Steps]
         /\ body' \in [Ids -> {"none", "open", "ended", "cancelled", "orphan"}]
         /\ req'[r] = NoRequest /\ js'[r] = "gone"
         /\ body'[r] = IF body[r] = "open" THEN "orphan" ELSE "none"
         /\ \A q \in Ids \ {r} : req'[q] = req[q] /\ js'[q] = js[q] /\ body'[q] = body[q]
<1>1. NoRequest \in Requests
  BY EmptySeq, IdsAre DEF NoRequest, Requests
<1> QED
  BY <1>1 DEF Gone, TypeOK, Steps

\* A transaction is completed.
LEMMA CompleteType ==
  ASSUME TypeOK, NEW r \in Ids, NEW w \in Wsis, req[r].wsi = w,
         \E closes \in BOOLEAN : Complete(r, closes)
  PROVE  /\ Gone(r) /\ wsi' \in [Wsis -> Connections]
         /\ \A v \in Wsis \ {w} : wsi'[v] = wsi[v]
         /\ wsi'[w].user = ClearUser(w, r) /\ wsi'[w].tx = "done" /\ ~wsi'[w].want
         /\ wsi'[w].state \in {"closing", wsi[w].state}
         /\ wsi'[w].queue = wsi[w].queue /\ wsi'[w].made = wsi[w].made
<1>1. wsi[w] \in Connections
  BY DEF TypeOK
<1>2. PICK closes \in BOOLEAN : Complete(r, closes)
  OBVIOUS
<1>3. wsi'[w] = [wsi[w] EXCEPT !.user = ClearUser(w, r), !.tx = "done", !.want = FALSE,
                        !.state = IF closes THEN "closing" ELSE wsi[w].state]
  BY <1>2 DEF Complete, TypeOK
<1>4. wsi' = [wsi EXCEPT ![w] = wsi'[w]]
  BY <1>2, <1>3 DEF Complete, TypeOK
<1>5. wsi'[w] \in Connections
  BY <1>1, <1>3 DEF Connections, ClearUser
<1>6. Gone(r)
  BY <1>2 DEF Complete
<1>7. wsi' \in [Wsis -> Connections] /\ \A v \in Wsis \ {w} : wsi'[v] = wsi[v]
  BY <1>4, <1>5 DEF TypeOK
<1>8. /\ wsi'[w].user = ClearUser(w, r) /\ wsi'[w].tx = "done" /\ ~wsi'[w].want
      /\ wsi'[w].state \in {"closing", wsi[w].state}
      /\ wsi'[w].queue = wsi[w].queue /\ wsi'[w].made = wsi[w].made
  BY <1>1, <1>3 DEF Connections
<1> QED
  BY <1>6, <1>7, <1>8

\* A transaction or the end of one makes a request or none.
LEMMA ArriveType ==
  ASSUME TypeOK, NEW w \in Wsis, NEW conn \in Connections, Arrive(w, conn)
  PROVE  /\ server' \in Servers /\ req' \in [Ids -> Requests] /\ js' \in [Ids -> Steps]
         /\ wsi' \in [Wsis -> Connections]
         /\ body' \in [Ids -> {"none", "open", "ended", "cancelled", "orphan"}]
         /\ \A v \in Wsis \ {w} : wsi'[v] = wsi[v]
<1>1. CASE New(w) /\ ~server.closed
  <2> DEFINE r == server.nextId
             c == [conn EXCEPT !.user = r, !.made = conn.made + 1]
             q == [NoRequest EXCEPT !.live = TRUE, !.wsi = w, !.kind = conn.kind,
                                    !.complete = conn.kind = "none",
                                    !.dispatched = conn.kind # "length"]
  <2>1. /\ r \in Ids /\ server' = [server EXCEPT !.nextId = @ + 1]
        /\ wsi' = [wsi EXCEPT ![w] = c] /\ req' = [req EXCEPT ![r] = q]
        /\ IF conn.kind = "length" THEN UNCHANGED <<js, body>> ELSE Dispatch(r, conn.kind)
    BY <1>1 DEF Arrive
  <2>2. c \in Connections
    <3>1. conn.made \in Nat /\ conn.made + 1 \in Nat
      BY DEF Connections
    <3>2. r \in Ids \cup {None, Ws}
      BY <2>1
    <3> HIDE DEF r
    <3> DEFINE m == conn.made + 1
    <3> HIDE DEF m
    <3> QED
      BY <3>1, <3>2 DEF Connections, m
  <2>3. q \in Requests
    BY <2>1, EmptySeq, IdsAre DEF NoRequest, Requests, Connections
  <2>4. server' \in Servers
    <3>1. server \in Servers /\ r + 1 \in 1 .. MaxRequests + 1
      BY <2>1, IdsAre DEF TypeOK, Ids
    <3> DEFINE m == server.nextId + 1
    <3> HIDE DEF r, m
    <3>2. m \in 1 .. MaxRequests + 1
      BY <3>1 DEF m, r
    <3>3. server' = [server EXCEPT !.nextId = m]
      BY <2>1 DEF m
    <3> QED
      BY <3>1, <3>2, <3>3 DEF Servers
  <2>5. js' \in [Ids -> Steps] /\ body' \in [Ids -> {"none", "open", "ended", "cancelled", "orphan"}]
    BY <2>1 DEF Dispatch, TypeOK, Steps
  <2> HIDE DEF c, q
  <2> QED
    BY <2>1, <2>2, <2>3, <2>4, <2>5 DEF TypeOK
<1>2. CASE ~(New(w) /\ ~server.closed)
  BY <1>2 DEF Arrive, TypeOK
<1> QED
  BY <1>1, <1>2

\* The server, its vhosts and its upgrades keep their types.
LEMMA ServerTypes ==
  ASSUME TypeOK, PinOK,
         Create \/ Close \/ (\E v \in Vhosts : ProtocolInit(v) \/ ProtocolDestroy(v))
  PROVE  TypeOK'
<1>0. /\ server \in Servers
      /\ vhost \in [alive : SUBSET Vhosts, dying : SUBSET Vhosts, ready : SUBSET Vhosts]
  BY DEF TypeOK
<1> SUFFICES /\ server' \in Servers /\ UNCHANGED <<req, wsi, js, body, refs, frame, stopped, wire>>
             /\ vhost' \in [alive : SUBSET Vhosts, dying : SUBSET Vhosts, ready : SUBSET Vhosts]
  BY DEF TypeOK
<1>1. CASE Create
  <2> USE <1>0, <1>1
  <2>1. PICK http3 \in Http3 : \E fails \in {FALSE, http3} : \E made \in {http3, http3 /\ ~fails} :
          LET vs == {"tcp"} \cup (IF made THEN {"quic"} ELSE {}) IN
          /\ server' = [server EXCEPT !.state = IF fails THEN "failed" ELSE "open",
                          !.closed = fails, !.count = Count(vs), !.pinned = TRUE,
                          !.onClose = IF fails THEN "none" ELSE "armed"]
          /\ vhost' = [vhost EXCEPT !.alive = vs, !.dying = IF fails THEN vs ELSE {}]
    BY DEF Create
  <2>a. PICK fails \in {FALSE, http3} : \E made \in {http3, http3 /\ ~fails} :
          LET vs == {"tcp"} \cup (IF made THEN {"quic"} ELSE {}) IN
          /\ server' = [server EXCEPT !.state = IF fails THEN "failed" ELSE "open",
                          !.closed = fails, !.count = Count(vs), !.pinned = TRUE,
                          !.onClose = IF fails THEN "none" ELSE "armed"]
          /\ vhost' = [vhost EXCEPT !.alive = vs, !.dying = IF fails THEN vs ELSE {}]
    BY <2>1
  <2>b. PICK made \in {http3, http3 /\ ~fails} :
          LET vs == {"tcp"} \cup (IF made THEN {"quic"} ELSE {}) IN
          /\ server' = [server EXCEPT !.state = IF fails THEN "failed" ELSE "open",
                          !.closed = fails, !.count = Count(vs), !.pinned = TRUE,
                          !.onClose = IF fails THEN "none" ELSE "armed"]
          /\ vhost' = [vhost EXCEPT !.alive = vs, !.dying = IF fails THEN vs ELSE {}]
    BY <2>a
  <2>2. http3 \in BOOLEAN /\ fails \in BOOLEAN /\ made \in BOOLEAN
    BY HttpServerAssumption
  <2> DEFINE vs == {"tcp"} \cup (IF made THEN {"quic"} ELSE {})
  <2>3. vs \in SUBSET Vhosts /\ Count(vs) \in Nat
    <3>1. IsFiniteSet(vs)
      BY <2>2, FS_EmptySet, FS_Singleton, FS_Union
    <3> QED
      BY <3>1, FS_CardinalityType DEF Count, Vhosts
  <2> HIDE DEF vs
  <2>4. /\ server' = [server EXCEPT !.state = IF fails THEN "failed" ELSE "open",
                          !.closed = fails, !.count = Count(vs), !.pinned = TRUE,
                          !.onClose = IF fails THEN "none" ELSE "armed"]
        /\ vhost' = [vhost EXCEPT !.alive = vs, !.dying = IF fails THEN vs ELSE {}]
    BY <2>b DEF vs
  <2>5. server' \in Servers
    <3> DEFINE st == IF fails THEN "failed" ELSE "open"
               oc == IF fails THEN "none" ELSE "armed"
               n == Count(vs)
    <3>1. /\ st \in {"none", "open", "closed", "failed"} /\ oc \in {"none", "armed", "fired"}
          /\ n \in Int
      BY <2>3
    <3>2. server' = [server EXCEPT !.state = st, !.closed = fails, !.count = n, !.pinned = TRUE,
                                   !.onClose = oc]
      BY <2>4
    <3> HIDE DEF st, oc, n
    <3> QED
      BY <2>2, <3>1, <3>2 DEF Servers
  <2> QED
    BY <2>2, <2>3, <2>4, <2>5 DEF Create
<1>2. CASE Close
  BY <1>0, <1>2 DEF Close, Servers
<1>3. ASSUME NEW v \in Vhosts, ProtocolInit(v)
      PROVE  /\ server' \in Servers /\ UNCHANGED <<req, wsi, js, body, refs, frame, stopped, wire>>
             /\ vhost' \in [alive : SUBSET Vhosts, dying : SUBSET Vhosts, ready : SUBSET Vhosts]
  BY <1>0, <1>3 DEF ProtocolInit
<1>4. ASSUME NEW v \in Vhosts, ProtocolDestroy(v)
      PROVE  /\ server' \in Servers /\ UNCHANGED <<req, wsi, js, body, refs, frame, stopped, wire>>
             /\ vhost' \in [alive : SUBSET Vhosts, dying : SUBSET Vhosts, ready : SUBSET Vhosts]
  <2>1. /\ vhost' = [vhost EXCEPT !.alive = @ \ {v}, !.dying = @ \ {v}]
        /\ server' = IF v \notin vhost.ready THEN server
                     ELSE [server EXCEPT !.count = @ - 1, !.pinned = @ /\ ~Last,
                                         !.onClose = IF Last /\ @ = "armed" THEN "fired" ELSE @]
        /\ UNCHANGED <<req, wsi, js, body, refs, frame, stopped, wire>>
    BY <1>4 DEF ProtocolDestroy
  <2> DEFINE n == server.count - 1
             p == server.pinned /\ ~Last
             oc == IF Last /\ server.onClose = "armed" THEN "fired" ELSE server.onClose
  <2>2. n \in Int /\ p \in BOOLEAN /\ oc \in {"none", "armed", "fired"}
    <3>1. n \in Int /\ p \in BOOLEAN
      BY <1>0 DEF Servers
    <3>2. oc \in {"none", "armed", "fired"}
      BY <1>0 DEF Servers
    <3> QED
      BY <3>1, <3>2
  <2>3. v \in vhost.ready => server' = [server EXCEPT !.count = n, !.pinned = p, !.onClose = oc]
    BY <2>1
  <2> HIDE DEF n, p, oc
  <2>4. server' \in Servers
    BY <1>0, <2>1, <2>2, <2>3 DEF Servers
  <2>5. vhost' \in [alive : SUBSET Vhosts, dying : SUBSET Vhosts, ready : SUBSET Vhosts]
    BY <1>0, <2>1
  <2> QED
    BY <2>1, <2>4, <2>5
<1> QED
  BY <1>1, <1>2, <1>3, <1>4

\* A connection that changes is still one.
LEMMA ConnectionTypes ==
  ASSUME TypeOK, NEW w \in Wsis,
         Connect(w) \/ WriteIgnored(w) \/ WsSend(w) \/ Drop(w) \/ Upgrade(w)
  PROVE  TypeOK'
<1>0. wsi[w] \in Connections /\ server \in Servers
  BY DEF TypeOK
<1>1. CASE Connect(w)
  <2>1. [wsi[w] EXCEPT !.state = "open"] \in Connections
    BY <1>0 DEF Connections
  <2> QED
    BY <1>1, <2>1 DEF Connect, TypeOK
<1>2. CASE WriteIgnored(w)
  <2>1. [wsi[w] EXCEPT !.want = FALSE] \in Connections
    BY <1>0 DEF Connections
  <2> QED
    BY <1>2, <2>1 DEF WriteIgnored, Writes, TypeOK
<1>3. CASE WsSend(w)
  <2>1. [wsi[w] EXCEPT !.queue = wsi[w].queue + 1, !.want = TRUE] \in Connections
    <3> DEFINE n == wsi[w].queue + 1
    <3>1. n \in Nat
      BY <1>0 DEF Connections
    <3> HIDE DEF n
    <3>2. [wsi[w] EXCEPT !.queue = n, !.want = TRUE] \in Connections
      BY <1>0, <3>1 DEF Connections
    <3> QED
      BY <3>2 DEF n
  <2>2. wsi' = [wsi EXCEPT ![w] = [wsi[w] EXCEPT !.queue = wsi[w].queue + 1, !.want = TRUE]]
    BY <1>3 DEF WsSend, TypeOK
  <2> QED
    BY <1>3, <2>1, <2>2 DEF WsSend, TypeOK
<1>4. CASE Drop(w)
  <2>1. [wsi[w] EXCEPT !.state = "closing"] \in Connections
    BY <1>0 DEF Connections
  <2> QED
    BY <1>4, <2>1 DEF Drop, TypeOK
<1>5. CASE Upgrade(w)
  <2>1. PICK accepts \in BOOLEAN, sent \in BOOLEAN :
          LET pending == server.upgrades \cup (IF accepts THEN {w} ELSE {})
              up == w \in pending /\ sent IN
          /\ server' = [server EXCEPT !.upgrades = IF up THEN pending \ {w} ELSE pending]
          /\ wsi' = [wsi EXCEPT ![w].tx = "ws", ![w].rest = Read,
                                ![w].user = IF up THEN Ws ELSE wsi[w].user,
                                ![w].state = IF up THEN wsi[w].state ELSE "closing"]
          /\ refs' = refs + (IF up THEN 1 ELSE 0)
    BY <1>5 DEF Upgrade, TypeOK
  <2> DEFINE pending == server.upgrades \cup (IF accepts THEN {w} ELSE {})
             up == w \in pending /\ sent
  <2>2. pending \subseteq Wsis /\ up \in BOOLEAN
    BY <1>0 DEF Servers
  <2> HIDE DEF pending, up
  <2>3. /\ server' = [server EXCEPT !.upgrades = IF up THEN pending \ {w} ELSE pending]
        /\ wsi' = [wsi EXCEPT ![w].tx = "ws", ![w].rest = Read,
                              ![w].user = IF up THEN Ws ELSE wsi[w].user,
                              ![w].state = IF up THEN wsi[w].state ELSE "closing"]
    BY <2>1 DEF pending, up
  <2>4. [wsi[w] EXCEPT !.tx = "ws", !.rest = Read, !.user = IF up THEN Ws ELSE wsi[w].user,
                       !.state = IF up THEN wsi[w].state ELSE "closing"] \in Connections
    BY <1>0, <2>2 DEF Connections
  <2>5. server' \in Servers
    BY <1>0, <2>2, <2>3 DEF Servers
  <2>6. wsi' \in [Wsis -> Connections]
    BY <2>3, <2>4 DEF TypeOK
  <2>7. refs' \in Int
    <3>1. refs' = refs + (IF up THEN 1 ELSE 0) /\ refs \in Int
      BY <2>1 DEF TypeOK, up, pending
    <3> QED
      BY <3>1
  <2> QED
    BY <1>5, <2>5, <2>6, <2>7 DEF Upgrade, TypeOK
<1> QED
  BY <1>1, <1>2, <1>3, <1>4, <1>5
----------------------------------------------------------------------------
(* Requests and connections.                                               *)

Paired == (\A r \in Ids : RequestOK(r)) /\ (\A w \in Wsis : ConnectionOK(w))

\* The types of the fields that the proofs compare.
LEMMA Fields ==
  ASSUME TypeOK
  PROVE  /\ server.nextId \in Nat /\ server.closed \in BOOLEAN
         /\ \A w \in Wsis : /\ wsi[w].user \in Ids \cup {None, Ws}
                            /\ wire[w][1] \in Nat /\ wire[w][2] \in Parts
         /\ \A r \in Ids : r \in Nat /\ r # None /\ r # Ws
<1>1. server.nextId \in 1 .. MaxRequests + 1 /\ server.closed \in BOOLEAN
  BY DEF TypeOK, Servers
<1>2. server.nextId \in Nat
  BY <1>1, IdsAre
<1>3. ASSUME NEW w \in Wsis
      PROVE  /\ wsi[w].user \in Ids \cup {None, Ws}
             /\ wire[w][1] \in Nat /\ wire[w][2] \in Parts
  <2>1. wire[w] \in (Ids \cup {None}) \X Parts /\ wsi[w] \in Connections
    BY DEF TypeOK
  <2>2. wire[w][1] \in Nat
    BY <2>1, IdsAre DEF None
  <2> QED
    BY <2>1, <2>2 DEF Connections
<1>4. \A r \in Ids : r \in Nat /\ r # None /\ r # Ws
  BY IdsAre
<1> QED
  BY <1>1, <1>2, <1>3, <1>4

\* What is not under way has nothing to send.
LEMMA NothingLeft ==
  NoRequest.left = 0 /\ NoRequest.pending = <<>> /\ ~NoRequest.live
  /\ ~NoRequest.streaming /\ ~NoRequest.responded /\ NoRequest.kind = "none"
<1> QED
  BY DEF NoRequest

\* A connection and its request know each other.
LEMMA Partners ==
  ASSUME TypeOK, Paired
  PROVE  /\ \A w \in Wsis : wsi[w].user \in Ids => req[wsi[w].user].live /\ req[wsi[w].user].wsi = w
         /\ \A r \in Ids : req[r].live => req[r].wsi \in Wsis /\ wsi[req[r].wsi].user = r
<1> QED
  BY DEF Paired, RequestOK, ConnectionOK

\* A step changes one connection and its request, or one of the two; the others are as
\* they were.
LEMMA RestKept ==
  ASSUME TypeOK, Paired, NEW r0, NEW w0,
         \A r \in Ids \ {r0} : req'[r] = req[r] /\ js'[r] = js[r] /\ body'[r] = body[r],
         \A w \in Wsis \ {w0} : wsi'[w] = wsi[w] /\ wire'[w] = wire[w],
         r0 \in Ids => ~req[r0].live \/ req[r0].wsi = w0,
         w0 \in Wsis => wsi[w0].user \in {r0, None, Ws},
         server.closed => server'.closed,
         server.nextId <= server'.nextId, server'.nextId \in Nat,
         Running' => Running,
         r0 \in Ids => RequestOK(r0)', w0 \in Wsis => ConnectionOK(w0)'
  PROVE  Paired'
<1>1. ASSUME NEW r \in Ids, r # r0 PROVE RequestOK(r)'
  <2>1. RequestOK(r) /\ r \in Nat /\ r # None /\ r # Ws /\ server.nextId \in Nat
    BY Fields DEF Paired
  <2>2. req'[r] = req[r] /\ js'[r] = js[r] /\ body'[r] = body[r]
    BY <1>1
  <2>3. CASE req[r].live
    <3>1. req[r].wsi \in Wsis \ {w0}
      BY <1>1, <2>1, <2>3, Partners
    <3> DEFINE v == req[r].wsi
    <3>2. wsi'[v] = wsi[v] /\ wire'[v] = wire[v]
      BY <3>1
    <3>3. ~(r >= server.nextId) /\ ~(r >= server'.nextId)
      BY <2>1, <2>3 DEF RequestOK
    <3> QED
      BY <2>1, <2>2, <2>3, <3>1, <3>2, <3>3 DEF RequestOK, Halfway
  <2>4. CASE ~req[r].live
    <3>0. req[r] = NoRequest /\ js[r] # "streaming"
      BY <2>1, <2>4 DEF RequestOK
    <3>1. req[r].left = 0 /\ req[r].pending = <<>> /\ js[r] # "streaming"
      BY <3>0, NothingLeft
    <3>2. r >= server'.nextId => r >= server.nextId
      BY <2>1
    <3>3. ~(req[r].left > 0)
      BY <3>1
    <3> QED
      BY <2>1, <2>2, <2>4, <3>1, <3>2, <3>3, Zenon DEF RequestOK, Halfway
  <2> QED
    BY <2>3, <2>4
<1>2. ASSUME NEW w \in Wsis, w # w0 PROVE ConnectionOK(w)'
  <2>1. /\ ConnectionOK(w) /\ server.nextId \in Nat /\ wsi[w].user \in Ids \cup {None, Ws}
        /\ wire[w][1] \in Nat
    BY <1>2, Fields DEF Paired
  <2>2. wsi'[w] = wsi[w] /\ wire'[w] = wire[w]
    BY <1>2
  <2>3. wsi[w].user \in Ids => wsi[w].user # r0 /\ req'[wsi[w].user] = req[wsi[w].user]
    <3>1. wsi[w].user \in Ids => wsi[w].user # r0
      BY <1>2, Partners
    <3> QED
      BY <3>1
  <2>b. PICK u : u = wsi[w].user
    OBVIOUS
  <2>5. wsi'[w].user = u /\ (u \in Ids => req'[u] = req[u])
    BY <2>b, <2>2, <2>3
  <2>6. CASE u \in Ids
    <3>1. Waits(u)' <=> Waits(u)
      BY <2>5, <2>6, Zenon DEF Waits
    <3>2. wire[w][1] < server.nextId => wire[w][1] < server'.nextId
      BY <2>1
    <3> QED
      BY <2>1, <2>2, <2>5, <2>6, <2>b, <3>1, <3>2, IdsAre DEF ConnectionOK, Halfway
  <2>7. CASE u \notin Ids
    <3>2. wire[w][1] < server.nextId => wire[w][1] < server'.nextId
      BY <2>1
    <3> QED
      BY <2>1, <2>2, <2>5, <2>7, <2>b, <3>2, Zenon DEF ConnectionOK, Halfway
  <2> QED
    BY <2>6, <2>7
<1> QED
  BY <1>1, <1>2 DEF Paired

\* The server changes: it counts its vhosts, or it is closed.
LEMMA ServerPaired ==
  ASSUME TypeOK, Paired, PinOK,
         Create \/ Close \/ (\E v \in Vhosts : ProtocolInit(v) \/ ProtocolDestroy(v))
  PROVE  Paired'
<1>1. /\ UNCHANGED <<req, wsi, js, body, stopped, wire>>
      /\ server'.nextId = server.nextId
  <2>0. server \in Servers
    BY DEF TypeOK
  <2>1. CASE Create
    BY <2>0, <2>1 DEF Create, Servers
  <2>2. CASE Close
    BY <2>0, <2>2 DEF Close, Servers
  <2>3. CASE \E v \in Vhosts : ProtocolInit(v)
    BY <2>3 DEF ProtocolInit
  <2>4. CASE \E v \in Vhosts : ProtocolDestroy(v)
    <3>1. PICK v \in Vhosts : ProtocolDestroy(v)
      BY <2>4
    <3>2. UNCHANGED <<req, wsi, js, body, stopped, wire>>
      BY <3>1 DEF ProtocolDestroy
    <3>3. server'.nextId = server.nextId
      <4>1. CASE v \notin vhost.ready
        BY <3>1, <4>1 DEF ProtocolDestroy
      <4>2. CASE v \in vhost.ready
        BY <2>0, <3>1, <4>2 DEF ProtocolDestroy, Servers
      <4> QED
        BY <4>1, <4>2
    <3> QED
      BY <3>2, <3>3
  <2> QED
    BY <2>1, <2>2, <2>3, <2>4
<1>2. server.closed => server'.closed
  BY DEF Create, Close, ProtocolInit, ProtocolDestroy, TypeOK, Servers, PinOK
<1>3. server.nextId \in Nat
  BY DEF TypeOK, Servers
<1>4. \A r \in Ids \ {None} : req'[r] = req[r] /\ js'[r] = js[r] /\ body'[r] = body[r]
  BY <1>1
<1>5. \A w \in Wsis : wsi'[w] = wsi[w] /\ wire'[w] = wire[w]
  BY <1>1
<1>6. PICK w0 : w0 \notin Wsis
  BY NoSetContainsEverything
<1>7. /\ server.nextId <= server'.nextId /\ server'.nextId \in Nat
      /\ None \notin Ids /\ (Running' => Running)
  BY <1>1, <1>3, Fields DEF Running
<1> QED
  BY <1>2, <1>4, <1>5, <1>6, <1>7, RestKept

\* A step that changes a connection, but not whose it is.
LEMMA UserKept ==
  ASSUME TypeOK, Paired, NEW w \in Wsis, UNCHANGED <<req, js, body, wire, server>>,
         \A v \in Wsis \ {w} : wsi'[v] = wsi[v], wsi'[w].user = wsi[w].user,
         Running' => Running, ConnectionOK(w)'
  PROVE  Paired'
<1>1. PICK r0 : r0 = wsi[w].user
  OBVIOUS
<1>2. /\ \A r \in Ids \ {r0} : req'[r] = req[r] /\ js'[r] = js[r] /\ body'[r] = body[r]
      /\ \A v \in Wsis \ {w} : wsi'[v] = wsi[v] /\ wire'[v] = wire[v]
      /\ server.nextId <= server'.nextId /\ server'.nextId \in Nat
      /\ server.closed => server'.closed
  BY Fields
<1>3. r0 \in Ids => ~req[r0].live \/ req[r0].wsi = w
  BY <1>1, Partners
<1>4. r0 \in Ids => RequestOK(r0)'
  <2> SUFFICES ASSUME r0 \in Ids PROVE RequestOK(r0)'
    OBVIOUS
  <2>1. RequestOK(r0) /\ req[r0].live /\ req[r0].wsi = w
    BY <1>1, Partners DEF Paired
  <2>2. wsi'[w].user = r0 /\ wire' = wire
    BY <1>1
  <2> QED
    BY <2>1, <2>2, Zenon DEF RequestOK, Halfway
<1>5. wsi[w].user \in {r0, None, Ws}
  BY <1>1
<1> QED
  BY <1>2, <1>3, <1>4, <1>5, RestKept

\* Connections come and go, messages are queued, and a closed server ignores callbacks.
LEMMA ConnectionPaired ==
  ASSUME TypeOK, Paired, NEW w \in Wsis,
         Connect(w) \/ WriteIgnored(w) \/ WsSend(w) \/ Drop(w)
  PROVE  Paired'
<1>1. /\ UNCHANGED <<req, js, body, wire, server>> /\ (Running' => Running)
      /\ \A v \in Wsis \ {w} : wsi'[v] = wsi[v]
  BY DEF Connect, WriteIgnored, WsSend, Drop, Writes, Running, TypeOK
<1>2. /\ wsi'[w].user = wsi[w].user /\ wsi'[w].tx = wsi[w].tx /\ wsi'[w].rest = wsi[w].rest
      /\ wsi'[w].made = wsi[w].made
      /\ wsi'[w].state = "free" => wsi[w].state = "free"
      /\ \/ wsi'[w].queue = wsi[w].queue /\ (wsi'[w].want <=> wsi[w].want)
         \/ wsi'[w].queue = wsi[w].queue /\ ~wsi'[w].want /\ server.closed
         \/ wsi'[w].queue = wsi[w].queue + 1 /\ wsi'[w].want /\ wsi[w].user = Ws
  <2>0. wsi[w] \in Connections
    BY DEF TypeOK
  <2>1. CASE Connect(w)
    <3>1. wsi' = [wsi EXCEPT ![w].state = "open"]
      BY <2>1 DEF Connect
    <3> QED
      BY <2>0, <3>1 DEF Connections, TypeOK
  <2>2. CASE WriteIgnored(w)
    <3>1. wsi' = [wsi EXCEPT ![w].want = FALSE] /\ server.closed
      BY <2>2 DEF WriteIgnored
    <3> QED
      BY <2>0, <3>1 DEF Connections, TypeOK
  <2>3. CASE WsSend(w)
    <3>1. wsi' = [wsi EXCEPT ![w].queue = @ + 1, ![w].want = TRUE] /\ wsi[w].user = Ws
      BY <2>3 DEF WsSend
    <3> QED
      BY <2>0, <3>1 DEF Connections, TypeOK
  <2>4. CASE Drop(w)
    <3>1. wsi' = [wsi EXCEPT ![w].state = "closing"]
      BY <2>4 DEF Drop
    <3> QED
      BY <2>0, <3>1 DEF Connections, TypeOK
  <2> QED
    BY <2>1, <2>2, <2>3, <2>4
<1>3. ConnectionOK(w)'
  <2>1. ConnectionOK(w) /\ wsi[w].queue \in Nat /\ (wsi[w].user \in Ids => wsi[w].user # Ws)
    BY Fields DEF Paired, TypeOK, Connections
  <2>2. PICK u : u = wsi[w].user
    OBVIOUS
  <2>3. u \in Ids => (Waits(u)' <=> Waits(u)) /\ req'[u] = req[u]
    BY <1>1 DEF Waits
  <2>4. Halfway(w)' <=> Halfway(w)
    BY <1>1 DEF Halfway
  <2>5. wsi'[w].user = u /\ wire'[w] = wire[w] /\ server' = server
    BY <1>1, <1>2, <2>2
  <2>6. wire[w][1] < server'.nextId /\ wsi'[w].made <= 1 /\ None # Ws /\ None \notin Ids
    BY <1>2, <2>1, <2>5, Fields, IdsAre DEF ConnectionOK
  <2>7. CASE u \in Ids
    BY <1>2, <2>1, <2>2, <2>3, <2>4, <2>5, <2>6, <2>7, Fields DEF ConnectionOK
  <2>8. CASE u = Ws
    BY <1>2, <2>1, <2>2, <2>4, <2>5, <2>6, <2>8, Fields DEF ConnectionOK
  <2>9. CASE u = None
    BY <1>2, <2>1, <2>2, <2>4, <2>5, <2>6, <2>9, Fields DEF ConnectionOK
  <2> QED
    BY <2>2, <2>7, <2>8, <2>9, Fields
<1> QED
  BY <1>1, <1>2, <1>3, UserKept

\* An upgrade takes a connection whose last transaction is over.
LEMMA UpgradePaired ==
  ASSUME TypeOK, Paired, NEW w \in Wsis, Upgrade(w)
  PROVE  /\ Paired' /\ wsi[w].user = None
         /\ \/ wsi'[w].user = Ws /\ refs' = refs + 1
            \/ wsi'[w].user = None /\ refs' = refs
         /\ \A v \in Wsis \ {w} : wsi'[v] = wsi[v]
<1>0. wsi[w] \in Connections /\ ConnectionOK(w)
  BY DEF TypeOK, Paired
<1>1. /\ wsi[w].tx \in {"none", "done"} /\ wsi[w].state = "open" /\ ~server.closed
      /\ UNCHANGED <<vhost, req, js, body, frame, stopped, wire>>
  BY DEF Upgrade, Idle
<1>2. wsi[w].user = None
  BY <1>0, <1>1, Fields DEF ConnectionOK
<1>3. PICK accepts \in BOOLEAN, sent \in BOOLEAN :
        LET pending == server.upgrades \cup (IF accepts THEN {w} ELSE {})
            up == w \in pending /\ sent IN
        /\ server' = [server EXCEPT !.upgrades = IF up THEN pending \ {w} ELSE pending]
        /\ wsi' = [wsi EXCEPT ![w].tx = "ws", ![w].rest = Read,
                              ![w].user = IF up THEN Ws ELSE wsi[w].user,
                              ![w].state = IF up THEN wsi[w].state ELSE "closing"]
        /\ refs' = refs + (IF up THEN 1 ELSE 0)
  BY DEF Upgrade, TypeOK
<1>4. PICK up \in BOOLEAN :
        /\ server'.closed = server.closed /\ server'.nextId = server.nextId
        /\ wsi' = [wsi EXCEPT ![w].tx = "ws", ![w].rest = Read,
                              ![w].user = IF up THEN Ws ELSE None,
                              ![w].state = IF up THEN "open" ELSE "closing"]
        /\ refs' = refs + (IF up THEN 1 ELSE 0)
  <2> DEFINE pending == server.upgrades \cup (IF accepts THEN {w} ELSE {})
             up == w \in pending /\ sent
  <2>1. /\ server' = [server EXCEPT !.upgrades = IF up THEN pending \ {w} ELSE pending]
        /\ wsi' = [wsi EXCEPT ![w].tx = "ws", ![w].rest = Read,
                              ![w].user = IF up THEN Ws ELSE wsi[w].user,
                              ![w].state = IF up THEN wsi[w].state ELSE "closing"]
        /\ refs' = refs + (IF up THEN 1 ELSE 0)
    BY <1>3
  <2>2. up \in BOOLEAN
    OBVIOUS
  <2> HIDE DEF pending, up
  <2>3. server'.closed = server.closed /\ server'.nextId = server.nextId
    BY <2>1 DEF TypeOK, Servers
  <2> QED
    BY <1>1, <1>2, <2>1, <2>2, <2>3
<1>5. /\ wsi'[w].user = (IF up THEN Ws ELSE None) /\ wsi'[w].tx = "ws" /\ wsi'[w].rest = Read
      /\ wsi'[w].queue = wsi[w].queue /\ wsi'[w].want = wsi[w].want
      /\ wsi'[w].made = wsi[w].made
      /\ wsi'[w].state # "free" /\ \A v \in Wsis \ {w} : wsi'[v] = wsi[v]
  BY <1>0, <1>4 DEF Connections, TypeOK
<1>6. ConnectionOK(w)'
  <2>1. wsi[w].queue = 0 /\ ~wsi[w].want /\ wsi[w].queue \in Nat /\ wsi[w].want \in BOOLEAN
    BY <1>0, <1>2, IdsAre DEF ConnectionOK, Connections
  <2>2. ~Halfway(w) /\ ~Halfway(w)'
    BY <1>0, <1>1, <1>2, Fields DEF ConnectionOK, Halfway
  <2>3. wsi'[w].user \notin Ids /\ None # Ws
    BY <1>5, IdsAre
  <2> QED
    BY <1>0, <1>1, <1>2, <1>4, <1>5, <2>1, <2>2, <2>3 DEF ConnectionOK
<1>7. Paired'
  <2>1. \A r \in Ids \ {None} : req'[r] = req[r] /\ js'[r] = js[r] /\ body'[r] = body[r]
    BY <1>1
  <2>2. \A v \in Wsis \ {w} : wsi'[v] = wsi[v] /\ wire'[v] = wire[v]
    BY <1>1, <1>5
  <2>3. /\ server.nextId <= server'.nextId /\ server'.nextId \in Nat
        /\ server.closed => server'.closed
        /\ None \notin Ids /\ (Running' => Running)
    BY <1>1, <1>4, Fields DEF Running
  <2> QED
    BY <1>2, <1>6, <2>1, <2>2, <2>3, RestKept
<1>8. refs \in Int
  BY DEF TypeOK
<1>9. \/ wsi'[w].user = Ws /\ refs' = refs + 1
      \/ wsi'[w].user = None /\ refs' = refs
  <2>1. CASE up
    BY <1>4, <1>5, <2>1
  <2>2. CASE ~up
    BY <1>4, <1>5, <1>8, <2>2
  <2> QED
    BY <2>1, <2>2
<1> QED
  BY <1>2, <1>5, <1>7, <1>9

\* What a step may send on a connection, do to a body stream and to the WebSockets.
Answers(w) ==
  LET was == wire[w]
      is == wire'[w] IN
  is \notin {was, Nothing}
  => /\ IF was[2] \in {"head", "data"}
        THEN is[1] = was[1] /\ is[2] \in {"data", "final"}
        ELSE is[1] > was[1] /\ is[2] \in {"head", "whole"}
     /\ is[2] \in {"final", "whole"} => ~req'[is[1]].live
Leaves(r) == body'[r] = "orphan" /\ body[r] = "open" => wsi'[req[r].wsi].state # "free"
Exchange == (\A w \in Wsis : Answers(w)) /\ (\A r \in Ids : Leaves(r))
SameRefs == refs' = refs /\ Established' = Established

\* A step that sends nothing and gives no request up.
LEMMA Quiet ==
  ASSUME UNCHANGED wire, \A r \in Ids : body'[r] = "orphan" => body[r] = "orphan"
  PROVE  Exchange
<1>1. \A w \in Wsis : Answers(w)
  BY DEF Answers
<1>2. \A r \in Ids : Leaves(r)
  BY DEF Leaves
<1> QED
  BY <1>1, <1>2 DEF Exchange

\* LWS_CALLBACK_HTTP: a new request, if the connection has none.
LEMMA ArrivePaired ==
  ASSUME TypeOK, Paired, NEW w \in Wsis, NEW conn \in Connections, Arrive(w, conn),
         UNCHANGED <<vhost, refs, frame, stopped, wire>>,
         conn.user = wsi[w].user, conn.tx = "open", conn.state = "open",
         conn.queue = wsi[w].queue, conn.want = wsi[w].want, conn.rest \in Nat \cup {Read},
         \/ wsi[w].user = None /\ (~server.closed => conn.made = 0) /\ conn.made <= 1
         \/ wsi[w].user \in Ids /\ conn.made = wsi[w].made
  PROVE  Paired' /\ Exchange /\ SameRefs
<1>0. ConnectionOK(w) /\ wsi[w] \in Connections /\ server.closed \in BOOLEAN
  BY Fields DEF Paired, TypeOK
<1>a. wsi[w].user # Ws /\ None # Ws /\ None \notin Ids /\ Ws \notin Ids
  BY IdsAre
<1>1. CASE New(w) /\ ~server.closed
  <2> DEFINE c == [conn EXCEPT !.user = server.nextId, !.made = conn.made + 1]
             q == [NoRequest EXCEPT !.live = TRUE, !.wsi = w, !.kind = conn.kind,
                                    !.complete = conn.kind = "none",
                                    !.dispatched = conn.kind # "length"]
  <2>1. PICK r \in Ids : r = server.nextId
    BY <1>1 DEF Arrive
  <2>2. /\ server' = [server EXCEPT !.nextId = @ + 1]
        /\ wsi' = [wsi EXCEPT ![w] = c] /\ req' = [req EXCEPT ![r] = q]
        /\ IF conn.kind = "length" THEN UNCHANGED <<js, body>> ELSE Dispatch(r, conn.kind)
    BY <1>1, <2>1 DEF Arrive
  <2>3. conn.made = 0 /\ wsi[w].user = None /\ conn.made + 1 = 1
    BY <1>1, <1>a DEF New
  <2>4. /\ c.user = r /\ c.tx = "open" /\ c.state = "open" /\ c.made = 1
        /\ c.queue = wsi[w].queue /\ c.want = wsi[w].want
    BY <2>1, <2>3 DEF Connections
  <2>5. /\ q.live /\ q.wsi = w /\ q.kind = conn.kind /\ ~q.responded /\ ~q.streaming
        /\ q.pending = <<>> /\ q.left = 0 /\ (q.complete <=> conn.kind = "none")
        /\ (q.dispatched <=> conn.kind # "length")
    BY DEF NoRequest
  <2> HIDE DEF c, q
  <2>6. /\ wsi'[w] = c /\ (\A v \in Wsis \ {w} : wsi'[v] = wsi[v])
        /\ req'[r] = q /\ (\A p \in Ids \ {r} : req'[p] = req[p])
    BY <2>2 DEF TypeOK
  <2>7. /\ RequestOK(r) /\ ~req[r].live /\ js[r] = "none" /\ body[r] = "none"
        /\ server.nextId \in Nat /\ r \in Nat
    BY <2>1, Fields DEF Paired, RequestOK
  <2>8. /\ server'.nextId = server.nextId + 1 /\ server'.closed = server.closed
        /\ server'.nextId \in Nat
    BY <2>2, <2>7 DEF TypeOK, Servers
  <2>9. /\ js'[r] = (IF conn.kind = "length" THEN "none" ELSE "handling")
        /\ body'[r] = (IF conn.kind = "chunked" THEN "open" ELSE "none")
        /\ \A p \in Ids \ {r} : js'[p] = js[p] /\ body'[p] = body[p]
    BY <2>2, <2>7 DEF Dispatch, TypeOK
  <2>10. wire'[w] = wire[w] /\ wire[w][1] < r /\ ~Halfway(w) /\ ~Halfway(w)'
    BY <1>0, <1>a, <2>1, <2>3 DEF ConnectionOK, Halfway
  <2>11. RequestOK(r)'
    <3>1. ~(r >= server'.nextId)
      BY <2>1, <2>7, <2>8
    <3>2. conn.kind \in {"none", "length", "chunked"}
      BY DEF Connections
    <3> QED
      BY <2>4, <2>5, <2>6, <2>9, <3>1, <3>2 DEF RequestOK
  <2>12. ConnectionOK(w)'
    <3>1. ~Waits(r)'
      BY <2>5, <2>6 DEF Waits
    <3>2. wsi[w].queue = 0 /\ c.made <= 1 /\ wire[w][1] < server'.nextId
      BY <1>0, <1>a, <2>1, <2>4, <2>7, <2>8, <2>10, Fields DEF ConnectionOK
    <3>3. r # None /\ r # Ws
      BY <1>a
    <3> QED
      BY <2>4, <2>5, <2>6, <2>10, <3>1, <3>2, <3>3 DEF ConnectionOK
  <2>13. Paired'
    <3>1. /\ \A p \in Ids \ {r} : req'[p] = req[p] /\ js'[p] = js[p] /\ body'[p] = body[p]
          /\ \A v \in Wsis \ {w} : wsi'[v] = wsi[v] /\ wire'[v] = wire[v]
      BY <2>6, <2>9
    <3>2. /\ server.closed => server'.closed
          /\ server.nextId <= server'.nextId /\ (Running' => Running)
      BY <2>7, <2>8 DEF Running
    <3> QED
      BY <2>3, <2>7, <2>8, <2>11, <2>12, <3>1, <3>2, RestKept
  <2>14. Exchange
    <3>1. \A p \in Ids : body'[p] = "orphan" => body[p] = "orphan"
      BY <2>9
    <3> QED
      BY <3>1, Quiet
  <2>15. SameRefs
    BY <1>a, <2>3, <2>4, <2>6 DEF SameRefs, Established
  <2> QED
    BY <2>13, <2>14, <2>15
<1>2. CASE ~(New(w) /\ ~server.closed)
  <2>1. UNCHANGED <<server, req, js, body>> /\ wsi' = [wsi EXCEPT ![w] = conn]
    BY <1>2 DEF Arrive
  <2>2. wsi'[w] = conn /\ \A v \in Wsis \ {w} : wsi'[v] = wsi[v]
    BY <2>1 DEF TypeOK
  <2>3. PICK u : u = wsi[w].user
    OBVIOUS
  <2>4. (Halfway(w)' <=> Halfway(w)) /\ (u \in Ids => (Waits(u)' <=> Waits(u)))
    BY <2>1 DEF Halfway, Waits
  <2>5. ConnectionOK(w)'
    <3>1. CASE u = None
      BY <1>0, <1>2, <1>a, <2>1, <2>2, <2>3, <2>4, <3>1 DEF ConnectionOK, New
    <3>2. CASE u \in Ids
      <4>1. wsi[w].made <= 1
        BY <1>0 DEF ConnectionOK
      <4> QED
        BY <1>0, <1>a, <2>1, <2>2, <2>3, <2>4, <3>2, <4>1 DEF ConnectionOK
    <3> QED
      BY <2>3, <3>1, <3>2
  <2>6. Paired'
    BY <2>1, <2>2, <2>5, UserKept DEF Running
  <2>7. Exchange
    BY <2>1, Quiet
  <2>8. SameRefs
    BY <2>1, <2>2 DEF SameRefs, Established
  <2> QED
    BY <2>6, <2>7, <2>8
<1> QED
  BY <1>1, <1>2

\* What every step has to keep.
Good == TypeOK' /\ Paired' /\ Exchange /\ SameRefs

\* A transaction of a connection begins, or lws calls again for it.
LEMMA HttpGood ==
  ASSUME TypeOK, Paired, NEW w \in Wsis, Http(w) \/ HttpAgain(w)
  PROVE  Good
<1>0. ConnectionOK(w) /\ wsi[w] \in Connections
  BY DEF Paired, TypeOK
<1>a. wsi[w].user \in Ids \cup {None, Ws} /\ None \notin Ids /\ Ws \notin Ids /\ None # Ws
  BY Fields, IdsAre
<1>b. UNCHANGED <<vhost, refs, frame, stopped, wire>> /\ wsi[w].state = "open"
  BY DEF Http, HttpAgain, LwsHttp, Idle
<1>1. CASE Http(w)
  <2>1. PICK kind \in {"none", "length", "chunked"}, n \in 1 .. MaxBody,
             again \in {FALSE, (w \in Muxed)} :
          Arrive(w, [wsi[w] EXCEPT !.tx = "open", !.kind = kind, !.again = again, !.made = 0,
                       !.rest = IF kind # "none" THEN n ELSE IF again THEN 0 ELSE Read])
    BY <1>1 DEF Http
  <2> DEFINE rest == IF kind # "none" THEN n ELSE IF again THEN 0 ELSE Read
  <2>2. rest \in Nat \cup {Read} /\ again \in BOOLEAN
    <3>1. MaxBody \in Nat
      BY HttpServerAssumption
    <3>2. n \in Nat
      BY <3>1
    <3>3. again \in BOOLEAN
      <4>1. again = FALSE \/ again = (w \in Muxed)
        OBVIOUS
      <4>2. (w \in Muxed) \in BOOLEAN
        OBVIOUS
      <4> QED
        BY <4>1, <4>2
    <3> QED
      BY <3>2, <3>3
  <2> HIDE DEF rest
  <2> DEFINE conn == [wsi[w] EXCEPT !.tx = "open", !.kind = kind, !.again = again, !.made = 0,
                                    !.rest = rest]
  <2>3. Arrive(w, conn)
    BY <2>1 DEF rest
  <2>4. conn \in Connections
    BY <1>0, <2>2 DEF Connections
  <2>5. /\ conn.user = wsi[w].user /\ conn.tx = "open" /\ conn.state = "open" /\ conn.made = 0
        /\ conn.queue = wsi[w].queue /\ conn.want = wsi[w].want /\ conn.rest \in Nat \cup {Read}
    BY <1>0, <1>b, <2>2 DEF Connections
  <2>6. wsi[w].user = None
    BY <1>0, <1>1, <1>a DEF ConnectionOK, Http, Idle
  <2> HIDE DEF conn
  <2>7. Paired' /\ Exchange /\ SameRefs
    BY <1>b, <2>3, <2>4, <2>5, <2>6, ArrivePaired
  <2>8. TypeOK'
    BY <1>b, <2>3, <2>4, ArriveType DEF TypeOK
  <2> QED
    BY <2>7, <2>8 DEF Good
<1>2. CASE HttpAgain(w)
  <2> DEFINE conn == [wsi[w] EXCEPT !.again = FALSE]
  <2>1. Arrive(w, conn) /\ wsi[w].tx = "open"
    BY <1>2 DEF HttpAgain
  <2>2. conn \in Connections
    BY <1>0 DEF Connections
  <2>3. /\ conn.user = wsi[w].user /\ conn.tx = "open" /\ conn.state = "open"
        /\ conn.made = wsi[w].made
        /\ conn.queue = wsi[w].queue /\ conn.want = wsi[w].want /\ conn.rest \in Nat \cup {Read}
    BY <1>0, <1>b, <2>1 DEF Connections
  <2>4. wsi[w].made <= 1 /\ wsi[w].user # Ws /\ (wsi[w].user = None => server.closed)
    BY <1>0, <1>a, <2>1 DEF ConnectionOK
  <2> HIDE DEF conn
  <2>5. \/ wsi[w].user = None /\ (~server.closed => conn.made = 0) /\ conn.made <= 1
        \/ wsi[w].user \in Ids /\ conn.made = wsi[w].made
    BY <1>a, <2>3, <2>4
  <2>7. Paired' /\ Exchange /\ SameRefs
    BY <1>b, <2>1, <2>2, <2>3, <2>5, ArrivePaired
  <2>8. TypeOK'
    BY <1>b, <2>1, <2>2, ArriveType DEF TypeOK
  <2> QED
    BY <2>7, <2>8 DEF Good
<1> QED
  BY <1>1, <1>2

\* A piece of a body, or its end, for a transaction without a request.
LEMMA LostGood ==
  ASSUME TypeOK, Paired, NEW w \in Wsis, NEW rest \in Nat \cup {Read},
         Lost(w, [wsi[w] EXCEPT !.rest = rest]), UNCHANGED <<vhost, refs, wire>>,
         wsi[w].state = "open", wsi[w].user # Ws
  PROVE  Good
<1>0. ConnectionOK(w) /\ wsi[w] \in Connections /\ server.closed \in BOOLEAN
  BY Fields DEF Paired, TypeOK
<1> DEFINE c == [wsi[w] EXCEPT !.rest = rest, !.state = IF server.closed THEN "open" ELSE "closing"]
<1>1. /\ wsi' = [wsi EXCEPT ![w] = c]
      /\ UNCHANGED <<server, req, js, body, frame, stopped, vhost, refs, wire>>
  <2>1. wsi' = [wsi EXCEPT ![w] = [[wsi[w] EXCEPT !.rest = rest] EXCEPT
                                     !.state = IF server.closed THEN wsi[w].state ELSE "closing"]]
    BY <1>0 DEF Lost, Connections
  <2>2. [[wsi[w] EXCEPT !.rest = rest] EXCEPT
            !.state = IF server.closed THEN wsi[w].state ELSE "closing"] = c
    BY <1>0 DEF Connections
  <2> QED
    BY <2>1, <2>2 DEF Lost
<1>2. c \in Connections
  BY <1>0 DEF Connections
<1>3. /\ c.user = wsi[w].user /\ c.tx = wsi[w].tx /\ c.queue = wsi[w].queue
      /\ c.want = wsi[w].want /\ c.made = wsi[w].made /\ c.state # "free"
  BY <1>0 DEF Connections
<1> HIDE DEF c
<1>4. wsi'[w] = c /\ \A v \in Wsis \ {w} : wsi'[v] = wsi[v]
  BY <1>1 DEF TypeOK
<1>5. ConnectionOK(w)'
  <2>1. PICK u : u = wsi[w].user
    OBVIOUS
  <2>2. (Halfway(w)' <=> Halfway(w)) /\ (u \in Ids => (Waits(u)' <=> Waits(u)))
    BY <1>1 DEF Halfway, Waits
  <2> QED
    BY <1>0, <1>1, <1>3, <1>4, <2>1, <2>2 DEF ConnectionOK
<1>6. Paired'
  BY <1>1, <1>3, <1>4, <1>5, UserKept DEF Running
<1>7. Exchange
  BY <1>1, Quiet
<1>8. SameRefs
  BY <1>1, <1>3, <1>4 DEF SameRefs, Established
<1>9. TypeOK'
  BY <1>1, <1>2 DEF TypeOK
<1> QED
  BY <1>6, <1>7, <1>8, <1>9 DEF Good

\* LWS_CALLBACK_HTTP_BODY.
LEMMA HttpBodyGood ==
  ASSUME TypeOK, Paired, NEW w \in Wsis, HttpBody(w)
  PROVE  Good
<1>0. ConnectionOK(w) /\ wsi[w] \in Connections /\ server.closed \in BOOLEAN
  BY Fields DEF Paired, TypeOK
<1>1. /\ Running /\ wsi[w].state = "open" /\ wsi[w].rest > 0 /\ UNCHANGED <<vhost, refs, wire>>
      /\ frame[1] = "none"
  BY DEF HttpBody, Reads, Outside
<1> DEFINE rest == wsi[w].rest - 1
           r == wsi[w].user
           conn == [wsi[w] EXCEPT !.rest = rest]
<1>2. rest \in Nat /\ r # Ws
  <2>1. wsi[w].rest \in Nat \cup {-1} /\ wsi[w].rest # -1
    BY <1>0, <1>1 DEF Connections, Read
  <2> QED
    BY <1>0, <1>1, <2>1 DEF ConnectionOK, Read
<1>3. CASE r = None \/ server.closed
  <2>1. Lost(w, conn)
    BY <1>3 DEF HttpBody
  <2> HIDE DEF rest
  <2> QED
    BY <1>1, <1>2, <2>1, LostGood
<1>4. CASE ~(r = None \/ server.closed)
  <2>1. /\ wsi' = [wsi EXCEPT ![w] = conn] /\ UNCHANGED <<server, req, js>>
        /\ IF req[r].kind = "chunked"
           THEN OnBodyChunk(r, FALSE) /\ frame' = <<"chunk", r>>
           ELSE UNCHANGED <<body, frame, stopped>>
    BY <1>4 DEF HttpBody
  <2>2. r \in Ids
    BY <1>2, <1>4, Fields
  <2>3. body' = body /\ (Running' => Running) /\ (frame' = frame \/ frame' = <<"chunk", r>>)
    BY <1>1, <2>1 DEF OnBodyChunk, TypeOK
  <2> HIDE DEF rest
  <2>4. conn \in Connections
    BY <1>0, <1>2 DEF Connections
  <2>5. /\ conn.user = r /\ conn.tx = wsi[w].tx /\ conn.queue = wsi[w].queue
        /\ conn.want = wsi[w].want /\ conn.made = wsi[w].made /\ conn.state # "free"
    BY <1>0, <1>1 DEF Connections
  <2> HIDE DEF conn
  <2>6. wsi'[w] = conn /\ \A v \in Wsis \ {w} : wsi'[v] = wsi[v]
    BY <2>1 DEF TypeOK
  <2>7. ConnectionOK(w)'
    <3>1. PICK u : u = wsi[w].user
      OBVIOUS
    <3>2. (Halfway(w)' <=> Halfway(w)) /\ (Waits(u)' <=> Waits(u)) /\ u # Ws /\ u # None
      BY <1>1, <1>2, <1>4, <2>1, <3>1 DEF Halfway, Waits
    <3> QED
      BY <1>0, <1>1, <2>1, <2>2, <2>5, <2>6, <3>1, <3>2 DEF ConnectionOK
  <2>8. Paired'
    BY <1>1, <2>1, <2>3, <2>5, <2>6, <2>7, UserKept
  <2>9. Exchange
    BY <1>1, <2>3, Quiet
  <2>10. SameRefs
    BY <1>1, <2>5, <2>6 DEF SameRefs, Established
  <2>11. TypeOK'
    BY <1>1, <2>1, <2>2, <2>3, <2>4 DEF TypeOK
  <2> QED
    BY <2>8, <2>9, <2>10, <2>11 DEF Good
<1> QED
  BY <1>3, <1>4

\* LWS_CALLBACK_HTTP_BODY_COMPLETION or the last chunk.
LEMMA HttpBodyEndsGood ==
  ASSUME TypeOK, Paired, NEW w \in Wsis, HttpBodyEnds(w)
  PROVE  Good
<1>0. ConnectionOK(w) /\ wsi[w] \in Connections /\ server.closed \in BOOLEAN
  BY Fields DEF Paired, TypeOK
<1>1. /\ Running /\ wsi[w].state = "open" /\ wsi[w].rest = 0 /\ UNCHANGED <<vhost, refs, wire>>
      /\ frame[1] = "none"
  BY DEF HttpBodyEnds, Reads, Outside
<1>r. PICK r : r = wsi[w].user
  OBVIOUS
<1> DEFINE conn == [wsi[w] EXCEPT !.rest = Read]
<1>2. r # Ws
  BY <1>0, <1>1, <1>r DEF ConnectionOK, Read
<1>3. CASE r = None \/ server.closed
  <2>1. Lost(w, conn)
    BY <1>3, <1>r DEF HttpBodyEnds
  <2> QED
    BY <1>1, <1>2, <1>r, <2>1, LostGood
<1>4. CASE ~(r = None \/ server.closed)
  <2>1. /\ wsi' = [wsi EXCEPT ![w] = conn] /\ UNCHANGED <<server, frame>>
        /\ req' = [req EXCEPT ![r].complete = TRUE, ![r].dispatched = TRUE]
        /\ IF req[r].kind = "chunked"
           THEN OnBodyChunk(r, TRUE) /\ UNCHANGED js
           ELSE /\ IF FirstCall(r) THEN Dispatch(r, "length") ELSE UNCHANGED <<js, body>>
                /\ UNCHANGED stopped
    BY <1>4, <1>r DEF HttpBodyEnds
  <2>2. r \in Ids /\ RequestOK(r) /\ req[r].live /\ req[r].wsi = w /\ req[r] \in Requests
    BY <1>2, <1>4, <1>r, Fields, Partners DEF Paired, TypeOK
  <2>3. PICK q : q = [req[r] EXCEPT !.complete = TRUE, !.dispatched = TRUE]
    OBVIOUS
  <2>4. q \in Requests
    BY <2>2, <2>3 DEF Requests
  <2>5. /\ q.live /\ q.wsi = w /\ q.kind = req[r].kind /\ q.complete /\ q.dispatched
        /\ q.responded = req[r].responded /\ q.streaming = req[r].streaming
        /\ q.pending = req[r].pending /\ q.left = req[r].left
    BY <2>2, <2>3 DEF Requests
  <2>6. conn \in Connections
    BY <1>0 DEF Connections
  <2>7. /\ conn.user = r /\ conn.tx = wsi[w].tx /\ conn.queue = wsi[w].queue
        /\ conn.want = wsi[w].want /\ conn.made = wsi[w].made /\ conn.state # "free"
    BY <1>0, <1>1, <1>r DEF Connections
  <2> HIDE DEF conn
  <2>8. /\ wsi'[w] = conn /\ (\A v \in Wsis \ {w} : wsi'[v] = wsi[v])
        /\ req'[r] = q /\ \A p \in Ids \ {r} : req'[p] = req[p]
    BY <2>1, <2>2, <2>3 DEF TypeOK
  <2>9. /\ js' \in [Ids -> Steps]
        /\ body' \in [Ids -> {"none", "open", "ended", "cancelled", "orphan"}]
        /\ js'[r] = js[r] \/ (js[r] = "none" /\ js'[r] = "handling")
        /\ req[r].kind = "chunked" => body'[r] # "open"
        /\ req[r].kind # "chunked" => body'[r] = body[r]
        /\ \A p \in Ids \ {r} : js'[p] = js[p] /\ body'[p] = body[p]
        /\ \A p \in Ids : body'[p] = "orphan" => body[p] = "orphan"
    <3>1. CASE req[r].kind = "chunked"
      BY <1>4, <2>1, <2>2, <3>1 DEF OnBodyChunk, TypeOK
    <3>2. CASE req[r].kind # "chunked"
      <4>1. FirstCall(r) => js[r] = "none"
        BY <2>2 DEF RequestOK, FirstCall
      <4> QED
        BY <2>1, <2>2, <3>2, <4>1 DEF Dispatch, TypeOK, Steps
    <3> QED
      BY <3>1, <3>2
  <2>10. RequestOK(r)'
    <3>1. wsi'[w].user = r /\ server' = server /\ wire' = wire
      BY <1>1, <2>1, <2>7, <2>8
    <3>2. ~(r >= server'.nextId) /\ ~(r >= server.nextId)
      BY <2>2, <3>1 DEF RequestOK
    <3>3. js'[r] = "streaming" <=> js[r] = "streaming"
      BY <2>9
    <3>4. req[r].kind # "chunked" => body'[r] # "open"
      BY <1>1, <2>2, <2>9 DEF RequestOK
    <3> QED
      BY <2>2, <2>5, <2>8, <2>9, <3>1, <3>2, <3>3, <3>4 DEF RequestOK, Halfway
  <2>11. ConnectionOK(w)'
    <3>1. (Halfway(w)' <=> Halfway(w)) /\ (Waits(r)' <=> Waits(r)) /\ r # Ws /\ r # None
      BY <1>1, <1>2, <1>4, <2>1, <2>5, <2>8 DEF Halfway, Waits
    <3>2. /\ server' = server /\ wire'[w] = wire[w] /\ wsi'[w].user = r
          /\ req'[r].live /\ req'[r].wsi = w /\ req'[r].responded = req[r].responded
      BY <1>1, <2>1, <2>5, <2>7, <2>8
    <3>3. /\ wsi'[w].tx = wsi[w].tx /\ wsi'[w].queue = wsi[w].queue
          /\ wsi'[w].want = wsi[w].want /\ wsi'[w].made = wsi[w].made
          /\ wsi'[w].state # "free"
      BY <2>7, <2>8
    <3> QED
      BY <1>0, <1>r, <2>2, <3>1, <3>2, <3>3 DEF ConnectionOK
  <2>12. Paired'
    <3>1. \A p \in Ids \ {r} : req'[p] = req[p] /\ js'[p] = js[p] /\ body'[p] = body[p]
      BY <2>8, <2>9
    <3>2. \A v \in Wsis \ {w} : wsi'[v] = wsi[v] /\ wire'[v] = wire[v]
      BY <1>1, <2>8
    <3>3. /\ server.nextId <= server'.nextId /\ server'.nextId \in Nat
          /\ server.closed => server'.closed
      BY <2>1, Fields
    <3> QED
      BY <1>1, <1>r, <2>2, <2>10, <2>11, <3>1, <3>2, <3>3, RestKept
  <2>13. Exchange
    BY <1>1, <2>9, Quiet
  <2>14. SameRefs
    BY <1>1, <1>r, <2>7, <2>8 DEF SameRefs, Established
  <2>15. TypeOK'
    <3>1. req' \in [Ids -> Requests]
      <4>1. req' = [req EXCEPT ![r] = q]
        BY <2>1, <2>2, <2>3 DEF TypeOK
      <4> QED
        BY <2>4, <4>1 DEF TypeOK
    <3>2. wsi' \in [Wsis -> Connections]
      BY <2>1, <2>6 DEF TypeOK
    <3> QED
      BY <1>1, <2>1, <2>9, <3>1, <3>2 DEF TypeOK
  <2> QED
    BY <2>12, <2>13, <2>14, <2>15 DEF Good
<1> QED
  BY <1>3, <1>4

\* A step of one request and its connection.
LEMMA PairKept ==
  ASSUME TypeOK, Paired, NEW r \in Ids, NEW w \in Wsis, req[r].live, req[r].wsi = w,
         \A p \in Ids \ {r} : req'[p] = req[p] /\ js'[p] = js[p] /\ body'[p] = body[p],
         \A v \in Wsis \ {w} : wsi'[v] = wsi[v] /\ wire'[v] = wire[v],
         server' = server, Running' => Running, RequestOK(r)', ConnectionOK(w)'
  PROVE  Paired'
<1>1. wsi[w].user = r
  BY Partners
<1>2. /\ server.nextId <= server'.nextId /\ server'.nextId \in Nat
      /\ server.closed => server'.closed
  BY Fields
<1> QED
  BY <1>1, <1>2, RestKept

\* What a request and its connection know of each other.
LEMMA PairFacts ==
  ASSUME TypeOK, Paired, NEW r \in Ids, NEW w \in Wsis, req[r].live, req[r].wsi = w
  PROVE  /\ wsi[w].user = r /\ RequestOK(r) /\ ConnectionOK(w) /\ r # Ws /\ r # None
         /\ wsi[w] \in Connections /\ req[r] \in Requests
         /\ wsi[w].state # "free" /\ wsi[w].queue = 0 /\ wsi[w].made <= 1 /\ wsi[w].tx = "open"
         /\ r < server.nextId /\ r \in Nat /\ server.nextId \in Nat
         /\ IF Halfway(w) THEN wire[w][1] = r /\ req[r].responded ELSE wire[w][1] < r
<1>1. wsi[w].user = r /\ RequestOK(r) /\ ConnectionOK(w) /\ r # Ws /\ r # None /\ r \in Nat
  BY Fields, Partners DEF Paired
<1>2. r < server.nextId /\ server.nextId \in Nat
  BY <1>1, Fields DEF RequestOK
<1>3. /\ wsi[w].state # "free" /\ wsi[w].queue = 0 /\ wsi[w].made <= 1 /\ wsi[w].tx = "open"
      /\ IF Halfway(w) THEN wire[w][1] = r /\ req[r].responded ELSE wire[w][1] < r
  BY <1>1 DEF ConnectionOK
<1>4. wsi[w] \in Connections /\ req[r] \in Requests
  BY DEF TypeOK
<1> QED
  BY <1>1, <1>2, <1>3, <1>4

\* What is sent fits what was sent before on the connection.
LEMMA AnswersIt ==
  ASSUME TypeOK, Paired, NEW r \in Ids, NEW w \in Wsis, req[r].live, req[r].wsi = w,
         NEW part \in Parts, wire' = [wire EXCEPT ![w] = <<r, part>>],
         IF Halfway(w) THEN part \in {"data", "final"} ELSE part \in {"head", "whole"},
         part \in {"final", "whole"} => ~req'[r].live
  PROVE  \A v \in Wsis : Answers(v)
<1>1. ASSUME NEW v \in Wsis PROVE Answers(v)
  <2>1. CASE v = w
    <3>1. wire'[w] = <<r, part>> /\ wire'[w][1] = r /\ wire'[w][2] = part
      BY DEF TypeOK
    <3>2. IF Halfway(w) THEN wire[w][1] = r ELSE r > wire[w][1]
      BY PairFacts, Fields
    <3> QED
      BY <2>1, <3>1, <3>2 DEF Answers, Halfway
  <2>2. CASE v # w
    BY <2>2 DEF Answers, TypeOK
  <2> QED
    BY <2>1, <2>2
<1> QED
  BY <1>1

\* The end of a response: the request goes, the connection is free for another.
LEMMA CompleteGood ==
  ASSUME TypeOK, Paired, NEW r \in Ids, NEW w \in Wsis, req[r].live, req[r].wsi = w,
         \E closes \in BOOLEAN : Complete(r, closes),
         UNCHANGED <<server, vhost, refs, frame, stopped>>,
         NEW part \in {"final", "whole"}, wire' = [wire EXCEPT ![w] = <<r, part>>],
         IF Halfway(w) THEN part = "final" ELSE part = "whole"
  PROVE  Good
<1>1. /\ wsi[w].user = r /\ RequestOK(r) /\ ConnectionOK(w) /\ r # Ws /\ r # None
      /\ wsi[w] \in Connections /\ req[r] \in Requests
      /\ wsi[w].state # "free" /\ wsi[w].queue = 0 /\ wsi[w].made <= 1 /\ wsi[w].tx = "open"
      /\ r < server.nextId /\ r \in Nat /\ server.nextId \in Nat
  BY PairFacts
<1>2. /\ Gone(r) /\ wsi' \in [Wsis -> Connections]
      /\ \A v \in Wsis \ {w} : wsi'[v] = wsi[v]
      /\ wsi'[w].user = ClearUser(w, r) /\ wsi'[w].tx = "done" /\ ~wsi'[w].want
      /\ wsi'[w].state \in {"closing", wsi[w].state}
      /\ wsi'[w].queue = wsi[w].queue /\ wsi'[w].made = wsi[w].made
  BY CompleteType
<1>3. /\ req' \in [Ids -> Requests] /\ js' \in [Ids -> Steps]
      /\ body' \in [Ids -> {"none", "open", "ended", "cancelled", "orphan"}]
      /\ req'[r] = NoRequest /\ js'[r] = "gone"
      /\ body'[r] = (IF body[r] = "open" THEN "orphan" ELSE "none")
      /\ \A q \in Ids \ {r} : req'[q] = req[q] /\ js'[q] = js[q] /\ body'[q] = body[q]
  BY <1>2, GoneType
<1>4. /\ wsi'[w].user = None /\ wsi'[w].tx = "done" /\ ~wsi'[w].want
      /\ wsi'[w].queue = 0 /\ wsi'[w].made <= 1 /\ wsi'[w].state # "free"
  BY <1>1, <1>2 DEF ClearUser
<1>5. wire'[w] = <<r, part>> /\ wire'[w][1] = r /\ wire'[w][2] = part /\ ~Halfway(w)'
  BY DEF TypeOK, Halfway
<1>6. RequestOK(r)'
  <2>1. /\ req'[r].left = 0 /\ req'[r].pending = <<>> /\ ~req'[r].live
        /\ ~req'[r].streaming /\ ~req'[r].responded /\ req'[r].kind = "none"
    BY <1>3, NothingLeft
  <2>2. ~(r >= server'.nextId) /\ body'[r] \in {"none", "orphan"}
    BY <1>1, <1>3
  <2> QED
    BY <1>3, <2>1, <2>2 DEF RequestOK
<1>7. ConnectionOK(w)'
  BY <1>1, <1>4, <1>5, IdsAre DEF ConnectionOK
<1>8. Paired'
  <2>1. \A v \in Wsis \ {w} : wsi'[v] = wsi[v] /\ wire'[v] = wire[v]
    BY <1>2 DEF TypeOK
  <2> QED
    BY <1>3, <1>6, <1>7, <2>1, PairKept DEF Running
<1>9. Exchange
  <2>1. \A v \in Wsis : Answers(v)
    BY <1>3, AnswersIt, NothingLeft DEF Parts
  <2>2. \A p \in Ids : Leaves(p)
    BY <1>3, <1>4 DEF Leaves
  <2> QED
    BY <2>1, <2>2 DEF Exchange
<1>10. SameRefs
  <2>1. \A v \in Wsis : wsi'[v].user = Ws <=> wsi[v].user = Ws
    BY <1>1, <1>2, <1>4, IdsAre
  <2> QED
    BY <2>1 DEF SameRefs, Established
<1>11. TypeOK'
  <2>1. wire' \in [Wsis -> (Ids \cup {None}) \X Parts]
    BY DEF TypeOK, Parts
  <2> QED
    BY <1>2, <1>3, <2>1 DEF TypeOK
<1> QED
  BY <1>8, <1>9, <1>10, <1>11 DEF Good

\* The head or a part of a response: there is more to come, and if it is there the
\* connection waits for a callback.
LEMMA SentGood ==
  ASSUME TypeOK, Paired, NEW r \in Ids, NEW w \in Wsis, req[r].live, req[r].wsi = w,
         UNCHANGED <<server, vhost, body, refs, frame, stopped>>,
         NEW part \in {"head", "data"}, wire' = [wire EXCEPT ![w] = <<r, part>>],
         IF Halfway(w) THEN part = "data" ELSE part = "head",
         req'[r] \in Requests, req' = [req EXCEPT ![r] = req'[r]],
         req'[r].live, req'[r].wsi = w, req'[r].responded, req'[r].kind = req[r].kind,
         req'[r].complete = req[r].complete, req'[r].dispatched = req[r].dispatched,
         req'[r].streaming => req'[r].left = 0,
         ~req'[r].streaming => req'[r].pending = <<>>,
         js'[r] \in Steps, js' = [js EXCEPT ![r] = js'[r]], js[r] # "none",
         js'[r] \notin {"none", "handling"}, js'[r] = "streaming" => req'[r].streaming,
         wsi'[w].want \in BOOLEAN, wsi' = [wsi EXCEPT ![w].want = wsi'[w].want],
         ~server.closed /\ (req'[r].left > 0 \/ (req'[r].streaming /\ req'[r].pending # <<>>))
           => wsi'[w].want
  PROVE  Good
<1>1. /\ wsi[w].user = r /\ RequestOK(r) /\ ConnectionOK(w) /\ r # Ws /\ r # None
      /\ wsi[w] \in Connections /\ req[r] \in Requests
      /\ wsi[w].state # "free" /\ wsi[w].queue = 0 /\ wsi[w].made <= 1 /\ wsi[w].tx = "open"
      /\ r < server.nextId /\ r \in Nat /\ server.nextId \in Nat
  BY PairFacts
<1>2. /\ body'[r] = body[r]
      /\ \A p \in Ids \ {r} : req'[p] = req[p] /\ js'[p] = js[p] /\ body'[p] = body[p]
  BY DEF TypeOK
<1>3. /\ wsi'[w].user = r /\ wsi'[w].tx = "open" /\ wsi'[w].state = wsi[w].state
      /\ wsi'[w].queue = 0 /\ wsi'[w].made = wsi[w].made
      /\ wsi'[w] \in Connections /\ \A v \in Wsis \ {w} : wsi'[v] = wsi[v]
  <2>0. \E want \in BOOLEAN : wsi' = [wsi EXCEPT ![w].want = want]
    <3> WITNESS wsi'[w].want \in BOOLEAN
    <3> QED
      OBVIOUS
  <2>1. PICK want \in BOOLEAN : wsi' = [wsi EXCEPT ![w].want = want]
    BY <2>0
  <2> QED
    BY <1>1, <2>1 DEF TypeOK, Connections
<1>4. wire'[w] = <<r, part>> /\ wire'[w][1] = r /\ wire'[w][2] = part /\ Halfway(w)'
  BY DEF TypeOK, Halfway
<1>5. RequestOK(r)'
  <2>1. req[r].kind = "length" => req[r].complete
    BY <1>1 DEF RequestOK
  <2>2. req[r].dispatched
    BY <1>1 DEF RequestOK
  <2>3. Running' /\ body'[r] = "open" => req'[r].kind = "chunked" /\ ~req'[r].complete
    BY <1>1 DEF RequestOK, Running
  <2>4. ~(r >= server'.nextId)
    BY <1>1
  <2> QED
    <3>1. /\ req'[r].live /\ req'[r].wsi = w /\ req'[r].responded /\ req'[r].dispatched
          /\ req'[r].kind = req[r].kind /\ req'[r].complete = req[r].complete
          /\ req'[r].streaming => req'[r].left = 0
          /\ ~req'[r].streaming => req'[r].pending = <<>>
          /\ js'[r] \notin {"none", "handling"} /\ (js'[r] = "streaming" => req'[r].streaming)
          /\ wsi'[w].user = r /\ wire'[w][1] = r
      BY <1>2, <1>3, <1>4, <2>2
    <3>2. Running' /\ body'[r] = "open" => req'[r].kind = "chunked" /\ ~req'[r].complete
      BY <1>2, <2>3
    <3> QED
      BY <1>4, <2>1, <2>4, <3>1, <3>2 DEF RequestOK
<1>6. ConnectionOK(w)'
  <2>1. ~server'.closed /\ Waits(r)' => wsi'[w].want
    BY <1>2 DEF Waits
  <2> QED
    BY <1>1, <1>2, <1>3, <1>4, <2>1 DEF ConnectionOK
<1>7. Paired'
  <2>1. \A v \in Wsis \ {w} : wsi'[v] = wsi[v] /\ wire'[v] = wire[v]
    BY <1>3 DEF TypeOK
  <2> QED
    BY <1>2, <1>5, <1>6, <2>1, PairKept DEF Running
<1>8. Exchange
  <2>1. \A v \in Wsis : Answers(v)
    BY <1>2, AnswersIt DEF Parts
  <2>2. \A p \in Ids : Leaves(p)
    BY DEF Leaves
  <2> QED
    BY <2>1, <2>2 DEF Exchange
<1>9. SameRefs
  BY <1>1, <1>3 DEF SameRefs, Established
<1>10. TypeOK'
  <2>1. wire' \in [Wsis -> (Ids \cup {None}) \X Parts]
    BY DEF TypeOK, Parts
  <2>2. wsi' \in [Wsis -> Connections]
    <3>1. wsi' = [wsi EXCEPT ![w] = wsi'[w]]
      BY <1>3 DEF TypeOK
    <3> QED
      BY <1>3, <3>1 DEF TypeOK
  <2> QED
    BY <2>1, <2>2 DEF TypeOK
<1> QED
  BY <1>7, <1>8, <1>9, <1>10 DEF Good

\* A step of a handler that sends nothing yet.
LEMMA QuietGood ==
  ASSUME TypeOK, Paired, NEW r \in Ids, NEW w \in Wsis, req[r].live, req[r].wsi = w,
         UNCHANGED <<server, vhost, refs, frame, stopped, wire>>,
         req'[r] \in Requests, req' = [req EXCEPT ![r] = req'[r]],
         req'[r].live, req'[r].wsi = w, req[r].responded => req'[r].responded,
         req'[r].kind = req[r].kind, req'[r].complete = req[r].complete,
         req'[r].dispatched = req[r].dispatched,
         req'[r].streaming => req'[r].left = 0, ~req'[r].streaming => req'[r].pending = <<>>,
         ~req'[r].responded => req'[r].left = 0 /\ ~req'[r].streaming,
         js'[r] \in Steps, js' = [js EXCEPT ![r] = js'[r]], js[r] # "none", js'[r] # "none",
         js'[r] = "handling" => ~req'[r].responded, js'[r] = "streaming" => req'[r].streaming,
         req'[r].left > 0 \/ req'[r].pending # <<>> \/ js'[r] = "streaming" => Halfway(w),
         body'[r] \in {body[r], "cancelled"}, body' = [body EXCEPT ![r] = body'[r]],
         wsi'[w].want \in BOOLEAN, wsi' = [wsi EXCEPT ![w].want = wsi'[w].want],
         ~server.closed /\ (req'[r].left > 0 \/ (req'[r].streaming /\ req'[r].pending # <<>>))
           => wsi'[w].want
  PROVE  Good
<1>1. /\ wsi[w].user = r /\ RequestOK(r) /\ ConnectionOK(w) /\ r # Ws /\ r # None
      /\ wsi[w] \in Connections /\ req[r] \in Requests
      /\ wsi[w].state # "free" /\ wsi[w].queue = 0 /\ wsi[w].made <= 1 /\ wsi[w].tx = "open"
      /\ r < server.nextId /\ r \in Nat /\ server.nextId \in Nat
      /\ IF Halfway(w) THEN wire[w][1] = r /\ req[r].responded ELSE wire[w][1] < r
  BY PairFacts
<1>2. \A p \in Ids \ {r} : req'[p] = req[p] /\ js'[p] = js[p] /\ body'[p] = body[p]
  BY DEF TypeOK
<1>3. /\ wsi'[w].user = r /\ wsi'[w].tx = "open" /\ wsi'[w].state = wsi[w].state
      /\ wsi'[w].queue = 0 /\ wsi'[w].made = wsi[w].made
      /\ wsi'[w] \in Connections /\ \A v \in Wsis \ {w} : wsi'[v] = wsi[v]
  <2>0. \E want \in BOOLEAN : wsi' = [wsi EXCEPT ![w].want = want]
    <3> WITNESS wsi'[w].want \in BOOLEAN
    <3> QED
      OBVIOUS
  <2>1. PICK want \in BOOLEAN : wsi' = [wsi EXCEPT ![w].want = want]
    BY <2>0
  <2> QED
    BY <1>1, <2>1 DEF TypeOK, Connections
<1>4. wire'[w] = wire[w] /\ (Halfway(w)' <=> Halfway(w))
  BY DEF Halfway
<1>5. RequestOK(r)'
  <2>1. req[r].kind = "length" => req[r].complete
    BY <1>1 DEF RequestOK
  <2>2. req[r].dispatched
    BY <1>1 DEF RequestOK
  <2>3. Running' /\ body'[r] = "open" => req'[r].kind = "chunked" /\ ~req'[r].complete
    BY <1>1, <1>2 DEF RequestOK, Running
  <2>4. ~(r >= server'.nextId)
    BY <1>1
  <2>5. /\ req'[r].live /\ req'[r].wsi = w /\ req'[r].dispatched
        /\ req'[r].kind = req[r].kind /\ req'[r].complete = req[r].complete
        /\ req'[r].streaming => req'[r].left = 0
        /\ ~req'[r].streaming => req'[r].pending = <<>>
        /\ ~req'[r].responded => req'[r].left = 0 /\ ~req'[r].streaming
        /\ js'[r] # "none" /\ (js'[r] = "streaming" => req'[r].streaming)
        /\ js'[r] = "handling" => ~req'[r].responded
        /\ wsi'[w].user = r
    BY <1>2, <1>3, <2>2
  <2>6. Running' /\ body'[r] = "open" => req'[r].kind = "chunked" /\ ~req'[r].complete
    BY <1>2, <2>3
  <2>7. req'[r].left > 0 \/ req'[r].pending # <<>> \/ js'[r] = "streaming"
          => wire'[w][1] = r /\ Halfway(w)'
    BY <1>1, <1>2, <1>4
  <2> QED
    BY <2>1, <2>4, <2>5, <2>6, <2>7 DEF RequestOK
<1>6. ConnectionOK(w)'
  <2>1. ~server'.closed /\ Waits(r)' => wsi'[w].want
    BY <1>2 DEF Waits
  <2>2. Halfway(w)' => wire'[w][1] = r /\ req'[r].responded
    BY <1>1, <1>2, <1>4
  <2> QED
    BY <1>1, <1>2, <1>3, <1>4, <2>1, <2>2, Fields DEF ConnectionOK
<1>7. Paired'
  <2>1. \A v \in Wsis \ {w} : wsi'[v] = wsi[v] /\ wire'[v] = wire[v]
    BY <1>3
  <2> QED
    BY <1>2, <1>5, <1>6, <2>1, PairKept DEF Running
<1>8. Exchange
  <2>1. \A p \in Ids : body'[p] = "orphan" => body[p] = "orphan"
    BY <1>2
  <2> QED
    BY <2>1, Quiet
<1>9. SameRefs
  BY <1>1, <1>3 DEF SameRefs, Established
<1>10. TypeOK'
  <2>1. wsi' \in [Wsis -> Connections]
    <3>1. wsi' = [wsi EXCEPT ![w] = wsi'[w]]
      BY <1>3 DEF TypeOK
    <3> QED
      BY <1>3, <3>1 DEF TypeOK
  <2>2. body' \in [Ids -> {"none", "open", "ended", "cancelled", "orphan"}]
    BY DEF TypeOK
  <2> QED
    BY <2>1, <2>2 DEF TypeOK
<1> QED
  BY <1>7, <1>8, <1>9, <1>10 DEF Good

\* A handler that still has something to do has its request.
LEMMA HandlerHas ==
  ASSUME TypeOK, Paired, NEW r \in Ids, js[r] \in {"handling", "caught", "streaming"}
  PROVE  /\ req[r].live /\ req[r].wsi \in Wsis /\ RequestOK(r) /\ req[r] \in Requests
         /\ req[r].streaming \in BOOLEAN /\ req[r].responded \in BOOLEAN
         /\ wsi[req[r].wsi] \in Connections /\ wsi[req[r].wsi].want \in BOOLEAN
<1>1. RequestOK(r) /\ req[r] \in Requests
  BY DEF Paired, TypeOK
<1>2. req[r].live /\ req[r].wsi \in Wsis
  BY <1>1 DEF RequestOK
<1>3. wsi[req[r].wsi] \in Connections
  BY <1>2 DEF TypeOK
<1> QED
  BY <1>1, <1>2, <1>3 DEF Requests, Connections

\* The handler cancels the body of its request.
LEMMA CancelBodyGood ==
  ASSUME TypeOK, Paired, NEW r \in Ids, CancelBody(r) PROVE Good
<1>1. PICK w \in Wsis : w = req[r].wsi
  BY HandlerHas DEF CancelBody
<1>2. /\ req[r].live /\ RequestOK(r) /\ js[r] = "handling" /\ req[r] \in Requests
      /\ wsi[w].want \in BOOLEAN
  BY <1>1, HandlerHas DEF CancelBody
<1>3. /\ body' = [body EXCEPT ![r] = "cancelled"]
      /\ UNCHANGED <<server, vhost, req, wsi, js, refs, frame, stopped, wire>>
  BY DEF CancelBody, Script
<1>4. /\ req' = [req EXCEPT ![r] = req'[r]] /\ js' = [js EXCEPT ![r] = js'[r]]
      /\ body' = [body EXCEPT ![r] = body'[r]] /\ body'[r] = "cancelled"
      /\ wsi' = [wsi EXCEPT ![w].want = wsi'[w].want]
  BY <1>1, <1>2, <1>3 DEF TypeOK, Connections
<1>5. ~req[r].responded /\ req[r].left = 0 /\ ~req[r].streaming /\ req[r].pending = <<>>
  BY <1>2 DEF RequestOK
<1>6. js[r] \in Steps
  BY DEF TypeOK
<1>7. /\ req'[r] \in Requests /\ req'[r].live /\ req'[r].wsi = w
      /\ req[r].responded => req'[r].responded
      /\ req'[r].kind = req[r].kind /\ req'[r].complete = req[r].complete
      /\ req'[r].dispatched = req[r].dispatched
      /\ ~req'[r].responded /\ req'[r].left = 0 /\ ~req'[r].streaming /\ req'[r].pending = <<>>
      /\ js'[r] \in Steps /\ js[r] # "none" /\ js'[r] = "handling"
      /\ ~(req'[r].left > 0)
      /\ wsi'[w].want \in BOOLEAN
  BY <1>1, <1>2, <1>3, <1>5, <1>6
<1> QED
  BY <1>1, <1>2, <1>3, <1>4, <1>7, QuietGood

\* sendResponse, of which a handler that failed tries a second one.
LEMMA SendResponseGood ==
  ASSUME TypeOK, Paired, NEW r \in Ids, SendResponse(r) PROVE Good
<1>0. js[r] \in {"handling", "caught"} /\ UNCHANGED <<vhost, server, refs, frame, stopped>>
  BY DEF SendResponse, Script
<1>1. PICK w \in Wsis : w = req[r].wsi
  BY <1>0, HandlerHas
<1>2. /\ req[r].live /\ RequestOK(r) /\ req[r] \in Requests /\ wsi[w].want \in BOOLEAN
      /\ wsi[w] \in Connections
  BY <1>0, <1>1, HandlerHas
<1>3. /\ wsi[w].user = r /\ ConnectionOK(w)
      /\ IF Halfway(w) THEN wire[w][1] = r /\ req[r].responded ELSE wire[w][1] < r
  BY <1>1, <1>2, PairFacts
<1>4. PICK n \in {0, MaxPieces}, write \in BOOLEAN :
       IF ~May(r)
       THEN /\ js' = [js EXCEPT ![r] = "finished"] /\ UNCHANGED <<req, wsi, body, wire>>
       ELSE IF ~write
       THEN /\ js' = [js EXCEPT ![r] = IF @ = "handling" THEN "caught" ELSE "finished"]
            /\ req' = [req EXCEPT ![r].responded = TRUE]
            /\ UNCHANGED <<wsi, body, wire>>
       ELSE /\ Sent(r, IF n > 0 THEN "head" ELSE "whole")
            /\ IF n = 0 THEN Complete(r, FALSE)
               ELSE /\ req' = [req EXCEPT ![r].responded = TRUE, ![r].left = n]
                    /\ js' = [js EXCEPT ![r] = "finished"]
                    /\ wsi' = [wsi EXCEPT ![w].want = TRUE]
                    /\ UNCHANGED body
  BY <1>1 DEF SendResponse
<1>5. js \in [Ids -> Steps] /\ n \in Nat
  BY HttpServerAssumption DEF TypeOK
<1>6. CASE ~May(r)
  <2>1. js' = [js EXCEPT ![r] = "finished"] /\ UNCHANGED <<req, wsi, body, wire>>
    BY <1>4, <1>6
  <2>2. /\ req' = [req EXCEPT ![r] = req'[r]] /\ js' = [js EXCEPT ![r] = js'[r]]
        /\ body' = [body EXCEPT ![r] = body'[r]] /\ js'[r] = "finished" /\ js'[r] \in Steps
        /\ wsi' = [wsi EXCEPT ![w].want = wsi'[w].want]
    BY <1>1, <1>2, <1>5, <2>1 DEF TypeOK, Connections, Steps
  <2>3. /\ ~server.closed /\ (req[r].left > 0 \/ (req[r].streaming /\ req[r].pending # <<>>))
             => wsi[w].want
        /\ req[r].left > 0 \/ req[r].pending # <<>> => Halfway(w)
    BY <1>1, <1>2, <1>3 DEF RequestOK, ConnectionOK, Waits
  <2>4. /\ req[r].streaming => req[r].left = 0
        /\ ~req[r].streaming => req[r].pending = <<>>
        /\ ~req[r].responded => req[r].left = 0 /\ ~req[r].streaming
    BY <1>2 DEF RequestOK
  <2> QED
    BY <1>0, <1>1, <1>2, <2>1, <2>2, <2>3, <2>4, QuietGood
<1>7. CASE May(r) /\ ~write
  <2>1. /\ js' = [js EXCEPT ![r] = IF @ = "handling" THEN "caught" ELSE "finished"]
        /\ req' = [req EXCEPT ![r].responded = TRUE]
        /\ UNCHANGED <<wsi, body, wire>>
    BY <1>4, <1>7
  <2>2. /\ js' = [js EXCEPT ![r] = js'[r]] /\ js'[r] \in {"caught", "finished"}
        /\ body' = [body EXCEPT ![r] = body'[r]] /\ js'[r] \in Steps
        /\ wsi' = [wsi EXCEPT ![w].want = wsi'[w].want]
    BY <1>1, <1>2, <1>5, <2>1 DEF TypeOK, Connections, Steps
  <2>3. /\ req' = [req EXCEPT ![r] = req'[r]]
        /\ req'[r] = [req[r] EXCEPT !.responded = TRUE]
    BY <2>1 DEF TypeOK
  <2>4. ~req[r].responded /\ req[r].left = 0 /\ ~req[r].streaming /\ req[r].pending = <<>>
    BY <1>2, <1>7 DEF RequestOK, May
  <2>5. /\ req'[r] \in Requests /\ req'[r].live /\ req'[r].wsi = w /\ req'[r].responded
        /\ req'[r].kind = req[r].kind /\ req'[r].complete = req[r].complete
        /\ req'[r].dispatched = req[r].dispatched /\ req'[r].left = 0 /\ ~req'[r].streaming
        /\ req'[r].pending = <<>>
    BY <1>1, <1>2, <2>3, <2>4 DEF Requests
  <2>6. ~(req'[r].left > 0) /\ js'[r] # "streaming" /\ js'[r] # "handling" /\ js[r] # "none"
    BY <1>0, <2>2, <2>5
  <2> QED
    BY <1>0, <1>1, <1>2, <2>1, <2>2, <2>3, <2>5, <2>6, QuietGood
<1>8. CASE May(r) /\ write /\ n = 0
  <2>0. Sent(r, IF n > 0 THEN "head" ELSE "whole") /\ Complete(r, FALSE)
    BY <1>4, <1>8, Zenon
  <2>1. wire' = [wire EXCEPT ![w] = <<r, "whole">>]
    BY <1>1, <1>8, <2>0 DEF Sent
  <2>2. ~Halfway(w)
    BY <1>3, <1>8 DEF May
  <2>3. \E closes \in BOOLEAN : Complete(r, closes)
    BY <2>0, Zenon
  <2> QED
    BY <1>0, <1>1, <1>2, <2>1, <2>2, <2>3, CompleteGood
<1>9. CASE May(r) /\ write /\ n # 0
  <2>0. /\ Sent(r, IF n > 0 THEN "head" ELSE "whole")
        /\ req' = [req EXCEPT ![r].responded = TRUE, ![r].left = n]
        /\ js' = [js EXCEPT ![r] = "finished"]
        /\ wsi' = [wsi EXCEPT ![w].want = TRUE] /\ UNCHANGED body
    BY <1>4, <1>9, Zenon
  <2>1. wire' = [wire EXCEPT ![w] = <<r, "head">>]
    <3>1. n > 0
      BY <1>5, <1>9
    <3> QED
      BY <1>1, <2>0, <3>1 DEF Sent
  <2>2. ~Halfway(w) /\ ~req[r].streaming /\ req[r].pending = <<>>
    BY <1>2, <1>3, <1>9 DEF May, RequestOK
  <2>3. /\ req' = [req EXCEPT ![r] = req'[r]]
        /\ req'[r] = [req[r] EXCEPT !.responded = TRUE, !.left = n]
    BY <2>0 DEF TypeOK
  <2>4. /\ req'[r] \in Requests /\ req'[r].live /\ req'[r].wsi = w /\ req'[r].responded
        /\ req'[r].kind = req[r].kind /\ req'[r].complete = req[r].complete
        /\ req'[r].dispatched = req[r].dispatched /\ ~req'[r].streaming
        /\ req'[r].pending = <<>>
    BY <1>1, <1>2, <1>5, <2>2, <2>3 DEF Requests
  <2>5. /\ js' = [js EXCEPT ![r] = js'[r]] /\ js'[r] = "finished" /\ js'[r] \in Steps
        /\ js[r] # "none"
    BY <1>0, <1>5, <2>0 DEF Steps
  <2>6. wsi' = [wsi EXCEPT ![w].want = wsi'[w].want] /\ wsi'[w].want /\ wsi'[w].want \in BOOLEAN
    BY <1>2, <2>0 DEF TypeOK, Connections
  <2> QED
    BY <1>0, <1>1, <1>2, <2>0, <2>1, <2>2, <2>3, <2>4, <2>5, <2>6, SentGood
<1> QED
  BY <1>6, <1>7, <1>8, <1>9

\* sendHeaders of a streaming response.
LEMMA SendHeadersGood ==
  ASSUME TypeOK, Paired, NEW r \in Ids, SendHeaders(r) PROVE Good
<1>0. /\ js[r] = "handling" /\ UNCHANGED <<vhost, server, refs, frame, stopped, body, wsi>>
  BY DEF SendHeaders, Script
<1>1. PICK w \in Wsis : w = req[r].wsi
  BY <1>0, HandlerHas
<1>2. /\ req[r].live /\ RequestOK(r) /\ req[r] \in Requests /\ wsi[w].want \in BOOLEAN
      /\ wsi[w] \in Connections
  BY <1>0, <1>1, HandlerHas
<1>3. /\ wsi[w].user = r /\ ConnectionOK(w)
      /\ IF Halfway(w) THEN wire[w][1] = r /\ req[r].responded ELSE wire[w][1] < r
  BY <1>1, <1>2, PairFacts
<1>4. ~req[r].responded /\ req[r].left = 0 /\ ~req[r].streaming /\ req[r].pending = <<>> /\ May(r)
  BY <1>0, <1>2 DEF RequestOK, May
<1>5. PICK write \in BOOLEAN :
        /\ req' = [req EXCEPT ![r].responded = TRUE, ![r].streaming = TRUE]
        /\ js' = [js EXCEPT ![r] = IF write THEN "streaming" ELSE "caught"]
        /\ IF write THEN Sent(r, "head") ELSE UNCHANGED wire
  BY <1>4 DEF SendHeaders
<1>6. /\ req' = [req EXCEPT ![r] = req'[r]]
      /\ req'[r] = [req[r] EXCEPT !.responded = TRUE, !.streaming = TRUE]
  BY <1>5 DEF TypeOK
<1>7. /\ req'[r] \in Requests /\ req'[r].live /\ req'[r].wsi = w /\ req'[r].responded
      /\ req'[r].kind = req[r].kind /\ req'[r].complete = req[r].complete
      /\ req'[r].dispatched = req[r].dispatched /\ req'[r].streaming
      /\ req'[r].pending = <<>> /\ req'[r].left = 0 /\ ~(req'[r].left > 0)
  <2>1. /\ req'[r].live /\ req'[r].wsi = w /\ req'[r].responded
        /\ req'[r].kind = req[r].kind /\ req'[r].complete = req[r].complete
        /\ req'[r].dispatched = req[r].dispatched /\ req'[r].streaming
        /\ req'[r].pending = <<>> /\ req'[r].left = 0
    BY <1>1, <1>2, <1>4, <1>6 DEF Requests
  <2>2. req'[r] \in Requests
    BY <1>2, <1>6 DEF Requests
  <2> QED
    BY <2>1, <2>2
<1>8. wsi' = [wsi EXCEPT ![w].want = wsi'[w].want] /\ wsi'[w].want \in BOOLEAN
  BY <1>0, <1>2 DEF TypeOK, Connections
<1>9. CASE write
  <2>1. /\ js' = [js EXCEPT ![r] = js'[r]] /\ js'[r] = "streaming" /\ js'[r] \in Steps
        /\ wire' = [wire EXCEPT ![w] = <<r, "head">>] /\ ~Halfway(w)
    BY <1>1, <1>3, <1>4, <1>5, <1>9 DEF TypeOK, Steps, Sent
  <2> QED
    BY <1>0, <1>1, <1>2, <1>6, <1>7, <1>8, <2>1, SentGood
<1>10. CASE ~write
  <2>1. /\ js' = [js EXCEPT ![r] = js'[r]] /\ js'[r] = "caught" /\ js'[r] \in Steps
        /\ body' = [body EXCEPT ![r] = body'[r]] /\ UNCHANGED wire
    BY <1>0, <1>5, <1>10 DEF TypeOK, Steps
  <2> QED
    BY <1>0, <1>1, <1>2, <1>6, <1>7, <1>8, <2>1, QuietGood
<1> QED
  BY <1>9, <1>10

\* sendBody: a chunk waits for the callback it asks for.
LEMMA SendBodyGood ==
  ASSUME TypeOK, Paired, NEW r \in Ids, SendBody(r) PROVE Good
<1>0. /\ js[r] = "streaming" /\ UNCHANGED <<vhost, server, refs, frame, stopped, body, wire>>
  BY DEF SendBody, Script
<1>1. PICK w \in Wsis : w = req[r].wsi
  BY <1>0, HandlerHas
<1>2. /\ req[r].live /\ RequestOK(r) /\ req[r] \in Requests /\ wsi[w].want \in BOOLEAN
      /\ wsi[w] \in Connections
  BY <1>0, <1>1, HandlerHas
<1>3. /\ wsi[w].user = r /\ ConnectionOK(w)
      /\ IF Halfway(w) THEN wire[w][1] = r /\ req[r].responded ELSE wire[w][1] < r
  BY <1>1, <1>2, PairFacts
<1>4. PICK final \in BOOLEAN :
       /\ js' = [js EXCEPT ![r] = IF final THEN "finished" ELSE @]
       /\ LET len == IF ~final THEN MaxPieces ELSE IF w \in Muxed THEN 0 ELSE 1 IN
           /\ req' = [req EXCEPT ![r].chunks = @ + 1,
                                 ![r].pending = Append(@, [left |-> len, final |-> final])]
           /\ wsi' = [wsi EXCEPT ![w].want = TRUE]
  BY <1>1 DEF SendBody
<1>5. PICK c : c = [left |-> IF ~final THEN MaxPieces ELSE IF w \in Muxed THEN 0 ELSE 1,
                    final |-> final]
  OBVIOUS
<1>6. c \in Pieces
  BY <1>5, HttpServerAssumption DEF Pieces
<1>7. /\ req' = [req EXCEPT ![r] = req'[r]]
      /\ req'[r] = [req[r] EXCEPT !.chunks = req[r].chunks + 1,
                                  !.pending = Append(req[r].pending, c)]
  BY <1>4, <1>5 DEF TypeOK
<1>8. req[r].responded /\ req[r].streaming /\ req[r].left = 0 /\ Halfway(w)
  BY <1>0, <1>1, <1>2 DEF RequestOK
<1>9. /\ req'[r] \in Requests /\ req'[r].live /\ req'[r].wsi = w /\ req'[r].responded
      /\ req'[r].kind = req[r].kind /\ req'[r].complete = req[r].complete
      /\ req'[r].dispatched = req[r].dispatched /\ req'[r].streaming /\ req'[r].left = 0
  <2>1. req[r].chunks + 1 \in Nat /\ Append(req[r].pending, c) \in Seq(Pieces)
    BY <1>2, <1>6, AppendProperties DEF Requests
  <2> DEFINE n == req[r].chunks + 1
             p == Append(req[r].pending, c)
  <2> HIDE DEF n, p
  <2>2. req'[r] = [req[r] EXCEPT !.chunks = n, !.pending = p] /\ n \in Nat /\ p \in Seq(Pieces)
    BY <1>7, <2>1 DEF n, p
  <2> QED
    BY <1>1, <1>2, <1>8, <2>2 DEF Requests
<1>10. wsi' = [wsi EXCEPT ![w].want = wsi'[w].want] /\ wsi'[w].want /\ wsi'[w].want \in BOOLEAN
  BY <1>2, <1>4 DEF TypeOK, Connections
<1>11. /\ js' = [js EXCEPT ![r] = js'[r]] /\ js'[r] \in {"streaming", "finished"}
       /\ js'[r] \in Steps /\ body' = [body EXCEPT ![r] = body'[r]]
  BY <1>0, <1>4 DEF TypeOK, Steps
<1> QED
  BY <1>0, <1>1, <1>2, <1>7, <1>8, <1>9, <1>10, <1>11, QuietGood

\* A callback that cannot write gives its connection up.
LEMMA WriteFailsGood ==
  ASSUME TypeOK, Paired, NEW w \in Wsis, WriteFails(w), wsi[w].state = "open",
         UNCHANGED <<server, vhost, refs, frame, stopped>>
  PROVE  Good
<1>0. ConnectionOK(w) /\ wsi[w] \in Connections
  BY DEF Paired, TypeOK
<1>1. wsi' = [wsi EXCEPT ![w].state = "closing"] /\ UNCHANGED <<req, js, body, wire>>
  BY DEF WriteFails
<1>2. /\ wsi'[w].user = wsi[w].user /\ wsi'[w].tx = wsi[w].tx /\ wsi'[w].rest = wsi[w].rest
      /\ wsi'[w].queue = wsi[w].queue /\ wsi'[w].want = wsi[w].want
      /\ wsi'[w].made = wsi[w].made /\ wsi'[w].state = "closing"
      /\ wsi'[w] \in Connections /\ \A v \in Wsis \ {w} : wsi'[v] = wsi[v]
  BY <1>0, <1>1 DEF TypeOK, Connections
<1>3. ConnectionOK(w)'
  <2>1. PICK u : u = wsi[w].user
    OBVIOUS
  <2>2. (Halfway(w)' <=> Halfway(w)) /\ (u \in Ids => (Waits(u)' <=> Waits(u)))
    BY <1>1 DEF Halfway, Waits
  <2> QED
    BY <1>0, <1>1, <1>2, <2>1, <2>2 DEF ConnectionOK
<1>4. Paired'
  BY <1>1, <1>2, <1>3, UserKept DEF Running
<1>5. Exchange
  BY <1>1, Quiet
<1>6. SameRefs
  BY <1>2 DEF SameRefs, Established
<1>7. TypeOK'
  <2>1. wsi' = [wsi EXCEPT ![w] = wsi'[w]]
    BY <1>1 DEF TypeOK
  <2> QED
    BY <1>1, <1>2, <2>1 DEF TypeOK
<1> QED
  BY <1>4, <1>5, <1>6, <1>7 DEF Good

\* LWS_CALLBACK_HTTP_WRITEABLE of a streaming response.
LEMMA WriteStreamGood ==
  ASSUME TypeOK, Paired, NEW w \in Wsis, WriteStream(w) PROVE Good
<1>0. PICK r : r = wsi[w].user
  OBVIOUS
<1>1. /\ wsi[w].state = "open" /\ r \in Ids /\ ~server.closed
      /\ req[r].streaming /\ req[r].pending # <<>>
      /\ UNCHANGED <<server, vhost, refs, frame, stopped>>
  BY <1>0 DEF WriteStream, Writes
<1>2. req[r].live /\ req[r].wsi = w
  BY <1>0, <1>1, Partners
<1>3. /\ RequestOK(r) /\ ConnectionOK(w) /\ req[r] \in Requests /\ wsi[w] \in Connections
      /\ IF Halfway(w) THEN wire[w][1] = r /\ req[r].responded ELSE wire[w][1] < r
  BY <1>1, <1>2, PairFacts
<1>4. Halfway(w) /\ req[r].left = 0 /\ req[r].responded
  BY <1>1, <1>2, <1>3 DEF RequestOK
<1>5. PICK c : c = Head(req[r].pending)
  OBVIOUS
<1>6. PICK rest : rest = IF c.left > 1 THEN <<[c EXCEPT !.left = @ - 1]>> \o Tail(req[r].pending)
                         ELSE Tail(req[r].pending)
  OBVIOUS
<1>7. \/ WriteFails(w)
      \/ /\ Sent(r, IF FinalPiece(c) THEN "final" ELSE "data")
         /\ c.final /\ c.left <= 1 /\ \E closes \in BOOLEAN : Complete(r, closes)
      \/ /\ Sent(r, IF FinalPiece(c) THEN "final" ELSE "data")
         /\ ~(c.final /\ c.left <= 1)
         /\ req' = [req EXCEPT ![r].pending = rest]
         /\ wsi' = [wsi EXCEPT ![w].want = WantMore(rest)]
         /\ UNCHANGED <<js, body>>
  <2>1. \/ WriteFails(w)
        \/ /\ Sent(r, IF FinalPiece(c) THEN "final" ELSE "data")
           /\ IF c.final /\ c.left <= 1 THEN \E closes \in BOOLEAN : Complete(r, closes)
              ELSE /\ req' = [req EXCEPT ![r].pending = rest]
                   /\ wsi' = [wsi EXCEPT ![w].want = WantMore(rest)]
                   /\ UNCHANGED <<js, body>>
    BY <1>0, <1>5, <1>6, Zenon DEF WriteStream
  <2> QED
    BY <2>1, Zenon
<1>8. c \in Pieces /\ rest \in Seq(Pieces)
  <2>1. req[r].pending \in Seq(Pieces)
    BY <1>3 DEF Requests
  <2>2. c \in Pieces /\ Tail(req[r].pending) \in Seq(Pieces)
    BY <1>1, <1>5, <2>1, HeadTailProperties
  <2>3. CASE c.left > 1
    <3> DEFINE d == [c EXCEPT !.left = c.left - 1]
    <3>1. c.left - 1 \in Nat
      BY <2>2, <2>3 DEF Pieces
    <3>2. d \in Pieces
      BY <2>2, <3>1 DEF Pieces
    <3>3. rest = <<d>> \o Tail(req[r].pending)
      BY <1>6, <2>3
    <3> HIDE DEF d
    <3>4. <<d>> \in Seq(Pieces)
      BY <3>2
    <3> QED
      BY <2>2, <3>3, <3>4, ConcatProperties
  <2>4. CASE ~(c.left > 1)
    BY <1>6, <2>2, <2>4
  <2> QED
    BY <2>2, <2>3, <2>4
<1>9. CASE WriteFails(w)
  BY <1>1, <1>9, WriteFailsGood
<1>10. CASE /\ Sent(r, IF FinalPiece(c) THEN "final" ELSE "data")
            /\ c.final /\ c.left <= 1 /\ \E closes \in BOOLEAN : Complete(r, closes)
  <2>1. FinalPiece(c)
    BY <1>10 DEF FinalPiece, LastPiece
  <2>2. wire' = [wire EXCEPT ![w] = <<r, "final">>]
    BY <1>2, <1>10, <2>1 DEF Sent
  <2>3. \E closes \in BOOLEAN : Complete(r, closes)
    BY <1>10
  <2> QED
    BY <1>1, <1>2, <1>4, <2>2, <2>3, CompleteGood
<1>11. CASE /\ Sent(r, IF FinalPiece(c) THEN "final" ELSE "data")
            /\ ~(c.final /\ c.left <= 1)
            /\ req' = [req EXCEPT ![r].pending = rest]
            /\ wsi' = [wsi EXCEPT ![w].want = WantMore(rest)]
            /\ UNCHANGED <<js, body>>
  <2>1. ~FinalPiece(c)
    BY <1>11 DEF FinalPiece, LastPiece
  <2>2. wire' = [wire EXCEPT ![w] = <<r, "data">>]
    BY <1>2, <1>11, <2>1 DEF Sent
  <2>3. /\ req' = [req EXCEPT ![r] = req'[r]] /\ req'[r] = [req[r] EXCEPT !.pending = rest]
    BY <1>1, <1>11 DEF TypeOK
  <2>4. /\ req'[r] \in Requests /\ req'[r].live /\ req'[r].wsi = w /\ req'[r].responded
        /\ req'[r].kind = req[r].kind /\ req'[r].complete = req[r].complete
        /\ req'[r].dispatched = req[r].dispatched /\ req'[r].streaming /\ req'[r].left = 0
        /\ req'[r].pending = rest /\ ~(req'[r].left > 0)
    BY <1>1, <1>2, <1>3, <1>4, <1>8, <2>3 DEF Requests
  <2>5. PICK want \in BOOLEAN : want = WantMore(rest)
    BY DEF WantMore
  <2>6. /\ wsi' = [wsi EXCEPT ![w].want = wsi'[w].want] /\ wsi'[w].want \in BOOLEAN
        /\ rest # <<>> => wsi'[w].want
    BY <1>3, <1>11, <2>5 DEF TypeOK, Connections, WantMore
  <2>7. /\ js' = [js EXCEPT ![r] = js'[r]] /\ js'[r] = js[r] /\ js'[r] \in Steps
        /\ js[r] \notin {"none", "handling"}
    BY <1>1, <1>3, <1>4, <1>11 DEF TypeOK, RequestOK
  <2>8. UNCHANGED <<server, vhost, body, refs, frame, stopped>>
    BY <1>1, <1>11
  <2>9. /\ req'[r].streaming => req'[r].left = 0
        /\ ~req'[r].streaming => req'[r].pending = <<>>
        /\ js[r] # "none" /\ js'[r] \notin {"none", "handling"}
        /\ js'[r] = "streaming" => req'[r].streaming
        /\ ~server.closed /\ (req'[r].left > 0 \/ (req'[r].streaming /\ req'[r].pending # <<>>))
             => wsi'[w].want
        /\ IF Halfway(w) THEN "data" = "data" ELSE "data" = "head"
    BY <1>4, <2>4, <2>6, <2>7
  <2> QED
    BY <1>1, <1>2, <2>2, <2>3, <2>4, <2>6, <2>7, <2>8, <2>9, SentGood
<1> QED
  BY <1>7, <1>9, <1>10, <1>11

\* LWS_CALLBACK_HTTP_WRITEABLE of a response with a buffer.
LEMMA WriteBufferedGood ==
  ASSUME TypeOK, Paired, NEW w \in Wsis, WriteBuffered(w) PROVE Good
<1>0. PICK r : r = wsi[w].user
  OBVIOUS
<1>1. /\ wsi[w].state = "open" /\ r \in Ids /\ ~server.closed /\ wsi[w].want
      /\ req[r].left > 0 /\ UNCHANGED <<server, vhost, refs, frame, stopped>>
  BY <1>0 DEF WriteBuffered, Writes
<1>2. req[r].live /\ req[r].wsi = w
  BY <1>0, <1>1, Partners
<1>3. /\ RequestOK(r) /\ ConnectionOK(w) /\ req[r] \in Requests /\ wsi[w] \in Connections
      /\ IF Halfway(w) THEN wire[w][1] = r /\ req[r].responded ELSE wire[w][1] < r
      /\ req[r].left \in Nat
  BY <1>1, <1>2, PairFacts DEF Requests
<1>4. /\ Halfway(w) /\ req[r].responded /\ ~req[r].streaming /\ req[r].pending = <<>>
  BY <1>1, <1>2, <1>3 DEF RequestOK
<1>5. \/ WriteFails(w)
      \/ /\ Sent(r, IF LastPiece(req[r].left) THEN "final" ELSE "data")
         /\ req[r].left = 1 /\ \E closes \in BOOLEAN : Complete(r, closes)
      \/ /\ Sent(r, IF LastPiece(req[r].left) THEN "final" ELSE "data")
         /\ req[r].left # 1
         /\ req' = [req EXCEPT ![r].left = @ - 1] /\ UNCHANGED <<wsi, js, body>>
  <2>1. \/ WriteFails(w)
        \/ /\ Sent(r, IF LastPiece(req[r].left) THEN "final" ELSE "data")
           /\ IF req[r].left = 1 THEN \E closes \in BOOLEAN : Complete(r, closes)
              ELSE req' = [req EXCEPT ![r].left = @ - 1] /\ UNCHANGED <<wsi, js, body>>
    BY <1>0, Zenon DEF WriteBuffered
  <2> QED
    BY <2>1, Zenon
<1>6. CASE WriteFails(w)
  BY <1>1, <1>6, WriteFailsGood
<1>7. CASE /\ Sent(r, IF LastPiece(req[r].left) THEN "final" ELSE "data")
           /\ req[r].left = 1 /\ \E closes \in BOOLEAN : Complete(r, closes)
  <2>1. LastPiece(req[r].left)
    BY <1>7 DEF LastPiece
  <2>2. wire' = [wire EXCEPT ![w] = <<r, "final">>]
    BY <1>2, <1>7, <2>1 DEF Sent
  <2>3. \E closes \in BOOLEAN : Complete(r, closes)
    BY <1>7
  <2> QED
    BY <1>1, <1>2, <1>4, <2>2, <2>3, CompleteGood
<1>8. CASE /\ Sent(r, IF LastPiece(req[r].left) THEN "final" ELSE "data")
           /\ req[r].left # 1
           /\ req' = [req EXCEPT ![r].left = @ - 1] /\ UNCHANGED <<wsi, js, body>>
  <2>1. ~LastPiece(req[r].left)
    BY <1>1, <1>3, <1>8 DEF LastPiece
  <2>2. wire' = [wire EXCEPT ![w] = <<r, "data">>]
    BY <1>2, <1>8, <2>1 DEF Sent
  <2>3. PICK n \in Nat : n = req[r].left - 1
    BY <1>1, <1>3
  <2>4. /\ req' = [req EXCEPT ![r] = req'[r]] /\ req'[r] = [req[r] EXCEPT !.left = n]
    BY <1>1, <1>8, <2>3 DEF TypeOK
  <2>5. /\ req'[r] \in Requests /\ req'[r].live /\ req'[r].wsi = w /\ req'[r].responded
        /\ req'[r].kind = req[r].kind /\ req'[r].complete = req[r].complete
        /\ req'[r].dispatched = req[r].dispatched /\ ~req'[r].streaming
        /\ req'[r].pending = <<>>
    BY <1>1, <1>2, <1>3, <1>4, <2>4 DEF Requests
  <2>6. /\ wsi' = [wsi EXCEPT ![w].want = wsi'[w].want] /\ wsi'[w].want \in BOOLEAN
        /\ wsi'[w].want
    BY <1>1, <1>3, <1>8 DEF TypeOK, Connections
  <2>7. /\ js' = [js EXCEPT ![r] = js'[r]] /\ js'[r] = js[r] /\ js'[r] \in Steps
        /\ js[r] \notin {"none", "handling", "streaming"} /\ body' = body
    BY <1>1, <1>3, <1>4, <1>8 DEF TypeOK, RequestOK
  <2>8. /\ req'[r].streaming => req'[r].left = 0
        /\ ~req'[r].streaming => req'[r].pending = <<>>
        /\ js[r] # "none" /\ js'[r] \notin {"none", "handling"}
        /\ js'[r] = "streaming" => req'[r].streaming
        /\ ~server.closed /\ (req'[r].left > 0 \/ (req'[r].streaming /\ req'[r].pending # <<>>))
             => wsi'[w].want
        /\ UNCHANGED <<server, vhost, body, refs, frame, stopped>>
        /\ IF Halfway(w) THEN "data" = "data" ELSE "data" = "head"
    BY <1>1, <1>4, <2>5, <2>6, <2>7
  <2> QED
    BY <1>1, <1>2, <2>2, <2>4, <2>5, <2>6, <2>7, <2>8, SentGood
<1> QED
  BY <1>5, <1>6, <1>7, <1>8

\* LWS_CALLBACK_SERVER_WRITEABLE.
LEMMA WsWriteableGood ==
  ASSUME TypeOK, Paired, NEW w \in Wsis, WsWriteable(w) PROVE Good
<1>0. ConnectionOK(w) /\ wsi[w] \in Connections
  BY DEF Paired, TypeOK
<1>1. /\ wsi[w].state = "open" /\ wsi[w].want /\ wsi[w].user = Ws
      /\ UNCHANGED <<server, vhost, refs, frame, stopped>>
      /\ WriteFails(w) \/ /\ wsi' = [wsi EXCEPT ![w].queue = @ - 1, ![w].want = wsi[w].queue > 1]
                          /\ UNCHANGED <<req, js, body, wire>>
  BY DEF WsWriteable, Writes
<1>2. CASE WriteFails(w)
  BY <1>1, <1>2, WriteFailsGood
<1>3. CASE /\ wsi' = [wsi EXCEPT ![w].queue = @ - 1, ![w].want = wsi[w].queue > 1]
           /\ UNCHANGED <<req, js, body, wire>>
  <2>1. wsi[w].queue > 0 /\ wsi[w].queue \in Nat /\ wsi[w].user \notin Ids /\ wsi[w].user # None
    BY <1>0, <1>1, IdsAre DEF ConnectionOK, Connections
  <2>2. PICK n \in Nat : n = wsi[w].queue - 1
    BY <2>1
  <2>3. wsi' = [wsi EXCEPT ![w].queue = n, ![w].want = (wsi[w].queue > 1)]
    BY <1>3, <2>2
  <2>4. \E want \in BOOLEAN : /\ want <=> n > 0
                            /\ wsi' = [wsi EXCEPT ![w].queue = n, ![w].want = want]
    <3>1. CASE wsi[w].queue > 1
      <4>1. (wsi[w].queue > 1) = TRUE /\ n > 0
        BY <2>1, <2>2, <3>1
      <4>2. wsi' = [wsi EXCEPT ![w].queue = n, ![w].want = TRUE]
        BY <2>3, <4>1, Zenon
      <4> QED
        BY <4>1, <4>2
    <3>2. CASE ~(wsi[w].queue > 1)
      <4>1. (wsi[w].queue > 1) = FALSE /\ ~(n > 0)
        BY <2>1, <2>2, <3>2
      <4>2. wsi' = [wsi EXCEPT ![w].queue = n, ![w].want = FALSE]
        BY <2>3, <4>1, Zenon
      <4> QED
        BY <4>1, <4>2
    <3> QED
      BY <3>1, <3>2
  <2>5. PICK more \in BOOLEAN :
          (more <=> n > 0) /\ wsi' = [wsi EXCEPT ![w].queue = n, ![w].want = more]
    BY <2>4
  <2>6. /\ wsi'[w].user = Ws /\ wsi'[w].tx = wsi[w].tx /\ wsi'[w].rest = wsi[w].rest
        /\ wsi'[w].queue = n /\ wsi'[w].want = more
        /\ wsi'[w].made = wsi[w].made /\ wsi'[w].state = "open"
        /\ wsi'[w] \in Connections /\ \A v \in Wsis \ {w} : wsi'[v] = wsi[v]
    BY <1>0, <1>1, <2>5 DEF TypeOK, Connections
  <2>7. ConnectionOK(w)'
    <3>1. Halfway(w)' <=> Halfway(w)
      BY <1>3 DEF Halfway
    <3> QED
      BY <1>0, <1>1, <1>3, <2>1, <2>5, <2>6, <3>1 DEF ConnectionOK
  <2>8. Paired'
    BY <1>1, <1>3, <2>6, <2>7, UserKept DEF Running
  <2>9. Exchange
    BY <1>3, Quiet
  <2>10. SameRefs
    BY <1>1, <2>6 DEF SameRefs, Established
  <2>11. TypeOK'
    <3>1. wsi' = [wsi EXCEPT ![w] = wsi'[w]]
      BY <2>5 DEF TypeOK
    <3> QED
      BY <1>1, <1>3, <2>6, <3>1 DEF TypeOK
  <2> QED
    BY <2>8, <2>9, <2>10, <2>11 DEF Good
<1> QED
  BY <1>1, <1>2, <1>3

\* A connection that nobody uses.
LEMMA FreeIs ==
  /\ FreeWsi \in Connections /\ FreeWsi.user = None /\ FreeWsi.tx = "none" /\ ~FreeWsi.want
  /\ FreeWsi.queue = 0 /\ FreeWsi.made = 0 /\ FreeWsi.state = "free"
  /\ Nothing \in (Ids \cup {None}) \X Parts
  /\ Nothing[1] = 0 /\ Nothing[2] \notin {"head", "data"}
<1>1. FreeWsi \in Connections
  BY DEF FreeWsi, Connections
<1> QED
  BY <1>1 DEF FreeWsi, Nothing, Parts, None

\* A connection that is freed.
LEMMA FreedIs ==
  ASSUME TypeOK, Paired, NEW w \in Wsis, Freed(w), server' = server
  PROVE  /\ ConnectionOK(w)' /\ wsi' \in [Wsis -> Connections]
         /\ wire' \in [Wsis -> (Ids \cup {None}) \X Parts]
         /\ wire'[w] = Nothing /\ wsi'[w].user = None
         /\ \A v \in Wsis \ {w} : wsi'[v] = wsi[v] /\ wire'[v] = wire[v]
<1>1. /\ wsi' = [wsi EXCEPT ![w] = FreeWsi] /\ wire' = [wire EXCEPT ![w] = Nothing]
  BY DEF Freed
<1>2. /\ wsi' \in [Wsis -> Connections] /\ wire' \in [Wsis -> (Ids \cup {None}) \X Parts]
      /\ wsi'[w] = FreeWsi /\ wire'[w] = Nothing
      /\ \A v \in Wsis \ {w} : wsi'[v] = wsi[v] /\ wire'[v] = wire[v]
  BY <1>1, FreeIs DEF TypeOK
<1>3. 0 < server'.nextId
  BY IdsAre DEF TypeOK, Servers
<1>4. ConnectionOK(w)'
  <2>1. ~Halfway(w)' /\ wire'[w][1] = 0
    BY <1>2, FreeIs DEF Halfway
  <2>2. None # Ws /\ None \notin Ids
    BY IdsAre
  <2> QED
    BY <1>2, <1>3, <2>1, <2>2, FreeIs DEF ConnectionOK
<1> QED
  BY <1>2, <1>4, FreeIs

\* A request that goes with its connection: its body had ended, or is forgotten.
LEMMA GoneGood ==
  ASSUME TypeOK, Paired, NEW r \in Ids, NEW w \in Wsis, req[r].live, req[r].wsi = w,
         Gone(r), Freed(w), UNCHANGED <<server, vhost, refs, stopped>>,
         frame' \in {frame, NoFrame}, body[r] # "open"
  PROVE  Good
<1>1. /\ wsi[w].user = r /\ r # Ws /\ r # None
      /\ r < server.nextId /\ r \in Nat /\ server.nextId \in Nat
  BY PairFacts
<1>2. /\ req' \in [Ids -> Requests] /\ js' \in [Ids -> Steps]
      /\ body' \in [Ids -> {"none", "open", "ended", "cancelled", "orphan"}]
      /\ req'[r] = NoRequest /\ js'[r] = "gone"
      /\ body'[r] = (IF body[r] = "open" THEN "orphan" ELSE "none")
      /\ \A q \in Ids \ {r} : req'[q] = req[q] /\ js'[q] = js[q] /\ body'[q] = body[q]
  BY GoneType
<1>3. /\ ConnectionOK(w)' /\ wsi' \in [Wsis -> Connections]
      /\ wire' \in [Wsis -> (Ids \cup {None}) \X Parts]
      /\ wire'[w] = Nothing /\ wsi'[w].user = None
      /\ \A v \in Wsis \ {w} : wsi'[v] = wsi[v] /\ wire'[v] = wire[v]
  BY FreedIs
<1>4. RequestOK(r)'
  <2>1. /\ req'[r].left = 0 /\ req'[r].pending = <<>> /\ ~req'[r].live
        /\ ~req'[r].streaming /\ ~req'[r].responded /\ req'[r].kind = "none"
    BY <1>2, NothingLeft
  <2>2. ~(r >= server'.nextId) /\ body'[r] = "none"
    BY <1>1, <1>2
  <2> QED
    BY <1>2, <2>1, <2>2 DEF RequestOK
<1>5. Paired'
  BY <1>2, <1>3, <1>4, PairKept DEF Running
<1>6. Exchange
  <2>1. \A v \in Wsis : Answers(v)
    BY <1>3 DEF Answers
  <2>2. \A p \in Ids : Leaves(p)
    BY <1>2 DEF Leaves
  <2> QED
    BY <2>1, <2>2 DEF Exchange
<1>7. SameRefs
  <2>1. \A v \in Wsis : wsi'[v].user = Ws <=> wsi[v].user = Ws
    BY <1>1, <1>3, IdsAre
  <2> QED
    BY <2>1 DEF SameRefs, Established
<1>8. TypeOK'
  BY <1>2, <1>3 DEF TypeOK
<1> QED
  BY <1>5, <1>6, <1>7, <1>8 DEF Good

\* LWS_CALLBACK_CLOSED_HTTP.
LEMMA ClosedHttpGood ==
  ASSUME TypeOK, Paired, NEW w \in Wsis, ClosedHttp(w) PROVE Good
<1>0. PICK r : r = wsi[w].user
  OBVIOUS
<1>1. /\ Running /\ r # Ws /\ UNCHANGED <<server, vhost, refs>> /\ wsi[w].state = "closing"
      /\ r \in Ids \cup {None} /\ None \notin Ids
  BY <1>0, Fields DEF ClosedHttp
<1>2. CASE r # None /\ MustEnd(r)
  <2>1. /\ req' = [req EXCEPT ![r].complete = TRUE] /\ OnBodyChunk(r, TRUE)
        /\ frame' = <<"closed", r>> /\ UNCHANGED <<wsi, js, wire>>
    BY <1>0, <1>2 DEF ClosedHttp
  <2>2. r \in Ids /\ req[r].live /\ req[r].wsi = w
    BY <1>0, <1>1, <1>2, Partners
  <2>3. RequestOK(r) /\ ConnectionOK(w) /\ req[r] \in Requests
    BY <2>2, PairFacts
  <2>4. /\ req' = [req EXCEPT ![r] = req'[r]] /\ req'[r] = [req[r] EXCEPT !.complete = TRUE]
        /\ \A p \in Ids \ {r} : req'[p] = req[p] /\ js'[p] = js[p]
    BY <2>1, <2>2 DEF TypeOK
  <2>5. /\ req'[r] \in Requests /\ req'[r].live /\ req'[r].wsi = w /\ req'[r].complete
        /\ req'[r].kind = req[r].kind /\ req'[r].responded = req[r].responded
        /\ req'[r].dispatched = req[r].dispatched /\ req'[r].streaming = req[r].streaming
        /\ req'[r].pending = req[r].pending /\ req'[r].left = req[r].left
    <3>1. req'[r] \in Requests
      BY <2>3, <2>4 DEF Requests
    <3>2. /\ req'[r].live /\ req'[r].wsi = w /\ req'[r].complete
          /\ req'[r].kind = req[r].kind /\ req'[r].responded = req[r].responded
          /\ req'[r].dispatched = req[r].dispatched /\ req'[r].streaming = req[r].streaming
          /\ req'[r].pending = req[r].pending /\ req'[r].left = req[r].left
      BY <2>2, <2>3, <2>4 DEF Requests
    <3> QED
      BY <3>1, <3>2
  <2>6. /\ body' \in [Ids -> {"none", "open", "ended", "cancelled", "orphan"}]
        /\ \A p \in Ids \ {r} : body'[p] = body[p]
        /\ Running' => body'[r] # "open"
        /\ body'[r] = "orphan" => body[r] = "orphan"
    BY <2>1, <2>2 DEF OnBodyChunk, TypeOK, Running
  <2>7. RequestOK(r)'
    <3>1. wire' = wire /\ wsi' = wsi /\ server' = server /\ js'[r] = js[r]
      BY <1>1, <2>1
    <3>2. ~(r >= server.nextId)
      BY <2>2, <2>3 DEF RequestOK
    <3> QED
      BY <2>2, <2>3, <2>5, <2>6, <3>1, <3>2 DEF RequestOK, Halfway
  <2>8. ConnectionOK(w)'
    <3>1. (Halfway(w)' <=> Halfway(w)) /\ (Waits(r)' <=> Waits(r))
      BY <2>1, <2>5 DEF Halfway, Waits
    <3>2. wire'[w] = wire[w] /\ wsi'[w] = wsi[w] /\ server' = server
      BY <1>1, <2>1
    <3>3. r # None /\ r # Ws
      BY <1>1, <1>2
    <3> QED
      BY <1>0, <2>2, <2>3, <2>5, <3>1, <3>2, <3>3 DEF ConnectionOK
  <2>9. Paired'
    <3>1. \A v \in Wsis \ {w} : wsi'[v] = wsi[v] /\ wire'[v] = wire[v]
      BY <2>1
    <3> QED
      BY <1>1, <2>2, <2>4, <2>6, <2>7, <2>8, <3>1, PairKept
  <2>10. Exchange
    <3>1. \A p \in Ids : body'[p] = "orphan" => body[p] = "orphan"
      BY <2>6
    <3> QED
      BY <2>1, <3>1, Quiet
  <2>11. SameRefs
    BY <1>1, <2>1 DEF SameRefs, Established
  <2>12. TypeOK'
    <3>1. req' \in [Ids -> Requests]
      BY <2>4, <2>5 DEF TypeOK
    <3> QED
      BY <1>1, <2>1, <2>2, <2>6, <3>1 DEF TypeOK
  <2> QED
    BY <2>9, <2>10, <2>11, <2>12 DEF Good
<1>3. CASE r # None /\ ~MustEnd(r)
  <2>1. Gone(r) /\ Freed(w) /\ UNCHANGED <<frame, stopped>>
    BY <1>0, <1>3 DEF ClosedHttp
  <2>2. r \in Ids /\ req[r].live /\ req[r].wsi = w
    BY <1>0, <1>1, <1>3, Partners
  <2>3. body[r] # "open"
    BY <1>1, <1>3, <2>2, PairFacts DEF RequestOK, MustEnd
  <2> QED
    BY <1>1, <2>1, <2>2, <2>3, GoneGood
<1>4. CASE r = None
  <2>1. Freed(w) /\ UNCHANGED <<req, js, body, frame, stopped>>
    BY <1>0, <1>4 DEF ClosedHttp
  <2>2. /\ ConnectionOK(w)' /\ wsi' \in [Wsis -> Connections]
        /\ wire' \in [Wsis -> (Ids \cup {None}) \X Parts]
        /\ wire'[w] = Nothing /\ wsi'[w].user = None
        /\ \A v \in Wsis \ {w} : wsi'[v] = wsi[v] /\ wire'[v] = wire[v]
    BY <1>1, <2>1, FreedIs
  <2>3. Paired'
    <3>1. \A p \in Ids \ {None} : req'[p] = req[p] /\ js'[p] = js[p] /\ body'[p] = body[p]
      BY <2>1
    <3>2. /\ server.nextId <= server'.nextId /\ server'.nextId \in Nat
          /\ server.closed => server'.closed
          /\ Running' => Running
      BY <1>1, <2>1, Fields
    <3> QED
      BY <1>0, <1>1, <1>4, <2>2, <3>1, <3>2, RestKept
  <2>4. Exchange
    <3>1. \A v \in Wsis : Answers(v)
      BY <2>2 DEF Answers
    <3>2. \A p \in Ids : Leaves(p)
      BY <2>1 DEF Leaves
    <3> QED
      BY <3>1, <3>2 DEF Exchange
  <2>5. SameRefs
    <3>1. \A v \in Wsis : wsi'[v].user = Ws <=> wsi[v].user = Ws
      BY <1>0, <1>4, <2>2, IdsAre
    <3> QED
      BY <1>1, <3>1 DEF SameRefs, Established
  <2>6. TypeOK'
    BY <1>1, <2>1, <2>2 DEF TypeOK
  <2> QED
    BY <2>3, <2>4, <2>5, <2>6 DEF Good
<1> QED
  BY <1>2, <1>3, <1>4

\* The callback ends with the request that it still holds.
LEMMA ClosedReturnsGood ==
  ASSUME TypeOK, Paired, FrameOK, ClosedReturns PROVE Good
<1>0. PICK r : r = frame[2]
  OBVIOUS
<1>1. Running /\ frame[1] = "closed" /\ UNCHANGED <<server, vhost, refs>>
  BY DEF ClosedReturns
<1>2. r \in Ids
  BY <1>0, <1>1 DEF TypeOK, NoFrame
<1>3. CASE req[r].live
  <2>1. Freed(req[r].wsi) /\ Gone(r) /\ frame' = NoFrame /\ UNCHANGED stopped
    BY <1>0, <1>3 DEF ClosedReturns
  <2>2. body[r] # "open"
    BY <1>0, <1>1, <1>3 DEF FrameOK
  <2>3. req[r].wsi \in Wsis
    BY <1>2, <1>3, Partners
  <2> QED
    BY <1>1, <1>2, <1>3, <2>1, <2>2, <2>3, GoneGood
<1>4. CASE ~req[r].live
  <2>1. stopped' = "freed" /\ UNCHANGED <<wsi, req, js, body, frame, wire>>
    BY <1>0, <1>4 DEF ClosedReturns
  <2>2. Paired'
    <3>1. /\ \A p \in Ids \ {None} : req'[p] = req[p] /\ js'[p] = js[p] /\ body'[p] = body[p]
          /\ \A v \in Wsis : wsi'[v] = wsi[v] /\ wire'[v] = wire[v]
      BY <2>1
    <3>2. /\ server.nextId <= server'.nextId /\ server'.nextId \in Nat
          /\ server.closed => server'.closed
          /\ Running' => Running
      BY <1>1, Fields
    <3>3. PICK w0 : w0 \notin Wsis
      BY NoSetContainsEverything
    <3>4. None \notin Ids
      BY Fields
    <3> QED
      BY <3>1, <3>2, <3>3, <3>4, RestKept
  <2>3. Exchange
    BY <2>1, Quiet
  <2>4. SameRefs
    BY <1>1, <2>1 DEF SameRefs, Established
  <2>5. TypeOK'
    BY <1>1, <2>1 DEF TypeOK
  <2> QED
    BY <2>2, <2>3, <2>4, <2>5 DEF Good
<1> QED
  BY <1>3, <1>4

\* The loop over the chunks of a body goes on, or uses what was freed.
LEMMA BodyReturnsGood ==
  ASSUME TypeOK, Paired, BodyReturns PROVE Good
<1>1. /\ UNCHANGED <<server, vhost, req, wsi, js, body, refs, wire>>
      /\ frame' \in {frame, NoFrame} /\ Running
  BY DEF BodyReturns
<1>2. Paired'
  <2>1. /\ \A p \in Ids \ {None} : req'[p] = req[p] /\ js'[p] = js[p] /\ body'[p] = body[p]
        /\ \A v \in Wsis : wsi'[v] = wsi[v] /\ wire'[v] = wire[v]
    BY <1>1
  <2>2. /\ server.nextId <= server'.nextId /\ server'.nextId \in Nat
        /\ server.closed => server'.closed
        /\ Running' => Running
    BY <1>1, Fields
  <2>3. PICK w0 : w0 \notin Wsis
    BY NoSetContainsEverything
  <2>4. None \notin Ids
    BY Fields
  <2> QED
    BY <2>1, <2>2, <2>3, <2>4, RestKept
<1>3. Exchange
  BY <1>1, Quiet
<1>4. SameRefs
  BY <1>1 DEF SameRefs, Established
<1>5. TypeOK'
  BY <1>1 DEF TypeOK
<1> QED
  BY <1>2, <1>3, <1>4, <1>5 DEF Good

----------------------------------------------------------------------------
(* What the pin, the WebSockets and the callbacks that wait have to keep.  *)

\* A step that leaves the connections theirs keeps what holds the loop.
LEMMA RefsKept ==
  ASSUME RefsOK, SameRefs PROVE RefsOK'
<1> QED
  BY DEF RefsOK, SameRefs

\* The steps of the server itself.
ServerStep == Create \/ Close \/ (\E v \in Vhosts : ProtocolInit(v) \/ ProtocolDestroy(v))
\* The steps of a server.
LEMMA ServerGood ==
  ASSUME TypeOK, Paired, PinOK, ServerStep PROVE Good
<1>1. UNCHANGED <<req, wsi, js, body, refs, stopped, wire>>
  BY DEF ServerStep, Create, Close, ProtocolInit, ProtocolDestroy
<1>2. TypeOK'
  BY ServerTypes DEF ServerStep
<1>3. Paired'
  BY ServerPaired DEF ServerStep
<1>4. Exchange
  BY <1>1, Quiet
<1>5. SameRefs
  BY <1>1 DEF SameRefs, Established
<1> QED
  BY <1>2, <1>3, <1>4, <1>5 DEF Good

\* The steps of a connection that is not a request's.
ConnectionStep(w) == Connect(w) \/ WriteIgnored(w) \/ WsSend(w) \/ Drop(w)
\* The steps of a connection.
LEMMA ConnectionGood ==
  ASSUME TypeOK, Paired, NEW w \in Wsis, ConnectionStep(w) PROVE Good
<1>1. UNCHANGED <<req, js, body, refs, wire>>
  BY DEF ConnectionStep, Connect, WriteIgnored, WsSend, Drop, Writes
<1>2. TypeOK'
  BY ConnectionTypes DEF ConnectionStep
<1>3. Paired'
  BY ConnectionPaired DEF ConnectionStep
<1>4. Exchange
  BY <1>1, Quiet
<1>5. SameRefs
  <2>1. \A v \in Wsis : wsi'[v].user = wsi[v].user
    <3>1. CASE Connect(w)
      BY <3>1 DEF Connect, TypeOK, Connections
    <3>2. CASE WriteIgnored(w)
      BY <3>2 DEF WriteIgnored, TypeOK, Connections
    <3>3. CASE WsSend(w)
      BY <3>3 DEF WsSend, TypeOK, Connections
    <3>4. CASE Drop(w)
      BY <3>4 DEF Drop, TypeOK, Connections
    <3> QED
      BY <3>1, <3>2, <3>3, <3>4 DEF ConnectionStep
  <2> QED
    BY <1>1, <2>1 DEF SameRefs, Established
<1> QED
  BY <1>2, <1>3, <1>4, <1>5 DEF Good

\* A WebSocket that is established holds the loop once more.
LEMMA UpgradeKeeps ==
  ASSUME TypeOK, Paired, RefsOK, NEW w \in Wsis, Upgrade(w)
  PROVE  TypeOK' /\ Paired' /\ Exchange /\ RefsOK'
<1>1. UNCHANGED <<req, js, body, wire>>
  BY DEF Upgrade
<1>2. TypeOK'
  BY ConnectionTypes
<1>3. /\ Paired' /\ wsi[w].user = None
      /\ \/ wsi'[w].user = Ws /\ refs' = refs + 1
         \/ wsi'[w].user = None /\ refs' = refs
      /\ \A v \in Wsis \ {w} : wsi'[v] = wsi[v]
  BY UpgradePaired
<1>4. Exchange
  BY <1>1, Quiet
<1>5. None # Ws /\ w \notin Established
  BY <1>3, IdsAre DEF Established
<1>6. RefsOK'
  <2>1. CASE wsi'[w].user = Ws /\ refs' = refs + 1
    <3>1. \A v \in Wsis : wsi'[v].user = Ws <=> wsi[v].user = Ws \/ v = w
      BY <1>3, <2>1
    <3>2. Established' = Established \cup {w}
      BY <3>1 DEF Established
    <3>3. IsFiniteSet(Established') /\ Cardinality(Established') = Cardinality(Established) + 1
      BY <1>5, <3>2, FS_AddElement DEF RefsOK
    <3> QED
      BY <2>1, <3>3 DEF RefsOK
  <2>2. CASE wsi'[w].user = None /\ refs' = refs
    <3>1. \A v \in Wsis : wsi'[v].user = Ws <=> wsi[v].user = Ws
      BY <1>3, <2>2
    <3>2. Established' = Established
      BY <3>1 DEF Established
    <3> QED
      BY <2>2, <3>2 DEF RefsOK
  <2> QED
    BY <1>3, <2>1, <2>2
<1> QED
  BY <1>2, <1>3, <1>4, <1>6

\* And gives the loop back when it is closed.
LEMMA WsClosedKeeps ==
  ASSUME TypeOK, Paired, RefsOK, NEW w \in Wsis, WsClosed(w)
  PROVE  TypeOK' /\ Paired' /\ Exchange /\ RefsOK'
<1>1. /\ wsi[w].user = Ws /\ Freed(w) /\ refs' = refs - 1
      /\ UNCHANGED <<server, vhost, req, js, body, frame, stopped>>
  BY DEF WsClosed, Unref
<1>2. /\ ConnectionOK(w)' /\ wsi' \in [Wsis -> Connections]
      /\ wire' \in [Wsis -> (Ids \cup {None}) \X Parts]
      /\ wire'[w] = Nothing /\ wsi'[w].user = None
      /\ \A v \in Wsis \ {w} : wsi'[v] = wsi[v] /\ wire'[v] = wire[v]
  BY <1>1, FreedIs
<1>3. Paired'
  <2>1. \A p \in Ids \ {None} : req'[p] = req[p] /\ js'[p] = js[p] /\ body'[p] = body[p]
    BY <1>1
  <2>2. /\ server.nextId <= server'.nextId /\ server'.nextId \in Nat
        /\ server.closed => server'.closed
        /\ Running' => Running
    BY <1>1, Fields DEF Running
  <2>3. None \notin Ids /\ wsi[w].user \in {None, None, Ws}
    BY <1>1, Fields
  <2> QED
    BY <1>2, <2>1, <2>2, <2>3, RestKept
<1>4. Exchange
  <2>1. \A v \in Wsis : Answers(v)
    BY <1>2 DEF Answers
  <2>2. \A p \in Ids : Leaves(p)
    BY <1>1 DEF Leaves
  <2> QED
    BY <2>1, <2>2 DEF Exchange
<1>5. RefsOK'
  <2>1. \A v \in Wsis : wsi'[v].user = Ws <=> wsi[v].user = Ws /\ v # w
    BY <1>2, IdsAre
  <2>2. Established' = Established \ {w} /\ w \in Established
    BY <1>1, <2>1 DEF Established
  <2>3. IsFiniteSet(Established') /\ Cardinality(Established') = Cardinality(Established) - 1
    BY <2>2, FS_RemoveElement DEF RefsOK
  <2> QED
    BY <1>1, <2>3 DEF RefsOK
<1>6. TypeOK'
  <2>1. refs' \in Int
    BY <1>1 DEF TypeOK
  <2> QED
    BY <1>1, <1>2, <2>1 DEF TypeOK
<1> QED
  BY <1>3, <1>4, <1>5, <1>6

\* A step that leaves the vhosts and what the server knows of them.
LEMMA PinRest ==
  ASSUME PinOK, server'.state = server.state, server'.closed = server.closed,
         server'.count = server.count, server'.pinned = server.pinned,
         server'.onClose = server.onClose,
         vhost'.alive = vhost.alive, vhost'.dying = vhost.dying
  PROVE  PinOK'
<1> QED
  BY DEF PinOK

\* There are finitely many vhosts.
LEMMA VhostsFinite == \A vs \in SUBSET Vhosts : IsFiniteSet(vs) /\ Cardinality(vs) \in Nat
<1>1. IsFiniteSet(Vhosts)
  <2>1. Vhosts = {"tcp"} \cup {"quic"}
    BY DEF Vhosts
  <2> QED
    BY <2>1, FS_Singleton, FS_Union
<1> QED
  BY <1>1, FS_Subset, FS_CardinalityType

\* The server unpins itself with the last of its vhosts, and not before.
LEMMA PinServer ==
  ASSUME TypeOK, PinOK, ServerStep PROVE PinOK'
<1>0. /\ server \in Servers
      /\ vhost \in [alive : SUBSET Vhosts, dying : SUBSET Vhosts, ready : SUBSET Vhosts]
  BY DEF TypeOK
<1>1. CASE Create
  <2>0. PICK http3 \in Http3 : \E fails \in {FALSE, http3} : \E made \in {http3, http3 /\ ~fails} :
          LET vs == {"tcp"} \cup (IF made THEN {"quic"} ELSE {}) IN
          /\ server' = [server EXCEPT !.state = IF fails THEN "failed" ELSE "open",
                                      !.closed = fails, !.count = Count(vs), !.pinned = TRUE,
                                      !.onClose = IF fails THEN "none" ELSE "armed"]
          /\ vhost' = [vhost EXCEPT !.alive = vs, !.dying = IF fails THEN vs ELSE {}]
    BY <1>1 DEF Create
  <2>1. PICK fails \in {FALSE, http3} : \E made \in {http3, http3 /\ ~fails} :
          LET vs == {"tcp"} \cup (IF made THEN {"quic"} ELSE {}) IN
          /\ server' = [server EXCEPT !.state = IF fails THEN "failed" ELSE "open",
                                      !.closed = fails, !.count = Count(vs), !.pinned = TRUE,
                                      !.onClose = IF fails THEN "none" ELSE "armed"]
          /\ vhost' = [vhost EXCEPT !.alive = vs, !.dying = IF fails THEN vs ELSE {}]
    BY <2>0
  <2>b. PICK made \in {http3, http3 /\ ~fails} :
          LET vs == {"tcp"} \cup (IF made THEN {"quic"} ELSE {}) IN
          /\ server' = [server EXCEPT !.state = IF fails THEN "failed" ELSE "open",
                                      !.closed = fails, !.count = Count(vs), !.pinned = TRUE,
                                      !.onClose = IF fails THEN "none" ELSE "armed"]
          /\ vhost' = [vhost EXCEPT !.alive = vs, !.dying = IF fails THEN vs ELSE {}]
    BY <2>1
  <2>2. PICK vs : vs = {"tcp"} \cup (IF made THEN {"quic"} ELSE {})
    OBVIOUS
  <2>3. /\ server' = [server EXCEPT !.state = IF fails THEN "failed" ELSE "open",
                                    !.closed = fails, !.count = Cardinality(vs), !.pinned = TRUE,
                                    !.onClose = IF fails THEN "none" ELSE "armed"]
        /\ vhost' = [vhost EXCEPT !.alive = vs, !.dying = IF fails THEN vs ELSE {}]
    BY <2>b, <2>2 DEF Count
  <2>4. Cardinality(vs) \in Nat
    BY <2>2, VhostsFinite DEF Vhosts
  <2>5. PICK n \in Nat : n = Cardinality(vs)
    BY <2>4
  <2>6. /\ server'.state # "none" /\ server'.count = n /\ server'.pinned
        /\ server'.onClose # "fired"
    BY <1>0, <2>3, <2>5 DEF Servers
  <2>7. vhost'.alive = vs /\ vhost'.dying \subseteq vs
    BY <1>0, <2>3
  <2> QED
    BY <2>5, <2>6, <2>7 DEF PinOK
<1>2. CASE Close
  <2>1. /\ server' = [server EXCEPT !.state = "closed", !.closed = TRUE]
        /\ vhost' = [vhost EXCEPT !.dying = vhost.alive]
    BY <1>2 DEF Close
  <2>2. /\ server'.state = "closed" /\ server'.count = server.count
        /\ server'.pinned = server.pinned /\ server'.onClose = server.onClose
        /\ vhost'.alive = vhost.alive /\ vhost'.dying = vhost.alive
    BY <1>0, <2>1 DEF Servers
  <2> QED
    BY <2>2 DEF PinOK
<1>3. ASSUME NEW v \in Vhosts, ProtocolInit(v) PROVE PinOK'
  <2>1. server' = server /\ vhost' = [vhost EXCEPT !.ready = @ \cup {v}]
    BY <1>3 DEF ProtocolInit
  <2>2. vhost'.alive = vhost.alive /\ vhost'.dying = vhost.dying
    BY <1>0, <2>1
  <2> QED
    BY <2>1, <2>2, PinRest
<1>4. ASSUME NEW v \in Vhosts, ProtocolDestroy(v) PROVE PinOK'
  <2>1. /\ v \in vhost.dying
        /\ vhost' = [vhost EXCEPT !.alive = @ \ {v}, !.dying = @ \ {v}]
        /\ server' = IF v \notin vhost.ready THEN server
                     ELSE [server EXCEPT !.count = @ - 1, !.pinned = @ /\ ~Last,
                                         !.onClose = IF Last /\ @ = "armed" THEN "fired" ELSE @]
    BY <1>4 DEF ProtocolDestroy
  <2>2. vhost'.alive = vhost.alive \ {v} /\ vhost'.dying = vhost.dying \ {v}
    BY <1>0, <2>1
  <2>3. /\ vhost.dying \subseteq vhost.alive /\ Cardinality(vhost.alive) <= server.count
        /\ (server.pinned /\ server.onClose # "fired") \/ vhost.alive = {}
        /\ server.state = "none" => ~server.closed
    BY DEF PinOK
  <2>4. /\ IsFiniteSet(vhost.alive) /\ Cardinality(vhost.alive) \in Nat /\ v \in vhost.alive
        /\ Cardinality(vhost.alive \ {v}) = Cardinality(vhost.alive) - 1
    BY <1>0, <2>1, <2>3, VhostsFinite, FS_RemoveElement
  <2>5. server.pinned /\ server.onClose # "fired" /\ server.count \in Int
    BY <1>0, <2>3, <2>4 DEF Servers
  <2>6. CASE v \notin vhost.ready
    <3>1. server' = server
      BY <2>1, <2>6
    <3> QED
      BY <2>2, <2>3, <2>4, <2>5, <3>1 DEF PinOK
  <2>7. CASE v \in vhost.ready /\ Last
    <3>1. server' = [server EXCEPT !.count = @ - 1, !.pinned = @ /\ ~Last,
                                   !.onClose = IF Last /\ @ = "armed" THEN "fired" ELSE @]
      BY <2>1, <2>7
    <3>2. /\ server'.count = server.count - 1
          /\ server'.state = server.state /\ server'.closed = server.closed
      BY <1>0, <3>1 DEF Servers
    <3>3. server.count = 1
      BY <2>7 DEF Last
    <3>4. Cardinality(vhost.alive \ {v}) <= 0
      BY <2>3, <2>4, <3>3
    <3>5. vhost.alive \ {v} = {}
      <4>1. IsFiniteSet(vhost.alive \ {v})
        BY <2>4, FS_RemoveElement
      <4>2. Cardinality(vhost.alive \ {v}) \in Nat
        BY <4>1, FS_CardinalityType
      <4> QED
        BY <3>4, <4>1, <4>2, FS_EmptySet
    <3>6. Cardinality(vhost'.alive) <= server'.count
      BY <2>2, <2>3, <2>4, <2>5, <3>2
    <3> QED
      BY <2>2, <2>3, <3>2, <3>5, <3>6 DEF PinOK
  <2>8. CASE v \in vhost.ready /\ ~Last
    <3>1. server' = [server EXCEPT !.count = @ - 1, !.pinned = @ /\ ~Last,
                                   !.onClose = IF Last /\ @ = "armed" THEN "fired" ELSE @]
      BY <2>1, <2>8
    <3>2. /\ server'.count = server.count - 1
          /\ server'.state = server.state /\ server'.closed = server.closed
      BY <1>0, <3>1 DEF Servers
    <3>3. server'.pinned /\ server'.onClose # "fired"
      BY <1>0, <2>5, <2>8, <3>1 DEF Servers
    <3>4. Cardinality(vhost'.alive) <= server'.count
      BY <2>2, <2>3, <2>4, <2>5, <3>2
    <3> QED
      BY <2>2, <2>3, <3>2, <3>3, <3>4 DEF PinOK
  <2> QED
    BY <2>6, <2>7, <2>8
<1> QED
  BY <1>1, <1>2, <1>3, <1>4 DEF ServerStep

\* A callback that waits keeps waiting for an end that came.
LEMMA FrameKept ==
  ASSUME TypeOK, FrameOK, UNCHANGED <<frame, stopped>>,
         \A r \in Ids : /\ body'[r] = "open" => body[r] = "open"
                        /\ req'[r].live => req[r].live
  PROVE  FrameOK'
<1>1. frame[1] = "closed" => frame[2] \in Ids
  BY DEF TypeOK, NoFrame
<1> QED
  BY <1>1 DEF FrameOK, Running

\* Outside such a callback there is nothing to show.
LEMMA FrameNone ==
  ASSUME frame'[1] # "closed" PROVE FrameOK'
<1> QED
  BY DEF FrameOK

----------------------------------------------------------------------------
(* Every step.                                                             *)

\* A step of a connection that lws or its request takes, a step of a handler and the end
\* of a callback.
RequestStep(w) == \/ Http(w) \/ HttpAgain(w) \/ HttpBody(w) \/ HttpBodyEnds(w) \/ WriteStream(w)
                  \/ WriteBuffered(w) \/ WsWriteable(w) \/ ClosedHttp(w)
HandlerStep(r) == CancelBody(r) \/ SendResponse(r) \/ SendHeaders(r) \/ SendBody(r)
Return == BodyReturns \/ ClosedReturns

\* The steps by what they touch.
LEMMA Cases ==
  ASSUME Next
  PROVE  \/ ServerStep
         \/ \E w \in Wsis : ConnectionStep(w) \/ RequestStep(w) \/ Upgrade(w) \/ WsClosed(w)
         \/ \E r \in Ids : HandlerStep(r)
         \/ Return
<1> QED
  BY Zenon DEF Next, Lws, ServerStep, ConnectionStep, RequestStep, HandlerStep, Return, Vhosts

\* None of them but the server's own changes what the pin waits for.
LEMMA PinKept ==
  ASSUME TypeOK, PinOK, Next PROVE PinOK'
<1>1. CASE ServerStep
  BY <1>1, PinServer
<1>2. ASSUME UNCHANGED <<server, vhost>> PROVE PinOK'
  BY <1>2, PinRest
<1>3. ASSUME NEW w \in Wsis, Http(w) \/ HttpAgain(w) PROVE PinOK'
  <2>1. UNCHANGED vhost /\ (server' = server \/ server' = [server EXCEPT !.nextId = @ + 1])
    <3>1. UNCHANGED vhost /\ \E conn : Arrive(w, conn)
      BY <1>3 DEF Http, HttpAgain, LwsHttp
    <3> QED
      BY <3>1 DEF Arrive
  <2>2. /\ server'.state = server.state /\ server'.closed = server.closed
        /\ server'.count = server.count /\ server'.pinned = server.pinned
        /\ server'.onClose = server.onClose
    BY <2>1 DEF TypeOK, Servers
  <2> QED
    BY <2>1, <2>2, PinRest
<1>4. ASSUME NEW w \in Wsis, Upgrade(w) PROVE PinOK'
  <2>1. UNCHANGED vhost /\ \E pending : server' = [server EXCEPT !.upgrades = pending]
    BY <1>4 DEF Upgrade
  <2>2. /\ server'.state = server.state /\ server'.closed = server.closed
        /\ server'.count = server.count /\ server'.pinned = server.pinned
        /\ server'.onClose = server.onClose
    BY <2>1 DEF TypeOK, Servers
  <2> QED
    BY <2>1, <2>2, PinRest
<1>5. ASSUME NEW w \in Wsis, ConnectionStep(w) \/ WsClosed(w) PROVE UNCHANGED <<server, vhost>>
  BY <1>5 DEF ConnectionStep, WsClosed, Connect, WriteIgnored, WsSend, Drop, Writes
<1>6. ASSUME NEW w \in Wsis, RequestStep(w), ~Http(w), ~HttpAgain(w)
      PROVE  UNCHANGED <<server, vhost>>
  BY <1>6, Zenon DEF RequestStep, HttpBody, HttpBodyEnds, WriteStream, WriteBuffered, WsWriteable,
             ClosedHttp, Writes, Reads, Lost
<1>7. ASSUME NEW r \in Ids, HandlerStep(r) PROVE UNCHANGED <<server, vhost>>
  BY <1>7 DEF HandlerStep, CancelBody, SendResponse, SendHeaders, SendBody, Script
<1>8. ASSUME Return PROVE UNCHANGED <<server, vhost>>
  BY <1>8 DEF Return, BodyReturns, ClosedReturns
<1> QED
  BY <1>1, <1>2, <1>3, <1>4, <1>5, <1>6, <1>7, <1>8, Cases

\* The callback of a connection that is gone waits only for a body that it ended, and a
\* handler does not open it again.
LEMMA FrameStep ==
  ASSUME TypeOK, Paired, FrameOK, Next PROVE FrameOK'
<1>0. req \in [Ids -> Requests] /\ body \in [Ids -> {"none", "open", "ended", "cancelled", "orphan"}]
  BY DEF TypeOK
<1>1. CASE UNCHANGED <<req, body, frame, stopped>>
  BY <1>1, FrameKept
<1>2. CASE frame[1] = "none" /\ frame' = frame
  BY <1>2, FrameNone
<1>3. CASE ServerStep
  <2>1. UNCHANGED <<req, body, frame, stopped>>
    BY <1>3 DEF ServerStep, Create, Close, ProtocolInit, ProtocolDestroy
  <2> QED
    BY <1>1, <2>1
<1>4. ASSUME NEW w \in Wsis, ConnectionStep(w) \/ Upgrade(w) \/ WsClosed(w) PROVE FrameOK'
  <2>1. UNCHANGED <<req, body, frame, stopped>>
    BY <1>4 DEF ConnectionStep, Connect, WriteIgnored, WsSend, Drop, Writes, Upgrade, WsClosed
  <2> QED
    BY <1>1, <2>1
<1>5. ASSUME NEW w \in Wsis, RequestStep(w) PROVE FrameOK'
  <2>1. CASE HttpBody(w)
    <3>1. frame[1] = "none" /\ (frame' = frame \/ frame' = <<"chunk", wsi[w].user>>)
      BY <2>1, Zenon DEF HttpBody, Reads, Outside, Lost
    <3> QED
      BY <3>1, FrameNone
  <2>2. CASE ClosedHttp(w)
    <3>1. PICK r : r = wsi[w].user
      OBVIOUS
    <3>2. CASE r # None /\ MustEnd(r)
      <4>1. OnBodyChunk(r, TRUE) /\ frame' = <<"closed", r>> /\ r \in Ids
        <5>1. OnBodyChunk(r, TRUE) /\ frame' = <<"closed", r>> /\ r # Ws
          BY <2>2, <3>1, <3>2, Zenon DEF ClosedHttp
        <5> QED
          BY <3>1, <3>2, <5>1, Fields
      <4>2. Running' => body'[r] # "open"
        BY <1>0, <4>1 DEF OnBodyChunk, Running
      <4> QED
        BY <4>1, <4>2 DEF FrameOK
    <3>3. CASE ~(r # None /\ MustEnd(r))
      <4>1. frame[1] = "none" /\ frame' = frame
        BY <2>2, <3>1, <3>3, Zenon DEF ClosedHttp
      <4> QED
        BY <1>2, <4>1
    <3> QED
      BY <3>2, <3>3
  <2>3. CASE \/ Http(w) \/ HttpAgain(w) \/ HttpBodyEnds(w) \/ WriteStream(w)
             \/ WriteBuffered(w) \/ WsWriteable(w)
    <3>1. frame[1] = "none" /\ frame' = frame
      BY <2>3, Zenon DEF Http, HttpAgain, HttpBodyEnds, WriteStream, WriteBuffered, WsWriteable, LwsHttp,
         Writes, Reads, Outside, Lost
    <3> QED
      BY <1>2, <3>1
  <2> QED
    BY <1>5, <2>1, <2>2, <2>3 DEF RequestStep
<1>6. ASSUME NEW r \in Ids, HandlerStep(r) PROVE FrameOK'
  <2>1. UNCHANGED <<frame, stopped>>
    BY <1>6 DEF HandlerStep, CancelBody, SendResponse, SendHeaders, SendBody, Script
  <2>2. \A p \in Ids : (body'[p] = "open" => body[p] = "open") /\ (req'[p].live => req[p].live)
    <3>1. CASE CancelBody(r)
      BY <1>0, <3>1 DEF CancelBody
    <3>2. CASE SendResponse(r)
      <4>1. \/ UNCHANGED <<req, body>>
            \/ req' = [req EXCEPT ![r].responded = TRUE] /\ UNCHANGED body
            \/ \E closes \in BOOLEAN : Complete(r, closes)
            \/ \E n : req' = [req EXCEPT ![r].responded = TRUE, ![r].left = n] /\ UNCHANGED body
        BY <3>2, Zenon DEF SendResponse
      <4>3. ASSUME NEW n, req' = [req EXCEPT ![r].responded = TRUE, ![r].left = n]
            PROVE  \A p \in Ids : req'[p].live => req[p].live
        BY <1>0, <4>3 DEF Requests
      <4>4. ASSUME req' = [req EXCEPT ![r].responded = TRUE]
            PROVE  \A p \in Ids : req'[p].live => req[p].live
        BY <1>0, <4>4 DEF Requests
      <4>2. CASE \E closes \in BOOLEAN : Complete(r, closes)
        <5>1. Gone(r)
          BY <4>2 DEF Complete
        <5>2. /\ req'[r] = NoRequest /\ body'[r] # "open"
              /\ \A p \in Ids \ {r} : req'[p] = req[p] /\ body'[p] = body[p]
          BY <1>0, <5>1 DEF Gone
        <5> QED
          BY <5>2, NothingLeft
      <4> QED
        BY <4>1, <4>2, <4>3, <4>4
    <3>3. CASE SendHeaders(r)
      <4>1. /\ UNCHANGED body
            /\ req' = req \/ req' = [req EXCEPT ![r].responded = TRUE, ![r].streaming = TRUE]
        BY <3>3 DEF SendHeaders
      <4> QED
        BY <1>0, <4>1 DEF Requests
    <3>4. CASE SendBody(r)
      <4>1. /\ UNCHANGED body
            /\ \E piece : req' = [req EXCEPT ![r].chunks = @ + 1, ![r].pending = Append(@, piece)]
        BY <3>4 DEF SendBody
      <4> QED
        BY <1>0, <4>1 DEF Requests
    <3> QED
      BY <1>6, <3>1, <3>2, <3>3, <3>4 DEF HandlerStep
  <2> QED
    BY <2>1, <2>2, FrameKept
<1>7. CASE Return
  <2>1. CASE BodyReturns
    <3>1. frame'[1] # "closed"
      BY <2>1 DEF BodyReturns, NoFrame
    <3> QED
      BY <3>1, FrameNone
  <2>2. CASE ClosedReturns
    <3>1. frame' = NoFrame \/ stopped' = "freed"
      BY <2>2 DEF ClosedReturns
    <3>2. CASE frame' = NoFrame
      BY <3>2, FrameNone DEF NoFrame
    <3>3. CASE stopped' = "freed"
      BY <3>3 DEF FrameOK, Running
    <3> QED
      BY <3>1, <3>2, <3>3
  <2> QED
    BY <1>7, <2>1, <2>2 DEF Return
<1> QED
  BY <1>3, <1>4, <1>5, <1>6, <1>7, Cases

\* The steps of requests and handlers, one by one.
LEMMA RequestGood ==
  ASSUME TypeOK, Paired, FrameOK,
         \/ \E w \in Wsis : RequestStep(w)
         \/ \E r \in Ids : HandlerStep(r)
         \/ Return
  PROVE  Good
<1>1. ASSUME NEW w \in Wsis, RequestStep(w) PROVE Good
  BY <1>1, HttpGood, HttpBodyGood, HttpBodyEndsGood, WriteStreamGood, WriteBufferedGood,
     WsWriteableGood, ClosedHttpGood DEF RequestStep
<1>2. ASSUME NEW r \in Ids, HandlerStep(r) PROVE Good
  BY <1>2, CancelBodyGood, SendResponseGood, SendHeadersGood, SendBodyGood DEF HandlerStep
<1>3. CASE Return
  BY <1>3, BodyReturnsGood, ClosedReturnsGood DEF Return
<1> QED
  BY <1>1, <1>2, <1>3

\* Every step keeps the invariant and sends what may follow.
LEMMA NextKeeps ==
  ASSUME IInv, Next PROVE IInv' /\ Exchange
<1>1. TypeOK /\ PinOK /\ RefsOK /\ FrameOK /\ Paired
  BY DEF IInv, Paired
<1>2. ASSUME Good PROVE TypeOK' /\ Paired' /\ Exchange /\ RefsOK'
  BY <1>1, <1>2, RefsKept DEF Good
<1>3. TypeOK' /\ Paired' /\ Exchange /\ RefsOK'
  <2>1. CASE ServerStep
    BY <1>1, <1>2, <2>1, ServerGood
  <2>2. ASSUME NEW w \in Wsis, ConnectionStep(w) PROVE TypeOK' /\ Paired' /\ Exchange /\ RefsOK'
    BY <1>1, <1>2, <2>2, ConnectionGood
  <2>3. ASSUME NEW w \in Wsis, Upgrade(w) PROVE TypeOK' /\ Paired' /\ Exchange /\ RefsOK'
    BY <1>1, <2>3, UpgradeKeeps
  <2>4. ASSUME NEW w \in Wsis, WsClosed(w) PROVE TypeOK' /\ Paired' /\ Exchange /\ RefsOK'
    BY <1>1, <2>4, WsClosedKeeps
  <2>5. CASE \/ \E w \in Wsis : RequestStep(w)
             \/ \E r \in Ids : HandlerStep(r)
             \/ Return
    BY <1>1, <1>2, <2>5, RequestGood
  <2> QED
    BY <2>1, <2>2, <2>3, <2>4, <2>5, Cases
<1>4. PinOK' /\ FrameOK'
  BY <1>1, PinKept, FrameStep
<1> QED
  BY <1>3, <1>4 DEF IInv, Paired

\* Nothing happens.
LEMMA StutterKeeps ==
  ASSUME IInv, UNCHANGED vars PROVE IInv' /\ Exchange
<1>1. UNCHANGED <<server, vhost, req, wsi, js, body, refs, frame, stopped, wire>>
  BY DEF vars
<1>2. TypeOK' /\ PinOK' /\ RefsOK' /\ FrameOK'
  BY <1>1 DEF IInv, TypeOK, PinOK, RefsOK, Established, FrameOK, Running
<1>3. \A r \in Ids : RequestOK(r)'
  BY <1>1, Zenon DEF IInv, RequestOK, Halfway, Running
<1>4. \A w \in Wsis : ConnectionOK(w)'
  BY <1>1, Zenon DEF IInv, ConnectionOK, Halfway, Waits
<1>5. Exchange
  BY <1>1, Quiet
<1> QED
  BY <1>2, <1>3, <1>4, <1>5 DEF IInv

\* No server yet.
LEMMA InitHolds == Init => IInv
<1> SUFFICES ASSUME Init PROVE IInv
  OBVIOUS
<1>0. /\ server = [state |-> "none", closed |-> FALSE, count |-> 0, pinned |-> FALSE,
                   onClose |-> "none", nextId |-> 1, upgrades |-> {}]
      /\ vhost = [alive |-> {}, dying |-> {}, ready |-> {}]
      /\ req = [r \in Ids |-> NoRequest] /\ wsi = [w \in Wsis |-> FreeWsi]
      /\ js = [r \in Ids |-> "none"] /\ body = [r \in Ids |-> "none"]
      /\ refs = 0 /\ frame = NoFrame /\ stopped = "none" /\ wire = [w \in Wsis |-> Nothing]
  BY DEF Init
<1>a. None # Ws /\ None \notin Ids /\ MaxRequests \in Nat \ {0} /\ None = 0
  BY IdsAre DEF None
<1>1. NoRequest \in Requests
  <2>1. <<>> \in Seq(Pieces)
    BY EmptySeq
  <2> QED
    BY <2>1 DEF NoRequest, Requests
<1>2. TypeOK
  <2>1. server \in Servers
    BY <1>0, <1>a DEF Servers
  <2>2. wire \in [Wsis -> (Ids \cup {None}) \X Parts]
    BY <1>0, FreeIs
  <2>3. req \in [Ids -> Requests] /\ wsi \in [Wsis -> Connections]
    BY <1>0, <1>1, FreeIs
  <2> QED
    BY <1>0, <2>1, <2>2, <2>3 DEF TypeOK, Steps
<1>3. PinOK
  BY <1>0, FS_EmptySet DEF PinOK
<1>4. RefsOK
  <2>1. Established = {}
    BY <1>0, <1>a, FreeIs DEF Established
  <2> QED
    BY <1>0, <2>1, FS_EmptySet DEF RefsOK
<1>5. FrameOK
  BY <1>0 DEF FrameOK, NoFrame
<1>6. ASSUME NEW r \in Ids PROVE RequestOK(r)
  <2>1. req[r] = NoRequest /\ js[r] = "none" /\ body[r] = "none" /\ ~(0 > 0)
    BY <1>0
  <2> QED
    BY <2>1, NothingLeft DEF RequestOK
<1>7. ASSUME NEW w \in Wsis PROVE ConnectionOK(w)
  <2>1. wsi[w] = FreeWsi /\ wire[w] = Nothing /\ server.nextId = 1
    BY <1>0
  <2> QED
    BY <1>a, <2>1, FreeIs DEF ConnectionOK, Halfway
<1> QED
  BY <1>2, <1>3, <1>4, <1>5, <1>6, <1>7 DEF IInv

\* The inductive invariant holds.
THEOREM Inductive == Spec => []IInv
<1>1. IInv /\ [Next]_vars => IInv'
  BY NextKeeps, StutterKeeps
<1> QED
  BY <1>1, InitHolds, PTL DEF Spec

\* Requests and connections belong to each other one to one, and a handler runs once for
\* its transaction, with the whole of a body of known length.
THEOREM RequestsExactHold == Spec => []RequestsExact
<1>1. IInv => RequestsExact
  <2> SUFFICES ASSUME IInv PROVE RequestsExact
    OBVIOUS
  <2>1. TypeOK /\ Paired
    BY DEF IInv, Paired
  <2>2. \A r \in Live : /\ wsi[req[r].wsi].user = r
                        /\ req[r].kind = "length" /\ js[r] # "none" => req[r].complete
    BY <2>1 DEF Live, Paired, RequestOK
  <2>3. \A w \in Wsis : wsi[w].user \in Live \cup {None, Ws}
    BY <2>1, Partners, Fields DEF Live
  <2>4. \A w \in Wsis : wsi[w].made <= 1
    BY <2>1 DEF Paired, ConnectionOK
  <2> QED
    BY <2>2, <2>3, <2>4 DEF RequestsExact
<1> QED
  BY <1>1, Inductive, PTL

\* What waits on an open connection has asked for a callback.
THEOREM WriteWantedHold == Spec => []WriteWanted
<1>1. IInv => WriteWanted
  BY DEF IInv, WriteWanted, ConnectionOK, Waits
<1> QED
  BY <1>1, Inductive, PTL

\* The server outlives what can report to it, and each WebSocket holds the loop once.
THEOREM ServerAliveHold == Spec => []ServerAlive
<1>1. IInv => ServerAlive
  BY DEF IInv, PinOK, RefsOK, Established, ServerAlive
<1> QED
  BY <1>1, Inductive, PTL

\* Responses are framed and in order, and a reader of a body learns that it ends.
THEOREM ExchangesHold == Spec => Exchanges
<1>1. IInv /\ [Next]_vars => Exchange
  BY NextKeeps, StutterKeeps
<1>2. IInv /\ [Next]_vars
      => [\A w \in Wsis :
            LET was == wire[w]
                is == wire'[w] IN
            is \notin {was, Nothing}
            => /\ IF was[2] \in {"head", "data"}
                  THEN is[1] = was[1] /\ is[2] \in {"data", "final"}
                  ELSE is[1] > was[1] /\ is[2] \in {"head", "whole"}
               /\ is[2] \in {"final", "whole"} => ~req'[is[1]].live]_vars
  BY <1>1, Zenon DEF Exchange, Answers
<1>3. IInv /\ [Next]_vars
      => [\A r \in Ids : body'[r] = "orphan" /\ body[r] = "open"
                         => wsi'[req[r].wsi].state # "free"]_vars
  BY <1>1, Zenon DEF Exchange, Leaves
<1>4. Spec => Framed
  BY <1>2, Inductive, PTL DEF Spec, Framed
<1>5. Spec => BodyEnds
  BY <1>3, Inductive, PTL DEF Spec, BodyEnds
<1> QED
  BY <1>4, <1>5 DEF Exchanges

==============================================================================
