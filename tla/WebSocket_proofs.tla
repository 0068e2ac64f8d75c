-------------------------- MODULE WebSocket_proofs --------------------------
(***************************************************************************)
(* Proofs about WebSockets: their lifetimes, their events and their        *)
(* messages, for any number of sockets, messages and calls.                *)
(***************************************************************************)
EXTENDS WebSocket, SequenceTheorems, FiniteSetTheorems, TLAPS

(***************************************************************************)
(* The invariant.                                                          *)
(***************************************************************************)
Messages == Nat \X {"text", "blob"}
Happenings == {"open", "error", "message", "close"}
Kinds == {"close", "release", "abandon"}
Entries == Kinds \X Sockets

\* The types of the history and of the queues.
Types ==
  /\ calls \in Nat
  /\ events \in [Sockets -> Seq(Happenings)]
  /\ given \in [Sockets -> SUBSET Codes]
  /\ pending \in [Sockets -> Seq(Messages)] /\ sent \in [Sockets -> Seq(Messages)]
  /\ blobs \in [Sockets -> SUBSET Messages]

\* What callbacks still have to do for s.
In(t, kind, s) == \E i \in DOMAIN t : t[i] = <<kind, s>>
Distinct(t) == \A i, j \in DOMAIN t : t[i][2] = t[j][2] => i = j
Has(kind, s) == In(todo, kind, s)
Waiting(s) == Has("close", s) \/ Has("release", s) \/ Has("abandon", s)

\* A socket waits once; the teardown begins when no callback runs and silences
\* every socket that lws still has.
Stack ==
  /\ Distinct(todo)
  /\ phase # "running" => todo = <<>>
  /\ phase = "running" => silenced = {}
  /\ \A s \in Sockets : phase # "running" /\ Live(s) => s \in silenced

\* One socket: it is with lws, or a job or a callback has it, or it is over.
Life(s) ==
  /\ Live(s) => s \notin jobs /\ ~Waiting(s)
  /\ s \in jobs => ~Waiting(s)
  /\ readyState[s] = "none" => ~Live(s) /\ s \notin jobs /\ ~Waiting(s) /\ s \notin finalized
  /\ Live(s) \/ Has("close", s) \/ Has("release", s) => s \in pinned /\ s \notin finalized
  /\ phase = "running" /\ readyState[s] \notin {"none", "CLOSED"}
       => Live(s) \/ s \in jobs \/ Has("close", s) \/ Has("abandon", s)

\* The sockets that hold the loop.
Owing == {s \in Sockets : Owed(s)}
Counted == IsFiniteSet(Owing) /\ conns = Cardinality(Owing)

Lives == TypeOK /\ Types /\ Stack /\ (\A s \in Sockets : Life(s)) /\ Counted /\ NoneForgotten

\* Its events, by where it is.
Opened(e) == e # <<>> /\ \A i \in DOMAIN e : e[i] = IF i = 1 THEN "open" ELSE "message"
Over(e) ==
  \/ e = <<"error", "close">>
  \/ e # <<>> /\ \A i \in DOMAIN e : e[i] = IF i = Len(e) THEN "close"
                                           ELSE IF i = 1 THEN "open" ELSE "message"
Heard(s) ==
  /\ readyState[s] = "none" \/ wsi[s] = "connecting" \/ s \in jobs => events[s] = <<>>
  /\ wsi[s] \in {"open", "echoing"} => Opened(events[s])
  /\ Has("close", s) \/ Has("abandon", s) => events[s] = <<"error">>
  /\ readyState[s] = "CLOSED" <=> events[s] # <<>> /\ events[s][Len(events[s])] = "close"
  /\ Has("release", s) => readyState[s] = "CLOSED"
  /\ events[s] \in {<<>>, <<"error">>} \/ Opened(events[s]) \/ Over(events[s])

\* Its codes: the last one that was given is kept.
Coded(s) ==
  /\ close_code[s] = 0 => given[s] = {}
  /\ close_code[s] # 0 => close_code[s] \in given[s]
  /\ readyState[s] = "CLOSED" =>
       /\ reported[s] = 1006 <=> events[s][1] = "error"
       /\ reported[s] = 1005 => given[s] = {}
       /\ reported[s] \notin {1005, 1006} => reported[s] \in given[s]

\* Its messages: those of calls before n that were queued, and those whose Blob is
\* still being read.
Queued(s) == sent[s] \o pending[s]
Ordered(q, c, n) ==
  /\ \A m \in c : m[1] < n /\ m[2] = "blob"
  /\ \A i \in DOMAIN q : q[i][1] < n /\ q[i] \notin c
  /\ \A i, j \in DOMAIN q :
       i < j => q[i] # q[j] /\ (q[i][2] = "text" /\ q[j][2] = "text" => q[i][1] < q[j][1])
Kept(s) ==
  /\ readyState[s] = "none" => pending[s] = <<>> /\ blobs[s] = {}
  /\ Live(s) /\ pending[s] # <<>> => s \in wanted
  /\ Ordered(Queued(s), blobs[s], calls)
----------------------------------------------------------------------------
(* The stack of callbacks.                                                 *)

Waits(t, s) == \E kind \in Kinds : In(t, kind, s)

\* A callback is called.
LEMMA PushIt ==
  ASSUME NEW t \in Seq(Entries), Distinct(t), NEW k \in Kinds, NEW s \in Sockets, ~Waits(t, s)
  PROVE  /\ <<<<k, s>>>> \o t \in Seq(Entries) /\ Distinct(<<<<k, s>>>> \o t)
         /\ \A kind, u : In(<<<<k, s>>>> \o t, kind, u) <=> In(t, kind, u) \/ (kind = k /\ u = s)
<1> DEFINE e == <<k, s>>
           r == <<e>> \o t
<1>1. <<e>> \in Seq(Entries) /\ Len(<<e>>) = 1 /\ <<e>>[1] = e
  BY DEF Entries, Kinds
<1>e. e[1] = k /\ e[2] = s
  OBVIOUS
<1>2. /\ r \in Seq(Entries) /\ Len(r) = 1 + Len(t)
      /\ \A i \in 1 .. 1 + Len(t) : r[i] = IF i <= 1 THEN <<e>>[i] ELSE t[i - 1]
  BY <1>1, ConcatProperties
<1>3. Len(t) \in Nat /\ DOMAIN t = 1 .. Len(t) /\ DOMAIN r = 1 .. 1 + Len(t)
  BY <1>2, LenProperties
<1>4. \A i \in DOMAIN t : t[i] \in Entries
  BY <1>3
<1> HIDE DEF r, e
<1>5. /\ 1 \in DOMAIN r /\ r[1] = e
      /\ \A i \in DOMAIN t : i + 1 \in DOMAIN r /\ r[i + 1] = t[i]
      /\ \A i \in DOMAIN r : i = 1 \/ (i - 1 \in DOMAIN t /\ r[i] = t[i - 1])
  BY <1>1, <1>2, <1>3
<1>6. \A i \in DOMAIN t : t[i][2] # s
  <2> SUFFICES ASSUME NEW i \in DOMAIN t, t[i][2] = s PROVE FALSE
    OBVIOUS
  <2>1. t[i] = <<t[i][1], s>> /\ t[i][1] \in Kinds
    BY <1>4 DEF Entries, Kinds
  <2> QED
    BY <2>1 DEF Waits, In
<1>7. Distinct(r)
  <2> SUFFICES ASSUME NEW i \in DOMAIN r, NEW j \in DOMAIN r, r[i][2] = r[j][2] PROVE i = j
    BY DEF Distinct
  <2> i \in Nat /\ j \in Nat
    BY <1>3
  <2>1. CASE i = 1
    BY <1>e, <1>5, <1>6, <2>1
  <2>2. CASE j = 1
    BY <1>e, <1>5, <1>6, <2>2
  <2>3. CASE i # 1 /\ j # 1
    <3>1. i - 1 = j - 1
      BY <1>5, <2>3 DEF Distinct
    <3> QED
      BY <3>1
  <2> QED
    BY <2>1, <2>2, <2>3
<1>8. ASSUME NEW kind, NEW u PROVE In(r, kind, u) <=> In(t, kind, u) \/ (kind = k /\ u = s)
  <2>1. In(t, kind, u) => In(r, kind, u)
    BY <1>5 DEF In
  <2>2. kind = k /\ u = s => In(r, kind, u)
    BY <1>5 DEF In, e
  <2>3. ASSUME In(r, kind, u) PROVE In(t, kind, u) \/ (kind = k /\ u = s)
    <3>1. PICK i \in DOMAIN r : r[i] = <<kind, u>>
      BY <2>3 DEF In
    <3>2. CASE i = 1
      BY <1>5, <3>1, <3>2 DEF e
    <3>3. CASE i # 1
      BY <1>5, <3>1, <3>3 DEF In
    <3> QED
      BY <3>2, <3>3
  <2> QED
    BY <2>1, <2>2, <2>3
<1> QED
  BY <1>2, <1>7, <1>8 DEF r, e

\* A callback returns.
LEMMA PopIt ==
  ASSUME NEW t \in Seq(Entries), Distinct(t), t # <<>>
  PROVE  /\ Head(t) \in Entries /\ In(t, Head(t)[1], Head(t)[2])
         /\ Tail(t) \in Seq(Entries) /\ Distinct(Tail(t))
         /\ \A kind : In(t, kind, Head(t)[2]) => kind = Head(t)[1]
         /\ \A kind, u : In(Tail(t), kind, u) <=> In(t, kind, u) /\ u # Head(t)[2]
<1> DEFINE r == Tail(t)
<1>1. Len(t) \in Nat \ {0} /\ DOMAIN t = 1 .. Len(t) /\ Head(t) = t[1] /\ 1 \in DOMAIN t
  BY EmptySeq, LenProperties
<1>2. /\ r \in Seq(Entries) /\ Len(r) = Len(t) - 1
      /\ \A i \in 1 .. Len(t) - 1 : r[i] = t[i + 1]
  BY HeadTailProperties
<1>3. DOMAIN r = 1 .. Len(t) - 1
  BY <1>2, LenProperties
<1> HIDE DEF r
<1>4. \A i \in DOMAIN t : t[i] \in Entries
  BY <1>1
<1>5. t[1] = <<t[1][1], t[1][2]>>
  BY <1>1, <1>4 DEF Entries
<1>6. \A i \in DOMAIN r : i + 1 \in DOMAIN t /\ i + 1 # 1 /\ r[i] = t[i + 1]
  BY <1>1, <1>2, <1>3
<1>7. \A i \in DOMAIN t : i # 1 => i - 1 \in DOMAIN r /\ r[i - 1] = t[i]
  BY <1>1, <1>2, <1>3
<1>8. Distinct(r)
  <2> SUFFICES ASSUME NEW i \in DOMAIN r, NEW j \in DOMAIN r, r[i][2] = r[j][2] PROVE i = j
    BY DEF Distinct
  <2>1. i + 1 = j + 1 /\ i \in Nat /\ j \in Nat
    BY <1>3, <1>6 DEF Distinct
  <2> QED
    BY <2>1
<1>9. ASSUME NEW kind, In(t, kind, t[1][2]) PROVE kind = t[1][1]
  <2>1. PICK i \in DOMAIN t : t[i] = <<kind, t[1][2]>>
    BY <1>9 DEF In
  <2>2. i = 1
    BY <1>1, <2>1 DEF Distinct
  <2> QED
    BY <2>1, <2>2
<1>10. ASSUME NEW kind, NEW u PROVE In(r, kind, u) <=> In(t, kind, u) /\ u # t[1][2]
  <2>1. ASSUME In(r, kind, u) PROVE In(t, kind, u) /\ u # t[1][2]
    <3>1. PICK i \in DOMAIN r : r[i] = <<kind, u>>
      BY <2>1 DEF In
    <3>2. t[i + 1] = <<kind, u>> /\ i + 1 \in DOMAIN t /\ i + 1 # 1
      BY <1>6, <3>1
    <3>3. t[i + 1][2] # t[1][2]
      BY <1>1, <3>2 DEF Distinct
    <3> QED
      BY <3>2, <3>3 DEF In
  <2>2. ASSUME In(t, kind, u), u # t[1][2] PROVE In(r, kind, u)
    <3>1. PICK i \in DOMAIN t : t[i] = <<kind, u>>
      BY <2>2 DEF In
    <3>2. i # 1
      BY <2>2, <3>1
    <3> QED
      BY <1>7, <3>1, <3>2 DEF In
  <2> QED
    BY <2>1, <2>2
<1>11. In(t, t[1][1], t[1][2])
  BY <1>1, <1>5 DEF In
<1> QED
  BY <1>1, <1>2, <1>4, <1>8, <1>9, <1>10, <1>11 DEF r

----------------------------------------------------------------------------
(* Types.                                                                  *)

ReadyStates == {"none", "CONNECTING", "OPEN", "CLOSING", "CLOSED"}
Streams == [opened : {"pending", "resolved", "rejected"},
            closed : {"pending", "resolved", "rejected"},
            readable : {"open", "closed", "errored"},
            writable : {"open", "closed", "errored"},
            hadError : BOOLEAN, signal : BOOLEAN]

\* A stream belongs to a socket.
LEMMA Socketed == \A s \in Streaming : s \in Sockets
BY WebSocketAssumption

\* The listeners of a stream keep its type.
LEMMA HearTyped ==
  ASSUME NEW r \in Streams
  PROVE  HearOpen(r) \in Streams /\ HearError(r) \in Streams /\ HearClose(r) \in Streams
<1>1. /\ r.opened \in {"pending", "resolved", "rejected"}
      /\ r.closed \in {"pending", "resolved", "rejected"}
      /\ r.readable \in {"open", "closed", "errored"}
      /\ r.writable \in {"open", "closed", "errored"}
      /\ r.hadError \in BOOLEAN /\ r.signal \in BOOLEAN
  BY DEF Streams
<1>2. HearOpen(r) \in Streams
  BY DEF HearOpen, Streams
<1>3. HearError(r) \in Streams
  <2>1. Settle(r.opened, "rejected") \in {"pending", "resolved", "rejected"}
    BY <1>1 DEF Settle
  <2> QED
    BY <2>1 DEF HearError, Streams
<1>4. HearClose(r) \in Streams
  <2> DEFINE clean == r.opened # "pending" /\ ~r.hadError
  <2>1. Settle(r.opened, "rejected") \in {"pending", "resolved", "rejected"}
    BY <1>1 DEF Settle
  <2>2. Settle(r.closed, IF clean THEN "resolved" ELSE "rejected")
          \in {"pending", "resolved", "rejected"}
    BY <1>1 DEF Settle
  <2>3. Stop(r.readable, IF clean THEN "closed" ELSE "errored") \in {"open", "closed", "errored"}
    BY <1>1 DEF Stop
  <2>4. Stop(r.writable, "errored") \in {"open", "closed", "errored"}
    BY <1>1 DEF Stop
  <2> HIDE DEF clean
  <2>5. HearClose(r) = [r EXCEPT !.signal = FALSE, !.opened = Settle(@, "rejected"),
            !.closed = Settle(@, IF clean THEN "resolved" ELSE "rejected"),
            !.readable = Stop(@, IF clean THEN "closed" ELSE "errored"),
            !.writable = Stop(@, "errored")]
    BY DEF HearClose, clean
  <2> QED
    BY <2>1, <2>2, <2>3, <2>4, <2>5 DEF Streams
<1> QED
  BY <1>2, <1>3, <1>4

\* What an event changes.
Heeds(s, event, state, r) ==
  /\ readyState' \in [Sockets -> ReadyStates]
  /\ events' \in [Sockets -> Seq(Happenings)]
  /\ stream' \in [Streaming -> Streams]
  /\ \A u \in Sockets :
       /\ readyState'[u] = IF u = s /\ s \notin silenced THEN state ELSE readyState[u]
       /\ events'[u] = IF u = s /\ s \notin silenced THEN Append(events[u], event)
                                                    ELSE events[u]
  /\ \A u \in Streaming :
       stream'[u] = IF u = s /\ s \notin silenced THEN r ELSE stream[u]

\* An event changes its own socket only, and only if the handler is still there.
LEMMA HearHeeds ==
  ASSUME TypeOK, Types, NEW s \in Sockets, NEW event \in Happenings, NEW state \in ReadyStates,
         NEW r, s \in Streaming => r \in Streams, Hear(s, event, state, r)
  PROVE  Heeds(s, event, state, r)
<1>1. /\ readyState \in [Sockets -> ReadyStates] /\ events \in [Sockets -> Seq(Happenings)]
      /\ stream \in [Streaming -> Streams]
  BY DEF TypeOK, Types, ReadyStates, Streams
<1>2. CASE s \in silenced
  BY <1>1, <1>2 DEF Hear, Heeds
<1>3. CASE s \notin silenced
  <2>1. /\ readyState' = [readyState EXCEPT ![s] = state]
        /\ events' = [events EXCEPT ![s] = Append(@, event)]
        /\ stream' = IF s \in Streaming THEN [stream EXCEPT ![s] = r] ELSE stream
    BY <1>3 DEF Hear
  <2>2. Append(events[s], event) \in Seq(Happenings)
    BY <1>1, AppendProperties
  <2>3. events' \in [Sockets -> Seq(Happenings)]
    BY <1>1, <2>1, <2>2
  <2>4. readyState' \in [Sockets -> ReadyStates]
    BY <1>1, <2>1
  <2>5. stream' \in [Streaming -> Streams]
    BY <1>1, <2>1
  <2>6. \A u \in Streaming : stream'[u] = IF u = s THEN r ELSE stream[u]
    BY <1>1, <2>1
  <2>7. \A u \in Sockets : /\ readyState'[u] = IF u = s THEN state ELSE readyState[u]
                           /\ events'[u] = IF u = s THEN Append(events[u], event) ELSE events[u]
    BY <1>1, <2>1
  <2> QED
    BY <1>3, <2>3, <2>4, <2>5, <2>6, <2>7 DEF Heeds
<1> QED
  BY <1>2, <1>3

\* The same of the close event, with the code it reports.
LEMMA CloseHeeds ==
  ASSUME TypeOK, Types, NEW s \in Sockets, NEW code \in Codes \cup {0, 1005, 1006},
         EmitClose(s, code)
  PROVE  /\ Heeds(s, "close", "CLOSED", HearClose(stream[s]))
         /\ reported' \in [Sockets -> Codes \cup {0, 1005, 1006}]
         /\ \A u \in Sockets : reported'[u] = IF u = s THEN code ELSE reported[u]
<1>1. s \in Streaming => HearClose(stream[s]) \in Streams
  BY HearTyped DEF TypeOK, Streams
<1>2. Heeds(s, "close", "CLOSED", HearClose(stream[s]))
  BY <1>1, HearHeeds DEF EmitClose, Happenings, ReadyStates
<1> QED
  BY <1>2 DEF EmitClose, TypeOK

\* The same of the error event.
LEMMA ErrorHeeds ==
  ASSUME TypeOK, Types, NEW s \in Sockets, EmitError(s)
  PROVE  /\ Heeds(s, "error", readyState[s], HearError(stream[s]))
         /\ reported' = reported
<1>1. s \in Streaming => HearError(stream[s]) \in Streams
  BY HearTyped DEF TypeOK, Streams
<1>2. readyState[s] \in ReadyStates
  BY DEF TypeOK, ReadyStates
<1> QED
  BY <1>1, <1>2, HearHeeds DEF EmitError, Happenings

\* 1005 stands for no code, and 1006 is never the code of a connection that was open.
LEMMA Coding ==
  ASSUME TypeOK, NEW s \in Sockets
  PROVE  ReportCode(s) \in Codes \cup {1005} /\ (ReportCode(s) = 1005 <=> close_code[s] = 0)
BY WebSocketAssumption DEF ReportCode, TypeOK

\* What close() changes.
Shuts(s, code) ==
  /\ readyState' \in [Sockets -> ReadyStates] /\ close_code' \in [Sockets -> Codes \cup {0}]
  /\ given' \in [Sockets -> SUBSET Codes]
  /\ timer' \subseteq Sockets /\ wanted' \subseteq Sockets /\ wanted \subseteq wanted'
  /\ \A u \in Sockets :
       \/ /\ u = s /\ CanClose(s) /\ readyState'[u] = "CLOSING"
          /\ close_code'[u] = code /\ given'[u] = given[u] \cup {code}
       \/ UNCHANGED <<readyState[u], close_code[u], given[u]>>

\* close() shuts one socket that was connecting or open, or changes nothing.
LEMMA CloseShuts ==
  ASSUME TypeOK, Types, NEW s \in Sockets, NEW code \in Codes, CloseSocket(s, code)
  PROVE  Shuts(s, code)
<1>1. /\ readyState \in [Sockets -> ReadyStates] /\ close_code \in [Sockets -> Codes \cup {0}]
      /\ given \in [Sockets -> SUBSET Codes] /\ timer \subseteq Sockets /\ wanted \subseteq Sockets
  BY DEF TypeOK, Types, ReadyStates
<1>2. CASE ~CanClose(s)
  BY <1>1, <1>2 DEF CloseSocket, Shuts
<1>3. CASE CanClose(s)
  <2>1. /\ readyState' = [readyState EXCEPT ![s] = "CLOSING"]
        /\ close_code' = [close_code EXCEPT ![s] = code]
        /\ given' = [given EXCEPT ![s] = @ \cup {code}]
        /\ timer' = ArmTimeout(s)
        /\ wanted' = IF Live(s) THEN wanted \cup {s} ELSE wanted
    BY <1>3 DEF CloseSocket
  <2>2. /\ readyState' \in [Sockets -> ReadyStates] /\ close_code' \in [Sockets -> Codes \cup {0}]
        /\ given' \in [Sockets -> SUBSET Codes]
    BY <1>1, <2>1 DEF ReadyStates
  <2>3. timer' \subseteq Sockets /\ wanted' \subseteq Sockets /\ wanted \subseteq wanted'
    BY <1>1, <2>1 DEF ArmTimeout
  <2>4. \A u \in Sockets :
          \/ /\ u = s /\ readyState'[u] = "CLOSING"
             /\ close_code'[u] = code /\ given'[u] = given[u] \cup {code}
          \/ UNCHANGED <<readyState[u], close_code[u], given[u]>>
    BY <1>1, <2>1
  <2> QED
    BY <1>3, <2>2, <2>3, <2>4 DEF Shuts
<1> QED
  BY <1>2, <1>3

\* Messages.
LEMMA Queueing ==
  ASSUME TypeOK, Types, NEW s \in Sockets, NEW m \in Messages, QueueWrite(s, m)
  PROVE  /\ pending' \in [Sockets -> Seq(Messages)] /\ wanted' \subseteq Sockets
         /\ \A u \in Sockets : pending'[u] = IF u = s THEN Append(pending[u], m) ELSE pending[u]
         /\ wanted \subseteq wanted' /\ (Live(s) => s \in wanted')
<1>1. pending \in [Sockets -> Seq(Messages)]
  BY DEF Types
<1>2. pending' = [pending EXCEPT ![s] = Append(@, m)]
  BY DEF QueueWrite, QueueMessage
<1>3. Append(pending[s], m) \in Seq(Messages)
  BY <1>1, AppendProperties
<1>4. wanted' \subseteq Sockets /\ wanted \subseteq wanted' /\ (Live(s) => s \in wanted')
  BY DEF QueueWrite, TypeOK
<1> QED
  BY <1>1, <1>2, <1>3, <1>4

\* send() queues a message, or a Blob.
Sends(s, kind) ==
  /\ pending' \in [Sockets -> Seq(Messages)] /\ wanted' \subseteq Sockets
  /\ blobs' \in [Sockets -> SUBSET Messages] /\ wanted \subseteq wanted'
  /\ \A u \in Sockets :
       \/ /\ u = s /\ kind = "text" /\ readyState[s] = "OPEN" /\ blobs'[u] = blobs[u]
          /\ pending'[u] = Append(pending[u], <<calls, "text">>) /\ (Live(u) => u \in wanted')
       \/ /\ u = s /\ kind = "blob" /\ readyState[s] = "OPEN"
          /\ pending'[u] = pending[u] /\ blobs'[u] = blobs[u] \cup {<<calls, "blob">>}
       \/ UNCHANGED <<pending[u], blobs[u]>>

\* send() changes the messages of its own socket only.
LEMMA Sending ==
  ASSUME TypeOK, Types, NEW s \in Sockets, NEW kind \in {"text", "blob"}, Send(s, kind)
  PROVE  Sends(s, kind)
<1>1. <<calls, kind>> \in Messages /\ readyState[s] = "OPEN"
  BY DEF Types, Messages, Send
<1>2. blobs \in [Sockets -> SUBSET Messages] /\ pending \in [Sockets -> Seq(Messages)]
      /\ wanted \subseteq Sockets
  BY DEF Types, TypeOK
<1>3. CASE kind = "text"
  <2>1. QueueWrite(s, <<calls, kind>>) /\ blobs' = blobs
    BY <1>3 DEF Send
  <2>2. /\ pending' \in [Sockets -> Seq(Messages)] /\ wanted' \subseteq Sockets
        /\ \A u \in Sockets :
             pending'[u] = IF u = s THEN Append(pending[u], <<calls, kind>>) ELSE pending[u]
        /\ wanted \subseteq wanted' /\ (Live(s) => s \in wanted')
    BY <1>1, <2>1, Queueing
  <2> QED
    BY <1>1, <1>2, <1>3, <2>1, <2>2 DEF Sends
<1>4. CASE kind = "blob"
  <2>1. blobs' = [blobs EXCEPT ![s] = @ \cup {<<calls, kind>>}] /\ UNCHANGED <<pending, wanted>>
    BY <1>4 DEF Send
  <2>2. \A u \in Sockets : blobs'[u] = IF u = s THEN blobs[u] \cup {<<calls, kind>>} ELSE blobs[u]
    BY <1>2, <2>1
  <2>3. blobs' \in [Sockets -> SUBSET Messages]
    BY <1>1, <1>2, <2>1
  <2> QED
    BY <1>1, <1>2, <1>4, <2>1, <2>2, <2>3 DEF Sends
<1> QED
  BY <1>3, <1>4

\* One field of a stream is changed.
LEMMA StreamSet ==
  ASSUME TypeOK, NEW s \in Streaming
  PROVE  /\ \A how \in {"closed", "errored"} :
              /\ [stream EXCEPT ![s]["readable"] = how] \in [Streaming -> Streams]
              /\ [stream EXCEPT ![s]["writable"] = how] \in [Streaming -> Streams]
         /\ [stream EXCEPT ![s] = HearAbort(@)] \in [Streaming -> Streams]
<1>1. stream \in [Streaming -> Streams]
  BY DEF TypeOK, Streams
<1>2. ASSUME NEW how \in {"closed", "errored"}
      PROVE  /\ [stream EXCEPT ![s]["readable"] = how] \in [Streaming -> Streams]
             /\ [stream EXCEPT ![s]["writable"] = how] \in [Streaming -> Streams]
  <2>1. /\ [stream[s] EXCEPT !["readable"] = how] \in Streams
        /\ [stream[s] EXCEPT !["writable"] = how] \in Streams
    BY <1>1 DEF Streams
  <2> QED
    BY <1>1, <2>1
<1>3. ASSUME NEW r \in Streams PROVE HearAbort(r) \in Streams
  <2>1. /\ Settle(r.opened, "rejected") \in {"pending", "resolved", "rejected"}
        /\ Settle(r.closed, "rejected") \in {"pending", "resolved", "rejected"}
        /\ Stop(r.readable, "errored") \in {"open", "closed", "errored"}
        /\ Stop(r.writable, "errored") \in {"open", "closed", "errored"}
    BY DEF Streams, Settle, Stop
  <2> QED
    BY <2>1 DEF HearAbort, Streams
<1>4. HearAbort(stream[s]) \in Streams
  BY <1>1, <1>3
<1> QED
  BY <1>1, <1>2, <1>4

\* What a step leaves to be shown of the types.
Rest == conns' \in Nat /\ todo' \in Seq(Entries)

\* What scripts call keeps the types.
LEMMA ScriptTyped ==
  ASSUME TypeOK, Types, Scripts, Rest PROVE TypeOK' /\ Types'
<1> USE DEF ReadyStates, Streams, Entries, Kinds
<1>c. calls' \in Nat /\ UNCHANGED <<teardownVars, todo, events, reported, sent>>
  BY DEF Scripts, Connect, Abort, SendCall, StreamWrite, Close, EndHalf, Calling, Types
<1>1. ASSUME NEW s \in Sockets, Connect(s) PROVE TypeOK' /\ Types'
  <2>1. readyState' \in [Sockets -> ReadyStates]
    BY <1>1 DEF Connect, TypeOK
  <2>2. /\ wsi' \in [Sockets -> {"null", "connecting", "open", "echoing"}]
        /\ pinned' \subseteq Sockets /\ jobs' \subseteq Sockets
    BY <1>1 DEF Connect, Pin, TypeOK
  <2>3. UNCHANGED <<pending, wanted, timer, close_code, blobs, stream, given>>
    BY <1>1 DEF Connect
  <2> QED
    BY <1>c, <2>1, <2>2, <2>3 DEF TypeOK, Types, Rest, teardownVars
<1>2. ASSUME NEW s \in Sockets, NEW kind \in {"text", "blob"}, SendCall(s, kind)
      PROVE  TypeOK' /\ Types'
  <2>1. Sends(s, kind) /\ UNCHANGED <<wsi, pinned, timer, close_code, conns, readyState, stream,
                                       jobs, given>>
    BY <1>2, Sending DEF SendCall
  <2> QED
    BY <1>c, <2>1 DEF TypeOK, Types, Rest, Sends, teardownVars
<1>3. ASSUME NEW s \in Sockets, NEW code \in Codes, Close(s, code) PROVE TypeOK' /\ Types'
  <2>1. Shuts(s, code) /\ UNCHANGED <<wsi, pinned, pending, conns, blobs, stream, jobs>>
    BY <1>3, CloseShuts DEF Close
  <2> QED
    BY <1>c, <2>1 DEF TypeOK, Types, Rest, Shuts, teardownVars
<1>4. ASSUME NEW s \in Sockets, NEW code \in Codes, NEW half \in {"readable", "writable"},
             NEW how \in {"closed", "errored"}, EndHalf(s, half, how, code)
      PROVE  TypeOK' /\ Types'
  <2>1. /\ Shuts(s, code) /\ UNCHANGED <<wsi, pinned, pending, conns, blobs, jobs>>
        /\ s \in Streaming /\ stream' = [stream EXCEPT ![s][half] = how]
    BY <1>4, CloseShuts DEF EndHalf
  <2>2. stream' \in [Streaming -> Streams]
    BY <2>1, StreamSet
  <2> QED
    BY <1>c, <2>1, <2>2 DEF TypeOK, Types, Rest, Shuts, teardownVars
<1>5. ASSUME NEW s \in Sockets, NEW kind \in {"text", "blob"}, StreamWrite(s, kind)
      PROVE  TypeOK' /\ Types'
  <2>1. /\ s \in Streaming
        /\ UNCHANGED <<wsi, pinned, timer, close_code, conns, readyState, jobs, given>>
    BY <1>5 DEF StreamWrite
  <2>2. CASE Send(s, kind) /\ UNCHANGED stream
    BY <1>c, <2>1, <2>2, Sending DEF TypeOK, Types, Rest, Sends, teardownVars
  <2>3. CASE /\ UNCHANGED <<pending, wanted, blobs>>
             /\ stream' = [stream EXCEPT ![s].writable = "errored"]
    <3>1. stream' \in [Streaming -> Streams]
      BY <2>1, <2>3, StreamSet
    <3> QED
      BY <1>c, <2>1, <2>3, <3>1 DEF TypeOK, Types, Rest, teardownVars
  <2> QED
    BY <1>5, <2>2, <2>3 DEF StreamWrite
<1>6. ASSUME NEW s \in Sockets, Abort(s) PROVE TypeOK' /\ Types'
  <2>1. Shuts(s, 1000) /\ UNCHANGED <<wsi, pinned, pending, conns, blobs, jobs>> /\ s \in Streaming
    BY <1>6, CloseShuts, WebSocketAssumption DEF Abort
  <2>2. stream' \in [Streaming -> Streams]
    BY <1>6, <2>1, StreamSet DEF Abort
  <2> QED
    BY <1>c, <2>1, <2>2 DEF TypeOK, Types, Rest, Shuts, teardownVars
<1> QED
  BY <1>1, <1>2, <1>3, <1>4, <1>5, <1>6 DEF Scripts

\* What lws calls keeps the types.
LEMMA LwsTyped ==
  ASSUME TypeOK, Types, Lws, Rest PROVE TypeOK' /\ Types'
<1> USE DEF ReadyStates, Streams, Entries, Kinds
<1>1. ASSUME NEW s \in Sockets, Established(s) PROVE TypeOK' /\ Types'
  <2>1. s \in Streaming => HearOpen(stream[s]) \in Streams
    BY HearTyped DEF TypeOK
  <2>2. Heeds(s, "open", "OPEN", HearOpen(stream[s]))
    BY <1>1, <2>1, HearHeeds DEF Established, Happenings
  <2>3. /\ wsi' = [wsi EXCEPT ![s] = "open"] /\ timer' \in {timer, timer \ {s}}
        /\ UNCHANGED <<pinned, pending, wanted, close_code, todo, sent, given, reported>>
        /\ UNCHANGED <<teardownVars, blobs, jobs, conns, calls>>
    BY <1>1 DEF Established, Service
  <2>4. wsi' \in [Sockets -> {"null", "connecting", "open", "echoing"}] /\ timer' \subseteq Sockets
    BY <2>3 DEF TypeOK
  <2> QED
    BY <2>2, <2>3, <2>4 DEF TypeOK, Types, Rest, Heeds, teardownVars
<1>2. ASSUME NEW s \in Sockets, Receive(s) PROVE TypeOK' /\ Types'
  <2>1. s \in Streaming => stream[s] \in Streams
    BY DEF TypeOK
  <2>2. readyState[s] \in ReadyStates
    BY DEF TypeOK
  <2>3. Heeds(s, "message", readyState[s], stream[s])
    BY <1>2, <2>1, <2>2, HearHeeds DEF Receive, Happenings
  <2>4. UNCHANGED <<wsi, pinned, pending, wanted, timer, close_code, todo, sent, given, reported,
                    teardownVars, blobs, jobs, conns, calls>>
    BY <1>2 DEF Receive, Service
  <2> QED
    BY <2>3, <2>4 DEF TypeOK, Types, Rest, Heeds, teardownVars
<1>3. ASSUME NEW s \in Sockets, Writeable(s) PROVE TypeOK' /\ Types'
  <2>1. UNCHANGED <<wsi, pinned, timer, close_code, heardVars, todo, given, teardownVars, blobs,
                    jobs, conns, calls>>
    BY <1>3 DEF Writeable, Service
  <2>2. wanted' \subseteq Sockets
    BY <1>3 DEF Writeable, WantMore, TypeOK
  <2>3. pending' \in [Sockets -> Seq(Messages)] /\ sent' \in [Sockets -> Seq(Messages)]
    <3>1. CASE pending[s] = <<>>
      BY <1>3, <3>1 DEF Writeable, Types
    <3>2. CASE pending[s] # <<>>
      <4>1. /\ sent' = [sent EXCEPT ![s] = Append(@, Head(pending[s]))]
            /\ pending' = [pending EXCEPT ![s] = Tail(@)]
        BY <1>3, <3>2 DEF Writeable
      <4>2. pending[s] \in Seq(Messages) /\ sent[s] \in Seq(Messages)
        BY DEF Types
      <4>3. Tail(pending[s]) \in Seq(Messages) /\ Head(pending[s]) \in Messages
        BY <3>2, <4>2, EmptySeq
      <4>4. Append(sent[s], Head(pending[s])) \in Seq(Messages)
        BY <4>2, <4>3, AppendProperties
      <4> QED
        BY <4>1, <4>3, <4>4 DEF Types
    <3> QED
      BY <3>1, <3>2
  <2> QED
    BY <2>1, <2>2, <2>3 DEF TypeOK, Types, Rest, heardVars, teardownVars
<1>4. ASSUME NEW s \in Sockets, NEW code \in Codes \cup {0}, PeerClose(s, code)
      PROVE  TypeOK' /\ Types'
  <2>1. UNCHANGED <<pinned, pending, wanted, timer, heardVars, todo, sent, teardownVars, blobs,
                    jobs, conns, calls>>
    BY <1>4 DEF PeerClose, Service
  <2>2. wsi' \in [Sockets -> {"null", "connecting", "open", "echoing"}]
    BY <1>4 DEF PeerClose, TypeOK
  <2>3. close_code' \in [Sockets -> Codes \cup {0}]
    BY <1>4 DEF PeerClose, TypeOK
  <2>4. given' \in [Sockets -> SUBSET Codes]
    BY <1>4 DEF PeerClose, Types
  <2> QED
    BY <2>1, <2>2, <2>3, <2>4 DEF TypeOK, Types, Rest, heardVars, teardownVars
<1>5. ASSUME NEW s \in Sockets, Closed(s) PROVE TypeOK' /\ Types'
  <2>1. UNCHANGED <<pinned, pending, wanted, timer, close_code, sent, given, teardownVars, blobs,
                    jobs, conns, calls>>
    BY <1>5 DEF Closed, Service
  <2>2. wsi' \in [Sockets -> {"null", "connecting", "open", "echoing"}]
    BY <1>5 DEF Closed, TypeOK
  <2>3. ReportCode(s) \in Codes \cup {0, 1005, 1006}
    BY Coding
  <2>4. /\ Heeds(s, "close", "CLOSED", HearClose(stream[s]))
        /\ reported' \in [Sockets -> Codes \cup {0, 1005, 1006}]
    BY <1>5, <2>3, CloseHeeds DEF Closed
  <2> QED
    BY <2>1, <2>2, <2>4 DEF TypeOK, Types, Rest, Heeds, teardownVars
<1>6. ASSUME NEW s \in Sockets, ConnectionError(s) PROVE TypeOK' /\ Types'
  <2>1. UNCHANGED <<pinned, pending, wanted, timer, close_code, sent, given, teardownVars, blobs,
                    jobs, conns, calls>>
    BY <1>6 DEF ConnectionError, Service
  <2>2. wsi' \in [Sockets -> {"null", "connecting", "open", "echoing"}]
    BY <1>6 DEF ConnectionError, TypeOK
  <2>3. Heeds(s, "error", readyState[s], HearError(stream[s])) /\ reported' = reported
    BY <1>6, ErrorHeeds DEF ConnectionError
  <2> QED
    BY <2>1, <2>2, <2>3 DEF TypeOK, Types, Rest, Heeds, teardownVars
<1>7. ASSUME NEW s \in Sockets, AbnormalClose(s) PROVE TypeOK' /\ Types'
  <2>1. UNCHANGED <<nativeVars, teardownVars, blobs, sent, given, calls>> /\ jobs' \subseteq Sockets
    BY <1>7 DEF AbnormalClose, TypeOK
  <2>2. Heeds(s, "error", readyState[s], HearError(stream[s])) /\ reported' = reported
    BY <1>7, ErrorHeeds DEF AbnormalClose
  <2> QED
    BY <2>1, <2>2 DEF TypeOK, Types, Rest, Heeds, nativeVars, teardownVars
<1>8. ASSUME NEW s \in Sockets, NEW m \in blobs[s], BlobRead(s, m) PROVE TypeOK' /\ Types'
  <2>1. UNCHANGED <<wsi, pinned, timer, close_code, conns, teardownVars, heardVars, jobs, todo,
                    sent, given, calls>>
    BY <1>8 DEF BlobRead
  <2>2. m \in Messages /\ blobs' \in [Sockets -> SUBSET Messages]
    BY <1>8 DEF BlobRead, Types
  <2>3. pending' \in [Sockets -> Seq(Messages)] /\ wanted' \subseteq Sockets
    BY <1>8, <2>2, Queueing DEF BlobRead
  <2> QED
    BY <2>1, <2>2, <2>3 DEF TypeOK, Types, Rest, heardVars, teardownVars
<1>9. ASSUME CallbackEnd PROVE TypeOK' /\ Types'
  <2> DEFINE e == Head(todo)
  <2>1. /\ UNCHANGED <<wsi, pending, wanted, timer, close_code, teardownVars, blobs, jobs, sent,
                       given, calls>>
        /\ todo # <<>> /\ todo \in Seq(Entries)
    BY <1>9 DEF CallbackEnd, TypeOK
  <2>2. e[2] \in Sockets
    <3>1. e \in Entries
      BY <2>1, EmptySeq
    <3> QED
      BY <3>1
  <2>3. CASE e[1] = "release" /\ pinned' = pinned \ {e[2]} /\ UNCHANGED heardVars
    BY <2>1, <2>3 DEF TypeOK, Types, Rest, heardVars, teardownVars
  <2>4. CASE EmitClose(e[2], 1006) /\ UNCHANGED pinned
    <3>1. /\ Heeds(e[2], "close", "CLOSED", HearClose(stream[e[2]]))
          /\ reported' \in [Sockets -> Codes \cup {0, 1005, 1006}]
      BY <2>2, <2>4, CloseHeeds
    <3> QED
      BY <2>1, <2>4, <3>1 DEF TypeOK, Types, Rest, Heeds, teardownVars
  <2> QED
    BY <1>9, <2>3, <2>4 DEF CallbackEnd
<1> QED
  BY <1>1, <1>2, <1>3, <1>4, <1>5, <1>6, <1>7, <1>8, <1>9 DEF Lws

\* Collector and teardown keep the types.
LEMMA TeardownTyped ==
  ASSUME TypeOK, Types, Teardown, Rest PROVE TypeOK' /\ Types'
<1> USE DEF ReadyStates, Streams, Entries, Kinds
<1>1. ASSUME NEW s \in Sockets, Collect(s) PROVE TypeOK' /\ Types'
  BY <1>1 DEF Collect, TypeOK, Types, Rest, nativeVars, heardVars
<1>2. ASSUME NEW s \in Sockets, DestroyWsi(s) PROVE TypeOK' /\ Types'
  <2>1. UNCHANGED <<pending, wanted, timer, close_code, teardownVars, blobs, jobs, todo, sent,
                    given, calls>>
    BY <1>2 DEF DestroyWsi
  <2>2. /\ wsi' \in [Sockets -> {"null", "connecting", "open", "echoing"}]
        /\ pinned' \subseteq Sockets
    BY <1>2 DEF DestroyWsi, TypeOK
  <2>3. PICK code \in Codes \cup {0, 1005, 1006} : EmitClose(s, code)
    <3>1. ReportCode(s) \in Codes \cup {0, 1005, 1006}
      BY Coding
    <3> QED
      BY <1>2, <3>1 DEF DestroyWsi
  <2>4. /\ Heeds(s, "close", "CLOSED", HearClose(stream[s]))
        /\ reported' \in [Sockets -> Codes \cup {0, 1005, 1006}]
    BY <2>3, CloseHeeds
  <2> QED
    BY <2>1, <2>2, <2>4 DEF TypeOK, Types, Rest, Heeds, teardownVars
<1>3. ASSUME NEW how \in {"ended", "stopped"}, LoopReturns(how) PROVE TypeOK' /\ Types'
  BY <1>3 DEF LoopReturns, Detached, TypeOK, Types, Rest, nativeVars, heardVars
<1> QED
  BY <1>1, <1>2, <1>3 DEF Teardown

----------------------------------------------------------------------------
(* Lifetimes.                                                              *)

\* What lws still calls back, in terms of the stack.
LEMMA OwedIs ==
  /\ \A s : Owed(s) <=> Live(s) \/ Has("close", s) \/ Has("release", s)
  /\ \A s : Owed(s)' <=> Live(s)' \/ Has("close", s)' \/ Has("release", s)'
BY DEF Owed, Has, In

\* The count.
LEMMA CountSame ==
  ASSUME Counted, conns' = conns, \A s \in Sockets : Owed(s)' <=> Owed(s) PROVE Counted'
BY DEF Counted, Owing

\* One socket more is counted up.
LEMMA CountAdds ==
  ASSUME Counted, NEW s \in Sockets, ~Owed(s), conns' = conns + 1,
         \A u \in Sockets : Owed(u)' <=> Owed(u) \/ u = s
  PROVE  Counted'
<1>1. Owing' = Owing \cup {s} /\ s \notin Owing
  BY DEF Owing
<1>2. IsFiniteSet(Owing \cup {s}) /\ Cardinality(Owing \cup {s}) = Cardinality(Owing) + 1
  BY <1>1, FS_AddElement DEF Counted
<1> QED
  BY <1>1, <1>2 DEF Counted

\* One socket less is counted down.
LEMMA CountDrops ==
  ASSUME Counted, NEW s \in Sockets, Owed(s), conns' = conns - 1,
         \A u \in Sockets : Owed(u)' <=> Owed(u) /\ u # s
  PROVE  Counted'
<1>1. Owing' = Owing \ {s} /\ s \in Owing
  BY DEF Owing
<1>2. IsFiniteSet(Owing \ {s}) /\ Cardinality(Owing \ {s}) = Cardinality(Owing) - 1
  BY <1>1, FS_RemoveElement DEF Counted
<1> QED
  BY <1>1, <1>2 DEF Counted

\* The count is a number.
LEMMA CountTyped == Counted' => conns' \in Nat
BY FS_CardinalityType DEF Counted

\* What a step has to keep besides the types.
Structure == Stack /\ (\A s \in Sockets : Life(s)) /\ Counted /\ NoneForgotten
Structured == Structure' /\ Rest

\* A step of scripts or lws that ends nothing.
LEMMA SameStructure ==
  ASSUME Lives, phase = "running",
         UNCHANGED <<pinned, conns, jobs, todo, finalized, phase, silenced>>,
         \A s \in Sockets : Live(s)' <=> Live(s),
         \A s \in Sockets :
           \/ readyState'[s] = readyState[s]
           \/ /\ readyState[s] # "none" /\ readyState'[s] # "none"
              /\ Live(s) \/ readyState[s] # "CLOSED"
  PROVE  Structured
<1>1. Stack' /\ NoneForgotten' /\ Rest
  BY DEF Lives, Stack, NoneForgotten, TypeOK, Rest, Entries, Kinds
<1>2. \A s \in Sockets : Owed(s)' <=> Owed(s)
  BY OwedIs DEF Has
<1>3. Counted'
  BY <1>2, CountSame DEF Lives
<1>4. ASSUME NEW s \in Sockets PROVE Life(s)'
  <2>1. Life(s) /\ (Live(s)' <=> Live(s))
    BY DEF Lives
  <2> QED
    BY <2>1 DEF Life, Waiting, Has
<1> QED
  BY <1>1, <1>3, <1>4 DEF Structure, Structured

\* One socket changes.
LEMMA OneLife ==
  ASSUME Lives, phase' = phase, NEW s \in Sockets,
         \A u \in Sockets : u # s =>
           /\ Live(u)' <=> Live(u)
           /\ readyState'[u] = readyState[u]
           /\ u \in jobs' <=> u \in jobs
           /\ u \in pinned' <=> u \in pinned
           /\ u \in finalized' <=> u \in finalized
           /\ \A kind : Has(kind, u)' <=> Has(kind, u),
         Life(s)'
  PROVE  \A u \in Sockets : Life(u)'
<1> SUFFICES ASSUME NEW u \in Sockets, u # s PROVE Life(u)'
  OBVIOUS
<1>1. Life(u)
  BY DEF Lives
<1> QED
  BY <1>1 DEF Life, Waiting

\* While the runtime runs, nothing is silenced and nothing forgotten.
LEMMA RunningStack ==
  ASSUME Stack, phase = "running", UNCHANGED <<phase, silenced>>, Distinct(todo')
  PROVE  Stack' /\ NoneForgotten'
BY DEF Stack, NoneForgotten

\* What scripts call keeps the rest of the invariant.
LEMMA ScriptStructure ==
  ASSUME Lives, Scripts PROVE Structured
<1>a. TypeOK /\ Types /\ Stack /\ phase = "running"
      /\ UNCHANGED <<todo, finalized, phase, silenced>>
  BY DEF Lives, Scripts, Connect, Abort, SendCall, StreamWrite, Close, EndHalf, Calling,
         teardownVars
<1>1. ASSUME NEW s \in Sockets, Connect(s) PROVE Structured
  <2>1. /\ readyState[s] = "none" /\ readyState'[s] = "CONNECTING"
        /\ \A u \in Sockets : u # s => readyState'[u] = readyState[u]
    BY <1>1, <1>a DEF Connect, TypeOK
  <2>2. ~Live(s) /\ s \notin jobs /\ ~Waiting(s) /\ s \notin finalized
    BY <2>1 DEF Lives, Life
  <2>3. \A kind, u : Has(kind, u)' <=> Has(kind, u)
    BY <1>a DEF Has
  <2>4. Stack' /\ NoneForgotten'
    BY <1>a, RunningStack DEF Stack
  <2>5. CASE /\ wsi' = [wsi EXCEPT ![s] = "connecting"]
             /\ pinned' = Pin(s) /\ conns' = conns + 1
             /\ UNCHANGED jobs
    <3>1. Live(s)' /\ \A u \in Sockets : u # s => (Live(u)' <=> Live(u))
      BY <1>a, <2>5 DEF Live, TypeOK
    <3>2. s \in pinned' /\ \A u : u # s => (u \in pinned' <=> u \in pinned)
      BY <2>5 DEF Pin
    <3>3. Life(s)'
      BY <1>a, <2>1, <2>2, <2>3, <2>5, <3>1, <3>2 DEF Life, Waiting
    <3>4. \A u \in Sockets : Life(u)'
      BY <1>a, <2>1, <2>3, <2>5, <3>1, <3>2, <3>3, OneLife
    <3>5. Counted'
      <4>1. ~Owed(s) /\ \A u \in Sockets : Owed(u)' <=> Owed(u) \/ u = s
        BY <2>2, <2>3, <3>1, OwedIs DEF Waiting
      <4> QED
        BY <2>5, <4>1, CountAdds DEF Lives
    <3> QED
      BY <1>a, <2>4, <3>4, <3>5, CountTyped DEF Structured, Structure, Rest, TypeOK, Entries, Kinds
  <2>6. CASE jobs' = jobs \cup {s} /\ UNCHANGED <<wsi, pinned, conns>>
    <3>1. \A u \in Sockets : Live(u)' <=> Live(u)
      BY <2>6 DEF Live
    <3>2. Life(s)'
      BY <1>a, <2>1, <2>2, <2>3, <2>6, <3>1 DEF Life, Waiting
    <3>3. \A u \in Sockets : Life(u)'
      BY <1>a, <2>1, <2>3, <2>6, <3>1, <3>2, OneLife
    <3>4. Counted'
      BY <2>3, <2>6, <3>1, OwedIs, CountSame DEF Lives
    <3> QED
      BY <1>a, <2>4, <3>3, <3>4, CountTyped DEF Structured, Structure, Rest, TypeOK, Entries, Kinds
  <2> QED
    BY <1>1, <2>5, <2>6 DEF Connect
<1>2. ASSUME NEW s \in Sockets, NEW code \in Codes, CloseSocket(s, code),
             UNCHANGED <<wsi, pinned, conns, jobs>>
      PROVE  Structured
  <2>1. \A u \in Sockets : readyState'[u] = readyState[u]
                           \/ (u = s /\ CanClose(s) /\ readyState'[u] = "CLOSING")
    BY <1>2, <1>a, CloseShuts DEF Shuts
  <2>2. \A u \in Sockets : Live(u)' <=> Live(u)
    BY <1>2 DEF Live
  <2> QED
    BY <1>2, <1>a, <2>1, <2>2, SameStructure DEF CanClose
<1>3. ASSUME UNCHANGED <<wsi, pinned, conns, jobs, readyState>> PROVE Structured
  BY <1>3, <1>a, SameStructure DEF Live
<1> QED
  BY <1>1, <1>2, <1>3, WebSocketAssumption DEF Scripts, Abort, SendCall, StreamWrite, Close, EndHalf

\* The callback that goes on is the only one.
LEMMA OneCallback ==
  ASSUME todo = <<>>, NEW s \in Sockets, NEW k \in {"close", "release"}, todo' = <<<<k, s>>>>
  PROVE  /\ todo' \in Seq(Entries) /\ Distinct(todo')
         /\ \A kind, u : Has(kind, u)' <=> kind = k /\ u = s
         /\ \A kind, u : ~Has(kind, u)
<1>1. todo' \in Seq(Entries) /\ Len(todo') = 1 /\ todo'[1] = <<k, s>> /\ DOMAIN todo' = {1}
  BY DEF Entries, Kinds
<1>2. Distinct(todo')
  BY <1>1 DEF Distinct
<1>3. \A kind, u : Has(kind, u)' <=> kind = k /\ u = s
  <2> SUFFICES ASSUME NEW kind, NEW u PROVE Has(kind, u)' <=> kind = k /\ u = s
    OBVIOUS
  <2>1. Has(kind, u)' <=> <<k, s>> = <<kind, u>>
    BY <1>1 DEF Has, In
  <2> QED
    BY <2>1
<1>4. \A kind, u : ~Has(kind, u)
  BY DEF Has, In
<1> QED
  BY <1>1, <1>2, <1>3, <1>4

\* The connection is gone, and its callback goes on.
LEMMA GoneStructure ==
  ASSUME Lives, phase = "running", todo = <<>>, NEW s \in Sockets, Live(s),
         wsi' = [wsi EXCEPT ![s] = "null"],
         NEW k \in {"close", "release"}, todo' = <<<<k, s>>>>,
         readyState'[s] = IF k = "release" THEN "CLOSED" ELSE readyState[s],
         \A u \in Sockets : u # s => readyState'[u] = readyState[u],
         UNCHANGED <<pinned, conns, jobs, finalized, phase, silenced>>
  PROVE  Structured
<1>1. /\ todo' \in Seq(Entries) /\ Distinct(todo')
      /\ \A kind, u : Has(kind, u)' <=> kind = k /\ u = s
      /\ \A kind, u : ~Has(kind, u)
  BY OneCallback
<1>2. ~Live(s)' /\ \A u \in Sockets : u # s => (Live(u)' <=> Live(u))
  BY DEF Live, Lives, TypeOK
<1>3. Life(s)'
  <2>1. readyState[s] # "none" /\ s \notin jobs /\ s \in pinned /\ s \notin finalized
    BY DEF Lives, Life
  <2> QED
    BY <1>1, <1>2, <2>1 DEF Life, Waiting
<1>4. \A u \in Sockets : Life(u)'
  BY <1>1, <1>2, <1>3, OneLife
<1>5. \A u \in Sockets : Owed(u)' <=> Owed(u)
  BY <1>1, <1>2, OwedIs
<1>6. Counted'
  BY <1>5, CountSame DEF Lives
<1>7. Stack' /\ NoneForgotten'
  BY <1>1, RunningStack DEF Lives
<1> QED
  BY <1>1, <1>4, <1>6, <1>7, CountTyped DEF Structured, Structure, Rest


\* A job's callback is on top of the others.
LEMMA JobCallback ==
  ASSUME Lives, NEW s \in Sockets, AbnormalClose(s)
  PROVE  /\ ~Live(s) /\ ~Waiting(s) /\ readyState[s] # "none"
         /\ todo' \in Seq(Entries) /\ Distinct(todo')
         /\ \A kind, u : Has(kind, u)' <=> Has(kind, u) \/ (kind = "abandon" /\ u = s)
<1>1. Stack /\ Life(s) /\ todo \in Seq(Entries)
  BY DEF Lives, TypeOK, Entries, Kinds
<1>2. s \in jobs /\ todo' = <<<<"abandon", s>>>> \o todo
  BY DEF AbnormalClose
<1>3. ~Live(s) /\ ~Waiting(s) /\ readyState[s] # "none"
  BY <1>1, <1>2 DEF Life
<1>4. ~Waits(todo, s) /\ Distinct(todo) /\ "abandon" \in Kinds
  BY <1>1, <1>3 DEF Waits, Waiting, Has, Kinds, Stack
<1>5. /\ todo' \in Seq(Entries) /\ Distinct(todo')
      /\ \A kind, u : In(todo', kind, u) <=> In(todo, kind, u) \/ (kind = "abandon" /\ u = s)
  BY <1>1, <1>2, <1>4, PushIt
<1> QED
  BY <1>3, <1>5 DEF Has

\* A job calls the handler of the error.
LEMMA AbnormalStructure ==
  ASSUME Lives, NEW s \in Sockets, AbnormalClose(s) PROVE Structured
<1>1. TypeOK /\ Types /\ Stack /\ Life(s)
  BY DEF Lives
<1>2. /\ phase = "running" /\ s \in jobs /\ jobs' = jobs \ {s} /\ EmitError(s)
      /\ UNCHANGED <<wsi, pinned, conns, finalized, phase, silenced>>
  BY DEF AbnormalClose, nativeVars, teardownVars
<1>3. /\ ~Live(s) /\ ~Waiting(s) /\ readyState[s] # "none"
      /\ todo' \in Seq(Entries) /\ Distinct(todo')
      /\ \A kind, u : Has(kind, u)' <=> Has(kind, u) \/ (kind = "abandon" /\ u = s)
  BY JobCallback
<1>4. \A u \in Sockets : Live(u)' <=> Live(u)
  BY <1>2 DEF Live
<1>5. \A u \in Sockets : readyState'[u] = readyState[u]
  BY <1>1, <1>2, ErrorHeeds DEF Heeds
<1>6. Life(s)'
  BY <1>1, <1>2, <1>3, <1>4, <1>5 DEF Life, Waiting
<1>7. \A u \in Sockets : Life(u)'
  BY <1>2, <1>3, <1>4, <1>5, <1>6, OneLife
<1>8. \A u \in Sockets : Owed(u)' <=> Owed(u)
  BY <1>3, <1>4, OwedIs
<1>9. Counted'
  BY <1>2, <1>8, CountSame DEF Lives
<1>10. Stack' /\ NoneForgotten'
  BY <1>1, <1>2, <1>3, RunningStack
<1> QED
  BY <1>3, <1>7, <1>9, <1>10, CountTyped DEF Structured, Structure, Rest

\* What the rest of a callback of s does.
Returns(k, s) ==
  /\ Has(k, s) /\ \A kind : Has(kind, s) => kind = k
  /\ todo' \in Seq(Entries) /\ Distinct(todo')
  /\ \A kind, u : Has(kind, u)' <=> (Has(kind, u) /\ u # s)
                                    \/ (k = "close" /\ kind = "release" /\ u = s)
  /\ \/ /\ k = "release" /\ UNCHANGED heardVars
        /\ conns' = LetGo /\ pinned' = pinned \ {s}
     \/ /\ k # "release" /\ EmitClose(s, 1006)
        /\ UNCHANGED <<conns, pinned>>

\* The rest of a callback is one of three.
LEMMA Returning ==
  ASSUME Lives, CallbackEnd PROVE \E k \in Kinds, s \in Sockets : Returns(k, s)
<1>1. Distinct(todo) /\ todo \in Seq(Entries) /\ todo # <<>>
  BY DEF Lives, Stack, TypeOK, Entries, Kinds, CallbackEnd
<1>2. PICK k \in Kinds, s \in Sockets : Head(todo) = <<k, s>>
  <2>1. Head(todo) \in Entries
    BY <1>1, PopIt
  <2> QED
    BY <2>1 DEF Entries
<1>3. Head(todo)[1] = k /\ Head(todo)[2] = s
  BY <1>2
<1>4. /\ In(todo, k, s) /\ Tail(todo) \in Seq(Entries) /\ Distinct(Tail(todo))
      /\ \A kind : In(todo, kind, s) => kind = k
      /\ \A kind, u : In(Tail(todo), kind, u) <=> In(todo, kind, u) /\ u # s
  BY <1>1, <1>3, PopIt
<1>5. Has(k, s) /\ \A kind : Has(kind, s) => kind = k
  BY <1>4 DEF Has
<1>6. CASE k # "close" /\ todo' = Tail(todo)
  <2>1. \A kind, u : Has(kind, u)' <=> Has(kind, u) /\ u # s
    BY <1>4, <1>6 DEF Has
  <2>2. Returns(k, s)
    BY <1>3, <1>4, <1>5, <1>6, <2>1 DEF Returns, CallbackEnd
  <2> QED
    BY <2>2
<1>7. CASE k = "close" /\ todo' = <<<<"release", s>>>> \o Tail(todo)
  <2>1. ~Waits(Tail(todo), s) /\ "release" \in Kinds
    BY <1>4 DEF Waits, Kinds
  <2>2. /\ todo' \in Seq(Entries) /\ Distinct(todo')
        /\ \A kind, u : In(todo', kind, u) <=> In(Tail(todo), kind, u)
                                               \/ (kind = "release" /\ u = s)
    BY <1>4, <1>7, <2>1, PushIt
  <2>3. \A kind, u : Has(kind, u)' <=> (Has(kind, u) /\ u # s) \/ (kind = "release" /\ u = s)
    BY <1>4, <2>2 DEF Has
  <2>4. Returns(k, s)
    BY <1>3, <1>5, <1>7, <2>2, <2>3 DEF Returns, CallbackEnd
  <2> QED
    BY <2>4
<1> QED
  BY <1>3, <1>6, <1>7 DEF CallbackEnd

\* It keeps the invariant.
LEMMA CallbackStructure ==
  ASSUME Lives, CallbackEnd PROVE Structured
<1>1. /\ TypeOK /\ Types /\ Stack /\ phase = "running"
      /\ jobs = {} /\ UNCHANGED <<wsi, jobs, finalized, phase, silenced>>
  BY DEF Lives, CallbackEnd, teardownVars
<1>2. PICK k \in Kinds, s \in Sockets : Returns(k, s)
  BY Returning
<1> HIDE DEF Kinds
<1>3. ~Live(s) /\ s \notin jobs /\ Life(s)
  BY <1>2 DEF Returns, Waiting, Kinds, Lives, Life
<1>4. \A u \in Sockets : Live(u)' <=> Live(u)
  BY <1>1 DEF Live
<1>5. Stack' /\ NoneForgotten'
  BY <1>1, <1>2, RunningStack DEF Returns
<1>6. CASE k = "release"
  <2>1. /\ \A kind, u : Has(kind, u)' <=> Has(kind, u) /\ u # s
        /\ Has("release", s) /\ \A kind : Has(kind, s) => kind = "release"
        /\ conns' = LetGo /\ pinned' = pinned \ {s} /\ UNCHANGED readyState
    BY <1>2, <1>6 DEF Returns, heardVars
  <2>2. Life(s)'
    BY <1>1, <1>3, <1>4, <2>1 DEF Life, Waiting
  <2>3. \A u \in Sockets : Life(u)'
    BY <1>1, <1>4, <2>1, <2>2, OneLife
  <2>4. Owed(s) /\ \A u \in Sockets : Owed(u)' <=> Owed(u) /\ u # s
    BY <1>3, <1>4, <2>1, OwedIs
  <2>5. Counted'
    BY <2>1, <2>4, CountDrops DEF Lives, LetGo
  <2> QED
    BY <1>2, <1>5, <2>3, <2>5, CountTyped DEF Structured, Structure, Rest, Returns
<1>7. CASE k # "release"
  <2>1. /\ Has(k, s) /\ \A kind : Has(kind, s) => kind = k
        /\ \A kind, u : Has(kind, u)' <=> (Has(kind, u) /\ u # s)
                                          \/ (k = "close" /\ kind = "release" /\ u = s)
        /\ EmitClose(s, 1006) /\ UNCHANGED <<conns, pinned>>
    BY <1>2, <1>7 DEF Returns
  <2>2. /\ readyState'[s] = "CLOSED"
        /\ \A u \in Sockets : u # s => readyState'[u] = readyState[u]
    <3>1. Heeds(s, "close", "CLOSED", HearClose(stream[s]))
      BY <1>1, <2>1, CloseHeeds
    <3> QED
      BY <1>1, <3>1 DEF Heeds, Stack
  <2>3. Life(s)'
    BY <1>1, <1>3, <1>4, <2>1, <2>2 DEF Life, Waiting
  <2>4. \A u \in Sockets : Life(u)'
    BY <1>1, <1>4, <2>1, <2>2, <2>3, OneLife
  <2>5. \A u \in Sockets : Owed(u)' <=> Owed(u)
    BY <1>4, <1>7, <2>1, OwedIs
  <2>6. Counted'
    BY <2>1, <2>5, CountSame DEF Lives
  <2> QED
    BY <1>2, <1>5, <2>4, <2>6, CountTyped DEF Structured, Structure, Rest, Returns
<1> QED
  BY <1>6, <1>7

\* What lws calls keeps it.
LEMMA LwsStructure ==
  ASSUME Lives, Lws PROVE Structured
<1>a. TypeOK /\ Types /\ Stack
  BY DEF Lives
<1>s. Service => /\ phase = "running" /\ todo = <<>> /\ jobs = {} /\ silenced = {}
                 /\ UNCHANGED <<finalized, phase, silenced, jobs, conns>>
  BY <1>a DEF Service, teardownVars, Stack
<1>1. ASSUME NEW s \in Sockets, Established(s) PROVE Structured
  <2>1. Service /\ wsi[s] = "connecting" /\ wsi' = [wsi EXCEPT ![s] = "open"]
        /\ Hear(s, "open", "OPEN", HearOpen(stream[s])) /\ UNCHANGED <<pinned, todo>>
    BY <1>1 DEF Established
  <2>2. \A u \in Sockets : Live(u)' <=> Live(u)
    BY <1>a, <2>1 DEF Live, TypeOK
  <2>3. \A u \in Sockets : readyState'[u] = IF u = s THEN "OPEN" ELSE readyState[u]
    BY <1>a, <1>s, <2>1 DEF Hear, TypeOK
  <2>4. Live(s) /\ readyState[s] # "none"
    BY <2>1 DEF Live, Lives, Life
  <2> QED
    BY <1>s, <2>1, <2>2, <2>3, <2>4, SameStructure
<1>2. ASSUME NEW s \in Sockets, Receive(s) PROVE Structured
  <2>1. Service /\ Hear(s, "message", readyState[s], stream[s]) /\ UNCHANGED <<wsi, pinned, todo>>
    BY <1>2 DEF Receive
  <2>2. \A u \in Sockets : readyState'[u] = readyState[u]
    BY <1>a, <1>s, <2>1 DEF Hear, TypeOK
  <2> QED
    BY <1>s, <2>1, <2>2, SameStructure DEF Live
<1>3. ASSUME NEW s \in Sockets, Writeable(s) PROVE Structured
  <2>1. Service /\ UNCHANGED <<wsi, pinned, readyState, todo>>
    BY <1>3 DEF Writeable, heardVars
  <2> QED
    BY <1>s, <2>1, SameStructure DEF Live
<1>4. ASSUME NEW s \in Sockets, NEW code, PeerClose(s, code) PROVE Structured
  <2>1. Service /\ wsi[s] = "open" /\ wsi' = [wsi EXCEPT ![s] = "echoing"]
        /\ UNCHANGED <<pinned, readyState, todo>>
    BY <1>4 DEF PeerClose, heardVars
  <2>2. \A u \in Sockets : Live(u)' <=> Live(u)
    BY <1>a, <2>1 DEF Live, TypeOK
  <2> QED
    BY <1>s, <2>1, <2>2, SameStructure
<1>5. ASSUME NEW s \in Sockets, Closed(s) PROVE Structured
  <2>1. /\ Service /\ Live(s) /\ wsi' = [wsi EXCEPT ![s] = "null"]
        /\ EmitClose(s, ReportCode(s)) /\ todo' = <<<<"release", s>>>> /\ UNCHANGED pinned
    BY <1>5 DEF Closed, Live
  <2>2. \A u \in Sockets : readyState'[u] = IF u = s THEN "CLOSED" ELSE readyState[u]
    BY <1>a, <1>s, <2>1 DEF EmitClose, Hear, TypeOK
  <2> QED
    BY <1>s, <2>1, <2>2, GoneStructure
<1>6. ASSUME NEW s \in Sockets, ConnectionError(s) PROVE Structured
  <2>1. /\ Service /\ Live(s) /\ wsi' = [wsi EXCEPT ![s] = "null"]
        /\ EmitError(s) /\ todo' = <<<<"close", s>>>> /\ UNCHANGED pinned
    BY <1>6 DEF ConnectionError, Live
  <2>2. \A u \in Sockets : readyState'[u] = readyState[u]
    BY <1>a, <1>s, <2>1, ErrorHeeds DEF Heeds
  <2> QED
    BY <1>s, <2>1, <2>2, GoneStructure
<1>7. ASSUME NEW s \in Sockets, NEW m \in blobs[s], BlobRead(s, m) PROVE Structured
  <2>1. phase = "running" /\ UNCHANGED <<wsi, pinned, conns, jobs, todo, finalized, phase,
                                         silenced, readyState>>
    BY <1>7 DEF BlobRead, teardownVars, heardVars
  <2> QED
    BY <2>1, SameStructure DEF Live
<1> QED
  BY <1>1, <1>2, <1>3, <1>4, <1>5, <1>6, <1>7, AbnormalStructure, CallbackStructure DEF Lws

\* Collector and teardown keep it.
LEMMA TeardownStructure ==
  ASSUME Lives, Teardown PROVE Structured
<1>a. TypeOK /\ Types /\ Stack /\ NoneForgotten /\ Counted /\ \A s \in Sockets : Life(s)
  BY DEF Lives
<1>1. ASSUME NEW s \in Sockets, Collect(s) PROVE Structured
  <2>1. /\ phase = "running" /\ s \notin pinned /\ readyState[s] # "none"
        /\ finalized' = finalized \cup {s}
        /\ UNCHANGED <<wsi, pinned, conns, readyState, jobs, todo, phase, silenced>>
    BY <1>1 DEF Collect, Usable, nativeVars, heardVars
  <2>2. /\ \A u \in Sockets : Live(u)' <=> Live(u)
        /\ \A kind, u : Has(kind, u)' <=> Has(kind, u)
    BY <2>1 DEF Live, Has
  <2>3. Life(s)'
    BY <1>a, <2>1, <2>2 DEF Life, Waiting
  <2>4. \A u \in Sockets : Life(u)'
    BY <2>1, <2>2, <2>3, OneLife
  <2>5. Counted'
    BY <2>1, <2>2, OwedIs, CountSame, <1>a
  <2>6. Stack' /\ NoneForgotten'
    BY <1>a, <2>1, RunningStack DEF Stack
  <2> QED
    BY <1>a, <2>1, <2>4, <2>5, <2>6, CountTyped
       DEF Structured, Structure, Rest, TypeOK, Entries, Kinds
<1>2. ASSUME NEW how \in {"ended", "stopped"}, LoopReturns(how) PROVE Structured
  <2>1. /\ phase = "running" /\ todo = <<>> /\ phase' = how /\ silenced' = pinned
        /\ how = "ended" => conns = 0 /\ jobs = {}
        /\ UNCHANGED <<wsi, pinned, conns, readyState, jobs, todo, finalized>>
    BY <1>2 DEF LoopReturns, Detached, nativeVars, heardVars
  <2>2. /\ \A u \in Sockets : Live(u)' <=> Live(u)
        /\ \A kind, u : Has(kind, u)' <=> Has(kind, u)
    BY <2>1 DEF Live, Has
  <2>3. \A kind, u : ~Has(kind, u)
    BY <2>1 DEF Has, In
  <2>4. \A u \in Sockets : Life(u)'
    BY <1>a, <2>1, <2>2 DEF Life, Waiting
  <2>5. Counted'
    BY <2>1, <2>2, OwedIs, CountSame, <1>a
  <2>6. Stack'
    BY <1>a, <2>1, <2>2 DEF Stack, Life
  <2>7. NoneForgotten'
    <3>1. CASE how = "ended"
      <4>1. Owing = {}
        BY <1>a, <2>1, <3>1, FS_EmptySet DEF Counted
      <4>2. ASSUME NEW s \in Sockets PROVE readyState[s] \in {"none", "CLOSED"}
        <5>1. ~Live(s) /\ s \notin jobs /\ Life(s)
          BY <1>a, <2>1, <3>1, <4>1 DEF Owing, Owed
        <5> QED
          BY <2>1, <2>3, <5>1 DEF Life
      <4> QED
        BY <2>1, <4>2 DEF NoneForgotten
    <3>2. CASE how = "stopped"
      BY <2>1, <3>2 DEF NoneForgotten
    <3> QED
      BY <3>1, <3>2
  <2> QED
    BY <1>a, <2>1, <2>4, <2>5, <2>6, <2>7, CountTyped
       DEF Structured, Structure, Rest, TypeOK, Entries, Kinds
<1>3. ASSUME NEW s \in Sockets, DestroyWsi(s) PROVE Structured
  <2>1. /\ phase # "running" /\ Live(s) /\ wsi' = [wsi EXCEPT ![s] = "null"]
        /\ conns' = conns - 1 /\ pinned' = pinned \ {s}
        /\ UNCHANGED <<jobs, todo, finalized, phase, silenced>>
    BY <1>3 DEF DestroyWsi, teardownVars
  <2>2. todo = <<>> /\ s \in silenced
    BY <1>a, <2>1 DEF Stack
  <2>3. UNCHANGED readyState
    BY <1>3, <2>2 DEF DestroyWsi, EmitClose, Hear
  <2>4. \A kind, u : ~Has(kind, u) /\ ~Has(kind, u)'
    BY <2>1, <2>2 DEF Has, In
  <2>5. ~Live(s)' /\ \A u \in Sockets : u # s => (Live(u)' <=> Live(u))
    BY <1>a, <2>1 DEF Live, TypeOK
  <2>6. Life(s)'
    BY <1>a, <2>1, <2>3, <2>4, <2>5 DEF Life, Waiting
  <2>7. \A u \in Sockets : Life(u)'
    BY <2>1, <2>3, <2>4, <2>5, <2>6, OneLife
  <2>8. Owed(s) /\ \A u \in Sockets : Owed(u)' <=> Owed(u) /\ u # s
    BY <2>1, <2>4, <2>5, OwedIs
  <2>9. Counted'
    BY <1>a, <2>1, <2>8, CountDrops
  <2>10. Stack' /\ NoneForgotten'
    <3>1. \A u \in Sockets : phase' # "running" /\ Live(u)' => u \in silenced'
      BY <1>a, <2>1, <2>5 DEF Stack
    <3> QED
      BY <1>a, <2>1, <2>3, <3>1 DEF Stack, NoneForgotten
  <2> QED
    BY <1>a, <2>1, <2>7, <2>9, <2>10, CountTyped
       DEF Structured, Structure, Rest, TypeOK, Entries, Kinds
<1> QED
  BY <1>1, <1>2, <1>3 DEF Teardown

\* Every step keeps the invariant.
LEMMA LivesStep ==
  ASSUME Lives, [Next]_vars PROVE Lives'
<1>1. CASE UNCHANGED vars
  <2>1. UNCHANGED <<wsi, pinned, pending, wanted, timer, close_code, conns, finalized, phase>>
        /\ UNCHANGED <<silenced, readyState, stream, events, reported, blobs, jobs, todo, sent>>
        /\ UNCHANGED <<given, calls>>
    BY <1>1 DEF vars, nativeVars, teardownVars, heardVars
  <2>2. TypeOK' /\ Types'
    BY <2>1 DEF Lives, TypeOK, Types
  <2>3. /\ \A u \in Sockets : Live(u)' <=> Live(u)
        /\ \A kind, u : Has(kind, u)' <=> Has(kind, u)
    BY <2>1 DEF Live, Has
  <2>4. Stack' /\ NoneForgotten'
    BY <2>1, <2>3 DEF Lives, Stack, NoneForgotten
  <2>5. Counted'
    BY <2>1, <2>3, OwedIs, CountSame DEF Lives
  <2>6. \A s \in Sockets : Life(s)'
    BY <2>1, <2>3 DEF Lives, Life, Waiting
  <2> QED
    BY <2>2, <2>4, <2>5, <2>6 DEF Lives
<1>2. CASE Next
  <2>1. Structured
    BY <1>2, ScriptStructure, LwsStructure, TeardownStructure DEF Next
  <2>2. TypeOK' /\ Types'
    BY <1>2, <2>1, ScriptTyped, LwsTyped, TeardownTyped DEF Next, Lives, Structured
  <2> QED
    BY <2>1, <2>2 DEF Structured, Structure, Lives
<1> QED
  BY <1>1, <1>2

\* The invariant holds at the start.
LEMMA LivesInit == Init => Lives
<1> SUFFICES ASSUME Init PROVE Lives
  OBVIOUS
<1> USE DEF Init
<1>1. \A S : <<>> \in Seq(S)
  BY EmptySeq
<1>2. NewStream \in [opened : {"pending", "resolved", "rejected"},
                     closed : {"pending", "resolved", "rejected"},
                     readable : {"open", "closed", "errored"},
                     writable : {"open", "closed", "errored"},
                     hadError : BOOLEAN, signal : BOOLEAN]
  BY DEF NewStream
<1>3. TypeOK
  BY <1>1, <1>2 DEF TypeOK
<1>4. Types
  BY <1>1 DEF Types
<1>5. \A s \in Sockets : ~Live(s) /\ ~Waiting(s) /\ ~Owed(s)
  BY DEF Live, Waiting, Has, In, Owed
<1>6. Counted
  <2>1. Owing = {}
    BY <1>5 DEF Owing
  <2> QED
    BY <2>1, FS_EmptySet DEF Counted
<1>7. Stack /\ NoneForgotten
  BY <1>5 DEF Stack, NoneForgotten, Distinct
<1>8. \A s \in Sockets : Life(s)
  BY <1>5 DEF Life, Waiting
<1> QED
  BY <1>3, <1>4, <1>6, <1>7, <1>8 DEF Lives

\* So it always holds.
LEMMA LivesHold == Spec => []Lives
<1>1. Lives /\ [Next]_vars => Lives'
  BY LivesStep
<1> QED
  BY <1>1, LivesInit, PTL DEF Spec

\* A socket that lws will call back is pinned and not collected, the count of
\* connections that holds the loop is the number of them, and a runtime that ends
\* by itself has told every socket that it is closed (ws.c:278-321 and 469-470).
THEOREM LifetimesHold == Spec => []Lifetimes
<1>1. Lives => Lifetimes
  <2> SUFFICES ASSUME Lives PROVE Lifetimes
    OBVIOUS
  <2>1. TypeOK /\ NoneForgotten
    BY DEF Lives
  <2>2. OwedIsPinned
    BY OwedIs DEF Lives, Life, OwedIsPinned
  <2>3. RefsExact
    BY DEF Lives, Counted, Owing, RefsExact
  <2> QED
    BY <2>1, <2>2, <2>3 DEF Lifetimes
<1> QED
  BY <1>1, LivesHold, PTL

----------------------------------------------------------------------------
(* Events.                                                                 *)

\* An event more: the histories a socket can have.
LEMMA Appending ==
  ASSUME NEW e \in Seq(Happenings)
  PROVE  /\ e = <<>> => Opened(Append(e, "open")) /\ Append(e, "error") = <<"error">>
         /\ Opened(e) => /\ Opened(Append(e, "message"))
                         /\ Over(Append(e, "close")) /\ Append(e, "close")[1] = "open"
         /\ e = <<"error">> => Over(Append(e, "close")) /\ Append(e, "close")[1] = "error"
         /\ Append(e, "close") # <<>> /\ Append(e, "close")[Len(Append(e, "close"))] = "close"
         /\ Opened(e) => e # <<>> /\ e[Len(e)] # "close"
<1>1. ASSUME NEW h \in Happenings
      PROVE  /\ Append(e, h) \in Seq(Happenings) /\ Len(Append(e, h)) = Len(e) + 1
             /\ Append(e, h)[Len(e) + 1] = h /\ Append(e, h) # <<>>
             /\ DOMAIN Append(e, h) = 1 .. Len(e) + 1
             /\ \A i \in 1 .. Len(e) : Append(e, h)[i] = e[i]
  BY AppendProperties, LenProperties
<1>2. Len(e) \in Nat /\ DOMAIN e = 1 .. Len(e) /\ (e = <<>> <=> Len(e) = 0)
  BY LenProperties, EmptySeq
<1>3. {"open", "message", "error", "close"} \subseteq Happenings
  BY DEF Happenings
<1>4. e = <<>> => Opened(Append(e, "open"))
  BY <1>1, <1>2, <1>3 DEF Opened
<1>5. e = <<>> => Append(e, "error") = <<"error">>
  OBVIOUS
<1>6. Opened(e) => Opened(Append(e, "message"))
  BY <1>1, <1>2, <1>3 DEF Opened
<1>7. Opened(e) => Over(Append(e, "close")) /\ Append(e, "close")[1] = "open"
  <2> SUFFICES ASSUME Opened(e) PROVE Over(Append(e, "close")) /\ Append(e, "close")[1] = "open"
    OBVIOUS
  <2>1. Len(e) # 0 /\ e[1] = "open" /\ 1 \in 1 .. Len(e)
    BY <1>2 DEF Opened
  <2>2. \A i \in DOMAIN Append(e, "close") :
          Append(e, "close")[i] = IF i = Len(Append(e, "close")) THEN "close"
                                  ELSE IF i = 1 THEN "open" ELSE "message"
    BY <1>1, <1>2, <1>3 DEF Opened
  <2>3. Append(e, "close") # <<>> /\ Append(e, "close")[1] = "open"
    BY <1>1, <1>3, <2>1
  <2> QED
    BY <2>2, <2>3 DEF Over
<1>8. e = <<"error">> => Over(Append(e, "close")) /\ Append(e, "close")[1] = "error"
  <2> SUFFICES ASSUME e = <<"error">>
               PROVE  Over(Append(e, "close")) /\ Append(e, "close")[1] = "error"
    OBVIOUS
  <2>1. Append(e, "close") = <<"error", "close">>
    <3>1. /\ Append(e, "close") \in Seq(Happenings) /\ <<"error", "close">> \in Seq(Happenings)
          /\ Len(Append(e, "close")) = 2 /\ Len(<<"error", "close">>) = 2
          /\ Append(e, "close")[1] = "error" /\ Append(e, "close")[2] = "close"
      BY <1>1, <1>3
    <3>2. \A i \in 1 .. 2 : Append(e, "close")[i] = <<"error", "close">>[i]
      BY <3>1
    <3> QED
      BY <3>1, <3>2, SeqEqual
  <2>2. Over(Append(e, "close"))
    BY <2>1 DEF Over
  <2> QED
    BY <2>1, <2>2
<1>9. Append(e, "close") # <<>> /\ Append(e, "close")[Len(Append(e, "close"))] = "close"
  BY <1>1, <1>2, <1>3
<1>10. Opened(e) => e # <<>> /\ e[Len(e)] # "close"
  BY <1>2 DEF Opened
<1> QED
  BY <1>4, <1>5, <1>6, <1>7, <1>8, <1>9, <1>10

\* A stream that is over.
Ended(r) ==
  "pending" \notin {r.opened, r.closed} /\ "open" \notin {r.readable, r.writable}
Settles(s) == s \in Streaming /\ readyState[s] = "CLOSED" => Ended(stream[s])
Telling(s) == Heard(s) /\ Coded(s) /\ Settles(s)
EventsInv == Lives /\ \A s \in Sockets : Telling(s)

\* After the close event the stream is over, whatever it was before.
LEMMA CloseEnds ==
  ASSUME NEW r \in Streams PROVE Ended(HearClose(r))
<1>1. \A p, q : q # "pending" => Settle(p, q) # "pending"
  BY DEF Settle
<1>2. \A p, q : q # "open" => Stop(p, q) # "open"
  BY DEF Stop
<1>3. /\ HearClose(r).opened = Settle(r.opened, "rejected")
      /\ \E q \in {"resolved", "rejected"} : HearClose(r).closed = Settle(r.closed, q)
      /\ \E q \in {"closed", "errored"} : HearClose(r).readable = Stop(r.readable, q)
      /\ HearClose(r).writable = Stop(r.writable, "errored")
  BY DEF HearClose, Streams
<1> QED
  BY <1>1, <1>2, <1>3 DEF Ended

\* A socket that hears nothing.
LEMMA Told ==
  ASSUME NEW s \in Sockets, Telling(s), events'[s] = events[s],
         reported'[s] = reported[s] \/ readyState[s] # "CLOSED",
         wsi'[s] \in {wsi[s], "null"} \/ (wsi[s] = "open" /\ wsi'[s] = "echoing"),
         s \in jobs' => s \in jobs,
         \A kind : Has(kind, s)' => Has(kind, s),
         \/ readyState'[s] = readyState[s]
         \/ readyState[s] \notin {"none", "CLOSED"} /\ readyState'[s] \notin {"none", "CLOSED"},
         \/ close_code'[s] = close_code[s] /\ given'[s] = given[s]
         \/ /\ readyState[s] # "CLOSED"
            /\ \E code \in Codes : close_code'[s] = code /\ given'[s] = given[s] \cup {code},
         s \in Streaming /\ Ended(stream[s]) => Ended(stream'[s])
  PROVE  Telling(s)'
<1>1. Heard(s)'
  BY DEF Telling, Heard
<1>2. Coded(s)'
  BY WebSocketAssumption DEF Telling, Coded
<1>3. Settles(s)'
  BY DEF Telling, Settles
<1> QED
  BY <1>1, <1>2, <1>3 DEF Telling

\* One socket hears something.
LEMMA OneHears ==
  ASSUME EventsInv, NEW s \in Sockets, NEW event, NEW state, NEW r, Heeds(s, event, state, r),
         \A u \in Sockets : u # s =>
           /\ reported'[u] = reported[u] /\ wsi'[u] = wsi[u] /\ (u \in jobs' => u \in jobs)
           /\ \A kind : Has(kind, u)' => Has(kind, u),
         UNCHANGED <<close_code, given>>,
         Telling(s)'
  PROVE  \A u \in Sockets : Telling(u)'
<1> SUFFICES ASSUME NEW u \in Sockets, u # s PROVE Telling(u)'
  OBVIOUS
<1>1. events'[u] = events[u] /\ readyState'[u] = readyState[u]
      /\ (u \in Streaming => stream'[u] = stream[u])
  BY DEF Heeds
<1> QED
  BY <1>1, Told DEF EventsInv

\* Scripts and teardown dispatch nothing.
LEMMA ScriptTells ==
  ASSUME EventsInv, Scripts PROVE \A s \in Sockets : Telling(s)'
<1>a. TypeOK /\ Types /\ Lives /\ (\A s \in Sockets : Telling(s))
      /\ UNCHANGED <<todo, events, reported>>
  BY DEF EventsInv, Lives, Scripts, Connect, Abort, SendCall, StreamWrite, Close, EndHalf, Calling
<1>b. \A kind, u : Has(kind, u)' <=> Has(kind, u)
  BY <1>a DEF Has
<1>1. ASSUME NEW s \in Sockets, Connect(s) PROVE \A u \in Sockets : Telling(u)'
  <2>1. /\ readyState[s] = "none" /\ readyState'[s] = "CONNECTING"
        /\ \A u \in Sockets : u # s => readyState'[u] = readyState[u]
        /\ \A u \in Sockets : u # s => wsi'[u] = wsi[u] /\ (u \in jobs' => u \in jobs)
        /\ wsi'[s] \in {"connecting", wsi[s]}
        /\ UNCHANGED <<close_code, given, stream>>
    BY <1>1, <1>a DEF Connect, TypeOK
  <2>2. wsi[s] = "null" /\ \A kind \in Kinds : ~Has(kind, s)
    BY <1>a, <2>1 DEF Lives, Life, Live, Waiting, Kinds
  <2>3. events'[s] = <<>>
    BY <1>a, <2>1 DEF Telling, Heard
  <2>4. Heard(s)'
    BY <1>b, <2>1, <2>2, <2>3 DEF Heard, Kinds
  <2>5. Telling(s)'
    BY <1>a, <2>1, <2>4 DEF Telling, Coded, Settles
  <2>6. ASSUME NEW u \in Sockets, u # s PROVE Telling(u)'
    BY <1>a, <1>b, <2>1, <2>6, Told
  <2> QED
    BY <2>5, <2>6
<1>2. ASSUME NEW s \in Sockets, NEW code \in Codes, CloseSocket(s, code), UNCHANGED <<wsi, jobs>>,
             \A u \in Streaming : Ended(stream[u]) => Ended(stream'[u])
      PROVE  \A u \in Sockets : Telling(u)'
  <2>1. ASSUME NEW u \in Sockets PROVE Telling(u)'
    <3>1. /\ \/ readyState'[u] = readyState[u]
             \/ readyState[u] \notin {"none", "CLOSED"} /\ readyState'[u] \notin {"none", "CLOSED"}
          /\ \/ close_code'[u] = close_code[u] /\ given'[u] = given[u]
             \/ /\ readyState[u] # "CLOSED"
                /\ close_code'[u] = code /\ given'[u] = given[u] \cup {code}
      BY <1>2, <1>a, CloseShuts DEF Shuts, CanClose
    <3> QED
      BY <1>2, <1>a, <1>b, <3>1, Told
  <2> QED
    BY <2>1
<1>3. ASSUME UNCHANGED <<wsi, jobs, readyState, close_code, given>>,
             \A u \in Streaming : Ended(stream[u]) => Ended(stream'[u])
      PROVE  \A u \in Sockets : Telling(u)'
  BY <1>3, <1>a, <1>b, Told
<1>4. ASSUME NEW s \in Streaming, NEW how \in {"closed", "errored"},
             NEW half \in {"readable", "writable"}, stream' = [stream EXCEPT ![s][half] = how]
      PROVE  \A u \in Streaming : Ended(stream[u]) => Ended(stream'[u])
  BY <1>4, <1>a DEF TypeOK, Ended
<1>5. ASSUME NEW s \in Sockets, Abort(s) PROVE \A u \in Sockets : Telling(u)'
  <2>1. ASSUME NEW u \in Streaming, Ended(stream[u]) PROVE Ended(stream'[u])
    <3>1. /\ \A p : Settle(p, "rejected") = IF p = "pending" THEN "rejected" ELSE p
          /\ \A p : Stop(p, "errored") = IF p = "open" THEN "errored" ELSE p
      BY DEF Settle, Stop
    <3>2. stream'[u] = IF u = s THEN HearAbort(stream[u]) ELSE stream[u]
      BY <1>5, <1>a DEF Abort, TypeOK
    <3>3. stream[u] \in Streams
      BY <1>a DEF TypeOK, Streams
    <3>4. Ended(HearAbort(stream[u]))
      BY <2>1, <3>1, <3>3 DEF HearAbort, Ended, Streams
    <3> QED
      BY <2>1, <3>2, <3>4
  <2> QED
    BY <1>2, <1>5, <2>1, WebSocketAssumption DEF Abort
<1>6. ASSUME NEW s \in Sockets, NEW kind, SendCall(s, kind) PROVE \A u \in Sockets : Telling(u)'
  BY <1>3, <1>6 DEF SendCall
<1>7. ASSUME NEW s \in Sockets, NEW kind, StreamWrite(s, kind) PROVE \A u \in Sockets : Telling(u)'
  <2>1. /\ s \in Streaming
        /\ UNCHANGED stream \/ stream' = [stream EXCEPT ![s]["writable"] = "errored"]
        /\ UNCHANGED <<wsi, jobs, readyState, close_code, given>>
    BY <1>7 DEF StreamWrite
  <2> QED
    BY <1>3, <1>4, <2>1
<1>8. ASSUME NEW s \in Sockets, NEW code \in Codes, Close(s, code)
      PROVE  \A u \in Sockets : Telling(u)'
  BY <1>2, <1>8 DEF Close
<1>9. ASSUME NEW s \in Sockets, NEW code \in Codes, NEW half \in {"readable", "writable"},
             NEW how \in {"closed", "errored"}, EndHalf(s, half, how, code)
      PROVE  \A u \in Sockets : Telling(u)'
  <2>1. \A u \in Streaming : Ended(stream[u]) => Ended(stream'[u])
    BY <1>4, <1>9 DEF EndHalf
  <2> QED
    BY <1>2, <1>9, <2>1 DEF EndHalf
<1> QED
  BY <1>1, <1>5, <1>6, <1>7, <1>8, <1>9 DEF Scripts

\* Collector and teardown dispatch nothing, and lose no code.
LEMMA TeardownTells ==
  ASSUME EventsInv, Teardown PROVE \A s \in Sockets : Telling(s)'
<1>a. TypeOK /\ Stack /\ (\A s \in Sockets : Telling(s)) /\ (\A s \in Sockets : Life(s))
  BY DEF EventsInv, Lives
<1>1. ASSUME UNCHANGED <<wsi, readyState, stream, events, reported, close_code, jobs, todo, given>>
      PROVE  \A u \in Sockets : Telling(u)'
  BY <1>1, <1>a, Told DEF Has
<1>2. ASSUME NEW s \in Sockets, DestroyWsi(s) PROVE \A u \in Sockets : Telling(u)'
  <2>1. /\ phase # "running" /\ Live(s) /\ wsi' = [wsi EXCEPT ![s] = "null"]
        /\ UNCHANGED <<close_code, jobs, todo, given>>
        /\ \E code : EmitClose(s, code)
    BY <1>2 DEF DestroyWsi
  <2>2. s \in silenced /\ readyState[s] # "CLOSED"
    BY <1>a, <2>1 DEF Stack, Telling, Heard, Live, TypeOK, Life, Opened
  <2>3. UNCHANGED <<readyState, events, stream>>
    BY <2>1, <2>2 DEF EmitClose, Hear
  <2>4. \A u \in Sockets : /\ u # s => reported'[u] = reported[u]
                           /\ wsi'[u] \in {wsi[u], "null"}
    BY <1>a, <2>1 DEF EmitClose, TypeOK
  <2>5. \A kind, u : Has(kind, u)' <=> Has(kind, u)
    BY <2>1 DEF Has
  <2>6. ASSUME NEW u \in Sockets PROVE Telling(u)'
    <3>1. reported'[u] = reported[u] \/ readyState[u] # "CLOSED"
      BY <2>2, <2>4
    <3> QED
      BY <1>a, <2>1, <2>3, <2>4, <2>5, <3>1, Told
  <2> QED
    BY <2>6
<1>3. ASSUME NEW s \in Sockets, Collect(s) PROVE \A u \in Sockets : Telling(u)'
  BY <1>1, <1>3 DEF Collect, nativeVars, heardVars
<1>4. ASSUME NEW how, LoopReturns(how) PROVE \A u \in Sockets : Telling(u)'
  BY <1>1, <1>4 DEF LoopReturns, nativeVars, heardVars
<1> QED
  BY <1>2, <1>3, <1>4 DEF Teardown

\* What lws calls keeps the histories and the codes.
LEMMA LwsTells ==
  ASSUME EventsInv, Lws PROVE \A s \in Sockets : Telling(s)'
<1>a. /\ Lives /\ TypeOK /\ Types /\ Stack
      /\ \A s \in Sockets : Life(s) /\ Telling(s) /\ Heard(s) /\ Coded(s)
      /\ \A s \in Sockets : events[s] \in Seq(Happenings)
      /\ \A s \in Streaming : stream[s] \in Streams
  BY DEF EventsInv, Lives, Types, TypeOK, Telling, Streams
<1>s. Service => /\ phase = "running" /\ todo = <<>> /\ silenced = {} /\ jobs' = jobs
  BY <1>a DEF Service, teardownVars, Stack
<1>h. ASSUME UNCHANGED todo PROVE \A kind, u : Has(kind, u)' <=> Has(kind, u)
  BY <1>h DEF Has
<1>1. ASSUME NEW s \in Sockets, Established(s) PROVE \A u \in Sockets : Telling(u)'
  <2>1. /\ Service /\ wsi[s] = "connecting" /\ wsi' = [wsi EXCEPT ![s] = "open"]
        /\ Hear(s, "open", "OPEN", HearOpen(stream[s]))
        /\ UNCHANGED <<close_code, todo, given, reported>>
    BY <1>1 DEF Established
  <2>2. Heeds(s, "open", "OPEN", HearOpen(stream[s]))
    BY <1>a, <2>1, HearTyped, HearHeeds DEF Happenings, ReadyStates
  <2>3. events'[s] = Append(events[s], "open") /\ readyState'[s] = "OPEN"
    BY <1>s, <2>1, <2>2 DEF Heeds
  <2>4. wsi'[s] = "open" /\ \A u \in Sockets : u # s => wsi'[u] = wsi[u]
    BY <1>a, <2>1 DEF TypeOK
  <2>5. s \notin jobs /\ \A kind \in Kinds : ~Has(kind, s)
    BY <1>a, <2>1 DEF Life, Live, Waiting, Kinds
  <2>6. Opened(events'[s]) /\ events'[s] # <<>> /\ events'[s][Len(events'[s])] # "close"
    <3>1. events[s] = <<>>
      BY <1>a, <2>1 DEF Heard
    <3>2. events'[s] \in Seq(Happenings)
      BY <2>2 DEF Heeds
    <3> QED
      BY <1>a, <2>3, <3>1, <3>2, Appending
  <2>7. Heard(s)'
    BY <1>s, <1>h, <2>1, <2>3, <2>4, <2>5, <2>6 DEF Heard, Kinds
  <2>8. Telling(s)'
    BY <1>a, <2>1, <2>3, <2>7 DEF Telling, Coded, Settles
  <2> QED
    BY <1>h, <1>s, <2>1, <2>2, <2>4, <2>8, OneHears
<1>2. ASSUME NEW s \in Sockets, Receive(s) PROVE \A u \in Sockets : Telling(u)'
  <2>1. /\ Service /\ wsi[s] = "open" /\ Hear(s, "message", readyState[s], stream[s])
        /\ UNCHANGED <<wsi, close_code, todo, given, reported>>
    BY <1>2 DEF Receive
  <2>2. Heeds(s, "message", readyState[s], stream[s])
    BY <1>a, <2>1, HearHeeds DEF Happenings, ReadyStates, TypeOK
  <2>3. events'[s] = Append(events[s], "message") /\ readyState'[s] = readyState[s]
    BY <1>s, <2>1, <2>2 DEF Heeds
  <2>4. /\ s \notin jobs /\ readyState[s] # "none" /\ \A kind \in Kinds : ~Has(kind, s)
    BY <1>a, <2>1 DEF Life, Live, Waiting, Kinds
  <2>5. Opened(events[s]) /\ readyState[s] # "CLOSED"
    BY <1>a, <2>1, Appending DEF Heard
  <2>6. Opened(events'[s]) /\ events'[s] # <<>> /\ events'[s][Len(events'[s])] # "close"
    <3>1. events'[s] \in Seq(Happenings)
      BY <2>2 DEF Heeds
    <3> QED
      BY <1>a, <2>3, <2>5, <3>1, Appending
  <2>7. Heard(s)'
    BY <1>s, <1>h, <2>1, <2>3, <2>4, <2>5, <2>6 DEF Heard, Kinds
  <2>8. Telling(s)'
    BY <1>a, <2>1, <2>3, <2>5, <2>7 DEF Telling, Coded, Settles
  <2> QED
    BY <1>h, <1>s, <2>1, <2>2, <2>8, OneHears
<1>3. ASSUME NEW s \in Sockets, Writeable(s) PROVE \A u \in Sockets : Telling(u)'
  BY <1>3, <1>a, <1>h, <1>s, Told DEF Writeable, heardVars
<1>4. ASSUME NEW s \in Sockets, NEW code \in Codes \cup {0}, PeerClose(s, code)
      PROVE  \A u \in Sockets : Telling(u)'
  <2>1. /\ Service /\ wsi[s] = "open" /\ wsi' = [wsi EXCEPT ![s] = "echoing"]
        /\ close_code' = [close_code EXCEPT ![s] = IF code = 0 THEN @ ELSE code]
        /\ given' = [given EXCEPT ![s] = @ \cup ({code} \ {0})]
        /\ UNCHANGED <<readyState, stream, events, reported, todo>>
    BY <1>4 DEF PeerClose, heardVars
  <2>2. readyState[s] # "CLOSED"
    BY <1>a, <2>1, Appending DEF Heard
  <2>3. ASSUME NEW u \in Sockets PROVE Telling(u)'
    <3>1. wsi'[u] = wsi[u] \/ (wsi[u] = "open" /\ wsi'[u] = "echoing")
      BY <1>a, <2>1 DEF TypeOK
    <3>2. \/ close_code'[u] = close_code[u] /\ given'[u] = given[u]
          \/ /\ u = s /\ code \in Codes
             /\ close_code'[u] = code /\ given'[u] = given[u] \cup {code}
      <4>1. CASE u # s
        BY <1>a, <2>1, <4>1 DEF TypeOK, Types
      <4>2. CASE u = s /\ code = 0
        BY <1>a, <2>1, <4>2 DEF TypeOK, Types
      <4>3. CASE u = s /\ code # 0
        BY <1>a, <2>1, <4>3 DEF TypeOK, Types
      <4> QED
        BY <4>1, <4>2, <4>3
    <3> QED
      BY <1>a, <1>h, <1>s, <2>1, <2>2, <3>1, <3>2, Told
  <2> QED
    BY <2>3
<1>5. ASSUME NEW s \in Sockets, Closed(s) PROVE \A u \in Sockets : Telling(u)'
  <2>1. /\ Service /\ wsi[s] \in {"open", "echoing"} /\ wsi' = [wsi EXCEPT ![s] = "null"]
        /\ EmitClose(s, ReportCode(s)) /\ todo' = <<<<"release", s>>>>
        /\ UNCHANGED <<close_code, given>>
    BY <1>5 DEF Closed
  <2>2. ReportCode(s) \in Codes \cup {1005} /\ (ReportCode(s) = 1005 <=> close_code[s] = 0)
        /\ (ReportCode(s) # 1005 => ReportCode(s) = close_code[s])
    BY <1>a, Coding DEF ReportCode
  <2>3. /\ Heeds(s, "close", "CLOSED", HearClose(stream[s]))
        /\ \A u \in Sockets : reported'[u] = IF u = s THEN ReportCode(s) ELSE reported[u]
    BY <1>a, <2>1, <2>2, CloseHeeds
  <2>4. events'[s] = Append(events[s], "close") /\ readyState'[s] = "CLOSED"
        /\ (s \in Streaming => stream'[s] = HearClose(stream[s]))
    BY <1>s, <2>1, <2>3 DEF Heeds
  <2>5. wsi'[s] = "null" /\ \A u \in Sockets : u # s => wsi'[u] = wsi[u]
    BY <1>a, <2>1 DEF TypeOK
  <2>6. s \notin jobs /\ \A kind, u : Has(kind, u)' <=> kind = "release" /\ u = s
    BY <1>a, <1>s, <2>1, OneCallback DEF Life, Live
  <2>7. /\ Over(events'[s]) /\ events'[s][1] = "open"
        /\ events'[s] # <<>> /\ events'[s][Len(events'[s])] = "close"
    <3>1. Opened(events[s])
      BY <1>a, <2>1 DEF Heard
    <3> QED
      BY <1>a, <2>4, <3>1, Appending
  <2>8. Heard(s)'
    BY <1>s, <2>1, <2>4, <2>5, <2>6, <2>7 DEF Heard
  <2>9. Coded(s)'
    BY <1>a, <2>1, <2>2, <2>3, <2>7, WebSocketAssumption DEF Coded
  <2>10. Telling(s)'
    BY <1>a, <2>4, <2>8, <2>9, CloseEnds DEF Telling, Settles
  <2> QED
    BY <1>s, <2>1, <2>3, <2>5, <2>6, <2>10, OneHears
<1>6. ASSUME NEW s \in Sockets, EmitError(s), events[s] = <<>>, s \notin jobs',
             wsi'[s] = "null", readyState[s] # "none",
             Has("close", s)' \/ Has("abandon", s)', ~Has("release", s)',
             UNCHANGED <<close_code, given>>,
             \A u \in Sockets : u # s =>
               /\ wsi'[u] = wsi[u] /\ (u \in jobs' => u \in jobs)
               /\ \A kind : Has(kind, u)' => Has(kind, u),
             silenced = {}
      PROVE  \A u \in Sockets : Telling(u)'
  <2>1. /\ Heeds(s, "error", readyState[s], HearError(stream[s]))
        /\ reported' = reported
    BY <1>6, <1>a, ErrorHeeds
  <2>2. events'[s] = <<"error">> /\ readyState'[s] = readyState[s]
    BY <1>6, <1>a, <2>1, Appending DEF Heeds
  <2>3. readyState[s] # "CLOSED"
    BY <1>6, <1>a DEF Heard
  <2>4. Len(<<"error">>) = 1 /\ <<"error">>[1] = "error" /\ <<"error">> # <<>>
    OBVIOUS
  <2>5. Heard(s)'
    BY <1>6, <2>2, <2>3, <2>4 DEF Heard
  <2>6. Telling(s)'
    BY <1>6, <1>a, <2>2, <2>3, <2>5 DEF Telling, Coded, Settles
  <2> QED
    BY <1>6, <2>1, <2>6, OneHears
<1>7. ASSUME NEW s \in Sockets, ConnectionError(s) PROVE \A u \in Sockets : Telling(u)'
  <2>1. /\ Service /\ wsi[s] = "connecting" /\ wsi' = [wsi EXCEPT ![s] = "null"]
        /\ EmitError(s) /\ todo' = <<<<"close", s>>>>
        /\ UNCHANGED <<close_code, given>>
    BY <1>7 DEF ConnectionError
  <2>2. wsi'[s] = "null" /\ \A u \in Sockets : u # s => wsi'[u] = wsi[u]
    BY <1>a, <2>1 DEF TypeOK
  <2>3. events[s] = <<>> /\ s \notin jobs /\ readyState[s] # "none"
    BY <1>a, <2>1 DEF Heard, Life, Live
  <2>4. \A kind, u : Has(kind, u)' <=> kind = "close" /\ u = s
    BY <1>s, <2>1, OneCallback
  <2> QED
    BY <1>6, <1>s, <2>1, <2>2, <2>3, <2>4
<1>8. ASSUME NEW s \in Sockets, AbnormalClose(s) PROVE \A u \in Sockets : Telling(u)'
  <2>1. /\ phase = "running" /\ s \in jobs /\ jobs' = jobs \ {s} /\ EmitError(s)
        /\ UNCHANGED <<wsi, close_code, given>>
    BY <1>8 DEF AbnormalClose, nativeVars
  <2>2. /\ ~Live(s) /\ ~Waiting(s) /\ readyState[s] # "none"
        /\ \A kind, u : Has(kind, u)' <=> Has(kind, u) \/ (kind = "abandon" /\ u = s)
    BY <1>8, <1>a, JobCallback
  <2>3. events[s] = <<>> /\ wsi'[s] = "null" /\ silenced = {}
    BY <1>a, <2>1, <2>2 DEF Heard, Live, Stack
  <2>4. Has("abandon", s)' /\ ~Has("release", s)'
    BY <2>2 DEF Waiting
  <2> QED
    BY <1>6, <2>1, <2>2, <2>3, <2>4
<1>9. ASSUME NEW s \in Sockets, NEW m \in blobs[s], BlobRead(s, m)
      PROVE  \A u \in Sockets : Telling(u)'
  BY <1>9, <1>a, <1>h, Told DEF BlobRead, heardVars
<1>10. ASSUME CallbackEnd PROVE \A u \in Sockets : Telling(u)'
  <2>1. PICK k \in Kinds, s \in Sockets : Returns(k, s)
    BY <1>10, <1>a, Returning
  <2>2. /\ phase = "running" /\ jobs = {} /\ silenced = {}
        /\ UNCHANGED <<wsi, close_code, jobs, given>>
    BY <1>10, <1>a DEF CallbackEnd, Stack
  <2>3. CASE k = "release"
    BY <1>a, <2>1, <2>2, <2>3, Told DEF Returns, heardVars
  <2>4. CASE k # "release"
    <3>1. /\ Has(k, s) /\ \A kind : Has(kind, s) => kind = k
          /\ \A kind, u : Has(kind, u)' <=> (Has(kind, u) /\ u # s)
                                            \/ (k = "close" /\ kind = "release" /\ u = s)
          /\ EmitClose(s, 1006) /\ k \in {"close", "abandon"}
      BY <2>1, <2>4 DEF Returns, Kinds
    <3>2. /\ Heeds(s, "close", "CLOSED", HearClose(stream[s]))
          /\ \A u \in Sockets : reported'[u] = IF u = s THEN 1006 ELSE reported[u]
      BY <1>a, <3>1, CloseHeeds
    <3>3. events'[s] = Append(events[s], "close") /\ readyState'[s] = "CLOSED"
          /\ (s \in Streaming => stream'[s] = HearClose(stream[s]))
      BY <2>2, <3>2 DEF Heeds
    <3>4. events[s] = <<"error">> /\ wsi[s] = "null"
      BY <1>a, <3>1 DEF Heard, Life, Live, Waiting
    <3>5. /\ Over(events'[s]) /\ events'[s][1] = "error"
          /\ events'[s] # <<>> /\ events'[s][Len(events'[s])] = "close"
      BY <1>a, <3>3, <3>4, Appending
    <3>6. Heard(s)'
      BY <2>2, <3>1, <3>3, <3>4, <3>5 DEF Heard
    <3>7. Coded(s)'
      BY <1>a, <2>2, <3>2, <3>5 DEF Coded
    <3>8. Telling(s)'
      BY <1>a, <3>3, <3>6, <3>7, CloseEnds DEF Telling, Settles
    <3> QED
      BY <2>2, <3>1, <3>2, <3>8, OneHears
  <2> QED
    BY <2>3, <2>4
<1> QED
  BY <1>1, <1>2, <1>3, <1>4, <1>5, <1>7, <1>8, <1>9, <1>10 DEF Lws

\* The events of a socket come in order, its close code is true, and a stream whose
\* socket is closed is over, whatever close(), the peer, the handshake, a failure and
\* the teardown do meanwhile (ws.c:195-321 and 517-549, ws-stream.js:175-325).
THEOREM EventsHold == Spec => []EventsTrue
<1>1. Init => EventsInv
  <2> SUFFICES ASSUME Init PROVE EventsInv
    OBVIOUS
  <2>1. \A s \in Sockets : Telling(s)
    BY DEF Init, Telling, Heard, Coded, Settles, Has, In
  <2> QED
    BY <2>1, LivesInit DEF EventsInv
<1>2. EventsInv /\ [Next]_vars => EventsInv'
  <2> SUFFICES ASSUME EventsInv, [Next]_vars PROVE EventsInv'
    OBVIOUS
  <2>1. CASE Next
    BY <2>1, LivesStep, ScriptTells, LwsTells, TeardownTells DEF Next, EventsInv
  <2>2. CASE UNCHANGED vars
    <3>1. \A s \in Sockets : Telling(s)'
      BY <2>2, Told DEF EventsInv, vars, nativeVars, heardVars, Has
    <3> QED
      BY <3>1, LivesStep DEF EventsInv
  <2> QED
    BY <2>1, <2>2
<1>3. EventsInv => EventsTrue
  <2> SUFFICES ASSUME EventsInv PROVE EventsTrue
    OBVIOUS
  <2>1. \A s \in Sockets : Heard(s) /\ Coded(s) /\ Settles(s) /\ events[s] \in Seq(Happenings)
    BY DEF EventsInv, Telling, Lives, Types
  <2>2. EventsOrdered
    <3> SUFFICES ASSUME NEW s \in Sockets
                 PROVE  LET e == events[s] IN
                        /\ \A i \in DOMAIN e : /\ e[i] \in {"open", "error"} => i = 1
                                               /\ e[i] = "message" => e[1] = "open"
                                               /\ e[i] = "close" => i = Len(e)
                        /\ readyState[s] = "CLOSED" <=> e # <<>> /\ e[Len(e)] = "close"
      BY DEF EventsOrdered
    <3> DEFINE e == events[s]
    <3>1. e \in {<<>>, <<"error">>, <<"error", "close">>} \/ Opened(e) \/
          (e # <<>> /\ \A i \in DOMAIN e : e[i] = IF i = Len(e) THEN "close"
                                           ELSE IF i = 1 THEN "open" ELSE "message")
      BY <2>1 DEF Heard, Over
    <3>2. Len(e) \in Nat /\ DOMAIN e = 1 .. Len(e) /\ (e # <<>> => 1 \in DOMAIN e)
      BY <2>1, LenProperties, EmptySeq
    <3>3. \A i \in DOMAIN e : /\ e[i] \in {"open", "error"} => i = 1
                              /\ e[i] = "message" => e[1] = "open"
                              /\ e[i] = "close" => i = Len(e)
      <4>1. CASE e \in {<<>>, <<"error">>}
        BY <4>1
      <4>2. CASE e = <<"error", "close">>
        <5>1. Len(e) = 2 /\ e[1] = "error" /\ e[2] = "close"
          BY <4>2
        <5>2. \A i \in DOMAIN e : i \in {1, 2}
          BY <3>2, <5>1
        <5> QED
          BY <5>1, <5>2
      <4>3. CASE Opened(e)
        BY <3>2, <4>3 DEF Opened
      <4>4. CASE e # <<>> /\ \A i \in DOMAIN e : e[i] = IF i = Len(e) THEN "close"
                                                      ELSE IF i = 1 THEN "open" ELSE "message"
        <5> HIDE DEF e
        <5>1. e[1] = IF 1 = Len(e) THEN "close" ELSE "open"
          BY <3>2, <4>4
        <5> QED
          BY <3>2, <4>4, <5>1
      <4> QED
        BY <3>1, <4>1, <4>2, <4>3, <4>4
    <3> QED
      BY <2>1, <3>3 DEF Heard
  <2>3. CodeTruthful
    BY <2>1 DEF Coded, CodeTruthful
  <2>4. StreamSettled
    BY <2>1, Socketed DEF Settles, Ended, StreamSettled
  <2> QED
    BY <2>2, <2>3, <2>4 DEF EventsTrue
<1> QED
  BY <1>1, <1>2, <1>3, PTL DEF Spec

----------------------------------------------------------------------------
(* Messages.                                                               *)

\* Queueing and writing, on the two sequences as one.
LEMMA Requeue ==
  ASSUME NEW a \in Seq(Messages), NEW b \in Seq(Messages)
  PROVE  /\ a \o b \in Seq(Messages)
         /\ \A m \in Messages : a \o Append(b, m) = Append(a \o b, m)
         /\ b # <<>> => Append(a, Head(b)) \o Tail(b) = a \o b
<1>1. a \o b \in Seq(Messages)
  BY ConcatProperties
<1>2. ASSUME NEW m \in Messages PROVE a \o Append(b, m) = Append(a \o b, m)
  <2>1. <<m>> \in Seq(Messages)
    OBVIOUS
  <2>2. Append(b, m) = b \o <<m>> /\ Append(a \o b, m) = (a \o b) \o <<m>>
    BY <1>1, AppendIsConcat
  <2> QED
    BY <2>1, <2>2, ConcatAssociative
<1>3. ASSUME b # <<>> PROVE Append(a, Head(b)) \o Tail(b) = a \o b
  <2>1. Head(b) \in Messages /\ Tail(b) \in Seq(Messages) /\ <<Head(b)>> \in Seq(Messages)
    BY <1>3, HeadTailProperties
  <2>2. Append(a, Head(b)) = a \o <<Head(b)>>
    BY <2>1, AppendIsConcat
  <2>3. <<Head(b)>> \o Tail(b) = b
    <3> DEFINE r == <<Head(b)>> \o Tail(b)
    <3>1. /\ r \in Seq(Messages) /\ Len(r) = 1 + Len(Tail(b))
          /\ \A i \in 1 .. 1 + Len(Tail(b)) : r[i] = IF i <= 1 THEN <<Head(b)>>[i]
                                                     ELSE Tail(b)[i - 1]
      <4>1. Len(<<Head(b)>>) = 1
        OBVIOUS
      <4> QED
        BY <2>1, <4>1, ConcatProperties
    <3>2. /\ Len(b) \in Nat \ {0} /\ Len(Tail(b)) = Len(b) - 1 /\ Head(b) = b[1]
          /\ \A i \in 1 .. Len(Tail(b)) : Tail(b)[i] = b[i + 1]
      BY <1>3, HeadTailProperties, LenProperties, EmptySeq
    <3>3. <<Head(b)>>[1] = Head(b)
      OBVIOUS
    <3> HIDE DEF r
    <3>4. Len(r) = Len(b) /\ \A i \in 1 .. Len(r) : r[i] = b[i]
      <4>1. Len(r) = Len(b)
        BY <3>1, <3>2
      <4>2. ASSUME NEW i \in 1 .. Len(r) PROVE r[i] = b[i]
        <5>1. CASE i = 1
          BY <3>1, <3>2, <3>3, <4>1, <5>1
        <5>2. CASE i # 1
          <6>1. i - 1 \in 1 .. Len(Tail(b)) /\ r[i] = Tail(b)[i - 1]
            BY <3>1, <3>2, <4>1, <5>2
          <6>2. Tail(b)[i - 1] = b[(i - 1) + 1] /\ (i - 1) + 1 = i
            BY <3>2, <6>1
          <6> QED
            BY <6>1, <6>2
        <5> QED
          BY <5>1, <5>2
      <4> QED
        BY <4>1, <4>2
    <3> QED
      BY <3>1, <3>4, SeqEqual DEF r
  <2> QED
    BY <2>1, <2>2, <2>3, ConcatAssociative
<1> QED
  BY <1>1, <1>2, <1>3

\* What a call, a Blob and its bytes do to the order.
LEMMA Ordering ==
  ASSUME NEW q \in Seq(Messages), NEW c \in SUBSET Messages, NEW n \in Nat, Ordered(q, c, n)
  PROVE  /\ \A k \in Nat : n <= k => Ordered(q, c, k)
         /\ Ordered(Append(q, <<n, "text">>), c, n + 1)
         /\ Ordered(q, c \cup {<<n, "blob">>}, n + 1)
         /\ \A m \in c : Ordered(Append(q, m), c \ {m}, n)
<1>1. \A m \in Messages : m[1] \in Nat /\ m[2] \in {"text", "blob"}
  BY DEF Messages
<1>2. /\ \A i \in DOMAIN q : q[i] \in Messages /\ q[i][1] \in Nat
      /\ \A m \in c : m \in Messages /\ m[1] \in Nat
      /\ Len(q) \in Nat /\ DOMAIN q = 1 .. Len(q)
  BY <1>1, LenProperties, ElementOfSeq
<1>3. /\ \A m \in c : m[1] < n /\ m[2] = "blob"
      /\ \A i \in DOMAIN q : q[i][1] < n /\ q[i] \notin c
      /\ \A i, j \in DOMAIN q :
           i < j => q[i] # q[j] /\ (q[i][2] = "text" /\ q[j][2] = "text" => q[i][1] < q[j][1])
  BY DEF Ordered
<1>4. \A k \in Nat : n <= k => Ordered(q, c, k)
  <2> SUFFICES ASSUME NEW k \in Nat, n <= k PROVE Ordered(q, c, k)
    OBVIOUS
  <2>1. \A m \in c : m[1] < k
    BY <1>2, <1>3
  <2>2. \A i \in DOMAIN q : q[i][1] < k
    BY <1>2, <1>3
  <2> QED
    BY <1>3, <2>1, <2>2 DEF Ordered
<1>5. ASSUME NEW m \in Messages, \A i \in DOMAIN q : q[i] # m,
             m[2] = "text" => \A i \in DOMAIN q : q[i][1] < m[1]
      PROVE  /\ DOMAIN Append(q, m) = 1 .. Len(q) + 1
             /\ \A i \in DOMAIN Append(q, m) : Append(q, m)[i] = m
                  \/ (i \in DOMAIN q /\ Append(q, m)[i] = q[i])
             /\ \A i, j \in DOMAIN Append(q, m) :
                  i < j => /\ Append(q, m)[i] # Append(q, m)[j]
                           /\ Append(q, m)[i][2] = "text" /\ Append(q, m)[j][2] = "text"
                              => Append(q, m)[i][1] < Append(q, m)[j][1]
  <2> DEFINE r == Append(q, m)
  <2>1. /\ r \in Seq(Messages) /\ Len(r) = Len(q) + 1 /\ DOMAIN r = 1 .. Len(q) + 1
        /\ r[Len(q) + 1] = m /\ \A i \in 1 .. Len(q) : r[i] = q[i]
    BY AppendProperties, LenProperties
  <2> HIDE DEF r
  <2>2. \A i \in DOMAIN r : (i = Len(q) + 1 /\ r[i] = m) \/ (i \in DOMAIN q /\ r[i] = q[i])
    BY <1>2, <2>1
  <2>3. ASSUME NEW i \in DOMAIN r, NEW j \in DOMAIN r, i < j
        PROVE  r[i] # r[j] /\ (r[i][2] = "text" /\ r[j][2] = "text" => r[i][1] < r[j][1])
    <3>1. i \in DOMAIN q /\ r[i] = q[i]
      BY <1>2, <2>1, <2>3
    <3>2. CASE j \in DOMAIN q /\ r[j] = q[j]
      BY <1>3, <2>3, <3>1, <3>2
    <3>3. CASE r[j] = m
      BY <1>5, <3>1, <3>3
    <3> QED
      BY <2>2, <3>2, <3>3
  <2> QED
    BY <2>1, <2>2, <2>3 DEF r
<1>6. Ordered(Append(q, <<n, "text">>), c, n + 1)
  <2> DEFINE m == <<n, "text">>
  <2>1. m \in Messages /\ m[1] = n /\ m[2] = "text"
    BY DEF Messages
  <2>2. \A i \in DOMAIN q : q[i] # m /\ q[i][1] < m[1]
    BY <1>2, <1>3, <2>1
  <2>3. m \notin c
    BY <1>3, <2>1
  <2>4. \A k \in Nat : k < n => k < n + 1
    OBVIOUS
  <2> HIDE DEF m
  <2>5. \A x \in c : x[1] < n + 1 /\ x[2] = "blob"
    BY <1>2, <1>3, <2>4
  <2>6. \A i \in DOMAIN Append(q, m) : Append(q, m)[i][1] < n + 1 /\ Append(q, m)[i] \notin c
    <3> SUFFICES ASSUME NEW i \in DOMAIN Append(q, m)
                 PROVE  Append(q, m)[i][1] < n + 1 /\ Append(q, m)[i] \notin c
      OBVIOUS
    <3>1. CASE Append(q, m)[i] = m
      BY <2>1, <2>3, <3>1
    <3>2. CASE i \in DOMAIN q /\ Append(q, m)[i] = q[i]
      BY <1>2, <1>3, <2>4, <3>2
    <3> QED
      BY <1>5, <2>1, <2>2, <3>1, <3>2
  <2>7. \A i, j \in DOMAIN Append(q, m) :
          i < j => /\ Append(q, m)[i] # Append(q, m)[j]
                   /\ Append(q, m)[i][2] = "text" /\ Append(q, m)[j][2] = "text"
                      => Append(q, m)[i][1] < Append(q, m)[j][1]
    BY <1>5, <2>1, <2>2
  <2>8. Ordered(Append(q, m), c, n + 1)
    BY <2>5, <2>6, <2>7 DEF Ordered
  <2> QED
    BY <2>8 DEF m
<1>7. Ordered(q, c \cup {<<n, "blob">>}, n + 1)
  <2> DEFINE m == <<n, "blob">>
  <2>1. m[1] = n /\ m[2] = "blob"
    OBVIOUS
  <2> HIDE DEF m
  <2>2. \A k \in Nat : k < n => k < n + 1 /\ k # n
    OBVIOUS
  <2>3. \A x \in c \cup {m} : x[1] < n + 1 /\ x[2] = "blob"
    BY <1>2, <1>3, <2>1, <2>2
  <2>4. \A i \in DOMAIN q : q[i][1] < n + 1 /\ q[i] # m
    BY <1>2, <1>3, <2>1, <2>2
  <2>5. \A i \in DOMAIN q : q[i][1] < n + 1 /\ q[i] \notin c \cup {m}
    BY <1>3, <2>4
  <2> QED
    BY <1>3, <2>3, <2>5 DEF Ordered, m
<1>8. ASSUME NEW m \in c PROVE Ordered(Append(q, m), c \ {m}, n)
  <2>1. m \in Messages /\ m[1] < n /\ m[2] # "text" /\ \A i \in DOMAIN q : q[i] # m
    BY <1>2, <1>3
  <2>2. \A i \in DOMAIN Append(q, m) : Append(q, m)[i][1] < n /\ Append(q, m)[i] \notin c \ {m}
    <3> SUFFICES ASSUME NEW i \in DOMAIN Append(q, m)
                 PROVE  Append(q, m)[i][1] < n /\ Append(q, m)[i] \notin c \ {m}
      OBVIOUS
    <3>1. CASE Append(q, m)[i] = m
      BY <2>1, <3>1
    <3>2. CASE i \in DOMAIN q /\ Append(q, m)[i] = q[i]
      BY <1>3, <3>2
    <3> QED
      BY <1>5, <2>1, <3>1, <3>2
  <2>3. \A i, j \in DOMAIN Append(q, m) :
          i < j => /\ Append(q, m)[i] # Append(q, m)[j]
                   /\ Append(q, m)[i][2] = "text" /\ Append(q, m)[j][2] = "text"
                      => Append(q, m)[i][1] < Append(q, m)[j][1]
    BY <1>5, <2>1
  <2> QED
    BY <1>3, <2>2, <2>3 DEF Ordered
<1> QED
  BY <1>4, <1>6, <1>7, <1>8

MessagesInv == Lives /\ \A s \in Sockets : Kept(s)

\* What is queued, after a message is queued or written.
LEMMA QueuedIs ==
  ASSUME Types, NEW s \in Sockets
  PROVE  /\ Queued(s) \in Seq(Messages)
         /\ \A m \in Messages : sent'[s] = sent[s] /\ pending'[s] = Append(pending[s], m)
                             => Queued(s)' = Append(Queued(s), m)
         /\ pending[s] # <<>> /\ sent'[s] = Append(sent[s], Head(pending[s]))
              /\ pending'[s] = Tail(pending[s]) => Queued(s)' = Queued(s)
<1>1. pending[s] \in Seq(Messages) /\ sent[s] \in Seq(Messages)
  BY DEF Types
<1>2. Queued(s) = sent[s] \o pending[s] /\ Queued(s)' = sent'[s] \o pending'[s]
  BY DEF Queued
<1>3. ASSUME NEW m \in Messages
      PROVE  sent[s] \o Append(pending[s], m) = Append(sent[s] \o pending[s], m)
  BY <1>1, Requeue
<1>4. pending[s] # <<>>
        => Append(sent[s], Head(pending[s])) \o Tail(pending[s]) = sent[s] \o pending[s]
  BY <1>1, Requeue
<1>5. sent[s] \o pending[s] \in Seq(Messages)
  BY <1>1, Requeue
<1> QED
  BY <1>2, <1>3, <1>4, <1>5

\* A socket whose messages stay where they are.
LEMMA KeptSame ==
  ASSUME Types, NEW s \in Sockets, Kept(s), UNCHANGED <<pending[s], sent[s], blobs[s]>>,
         s \in wanted /\ Live(s)' => s \in wanted' \/ pending[s] = <<>>,
         Live(s)' => Live(s) \/ pending[s] = <<>>,
         readyState'[s] = "none" => readyState[s] = "none",
         calls' \in {calls, calls + 1}
  PROVE  Kept(s)'
<1>1. Queued(s)' = Queued(s) /\ Queued(s) \in Seq(Messages) /\ blobs[s] \in SUBSET Messages
  BY Requeue DEF Types, Queued
<1>2. calls \in Nat /\ calls + 1 \in Nat /\ calls <= calls + 1 /\ calls <= calls
  BY DEF Types
<1>3. Ordered(Queued(s), blobs[s], calls')
  BY <1>1, <1>2, Ordering DEF Kept
<1> QED
  BY <1>1, <1>3 DEF Kept

\* What scripts call keeps the messages.
LEMMA ScriptKeeps ==
  ASSUME MessagesInv, Scripts PROVE \A s \in Sockets : Kept(s)'
<1>a. /\ Lives /\ TypeOK /\ Types /\ (\A s \in Sockets : Kept(s)) /\ calls \in Nat
      /\ calls' = calls + 1 /\ UNCHANGED sent
      /\ \A s \in Sockets : /\ pending[s] \in Seq(Messages) /\ sent[s] \in Seq(Messages)
                            /\ blobs[s] \in SUBSET Messages
  BY DEF MessagesInv, Lives, Types, Scripts, Connect, Abort, SendCall, StreamWrite, Close,
         EndHalf, Calling
<1>1. ASSUME NEW s \in Sockets, Connect(s) PROVE \A u \in Sockets : Kept(u)'
  <2>1. /\ readyState[s] = "none" /\ readyState'[s] = "CONNECTING"
        /\ \A u \in Sockets : u # s => readyState'[u] = readyState[u] /\ wsi'[u] = wsi[u]
        /\ UNCHANGED <<pending, wanted, blobs>>
    BY <1>1, <1>a DEF Connect, TypeOK
  <2>2. pending[s] = <<>>
    BY <1>a, <2>1 DEF Kept
  <2>3. Kept(s)'
    BY <1>a, <2>1, <2>2, KeptSame
  <2>4. ASSUME NEW u \in Sockets, u # s PROVE Kept(u)'
    BY <1>a, <2>1, <2>4, KeptSame DEF Live
  <2> QED
    BY <2>3, <2>4
<1>2. ASSUME NEW s \in Sockets, NEW code \in Codes, CloseSocket(s, code),
             UNCHANGED <<wsi, pending, blobs>>
      PROVE  \A u \in Sockets : Kept(u)'
  <2>1. /\ wanted \subseteq wanted'
        /\ \A u \in Sockets : readyState'[u] = "none" => readyState[u] = "none"
    BY <1>2, <1>a, CloseShuts DEF Shuts, CanClose
  <2> QED
    BY <1>2, <1>a, <2>1, KeptSame DEF Live
<1>3. ASSUME NEW s \in Sockets, NEW kind \in {"text", "blob"}, Send(s, kind),
             UNCHANGED <<wsi, readyState>>
      PROVE  \A u \in Sockets : Kept(u)'
  <2>1. Sends(s, kind) /\ readyState[s] = "OPEN" /\ \A u \in Sockets : Live(u)' <=> Live(u)
    BY <1>3, <1>a, Sending DEF Send, Live
  <2>2. ASSUME NEW u \in Sockets, UNCHANGED <<pending[u], blobs[u]>> PROVE Kept(u)'
    BY <1>3, <1>a, <2>1, <2>2, KeptSame DEF Sends
  <2>3. Queued(s) \in Seq(Messages) /\ Ordered(Queued(s), blobs[s], calls)
    BY <1>a, Requeue DEF Queued, Kept
  <2>4. ASSUME kind = "text", blobs'[s] = blobs[s], Live(s) => s \in wanted',
               pending'[s] = Append(pending[s], <<calls, "text">>)
        PROVE  Kept(s)'
    <3>1. <<calls, "text">> \in Messages
      BY <1>a DEF Messages
    <3>2. Queued(s)' = Append(Queued(s), <<calls, "text">>)
      BY <1>a, <2>4, <3>1, QueuedIs
    <3>3. Ordered(Queued(s)', blobs[s], calls + 1)
      BY <1>a, <2>3, <3>2, Ordering
    <3> QED
      BY <1>3, <1>a, <2>1, <2>4, <3>3 DEF Kept
  <2>5. ASSUME pending'[s] = pending[s], blobs'[s] = blobs[s] \cup {<<calls, "blob">>}
        PROVE  Kept(s)'
    <3>1. Queued(s)' = Queued(s)
      BY <1>a, <2>5 DEF Queued
    <3>2. Ordered(Queued(s)', blobs'[s], calls + 1)
      BY <1>a, <2>3, <2>5, <3>1, Ordering
    <3> QED
      BY <1>3, <1>a, <2>1, <2>5, <3>2 DEF Kept, Sends
  <2> QED
    BY <2>1, <2>2, <2>4, <2>5 DEF Sends
<1>4. ASSUME UNCHANGED <<wsi, readyState, pending, wanted, blobs>>
      PROVE  \A u \in Sockets : Kept(u)'
  BY <1>4, <1>a, KeptSame DEF Live
<1> QED
  BY <1>1, <1>2, <1>3, <1>4, WebSocketAssumption
     DEF Scripts, Abort, SendCall, StreamWrite, Close, EndHalf

\* What lws calls keeps them.
LEMMA LwsKeeps ==
  ASSUME MessagesInv, Lws PROVE \A s \in Sockets : Kept(s)'
<1>a. /\ Lives /\ TypeOK /\ Types /\ Stack /\ (\A s \in Sockets : Kept(s) /\ Life(s))
      /\ calls \in Nat
      /\ \A s \in Sockets : /\ pending[s] \in Seq(Messages) /\ sent[s] \in Seq(Messages)
                            /\ blobs[s] \in SUBSET Messages
  BY DEF MessagesInv, Lives, Types
<1>1. ASSUME UNCHANGED <<pending, sent, blobs, wanted, calls>>,
             \A u \in Sockets : /\ Live(u)' => Live(u)
                                /\ readyState'[u] = "none" => readyState[u] = "none"
      PROVE  \A u \in Sockets : Kept(u)'
  BY <1>1, <1>a, KeptSame
<1>2. ASSUME NEW s \in Sockets, NEW event \in Happenings, NEW state \in ReadyStates \ {"none"},
             NEW r, s \in Streaming => r \in Streams, Hear(s, event, state, r)
      PROVE  \A u \in Sockets : readyState'[u] = "none" => readyState[u] = "none"
  BY <1>2, <1>a, HearHeeds DEF Heeds
<1>3. ASSUME NEW s \in Sockets, EmitError(s)
      PROVE  \A u \in Sockets : readyState'[u] = "none" => readyState[u] = "none"
  BY <1>3, <1>a, ErrorHeeds DEF Heeds
<1>4. ASSUME NEW s \in Sockets, NEW code \in Codes \cup {0, 1005, 1006}, EmitClose(s, code)
      PROVE  \A u \in Sockets : readyState'[u] = "none" => readyState[u] = "none"
  BY <1>4, <1>a, CloseHeeds DEF Heeds
<1>5. ASSUME NEW s \in Sockets, Live(s), NEW w, wsi' = [wsi EXCEPT ![s] = w]
      PROVE  \A u \in Sockets : Live(u)' => Live(u)
  BY <1>5, <1>a DEF Live, TypeOK
<1>6. ASSUME NEW s \in Sockets, Established(s) PROVE \A u \in Sockets : Kept(u)'
  <2>1. s \in Streaming => HearOpen(stream[s]) \in Streams
    BY <1>a, HearTyped DEF TypeOK, Streams
  <2>2. /\ Live(s) /\ wsi' = [wsi EXCEPT ![s] = "open"]
        /\ Hear(s, "open", "OPEN", HearOpen(stream[s]))
        /\ UNCHANGED <<pending, sent, blobs, wanted, calls>>
    BY <1>6 DEF Established, Service, Live
  <2> QED
    BY <1>1, <1>2, <1>5, <2>1, <2>2 DEF Happenings, ReadyStates
<1>7. ASSUME NEW s \in Sockets, Receive(s) PROVE \A u \in Sockets : Kept(u)'
  <2>1. /\ Live(s) /\ Hear(s, "message", readyState[s], stream[s])
        /\ UNCHANGED <<wsi, pending, sent, blobs, wanted, calls>>
    BY <1>7 DEF Receive, Service, Live
  <2>2. readyState[s] \in ReadyStates \ {"none"} /\ (s \in Streaming => stream[s] \in Streams)
    BY <1>a, <2>1 DEF TypeOK, ReadyStates, Streams, Life
  <2> QED
    BY <1>1, <1>2, <2>1, <2>2 DEF Happenings, Live
<1>8. ASSUME NEW s \in Sockets, Writeable(s) PROVE \A u \in Sockets : Kept(u)'
  <2>1. /\ wanted' = WantMore(s) /\ UNCHANGED <<wsi, readyState, blobs, calls>>
        /\ IF pending[s] = <<>> THEN UNCHANGED <<pending, sent>>
           ELSE /\ sent' = [sent EXCEPT ![s] = Append(@, Head(pending[s]))]
                /\ pending' = [pending EXCEPT ![s] = Tail(@)]
    BY <1>8 DEF Writeable, Service, heardVars
  <2>2. \A u \in Sockets : Live(u)' <=> Live(u)
    BY <2>1 DEF Live
  <2>3. \A u \in Sockets : u # s => (u \in wanted => u \in wanted')
    BY <2>1 DEF WantMore
  <2>4. ASSUME NEW u \in Sockets, u # s PROVE Kept(u)'
    <3>1. UNCHANGED <<pending[u], sent[u], blobs[u]>>
      BY <1>a, <2>1, <2>4 DEF Types
    <3> QED
      BY <1>a, <2>1, <2>2, <2>3, <2>4, <3>1, KeptSame
  <2>5. ASSUME pending[s] = <<>> PROVE Kept(s)'
    <3>1. UNCHANGED <<pending[s], sent[s], blobs[s]>>
      BY <2>1, <2>5
    <3> QED
      BY <1>a, <2>1, <2>2, <2>5, <3>1, KeptSame
  <2>6. ASSUME pending[s] # <<>> PROVE Kept(s)'
    <3>1. sent'[s] = Append(sent[s], Head(pending[s])) /\ pending'[s] = Tail(pending[s])
      BY <1>a, <2>1, <2>6 DEF Types
    <3>2. Queued(s)' = Queued(s)
      BY <1>a, <2>6, <3>1, QueuedIs
    <3>3. pending'[s] # <<>> /\ s \in wanted => s \in wanted'
      <4>1. Tail(pending[s]) # <<>> => Len(pending[s]) > 1
        <5>1. /\ Len(Tail(pending[s])) = Len(pending[s]) - 1 /\ Len(pending[s]) \in Nat \ {0}
              /\ Tail(pending[s]) \in Seq(Messages)
          BY <1>a, <2>6, HeadTailProperties, LenProperties, EmptySeq
        <5>2. Tail(pending[s]) # <<>> => Len(Tail(pending[s])) # 0
          BY <5>1, EmptySeq
        <5> QED
          BY <5>1, <5>2
      <4> QED
        BY <2>1, <3>1, <4>1 DEF WantMore
    <3>4. readyState[s] # "none"
      BY <1>a, <2>6 DEF Kept
    <3> QED
      BY <1>a, <2>1, <2>2, <2>6, <3>2, <3>3, <3>4 DEF Kept
  <2> QED
    BY <2>4, <2>5, <2>6
<1>9. ASSUME NEW s \in Sockets, NEW code, PeerClose(s, code) PROVE \A u \in Sockets : Kept(u)'
  <2>1. /\ Live(s) /\ wsi' = [wsi EXCEPT ![s] = "echoing"]
        /\ UNCHANGED <<readyState, pending, sent, blobs, wanted, calls>>
    BY <1>9 DEF PeerClose, Service, Live, heardVars
  <2> QED
    BY <1>1, <1>5, <2>1
<1>10. ASSUME NEW s \in Sockets, Closed(s) PROVE \A u \in Sockets : Kept(u)'
  <2>1. /\ Live(s) /\ wsi' = [wsi EXCEPT ![s] = "null"] /\ EmitClose(s, ReportCode(s))
        /\ UNCHANGED <<pending, sent, blobs, wanted, calls>>
    BY <1>10 DEF Closed, Service, Live
  <2>2. ReportCode(s) \in Codes \cup {0, 1005, 1006}
    BY <1>a, Coding
  <2>3. \A u \in Sockets : readyState'[u] = "none" => readyState[u] = "none"
    BY <1>4, <2>1, <2>2
  <2>4. \A u \in Sockets : Live(u)' => Live(u)
    BY <1>5, <2>1
  <2> QED
    BY <1>1, <2>1, <2>3, <2>4
<1>11. ASSUME NEW s \in Sockets, ConnectionError(s) PROVE \A u \in Sockets : Kept(u)'
  <2>1. /\ Live(s) /\ wsi' = [wsi EXCEPT ![s] = "null"] /\ EmitError(s)
        /\ UNCHANGED <<pending, sent, blobs, wanted, calls>>
    BY <1>11 DEF ConnectionError, Service, Live
  <2> QED
    BY <1>1, <1>3, <1>5, <2>1
<1>12. ASSUME NEW s \in Sockets, AbnormalClose(s) PROVE \A u \in Sockets : Kept(u)'
  <2>1. EmitError(s) /\ UNCHANGED <<wsi, pending, sent, blobs, wanted, calls>>
    BY <1>12 DEF AbnormalClose, nativeVars
  <2> QED
    BY <1>1, <1>3, <2>1 DEF Live
<1>13. ASSUME NEW s \in Sockets, NEW m \in blobs[s], BlobRead(s, m)
       PROVE  \A u \in Sockets : Kept(u)'
  <2>1. /\ blobs' = [blobs EXCEPT ![s] = @ \ {m}] /\ QueueWrite(s, m)
        /\ UNCHANGED <<wsi, readyState, sent, calls>>
    BY <1>13 DEF BlobRead, heardVars
  <2>2. m \in Messages
    BY <1>13, <1>a
  <2>3. /\ \A u \in Sockets : pending'[u] = IF u = s THEN Append(pending[u], m) ELSE pending[u]
        /\ wanted \subseteq wanted' /\ (Live(s) => s \in wanted')
    BY <1>a, <2>1, <2>2, Queueing
  <2>4. blobs'[s] = blobs[s] \ {m} /\ \A u \in Sockets : u # s => blobs'[u] = blobs[u]
    BY <1>a, <2>1 DEF Types
  <2>5. \A u \in Sockets : Live(u)' <=> Live(u)
    BY <2>1 DEF Live
  <2>6. ASSUME NEW u \in Sockets, u # s PROVE Kept(u)'
    BY <1>a, <2>1, <2>3, <2>4, <2>5, <2>6, KeptSame
  <2>7. Kept(s)'
    <3>1. Queued(s)' = Append(Queued(s), m) /\ Queued(s) \in Seq(Messages)
      BY <1>a, <2>1, <2>2, <2>3, QueuedIs
    <3>2. Ordered(Append(Queued(s), m), blobs[s] \ {m}, calls)
      <4>1. Ordered(Queued(s), blobs[s], calls)
        BY <1>a DEF Kept
      <4> QED
        BY <1>13, <1>a, <3>1, <4>1, Ordering
    <3>3. readyState'[s] # "none"
      BY <1>13, <1>a, <2>1 DEF Kept
    <3> QED
      BY <2>1, <2>3, <2>4, <2>5, <3>1, <3>2, <3>3 DEF Kept
  <2> QED
    BY <2>6, <2>7
<1>14. ASSUME CallbackEnd PROVE \A u \in Sockets : Kept(u)'
  <2>1. PICK k \in Kinds, s \in Sockets : Returns(k, s)
    BY <1>14, <1>a, Returning
  <2>2. UNCHANGED <<wsi, pending, sent, blobs, wanted, calls>>
    BY <1>14 DEF CallbackEnd
  <2>3. \A u \in Sockets : readyState'[u] = "none" => readyState[u] = "none"
    BY <1>4, <2>1 DEF Returns, heardVars
  <2> QED
    BY <1>1, <2>2, <2>3 DEF Live
<1> QED
  BY <1>6, <1>7, <1>8, <1>9, <1>10, <1>11, <1>12, <1>13, <1>14 DEF Lws

\* Collector and teardown keep them.
LEMMA TeardownKeeps ==
  ASSUME MessagesInv, Teardown PROVE \A s \in Sockets : Kept(s)'
<1>a. TypeOK /\ Types /\ Stack /\ (\A s \in Sockets : Kept(s))
  BY DEF MessagesInv, Lives
<1>1. ASSUME NEW s \in Sockets, DestroyWsi(s) PROVE \A u \in Sockets : Kept(u)'
  <2>1. /\ wsi' = [wsi EXCEPT ![s] = "null"] /\ phase # "running" /\ Live(s)
        /\ UNCHANGED <<pending, wanted, blobs, sent, calls>>
        /\ \E code : EmitClose(s, code)
    BY <1>1 DEF DestroyWsi
  <2>2. UNCHANGED readyState
    BY <1>a, <2>1 DEF Stack, EmitClose, Hear
  <2>3. \A u \in Sockets : Live(u)' => Live(u)
    BY <1>a, <2>1 DEF Live, TypeOK
  <2> QED
    BY <1>a, <2>1, <2>2, <2>3, KeptSame
<1>2. ASSUME NEW s \in Sockets, Collect(s) PROVE \A u \in Sockets : Kept(u)'
  BY <1>2, <1>a, KeptSame DEF Collect, Live, nativeVars, heardVars
<1>3. ASSUME NEW how, LoopReturns(how) PROVE \A u \in Sockets : Kept(u)'
  BY <1>3, <1>a, KeptSame DEF LoopReturns, Live, nativeVars, heardVars
<1> QED
  BY <1>1, <1>2, <1>3 DEF Teardown

\* No message waits on an open connection that lws was not asked to write to, texts are
\* written in the order of the calls, and nothing is written twice, however late the
\* bytes of a Blob come (ws.c:228-261 and 504-515, ws.js:200-220).
THEOREM MessagesHold == Spec => []MessagesKept
<1>1. Init => MessagesInv
  <2> SUFFICES ASSUME Init PROVE MessagesInv
    OBVIOUS
  <2>1. ASSUME NEW s \in Sockets PROVE Kept(s)
    <3>1. pending[s] = <<>> /\ sent[s] = <<>> /\ blobs[s] = {}
      BY DEF Init
    <3>2. Queued(s) = <<>>
      <4>1. <<>> \in Seq(Messages)
        BY EmptySeq
      <4> QED
        BY <3>1, <4>1, ConcatEmptySeq DEF Queued
    <3> QED
      BY <3>1, <3>2 DEF Kept, Ordered
  <2> QED
    BY <2>1, LivesInit DEF MessagesInv
<1>2. MessagesInv /\ [Next]_vars => MessagesInv'
  <2> SUFFICES ASSUME MessagesInv, [Next]_vars PROVE MessagesInv'
    OBVIOUS
  <2>1. CASE Next
    BY <2>1, LivesStep, ScriptKeeps, LwsKeeps, TeardownKeeps DEF Next, MessagesInv
  <2>2. CASE UNCHANGED vars
    <3>1. \A s \in Sockets : Kept(s)'
      BY <2>2, KeptSame DEF MessagesInv, Lives, vars, nativeVars, heardVars, Live
    <3> QED
      BY <3>1, LivesStep DEF MessagesInv
  <2> QED
    BY <2>1, <2>2
<1>3. MessagesInv => MessagesKept
  <2> SUFFICES ASSUME MessagesInv PROVE MessagesKept
    OBVIOUS
  <2>1. WriteWanted
    BY DEF MessagesInv, Kept, Live, WriteWanted
  <2>2. SentInOrder
    BY DEF MessagesInv, Kept, Ordered, Queued, SentInOrder
  <2> QED
    BY <2>1, <2>2 DEF MessagesKept
<1> QED
  BY <1>1, <1>2, <1>3, PTL DEF Spec

\* After the loop returned no handler of a socket is called: whatever lws still has then
\* was pinned, and detached (ws.c:105-113, vm.c:628-636).
THEOREM TeardownIsSilent == Spec => SilentTeardown
<1>1. Lives /\ [Next]_vars => [phase # "running" => UNCHANGED events]_vars
  <2> SUFFICES ASSUME Lives, Next, phase # "running" PROVE UNCHANGED events
    OBVIOUS
  <2>1. CASE Scripts
    BY <2>1 DEF Scripts, Connect, Abort, SendCall, StreamWrite, Close, EndHalf, Calling
  <2>2. CASE Lws
    BY <2>2 DEF Lws, Established, Receive, Writeable, Closed, ConnectionError, AbnormalClose,
                PeerClose, BlobRead, CallbackEnd, Service
  <2>3. CASE Teardown
    <3>1. ASSUME NEW s \in Sockets, DestroyWsi(s) PROVE UNCHANGED events
      BY <3>1 DEF DestroyWsi, EmitClose, Hear, Lives, Stack
    <3>2. ASSUME NEW s \in Sockets, Collect(s) PROVE UNCHANGED events
      BY <3>2 DEF Collect
    <3>3. ASSUME NEW how, LoopReturns(how) PROVE UNCHANGED events
      BY <3>3 DEF LoopReturns
    <3> QED
      BY <2>3, <3>1, <3>2, <3>3 DEF Teardown
  <2> QED
    BY <2>1, <2>2, <2>3 DEF Next
<1> QED
  BY <1>1, LivesHold, PTL DEF Spec, SilentTeardown

=============================================================================
