------------------------- MODULE EventSource_proofs -------------------------
(***************************************************************************)
(* Proofs about the event source, for any number of connections and of     *)
(* events, and about the timers, for any set of timers and delays, any     *)
(* width of integers and any number of calls.  The two share no variable.  *)
(***************************************************************************)
EXTENDS EventSource, Timers, SequenceTheorems, FiniteSetTheorems, TLAPS

(* The stream.                                                             *)

Fields == {"id", "data", "blank"}
Pieces == (Fields \X (1..MaxEvent)) \X {"whole", "head", "tail"}

\* A place in the stream is like served: so many lines, and half of the next one or not.
\* The places before and behind a piece.
LineOf(x) == 3 * (x[1][2] - 1) + (CASE x[1][1] = "id" -> 1 [] x[1][1] = "data" -> 2 [] OTHER -> 3)
Before(x) == <<LineOf(x) - 1, x[2] = "tail">>
After(x)  == IF x[2] = "head" THEN <<LineOf(x) - 1, TRUE>> ELSE <<LineOf(x), FALSE>>

\* The pieces s follow each other from the place a to End(a, s).
Runs(a, s) == /\ \A i \in 1..Len(s) : i < Len(s) => Before(s[i + 1]) = After(s[i])
              /\ s # <<>> => Before(s[1]) = a
End(a, s) == IF s = <<>> THEN a ELSE After(s[Len(s)])

----------------------------------------------------------------------------
(* The inductive invariant.                                                *)

Shapes ==
  /\ feeding \in Seq(Pieces) /\ arrived \in [Conns -> Seq(Pieces)]
  /\ served \in [Conns -> (0..(3 * MaxEvent)) \X BOOLEAN]
  /\ heard \in Seq(Nat \X Nat)

\* Connections are made one after the other, and one that is over leaves nothing.
Idle(c) == net[c] = "none" /\ answer[c] = "none" /\ arrived[c] = <<>>
Ordered(c) ==
  /\ c > current => /\ Idle(c)
                    /\ \/ pc[c] = "none" /\ (c = 1 => current # 0)
                       \/ c = 1 /\ pc[c] \in {"queued", "done"}
                          /\ (pc[c] = "done" => readyState = "CLOSED")
  /\ c <= current => pc[c] \notin {"none", "queued"} /\ net[c] # "none"
  /\ c < current => pc[c] = "done"

\* What the request is at each await.
Awaiting(c) ==
  /\ answer[c] # "none" => net[c] \in {"sent", "over"}
  /\ pc[c] \in {"reading", "feeding"} => net[c] # "unsent"
  /\ pc[c] \in {"dropping", "failing", "erroring", "done"} => net[c] \in {"none", "over"}
  /\ pc[c] \in {"reading", "feeding"} /\ readyState = "CLOSED" => net[c] = "over"
  /\ pc[c] = "dropping" => readyState = "CLOSED"

\* One thing goes on.
Attempt ==
  /\ closed => readyState = "CLOSED"
  /\ timer => readyState # "CLOSED" /\ current # 0 /\ pc[current] = "done"
  /\ readyState # "CLOSED" =>
       timer \/ (current = 0 /\ pc[1] = "queued") \/ (current # 0 /\ Busy(current))

\* The parser is at this place, in the middle of the event after the last one it ended.
Parsed == lastEventId * 3 + (lastEventIdBuffer - lastEventId) + (IF dataBuffer = 0 THEN 0 ELSE 1)
Place == <<Parsed, buffer = current>>
Parsing ==
  /\ feeding # <<>> => current # 0 /\ pc[current] = "feeding"
  /\ lastEventIdBuffer \in {lastEventId, lastEventId + 1}
  /\ dataBuffer # 0 => dataBuffer = lastEventId + 1 /\ lastEventIdBuffer = lastEventId + 1

\* What waits is the stream from that place on, up to what the server wrote.
Flow(c) ==
  c = current /\ pc[c] \in {"fetching", "reading", "feeding"} =>
    /\ Runs(Place, feeding) /\ Runs(End(Place, feeding), arrived[c])
    /\ net[c] \in {"unsent", "sent"} => End(End(Place, feeding), arrived[c]) = served[c]

Heard == readyState # "CLOSED" => Len(heard) = lastEventId

Sound ==
  /\ TypeOK /\ Shapes /\ Attempt /\ Parsing /\ Heard /\ ExactlyOnce
  /\ \A c \in Conns : Ordered(c) /\ Awaiting(c) /\ Flow(c)
----------------------------------------------------------------------------
(* The operators of the stream.                                            *)

\* Every line of the stream is a field of an event, and LineOf finds its number.
LEMMA LineFacts ==
  ASSUME NEW i \in 1..(3 * MaxEvent), NEW p \in {"whole", "head", "tail"}
  PROVE  <<Line(i), p>> \in Pieces /\ LineOf(<<Line(i), p>>) = i
<1> DEFINE q == (i - 1) \div 3
           r == i % 3
           f == CASE r = 1 -> "id" [] r = 2 -> "data" [] OTHER -> "blank"
<1>1. MaxEvent \in Nat /\ i \in Nat
  BY EventSourceAssumption
<1>2. /\ q \in Int /\ r \in 0..2
      /\ i = 3 * q + (IF r = 0 THEN 3 ELSE r)
  BY <1>1, Z3
<1>3. q + 1 \in 1..MaxEvent
  BY <1>1, <1>2
<1>4. f \in Fields
  BY DEF Fields
<1>5. Line(i) = <<f, q + 1>>
  BY DEF Line
<1>6. f = "id" => r = 1
  OBVIOUS
<1>7. f = "data" => r = 2
  OBVIOUS
<1>8. f = "blank" => r \notin {1, 2}
  OBVIOUS
<1> HIDE DEF q, r, f
<1>9. <<Line(i), p>> \in Pieces
  BY <1>3, <1>4, <1>5 DEF Pieces
<1>10. LineOf(<<Line(i), p>>) = i
  <2> DEFINE k == CASE f = "id" -> 1 [] f = "data" -> 2 [] OTHER -> 3
  <2>1. LineOf(<<Line(i), p>>) = 3 * q + k
    BY <1>2, <1>5 DEF LineOf
  <2>2. k = IF r = 0 THEN 3 ELSE r
    BY <1>2, <1>4, <1>6, <1>7, <1>8 DEF Fields
  <2> QED
    BY <1>2, <2>1, <2>2
<1> QED
  BY <1>9, <1>10

\* The number of a line is one of the stream.
LEMMA LineType ==
  ASSUME NEW x \in Pieces
  PROVE  /\ LineOf(x) \in 1..(3 * MaxEvent) /\ x[1][1] \in Fields
         /\ x[1][2] \in 1..MaxEvent /\ x[2] \in {"whole", "head", "tail"}
<1>1. x[1][1] \in Fields /\ x[1][2] \in 1..MaxEvent /\ x[2] \in {"whole", "head", "tail"}
  BY DEF Pieces
<1> DEFINE k == CASE x[1][1] = "id" -> 1 [] x[1][1] = "data" -> 2 [] OTHER -> 3
           n == x[1][2]
<1>2. k \in 1..3 /\ LineOf(x) = 3 * (n - 1) + k
  BY DEF LineOf
<1>3. n \in 1..MaxEvent
  BY <1>1
<1> HIDE DEF k, n
<1>4. LineOf(x) \in 1..(3 * MaxEvent)
  BY <1>2, <1>3, EventSourceAssumption
<1> QED
  BY <1>1, <1>4

\* Nothing follows from where it is to where it is.
LEMMA RunsEmpty == ASSUME NEW a PROVE Runs(a, <<>>) /\ End(a, <<>>) = a
BY DEF Runs, End

\* Without its first piece the rest follows from behind that piece.
LEMMA RunsTail ==
  ASSUME NEW a, NEW s \in Seq(Pieces), s # <<>>, Runs(a, s)
  PROVE  /\ Head(s) \in Pieces /\ Tail(s) \in Seq(Pieces) /\ Before(Head(s)) = a
         /\ Runs(After(Head(s)), Tail(s)) /\ End(After(Head(s)), Tail(s)) = End(a, s)
<1> DEFINE t == Tail(s)
<1>1. Len(s) \in Nat \ {0} /\ Len(t) = Len(s) - 1 /\ t \in Seq(Pieces)
  OBVIOUS
<1>2. \A i \in 1..Len(t) : t[i] = s[i + 1]
  OBVIOUS
<1>3. Head(s) = s[1] /\ Head(s) \in Pieces
  OBVIOUS
<1>4. \A i \in 1..Len(s) : i < Len(s) => Before(s[i + 1]) = After(s[i])
  BY DEF Runs
<1>5. t = <<>> <=> Len(t) = 0
  BY <1>1, EmptySeq
<1> HIDE DEF t
<1>6. Runs(After(Head(s)), t)
  <2>1. ASSUME NEW i \in 1..Len(t), i < Len(t)
        PROVE  Before(t[i + 1]) = After(t[i])
    <3>1. i + 1 \in 1..Len(s) /\ i + 1 < Len(s) /\ i + 1 \in 1..Len(t)
      BY <1>1, <2>1
    <3> QED
      BY <1>2, <1>4, <3>1
  <2>2. t # <<>> => Before(t[1]) = After(Head(s))
    <3>1. t # <<>> => 1 \in 1..Len(t) /\ 1 \in 1..Len(s) /\ 1 < Len(s)
      BY <1>1, <1>5
    <3> QED
      BY <1>2, <1>3, <1>4, <3>1
  <2> QED
    BY <2>1, <2>2 DEF Runs
<1>7. End(After(Head(s)), t) = End(a, s)
  <2>1. CASE t = <<>>
    <3>1. Len(s) = 1
      BY <1>1, <1>5, <2>1
    <3>2. End(a, s) = After(Head(s))
      BY <1>3, <3>1 DEF End
    <3> QED
      BY <2>1, <3>2 DEF End
  <2>2. CASE t # <<>>
    <3>1. Len(t) \in 1..Len(t) /\ Len(t) + 1 = Len(s)
      BY <1>1, <1>5, <2>2
    <3>2. t[Len(t)] = s[Len(s)]
      BY <1>2, <3>1
    <3> QED
      BY <2>2, <3>2 DEF End
  <2> QED
    BY <2>1, <2>2
<1>8. Before(Head(s)) = a
  BY <1>3 DEF Runs
<1> QED
  BY <1>1, <1>3, <1>6, <1>7, <1>8 DEF t

\* A piece that starts where the sequence ends can be appended to it.
LEMMA RunsAppend ==
  ASSUME NEW a, NEW s \in Seq(Pieces), NEW x \in Pieces, Runs(a, s), Before(x) = End(a, s)
  PROVE  /\ Append(s, x) \in Seq(Pieces)
         /\ Runs(a, Append(s, x)) /\ End(a, Append(s, x)) = After(x)
<1> DEFINE t == Append(s, x)
<1>1. Len(s) \in Nat /\ Len(t) = Len(s) + 1 /\ t \in Seq(Pieces) /\ t # <<>>
  OBVIOUS
<1>2. (\A i \in 1..Len(s) : t[i] = s[i]) /\ t[Len(s) + 1] = x
  OBVIOUS
<1>3. s = <<>> <=> Len(s) = 0
  BY EmptySeq
<1> HIDE DEF t
<1>4. ASSUME NEW i \in 1..Len(t), i < Len(t)
      PROVE  Before(t[i + 1]) = After(t[i])
  <2>0. i \in 1..Len(s)
    BY <1>1, <1>4
  <2>1. CASE i = Len(s)
    <3>1. End(a, s) = After(s[Len(s)])
      BY <1>3, <2>0 DEF End
    <3> QED
      BY <1>2, <2>0, <2>1, <3>1
  <2>2. CASE i # Len(s)
    <3>1. i + 1 \in 1..Len(s) /\ i < Len(s)
      BY <1>1, <2>0, <2>2
    <3> QED
      BY <1>2, <2>0, <3>1 DEF Runs
  <2> QED
    BY <2>1, <2>2
<1>5. Before(t[1]) = a
  <2>1. CASE s = <<>>
    <3>1. t[1] = x
      BY <1>2, <1>3, <2>1
    <3> QED
      BY <2>1, <3>1 DEF End
  <2>2. CASE s # <<>>
    <3>1. 1 \in 1..Len(s)
      BY <1>1, <1>3, <2>2
    <3> QED
      BY <1>2, <2>2, <3>1 DEF Runs
  <2> QED
    BY <2>1, <2>2
<1>6. End(a, t) = After(x)
  BY <1>1, <1>2 DEF End
<1> QED
  BY <1>1, <1>4, <1>5, <1>6 DEF Runs, t

\* A sequence may be cut behind its first k pieces.
LEMMA RunsSplit ==
  ASSUME NEW a, NEW s \in Seq(Pieces), NEW k \in 1..Len(s), Runs(a, s)
  PROVE  /\ SubSeq(s, 1, k) \in Seq(Pieces) /\ SubSeq(s, k + 1, Len(s)) \in Seq(Pieces)
         /\ Runs(a, SubSeq(s, 1, k))
         /\ Runs(End(a, SubSeq(s, 1, k)), SubSeq(s, k + 1, Len(s)))
         /\ End(End(a, SubSeq(s, 1, k)), SubSeq(s, k + 1, Len(s))) = End(a, s)
<1> DEFINE u == SubSeq(s, 1, k)
           v == SubSeq(s, k + 1, Len(s))
           n == Len(s)
<1>1. k \in 1..n /\ n \in Nat
  OBVIOUS
<1>2. u \in Seq(Pieces) /\ Len(u) = k /\ \A i \in 1..k : u[i] = s[i]
  BY SubSeqProperties
<1>3. v \in Seq(Pieces) /\ Len(v) = n - k /\ \A i \in 1..(n - k) : v[i] = s[k + i]
  <2>1. /\ v \in Seq(Pieces)
        /\ Len(v) = IF k + 1 <= n THEN n - (k + 1) + 1 ELSE 0
        /\ \A i \in 1..(n - (k + 1) + 1) : v[i] = s[k + 1 + i - 1]
    BY <1>1, SubSeqProperties
  <2> HIDE DEF v, n
  <2>2. n - (k + 1) + 1 = n - k /\ (k + 1 > n => n - k = 0)
    BY <1>1
  <2>3. \A i \in 1..(n - k) : k + 1 + i - 1 = k + i
    BY <1>1
  <2> QED
    BY <1>1, <2>1, <2>2, <2>3
<1>4. \A i \in 1..n : i < n => Before(s[i + 1]) = After(s[i])
  BY DEF Runs
<1>5. n # 0 /\ Before(s[1]) = a
  <2>1. s # <<>>
    BY <1>1, EmptySeq
  <2> QED
    BY <1>1, <2>1 DEF Runs
<1>6. u # <<>> /\ (v = <<>> <=> n - k = 0)
  <2>1. (u = <<>> <=> Len(u) = 0) /\ (v = <<>> <=> Len(v) = 0)
    BY <1>2, <1>3, EmptySeq
  <2> QED
    BY <1>1, <1>2, <1>3, <2>1
<1>7. End(a, s) = After(s[n])
  BY <1>5 DEF End
<1> HIDE DEF u, v, n
<1>8. Runs(a, u)
  <2>1. ASSUME NEW i \in 1..k, i < k
        PROVE  Before(u[i + 1]) = After(u[i])
    <3>1. i + 1 \in 1..k /\ i \in 1..n /\ i < n
      BY <1>1, <2>1
    <3> QED
      BY <1>2, <1>4, <3>1
  <2>2. u[1] = s[1]
    BY <1>1, <1>2
  <2> QED
    BY <1>2, <1>5, <2>1, <2>2 DEF Runs
<1>9. End(a, u) = After(s[k])
  BY <1>1, <1>2, <1>6 DEF End
<1>10. Runs(End(a, u), v)
  <2>1. ASSUME NEW i \in 1..(n - k), i < n - k
        PROVE  Before(v[i + 1]) = After(v[i])
    <3>1. i + 1 \in 1..(n - k) /\ k + i \in 1..n /\ k + i < n /\ k + (i + 1) = (k + i) + 1
      BY <1>1, <2>1
    <3> QED
      BY <1>3, <1>4, <3>1
  <2>2. v # <<>> => Before(v[1]) = After(s[k])
    <3>1. v # <<>> => 1 \in 1..(n - k) /\ k \in 1..n /\ k < n
      BY <1>1, <1>6
    <3> QED
      BY <1>3, <1>4, <3>1
  <2> QED
    BY <1>3, <1>9, <2>1, <2>2 DEF Runs
<1>11. End(End(a, u), v) = End(a, s)
  <2>1. CASE v = <<>>
    <3>1. k = n
      BY <1>1, <1>6, <2>1
    <3> QED
      BY <1>7, <1>9, <2>1, <3>1 DEF End
  <2>2. CASE v # <<>>
    <3>1. n - k \in 1..(n - k) /\ k + (n - k) = n
      BY <1>1, <1>6, <2>2
    <3>2. v[Len(v)] = s[n]
      BY <1>3, <3>1
    <3> QED
      BY <1>7, <2>2, <3>2 DEF End
  <2> QED
    BY <2>1, <2>2
<1> QED
  BY <1>2, <1>3, <1>8, <1>10, <1>11 DEF u, v, n

----------------------------------------------------------------------------
(* The steps.                                                              *)

\* Before the first connection.
LEMMA InitSound == Init => Sound
<1> SUFFICES ASSUME Init PROVE Sound
  OBVIOUS
<1>0. MaxConns \in Nat \ {0} /\ MaxEvent \in Nat /\ 0 \in 0..MaxConns /\ 0 \in 0..MaxEvent
      /\ 0 \in 0..(3 * MaxEvent)
  BY EventSourceAssumption
<1>1. TypeOK
  BY <1>0 DEF Init, TypeOK
<1>2. Shapes
  <2>1. <<>> \in Seq(Pieces) /\ <<>> \in Seq(Nat \X Nat)
    OBVIOUS
  <2>2. <<0, FALSE>> \in (0..(3 * MaxEvent)) \X BOOLEAN
    BY <1>0
  <2> QED
    BY <2>1, <2>2 DEF Init, Shapes
<1>3. Attempt /\ Parsing /\ Heard /\ ExactlyOnce
  <2>1. 1 \in Conns /\ Len(<<>>) = 0
    BY <1>0 DEF Conns
  <2> QED
    BY <2>1 DEF Init, Attempt, Parsing, Heard, ExactlyOnce, Busy
<1>4. ASSUME NEW c \in Conns PROVE Ordered(c) /\ Awaiting(c) /\ Flow(c)
  <2>1. c > 0 /\ c # 0
    BY <1>0, <1>4 DEF Conns
  <2> QED
    BY <1>4, <2>1 DEF Init, Ordered, Awaiting, Flow, Idle, Busy, Conns
<1> QED
  BY <1>1, <1>2, <1>3, <1>4 DEF Sound

\* The connection of a running coroutine is the current one, unless it was not made yet.
LEMMA IsCurrent ==
  ASSUME Sound, NEW c \in Conns, pc[c] \notin {"none", "queued", "done"}
  PROVE  c = current /\ net[c] # "none"
<1>1. Ordered(c) /\ c \in Int /\ current \in Int
  BY DEF Sound, Conns, TypeOK
<1> QED
  BY <1>1 DEF Ordered

\* The same of a request that was made.
LEMMA IsMade ==
  ASSUME Sound, NEW c \in Conns, net[c] \in {"unsent", "sent"}
  PROVE  c = current /\ Busy(c) /\ pc[c] \in {"fetching", "reading", "feeding"}
<1>1. Ordered(c) /\ Awaiting(c) /\ c \in Int /\ current \in Int
  BY DEF Sound, Conns, TypeOK
<1>2. ~(c > current)
  BY <1>1 DEF Ordered, Idle
<1>3. pc[c] \notin {"none", "queued", "dropping", "failing", "erroring", "done"}
  BY <1>1, <1>2 DEF Ordered, Awaiting
<1>4. c = current
  BY <1>1, <1>2, <1>3 DEF Ordered
<1>5. pc[c] \in {"none", "queued", "fetching", "reading", "feeding", "erroring",
                 "dropping", "failing", "done"}
  BY DEF Sound, TypeOK
<1> QED
  BY <1>3, <1>4, <1>5 DEF Busy

\* What an abort leaves of the requests.
LEMMA Aborted ==
  ASSUME TypeOK, Shapes, NEW c \in Conns, AbortFetch(c)
  PROVE  /\ net' \in [Conns -> {"none", "unsent", "sent", "over"}]
         /\ arrived' \in [Conns -> Seq(Pieces)]
         /\ \A d \in Conns : d # c => net'[d] = net[d] /\ arrived'[d] = arrived[d]
         /\ net'[c] = (IF net[c] = "sent" THEN "over" ELSE net[c])
         /\ arrived'[c] = (IF net[c] = "sent" THEN <<>> ELSE arrived[c])
<1>1. net \in [Conns -> {"none", "unsent", "sent", "over"}] /\ arrived \in [Conns -> Seq(Pieces)]
  BY DEF TypeOK, Shapes
<1>2. <<>> \in Seq(Pieces)
  OBVIOUS
<1>3. CASE net[c] = "sent"
  BY <1>1, <1>2, <1>3 DEF AbortFetch
<1>4. CASE net[c] # "sent"
  BY <1>1, <1>4 DEF AbortFetch
<1> QED
  BY <1>3, <1>4

\* The stream still follows from the same place when a request goes on, or ends with
\* or without what waited of it.
LEMMA FlowKept ==
  ASSUME Flow(current), NEW c \in Conns,
         Place' = Place, feeding' = feeding, current' = current,
         served'[c] = served[c], arrived'[c] \in {arrived[c], <<>>},
         pc'[c] \in {"fetching", "reading", "feeding"} =>
           pc[c] \in {"fetching", "reading", "feeding"},
         net'[c] \in {"unsent", "sent"} =>
           net[c] \in {"unsent", "sent"} /\ arrived'[c] = arrived[c]
  PROVE  Flow(c)'
<1> DEFINE Going(p) == p \in {"fetching", "reading", "feeding"}
           On(n) == n \in {"unsent", "sent"}
           e == End(Place, feeding)
<1>1. Flow(c)' = (c = current' /\ Going(pc'[c]) =>
                    /\ Runs(Place', feeding') /\ Runs(End(Place', feeding'), arrived'[c])
                    /\ On(net'[c]) => End(End(Place', feeding'), arrived'[c]) = served'[c])
  BY DEF Flow, Runs, End, Place, Parsed
<1>2. Going(pc[current]) =>
        /\ Runs(Place, feeding) /\ Runs(e, arrived[current])
        /\ On(net[current]) => End(e, arrived[current]) = served[current]
  BY DEF Flow
<1>3. Runs(e, <<>>)
  BY RunsEmpty
<1>4. (Going(pc'[c]) => Going(pc[c])) /\ (On(net'[c]) => On(net[c]) /\ arrived'[c] = arrived[c])
  OBVIOUS
<1> HIDE DEF Going, On
<1>5. SUFFICES ASSUME c = current, Going(pc'[c])
               PROVE  /\ Runs(Place, feeding) /\ Runs(e, arrived'[c])
                      /\ On(net'[c]) => End(e, arrived'[c]) = served'[c]
  BY <1>1, Zenon
<1>6. /\ Runs(Place, feeding) /\ Runs(e, arrived[c])
      /\ On(net[c]) => End(e, arrived[c]) = served[c]
  BY <1>2, <1>4, <1>5, Zenon
<1>7. Runs(e, arrived'[c])
  <2>1. arrived'[c] = arrived[c] \/ arrived'[c] = <<>>
    OBVIOUS
  <2> QED
    BY <1>3, <1>6, <2>1, Zenon
<1> QED
  BY <1>4, <1>6, <1>7, Zenon

\* The place moves only with what the parser kept.
LEMMA PlaceKept ==
  ASSUME UNCHANGED <<lastEventId, lastEventIdBuffer, dataBuffer, buffer, current>>
  PROVE  Place' = Place
BY DEF Place, Parsed

\* EventSource.close.
LEMMA CloseSound == ASSUME Sound, Close PROVE Sound'
<1> USE DEF Close
<1>0. /\ TypeOK /\ Shapes /\ Attempt /\ Parsing /\ Heard /\ ExactlyOnce
      /\ \A c \in Conns : Ordered(c) /\ Awaiting(c) /\ Flow(c)
  BY DEF Sound
<1>1. UNCHANGED <<current, listening, lastEventId, lastEventIdBuffer, dataBuffer, buffer,
                  feeding, pc, heard, tick, answer, served>>
  BY DEF parserVars, heardVars, netVars, CancelBody
<1>2. /\ net' \in [Conns -> {"none", "unsent", "sent", "over"}]
      /\ arrived' \in [Conns -> Seq(Pieces)]
      /\ \A d \in Conns : d # current => net'[d] = net[d] /\ arrived'[d] = arrived[d]
      /\ current \in Conns =>
           /\ net'[current] = (IF net[current] = "sent" THEN "over" ELSE net[current])
           /\ arrived'[current] = (IF net[current] = "sent" THEN <<>> ELSE arrived[current])
  <2>1. CASE current = 0
    BY <1>0, <2>1, EventSourceAssumption DEF netVars, TypeOK, Shapes, Conns
  <2>2. CASE current # 0
    <3>1. current \in Conns /\ AbortFetch(current)
      BY <1>0, <2>2, EventSourceAssumption DEF TypeOK, Conns, CancelBody
    <3> HIDE DEF Close
    <3> QED
      BY <1>0, <3>1, Aborted
  <2> QED
    BY <2>1, <2>2
<1>3. TypeOK' /\ Shapes'
  BY <1>0, <1>1, <1>2 DEF TypeOK, Shapes
<1>4. Attempt' /\ Parsing' /\ Heard' /\ ExactlyOnce'
  BY <1>0, <1>1 DEF Attempt, Parsing, Heard, ExactlyOnce
<1>5. ASSUME NEW c \in Conns PROVE Ordered(c)' /\ Awaiting(c)' /\ Flow(c)'
  <2>1. Ordered(c) /\ Awaiting(c) /\ c \in Int /\ current \in Int
        /\ net[c] \in {"none", "unsent", "sent", "over"}
    BY <1>0 DEF Conns, TypeOK
  <2>2. Ordered(c)'
    BY <1>1, <1>2, <2>1 DEF Ordered, Idle
  <2>3. Awaiting(c)'
    <3>1. pc[c] \in {"reading", "feeding"} => c = current
      BY <2>1 DEF Ordered
    <3>2. c = current => net'[c] = (IF net[c] = "sent" THEN "over" ELSE net[c])
      BY <1>2
    <3>3. pc[c] \in {"reading", "feeding"} => net'[c] = "over"
      BY <2>1, <3>1, <3>2 DEF Ordered, Awaiting
    <3>4. c # current => net'[c] = net[c]
      BY <1>2
    <3> QED
      BY <1>1, <2>1, <3>2, <3>3, <3>4 DEF Awaiting
  <2>4. Flow(c)'
    <3>1. CASE c = current
      <4>1. Flow(current) /\ Place' = Place
        BY <1>0, <1>1, <3>1, PlaceKept
      <4>2. /\ arrived'[c] \in {arrived[c], <<>>}
            /\ net'[c] \in {"unsent", "sent"} =>
                 net[c] \in {"unsent", "sent"} /\ arrived'[c] = arrived[c]
        BY <1>2, <3>1
      <4> HIDE DEF Close
      <4> QED
        BY <1>1, <4>1, <4>2, FlowKept
    <3>2. CASE c # current
      BY <1>1, <3>2 DEF Flow
    <3> QED
      BY <3>1, <3>2
  <2> QED
    BY <2>2, <2>3, <2>4
<1> QED
  BY <1>3, <1>4, <1>5 DEF Sound

\* The half of #connect up to its await, of the connection that comes next.
LEMMA ConnectSound ==
  ASSUME Sound, NEW c \in Conns, Connect(c), c = current + 1,
         current = 0 => pc[1] = "queued",
         current # 0 => timer,
         timer' = FALSE, UNCHANGED <<readyState, closed, listening, answer, arrived, heardVars>>
  PROVE  Sound'
<1>0. /\ TypeOK /\ Shapes /\ Attempt /\ Parsing /\ Heard /\ ExactlyOnce
      /\ \A d \in Conns : Ordered(d) /\ Awaiting(d) /\ Flow(d)
  BY DEF Sound
<1>1. /\ UNCHANGED <<readyState, closed, listening, answer, arrived, heard, tick>>
      /\ timer' = FALSE
  BY DEF heardVars
<1>2. c \in Int /\ current \in Nat /\ MaxConns \in Nat /\ 1 \in Conns
  BY <1>0, EventSourceAssumption DEF Conns, TypeOK
<1>3. Idle(c) /\ (pc[c] = "none" \/ (c = 1 /\ pc[c] \in {"queued", "done"}))
  BY <1>0, <1>2 DEF Ordered
<1>4. current # 0 => current \in Conns /\ pc[current] = "done" /\ readyState # "CLOSED"
  BY <1>0, <1>2 DEF Attempt, TypeOK, Conns
<1>5. CASE readyState = "CLOSED"
  <2>1. c = 1 /\ current = 0
    BY <1>2, <1>4, <1>5
  <2>2. pc' = [pc EXCEPT ![c] = "done"] /\ UNCHANGED <<current, parserVars, net, served>>
    BY <1>5 DEF Connect
  <2>3. TypeOK' /\ Shapes'
    BY <1>0, <1>1, <2>2 DEF TypeOK, Shapes, parserVars
  <2>4. Attempt' /\ Parsing' /\ Heard' /\ ExactlyOnce'
    BY <1>0, <1>1, <1>5, <2>1, <2>2
       DEF Attempt, Parsing, Heard, ExactlyOnce, TypeOK, parserVars, Busy
  <2>5. ASSUME NEW d \in Conns PROVE Ordered(d)' /\ Awaiting(d)' /\ Flow(d)'
    <3>1. Ordered(d) /\ Awaiting(d) /\ d \in Int /\ d > 0
      BY <1>0 DEF Conns
    <3>2. pc'[d] = IF d = c THEN "done" ELSE pc[d]
      BY <1>0, <2>2 DEF TypeOK
    <3>3. Ordered(d)'
      BY <1>1, <1>5, <2>1, <2>2, <3>1, <3>2 DEF Ordered, Idle
    <3>4. Awaiting(d)'
      BY <1>1, <1>3, <1>5, <2>2, <3>1, <3>2 DEF Awaiting, Idle
    <3>5. Flow(d)'
      BY <2>1, <2>2, <3>1 DEF Flow
    <3> QED
      BY <3>3, <3>4, <3>5
  <2> QED
    BY <2>3, <2>4, <2>5 DEF Sound
<1>6. CASE readyState # "CLOSED"
  <2>1. /\ pc' = [pc EXCEPT ![c] = "fetching"] /\ current' = c
        /\ buffer' = 0 /\ dataBuffer' = 0 /\ lastEventIdBuffer' = lastEventId
        /\ net' = [net EXCEPT ![c] = "unsent"]
        /\ served' = [served EXCEPT ![c] = <<3 * lastEventId, FALSE>>]
        /\ UNCHANGED <<lastEventId, feeding>>
    BY <1>6 DEF Connect, NoHalf, ResumeAfter
  <2>2. lastEventId \in 0..MaxEvent /\ MaxEvent \in Nat
    BY <1>0, EventSourceAssumption DEF TypeOK
  <2>3. <<3 * lastEventId, FALSE>> \in (0..(3 * MaxEvent)) \X BOOLEAN
    <3> DEFINE n == 3 * lastEventId
    <3>1. n \in 0..(3 * MaxEvent)
      BY <2>2
    <3> HIDE DEF n
    <3>2. <<n, FALSE>> \in (0..(3 * MaxEvent)) \X BOOLEAN
      BY <3>1
    <3> QED
      BY <3>2 DEF n
  <2>4. feeding = <<>>
    BY <1>0, <1>4 DEF Parsing
  <2>5. TypeOK'
    <3>1. c \in 0..MaxConns
      BY <1>2 DEF Conns
    <3>2. 0 \in 0..MaxEvent
      BY <2>2
    <3> QED
      BY <1>0, <1>1, <2>1, <2>2, <3>1, <3>2 DEF TypeOK
  <2>6. Shapes'
    BY <1>0, <1>1, <2>1, <2>3 DEF Shapes
  <2>7. Attempt'
    <3>1. pc'[c] = "fetching" /\ c # 0
      BY <1>0, <1>2, <2>1 DEF TypeOK, Conns
    <3> QED
      BY <1>0, <1>1, <2>1, <3>1 DEF Attempt, Busy
  <2>8. Parsing' /\ Heard' /\ ExactlyOnce'
    BY <1>0, <1>1, <2>1, <2>2, <2>4 DEF Parsing, Heard, ExactlyOnce
  <2>9. ASSUME NEW d \in Conns PROVE Ordered(d)' /\ Awaiting(d)' /\ Flow(d)'
    <3>1. Ordered(d) /\ Awaiting(d) /\ d \in Int /\ d > 0
      BY <1>0 DEF Conns
    <3>2. /\ pc'[d] = (IF d = c THEN "fetching" ELSE pc[d])
          /\ net'[d] = (IF d = c THEN "unsent" ELSE net[d])
      BY <1>0, <2>1 DEF TypeOK
    <3>3. Ordered(d)'
      <4>1. CASE d > c
        BY <1>1, <1>2, <2>1, <3>1, <3>2, <4>1 DEF Ordered, Idle
      <4>2. CASE d = c
        BY <1>2, <2>1, <3>2, <4>2 DEF Ordered
      <4>3. CASE d < c
        <5>1. d <= current /\ current # 0
          BY <1>2, <3>1, <4>3
        <5>2. d = current \/ d < current
          BY <1>2, <3>1, <5>1
        <5>3. pc[d] = "done" /\ net[d] # "none"
          BY <1>2, <1>4, <3>1, <5>1, <5>2 DEF Ordered
        <5> QED
          BY <1>2, <2>1, <3>1, <3>2, <4>3, <5>3 DEF Ordered
      <4> QED
        BY <1>2, <3>1, <4>1, <4>2, <4>3
    <3>4. Awaiting(d)'
      BY <1>1, <1>3, <3>1, <3>2 DEF Awaiting, Idle
    <3>5. Flow(d)'
      <4>1. CASE d = c
        <5>1. Parsed' = 3 * lastEventId
          BY <2>1, <2>2 DEF Parsed
        <5>2. Place' = <<3 * lastEventId, FALSE>>
          <6>1. buffer' # current'
            BY <1>2, <2>1
          <6> QED
            BY <5>1, <6>1 DEF Place
        <5>3. feeding' = <<>> /\ arrived'[d] = <<>> /\ served'[d] = <<3 * lastEventId, FALSE>>
          BY <1>0, <1>1, <1>3, <2>1, <2>4, <4>1 DEF Idle, Shapes
        <5>4. /\ Runs(Place', feeding') /\ Runs(End(Place', feeding'), arrived'[d])
              /\ End(End(Place', feeding'), arrived'[d]) = served'[d]
          BY <5>2, <5>3, RunsEmpty
        <5> QED
          BY <5>4 DEF Flow, Runs, End, Place, Parsed
      <4>2. CASE d # c
        BY <2>1, <4>2 DEF Flow
      <4> QED
        BY <4>1, <4>2
    <3> QED
      BY <3>3, <3>4, <3>5
  <2> QED
    BY <2>5, <2>6, <2>7, <2>8, <2>9 DEF Sound
<1> QED
  BY <1>5, <1>6

\* The constructor connects.
LEMMA FirstConnectSound == ASSUME Sound, FirstConnect PROVE Sound'
<1>1. 1 \in Conns /\ Ordered(1) /\ current \in Nat /\ Attempt
  BY EventSourceAssumption DEF Sound, Conns, TypeOK
<1>2. pc[1] = "queued" /\ Connect(1)
  BY DEF FirstConnect
<1>3. current = 0
  BY <1>1, <1>2 DEF Ordered
<1>4. timer' = FALSE
  BY <1>1, <1>3 DEF FirstConnect, Attempt, Sound, TypeOK
<1>5. UNCHANGED <<readyState, closed, listening, answer, arrived, heardVars>>
  BY DEF FirstConnect
<1>6. 1 = current + 1 /\ (current = 0 => pc[1] = "queued") /\ (current # 0 => timer)
  BY <1>2, <1>3
<1> QED
  BY <1>1, <1>2, <1>4, <1>5, <1>6, ConnectSound, Zenon

\* The timer reconnects.
LEMMA TimerFiresSound == ASSUME Sound, TimerFires PROVE Sound'
<1>1. PICK c \in Conns : c = current + 1 /\ Connect(c)
  BY DEF TimerFires
<1>2. timer /\ timer' = FALSE /\ current # 0
  BY DEF TimerFires, Sound, Attempt
<1>3. UNCHANGED <<readyState, closed, listening, answer, arrived, heardVars>>
  BY DEF TimerFires
<1> QED
  BY <1>1, <1>2, <1>3, ConnectSound

\* #reconnect up to its listeners, of a request that is over.
LEMMA ReconnectSound ==
  ASSUME Sound, NEW c \in Conns, Reconnect(c), pc[c] \in {"fetching", "reading"},
         net[c] = "over", UNCHANGED <<closed, current, timer, parserVars, netVars>>
  PROVE  Sound'
<1>0. /\ TypeOK /\ Shapes /\ Attempt /\ Parsing /\ Heard /\ ExactlyOnce
      /\ \A d \in Conns : Ordered(d) /\ Awaiting(d) /\ Flow(d)
  BY DEF Sound
<1>1. UNCHANGED <<closed, current, timer, lastEventId, lastEventIdBuffer, dataBuffer, buffer,
                  feeding, net, answer, arrived, served>>
  BY DEF parserVars, netVars
<1>2. /\ pc' = [pc EXCEPT ![c] = IF readyState = "CLOSED" THEN "done" ELSE "erroring"]
      /\ readyState' = IF readyState = "CLOSED" THEN "CLOSED" ELSE "CONNECTING"
      /\ listening' \in BOOLEAN /\ tick' \in BOOLEAN /\ heard' = heard
  BY <1>0 DEF Reconnect, Announce, heardVars, TypeOK
<1>3. c = current /\ current # 0 /\ feeding = <<>>
  <2>1. c = current
    BY IsCurrent
  <2>2. c # 0 /\ pc[c] # "feeding"
    BY EventSourceAssumption DEF Conns
  <2> QED
    BY <1>0, <2>1, <2>2 DEF Parsing
<1>4. TypeOK' /\ Shapes'
  BY <1>0, <1>1, <1>2 DEF TypeOK, Shapes
<1>5. pc'[c] = IF readyState = "CLOSED" THEN "done" ELSE "erroring"
  BY <1>0, <1>2 DEF TypeOK
<1>6. Attempt' /\ Parsing' /\ Heard' /\ ExactlyOnce'
  BY <1>0, <1>1, <1>2, <1>3, <1>5 DEF Attempt, Parsing, Heard, ExactlyOnce, Busy
<1>7. ASSUME NEW d \in Conns PROVE Ordered(d)' /\ Awaiting(d)' /\ Flow(d)'
  <2>1. Ordered(d) /\ Awaiting(d) /\ d \in Int /\ current \in Int
    BY <1>0 DEF Conns, TypeOK
  <2>2. pc'[d] = IF d = c THEN pc'[c] ELSE pc[d]
    BY <1>0, <1>2 DEF TypeOK
  <2>3. Ordered(d)'
    BY <1>1, <1>2, <1>3, <1>5, <2>1, <2>2 DEF Ordered, Idle
  <2>4. d # c => pc[d] \notin {"fetching", "reading", "feeding", "dropping", "failing"}
    BY <1>3, IsCurrent
  <2>5. Awaiting(d)'
    BY <1>1, <1>5, <2>1, <2>2, <2>4 DEF Awaiting
  <2>6. Flow(d)'
    BY <1>1, <1>3, <1>5, <2>2 DEF Flow
  <2> QED
    BY <2>3, <2>5, <2>6
<1> QED
  BY <1>4, <1>6, <1>7 DEF Sound

\* fetch() fails: an error and a new attempt.
LEMMA FetchRejectsSound == ASSUME Sound, NEW c \in Conns, FetchRejects(c) PROVE Sound'
BY ReconnectSound DEF FetchRejects

\* The body ends or breaks: an error and a new attempt.
LEMMA ReadEndsSound == ASSUME Sound, NEW c \in Conns, ReadEnds(c) PROVE Sound'
BY ReconnectSound DEF ReadEnds

\* A coroutine of which nothing is left but to end: the listeners of its error have
\* returned, or its body is cancelled.
LEMMA EndsSound ==
  ASSUME Sound, NEW c \in Conns, pc[c] \in {"erroring", "dropping", "failing"},
         pc' = [pc EXCEPT ![c] = "done"], listening' \in BOOLEAN, tick' \in BOOLEAN,
         readyState' \in {readyState, "CLOSED"}, timer' = (readyState' # "CLOSED"),
         UNCHANGED <<closed, current, parserVars, netVars, heard>>
  PROVE  Sound'
<1>0. /\ TypeOK /\ Shapes /\ Attempt /\ Parsing /\ Heard /\ ExactlyOnce
      /\ \A d \in Conns : Ordered(d) /\ Awaiting(d) /\ Flow(d)
  BY DEF Sound
<1>1. UNCHANGED <<closed, current, lastEventId, lastEventIdBuffer, dataBuffer, buffer,
                  feeding, net, answer, arrived, served, heard>>
  BY DEF parserVars, netVars
<1>2. c = current /\ current # 0 /\ feeding = <<>>
  <2>1. c = current
    BY IsCurrent
  <2>2. c # 0 /\ pc[c] # "feeding"
    BY EventSourceAssumption DEF Conns
  <2> QED
    BY <1>0, <2>1, <2>2 DEF Parsing
<1>3. pc'[c] = "done" /\ \A d \in Conns : d # c => pc'[d] = pc[d]
  BY <1>0 DEF TypeOK
<1>4. TypeOK'
  <2>1. timer' \in BOOLEAN /\ readyState' \in {"CONNECTING", "OPEN", "CLOSED"}
    BY <1>0 DEF TypeOK
  <2> QED
    BY <1>0, <1>1, <2>1 DEF TypeOK
<1>5. Shapes'
  BY <1>0, <1>1 DEF Shapes
<1>6. Attempt' /\ Parsing' /\ Heard' /\ ExactlyOnce'
  <2>1. readyState' # "CLOSED" => readyState # "CLOSED"
    OBVIOUS
  <2>2. closed => readyState' = "CLOSED"
    BY <1>0 DEF Attempt
  <2>3. Attempt'
    <3>1. timer' <=> readyState' # "CLOSED"
      BY Zenon
    <3>2. current' # 0 /\ pc'[current'] = "done" /\ (closed' => readyState' = "CLOSED")
      BY <1>1, <1>2, <1>3, <2>2
    <3> QED
      BY <3>1, <3>2, Zenon DEF Attempt
  <2> QED
    BY <1>0, <1>1, <1>2, <2>1, <2>3 DEF Parsing, Heard, ExactlyOnce
<1>7. ASSUME NEW d \in Conns PROVE Ordered(d)' /\ Awaiting(d)' /\ Flow(d)'
  <2>1. Ordered(d) /\ Awaiting(d) /\ d \in Int /\ current \in Int
    BY <1>0 DEF Conns, TypeOK
  <2>2. pc'[d] = IF d = c THEN "done" ELSE pc[d]
    BY <1>3
  <2>3. readyState = "CLOSED" => readyState' = "CLOSED"
    OBVIOUS
  <2>4. d # c => pc[d] \notin {"fetching", "reading", "feeding", "dropping", "failing"}
    BY <1>2, IsCurrent
  <2>5. Ordered(d)'
    BY <1>1, <1>2, <2>1, <2>2, <2>3 DEF Ordered, Idle
  <2>6. Awaiting(d)'
    <3>1. d = c => net[d] \in {"none", "over"}
      BY <2>1 DEF Awaiting
    <3> QED
      BY <1>1, <2>1, <2>2, <2>4, <3>1 DEF Awaiting
  <2>7. Flow(d)'
    BY <1>1, <1>2, <2>2 DEF Flow
  <2> QED
    BY <2>5, <2>6, <2>7
<1> QED
  BY <1>4, <1>5, <1>6, <1>7 DEF Sound

\* The timer of the next attempt is set, unless a listener closed.
LEMMA ArmTimerSound == ASSUME Sound, NEW c \in Conns, ArmTimer(c) PROVE Sound'
<1>1. UNCHANGED <<closed, current, parserVars, netVars, heard, tick, readyState>>
  BY DEF ArmTimer, heardVars
<1>2. tick' \in BOOLEAN /\ listening' \in BOOLEAN /\ timer' = (readyState' # "CLOSED")
  BY <1>1 DEF ArmTimer, Rearm, Sound, TypeOK
<1>3. pc[c] = "erroring" /\ pc' = [pc EXCEPT ![c] = "done"]
  BY DEF ArmTimer
<1> QED
  BY <1>1, <1>2, <1>3, EndsSound

\* After the await of #cancelBody.
LEMMA CancelledSound == ASSUME Sound, NEW c \in Conns, Cancelled(c) PROVE Sound'
<1>1. c = current /\ c # 0 /\ pc[c] \in {"dropping", "failing"} /\ Awaiting(c) /\ Attempt
  BY IsCurrent, EventSourceAssumption DEF Cancelled, Sound, Conns
<1>2. readyState' = "CLOSED"
  BY <1>1 DEF Cancelled, Awaiting, heardVars
<1>3. timer' = FALSE
  BY <1>1 DEF Cancelled, Attempt, Sound, TypeOK
<1>4. /\ tick' \in BOOLEAN /\ listening' \in BOOLEAN
      /\ pc' = [pc EXCEPT ![c] = "done"] /\ heard' = heard
      /\ UNCHANGED <<closed, current, parserVars, netVars>>
  BY DEF Cancelled, Announce, heardVars, Sound, TypeOK
<1> QED
  BY <1>1, <1>2, <1>3, <1>4, EndsSound

\* fetch() resolves: the response is good or the source is closed.
LEMMA FetchResolvesSound == ASSUME Sound, NEW c \in Conns, FetchResolves(c) PROVE Sound'
<1> USE DEF FetchResolves, WasClosed
<1>0. /\ TypeOK /\ Shapes /\ Attempt /\ Parsing /\ Heard /\ ExactlyOnce
      /\ \A d \in Conns : Ordered(d) /\ Awaiting(d) /\ Flow(d)
  BY DEF Sound
<1>1. UNCHANGED <<closed, current, timer, listening, lastEventId, lastEventIdBuffer,
                  dataBuffer, buffer, feeding, heard>>
  BY DEF parserVars, heardVars, Announce
<1>2. UNCHANGED <<answer, served>>
  BY DEF CancelBody, netVars
<1>3. c = current /\ current # 0 /\ feeding = <<>> /\ net[c] \in {"sent", "over"}
  <2>1. c = current
    BY IsCurrent
  <2>2. c # 0 /\ pc[c] # "feeding" /\ Awaiting(c)
    BY <1>0, EventSourceAssumption DEF Conns
  <2> QED
    BY <1>0, <2>1, <2>2 DEF Parsing, Awaiting
<1>4. ~timer
  BY <1>0, <1>3 DEF Attempt
<1>5. \A d \in Conns : d # c =>
        pc[d] \notin {"fetching", "reading", "feeding", "dropping", "failing"}
  BY <1>3, IsCurrent
<1>6. CASE readyState = "CLOSED" \/ answer[c] = "bad"
  <2>1. /\ pc' = [pc EXCEPT ![c] = IF readyState = "CLOSED" THEN "dropping" ELSE "failing"]
        /\ AbortFetch(c) /\ UNCHANGED <<readyState, tick>>
    BY <1>6 DEF CancelBody, heardVars
  <2>2. /\ net' \in [Conns -> {"none", "unsent", "sent", "over"}]
        /\ arrived' \in [Conns -> Seq(Pieces)]
        /\ \A d \in Conns : d # c => net'[d] = net[d] /\ arrived'[d] = arrived[d]
        /\ net'[c] = "over"
    <3> HIDE DEF FetchResolves
    <3> QED
      BY <1>0, <1>3, <2>1, Aborted
  <2> HIDE DEF FetchResolves
  <2>3. /\ pc'[c] = (IF readyState = "CLOSED" THEN "dropping" ELSE "failing")
        /\ \A d \in Conns : d # c => pc'[d] = pc[d]
    BY <1>0, <2>1 DEF TypeOK
  <2>4. TypeOK' /\ Shapes'
    BY <1>0, <1>1, <1>2, <2>1, <2>2 DEF TypeOK, Shapes
  <2>5. Attempt' /\ Parsing' /\ Heard' /\ ExactlyOnce'
    BY <1>0, <1>1, <1>3, <1>4, <2>1, <2>3
       DEF Attempt, Parsing, Heard, ExactlyOnce, Busy
  <2>6. ASSUME NEW d \in Conns PROVE Ordered(d)' /\ Awaiting(d)' /\ Flow(d)'
    <3>1. Ordered(d) /\ Awaiting(d) /\ d \in Int /\ current \in Int
      BY <1>0 DEF Conns, TypeOK
    <3>2. Ordered(d)'
      BY <1>1, <1>2, <1>3, <2>1, <2>2, <2>3, <3>1 DEF Ordered, Idle
    <3>3. Awaiting(d)'
      <4>1. CASE d = c
        BY <1>1, <1>2, <2>1, <2>2, <2>3, <4>1 DEF Awaiting
      <4>2. CASE d # c
        BY <1>1, <1>2, <1>5, <2>1, <2>2, <2>3, <3>1, <4>2 DEF Awaiting
      <4> QED
        BY <4>1, <4>2
    <3>4. Flow(d)'
      BY <1>1, <1>3, <2>3 DEF Flow
    <3> QED
      BY <3>2, <3>3, <3>4
  <2> QED
    BY <2>4, <2>5, <2>6 DEF Sound
<1>7. CASE ~(readyState = "CLOSED" \/ answer[c] = "bad")
  <2>1. /\ readyState' = "OPEN" /\ tick' \in BOOLEAN /\ pc' = [pc EXCEPT ![c] = "reading"]
        /\ UNCHANGED <<net, arrived>>
    BY <1>0, <1>7 DEF Announce, netVars, TypeOK
  <2> HIDE DEF FetchResolves
  <2>3. pc'[c] = "reading" /\ \A d \in Conns : d # c => pc'[d] = pc[d]
    BY <1>0, <2>1 DEF TypeOK
  <2>4. TypeOK' /\ Shapes'
    BY <1>0, <1>1, <1>2, <2>1 DEF TypeOK, Shapes
  <2>5. Attempt' /\ Parsing' /\ Heard' /\ ExactlyOnce'
    BY <1>0, <1>1, <1>3, <1>4, <1>7, <2>1, <2>3
       DEF Attempt, Parsing, Heard, ExactlyOnce, Busy
  <2>6. ASSUME NEW d \in Conns PROVE Ordered(d)' /\ Awaiting(d)' /\ Flow(d)'
    <3>1. Ordered(d) /\ Awaiting(d) /\ d \in Int /\ current \in Int
      BY <1>0 DEF Conns, TypeOK
    <3>2. Ordered(d)'
      BY <1>1, <1>2, <1>3, <1>7, <2>1, <2>3, <3>1 DEF Ordered, Idle
    <3>3. Awaiting(d)'
      <4>1. CASE d = c
        BY <1>1, <1>2, <1>3, <2>1, <2>3, <3>1, <4>1 DEF Awaiting
      <4>2. CASE d # c
        BY <1>1, <1>2, <1>5, <2>1, <2>3, <3>1, <4>2 DEF Awaiting
      <4> QED
        BY <4>1, <4>2
    <3>4. Flow(d)'
      <4>1. CASE d = c
        <5>1. Flow(current) /\ Place' = Place
          BY <1>0, <1>1, <1>3, PlaceKept
        <5>2. pc[c] = "fetching"
          BY DEF FetchResolves
        <5> QED
          BY <1>1, <1>2, <1>3, <2>1, <4>1, <5>1, <5>2, FlowKept
      <4>2. CASE d # c
        BY <1>1, <1>3, <4>2 DEF Flow
      <4> QED
        BY <4>1, <4>2
    <3> QED
      BY <3>2, <3>3, <3>4
  <2> QED
    BY <2>4, <2>5, <2>6 DEF Sound
<1> QED
  BY <1>6, <1>7

\* A chunk of the body goes to the parser.
LEMMA ReadChunkSound == ASSUME Sound, NEW c \in Conns, ReadChunk(c) PROVE Sound'
<1>0. /\ TypeOK /\ Shapes /\ Attempt /\ Parsing /\ Heard /\ ExactlyOnce
      /\ \A d \in Conns : Ordered(d) /\ Awaiting(d) /\ Flow(d)
  BY DEF Sound
<1>1. UNCHANGED <<readyState, closed, current, timer, listening, lastEventId,
                  lastEventIdBuffer, dataBuffer, buffer, net, answer, served, heard, tick>>
  BY DEF ReadChunk, sourceVars, heardVars
<1>2. pc[c] = "reading" /\ pc' = [pc EXCEPT ![c] = "feeding"]
  BY DEF ReadChunk
<1> DEFINE s == arrived[c]
<1>3. PICK k \in 1..Len(s) : /\ feeding' = SubSeq(s, 1, k)
                             /\ arrived' = [arrived EXCEPT ![c] = SubSeq(s, k + 1, Len(s))]
  BY <1>0 DEF ReadChunk, Shapes
<1>4. c = current /\ current # 0 /\ feeding = <<>>
  <2>1. c = current
    BY <1>2, IsCurrent
  <2>2. c # 0
    BY EventSourceAssumption DEF Conns
  <2> QED
    BY <1>0, <1>2, <2>1, <2>2 DEF Parsing
<1>5. s \in Seq(Pieces) /\ Runs(Place, s)
      /\ (net[c] \in {"unsent", "sent"} => End(Place, s) = served[c])
  <2>1. /\ Runs(End(Place, feeding), s)
        /\ net[c] \in {"unsent", "sent"} => End(End(Place, feeding), s) = served[c]
    BY <1>0, <1>2, <1>4 DEF Flow
  <2>2. End(Place, feeding) = Place
    BY <1>4, RunsEmpty
  <2> QED
    BY <1>0, <2>1, <2>2 DEF Shapes
<1> DEFINE u == SubSeq(s, 1, k)
           v == SubSeq(s, k + 1, Len(s))
<1>6. /\ u \in Seq(Pieces) /\ v \in Seq(Pieces) /\ Runs(Place, u) /\ Runs(End(Place, u), v)
      /\ End(End(Place, u), v) = End(Place, s)
  <2> HIDE DEF s
  <2> QED
    BY <1>5, RunsSplit
<1>7. feeding' = u /\ arrived' = [arrived EXCEPT ![c] = v]
  BY <1>3
<1>8. Place' = Place
  BY <1>1, PlaceKept
<1> HIDE DEF s, u, v
<1>9. /\ pc'[c] = "feeding" /\ arrived'[c] = v
      /\ \A d \in Conns : d # c => pc'[d] = pc[d] /\ arrived'[d] = arrived[d]
  BY <1>0, <1>2, <1>7 DEF TypeOK, Shapes
<1>10. TypeOK' /\ Shapes'
  BY <1>0, <1>1, <1>2, <1>6, <1>7 DEF TypeOK, Shapes
<1>11. Attempt' /\ Parsing' /\ Heard' /\ ExactlyOnce'
  BY <1>0, <1>1, <1>2, <1>4, <1>9 DEF Attempt, Parsing, Heard, ExactlyOnce, Busy
<1>12. ASSUME NEW d \in Conns PROVE Ordered(d)' /\ Awaiting(d)' /\ Flow(d)'
  <2>1. Ordered(d) /\ Awaiting(d) /\ d \in Int /\ current \in Int
    BY <1>0 DEF Conns, TypeOK
  <2>2. Ordered(d)'
    BY <1>1, <1>2, <1>4, <1>9, <2>1 DEF Ordered, Idle
  <2>3. Awaiting(d)'
    <3>1. CASE d = c
      BY <1>1, <1>2, <1>9, <2>1, <3>1 DEF Awaiting
    <3>2. CASE d # c
      BY <1>1, <1>9, <2>1, <3>2 DEF Awaiting
    <3> QED
      BY <3>1, <3>2
  <2>4. Flow(d)'
    <3>1. CASE d = c
      <4>1. /\ Runs(Place', feeding') /\ Runs(End(Place', feeding'), arrived'[d])
            /\ net'[d] \in {"unsent", "sent"} =>
                 End(End(Place', feeding'), arrived'[d]) = served'[d]
        BY <1>1, <1>5, <1>6, <1>7, <1>8, <1>9, <3>1
      <4> QED
        BY <4>1 DEF Flow, Runs, End, Place, Parsed
    <3>2. CASE d # c
      BY <1>1, <1>4, <3>2 DEF Flow
    <3> QED
      BY <3>1, <3>2
  <2> QED
    BY <2>2, <2>3, <2>4
<1> QED
  BY <1>10, <1>11, <1>12 DEF Sound

\* The chunk is split: the loop reads on or ends.
LEMMA FeedReturnsSound == ASSUME Sound, NEW c \in Conns, FeedReturns(c) PROVE Sound'
<1>0. /\ TypeOK /\ Shapes /\ Attempt /\ Parsing /\ Heard /\ ExactlyOnce
      /\ \A d \in Conns : Ordered(d) /\ Awaiting(d) /\ Flow(d)
  BY DEF Sound
<1>1. UNCHANGED <<readyState, closed, current, timer, lastEventId, lastEventIdBuffer,
                  dataBuffer, buffer, feeding, net, answer, arrived, served, heard, tick>>
  BY DEF FeedReturns, parserVars, netVars, heardVars
<1>2. /\ pc[c] = "feeding" /\ feeding = <<>> /\ listening' = FALSE
      /\ pc' = [pc EXCEPT ![c] = IF readyState = "CLOSED" THEN "done" ELSE "reading"]
  BY DEF FeedReturns
<1>3. c = current
  BY <1>2, IsCurrent
<1>4. /\ pc'[c] = (IF readyState = "CLOSED" THEN "done" ELSE "reading")
      /\ \A d \in Conns : d # c => pc'[d] = pc[d]
  BY <1>0, <1>2 DEF TypeOK
<1>5. TypeOK' /\ Shapes'
  BY <1>0, <1>1, <1>2 DEF TypeOK, Shapes
<1>6. Attempt' /\ Parsing' /\ Heard' /\ ExactlyOnce'
  BY <1>0, <1>1, <1>2, <1>3, <1>4 DEF Attempt, Parsing, Heard, ExactlyOnce, Busy
<1>7. ASSUME NEW d \in Conns PROVE Ordered(d)' /\ Awaiting(d)' /\ Flow(d)'
  <2>1. Ordered(d) /\ Awaiting(d) /\ d \in Int /\ current \in Int
    BY <1>0 DEF Conns, TypeOK
  <2>2. Ordered(d)'
    BY <1>1, <1>2, <1>3, <1>4, <2>1 DEF Ordered, Idle
  <2>3. Awaiting(d)'
    <3>1. CASE d = c
      BY <1>1, <1>2, <1>4, <2>1, <3>1 DEF Awaiting
    <3>2. CASE d # c
      BY <1>1, <1>4, <2>1, <3>2 DEF Awaiting
    <3> QED
      BY <3>1, <3>2
  <2>4. Flow(d)'
    <3>1. CASE d = c
      <4>1. Flow(current) /\ Place' = Place
        BY <1>0, <1>1, <1>3, PlaceKept
      <4> QED
        BY <1>1, <1>2, <1>3, <3>1, <4>1, FlowKept
    <3>2. CASE d # c
      BY <1>1, <1>3, <3>2 DEF Flow
    <3> QED
      BY <3>1, <3>2
  <2> QED
    BY <2>2, <2>3, <2>4
<1> QED
  BY <1>5, <1>6, <1>7 DEF Sound

\* What the parser holds when a piece of the stream that follows its place is next: the
\* parts of the event it belongs to that came before.
LEMMA NextPiece ==
  ASSUME TypeOK, Parsing, NEW x \in Pieces, Before(x) = Place
  PROVE  /\ x[1][2] = lastEventId + 1 /\ x[1][2] \in 1..MaxEvent
         /\ LineOf(x) = Parsed + 1 /\ (x[2] = "tail" <=> buffer = current)
         /\ x[1][1] = "id" => lastEventIdBuffer = lastEventId /\ dataBuffer = 0
         /\ x[1][1] = "data" => lastEventIdBuffer = lastEventId + 1 /\ dataBuffer = 0
         /\ x[1][1] = "blank" =>
              lastEventIdBuffer = lastEventId + 1 /\ dataBuffer = lastEventId + 1
<1> DEFINE f == x[1][1]
           n == x[1][2]
           k == CASE f = "id" -> 1 [] f = "data" -> 2 [] OTHER -> 3
           j == IF dataBuffer = 0 THEN 0 ELSE 1
           m == lastEventIdBuffer - lastEventId
           L == LineOf(x)
<1>1. n \in 1..MaxEvent /\ MaxEvent \in Nat /\ L \in Int /\ f \in Fields
  BY LineType, EventSourceAssumption
<1>2. L = 3 * (n - 1) + k
  BY DEF LineOf
<1>3. /\ f = "id" => k = 1
      /\ f = "data" => k = 2
      /\ f = "blank" => k = 3
      /\ k \in 1..3
  OBVIOUS
<1>4. <<L - 1, x[2] = "tail">> = <<Parsed, buffer = current>>
  BY DEF Before, Place
<1>5. L - 1 = Parsed /\ ((x[2] = "tail") = (buffer = current))
  <2> HIDE DEF L
  <2> QED
    BY <1>4
<1>6. lastEventId \in Nat /\ lastEventIdBuffer \in Nat /\ dataBuffer \in Nat
  BY <1>1 DEF TypeOK
<1>7. m \in 0..1 /\ j \in 0..1 /\ (j = 1 => m = 1) /\ lastEventIdBuffer = lastEventId + m
  BY <1>6 DEF Parsing
<1>8. (dataBuffer = 0 <=> j = 0) /\ (j = 1 => dataBuffer = lastEventId + 1)
  BY <1>6 DEF Parsing
<1>9. Parsed = lastEventId * 3 + m + j
  BY DEF Parsed
<1> HIDE DEF f, n, k, j, m, L
<1>10. n = lastEventId + 1 /\ k = m + j + 1
  BY <1>1, <1>2, <1>3, <1>5, <1>6, <1>7, <1>9
<1>11. L = Parsed + 1
  BY <1>1, <1>5, <1>6, <1>7, <1>9
<1>12. /\ f = "id" => m = 0 /\ j = 0
       /\ f = "data" => m = 1 /\ j = 0
       /\ f = "blank" => m = 1 /\ j = 1
  BY <1>3, <1>7, <1>10
<1>13. /\ f = "id" => lastEventIdBuffer = lastEventId /\ dataBuffer = 0
       /\ f = "data" => lastEventIdBuffer = lastEventId + 1 /\ dataBuffer = 0
       /\ f = "blank" => lastEventIdBuffer = lastEventId + 1 /\ dataBuffer = lastEventId + 1
  BY <1>6, <1>7, <1>8, <1>12
<1> QED
  BY <1>1, <1>5, <1>10, <1>11, <1>13 DEF f, n, L

\* A piece moves the parser behind it, and the blank line of an event dispatches it.
LEMMA FeedMoves ==
  ASSUME Sound, NEW c \in Conns, Feed(c)
  PROVE  /\ c = current /\ c # 0 /\ pc[c] = "feeding"
         /\ feeding' \in Seq(Pieces) /\ feeding' = Tail(feeding)
         /\ Runs(Place', feeding') /\ End(Place', feeding') = End(Place, feeding)
         /\ {lastEventId', lastEventIdBuffer', dataBuffer'} \subseteq 0..MaxEvent
         /\ buffer' \in {0, current} /\ listening' \in BOOLEAN /\ tick' \in BOOLEAN
         /\ heard' \in Seq(Nat \X Nat) /\ Parsing' /\ Heard' /\ ExactlyOnce'
<1> DEFINE x == Head(feeding)
           field == x[1][1]
           n == x[1][2]
<1>0. TypeOK /\ Shapes /\ Parsing /\ Heard /\ ExactlyOnce /\ Flow(c) /\ MaxEvent \in Nat
  BY EventSourceAssumption DEF Sound
<1>1. pc[c] = "feeding" /\ feeding # <<>> /\ feeding' = Tail(feeding)
  BY DEF Feed
<1>2. c = current /\ c # 0
  <2>1. c = current
    BY <1>1, IsCurrent
  <2> QED
    BY <2>1, EventSourceAssumption DEF Conns
<1>3. feeding \in Seq(Pieces) /\ Runs(Place, feeding)
  BY <1>0, <1>1, <1>2 DEF Flow, Shapes
<1>4. /\ x \in Pieces /\ Tail(feeding) \in Seq(Pieces) /\ Before(x) = Place
      /\ Runs(After(x), Tail(feeding)) /\ End(After(x), Tail(feeding)) = End(Place, feeding)
  BY <1>1, <1>3, RunsTail
<1>5. UNCHANGED <<readyState, closed, current, timer, pc>>
  BY DEF Feed
<1>6. (x[2] = "tail" <=> buffer = current) /\ (x[2] # "tail" => buffer = 0)
  BY <1>0, <1>4, NextPiece DEF TypeOK
<1>7. CASE x[2] = "head"
  <2>1. /\ buffer' = c /\ listening' = FALSE
        /\ UNCHANGED <<lastEventId, lastEventIdBuffer, dataBuffer, heard, tick>>
    BY <1>7 DEF Feed, heardVars
  <2>2. Place' = <<Parsed, TRUE>>
    BY <1>2, <1>5, <2>1 DEF Place, Parsed
  <2>3. After(x) = <<LineOf(x) - 1, TRUE>> /\ LineOf(x) \in Int
    <3>1. LineOf(x) \in Int
      BY <1>0, <1>4, LineType
    <3> QED
      BY <1>7, <3>1, Zenon DEF After
  <2>4. Before(x) = <<LineOf(x) - 1, FALSE>>
    BY <1>7 DEF Before
  <2>5. LineOf(x) - 1 = Parsed
    <3> DEFINE l == LineOf(x) - 1
               b == buffer = current
    <3>1. <<l, FALSE>> = <<Parsed, b>>
      BY <1>4, <2>4 DEF Place
    <3> HIDE DEF l, b
    <3>2. l = Parsed
      BY <3>1
    <3> QED
      BY <3>2 DEF l
  <2>6. Place' = After(x)
    BY <2>2, <2>3, <2>5
  <2>7. Parsing' /\ Heard' /\ ExactlyOnce'
    BY <1>0, <1>1, <1>2, <1>5, <2>1 DEF Parsing, Heard, ExactlyOnce
  <2> QED
    BY <1>0, <1>1, <1>2, <1>4, <2>1, <2>6, <2>7 DEF TypeOK, Shapes
<1>8. CASE x[2] # "head"
  <2>1. /\ n = lastEventId + 1 /\ n \in 1..MaxEvent /\ LineOf(x) = Parsed + 1
        /\ field = "id" => lastEventIdBuffer = lastEventId /\ dataBuffer = 0
        /\ field = "data" => lastEventIdBuffer = lastEventId + 1 /\ dataBuffer = 0
        /\ field = "blank" =>
             lastEventIdBuffer = lastEventId + 1 /\ dataBuffer = lastEventId + 1
    BY <1>0, <1>4, NextPiece
  <2>2. /\ buffer' = 0
        /\ IF field = "blank" THEN DispatchMessage ELSE ProcessField(field, n)
    BY <1>2, <1>6, <1>8 DEF Feed
  <2>3. field \in Fields
    BY <1>4, LineType
  <2>4. After(x) = <<LineOf(x), FALSE>>
    BY <1>8 DEF After
  <2>5. lastEventId \in 0..MaxEvent /\ lastEventId \in Nat
    BY <1>0 DEF TypeOK
  <2> HIDE DEF field, n
  <2>6. CASE field = "blank"
    <3>1. lastEventIdBuffer = n /\ dataBuffer = n /\ n \in Nat /\ n # 0
      BY <1>0, <2>1, <2>6
    <3>2. /\ lastEventId' = n /\ lastEventIdBuffer' = n /\ dataBuffer' = 0
          /\ heard' = IF readyState # "CLOSED" THEN Append(heard, <<n, n>>) ELSE heard
          /\ listening' \in BOOLEAN /\ tick' \in BOOLEAN
      BY <1>0, <2>2, <2>6, <3>1 DEF DispatchMessage, MayDispatch, heardVars, TypeOK
    <3>3. Parsed' = Parsed + 1
      <4>1. Parsed = lastEventId * 3 + (n - lastEventId) + 1
        BY <3>1 DEF Parsed
      <4>2. Parsed' = n * 3 + (n - n) + 0
        BY <3>2 DEF Parsed
      <4> QED
        BY <2>1, <2>5, <4>1, <4>2
    <3>4. Place' = After(x)
      BY <1>2, <1>5, <2>1, <2>2, <2>4, <3>3 DEF Place
    <3>5. Parsing'
      BY <1>1, <1>2, <1>5, <3>2 DEF Parsing
    <3>6. heard \in Seq(Nat \X Nat) /\ <<n, n>> \in Nat \X Nat
      BY <1>0, <3>1 DEF Shapes
    <3>7. Heard' /\ ExactlyOnce' /\ heard' \in Seq(Nat \X Nat)
      <4>1. CASE readyState = "CLOSED"
        BY <1>0, <1>5, <3>2, <3>6, <4>1 DEF Heard, ExactlyOnce
      <4>2. CASE readyState # "CLOSED"
        <5> DEFINE h == Append(heard, <<n, n>>)
        <5>1. Len(heard) = lastEventId
          BY <1>0, <4>2 DEF Heard
        <5>2. /\ h \in Seq(Nat \X Nat) /\ Len(h) = lastEventId + 1 /\ h[lastEventId + 1] = <<n, n>>
              /\ \A i \in 1..lastEventId : h[i] = heard[i]
          BY <3>6, <5>1
        <5>3. \A i \in 1..lastEventId : heard[i] = <<i, i>>
          <6>1. DOMAIN heard = 1..lastEventId
            BY <3>6, <5>1
          <6> QED
            BY <1>0, <6>1, Zenon DEF ExactlyOnce
        <5>4. heard' = h
          BY <3>2, <4>2
        <5>5. DOMAIN h = 1..n
          BY <2>1, <5>2
        <5> HIDE DEF h
        <5>6. \A i \in 1..n : h[i] = <<i, i>>
          <6> SUFFICES ASSUME NEW i \in 1..n PROVE h[i] = <<i, i>>
            OBVIOUS
          <6>1. i \in 1..lastEventId \/ i = n
            BY <2>1, <2>5
          <6> QED
            BY <2>1, <5>2, <5>3, <6>1
        <5> QED
          BY <2>1, <3>2, <5>2, <5>4, <5>5, <5>6 DEF Heard, ExactlyOnce
      <4> QED
        BY <4>1, <4>2
    <3> QED
      BY <1>0, <1>1, <1>2, <1>4, <2>1, <2>2, <3>1, <3>2, <3>4, <3>5, <3>7
  <2>7. CASE field # "blank"
    <3>1. /\ lastEventIdBuffer' = (IF field = "id" THEN n ELSE lastEventIdBuffer)
          /\ dataBuffer' = (IF field = "data" THEN n ELSE dataBuffer)
          /\ listening' = FALSE /\ UNCHANGED <<lastEventId, heard, tick>>
      BY <2>2, <2>7 DEF ProcessField, heardVars
    <3>2. field = "id" \/ field = "data"
      BY <2>3, <2>7 DEF Fields
    <3>3. /\ lastEventIdBuffer' = lastEventId + 1
          /\ dataBuffer' = IF field = "data" THEN lastEventId + 1 ELSE 0
      BY <2>1, <3>1, <3>2
    <3>4. Parsed' = Parsed + 1
      <4>1. CASE field = "id"
        <5>1. Parsed = lastEventId * 3 + (lastEventId - lastEventId) + 0
          BY <2>1, <2>5, <4>1 DEF Parsed
        <5>2. Parsed' = lastEventId * 3 + (lastEventId + 1 - lastEventId) + 0
          BY <2>5, <3>1, <3>3, <4>1 DEF Parsed
        <5> QED
          BY <2>5, <5>1, <5>2
      <4>2. CASE field = "data"
        <5>1. Parsed = lastEventId * 3 + (lastEventId + 1 - lastEventId) + 0
          BY <2>1, <2>5, <4>2 DEF Parsed
        <5>2. Parsed' = lastEventId * 3 + (lastEventId + 1 - lastEventId) + 1
          BY <2>5, <3>1, <3>3, <4>2 DEF Parsed
        <5> QED
          BY <2>5, <5>1, <5>2
      <4> QED
        BY <3>2, <4>1, <4>2
    <3>5. Place' = After(x)
      BY <1>2, <1>5, <2>1, <2>2, <2>4, <3>4 DEF Place
    <3>6. Parsing'
      BY <1>1, <1>2, <1>5, <2>5, <3>1, <3>3 DEF Parsing
    <3>7. Heard' /\ ExactlyOnce' /\ heard' \in Seq(Nat \X Nat)
      BY <1>0, <1>5, <3>1 DEF Heard, ExactlyOnce, Shapes
    <3>8. {lastEventId', lastEventIdBuffer', dataBuffer'} \subseteq 0..MaxEvent /\ tick' \in BOOLEAN
      BY <1>0, <2>1, <2>5, <3>1, <3>3 DEF TypeOK
    <3> QED
      BY <1>1, <1>2, <1>4, <2>2, <3>1, <3>5, <3>6, <3>7, <3>8
  <2> QED
    BY <2>6, <2>7
<1> QED
  BY <1>7, <1>8

\* A piece of a chunk.
LEMMA FeedSound == ASSUME Sound, NEW c \in Conns, Feed(c) PROVE Sound'
<1>0. /\ TypeOK /\ Shapes /\ Attempt
      /\ \A d \in Conns : Ordered(d) /\ Awaiting(d) /\ Flow(d)
  BY DEF Sound
<1>1. UNCHANGED <<readyState, closed, current, timer, pc, net, answer, arrived, served>>
  BY DEF Feed, netVars
<1>2. /\ c = current /\ c # 0 /\ pc[c] = "feeding"
      /\ feeding' \in Seq(Pieces)
      /\ Runs(Place', feeding') /\ End(Place', feeding') = End(Place, feeding)
      /\ {lastEventId', lastEventIdBuffer', dataBuffer'} \subseteq 0..MaxEvent
      /\ buffer' \in {0, current} /\ listening' \in BOOLEAN /\ tick' \in BOOLEAN
      /\ heard' \in Seq(Nat \X Nat)
  BY FeedMoves
<1>3. Parsing' /\ Heard' /\ ExactlyOnce'
  BY FeedMoves
<1>4. TypeOK'
  BY <1>0, <1>1, <1>2 DEF TypeOK
<1>5. Shapes'
  BY <1>0, <1>1, <1>2 DEF Shapes
<1>6. Attempt'
  BY <1>0, <1>1 DEF Attempt, Busy
<1>7. ASSUME NEW d \in Conns PROVE Ordered(d)' /\ Awaiting(d)' /\ Flow(d)'
  <2>1. Ordered(d)' /\ Awaiting(d)'
    BY <1>0, <1>1 DEF Ordered, Awaiting, Idle
  <2>2. Flow(d)'
    <3>1. CASE d = c
      <4>1. /\ Runs(End(Place, feeding), arrived[c])
            /\ net[c] \in {"unsent", "sent"} =>
                 End(End(Place, feeding), arrived[c]) = served[c]
        BY <1>0, <1>2 DEF Flow
      <4>2. /\ Runs(Place', feeding') /\ Runs(End(Place', feeding'), arrived'[d])
            /\ net'[d] \in {"unsent", "sent"} =>
                 End(End(Place', feeding'), arrived'[d]) = served'[d]
        BY <1>1, <1>2, <3>1, <4>1
      <4> QED
        BY <4>2 DEF Flow, Runs, End, Place, Parsed
    <3>2. CASE d # c
      BY <1>1, <1>2, <3>2 DEF Flow
    <3> QED
      BY <3>1, <3>2
  <2> QED
    BY <2>1, <2>2
<1> QED
  BY <1>3, <1>4, <1>5, <1>6, <1>7 DEF Sound

\* A step of the network changes the request of one connection, and neither the source
\* nor its parser.  How the stream follows is left to the step.
LEMMA NetworkSound ==
  ASSUME Sound, NEW c \in Conns, Network,
         net' \in [Conns -> {"none", "unsent", "sent", "over"}],
         answer' \in [Conns -> {"none", "good", "bad"}],
         arrived' \in [Conns -> Seq(Pieces)],
         served' \in [Conns -> (0..(3 * MaxEvent)) \X BOOLEAN],
         \A d \in Conns : d # c => /\ net'[d] = net[d] /\ answer'[d] = answer[d]
                                   /\ arrived'[d] = arrived[d] /\ served'[d] = served[d],
         net[c] \in {"unsent", "sent"},
         net'[c] \in {"sent", "over"}, net[c] = "unsent" => net'[c] = "sent",
         answer'[c] # answer[c] => net[c] = "sent", Flow(c)'
  PROVE  Sound'
<1>0. /\ TypeOK /\ Shapes /\ Attempt /\ Parsing /\ Heard /\ ExactlyOnce
      /\ \A d \in Conns : Ordered(d) /\ Awaiting(d) /\ Flow(d)
  BY DEF Sound
<1>1. UNCHANGED <<readyState, closed, current, timer, listening, lastEventId, lastEventIdBuffer,
                  dataBuffer, buffer, feeding, pc, heard, tick>>
  BY DEF Network, sourceVars, parserVars, heardVars
<1>2. c = current /\ pc[c] \in {"fetching", "reading", "feeding"}
  BY IsMade
<1>3. TypeOK' /\ Shapes'
  BY <1>0, <1>1 DEF TypeOK, Shapes
<1>4. Attempt' /\ Parsing' /\ Heard' /\ ExactlyOnce'
  BY <1>0, <1>1 DEF Attempt, Parsing, Heard, ExactlyOnce, Busy
<1>5. ASSUME NEW d \in Conns PROVE Ordered(d)' /\ Awaiting(d)' /\ Flow(d)'
  <2>1. Ordered(d) /\ Awaiting(d) /\ d \in Int /\ current \in Int
    BY <1>0 DEF Conns, TypeOK
  <2>2. CASE d = c
    <3>1. Ordered(d)'
      BY <1>1, <1>2, <2>1, <2>2 DEF Ordered
    <3>2. Awaiting(d)'
      BY <1>1, <1>2, <2>1, <2>2 DEF Awaiting
    <3> QED
      BY <2>2, <3>1, <3>2
  <2>3. CASE d # c
    <3>1. net'[d] = net[d] /\ answer'[d] = answer[d] /\ arrived'[d] = arrived[d]
      BY <2>3
    <3>2. Ordered(d)' /\ Awaiting(d)'
      BY <1>1, <2>1, <3>1 DEF Ordered, Awaiting, Idle
    <3>3. Flow(d)'
      BY <1>1, <1>2, <2>3 DEF Flow
    <3> QED
      BY <3>2, <3>3
  <2> QED
    BY <2>2, <2>3
<1> QED
  BY <1>3, <1>4, <1>5 DEF Sound

\* The current request and its stream.
LEMMA NetworkFlow ==
  ASSUME Sound, NEW c \in Conns, Network, net[c] \in {"unsent", "sent"},
         served'[c] = served[c], arrived'[c] \in {arrived[c], <<>>},
         net'[c] \in {"unsent", "sent"} => arrived'[c] = arrived[c]
  PROVE  Flow(c)'
<1>1. UNCHANGED <<current, lastEventId, lastEventIdBuffer, dataBuffer, buffer, feeding, pc>>
  BY DEF Network, sourceVars, parserVars
<1>2. c = current /\ Flow(current)
  BY IsMade DEF Sound
<1>3. Place' = Place
  BY <1>1, PlaceKept
<1> QED
  BY <1>1, <1>2, <1>3, FlowKept

\* The request is sent.
LEMMA SendRequestSound == ASSUME Sound, NEW c \in Conns, SendRequest(c) PROVE Sound'
<1>1. /\ Network /\ net[c] = "unsent" /\ net' = [net EXCEPT ![c] = "sent"]
      /\ UNCHANGED <<answer, arrived, served>> /\ TypeOK /\ Shapes
  BY DEF SendRequest, Sound
<1>2. Flow(c)'
  BY <1>1, NetworkFlow
<1>3. net' \in [Conns -> {"none", "unsent", "sent", "over"}] /\ net'[c] = "sent"
      /\ \A d \in Conns : d # c => net'[d] = net[d]
  BY <1>1 DEF TypeOK
<1> QED
  BY <1>1, <1>2, <1>3, NetworkSound DEF TypeOK, Shapes

\* The server answers.
LEMMA RespondSound == ASSUME Sound, NEW c \in Conns, Respond(c) PROVE Sound'
<1>1. PICK how \in {"good", "bad"} : answer' = [answer EXCEPT ![c] = how]
  BY DEF Respond
<1>2. Network /\ net[c] = "sent" /\ UNCHANGED <<net, arrived, served>> /\ TypeOK /\ Shapes
  BY DEF Respond, Sound
<1>3. Flow(c)'
  BY <1>2, NetworkFlow
<1>4. /\ answer' \in [Conns -> {"none", "good", "bad"}]
      /\ \A d \in Conns : d # c => answer'[d] = answer[d]
  BY <1>1, <1>2 DEF TypeOK
<1> QED
  BY <1>2, <1>3, <1>4, NetworkSound DEF TypeOK, Shapes

\* The request ends or breaks off.
LEMMA EndRequestSound == ASSUME Sound, NEW c \in Conns, EndRequest(c) PROVE Sound'
<1>1. /\ Network /\ net[c] = "sent" /\ net' = [net EXCEPT ![c] = "over"]
      /\ UNCHANGED <<answer, served>> /\ TypeOK /\ Shapes
      /\ arrived' = arrived \/ arrived' = [arrived EXCEPT ![c] = <<>>]
  BY DEF EndRequest, Sound
<1>2. /\ net' \in [Conns -> {"none", "unsent", "sent", "over"}] /\ net'[c] = "over"
      /\ \A d \in Conns : d # c => net'[d] = net[d]
  BY <1>1 DEF TypeOK
<1>3. /\ arrived' \in [Conns -> Seq(Pieces)] /\ arrived'[c] \in {arrived[c], <<>>}
      /\ \A d \in Conns : d # c => arrived'[d] = arrived[d]
  <2>1. <<>> \in Seq(Pieces) /\ arrived \in [Conns -> Seq(Pieces)]
    BY <1>1 DEF Shapes
  <2>2. CASE arrived' = arrived
    BY <2>1, <2>2
  <2>3. CASE arrived' = [arrived EXCEPT ![c] = <<>>]
    BY <2>1, <2>3
  <2> QED
    BY <1>1, <2>2, <2>3
<1>4. Flow(c)'
  BY <1>1, <1>2, <1>3, NetworkFlow
<1> QED
  BY <1>1, <1>2, <1>3, <1>4, NetworkSound DEF TypeOK, Shapes

\* What arrives is what the server writes next.
LEMMA ArriveSound == ASSUME Sound, NEW c \in Conns, Arrive(c) PROVE Sound'
<1> DEFINE i == served[c][1] + 1
           half == served[c][2]
<1>0. TypeOK /\ Shapes /\ Flow(c) /\ MaxEvent \in Nat
  BY EventSourceAssumption DEF Sound
<1>1. /\ Network /\ net[c] = "sent" /\ i <= 3 * MaxEvent /\ UNCHANGED <<net, answer>>
  BY DEF Arrive
<1>2. PICK piece \in (IF half THEN {"tail"} ELSE {"whole", "head"}) :
        /\ arrived' = [arrived EXCEPT ![c] = Append(arrived[c], <<Line(i), piece>>)]
        /\ served' = [served EXCEPT ![c] = IF piece = "head" THEN <<i - 1, TRUE>>
                                                             ELSE <<i, FALSE>>]
  BY <1>0 DEF Arrive, Shapes
<1>3. c = current /\ pc[c] \in {"fetching", "reading", "feeding"}
  BY <1>1, IsMade
<1>4. UNCHANGED <<current, lastEventId, lastEventIdBuffer, dataBuffer, buffer, feeding, pc>>
  BY <1>1 DEF Network, sourceVars, parserVars
<1>5. Place' = Place
  BY <1>4, PlaceKept
<1>6. served[c] = <<i - 1, half>> /\ i \in 1..(3 * MaxEvent) /\ half \in BOOLEAN
  <2>1. served[c] \in (0..(3 * MaxEvent)) \X BOOLEAN
    BY <1>0 DEF Shapes
  <2>2. PICK n \in 0..(3 * MaxEvent), b \in BOOLEAN : served[c] = <<n, b>>
    BY <2>1
  <2>3. i = n + 1 /\ half = b
    BY <2>2
  <2> HIDE DEF i, half
  <2> QED
    BY <1>0, <1>1, <2>2, <2>3
<1> DEFINE x == <<Line(i), piece>>
           w == IF piece = "head" THEN <<i - 1, TRUE>> ELSE <<i, FALSE>>
           e == End(Place, feeding)
           s == Append(arrived[c], x)
<1> HIDE DEF i, half
<1>7. piece \in {"whole", "head", "tail"} /\ (half <=> piece = "tail")
  BY <1>2, <1>6
<1>8. x \in Pieces /\ LineOf(x) = i
  BY <1>6, <1>7, LineFacts
<1>9. Before(x) = <<i - 1, half>> /\ After(x) = w
  BY <1>6, <1>7, <1>8, Zenon DEF Before, After
<1>10. w \in (0..(3 * MaxEvent)) \X BOOLEAN
  <2>1. i \in 0..(3 * MaxEvent) /\ i - 1 \in 0..(3 * MaxEvent)
    BY <1>0, <1>6
  <2> QED
    BY <2>1
<1>11. /\ arrived[c] \in Seq(Pieces) /\ Runs(Place, feeding) /\ Runs(e, arrived[c])
       /\ End(e, arrived[c]) = served[c]
  BY <1>0, <1>1, <1>3 DEF Flow, Shapes
<1> HIDE DEF x, e, w
<1>12. s \in Seq(Pieces) /\ Runs(e, s) /\ End(e, s) = After(x)
  BY <1>6, <1>8, <1>9, <1>11, RunsAppend
<1>13. arrived' = [arrived EXCEPT ![c] = s] /\ served' = [served EXCEPT ![c] = w]
  BY <1>2 DEF x, w
<1> HIDE DEF s
<1>14. /\ arrived' \in [Conns -> Seq(Pieces)] /\ arrived'[c] = s
       /\ served' \in [Conns -> (0..(3 * MaxEvent)) \X BOOLEAN] /\ served'[c] = w
       /\ \A d \in Conns : d # c => arrived'[d] = arrived[d] /\ served'[d] = served[d]
  BY <1>0, <1>10, <1>12, <1>13 DEF Shapes
<1>15. /\ Runs(Place', feeding') /\ Runs(End(Place', feeding'), arrived'[c])
       /\ End(End(Place', feeding'), arrived'[c]) = served'[c]
  BY <1>4, <1>5, <1>9, <1>11, <1>12, <1>14 DEF e
<1>16. Flow(c)'
  BY <1>15 DEF Flow, Runs, End, Place, Parsed
<1> QED
  BY <1>0, <1>1, <1>14, <1>16, NetworkSound DEF TypeOK

----------------------------------------------------------------------------
\* Every step keeps the invariant.
LEMMA NextSound == ASSUME Sound, [Next]_vars PROVE Sound'
<1>1. CASE Close
  BY <1>1, CloseSound
<1>2. CASE FirstConnect
  BY <1>2, FirstConnectSound
<1>3. CASE TimerFires
  BY <1>3, TimerFiresSound
<1>4. ASSUME NEW c \in Conns, Coroutine(c) PROVE Sound'
  BY <1>4, FetchRejectsSound, FetchResolvesSound, CancelledSound, ReadChunkSound,
     ReadEndsSound, FeedSound, FeedReturnsSound, ArmTimerSound DEF Coroutine
<1>5. ASSUME NEW c \in Conns,
             SendRequest(c) \/ Respond(c) \/ Arrive(c) \/ EndRequest(c)
      PROVE  Sound'
  BY <1>5, SendRequestSound, RespondSound, ArriveSound, EndRequestSound
<1>6. CASE UNCHANGED vars
  BY <1>6 DEF vars, sourceVars, parserVars, netVars, heardVars, Sound, TypeOK, Shapes, Attempt,
     Parsing, Heard, ExactlyOnce, Ordered, Awaiting, Flow, Idle, Busy, Runs, End, Place, Parsed
<1> QED
  BY <1>1, <1>2, <1>3, <1>4, <1>5, <1>6 DEF Next

\* The invariant holds.
LEMMA SourceSound == Spec => []Sound
BY InitSound, NextSound, PTL DEF Spec

\* Scripts get every event once and in order, each with its own id, whatever drops and
\* whenever: a source that resumes after the last event it dispatched neither skips nor
\* repeats one, whatever half lines and half events the parser held when the connection
\* broke (eventsource.js:31, the #connect and #feed of it).
THEOREM ExactlyOnceHolds == Spec => []ExactlyOnce
<1>1. Sound => ExactlyOnce
  BY DEF Sound
<1> QED
  BY <1>1, SourceSound, PTL

\* A source that is not closed has exactly one thing going on, a connection or the timer;
\* a closed one at most a coroutine that ends; and no request outlives its coroutine.
THEOREM OneConnectionHolds == Spec => []OneConnection
<1>1. ASSUME Sound PROVE OneConnection
  <2>0. /\ TypeOK /\ Attempt /\ \A c \in Conns : Ordered(c)
    BY <1>1 DEF Sound
  <2> DEFINE B == {c \in Conns : Busy(c)}
             k == IF current = 0 THEN 1 ELSE current
  <2>1. 1 \in Conns /\ k \in Conns /\ current \in Nat /\ Conns \subseteq Int
        /\ \A c \in Conns : c >= 1
    BY <2>0, EventSourceAssumption DEF Conns, TypeOK
  <2>2. ASSUME NEW c \in Conns, Busy(c) PROVE c = k
    <3>1. CASE c > current
      BY <2>0, <2>1, <2>2, <3>1 DEF Ordered, Busy
    <3>2. CASE c <= current
      BY <2>0, <2>1, <2>2, <3>2 DEF Ordered, Busy
    <3> QED
      BY <2>1, <3>1, <3>2
  <2>3. B = IF Busy(k) THEN {k} ELSE {}
    BY <2>1, <2>2
  <2>4. Cardinality({k}) = 1 /\ Cardinality({}) = 0
    BY FS_Singleton, FS_EmptySet
  <2>5. Cardinality(B) = IF Busy(k) THEN 1 ELSE 0
    BY <2>3, <2>4
  <2>6. timer => readyState # "CLOSED" /\ ~Busy(k)
    BY <2>0 DEF Attempt, Busy
  <2>7. readyState # "CLOSED" => timer \/ Busy(k)
    BY <2>0 DEF Attempt, Busy
  <2>8. OneAttempt
    <3> HIDE DEF B, k
    <3>1. CASE readyState = "CLOSED"
      BY <2>5, <2>6, <3>1 DEF OneAttempt, B
    <3>2. CASE readyState # "CLOSED"
      BY <2>5, <2>6, <2>7, <3>2 DEF OneAttempt, B
    <3> QED
      BY <3>1, <3>2
  <2>9. NoOrphan
    BY <1>1, IsMade DEF NoOrphan
  <2> QED
    BY <2>0, <2>8, <2>9 DEF OneConnection
<1> QED
  BY <1>1, SourceSound, PTL

\* After close() no event is dispatched and the source stays closed, at whatever await of
\* #connect or in whichever listener it was called.
THEOREM SilentAfterCloseHolds == Spec => SilentAfterClose
<1>1. ASSUME Sound, [Next]_vars
      PROVE  [closed => tick' = tick /\ readyState' = "CLOSED"]_vars
  <2>1. SUFFICES ASSUME Next, closed
                 PROVE  tick' = tick /\ readyState' = "CLOSED"
    BY <1>1
  <2>2. readyState = "CLOSED"
    BY <1>1, <2>1 DEF Sound, Attempt
  <2>3. CASE Close
    BY <2>1, <2>3 DEF Close
  <2>4. CASE FirstConnect \/ TimerFires
    BY <2>2, <2>4 DEF FirstConnect, TimerFires, heardVars
  <2>5. ASSUME NEW c \in Conns, Coroutine(c)
        PROVE  tick' = tick /\ readyState' = "CLOSED"
    <3>1. CASE FetchRejects(c) \/ ReadEnds(c)
      BY <2>2, <3>1 DEF FetchRejects, ReadEnds, Reconnect, heardVars
    <3>2. CASE FetchResolves(c) \/ Cancelled(c)
      BY <2>2, <3>2 DEF FetchResolves, WasClosed, Cancelled, heardVars
    <3>3. CASE ReadChunk(c) \/ FeedReturns(c) \/ ArmTimer(c)
      BY <2>2, <3>3 DEF ReadChunk, FeedReturns, ArmTimer, sourceVars, heardVars
    <3>4. CASE Feed(c)
      BY <2>2, <3>4 DEF Feed, DispatchMessage, MayDispatch, ProcessField, heardVars
    <3> QED
      BY <2>5, <3>1, <3>2, <3>3, <3>4 DEF Coroutine
  <2>6. ASSUME NEW c \in Conns,
               SendRequest(c) \/ Respond(c) \/ Arrive(c) \/ EndRequest(c)
        PROVE  tick' = tick /\ readyState' = "CLOSED"
    BY <2>2, <2>6 DEF SendRequest, Respond, Arrive, EndRequest, Network, sourceVars, heardVars
  <2> QED
    BY <2>1, <2>3, <2>4, <2>5, <2>6 DEF Next
<1> QED
  BY <1>1, SourceSound, PTL DEF Spec, SilentAfterClose

----------------------------------------------------------------------------
(***************************************************************************)
(* The timers.  Their inductive invariant: the table holds exactly the     *)
(* open timers, and libuv has no other; an interval with a delay is armed  *)
(* again before its handler runs, which is what makes it outlive it.       *)
(***************************************************************************)
TimerTable ==
  /\ table = {t \in Timers : handle[t] = "open"}
  /\ heap \cup ready \subseteq table
  /\ ~turning => ready = {}
  /\ phase # "running" => table \subseteq late

TimerArmed(t) == t \in heap \cup ready
TimersRearmed ==
  /\ \A t \in table : interval[t] => repeat[t] = Unsigned(asked[t])
  /\ \A t \in table : asked[t] \in Delays
  /\ \A t \in table : TimerArmed(t) \/ running = t \/ (interval[t] /\ asked[t] = 0)
  /\ \A t \in table : running = t /\ repeat[t] # 0 => TimerArmed(t)

TimersSound == TimersTypeOK /\ TimerTable /\ TimersRearmed

----------------------------------------------------------------------------
\* A delay is converted to a time, and to 0 only if it is 0.
LEMMA UnsignedTime ==
  ASSUME NEW d \in Delays
  PROVE  d \in Int /\ Unsigned(d) \in 0..Forever /\ (Unsigned(d) = 0 <=> d = 0)
BY TimersAssumption, SMT DEF Unsigned, Forever

\* A due time is in the range of the clock.
LEMMA DueTime ==
  ASSUME TimersTypeOK, NEW d \in 0..Forever
  PROVE  DueIn(d) \in 0..Forever
BY TimersAssumption, SMT DEF DueIn, Forever, TimersTypeOK

----------------------------------------------------------------------------
\* No timers yet.
LEMMA TimersInitSound == TimersInit => TimersSound
<1> SUFFICES ASSUME TimersInit PROVE TimersSound
  OBVIOUS
<1>1. TimersTypeOK
  <2>1. /\ 0 \in 0..MaxId /\ 1 \in 1..MaxId /\ 0 \in 0..Horizon /\ 0 \in 0..Forever
        /\ 0 \in 0..MaxCalls
    BY TimersAssumption DEF Forever
  <2>2. {table, heap, ready, late} \subseteq SUBSET Timers
    BY DEF TimersInit
  <2>3. /\ handle \in [Timers -> {"none", "open", "closing", "freed"}]
        /\ id \in [Timers -> 0..MaxId] /\ asked \in [Timers -> Int]
        /\ due \in [Timers -> 0..Forever] /\ repeat \in [Timers -> 0..Forever]
    BY <2>1 DEF TimersInit
  <2>4. interval \in [Timers -> BOOLEAN]
    BY DEF TimersInit
  <2>5. /\ next_timer \in 1..MaxId /\ now \in 0..Horizon /\ calls \in 0..MaxCalls
        /\ turning \in BOOLEAN /\ running \in Timers \cup {NoTimer}
        /\ phase \in {"running", "draining", "freed", "undefined"}
    BY <2>1 DEF TimersInit
  <2> QED
    BY <2>2, <2>3, <2>4, <2>5 DEF TimersTypeOK
<1>2. TimerTable /\ TimersRearmed
  BY DEF TimersInit, TimerTable, TimersRearmed
<1> QED
  BY <1>1, <1>2 DEF TimersSound

\* setTimeout and setInterval.
LEMMA SetTimeoutSound ==
  ASSUME TimersSound, NEW t \in Timers, NEW d \in Delays, NEW every \in BOOLEAN,
         SetTimeout(t, d, every)
  PROVE  TimersSound'
<1> USE DEF TimersSound, SetTimeout, Calling, StartTimer
<1>1. /\ d \in Int /\ Unsigned(d) \in 0..Forever /\ (Unsigned(d) = 0 <=> d = 0)
      /\ DueIn(Unsigned(d)) \in 0..Forever /\ 0 \in 0..Forever
  BY UnsignedTime, DueTime, TimersAssumption DEF Forever
<1>2. TimersTypeOK'
  BY <1>1, TimersAssumption DEF TimersTypeOK
<1>3. TimerTable'
  BY DEF TimersTypeOK, TimerTable
<1>4. TimersRearmed'
  <2>1. t \notin table /\ t \notin heap \cup ready
    BY DEF TimerTable
  <2>2. interval'[t] = every /\ asked'[t] = d
        /\ repeat'[t] = (IF every THEN Unsigned(d) ELSE 0) /\ TimerArmed(t)'
    BY DEF TimersTypeOK, TimerArmed
  <2>3. \A u \in table : interval'[u] = interval[u] /\ asked'[u] = asked[u]
                         /\ repeat'[u] = repeat[u] /\ (TimerArmed(u) => TimerArmed(u)')
    BY <2>1 DEF TimersTypeOK, TimerArmed, TimerTable
  <2> QED
    BY <2>2, <2>3 DEF TimersRearmed, Unsigned
<1> QED
  BY <1>2, <1>3, <1>4

\* Closing and forgetting one timer, whoever does it.
LEMMA DestroySound ==
  ASSUME TimersSound, NEW t \in table, Destroy(t),
         UNCHANGED <<id, interval, asked, next_timer, late, now, due, repeat, turning, phase>>,
         running' \in {running, NoTimer}, calls' \in 0..MaxCalls,
         running' = running \/ t = running
  PROVE  TimersSound'
<1> USE DEF TimersSound, Destroy
<1>0. t \in Timers /\ handle[t] = "open"
  BY DEF TimerTable
<1>1. TimersTypeOK'
  BY <1>0, SMT DEF TimersTypeOK
<1>2. TimerTable'
  BY <1>0 DEF TimersTypeOK, TimerTable
<1>3. TimersRearmed'
  BY <1>0 DEF TimersRearmed, TimerArmed, Unsigned, TimersTypeOK, TimerTable
<1> QED
  BY <1>1, <1>2, <1>3

\* Every step keeps the invariant.
LEMMA TimersNextSound ==
  ASSUME TimersSound, [TimersNext]_timersVars
  PROVE  TimersSound'
<1> USE DEF TimersSound
<1>1. CASE \E t \in Timers, d \in Delays, every \in BOOLEAN : SetTimeout(t, d, every)
  BY <1>1, SetTimeoutSound
<1>2. ASSUME NEW n \in 1..MaxId, ClearTimeout(n)
      PROVE  TimersSound'
  <2>1. CASE \E t \in table : Clear(t)
    <3>1. PICK t \in table : Destroy(t)
      BY <2>1 DEF Clear
    <3>2. calls' \in 0..MaxCalls
      BY <1>2, TimersAssumption DEF ClearTimeout, Calling, TimersTypeOK
    <3> QED
      BY <1>2, <3>1, <3>2, DestroySound DEF ClearTimeout, Calling
  <2>2. CASE UNCHANGED <<handle, table, heap, ready>>
    BY <1>2, <2>2, TimersAssumption
       DEF ClearTimeout, Calling, TimersTypeOK, TimerTable, TimersRearmed, TimerArmed, Unsigned
  <2> QED
    BY <1>2, <2>1, <2>2 DEF ClearTimeout
<1>3. CASE Tick
  BY <1>3, TimersAssumption
     DEF Tick, TimersTypeOK, TimerTable, TimersRearmed, TimerArmed, Unsigned, registryVars
<1>4. CASE RunTimers
  <2>1. TimersTypeOK' /\ TimerTable'
    BY <1>4 DEF RunTimers, Due, TimersTypeOK, TimerTable, registryVars
  <2>2. \A t \in table : TimerArmed(t) => TimerArmed(t)'
    BY <1>4 DEF RunTimers, Due, TimerTable, TimerArmed
  <2>3. TimersRearmed'
    BY <1>4, <2>2 DEF RunTimers, TimersRearmed, Unsigned, registryVars
  <2> QED
    BY <2>1, <2>3
<1>5. CASE Fire
  <2>1. PICK t \in ready :
          /\ ready' = ready \ {t} /\ running' = t
          /\ IF repeat[t] # 0 THEN StartTimer(t, repeat[t]) ELSE UNCHANGED <<due, heap>>
    BY <1>5 DEF Fire
  <2>2. t \in table /\ t \in Timers
    BY DEF TimerTable
  <2>3. /\ heap' = IF repeat[t] # 0 THEN heap \cup {t} ELSE heap
        /\ due' \in [Timers -> 0..Forever]
    <3>1. repeat[t] \in 0..Forever /\ DueIn(repeat[t]) \in 0..Forever
      BY <2>2, DueTime DEF TimersTypeOK
    <3> QED
      BY <2>1, <3>1 DEF StartTimer, TimersTypeOK
  <2>4. TimersTypeOK'
    BY <1>5, <2>1, <2>2, <2>3 DEF Fire, TimersTypeOK, registryVars
  <2>5. TimerTable'
    BY <1>5, <2>1, <2>2, <2>3 DEF Fire, TimerTable, registryVars
  <2>6. \A u \in table : u # t /\ TimerArmed(u) => TimerArmed(u)'
    BY <2>1, <2>3 DEF TimerArmed
  <2>7. repeat[t] # 0 => TimerArmed(t)'
    BY <2>3 DEF TimerArmed
  <2>8. TimersRearmed'
    <3>1. running = NoTimer /\ NoTimer \notin table
      BY <1>5, TimersAssumption DEF Fire, TimerTable
    <3>2. \A u \in table : u # t => TimerArmed(u) \/ (interval[u] /\ asked[u] = 0)
      BY <3>1 DEF TimersRearmed
    <3> QED
      BY <1>5, <2>1, <2>6, <2>7, <3>1, <3>2 DEF Fire, TimersRearmed, Unsigned, registryVars
  <2> QED
    BY <2>4, <2>5, <2>8
<1>6. CASE HandlerReturn
  <2>1. running \in Timers
    BY <1>6 DEF HandlerReturn, TimersTypeOK
  <2>2. CASE DestroysAfter(running)
    <3>1. Destroy(running) /\ running \in table
      BY <1>6, <2>1, <2>2 DEF HandlerReturn, DestroysAfter, TimerTable
    <3> QED
      BY <1>6, <3>1, DestroySound DEF HandlerReturn, TimersTypeOK
  <2>3. CASE ~DestroysAfter(running)
    <3>1. UNCHANGED <<handle, table, heap, ready>> /\ running' = NoTimer
      BY <1>6, <2>3 DEF HandlerReturn
    <3>2. TimersTypeOK' /\ TimerTable'
      BY <1>6, <3>1 DEF HandlerReturn, TimersTypeOK, TimerTable
    <3>3. running \in table => interval[running]
      BY <2>1, <2>3 DEF DestroysAfter, TimerTable, TimersTypeOK
    <3>4. running \in table => TimerArmed(running) \/ asked[running] = 0
      BY <3>3, UnsignedTime DEF TimersRearmed
    <3>5. TimersRearmed'
      BY <1>6, <3>1, <3>3, <3>4, TimersAssumption
         DEF HandlerReturn, TimersRearmed, TimerArmed, Unsigned, TimerTable
    <3> QED
      BY <3>2, <3>5
  <2> QED
    BY <2>2, <2>3
<1>7. CASE TurnEnd
  BY <1>7 DEF TurnEnd, TimersTypeOK, TimerTable, TimersRearmed, TimerArmed, Unsigned, registryVars
<1>8. CASE CloseCb
  BY <1>8 DEF CloseCb, TimersTypeOK, TimerTable, TimersRearmed, TimerArmed, Unsigned, uvVars
<1>9. CASE FreeRuntime
  BY <1>9 DEF FreeRuntime, TimersTypeOK, TimerTable, TimersRearmed, TimerArmed, Unsigned
<1>10. CASE FireFreed
  BY <1>10 DEF FireFreed, TimersTypeOK, TimerTable, TimersRearmed, TimerArmed, Unsigned, registryVars, uvVars
<1>11. CASE FreeEngine
  BY <1>11 DEF FreeEngine, TimersTypeOK, TimerTable, TimersRearmed, TimerArmed, Unsigned, registryVars, uvVars
<1>12. CASE UNCHANGED timersVars
  BY <1>12 DEF timersVars, registryVars, uvVars, TimersTypeOK, TimerTable, TimersRearmed, TimerArmed, Unsigned
<1> QED
  BY <1>1, <1>2, <1>3, <1>4, <1>5, <1>6, <1>7, <1>8, <1>9, <1>10, <1>11, <1>12 DEF TimersNext

----------------------------------------------------------------------------
\* The invariant of the timers holds.
LEMMA TimersInvariance == TimersSpec => []TimersSound
BY TimersInitSound, TimersNextSound, PTL DEF TimersSpec

\* The timers keep their types: times and repeats stay below Modulus, identifiers
\* in the range of the counter, also when it wraps (timers.c:98-147).
THEOREM TimersTypeCorrect == TimersSpec => []TimersTypeOK
<1>1. TimersSound => TimersTypeOK
  BY DEF TimersSound
<1> QED
  BY <1>1, TimersInvariance, PTL

\* The check of destroy_timer (timers.c:54) holds whoever calls it: clearTimeout, the
\* teardown, and uv__timer_cb after a handler that may have cleared its own timer.
THEOREM CheckHoldsAlways == TimersSpec => []CheckHolds
<1>1. TimersSound => CheckHolds
  BY DEF TimersSound, TimerTable, CheckHolds, DestroysAfter
<1> QED
  BY <1>1, TimersInvariance, PTL

\* A timer is open for exactly as long as it will call back; the exception, an interval
\* with no delay, is that of the definition (timers.c:78-96, 142).
THEOREM NoZombies == TimersSpec => []NoZombie
<1>1. TimersSound => NoZombie
  BY DEF TimersSound, TimersTypeOK, TimerTable, TimersRearmed, NoZombie, WillFire, TimerArmed
<1> QED
  BY <1>1, TimersInvariance, PTL

\* Once the engine is freed the only timers that are open are those that a script set in
\* the turns after tjs__destroy_timers: whatever was set before is closed there or was
\* before, and no later call opens it again (timers.c:70-76, vm.c:728).
THEOREM TimersClosed == TimersSpec => []AllClosed
<1>1. TimersSound => AllClosed
  BY DEF TimersSound, TimerTable, AllClosed
<1> QED
  BY <1>1, TimersInvariance, PTL

\* A timer that is cleared never calls back, also if it was already due and taken from
\* the heap when another handler cleared it (timers.c:78-96).
THEOREM ClearedStaysSilent == TimersSpec => ClearedIsSilent
<1>1. TimersSound /\ [TimersNext]_timersVars => [running' \notin {running, NoTimer} => running' \in table]_timersVars
  <2> SUFFICES ASSUME TimersSound, TimersNext, running' \notin {running, NoTimer}
               PROVE  running' \in table
    OBVIOUS
  <2>1. Fire
    BY DEF TimersNext, SetTimeout, Calling, ClearTimeout, Clear, Tick, RunTimers, HandlerReturn,
           TurnEnd, CloseCb, FreeRuntime, FreeEngine, FireFreed, uvVars
  <2> QED
    BY <2>1 DEF Fire, TimersSound, TimerTable
<1> QED
  BY <1>1, TimersInvariance, PTL DEF TimersSpec, ClearedIsSilent

\* The registry of timers and libuv agree, scripts of the teardown included: destroy_timer's
\* check holds, no timer is open for nothing, and the teardown leaves open only what was
\* set after it (timers.c:54-96).
THEOREM RegistrySound == TimersSpec => []Registry
BY CheckHoldsAlways, NoZombies, TimersClosed, PTL DEF Registry

=============================================================================
