--------------------------- MODULE Channel_proofs ---------------------------
(***************************************************************************)
(* Proofs about the channel transport, for any number of threads, ports    *)
(* and mailboxes and without a bound on the calls that matters.            *)
(*                                                                         *)
(* 1. Types, and the hand-shake between a posting thread and the thread    *)
(*    that owns the port: no closed handle is woken, no wake-up is lost.   *)
(* 2. Memory and ownership.  The references on a mailbox are counted where *)
(*    they are: in ports, in inboxes and batches, on stacks.  A step moves *)
(*    them from one place to another, and Counts says what their numbers   *)
(*    have to do with the refcount, with the receiving end and with the    *)
(*    closing of the mailbox.                                              *)
(* 3. The order of messages: what was delivered from a mailbox is older    *)
(*    than what was taken out of it, that than what waits in it, and that  *)
(*    than what is about to be posted to it.                               *)
(***************************************************************************)
EXTENDS ChannelProps, SequenceTheorems, FiniteSetTheorems, TLAPS

----------------------------------------------------------------------------
(* The operations on the stack of a thread.                                *)

\* What is pushed on a stack is an operation.
LEMMA OpTypes ==
  /\ \A m \in Mailboxes : CloseOp(m) \in Op /\ UnrefOp(m) \in Op
  /\ \A m \in Mailboxes, x \in Msg : PostOp(m, x) \in Op
  /\ \A p \in Ports : /\ PortOp("start", p) \in Op /\ PortOp("wake", p) \in Op
                      /\ PortOp("splice", p) \in Op /\ PortOp("shut", p) \in Op
                      /\ PortOp("uvclose", p) \in Op
  /\ \A u \in Threads : JoinOp(u) \in Op
  /\ \A s \in Seq(Msg) \ {<<>>} : [op |-> "free", msgs |-> s] \in Op
BY DEF Op, CloseOp, UnrefOp, PostOp, PortOp, JoinOp

\* The fields of an operation.
LEMMA OpFields ==
  ASSUME NEW o \in Op
  PROVE  /\ o.op \in {"close", "unref", "post"} => o.mb \in Mailboxes
         /\ o.op = "post" => o.msg \in Msg
         /\ o.op = "free" => o.msgs \in Seq(Msg) \ {<<>>}
         /\ o.op \in {"start", "wake", "splice", "shut", "uvclose"} => o.port \in Ports
         /\ o.op = "join" => o.thread \in Threads
BY DEF Op

\* The release of a port is a sequence of operations.
LEMMA ReleaseType ==
  ASSUME NEW m0 \in Mailboxes, NEW m1 \in Mailboxes
  PROVE  Release(m0, m1) \in Seq(Op)
BY OpTypes DEF Release

\* So is the freeing of messages.
LEMMA FreeingType ==
  ASSUME NEW s \in Seq(Msg)
  PROVE  Freeing(s) \in Seq(Op)
<1>1. CASE \A i \in DOMAIN s : s[i].ports = <<>>
  BY <1>1 DEF Freeing
<1>2. CASE ~ \A i \in DOMAIN s : s[i].ports = <<>>
  <2>1. s # <<>>
    BY <1>2
  <2> QED
    BY <1>2, <2>1, OpTypes DEF Freeing
<1> QED
  BY <1>1, <1>2

----------------------------------------------------------------------------
(* The stack of a thread: which operations are on it after a step.         *)

SeqRange(s) == {s[i] : i \in DOMAIN s}

\* Replacing the head of a stack by r keeps the rest, and its last element
\* when there is a rest.
LEMMA ReplaceHead ==
  ASSUME NEW S, NEW s \in Seq(S), s # <<>>, NEW r \in Seq(S)
  PROVE  /\ r \o Tail(s) \in Seq(S)
         /\ SeqRange(r \o Tail(s)) \subseteq SeqRange(r) \cup SeqRange(s)
         /\ \A o \in SeqRange(s) : o # Head(s) => o \in SeqRange(r \o Tail(s))
         /\ SeqRange(r) \subseteq SeqRange(r \o Tail(s))
         /\ \A i \in DOMAIN (r \o Tail(s)) :
              \/ i \in DOMAIN r /\ (r \o Tail(s))[i] = r[i]
              \/ /\ i - Len(r) + 1 \in DOMAIN s
                 /\ (r \o Tail(s))[i] = s[i - Len(r) + 1]
         /\ Len(r \o Tail(s)) = Len(r) + Len(s) - 1
<1> DEFINE c == r \o Tail(s)
<1>1. Len(s) \in Nat \ {0} /\ Tail(s) \in Seq(S) /\ Len(Tail(s)) = Len(s) - 1
  OBVIOUS
<1>2. c \in Seq(S) /\ Len(c) = Len(r) + Len(s) - 1
  BY <1>1
<1>3. \A i \in 1..Len(r) : c[i] = r[i]
  BY <1>1
<1>4. \A j \in 2..Len(s) : /\ Len(r) + j - 1 \in 1..Len(c)
                           /\ c[Len(r) + j - 1] = s[j]
  BY <1>1, <1>2
<1>5. \A i \in 1..Len(c) :
        \/ i \in 1..Len(r) /\ c[i] = r[i]
        \/ i - Len(r) + 1 \in 1..Len(s) /\ c[i] = s[i - Len(r) + 1]
  BY <1>1, <1>2
<1>6. DOMAIN c = 1..Len(c) /\ DOMAIN s = 1..Len(s) /\ DOMAIN r = 1..Len(r)
  BY <1>2
<1>7. \A o \in SeqRange(s) : o # Head(s) => o \in SeqRange(c)
  <2> SUFFICES ASSUME NEW j \in 1..Len(s), s[j] # Head(s)
               PROVE  s[j] \in SeqRange(c)
    BY <1>6 DEF SeqRange
  <2>1. j \in 2..Len(s)
    BY <1>1
  <2> QED
    BY <2>1, <1>4, <1>6 DEF SeqRange
<1>8. SeqRange(r) \subseteq SeqRange(c)
  BY <1>2, <1>3, <1>6, <1>1 DEF SeqRange
<1>9. SeqRange(c) \subseteq SeqRange(r) \cup SeqRange(s)
  BY <1>5, <1>6 DEF SeqRange
<1> QED
  BY <1>2, <1>5, <1>6, <1>7, <1>8, <1>9

USE ChannelAssumption

\* The stack of a thread that is called.
LEMMA CallFacts ==
  ASSUME TypeOK, NEW t \in Threads, NEW r \in Seq(Op), Call(t, r)
  PROVE  /\ todo' \in [Threads -> Seq(Op)]
         /\ todo'[t] = r
         /\ \A u \in Threads : u # t => todo'[u] = todo[u]
BY DEF TypeOK, TodoTypeOK, Call

\* The stack of a thread that goes on: the head is replaced by r.
LEMMA ContinueFacts ==
  ASSUME TypeOK, NEW t \in Threads, NEW r \in Seq(Op), todo[t] # <<>>,
         Continue(t, r)
  PROVE  /\ todo' \in [Threads -> Seq(Op)]
         /\ todo'[t] = r \o Tail(todo[t])
         /\ Head(todo[t]) \in Op
         /\ \A u \in Threads : u # t => todo'[u] = todo[u]
         /\ SeqRange(todo'[t]) \subseteq SeqRange(r) \cup SeqRange(todo[t])
         /\ \A o \in SeqRange(todo[t]) : o # Head(todo[t]) => o \in SeqRange(todo'[t])
         /\ SeqRange(r) \subseteq SeqRange(todo'[t])
<1>1. todo[t] \in Seq(Op)
  BY DEF TypeOK, TodoTypeOK
<1>2. todo'[t] = r \o Tail(todo[t])
  BY DEF TypeOK, TodoTypeOK, Continue
<1>3. r \o Tail(todo[t]) \in Seq(Op)
  BY <1>1, ReplaceHead
<1>4. todo' \in [Threads -> Seq(Op)]
  BY <1>1, <1>3 DEF TypeOK, TodoTypeOK, Continue
<1>5. \A u \in Threads : u # t => todo'[u] = todo[u]
  BY DEF TypeOK, TodoTypeOK, Continue
<1>6. Head(todo[t]) \in Op
  BY <1>1
<1> QED
  BY <1>1, <1>2, <1>4, <1>5, <1>6, ReplaceHead

----------------------------------------------------------------------------
(* Types.                                                                  *)

\* A part of the state that an action leaves alone keeps its types.
LEMMA Frames ==
  ASSUME TypeOK
  PROVE  /\ UNCHANGED mailboxVars => MailboxTypeOK'
         /\ UNCHANGED portVars => PortTypeOK'
         /\ UNCHANGED threadVars => ThreadTypeOK'
         /\ UNCHANGED todo => TodoTypeOK'
         /\ UNCHANGED loopVars => LoopTypeOK'
         /\ UNCHANGED <<calls, last>> => HistoryTypeOK'
         /\ UNCHANGED last /\ calls' \in 0..MaxCalls => HistoryTypeOK'
BY DEF TypeOK, MailboxTypeOK, PortTypeOK, ThreadTypeOK, TodoTypeOK, LoopTypeOK,
       HistoryTypeOK, mailboxVars, portVars, threadVars, loopVars

\* The empty stack and the empty inbox.
LEMMA EmptyType == <<>> \in Seq(Op) /\ <<>> \in Seq(Msg)
OBVIOUS

\* The ports of S are allocated, the others stay as they are.
PortsAdded(S) ==
  /\ S \subseteq UnusedPorts
  /\ PortTypeOK' /\ UNCHANGED wake
  /\ \A p \in S : /\ state'[p] = "open" /\ handle'[p] = "active"
                  /\ rx'[p] \in Mailboxes /\ tx'[p] \in Mailboxes
                  /\ home'[p] \in Threads
  /\ \A p \in Ports \ S : /\ state'[p] = state[p] /\ handle'[p] = handle[p]
                          /\ rx'[p] = rx[p] /\ tx'[p] = tx[p]
                          /\ home'[p] = home[p]

\* New ports take unused ones.
LEMMA NewPortsFacts ==
  ASSUME TypeOK, NEW S \in SUBSET UnusedPorts, NEW h \in [S -> Threads],
         NEW r \in [S -> Mailboxes], NEW x \in [S -> Mailboxes],
         NewPorts(S, h, r, x), UNCHANGED wake
  PROVE  PortsAdded(S) /\ \A p \in S : home'[p] = h[p] /\ rx'[p] = r[p] /\ tx'[p] = x[p]
<1>1. S \subseteq Ports
  BY DEF UnusedPorts
<1>2. PortTypeOK'
  BY <1>1 DEF NewPorts, TypeOK, PortTypeOK
<1> QED
  BY <1>1, <1>2 DEF NewPorts, PortsAdded

\* So do the two ports of a channel, on two new mailboxes.
LEMMA EntangleFacts ==
  ASSUME TypeOK, NEW m0 \in Mailboxes, NEW m1 \in Mailboxes,
         NEW a \in UnusedPorts, NEW b \in UnusedPorts,
         NEW ta \in Threads, NEW tb \in Threads, NEW n \in Nat,
         Entangle(m0, m1, a, b, ta, tb, n)
  PROVE  /\ MailboxTypeOK' /\ UNCHANGED <<closed, owner, inbox>>
         /\ PortsAdded({a, b})
         /\ a \in Ports /\ home'[a] = ta
         /\ b \in Ports /\ home'[b] = tb
<1> DEFINE h == [p \in {a, b} |-> IF p = a THEN ta ELSE tb]
           r == [p \in {a, b} |-> IF p = a THEN m0 ELSE m1]
           x == [p \in {a, b} |-> IF p = a THEN m1 ELSE m0]
<1>1. NewPorts({a, b}, h, r, x) /\ a # b
  BY DEF Entangle
<1>2. /\ h \in [{a, b} -> Threads] /\ r \in [{a, b} -> Mailboxes]
      /\ x \in [{a, b} -> Mailboxes]
  OBVIOUS
<1>3. h[a] = ta /\ h[b] = tb
  BY <1>1
<1>4. /\ alive' = [alive EXCEPT ![m0] = "live", ![m1] = "live"]
      /\ refs' = [refs EXCEPT ![m0] = n, ![m1] = n]
      /\ UNCHANGED <<closed, owner, inbox, wake>>
  BY Zenon DEF Entangle
<1> HIDE DEF h, r, x
<1>5. MailboxTypeOK'
  BY <1>4, SMTT(30) DEF TypeOK, MailboxTypeOK
<1>6. /\ PortsAdded({a, b})
      /\ \A p \in {a, b} : home'[p] = h[p]
  BY <1>1, <1>2, <1>4, NewPortsFacts
<1> QED
  BY <1>3, <1>4, <1>5, <1>6 DEF UnusedPorts

\* Messages and sequences of messages.
LEMMA SeqFacts ==
  /\ \A s \in Seq(Msg) : s # <<>> => Head(s) \in Msg /\ Tail(s) \in Seq(Msg)
  /\ \A s \in Seq(Msg), x \in Msg : <<x>> \in Seq(Msg) /\ <<x>> \o s \in Seq(Msg)
                                    /\ Append(s, x) \in Seq(Msg)
  /\ <<>> \in Seq(PortRef)
  /\ \A x \in Msg : x.id \in 0..MaxCalls
  /\ \A x \in Msg : x.ports \in Seq(PortRef) /\ x.id \in 1..MaxCalls
  /\ \A x \in Msg, s \in Seq(PortRef) : [x EXCEPT !.ports = s] \in Msg
<1>0. <<>> \in Seq(PortRef) /\ 1..MaxCalls \subseteq 0..MaxCalls
  OBVIOUS
<1>1. \A s \in Seq(Msg) : s # <<>> => Head(s) \in Msg /\ Tail(s) \in Seq(Msg)
  OBVIOUS
<1>2. \A s \in Seq(Msg), x \in Msg : <<x>> \in Seq(Msg) /\ <<x>> \o s \in Seq(Msg)
                                     /\ Append(s, x) \in Seq(Msg)
  OBVIOUS
<1>3. /\ \A x \in Msg : x.ports \in Seq(PortRef) /\ x.id \in 1..MaxCalls
      /\ \A x \in Msg, s \in Seq(PortRef) : [x EXCEPT !.ports = s] \in Msg
  BY DEF Msg
<1> QED
  BY <1>0, <1>1, <1>2, <1>3

\* The ports a message brings are allocated on the thread that receives it.
LEMMA AdoptFacts ==
  ASSUME TypeOK, NEW t \in Threads, batch[t] # <<>>, Adopt(t, Head(batch[t]))
  PROVE  /\ \E S \in SUBSET UnusedPorts : PortsAdded(S) /\ \A p \in S : home'[p] = t
         /\ batch' \in [Threads -> Seq(Msg)]
         /\ batch'[t] # <<>>
         /\ \A u \in Threads \ {t} : batch'[u] = batch[u]
<1> DEFINE x == Head(batch[t])
<1>1. x \in Msg /\ Tail(batch[t]) \in Seq(Msg)
  BY DEF TypeOK, LoopTypeOK
<1>2. x.ports \in Seq(PortRef)
  BY <1>1 DEF Msg
<1> HIDE DEF x
<1>3. PICK f \in Fresh(Len(x.ports)) :
         LET at(p) == x.ports[CHOOSE i \in DOMAIN f : f[i] = p]
             S     == {f[i] : i \in DOMAIN f}
         IN /\ NewPorts(S, [p \in S |-> t], [p \in S |-> at(p).rx],
                        [p \in S |-> at(p).tx])
            /\ batch' = [batch EXCEPT ![t] = <<Stripped(x)>> \o Tail(@)]
            /\ UNCHANGED wake
  BY Zenon DEF Adopt, x
<1> DEFINE at(p) == x.ports[CHOOSE i \in DOMAIN f : f[i] = p]
           S == {f[i] : i \in DOMAIN f}
<1>4. /\ f \in [1..Len(x.ports) -> UnusedPorts]
      /\ DOMAIN f = 1..Len(x.ports) /\ DOMAIN f = DOMAIN x.ports
  BY <1>2, <1>3 DEF Fresh
<1>5. \A p \in S : at(p) \in PortRef
  BY <1>2, <1>4
<1>6. /\ [p \in S |-> t] \in [S -> Threads]
      /\ [p \in S |-> at(p).rx] \in [S -> Mailboxes]
      /\ [p \in S |-> at(p).tx] \in [S -> Mailboxes]
  BY <1>5 DEF PortRef
<1>7. S \in SUBSET UnusedPorts
  BY <1>4
<1>8. PortsAdded(S) /\ \A p \in S : home'[p] = t
  <2> DEFINE h == [p \in S |-> t]
             r == [p \in S |-> at(p).rx]
             y == [p \in S |-> at(p).tx]
  <2>1. NewPorts(S, h, r, y) /\ UNCHANGED wake
    BY <1>3
  <2>2. \A p \in S : h[p] = t
    OBVIOUS
  <2>3. h \in [S -> Threads] /\ r \in [S -> Mailboxes] /\ y \in [S -> Mailboxes]
    BY <1>6
  <2> HIDE DEF h, r, y, S
  <2> QED
    BY <2>1, <2>2, <2>3, <1>7, NewPortsFacts
<1>9. Stripped(x) \in Msg
  BY <1>1, SeqFacts DEF Stripped
<1>10. batch' = [batch EXCEPT ![t] = <<Stripped(x)>> \o Tail(@)]
  BY <1>3, Zenon
<1>11. /\ <<Stripped(x)>> \o Tail(batch[t]) \in Seq(Msg)
       /\ <<Stripped(x)>> \o Tail(batch[t]) # <<>>
  BY <1>1, <1>9
<1>12. /\ batch' \in [Threads -> Seq(Msg)] /\ batch'[t] # <<>>
       /\ \A u \in Threads \ {t} : batch'[u] = batch[u]
  BY <1>10, <1>11 DEF TypeOK, LoopTypeOK
<1> QED
  BY <1>7, <1>8, <1>12

\* A script calls within the bound.
LEMMA CallsType ==
  ASSUME TypeOK, NEW t \in Threads, Calling(t)
  PROVE  todo[t] = <<>> /\ calls' \in 0..MaxCalls /\ calls + 1 \in 1..MaxCalls
BY DEF TypeOK, HistoryTypeOK, Calling, Scripting

\* So does the collector.
LEMMA CollectingType ==
  ASSUME TypeOK, NEW t \in Threads, Collecting(t)
  PROVE  todo[t] = <<>> /\ calls' \in 0..MaxCalls
<1>1. CASE Calling(t)
  BY <1>1, CallsType
<1>2. CASE ~Calling(t)
  BY <1>2 DEF Collecting, Idle, TypeOK, HistoryTypeOK
<1> QED
  BY <1>1, <1>2

\* The message that postMessage builds from the ports of a transfer list.
LEMMA MessageType ==
  ASSUME TypeOK, PortOK, NEW t \in Threads, NEW p \in Ports,
         NEW list \in TransferLists(t, p), calls + 1 \in 1..MaxCalls
  PROVE  [id |-> calls + 1,
          ports |-> [i \in DOMAIN list |-> [rx |-> rx[list[i]], tx |-> tx[list[i]]]]] \in Msg
<1>1. PICK n \in 0..MaxTransfer : list \in [1..n -> Transferable(t, p)]
  BY DEF TransferLists
<1>2. \A i \in DOMAIN list : list[i] \in Ports /\ Live(list[i])
  BY <1>1 DEF Transferable
<1>3. DOMAIN list = 1..n /\ n \in Nat
  BY <1>1
<1>4. \A i \in 1..n : [rx |-> rx[list[i]], tx |-> tx[list[i]]] \in PortRef
  BY <1>2, <1>3 DEF PortOK, PortRef
<1>5. [i \in DOMAIN list |-> [rx |-> rx[list[i]], tx |-> tx[list[i]]]] \in Seq(PortRef)
  BY <1>3, <1>4
<1> QED
  BY <1>5 DEF Msg

\* A port that is started keeps the types.
LEMMA OwnType ==
  ASSUME TypeOK, PortOK, NEW p \in Ports, Live(p), Own(p)
  PROVE  MailboxTypeOK' /\ PortTypeOK'
<1>1. rx[p] \in Mailboxes
  BY DEF PortOK
<1>2. /\ state' = [state EXCEPT ![p] = "started"]
      /\ owner' = [owner EXCEPT ![rx[p]] = p]
      /\ UNCHANGED <<alive, refs, closed, inbox, rx, tx, home, handle, wake>>
  BY DEF Own
<1>3. MailboxTypeOK'
  BY <1>1, <1>2 DEF TypeOK, MailboxTypeOK
<1>4. PortTypeOK'
  BY <1>2 DEF TypeOK, PortTypeOK
<1> QED
  BY <1>3, <1>4

\* So does a port that is detached.
LEMMA DetachType ==
  ASSUME TypeOK, NEW p \in Ports, Detach(p)
  PROVE  MailboxTypeOK' /\ PortTypeOK'
<1>1. PortTypeOK'
  BY DEF TypeOK, PortTypeOK, Detach
<1> QED
  BY <1>1, Frames DEF Detach

\* And the wake that flushes what was buffered.
LEMMA FlushType ==
  ASSUME NEW p \in Ports
  PROVE  Flush(p) \in Seq(Op)
BY OpTypes DEF Flush

\* Every call of a script keeps the types.
LEMMA ScriptType ==
  ASSUME TypeOK, PortOK, NEW t \in Threads, Script(t)
  PROVE  TypeOK'
<1>1. CASE NewChannel(t)
  <2>1. PICK m0 \in Mailboxes, m1 \in Mailboxes, a \in UnusedPorts, b \in UnusedPorts :
          Entangle(m0, m1, a, b, t, t, 2)
    BY <1>1 DEF NewChannel, Lowest, UnusedMailboxes
  <2>2. MailboxTypeOK' /\ PortTypeOK'
    BY <2>1, EntangleFacts DEF PortsAdded
  <2>3. Calling(t) /\ UNCHANGED <<threadVars, todo, loopVars, last>>
    BY <1>1, Zenon DEF NewChannel
  <2> QED
    BY <2>2, <2>3, CallsType, Frames DEF TypeOK
<1>2. ASSUME NEW u \in Threads, SpawnWorker(t, u)
      PROVE  TypeOK'
  <2>1. PICK m0 \in Mailboxes, m1 \in Mailboxes, a \in UnusedPorts, b \in UnusedPorts :
          /\ Entangle(m0, m1, a, b, t, u, 3)
          /\ near' = [near EXCEPT ![u] = a]
          /\ far'  = [far EXCEPT ![u] = b]
          /\ Call(t, <<UnrefOp(m0), UnrefOp(m1), PortOp("start", a)>>)
    BY <1>2 DEF SpawnWorker, Lowest, UnusedMailboxes
  <2>2. a \in Ports /\ b \in Ports /\ MailboxTypeOK' /\ PortTypeOK'
    BY <2>1, EntangleFacts DEF PortsAdded
  <2>3. /\ Calling(t) /\ phase' = [phase EXCEPT ![u] = "running"]
        /\ UNCHANGED <<stop, loopVars, last>>
    BY <1>2, Zenon DEF SpawnWorker
  <2>4. ThreadTypeOK'
    BY <2>1, <2>2, <2>3 DEF TypeOK, ThreadTypeOK
  <2>5. <<UnrefOp(m0), UnrefOp(m1), PortOp("start", a)>> \in Seq(Op)
    BY <2>2, OpTypes
  <2>6. TodoTypeOK'
    BY <2>1, <2>5, CallFacts DEF TodoTypeOK
  <2> QED
    BY <2>2, <2>3, <2>4, <2>6, CallsType, Frames DEF TypeOK
<1>3. ASSUME NEW u \in Threads, Terminate(t, u)
      PROVE  TypeOK'
  <2>1. /\ Collecting(t) /\ near[u] # None
        /\ stop' = [stop EXCEPT ![u] = TRUE]
        /\ Call(t, <<JoinOp(u), PortOp("shut", near[u])>>)
        /\ UNCHANGED <<mailboxVars, portVars, phase, near, far, loopVars, last>>
    BY <1>3, Zenon DEF Terminate, RequestStop
  <2>2. near[u] \in Ports
    BY <2>1 DEF TypeOK, ThreadTypeOK
  <2>3. JoinOp(u) \in Op /\ PortOp("shut", near[u]) \in Op
    BY <2>2, OpTypes
  <2>4. TodoTypeOK'
    <3>1. <<JoinOp(u), PortOp("shut", near[u])>> \in Seq(Op)
      BY <2>3
    <3> QED
      BY <2>1, <3>1, CallFacts DEF TodoTypeOK
  <2>5. ThreadTypeOK'
    BY <2>1 DEF TypeOK, ThreadTypeOK
  <2> QED
    BY <2>1, <2>4, <2>5, CollectingType, Frames DEF TypeOK
<1>4. CASE Stop(t)
  <2>1. /\ Calling(t) /\ stop' = [stop EXCEPT ![t] = TRUE]
        /\ UNCHANGED <<mailboxVars, portVars, phase, near, far, todo, loopVars, last>>
    BY <1>4, Zenon DEF Stop, RequestStop
  <2>2. ThreadTypeOK'
    BY <2>1 DEF TypeOK, ThreadTypeOK
  <2> QED
    BY <2>1, <2>2, CallsType, Frames DEF TypeOK
<1>5. ASSUME NEW p \in Ports, NEW list \in TransferLists(t, p), PostMessage(t, p, list)
      PROVE  TypeOK'
  <2> DEFINE moved == {list[i] : i \in DOMAIN list}
             x == [id |-> calls + 1,
                   ports |-> [i \in DOMAIN list |-> [rx |-> rx[list[i]], tx |-> tx[list[i]]]]]
             ops == IF tx[p] \in {rx[q] : q \in moved}
                    THEN Freeing(<<x>>) ELSE <<PostOp(tx[p], x)>>
  <2>1. /\ Calling(t) /\ Live(p)
        /\ Neuter(moved) /\ Disown({rx[q] : q \in moved})
        /\ Call(t, ops)
        /\ UNCHANGED <<alive, refs, closed, inbox, home, handle, wake, threadVars,
                       loopVars, last>>
    BY <1>5, Zenon DEF PostMessage
  <2>2. x \in Msg
    BY <2>1, CallsType, MessageType
  <2>3. tx[p] \in Mailboxes
    BY <2>1 DEF PortOK
  <2> HIDE DEF moved, x
  <2>4. ops \in Seq(Op)
    <3>1. PostOp(tx[p], x) \in Op
      BY <2>2, <2>3, OpTypes
    <3>2. <<x>> \in Seq(Msg)
      BY <2>2
    <3>3. Freeing(<<x>>) \in Seq(Op)
      BY <3>2, FreeingType
    <3> QED
      BY <3>1, <3>3
  <2> HIDE DEF ops
  <2>5. TodoTypeOK'
    BY <2>1, <2>4, CallFacts DEF TodoTypeOK
  <2>6. MailboxTypeOK'
    BY <2>1 DEF TypeOK, MailboxTypeOK, Disown
  <2>7. PortTypeOK'
    BY <2>1 DEF TypeOK, PortTypeOK, Neuter
  <2> QED
    BY <2>1, <2>5, <2>6, <2>7, CallsType, Frames DEF TypeOK
<1>6. ASSUME NEW p \in Ports, Start(t, p)
      PROVE  TypeOK'
  <2>1. /\ Calling(t) /\ Live(p) /\ Own(p) /\ Call(t, Flush(p))
        /\ UNCHANGED <<threadVars, loopVars, last>>
    BY <1>6 DEF Start, Live
  <2>2. TodoTypeOK'
    BY <2>1, FlushType, CallFacts DEF TodoTypeOK
  <2> QED
    BY <2>1, <2>2, OwnType, CallsType, Frames DEF TypeOK
<1>7. ASSUME NEW p \in Ports, Close(t, p)
      PROVE  TypeOK'
  <2>1. /\ Calling(t) /\ Live(p) /\ Detach(p) /\ Call(t, Release(rx[p], tx[p]))
        /\ UNCHANGED <<threadVars, loopVars, last>>
    BY <1>7, Zenon DEF Close
  <2>2. rx[p] \in Mailboxes /\ tx[p] \in Mailboxes
    BY <2>1 DEF PortOK
  <2>3. TodoTypeOK'
    BY <2>1, <2>2, ReleaseType, CallFacts DEF TodoTypeOK
  <2> QED
    BY <2>1, <2>3, DetachType, CallsType, Frames DEF TypeOK
<1>8. ASSUME NEW p \in Ports, Finalize(t, p)
      PROVE  TypeOK'
  <2> DEFINE uv == <<PortOp("uvclose", p)>>
  <2>1. /\ Collecting(t)
        /\ \/ Live(p) /\ Detach(p) /\ Call(t, Release(rx[p], tx[p]) \o uv)
           \/ Call(t, uv) /\ UNCHANGED <<mailboxVars, portVars>>
        /\ UNCHANGED <<threadVars, loopVars, last>>
    BY <1>8, Zenon DEF Finalize
  <2>2. uv \in Seq(Op)
    BY OpTypes
  <2> HIDE DEF uv
  <2>3. Live(p) => Release(rx[p], tx[p]) \in Seq(Op)
    BY ReleaseType DEF PortOK
  <2>4. Live(p) => Release(rx[p], tx[p]) \o uv \in Seq(Op)
    BY <2>2, <2>3
  <2>5. TodoTypeOK'
    BY <2>1, <2>2, <2>4, CallFacts DEF TodoTypeOK
  <2>6. MailboxTypeOK' /\ PortTypeOK'
    BY <2>1, DetachType, Frames
  <2> QED
    BY <2>1, <2>5, <2>6, CollectingType, Frames DEF TypeOK
<1> QED
  BY <1>1, <1>2, <1>3, <1>4, <1>5, <1>6, <1>7, <1>8 DEF Script

\* The head of a stack that is not empty, and what a step puts in its place.
LEMMA HeadFacts ==
  ASSUME TypeOK, NEW t \in Threads, todo[t] # <<>>
  PROVE  /\ Head(todo[t]) \in Op /\ Head(todo[t]) \in Ops(t)
         /\ Head(todo[t]).op \in {"close", "unref", "post"} => Head(todo[t]).mb \in Mailboxes
         /\ Head(todo[t]).op = "post" => Head(todo[t]).msg \in Msg
         /\ Head(todo[t]).op = "free" => /\ Head(todo[t]).msgs \in Seq(Msg)
                                         /\ Head(todo[t]).msgs # <<>>
         /\ Head(todo[t]).op \in {"start", "wake", "splice", "shut", "uvclose"} =>
              Head(todo[t]).port \in Ports
<1>1. todo[t] \in Seq(Op)
  BY DEF TypeOK, TodoTypeOK
<1>2. Head(todo[t]) \in Op
  BY <1>1
<1>3. Head(todo[t]) \in Ops(t)
  BY <1>1 DEF Ops
<1> QED
  BY <1>2, <1>3, OpFields

\* And a function that goes on.
LEMMA ContinueType ==
  ASSUME TypeOK, NEW t \in Threads, todo[t] # <<>>, NEW r \in Seq(Op), Continue(t, r)
  PROVE  TodoTypeOK'
BY ContinueFacts DEF TodoTypeOK

\* Every step of a function a thread is in keeps the types.
LEMMA StepType ==
  ASSUME TypeOK, PortOK, TodoOK, BusyOK, NEW t \in Threads, Step(t)
  PROVE  TypeOK'
<1>0. /\ \A m \in Mailboxes : inbox[m] \in Seq(Msg)
      /\ batch[t] \in Seq(Msg)
  BY DEF TypeOK, MailboxTypeOK, LoopTypeOK
<1>1. CASE CloseStep(t)
  <2> DEFINE m == Head(todo[t]).mb
  <2>1. /\ Doing(t, "close")
        /\ closed' = [closed EXCEPT ![m] = TRUE]
        /\ owner'  = [owner EXCEPT ![m] = None]
        /\ inbox'  = [inbox EXCEPT ![m] = <<>>]
        /\ Continue(t, Freeing(inbox[m]))
        /\ UNCHANGED <<alive, refs, portVars, threadVars, loopVars, calls, last>>
    BY <1>1, Zenon DEF CloseStep, Emptied
  <2>2. todo[t] # <<>> /\ m \in Mailboxes
    BY <2>1, HeadFacts DEF Doing
  <2> HIDE DEF m
  <2>3. MailboxTypeOK'
    BY <2>1, <2>2 DEF TypeOK, MailboxTypeOK
  <2>4. TodoTypeOK'
    BY <2>1, <2>2, <1>0, FreeingType, ContinueType
  <2> QED
    BY <2>1, <2>3, <2>4, Frames DEF TypeOK
<1>2. CASE UnrefStep(t)
  <2> DEFINE m == Head(todo[t]).mb
  <2>1. /\ Doing(t, "unref")
        /\ refs' = [refs EXCEPT ![m] = @ - 1]
        /\ \/ /\ alive' = [alive EXCEPT ![m] = "freed"]
              /\ inbox' = [inbox EXCEPT ![m] = <<>>]
              /\ Continue(t, Freeing(inbox[m]))
           \/ Continue(t, <<>>) /\ UNCHANGED <<alive, inbox>>
        /\ UNCHANGED <<closed, owner, portVars, threadVars, loopVars, calls, last>>
    BY <1>2, Zenon DEF UnrefStep, Emptied
  <2>2. todo[t] # <<>> /\ m \in Mailboxes
    BY <2>1, HeadFacts DEF Doing
  <2> HIDE DEF m
  <2>3. MailboxTypeOK'
    <3>1. refs' \in [Mailboxes -> Int]
      BY <2>1, <2>2 DEF TypeOK, MailboxTypeOK
    <3>2. /\ alive' \in [Mailboxes -> {"unused", "live", "freed"}]
          /\ inbox' \in [Mailboxes -> Seq(Msg)]
      BY <2>1, <2>2, EmptyType, ZenonT(60) DEF TypeOK, MailboxTypeOK
    <3> QED
      BY <2>1, <3>1, <3>2 DEF TypeOK, MailboxTypeOK
  <2>4. TodoTypeOK'
    BY <2>1, <2>2, <1>0, FreeingType, EmptyType, ContinueType
  <2> QED
    BY <2>1, <2>3, <2>4, Frames DEF TypeOK
<1>3. CASE PostStep(t)
  <2> DEFINE m == Head(todo[t]).mb
             x == Head(todo[t]).msg
  <2>1. /\ Doing(t, "post")
        /\ \/ Continue(t, Freeing(<<x>>)) /\ UNCHANGED <<inbox, wake>>
           \/ /\ inbox' = [inbox EXCEPT ![m] = Append(@, x)]
              /\ wake'  = [p \in Ports |-> wake[p] \/ owner[m] = p]
              /\ Continue(t, <<>>)
        /\ UNCHANGED <<alive, refs, closed, owner, state, rx, tx, home, handle,
                       threadVars, loopVars, calls, last>>
    BY <1>3, Zenon DEF PostStep, Enqueue
  <2>2. todo[t] # <<>> /\ m \in Mailboxes /\ x \in Msg
    BY <2>1, HeadFacts DEF Doing
  <2> HIDE DEF m, x
  <2>3. MailboxTypeOK'
    <3>1. inbox[m] \in Seq(Msg) /\ Append(inbox[m], x) \in Seq(Msg)
      BY <1>0, <2>2, SeqFacts
    <3>2. inbox' \in [Mailboxes -> Seq(Msg)]
      BY <2>1, <2>2, <3>1 DEF TypeOK, MailboxTypeOK
    <3> QED
      BY <2>1, <3>2 DEF TypeOK, MailboxTypeOK
  <2>4. TodoTypeOK'
    BY <2>1, <2>2, SeqFacts, FreeingType, EmptyType, ContinueType
  <2>5. wake' \in [Ports -> BOOLEAN]
    BY <2>1 DEF TypeOK, PortTypeOK
  <2>6. PortTypeOK'
    BY <2>1, <2>5 DEF TypeOK, PortTypeOK
  <2> QED
    BY <2>1, <2>3, <2>4, <2>6, Frames DEF TypeOK
<1>4. CASE FreeStep(t)
  <2> DEFINE s == Head(todo[t]).msgs
             x == Head(s)
             y == [x EXCEPT !.ports = Tail(@)]
             r == Head(x.ports)
  <2>1. /\ Doing(t, "free")
        /\ \/ x.ports = <<>> /\ Continue(t, Freeing(Tail(s)))
           \/ x.ports # <<>> /\ Continue(t, Release(r.rx, r.tx) \o Freeing(<<y>> \o Tail(s)))
        /\ UNCHANGED <<mailboxVars, portVars, threadVars, loopVars, calls, last>>
    BY <1>4, Zenon DEF FreeStep
  <2>2. todo[t] # <<>> /\ s \in Seq(Msg) /\ s # <<>>
    BY <2>1, HeadFacts DEF Doing
  <2>3. x \in Msg /\ Tail(s) \in Seq(Msg) /\ x.ports \in Seq(PortRef)
    BY <2>2, SeqFacts
  <2>4. Freeing(Tail(s)) \in Seq(Op)
    BY <2>3, FreeingType
  <2>5. ASSUME x.ports # <<>>
        PROVE  Release(r.rx, r.tx) \o Freeing(<<y>> \o Tail(s)) \in Seq(Op)
    <3>1. r \in PortRef /\ Tail(x.ports) \in Seq(PortRef)
      BY <2>3, <2>5
    <3>2. y = [x EXCEPT !.ports = Tail(x.ports)]
      BY <2>3 DEF Msg
    <3>3. y \in Msg
      BY <2>3, <3>1, <3>2, SeqFacts
    <3>4. Freeing(<<y>> \o Tail(s)) \in Seq(Op)
      BY <3>3, <2>3, SeqFacts, FreeingType
    <3>5. Release(r.rx, r.tx) \in Seq(Op)
      BY <3>1, ReleaseType DEF PortRef
    <3> DEFINE u == Release(r.rx, r.tx)
               v == Freeing(<<y>> \o Tail(s))
    <3> HIDE DEF u, v
    <3>6. ASSUME u \in Seq(Op), v \in Seq(Op) PROVE u \o v \in Seq(Op)
      BY <3>6
    <3> QED
      BY <3>4, <3>5, <3>6, ZenonT(60) DEF u, v
  <2> HIDE DEF s, x, y, r
  <2>6. TodoTypeOK'
    BY <2>1, <2>2, <2>4, <2>5, ContinueType
  <2> QED
    BY <2>1, <2>6, Frames DEF TypeOK
<1>5. CASE StartStep(t)
  <2> DEFINE p == Head(todo[t]).port
  <2>1. /\ Doing(t, "start") /\ Own(p) /\ Continue(t, Flush(p))
        /\ UNCHANGED <<threadVars, loopVars, calls, last>>
    BY <1>5, Zenon DEF StartStep
  <2>2. todo[t] # <<>> /\ p \in Ports
    BY <2>1, HeadFacts DEF Doing
  <2>3. Live(p)
    BY <2>1, <2>2, HeadFacts DEF Doing, TodoOK, OpOK, Live
  <2>4. TodoTypeOK'
    BY <2>1, <2>2, FlushType, ContinueType
  <2> QED
    BY <2>1, <2>2, <2>3, <2>4, OwnType, Frames DEF TypeOK
<1>6. CASE WakeStep(t) \/ UvCloseStep(t)
  <2> DEFINE p == Head(todo[t]).port
  <2>1. /\ Doing(t, "wake") \/ Doing(t, "uvclose")
        /\ \/ wake' = [wake EXCEPT ![p] = TRUE] /\ UNCHANGED handle
           \/ handle' = [handle EXCEPT ![p] = "closing"] /\ UNCHANGED wake
        /\ Continue(t, <<>>)
        /\ UNCHANGED <<mailboxVars, state, rx, tx, home, threadVars, loopVars, calls, last>>
    BY <1>6, Zenon DEF WakeStep, UvCloseStep
  <2>2. todo[t] # <<>>
    BY <2>1 DEF Doing
  <2>3. TodoTypeOK'
    BY <2>1, <2>2, EmptyType, ContinueType
  <2>4. PortTypeOK'
    BY <2>1 DEF TypeOK, PortTypeOK
  <2> QED
    BY <2>1, <2>3, <2>4, Frames DEF TypeOK
<1>7. CASE JoinStep(t)
  <2>1. /\ Doing(t, "join") /\ Continue(t, <<>>)
        /\ UNCHANGED <<mailboxVars, portVars, threadVars, loopVars, calls, last>>
    BY <1>7, Zenon DEF JoinStep
  <2> QED
    BY <2>1, EmptyType, ContinueType, Frames DEF TypeOK, Doing
<1>8. CASE ShutStep(t)
  <2> DEFINE p == Head(todo[t]).port
  <2>1. /\ Doing(t, "shut")
        /\ \/ Live(p) /\ Detach(p) /\ Continue(t, Release(rx[p], tx[p]))
           \/ Continue(t, <<>>) /\ UNCHANGED <<mailboxVars, portVars>>
        /\ UNCHANGED <<threadVars, loopVars, calls, last>>
    BY <1>8, Zenon DEF ShutStep
  <2>2. todo[t] # <<>> /\ p \in Ports
    BY <2>1, HeadFacts DEF Doing
  <2> HIDE DEF p
  <2>3. Live(p) => Release(rx[p], tx[p]) \in Seq(Op)
    BY <2>2, ReleaseType DEF PortOK
  <2>4. TodoTypeOK'
    BY <2>1, <2>2, <2>3, EmptyType, ContinueType
  <2>5. MailboxTypeOK' /\ PortTypeOK'
    BY <2>1, <2>2, DetachType, Frames
  <2> QED
    BY <2>1, <2>4, <2>5, Frames DEF TypeOK
<1>9. CASE SpliceStep(t)
  <2> DEFINE p == Head(todo[t]).port
  <2>1. /\ Doing(t, "splice")
        /\ inbox' = [inbox EXCEPT ![rx[p]] = <<>>]
        /\ batch' = [batch EXCEPT ![t] = inbox[rx[p]]]
        /\ src'   = [src EXCEPT ![t] = rx[p]]
        /\ cur'   = [cur EXCEPT ![t] = p]
        /\ Continue(t, <<>>)
        /\ UNCHANGED <<alive, refs, closed, owner, portVars, threadVars, busy, calls, last>>
    BY <1>9, Zenon DEF SpliceStep, Emptied
  <2>2. todo[t] # <<>> /\ p \in Ports
    BY <2>1, HeadFacts DEF Doing
  <2>3. Live(p)
    BY <2>1, <2>2, HeadFacts DEF Doing, TodoOK, OpOK
  <2>4. rx[p] \in Mailboxes
    BY <2>2, <2>3 DEF PortOK
  <2> HIDE DEF p
  <2>5. MailboxTypeOK'
    BY <2>1, <2>4 DEF TypeOK, MailboxTypeOK
  <2>6. LoopTypeOK'
    BY <2>1, <2>2, <2>4, <1>0 DEF TypeOK, LoopTypeOK
  <2>7. TodoTypeOK'
    BY <2>1, <2>2, EmptyType, ContinueType
  <2> QED
    BY <2>1, <2>5, <2>6, <2>7, Frames DEF TypeOK
<1>10. CASE Dispatch(t)
  <2>1. /\ batch[t] # <<>> /\ busy' = [busy EXCEPT ![t] = TRUE]
        /\ last' = [last EXCEPT ![src[t]] = Head(batch[t]).id]
        /\ Adopt(t, Head(batch[t])) \/ UNCHANGED <<portVars, batch>>
        /\ UNCHANGED <<mailboxVars, threadVars, todo, cur, src, calls>>
    BY <1>10, Zenon DEF Dispatch
  <2>2. Head(batch[t]) \in Msg /\ Tail(batch[t]) \in Seq(Msg)
    BY <1>0, <2>1, SeqFacts
  <2>3. PortTypeOK' /\ batch' \in [Threads -> Seq(Msg)]
    BY <2>1, AdoptFacts, Frames DEF TypeOK, LoopTypeOK, PortsAdded
  <2>4. HistoryTypeOK'
    <3>1. Head(batch[t]).id \in 0..MaxCalls
      BY <2>2, SeqFacts
    <3> QED
      BY <2>1, <3>1 DEF TypeOK, HistoryTypeOK
  <2>5. LoopTypeOK'
    BY <2>1, <2>3 DEF TypeOK, LoopTypeOK
  <2> QED
    BY <2>1, <2>3, <2>4, <2>5, Frames DEF TypeOK
<1>11. CASE HandlerReturn(t)
  <2>1. /\ busy'  = [busy EXCEPT ![t] = FALSE]
        /\ batch' = [batch EXCEPT ![t] = Tail(@)]
        /\ Call(t, Freeing(<<Head(batch[t])>>))
        /\ UNCHANGED <<mailboxVars, portVars, threadVars, cur, src, calls, last>>
    BY <1>11, Zenon DEF HandlerReturn
  <2>2. batch[t] # <<>>
    BY <1>11 DEF HandlerReturn, BusyOK
  <2>3. Head(batch[t]) \in Msg /\ Tail(batch[t]) \in Seq(Msg)
    BY <1>0, <2>2, SeqFacts
  <2>4. TodoTypeOK'
    BY <2>1, <2>3, SeqFacts, FreeingType, CallFacts DEF TodoTypeOK
  <2>5. LoopTypeOK'
    BY <2>1, <2>3 DEF TypeOK, LoopTypeOK
  <2> QED
    BY <2>1, <2>4, <2>5, Frames DEF TypeOK
<1>12. CASE DropRest(t)
  <2>1. /\ batch' = [batch EXCEPT ![t] = <<>>]
        /\ Call(t, Freeing(batch[t]))
        /\ UNCHANGED <<mailboxVars, portVars, threadVars, cur, busy, src, calls, last>>
    BY <1>12, Zenon DEF DropRest
  <2>2. TodoTypeOK'
    BY <2>1, <1>0, FreeingType, CallFacts DEF TodoTypeOK
  <2>3. LoopTypeOK'
    BY <2>1 DEF TypeOK, LoopTypeOK
  <2> QED
    BY <2>1, <2>2, <2>3, Frames DEF TypeOK
<1>13. CASE CallbackReturn(t)
  <2>1. /\ cur' = [cur EXCEPT ![t] = None]
        /\ UNCHANGED <<mailboxVars, portVars, threadVars, todo, batch, busy, src, calls, last>>
    BY <1>13, Zenon DEF CallbackReturn
  <2>2. LoopTypeOK'
    BY <2>1 DEF TypeOK, LoopTypeOK
  <2> QED
    BY <2>1, <2>2, Frames DEF TypeOK
<1> QED
  BY <1>1, <1>2, <1>3, <1>4, <1>5, <1>6, <1>7, <1>8, <1>9, <1>10, <1>11, <1>12,
     <1>13 DEF Step

\* Every turn of a loop, and every step in the life of a runtime, keeps the
\* types.
LEMMA LoopType ==
  ASSUME TypeOK, NEW t \in Threads, Loop(t)
  PROVE  TypeOK'
<1>1. ASSUME NEW p \in Ports, LoopWake(t, p)
      PROVE  TypeOK'
  <2>1. /\ wake' = [wake EXCEPT ![p] = FALSE]
        /\ Call(t, IF Live(p) THEN <<PortOp("splice", p)>> ELSE <<>>)
        /\ UNCHANGED <<mailboxVars, state, rx, tx, home, handle, threadVars, loopVars,
                       calls, last>>
    BY <1>1, Zenon DEF LoopWake
  <2>2. (IF Live(p) THEN <<PortOp("splice", p)>> ELSE <<>>) \in Seq(Op)
    BY OpTypes
  <2>3. TodoTypeOK'
    BY <2>1, <2>2, CallFacts DEF TodoTypeOK
  <2>4. PortTypeOK'
    BY <2>1 DEF TypeOK, PortTypeOK
  <2> QED
    BY <2>1, <2>3, <2>4, Frames DEF TypeOK
<1>2. CASE CloseCb(t)
  <2>1. /\ handle' = [p \in Ports |-> IF home[p] = t /\ handle[p] = "closing"
                                     THEN "freed" ELSE handle[p]]
        /\ UNCHANGED <<mailboxVars, state, rx, tx, home, wake, threadVars, todo,
                       loopVars, calls, last>>
    BY <1>2, Zenon DEF CloseCb
  <2>2. PortTypeOK'
    BY <2>1 DEF TypeOK, PortTypeOK
  <2> QED
    BY <2>1, <2>2, Frames DEF TypeOK
<1>3. ASSUME NEW from,
             NEW to \in {"stopped", "draining", "freeing", "closing", "freed"},
             Phase(t, from, to)
      PROVE  TypeOK'
  <2>1. /\ phase' = [phase EXCEPT ![t] = to]
        /\ UNCHANGED <<mailboxVars, portVars, stop, near, far, todo, loopVars, calls, last>>
    BY <1>3, Zenon DEF Phase
  <2>2. ThreadTypeOK'
    BY <2>1 DEF TypeOK, ThreadTypeOK
  <2> QED
    BY <2>1, <2>2, Frames DEF TypeOK
<1>4. \/ \E p \in Ports : LoopWake(t, p)
      \/ CloseCb(t)
      \/ Phase(t, "running", "stopped") \/ Phase(t, "stopped", "draining")
      \/ Phase(t, "draining", "freeing") \/ Phase(t, "freeing", "closing")
      \/ Phase(t, "closing", "freed")
  BY Zenon DEF Loop, LoopReturn, FreeRuntime, FreeEngine, CloseLoop, LoopClosed
<1> QED
  BY <1>1, <1>2, <1>3, <1>4

----------------------------------------------------------------------------
(* What a step does to the stacks.                                         *)

\* The operations that a function ends with.
EndOp == {"start", "splice", "shut"}

\* r is pushed on the stack of t, in place of the operation at its head if
\* there is one; the stacks of the other threads stay.
Push(t, r) == \/ todo[t] = <<>> /\ Call(t, r)
              \/ todo[t] # <<>> /\ Continue(t, r)
Rest(t) == IF todo[t] = <<>> THEN <<>> ELSE Tail(todo[t])

\* What a thread has still to do when its head is done.
LEMMA RestFacts ==
  ASSUME TypeOK, TodoOK, NEW t \in Threads
  PROVE  /\ Rest(t) \in Seq(Op)
         /\ SeqRange(Rest(t)) \subseteq Ops(t)
         /\ \A o \in Ops(t) : o # Head(todo[t]) => o \in SeqRange(Rest(t))
         /\ \A i \in DOMAIN Rest(t) : Rest(t)[i].op \in EndOp => i = Len(Rest(t))
         /\ todo[t] # <<>> /\ Head(todo[t]).op \in EndOp => Rest(t) = <<>>
<1>1. todo[t] \in Seq(Op)
  BY DEF TypeOK, TodoTypeOK
<1>2. CASE todo[t] = <<>>
  BY <1>1, <1>2 DEF Rest, SeqRange, Ops
<1>3. CASE todo[t] # <<>>
  <2> DEFINE s == todo[t]
             r == Tail(s)
  <2>1. s \in Seq(Op) /\ Len(s) \in Nat \ {0} /\ s[1] = Head(s) /\ DOMAIN s = 1..Len(s)
    BY <1>1, <1>3
  <2>2. r \in Seq(Op) /\ Len(r) = Len(s) - 1 /\ DOMAIN r = 1..(Len(s) - 1)
    BY <1>1, <1>3
  <2>3. \A i \in 1..(Len(s) - 1) : r[i] = s[i + 1]
    BY <1>1, <1>3
  <2>4. \A i \in 1..Len(s) : s[i].op \in EndOp => i = Len(s)
    BY <2>1 DEF TodoOK, EndOp
  <2>5. Rest(t) = r
    BY <1>3 DEF Rest
  <2> HIDE DEF s, r
  <2>6. SeqRange(r) \subseteq SeqRange(s)
    BY <2>1, <2>2, <2>3 DEF SeqRange
  <2>7. \A o \in SeqRange(s) : o # Head(s) => o \in SeqRange(r)
    <3> SUFFICES ASSUME NEW i \in 1..Len(s), s[i] # Head(s)
                 PROVE  s[i] \in SeqRange(r)
      BY <2>1 DEF SeqRange
    <3>1. i - 1 \in 1..(Len(s) - 1) /\ s[i] = r[i - 1]
      BY <2>1, <2>3
    <3> QED
      BY <2>2, <3>1 DEF SeqRange
  <2>8. \A i \in DOMAIN r : r[i].op \in EndOp => i = Len(r)
    <3> SUFFICES ASSUME NEW i \in 1..(Len(s) - 1), r[i].op \in EndOp
                 PROVE  i = Len(r)
      BY <2>2
    <3>1. i + 1 \in 1..Len(s) /\ s[i + 1].op \in EndOp
      BY <2>1, <2>3
    <3>2. i + 1 = Len(s)
      BY <3>1, <2>4
    <3> QED
      BY <3>2, <2>1, <2>2
  <2>9. Head(s).op \in EndOp => r = <<>>
    <3> SUFFICES ASSUME Head(s).op \in EndOp
                 PROVE  r = <<>>
      OBVIOUS
    <3>1. 1 \in 1..Len(s) /\ s[1].op \in EndOp
      BY <2>1
    <3>2. Len(s) = 1
      BY <3>1, <2>4
    <3> QED
      BY <3>2, <2>2
  <2>10. SeqRange(s) = Ops(t) /\ s = todo[t]
    BY DEF Ops, SeqRange, s
  <2> QED
    BY <2>2, <2>5, <2>6, <2>7, <2>8, <2>9, <2>10
<1> QED
  BY <1>2, <1>3

\* The elements of a concatenation.
LEMMA ConcatFacts ==
  ASSUME NEW S, NEW r \in Seq(S), NEW s \in Seq(S)
  PROVE  /\ SeqRange(r \o s) = SeqRange(r) \cup SeqRange(s)
         /\ \A i \in DOMAIN (r \o s) :
              \/ i \in DOMAIN r /\ (r \o s)[i] = r[i]
              \/ i - Len(r) \in DOMAIN s /\ (r \o s)[i] = s[i - Len(r)]
         /\ Len(r \o s) = Len(r) + Len(s)
         /\ DOMAIN (r \o s) \subseteq Nat
<1> DEFINE c == r \o s
<1>1. /\ Len(c) = Len(r) + Len(s) /\ DOMAIN c = 1..(Len(r) + Len(s))
      /\ Len(r) \in Nat /\ Len(s) \in Nat
      /\ DOMAIN r = 1..Len(r) /\ DOMAIN s = 1..Len(s)
  OBVIOUS
<1>2. /\ \A i \in 1..Len(r) : c[i] = r[i]
      /\ \A i \in 1..Len(s) : c[i + Len(r)] = s[i]
      /\ \A i \in (Len(r) + 1)..(Len(r) + Len(s)) : c[i] = s[i - Len(r)]
  OBVIOUS
<1> HIDE DEF c
<1>3. \A i \in DOMAIN c : \/ i \in DOMAIN r /\ c[i] = r[i]
                          \/ i - Len(r) \in DOMAIN s /\ c[i] = s[i - Len(r)]
  <2> SUFFICES ASSUME NEW i \in 1..(Len(r) + Len(s))
               PROVE  \/ i \in DOMAIN r /\ c[i] = r[i]
                      \/ i - Len(r) \in DOMAIN s /\ c[i] = s[i - Len(r)]
    BY <1>1
  <2>1. CASE i \in 1..Len(r)
    BY <2>1, <1>1, <1>2
  <2>2. CASE i \in (Len(r) + 1)..(Len(r) + Len(s))
    <3>1. i - Len(r) \in 1..Len(s)
      BY <2>2, <1>1
    <3> QED
      BY <2>2, <3>1, <1>1, <1>2
  <2> QED
    BY <2>1, <2>2, <1>1
<1>4. SeqRange(c) \subseteq SeqRange(r) \cup SeqRange(s)
  BY <1>3 DEF SeqRange
<1>5. SeqRange(r) \subseteq SeqRange(c)
  <2> SUFFICES ASSUME NEW i \in 1..Len(r)
               PROVE  r[i] \in SeqRange(c)
    BY <1>1 DEF SeqRange
  <2>1. i \in 1..(Len(r) + Len(s))
    BY <1>1
  <2> QED
    BY <2>1, <1>1, <1>2 DEF SeqRange
<1>6. SeqRange(s) \subseteq SeqRange(c)
  <2> SUFFICES ASSUME NEW i \in 1..Len(s)
               PROVE  s[i] \in SeqRange(c)
    BY <1>1 DEF SeqRange
  <2>1. i + Len(r) \in 1..(Len(r) + Len(s))
    BY <1>1
  <2> QED
    BY <2>1, <1>1, <1>2 DEF SeqRange
<1> QED
  BY <1>1, <1>3, <1>4, <1>5, <1>6 DEF c

\* The stack after r was pushed.
LEMMA PushFacts ==
  ASSUME TypeOK, TodoOK, NEW t \in Threads, NEW r \in Seq(Op), Push(t, r)
  PROVE  /\ todo' \in [Threads -> Seq(Op)]
         /\ todo'[t] = r \o Rest(t)
         /\ Ops(t)' = SeqRange(r) \cup SeqRange(Rest(t))
         /\ \A u \in Threads \ {t} : todo'[u] = todo[u] /\ Ops(u)' = Ops(u)
         /\ r # <<>> => todo'[t] # <<>> /\ Head(todo'[t]) = Head(r)
<1>1. /\ todo' \in [Threads -> Seq(Op)] /\ todo'[t] = r \o Rest(t)
      /\ \A u \in Threads \ {t} : todo'[u] = todo[u]
  <2>1. CASE todo[t] = <<>> /\ Call(t, r)
    BY <2>1, CallFacts DEF Rest
  <2>2. CASE todo[t] # <<>> /\ Continue(t, r)
    BY <2>2, ContinueFacts DEF Rest
  <2> QED
    BY <2>1, <2>2 DEF Push
<1>2. Rest(t) \in Seq(Op)
  BY RestFacts
<1>3. SeqRange(r \o Rest(t)) = SeqRange(r) \cup SeqRange(Rest(t))
  BY <1>2, ConcatFacts
<1>4. \A u \in Threads : Ops(u)' = SeqRange(todo'[u]) /\ Ops(u) = SeqRange(todo[u])
  BY DEF Ops, SeqRange
<1>5. r # <<>> => r \o Rest(t) # <<>> /\ Head(r \o Rest(t)) = Head(r)
  BY <1>2
<1> QED
  BY <1>1, <1>3, <1>4, <1>5

\* Where the operations are that end a function.
LEMMA PushEnd ==
  ASSUME TypeOK, TodoOK, NEW t \in Threads, NEW r \in Seq(Op), Push(t, r),
         \A i \in DOMAIN r : r[i].op \in EndOp => i = Len(r) /\ Rest(t) = <<>>
  PROVE  \A u \in Threads : \A i \in DOMAIN todo'[u] :
           todo'[u][i].op \in EndOp => i = Len(todo'[u])
<1>1. \A u \in Threads \ {t} : \A i \in DOMAIN todo'[u] :
        todo'[u][i].op \in EndOp => i = Len(todo'[u])
  BY PushFacts DEF TodoOK, EndOp
<1>2. todo'[t] = r \o Rest(t) /\ Rest(t) \in Seq(Op)
  BY PushFacts, RestFacts
<1>3. CASE Rest(t) = <<>>
  <2>1. todo'[t] = r
    BY <1>2, <1>3
  <2> QED
    BY <1>1, <2>1
<1>4. CASE Rest(t) # <<>>
  <2> DEFINE s == Rest(t)
             c == r \o s
  <2>1. /\ \A i \in DOMAIN r : r[i].op \notin EndOp
        /\ \A i \in DOMAIN s : s[i].op \in EndOp => i = Len(s)
    BY <1>4, RestFacts
  <2>2. s \in Seq(Op) /\ c = todo'[t]
    BY <1>2
  <2> HIDE DEF s
  <2>3. \A i \in DOMAIN c : \/ i \in DOMAIN r /\ c[i] = r[i]
                            \/ i - Len(r) \in DOMAIN s /\ c[i] = s[i - Len(r)]
    BY <2>2, ConcatFacts, ZenonT(60)
  <2>4. Len(c) = Len(r) + Len(s) /\ DOMAIN c \subseteq Nat
    BY <2>2, ConcatFacts, ZenonT(60)
  <2>6. Len(r) \in Nat /\ Len(s) \in Nat
    BY <2>2
  <2>5. \A i \in DOMAIN c : c[i].op \in EndOp => i = Len(c)
    <3> SUFFICES ASSUME NEW i \in DOMAIN c, c[i].op \in EndOp
                 PROVE  i = Len(c)
      OBVIOUS
    <3>1. i - Len(r) = Len(s) /\ i \in Nat
      BY <2>1, <2>3, <2>4
    <3> DEFINE a == Len(r)
               b == Len(s)
               d == Len(c)
    <3>2. i - a = b /\ d = a + b /\ a \in Nat /\ b \in Nat
      BY <3>1, <2>4, <2>6
    <3> HIDE DEF a, b, d
    <3>3. i = d
      BY <3>1, <3>2
    <3> QED
      BY <3>3 DEF d
  <2> QED
    BY <1>1, <2>2, <2>5
<1> QED
  BY <1>3, <1>4

----------------------------------------------------------------------------
(* What a step must leave alone for the invariants to survive.             *)

PortsKept == UNCHANGED <<state, rx, tx, home, handle>>

\* The clauses of OwnerOK for one mailbox and of NoLostWakeup for one port.
OwnerClause(m) ==
  LET p == owner[m]
  IN /\ handle[p] = "active" /\ home[p] \in Threads
     /\ \/ state[p] = "started" /\ rx[p] = m
        \/ /\ state[p] = "closed"
           /\ todo[home[p]] # <<>> /\ Head(todo[home[p]]) = CloseOp(m)

Waiting(p) == state[p] = "started" /\ owner[rx[p]] = p /\ inbox[rx[p]] # <<>>
Woken(p) == \/ wake[p]
            \/ PortOp("wake", p) \in Ops(home[p])
            \/ PortOp("splice", p) \in Ops(home[p])

\* OwnerOK, one mailbox at a time.
LEMMA ByMailbox == OwnerOK <=> \A m \in Mailboxes : owner[m] # None => OwnerClause(m)
BY DEF OwnerOK, OwnerClause

\* NoLostWakeup, one port at a time.
LEMMA ByPort == NoLostWakeup <=> \A p \in Ports : Waiting(p) => Woken(p)
BY Zenon DEF NoLostWakeup, Waiting, Woken, Ops

\* OwnerOK after a step, one mailbox at a time.
LEMMA NextByMailbox ==
  ASSUME \A m \in Mailboxes : owner'[m] # None => OwnerClause(m)'
  PROVE  OwnerOK'
BY DEF OwnerOK, OwnerClause

\* NoLostWakeup after a step, one port at a time.
LEMMA NextByPort ==
  ASSUME \A p \in Ports : Waiting(p)' => Woken(p)'
  PROVE  NoLostWakeup'
<1> SUFFICES ASSUME NEW p \in Ports, state'[p] = "started", owner'[rx'[p]] = p,
                    inbox'[rx'[p]] # <<>>
             PROVE  \/ wake'[p]
                    \/ \E i \in DOMAIN todo'[home'[p]] :
                         todo'[home'[p]][i] \in {PortOp("wake", p), PortOp("splice", p)}
  BY DEF NoLostWakeup
<1>1. Woken(p)'
  BY DEF Waiting
<1> QED
  BY <1>1 DEF Woken, Ops

\* PortOK is about the ports alone.
LEMMA PortKept ==
  ASSUME PortOK, PortsKept
  PROVE  PortOK'
BY DEF PortOK, PortsKept, Live

\* Only t changes its callback, and then no operation is left on its stack.
CurKept(t) == \A u \in Threads : cur'[u] = cur[u] \/ (u = t /\ Rest(t) = <<>>)

\* A step of t that changes ports of t only, and only when no operation is
\* left behind the one it replaces, leaves the other operations valid.
LEMMA TodoKept ==
  ASSUME TypeOK, PortOK, TodoOK, NEW t \in Threads, CurKept(t), NEW r \in Seq(Op), Push(t, r),
         \A p \in Ports : state[p] # "unused" =>
            /\ home'[p] = home[p]
            /\ state'[p] = state[p] \/ (home[p] = t /\ Rest(t) = <<>>),
         \A o \in SeqRange(r) : OpOK(t, o)',
         \A i \in DOMAIN r : r[i].op \in EndOp => i = Len(r) /\ Rest(t) = <<>>
  PROVE  TodoOK'
<1>1. ASSUME NEW u \in Threads, NEW o \in Ops(u), u # t \/ Rest(t) # <<>>
      PROVE  OpOK(u, o)'
  <2>1. o \in Op /\ OpOK(u, o)
    BY <1>1 DEF TypeOK, TodoTypeOK, Ops, TodoOK
  <2>2. CASE o.op \in {"start", "wake", "splice", "shut", "uvclose"}
    <3>1. o.port \in Ports /\ home[o.port] = u
      BY <2>1, <2>2, OpFields DEF OpOK
    <3>2. state[o.port] # "unused"
      BY <3>1 DEF PortOK
    <3>3. home'[o.port] = home[o.port] /\ state'[o.port] = state[o.port]
      BY <1>1, <3>1, <3>2
    <3>4. cur'[u] = cur[u]
      BY <1>1 DEF CurKept
    <3> QED
      BY <2>1, <3>1, <3>3, <3>4 DEF OpOK, Live
  <2>3. CASE o.op \notin {"start", "wake", "splice", "shut", "uvclose"}
    BY <2>3 DEF OpOK
  <2> QED
    BY <2>2, <2>3
<1>2. \A o \in SeqRange(Rest(t)) : OpOK(t, o)'
  <2>1. CASE Rest(t) = <<>>
    BY <2>1 DEF SeqRange
  <2>2. CASE Rest(t) # <<>>
    BY <2>2, <1>1, RestFacts
  <2> QED
    BY <2>1, <2>2
<1>3. \A u \in Threads : \A o \in Ops(u)' : OpOK(u, o)'
  <2>1. \A o \in Ops(t)' : OpOK(t, o)'
    BY <1>2, PushFacts
  <2>2. \A u \in Threads \ {t} : \A o \in Ops(u)' : OpOK(u, o)'
    BY <1>1, PushFacts
  <2> QED
    BY <2>1, <2>2
<1>4. \A u \in Threads : \A i \in DOMAIN todo'[u] :
        todo'[u][i].op \in EndOp => i = Len(todo'[u])
  BY PushEnd
<1> QED
  BY <1>3, <1>4 DEF TodoOK, EndOp

\* The owner of a mailbox stays so when neither it nor the close ahead of it moves.
LEMMA OwnerKept ==
  ASSUME TypeOK, TodoOK, OwnerOK, NEW t \in Threads, NEW r \in Seq(Op), Push(t, r),
         NEW m \in Mailboxes, owner[m] # None, owner'[m] = owner[m],
         NEW p, p = owner[m],
         state'[p] = state[p], rx'[p] = rx[p], home'[p] = home[p], handle'[p] = handle[p],
         todo[t] # <<>> => Head(todo[t]) # CloseOp(m)
  PROVE  OwnerClause(m)'
<1>1. OwnerClause(m)
  BY ByMailbox
<1>2. todo[home[p]] # <<>> /\ Head(todo[home[p]]) = CloseOp(m) => todo'[home[p]] = todo[home[p]]
  BY <1>1, PushFacts, SMTT(30) DEF OwnerClause
<1> QED
  BY <1>1, <1>2 DEF OwnerClause

\* What wakes a port stays when the step does not take it off the stack.
LEMMA WakeKept ==
  ASSUME TypeOK, TodoOK, PortOK, NoLostWakeup, NEW t \in Threads, NEW r \in Seq(Op),
         Push(t, r), NEW p \in Ports, Waiting(p)',
         state[p] = "started", rx'[p] = rx[p], home'[p] = home[p],
         owner[rx[p]] = p, inbox[rx[p]] # <<>>, wake[p] => wake'[p],
         todo[t] # <<>> => Head(todo[t]) \notin {PortOp("wake", p), PortOp("splice", p)}
  PROVE  Woken(p)'
<1>1. Woken(p)
  BY ByPort DEF Waiting
<1>2. home[p] \in Threads
  BY DEF PortOK, Live
<1>3. \A o \in {PortOp("wake", p), PortOp("splice", p)} :
         o \in Ops(home[p]) => o \in Ops(home[p])'
  <2> SUFFICES ASSUME NEW o \in {PortOp("wake", p), PortOp("splice", p)}, o \in Ops(home[p])
               PROVE  o \in Ops(home[p])'
    OBVIOUS
  <2>1. CASE home[p] # t
    <3>1. Ops(home[p])' = {todo'[home'[p]][i] : i \in DOMAIN todo'[home'[p]]}
      BY DEF Ops
    <3>2. todo'[home[p]] = todo[home[p]]
      BY <1>2, <2>1, PushFacts
    <3> QED
      BY <3>1, <3>2 DEF Ops
  <2>2. CASE home[p] = t
    <3>1. todo[t] # <<>>
      BY <2>2 DEF Ops
    <3>2. o \in SeqRange(Rest(t))
      BY <2>2, <3>1, RestFacts
    <3>3. Ops(t)' = SeqRange(r) \cup SeqRange(Rest(t))
      BY PushFacts
    <3>4. Ops(home[p])' = Ops(t)'
      BY <2>2 DEF Ops
    <3> QED
      BY <3>2, <3>3, <3>4
  <2> QED
    BY <2>1, <2>2
<1>4. PortOp("wake", p)' = PortOp("wake", p) /\ PortOp("splice", p)' = PortOp("splice", p)
  BY DEF PortOp
<1> QED
  BY <1>1, <1>3 DEF Woken

----------------------------------------------------------------------------
(* The invariants that relate ports, mailboxes and stacks, kept by each    *)
(* kind of step.                                                           *)

Safe == PortOK /\ TodoOK /\ OwnerOK /\ NoLostWakeup

\* Operations that concern mailboxes and messages only.
Neutral(r) == /\ r \in Seq(Op)
              /\ \A o \in SeqRange(r) : o.op \in {"close", "unref", "post", "free", "join"}

\* Neutral operations are allowed anywhere.
LEMMA NeutralOps ==
  ASSUME NEW r, Neutral(r), NEW t \in Threads
  PROVE  /\ r \in Seq(Op)
         /\ \A o \in SeqRange(r) : OpOK(t, o)'
         /\ \A i \in DOMAIN r : r[i].op \notin EndOp
BY DEF Neutral, OpOK, EndOp, SeqRange

\* The ports stay as they are, mailboxes may lose their owner or messages, and
\* operations on ports are pushed that suit them.
LEMMA PushKeeps ==
  ASSUME TypeOK, Safe, NEW t \in Threads, CurKept(t), NEW r \in Seq(Op), Push(t, r), PortsKept,
         \A o \in SeqRange(r) : OpOK(t, o)',
         \A i \in DOMAIN r : r[i].op \in EndOp => i = Len(r) /\ Rest(t) = <<>>,
         \A m \in Mailboxes :
            /\ owner'[m] \in {owner[m], None}
            /\ inbox'[m] \in {inbox[m], <<>>} \/ (owner[m] # None => wake'[owner[m]]),
         todo[t] # <<>> =>
            /\ \A p \in Ports : Head(todo[t]) \in {PortOp("wake", p), PortOp("splice", p)} =>
                                wake'[p] \/ inbox'[rx[p]] = <<>>
            /\ \A m \in Mailboxes : Head(todo[t]) = CloseOp(m) => owner'[m] = None,
         \A p \in Ports : wake[p] => wake'[p] \/ (home[p] = t /\ PortOp("splice", p) \in SeqRange(r))
                                              \/ ~Live(p)
  PROVE  Safe'
<1>1. PortOK'
  BY PortKept DEF Safe
<1>2. TodoOK'
  <2>1. \A p \in Ports : home'[p] = home[p] /\ state'[p] = state[p]
    BY DEF PortsKept
  <2> QED
    BY <2>1, TodoKept DEF Safe
<1>3. ASSUME NEW m \in Mailboxes, owner'[m] # None
      PROVE  OwnerClause(m)'
  <2>1. owner'[m] = owner[m] /\ owner[m] # None
    BY <1>3
  <2>2. todo[t] # <<>> => Head(todo[t]) # CloseOp(m)
    BY <1>3
  <2> QED
    BY <2>1, <2>2, OwnerKept DEF Safe, PortsKept
<1>4. ASSUME NEW p \in Ports, Waiting(p)'
      PROVE  Woken(p)'
  <2>1. /\ state[p] = "started" /\ rx'[p] = rx[p] /\ home'[p] = home[p]
        /\ owner'[rx[p]] = p /\ inbox'[rx[p]] # <<>>
    BY <1>4 DEF Waiting, PortsKept
  <2>2. rx[p] \in Mailboxes /\ Live(p)
    BY <2>1 DEF Safe, PortOK, Live
  <2>3. owner[rx[p]] = p
    BY <2>1, <2>2
  <2>4. CASE wake'[p]
    BY <2>4 DEF Woken
  <2>5. CASE home[p] = t /\ PortOp("splice", p) \in SeqRange(r)
    <3>1. Ops(home[p])' = Ops(t)'
      BY <2>1, <2>5 DEF Ops
    <3>2. PortOp("splice", p) \in Ops(t)'
      BY <2>5, PushFacts DEF Safe
    <3> QED
      BY <3>1, <3>2 DEF Woken, PortOp
  <2>6. CASE ~wake'[p] /\ ~wake[p]
    <3>1. inbox[rx[p]] # <<>>
      BY <2>1, <2>2, <2>3, <2>6
    <3>2. todo[t] # <<>> => Head(todo[t]) \notin {PortOp("wake", p), PortOp("splice", p)}
      BY <2>1, <2>6
    <3> QED
      BY <1>4, <2>1, <2>3, <2>6, <3>1, <3>2, WakeKept DEF Safe
  <2> QED
    BY <2>2, <2>4, <2>5, <2>6
<1>5. OwnerOK' /\ NoLostWakeup'
  BY <1>3, <1>4, NextByMailbox, NextByPort
<1> QED
  BY <1>1, <1>2, <1>5 DEF Safe

\* The same, when what is pushed does not concern ports.
LEMMA NeutralKeeps ==
  ASSUME TypeOK, Safe, NEW t \in Threads, CurKept(t), NEW r, Neutral(r), Push(t, r), PortsKept,
         UNCHANGED wake,
         \A m \in Mailboxes : owner'[m] \in {owner[m], None}
                              /\ inbox'[m] \in {inbox[m], <<>>},
         todo[t] # <<>> =>
            /\ Head(todo[t]).op \notin {"wake", "splice"}
            /\ \A m \in Mailboxes : Head(todo[t]) = CloseOp(m) => owner'[m] = None
  PROVE  Safe'
<1>1. \A p \in Ports : PortOp("wake", p).op = "wake" /\ PortOp("splice", p).op = "splice"
  BY DEF PortOp
<1>2. todo[t] # <<>> =>
         \A p \in Ports : Head(todo[t]) \notin {PortOp("wake", p), PortOp("splice", p)}
  BY <1>1
<1> QED
  BY <1>2, NeutralOps, PushKeeps

\* Ports are allocated.
LEMMA AddedKeeps ==
  ASSUME TypeOK, Safe, NEW t \in Threads, CurKept(t), NEW r \in Seq(Op), Push(t, r), todo[t] = <<>>,
         NEW S \in SUBSET UnusedPorts, PortsAdded(S), UNCHANGED <<owner, inbox>>,
         \A o \in SeqRange(r) : OpOK(t, o)',
         \A i \in DOMAIN r : r[i].op \in EndOp => i = Len(r)
  PROVE  Safe'
<1>1. /\ \A p \in S : state[p] = "unused"
      /\ \A p \in Ports : state[p] # "unused" =>
            /\ state'[p] = state[p] /\ handle'[p] = handle[p] /\ rx'[p] = rx[p]
            /\ tx'[p] = tx[p] /\ home'[p] = home[p]
      /\ S \subseteq Ports
  BY DEF PortsAdded, UnusedPorts
<1>2. PortOK'
  <2> SUFFICES ASSUME NEW p \in Ports
               PROVE  /\ state'[p] = "unused" => home'[p] = None
                      /\ state'[p] \in {"open", "started"} =>
                           /\ rx'[p] \in Mailboxes /\ tx'[p] \in Mailboxes
                           /\ home'[p] \in Threads /\ handle'[p] = "active"
    BY DEF PortOK, Live
  <2>1. CASE p \in S
    BY <2>1 DEF PortsAdded
  <2>2. CASE p \notin S
    BY <2>2 DEF PortsAdded, Safe, PortOK, Live
  <2> QED
    BY <2>1, <2>2
<1>3. Rest(t) = <<>>
  BY DEF Rest
<1>4. TodoOK'
  BY <1>1, <1>3, TodoKept DEF Safe
<1>5. ASSUME NEW m \in Mailboxes, owner'[m] # None
      PROVE  OwnerClause(m)'
  <2>1. owner'[m] = owner[m] /\ owner[m] \in Ports
    BY <1>5 DEF TypeOK, MailboxTypeOK
  <2>2. state[owner[m]] # "unused"
    BY <1>5, <2>1, ByMailbox DEF Safe, OwnerClause
  <2> QED
    BY <1>1, <1>5, <2>1, <2>2, OwnerKept DEF Safe
<1>6. ASSUME NEW p \in Ports, Waiting(p)'
      PROVE  Woken(p)'
  <2>1. state'[p] = "started"
    BY <1>6 DEF Waiting
  <2>2. p \notin S
    BY <2>1 DEF PortsAdded
  <2>3. /\ state[p] = "started" /\ rx'[p] = rx[p] /\ home'[p] = home[p]
        /\ wake'[p] = wake[p]
    BY <2>1, <2>2 DEF PortsAdded
  <2>4. owner[rx[p]] = p /\ inbox[rx[p]] # <<>>
    BY <1>6, <2>3 DEF Waiting
  <2> QED
    BY <1>6, <2>3, <2>4, WakeKept DEF Safe
<1> QED
  BY <1>2, <1>4, <1>5, <1>6, NextByMailbox, NextByPort DEF Safe

\* A port becomes the owner of its receive side.
LEMMA OwnKeeps ==
  ASSUME TypeOK, Safe, NEW t \in Threads, CurKept(t), NEW p \in Ports, home[p] = t, state[p] = "open",
         Own(p), Push(t, Flush(p)), Rest(t) = <<>>,
         todo[t] # <<>> => Head(todo[t]).op = "start"
  PROVE  Safe'
<1>1. /\ state' = [state EXCEPT ![p] = "started"]
      /\ owner' = [owner EXCEPT ![rx[p]] = p]
      /\ UNCHANGED <<alive, refs, closed, inbox, rx, tx, home, handle, wake>>
  BY DEF Own
<1>2. rx[p] \in Mailboxes /\ tx[p] \in Mailboxes /\ handle[p] = "active"
  BY DEF Safe, PortOK, Live
<1>3. /\ state'[p] = "started" /\ owner'[rx[p]] = p
      /\ \A q \in Ports \ {p} : state'[q] = state[q]
      /\ \A m \in Mailboxes \ {rx[p]} : owner'[m] = owner[m]
  BY <1>1, <1>2 DEF TypeOK, MailboxTypeOK, PortTypeOK
<1>4. Flush(p) \in Seq(Op) /\ SeqRange(Flush(p)) = {PortOp("wake", p)}
      /\ \A i \in DOMAIN Flush(p) : Flush(p)[i].op = "wake"
  BY FlushType DEF Flush, SeqRange, PortOp
<1>5. PortOK'
  BY <1>1, <1>2, <1>3 DEF Safe, PortOK, Live
<1>6. TodoOK'
  <2>1. OpOK(t, PortOp("wake", p))'
    BY <1>1 DEF OpOK, PortOp
  <2>2. \A q \in Ports : state[q] # "unused" =>
           home'[q] = home[q] /\ (state'[q] = state[q] \/ (home[q] = t /\ Rest(t) = <<>>))
    BY <1>1, <1>3
  <2> QED
    BY <1>4, <2>1, <2>2, TodoKept DEF Safe, EndOp
<1>7. ASSUME NEW m \in Mailboxes, owner'[m] # None
      PROVE  OwnerClause(m)'
  <2>1. CASE m = rx[p]
    BY <1>1, <1>2, <1>3, <2>1 DEF OwnerClause
  <2>2. CASE m # rx[p]
    <3>1. owner'[m] = owner[m] /\ owner[m] \in Ports /\ owner[m] # None
      BY <1>3, <1>7, <2>2 DEF TypeOK, MailboxTypeOK
    <3>2. owner[m] # p
      BY <3>1, ByMailbox DEF Safe, OwnerClause
    <3>3. state'[owner[m]] = state[owner[m]]
      BY <1>3, <3>1, <3>2
    <3>4. todo[t] # <<>> => Head(todo[t]) # CloseOp(m)
      BY DEF CloseOp
    <3> QED
      BY <1>1, <1>4, <3>1, <3>3, <3>4, OwnerKept DEF Safe
  <2> QED
    BY <2>1, <2>2
<1>8. ASSUME NEW q \in Ports, Waiting(q)'
      PROVE  Woken(q)'
  <2>1. CASE q = p
    <3>1. PortOp("wake", p) \in Ops(t)'
      BY <1>4, PushFacts DEF Safe
    <3>2. Ops(home[p])' = Ops(t)'
      BY <1>1 DEF Ops
    <3> QED
      BY <2>1, <3>1, <3>2 DEF Woken, PortOp
  <2>2. CASE q # p
    <3>1. /\ state[q] = "started" /\ rx'[q] = rx[q] /\ home'[q] = home[q]
          /\ owner'[rx[q]] = q /\ inbox[rx[q]] # <<>> /\ wake'[q] = wake[q]
      BY <1>1, <1>3, <1>8, <2>2 DEF Waiting
    <3>2. rx[q] \in Mailboxes
      BY <3>1 DEF Safe, PortOK, Live
    <3>3. owner[rx[q]] = q
      BY <1>3, <2>2, <3>1, <3>2
    <3>4. todo[t] # <<>> => Head(todo[t]) \notin {PortOp("wake", q), PortOp("splice", q)}
      BY DEF PortOp
    <3> QED
      BY <1>4, <1>8, <3>1, <3>3, <3>4, WakeKept DEF Safe
  <2> QED
    BY <2>1, <2>2
<1> QED
  BY <1>5, <1>6, <1>7, <1>8, NextByMailbox, NextByPort DEF Safe

\* A live port is closed: the first thing its thread does then is to close the
\* receive side.
LEMMA DetachKeeps ==
  ASSUME TypeOK, Safe, NEW t \in Threads, CurKept(t), NEW p \in Ports, home[p] = t, Live(p),
         Detach(p), NEW r \in Seq(Op), Push(t, r), Rest(t) = <<>>,
         r # <<>>, Head(r) = CloseOp(rx[p]),
         \A o \in SeqRange(r) : OpOK(t, o)',
         \A i \in DOMAIN r : r[i].op \notin EndOp,
         todo[t] # <<>> => Head(todo[t]).op = "shut"
  PROVE  Safe'
<1>1. /\ state' = [state EXCEPT ![p] = "closed"]
      /\ rx' = [rx EXCEPT ![p] = None] /\ tx' = [tx EXCEPT ![p] = None]
      /\ UNCHANGED <<owner, inbox, home, handle, wake>>
  BY DEF Detach, mailboxVars
<1>2. /\ state'[p] = "closed"
      /\ \A q \in Ports \ {p} : state'[q] = state[q] /\ rx'[q] = rx[q] /\ tx'[q] = tx[q]
  BY <1>1 DEF TypeOK, PortTypeOK
<1>3. PortOK'
  BY <1>1, <1>2 DEF Safe, PortOK, Live
<1>4. TodoOK'
  <2>1. \A q \in Ports : state[q] # "unused" =>
           home'[q] = home[q] /\ (state'[q] = state[q] \/ (home[q] = t /\ Rest(t) = <<>>))
    BY <1>1, <1>2
  <2> QED
    BY <2>1, TodoKept DEF Safe
<1>5. ASSUME NEW m \in Mailboxes, owner'[m] # None
      PROVE  OwnerClause(m)'
  <2>1. owner'[m] = owner[m] /\ owner[m] \in Ports /\ owner[m] # None
    BY <1>1, <1>5 DEF TypeOK, MailboxTypeOK
  <2>2. CASE owner[m] = p
    <3>1. rx[p] = m /\ handle[p] = "active"
      BY <2>1, <2>2, ByMailbox DEF Safe, OwnerClause, Live
    <3>2. todo'[t] # <<>> /\ Head(todo'[t]) = CloseOp(m)
      BY <3>1, PushFacts DEF Safe
    <3>3. owner'[m] = p /\ home'[p] = t /\ handle'[p] = "active"
      BY <1>1, <2>1, <2>2, <3>1
    <3> QED
      BY <1>2, <3>2, <3>3 DEF OwnerClause, CloseOp
  <2>3. CASE owner[m] # p
    <3>1. todo[t] # <<>> => Head(todo[t]) # CloseOp(m)
      BY DEF CloseOp
    <3> QED
      BY <1>1, <1>2, <2>1, <2>3, <3>1, OwnerKept DEF Safe
  <2> QED
    BY <2>2, <2>3
<1>6. ASSUME NEW q \in Ports, Waiting(q)'
      PROVE  Woken(q)'
  <2>1. q # p
    BY <1>2, <1>6 DEF Waiting
  <2>2. /\ state[q] = "started" /\ rx'[q] = rx[q] /\ home'[q] = home[q]
        /\ owner[rx[q]] = q /\ inbox[rx[q]] # <<>> /\ wake'[q] = wake[q]
    BY <1>1, <1>2, <1>6, <2>1 DEF Waiting
  <2>3. todo[t] # <<>> => Head(todo[t]) \notin {PortOp("wake", q), PortOp("splice", q)}
    BY DEF PortOp
  <2> QED
    BY <1>6, <2>2, <2>3, WakeKept DEF Safe
<1> QED
  BY <1>3, <1>4, <1>5, <1>6, NextByMailbox, NextByPort DEF Safe

\* Ports are moved into a message.
LEMMA NeuterKeeps ==
  ASSUME TypeOK, Safe, NEW t \in Threads, CurKept(t), todo[t] = <<>>, NEW r, Neutral(r), Push(t, r),
         NEW S \in SUBSET Ports, \A q \in S : Live(q) /\ home[q] = t,
         Neuter(S), Disown({rx[q] : q \in S}),
         UNCHANGED <<inbox, home, handle, wake>>
  PROVE  Safe'
<1>1. /\ \A q \in S : state'[q] = "detached"
      /\ \A q \in Ports \ S : state'[q] = state[q] /\ rx'[q] = rx[q] /\ tx'[q] = tx[q]
  BY DEF Neuter
<1>2. PortOK'
  BY <1>1 DEF Safe, PortOK, Live
<1>3. Rest(t) = <<>>
  BY DEF Rest
<1>4. TodoOK'
  <2>1. \A q \in Ports : state[q] # "unused" =>
           home'[q] = home[q] /\ (state'[q] = state[q] \/ (home[q] = t /\ Rest(t) = <<>>))
    BY <1>1, <1>3
  <2> QED
    BY <2>1, NeutralOps, TodoKept DEF Safe
<1>5. ASSUME NEW m \in Mailboxes, owner'[m] # None
      PROVE  OwnerClause(m)'
  <2>1. owner'[m] = owner[m] /\ m \notin {rx[q] : q \in S}
    BY <1>5 DEF Disown
  <2>2. owner[m] \in Ports /\ owner[m] # None
    BY <1>5, <2>1 DEF TypeOK, MailboxTypeOK
  <2>3. owner[m] \notin S
    <3>1. OwnerClause(m)
      BY <2>2, ByMailbox DEF Safe
    <3> SUFFICES ASSUME owner[m] \in S
                 PROVE  FALSE
      OBVIOUS
    <3>2. state[owner[m]] # "closed"
      BY DEF Live
    <3> QED
      BY <2>1, <3>1, <3>2 DEF OwnerClause
  <2> QED
    BY <1>1, <2>1, <2>2, <2>3, NeutralOps, OwnerKept DEF Safe
<1>6. ASSUME NEW q \in Ports, Waiting(q)'
      PROVE  Woken(q)'
  <2>1. q \notin S
    BY <1>1, <1>6 DEF Waiting
  <2>2. /\ state[q] = "started" /\ rx'[q] = rx[q]
        /\ owner'[rx[q]] = q /\ inbox[rx[q]] # <<>>
    BY <1>1, <1>6, <2>1 DEF Waiting
  <2>3. rx[q] \in Mailboxes
    BY <2>2 DEF Safe, PortOK, Live
  <2>4. owner[rx[q]] = q
    BY <2>2, <2>3 DEF Disown
  <2> QED
    BY <1>6, <2>2, <2>4, NeutralOps, WakeKept DEF Safe
<1> QED
  BY <1>2, <1>4, <1>5, <1>6, NextByMailbox, NextByPort DEF Safe

\* Async handles are closed, of ports that are not live and own nothing.
LEMMA ClosingKeeps ==
  ASSUME TypeOK, Safe, NEW t \in Threads, CurKept(t), Push(t, <<>>),
         UNCHANGED <<owner, inbox, state, rx, tx, home, wake>>,
         \A p \in Ports : \/ handle'[p] = handle[p]
                          \/ handle[p] # "active"
                          \/ /\ home[p] = t /\ state[p] \in {"closed", "detached"}
                             /\ todo[t] # <<>>,
         todo[t] # <<>> => Head(todo[t]).op = "uvclose"
  PROVE  Safe'
<1>1. PortOK'
  BY DEF Safe, PortOK, Live
<1>2. TodoOK'
  <2>1. SeqRange(<<>>) = {} /\ DOMAIN <<>> = {}
    BY DEF SeqRange
  <2>2. \A p \in Ports : home'[p] = home[p] /\ state'[p] = state[p]
    OBVIOUS
  <2> QED
    BY <2>1, <2>2, EmptyType, TodoKept DEF Safe
<1>3. todo[t] # <<>> => \A m \in Mailboxes : Head(todo[t]) # CloseOp(m)
  BY DEF CloseOp
<1>4. todo[t] # <<>> =>
        \A p \in Ports : Head(todo[t]) \notin {PortOp("wake", p), PortOp("splice", p)}
  BY DEF PortOp
<1>5. ASSUME NEW m \in Mailboxes, owner'[m] # None
      PROVE  OwnerClause(m)'
  <2>1. owner'[m] = owner[m] /\ owner[m] \in Ports /\ owner[m] # None
    BY <1>5 DEF TypeOK, MailboxTypeOK
  <2>2. handle'[owner[m]] = handle[owner[m]]
    BY <1>3, <2>1, ByMailbox DEF Safe, OwnerClause
  <2> QED
    BY <1>3, <2>1, <2>2, EmptyType, OwnerKept DEF Safe
<1>6. ASSUME NEW p \in Ports, Waiting(p)'
      PROVE  Woken(p)'
  <2>1. /\ state[p] = "started" /\ owner[rx[p]] = p /\ inbox[rx[p]] # <<>>
    BY <1>6 DEF Waiting
  <2> QED
    BY <1>4, <1>6, <2>1, EmptyType, WakeKept DEF Safe
<1> QED
  BY <1>1, <1>2, <1>5, <1>6, NextByMailbox, NextByPort DEF Safe

----------------------------------------------------------------------------
(* Every action keeps them.                                                *)

\* Nothing is neutral.
LEMMA NoOps ==
  /\ Neutral(<<>>)
  /\ \A t \in Threads : todo[t] = <<>> => Rest(t) = <<>>
BY EmptyType DEF Neutral, SeqRange, Rest

\* A step that leaves an empty stack pushes nothing.
LEMMA Untouched ==
  ASSUME TypeOK, NEW t \in Threads, UNCHANGED todo, todo[t] = <<>>
  PROVE  Push(t, <<>>)
BY DEF TypeOK, TodoTypeOK, Push, Call

\* The freeing of messages is neutral.
LEMMA FreeingOps ==
  ASSUME NEW s \in Seq(Msg)
  PROVE  Neutral(Freeing(s))
<1>1. \A o \in SeqRange(Freeing(s)) : o.op = "free"
  BY DEF Freeing, SeqRange
<1> QED
  BY <1>1, FreeingType DEF Neutral

\* So is the release of a port, which begins with the close.
LEMMA ReleaseOps ==
  ASSUME NEW m0 \in Mailboxes, NEW m1 \in Mailboxes
  PROVE  /\ Neutral(Release(m0, m1))
         /\ Release(m0, m1) # <<>> /\ Head(Release(m0, m1)) = CloseOp(m0)
<1>1. SeqRange(Release(m0, m1)) = {CloseOp(m0), UnrefOp(m0), UnrefOp(m1)}
  BY DEF Release, SeqRange
<1>2. \A o \in SeqRange(Release(m0, m1)) : o.op \in {"close", "unref"}
  BY <1>1 DEF CloseOp, UnrefOp
<1>3. Release(m0, m1) # <<>> /\ Head(Release(m0, m1)) = CloseOp(m0)
  BY DEF Release
<1> QED
  BY <1>2, <1>3, ReleaseType DEF Neutral

\* And one after the other.
LEMMA NeutralConcat ==
  ASSUME NEW r, NEW s, Neutral(r), Neutral(s)
  PROVE  Neutral(r \o s)
<1>1. r \in Seq(Op) /\ s \in Seq(Op)
  BY DEF Neutral
<1>2. SeqRange(r \o s) = SeqRange(r) \cup SeqRange(s)
  BY <1>1, ConcatFacts
<1>3. r \o s \in Seq(Op)
  BY <1>1
<1> QED
  BY <1>2, <1>3 DEF Neutral

\* The functions that a thread runs once it has been called.
LEMMA StepKeeps ==
  ASSUME TypeOK, Safe, BusyOK, NEW t \in Threads, CurKept(t), Step(t)
  PROVE  Safe'
<1>0. /\ \A m \in Mailboxes : inbox[m] \in Seq(Msg)
      /\ batch[t] \in Seq(Msg)
      /\ \A m \in Mailboxes : owner[m] \in Ports \cup {None}
  BY DEF TypeOK, MailboxTypeOK, LoopTypeOK
<1>1. CASE CloseStep(t)
  <2> DEFINE m == Head(todo[t]).mb
             r == Freeing(inbox[m])
  <2>1. /\ todo[t] # <<>> /\ Head(todo[t]).op = "close"
        /\ owner'  = [owner EXCEPT ![m] = None]
        /\ inbox'  = [inbox EXCEPT ![m] = <<>>]
        /\ Continue(t, r)
        /\ UNCHANGED portVars
    BY <1>1, Zenon DEF CloseStep, Emptied, Doing
  <2>2. m \in Mailboxes
    BY <2>1, HeadFacts
  <2>3. \A x \in Mailboxes : Head(todo[t]) = CloseOp(x) => x = m
    BY DEF CloseOp
  <2> HIDE DEF m
  <2>4. Neutral(r) /\ Push(t, r)
    BY <1>0, <2>1, <2>2, FreeingOps DEF Push
  <2>5. \A x \in Mailboxes : /\ owner'[x] \in {owner[x], None}
                             /\ inbox'[x] \in {inbox[x], <<>>}
                             /\ x = m => owner'[x] = None
    BY <2>1, <2>2 DEF TypeOK, MailboxTypeOK
  <2>6. PortsKept /\ UNCHANGED wake
    BY <2>1 DEF PortsKept, portVars
  <2> HIDE DEF r
  <2> QED
    BY <2>1, <2>3, <2>4, <2>5, <2>6, NeutralKeeps
<1>2. CASE UnrefStep(t)
  <2> DEFINE m == Head(todo[t]).mb
  <2>1. /\ todo[t] # <<>> /\ Head(todo[t]).op = "unref"
        /\ UNCHANGED owner
        /\ \/ inbox'  = [inbox EXCEPT ![m] = <<>>] /\ Continue(t, Freeing(inbox[m]))
           \/ UNCHANGED inbox /\ Continue(t, <<>>)
        /\ UNCHANGED portVars
    BY <1>2, Zenon DEF UnrefStep, Emptied, Doing
  <2>2. m \in Mailboxes
    BY <2>1, HeadFacts
  <2>3. \A x \in Mailboxes : Head(todo[t]) # CloseOp(x)
    BY <2>1 DEF CloseOp
  <2> HIDE DEF m
  <2>4. PICK r : Neutral(r) /\ Push(t, r)
    BY <1>0, <2>1, <2>2, FreeingOps, NoOps DEF Push
  <2>5. \A x \in Mailboxes : inbox'[x] \in {inbox[x], <<>>}
    BY <2>1, <2>2 DEF TypeOK, MailboxTypeOK
  <2>6. PortsKept /\ UNCHANGED wake
    BY <2>1 DEF PortsKept, portVars
  <2> QED
    BY <2>1, <2>3, <2>4, <2>5, <2>6, NeutralKeeps
<1>3. CASE PostStep(t)
  <2> DEFINE m == Head(todo[t]).mb
             x == Head(todo[t]).msg
  <2>1. /\ todo[t] # <<>> /\ Head(todo[t]).op = "post"
        /\ \/ Continue(t, Freeing(<<x>>)) /\ UNCHANGED <<inbox, wake>>
           \/ /\ inbox' = [inbox EXCEPT ![m] = Append(@, x)]
              /\ wake'  = [p \in Ports |-> wake[p] \/ owner[m] = p]
              /\ Continue(t, <<>>)
        /\ UNCHANGED <<owner, state, rx, tx, home, handle>>
    BY <1>3, Zenon DEF PostStep, Enqueue, Doing
  <2>2. m \in Mailboxes /\ x \in Msg
    BY <2>1, HeadFacts
  <2>3. /\ \A y \in Mailboxes : Head(todo[t]) # CloseOp(y)
        /\ \A p \in Ports : Head(todo[t]) \notin {PortOp("wake", p), PortOp("splice", p)}
    BY <2>1 DEF CloseOp, PortOp
  <2> HIDE DEF m, x
  <2>4. PICK r : Neutral(r) /\ Push(t, r)
    BY <2>1, <2>2, SeqFacts, EmptyType, FreeingOps, NoOps DEF Push
  <2>5. \A y \in Mailboxes :
           \/ inbox'[y] \in {inbox[y], <<>>}
           \/ owner[y] # None => wake'[owner[y]]
    <3>1. CASE UNCHANGED inbox
      BY <3>1
    <3>2. CASE /\ inbox' = [inbox EXCEPT ![m] = Append(@, x)]
               /\ wake'  = [p \in Ports |-> wake[p] \/ owner[m] = p]
      <4>1. \A y \in Mailboxes \ {m} : inbox'[y] = inbox[y]
        BY <3>2 DEF TypeOK, MailboxTypeOK
      <4>2. owner[m] # None => wake'[owner[m]]
        BY <1>0, <2>2, <3>2
      <4> QED
        BY <4>1, <4>2
    <3> QED
      BY <2>1, <3>1, <3>2
  <2>6. PortsKept /\ UNCHANGED owner
    BY <2>1 DEF PortsKept
  <2>7. \A p \in Ports : wake[p] => wake'[p]
    BY <2>1
  <2>8. /\ r \in Seq(Op)
        /\ \A o \in SeqRange(r) : OpOK(t, o)'
        /\ \A i \in DOMAIN r : r[i].op \notin EndOp
    BY <2>4, NeutralOps
  <2> QED
    BY <2>3, <2>4, <2>5, <2>6, <2>7, <2>8, PushKeeps
<1>4. CASE FreeStep(t)
  <2> DEFINE s == Head(todo[t]).msgs
             x == Head(s)
             y == [x EXCEPT !.ports = Tail(@)]
             p == Head(x.ports)
  <2>1. /\ todo[t] # <<>> /\ Head(todo[t]).op = "free"
        /\ \/ x.ports = <<>> /\ Continue(t, Freeing(Tail(s)))
           \/ x.ports # <<>> /\ Continue(t, Release(p.rx, p.tx) \o Freeing(<<y>> \o Tail(s)))
        /\ UNCHANGED <<mailboxVars, portVars>>
    BY <1>4, Zenon DEF FreeStep, Doing
  <2>2. s \in Seq(Msg) /\ s # <<>>
    BY <2>1, HeadFacts
  <2>3. x \in Msg /\ Tail(s) \in Seq(Msg) /\ x.ports \in Seq(PortRef)
    BY <2>2, SeqFacts
  <2>4. ASSUME x.ports # <<>>
        PROVE  Neutral(Release(p.rx, p.tx) \o Freeing(<<y>> \o Tail(s)))
    <3>1. p \in PortRef /\ Tail(x.ports) \in Seq(PortRef)
      BY <2>3, <2>4
    <3>2. y = [x EXCEPT !.ports = Tail(x.ports)]
      BY <2>3 DEF Msg
    <3>3. y \in Msg
      BY <2>3, <3>1, <3>2, SeqFacts
    <3>4. Neutral(Freeing(<<y>> \o Tail(s)))
      BY <3>3, <2>3, SeqFacts, FreeingOps
    <3>5. Neutral(Release(p.rx, p.tx))
      BY <3>1, ReleaseOps DEF PortRef
    <3> QED
      BY <3>4, <3>5, NeutralConcat
  <2> HIDE DEF s, x, y, p
  <2>5. PICK r : Neutral(r) /\ Push(t, r)
    BY <2>1, <2>3, <2>4, FreeingOps DEF Push
  <2>6. PortsKept /\ UNCHANGED <<owner, inbox, wake>>
    BY <2>1 DEF PortsKept, portVars, mailboxVars
  <2>7. \A m \in Mailboxes : Head(todo[t]) # CloseOp(m)
    BY <2>1 DEF CloseOp
  <2> QED
    BY <2>1, <2>5, <2>6, <2>7, NeutralKeeps
<1>5. CASE StartStep(t)
  <2> DEFINE p == Head(todo[t]).port
  <2>1. todo[t] # <<>> /\ Head(todo[t]).op = "start" /\ Own(p) /\ Continue(t, Flush(p))
    BY <1>5, Zenon DEF StartStep, Doing
  <2>2. p \in Ports /\ home[p] = t /\ state[p] = "open"
    BY <2>1, HeadFacts DEF Safe, TodoOK, OpOK
  <2>3. Rest(t) = <<>>
    BY <2>1, RestFacts DEF Safe, EndOp
  <2>4. Push(t, Flush(p))
    BY <2>1 DEF Push
  <2> QED
    BY <2>1, <2>2, <2>3, <2>4, OwnKeeps
<1>6. CASE WakeStep(t)
  <2> DEFINE p == Head(todo[t]).port
  <2>1. /\ todo[t] # <<>> /\ Head(todo[t]).op = "wake"
        /\ wake' = [wake EXCEPT ![p] = TRUE]
        /\ Continue(t, <<>>)
        /\ UNCHANGED <<mailboxVars, state, rx, tx, home, handle>>
    BY <1>6, Zenon DEF WakeStep, Doing
  <2>2. p \in Ports
    BY <2>1, HeadFacts
  <2>3. /\ \A m \in Mailboxes : Head(todo[t]) # CloseOp(m)
        /\ \A q \in Ports : Head(todo[t]) \in {PortOp("wake", q), PortOp("splice", q)} => q = p
    BY <2>1 DEF CloseOp, PortOp
  <2> HIDE DEF p
  <2>4. wake'[p] /\ \A q \in Ports : wake[q] => wake'[q]
    BY <2>1, <2>2 DEF TypeOK, PortTypeOK
  <2>5. PortsKept /\ UNCHANGED <<owner, inbox>> /\ Push(t, <<>>)
    BY <2>1 DEF PortsKept, mailboxVars, Push
  <2> QED
    BY <2>3, <2>4, <2>5, NoOps, NeutralOps, PushKeeps
<1>7. CASE UvCloseStep(t)
  <2> DEFINE p == Head(todo[t]).port
  <2>1. /\ todo[t] # <<>> /\ Head(todo[t]).op = "uvclose"
        /\ handle' = [handle EXCEPT ![p] = "closing"]
        /\ Continue(t, <<>>)
        /\ UNCHANGED <<mailboxVars, state, rx, tx, home, wake>>
    BY <1>7, Zenon DEF UvCloseStep, Doing
  <2>2. p \in Ports /\ home[p] = t /\ state[p] \in {"closed", "detached"}
    BY <2>1, HeadFacts DEF Safe, TodoOK, OpOK
  <2> HIDE DEF p
  <2>3. \A q \in Ports \ {p} : handle'[q] = handle[q]
    BY <2>1 DEF TypeOK, PortTypeOK
  <2>4. Push(t, <<>>) /\ UNCHANGED <<owner, inbox>>
    BY <2>1 DEF Push, mailboxVars
  <2> QED
    BY <2>1, <2>2, <2>3, <2>4, ClosingKeeps
<1>8. CASE JoinStep(t)
  <2>1. /\ todo[t] # <<>> /\ Head(todo[t]).op = "join" /\ Continue(t, <<>>)
        /\ UNCHANGED <<mailboxVars, portVars>>
    BY <1>8, Zenon DEF JoinStep, Doing
  <2>2. \A m \in Mailboxes : Head(todo[t]) # CloseOp(m)
    BY <2>1 DEF CloseOp
  <2>3. Push(t, <<>>) /\ PortsKept /\ UNCHANGED <<owner, inbox, wake>>
    BY <2>1 DEF Push, PortsKept, portVars, mailboxVars
  <2> QED
    BY <2>1, <2>2, <2>3, NoOps, NeutralKeeps
<1>9. CASE ShutStep(t)
  <2> DEFINE p == Head(todo[t]).port
  <2>1. /\ todo[t] # <<>> /\ Head(todo[t]).op = "shut"
        /\ \/ Live(p) /\ Detach(p) /\ Continue(t, Release(rx[p], tx[p]))
           \/ Continue(t, <<>>) /\ UNCHANGED <<mailboxVars, portVars>>
    BY <1>9, Zenon DEF ShutStep, Doing
  <2>2. p \in Ports /\ home[p] = t
    BY <2>1, HeadFacts DEF Safe, TodoOK, OpOK
  <2>3. Rest(t) = <<>>
    BY <2>1, RestFacts DEF Safe, EndOp
  <2>4. CASE Live(p) /\ Detach(p) /\ Continue(t, Release(rx[p], tx[p]))
    <3>1. rx[p] \in Mailboxes /\ tx[p] \in Mailboxes
      BY <2>2, <2>4 DEF Safe, PortOK
    <3>2. Push(t, Release(rx[p], tx[p]))
      BY <2>1, <2>4 DEF Push
    <3> HIDE DEF p
    <3> QED
      BY <2>1, <2>2, <2>3, <2>4, <3>1, <3>2, ReleaseOps, NeutralOps, DetachKeeps
  <2>5. CASE Continue(t, <<>>) /\ UNCHANGED <<mailboxVars, portVars>>
    <3>1. \A m \in Mailboxes : Head(todo[t]) # CloseOp(m)
      BY <2>1 DEF CloseOp
    <3>2. Push(t, <<>>) /\ PortsKept /\ UNCHANGED <<owner, inbox, wake>>
      BY <2>1, <2>5 DEF Push, PortsKept, portVars, mailboxVars
    <3> QED
      BY <2>1, <3>1, <3>2, NoOps, NeutralKeeps
  <2> QED
    BY <2>1, <2>4, <2>5
<1>10. CASE SpliceStep(t)
  <2> DEFINE p == Head(todo[t]).port
  <2>1. /\ todo[t] # <<>> /\ Head(todo[t]).op = "splice"
        /\ inbox' = [inbox EXCEPT ![rx[p]] = <<>>]
        /\ Continue(t, <<>>)
        /\ UNCHANGED <<owner, portVars>>
    BY <1>10, Zenon DEF SpliceStep, Emptied, Doing
  <2>2. p \in Ports /\ Live(p)
    BY <2>1, HeadFacts DEF Safe, TodoOK, OpOK
  <2>3. rx[p] \in Mailboxes
    BY <2>2 DEF Safe, PortOK
  <2>4. /\ \A m \in Mailboxes : Head(todo[t]) # CloseOp(m)
        /\ \A q \in Ports : Head(todo[t]) \in {PortOp("wake", q), PortOp("splice", q)} => q = p
    BY <2>1 DEF CloseOp, PortOp
  <2> HIDE DEF p
  <2>5. inbox'[rx[p]] = <<>> /\ \A m \in Mailboxes : inbox'[m] \in {inbox[m], <<>>}
    BY <2>1, <2>3 DEF TypeOK, MailboxTypeOK
  <2>6. PortsKept /\ UNCHANGED <<owner, wake>> /\ Push(t, <<>>)
    BY <2>1 DEF PortsKept, portVars, Push
  <2> QED
    BY <2>4, <2>5, <2>6, NoOps, NeutralOps, PushKeeps
<1>11. CASE Dispatch(t)
  <2>1. /\ todo[t] = <<>> /\ batch[t] # <<>>
        /\ Adopt(t, Head(batch[t])) \/ UNCHANGED <<portVars, batch>>
        /\ UNCHANGED <<mailboxVars, todo>>
    BY <1>11, Zenon DEF Dispatch
  <2>2. Push(t, <<>>) /\ UNCHANGED <<owner, inbox>>
    BY <2>1, Untouched DEF mailboxVars
  <2>3. CASE Adopt(t, Head(batch[t]))
    <3>1. PICK S \in SUBSET UnusedPorts : PortsAdded(S)
      BY <2>1, <2>3, AdoptFacts
    <3> QED
      BY <2>1, <2>2, <3>1, NoOps, NeutralOps, AddedKeeps
  <2>4. CASE UNCHANGED portVars
    <3>1. PortsKept /\ UNCHANGED wake
      BY <2>4 DEF PortsKept, portVars
    <3> QED
      BY <2>1, <2>2, <3>1, NoOps, NeutralKeeps
  <2> QED
    BY <2>1, <2>3, <2>4
<1>12. CASE HandlerReturn(t) \/ DropRest(t) \/ CallbackReturn(t)
  <2>1. /\ todo[t] = <<>>
        /\ \/ batch[t] # <<>> /\ Call(t, Freeing(<<Head(batch[t])>>))
           \/ Call(t, Freeing(batch[t]))
           \/ UNCHANGED todo
        /\ UNCHANGED <<mailboxVars, portVars>>
    BY <1>12, Zenon DEF HandlerReturn, DropRest, CallbackReturn, BusyOK
  <2>2. batch[t] # <<>> => <<Head(batch[t])>> \in Seq(Msg)
    BY <1>0, SeqFacts, EmptyType
  <2>3. PICK r : Neutral(r) /\ Push(t, r)
    BY <1>0, <2>1, <2>2, FreeingOps, NoOps, Untouched DEF Push
  <2>4. PortsKept /\ UNCHANGED <<owner, inbox, wake>>
    BY <2>1 DEF PortsKept, portVars, mailboxVars
  <2> QED
    BY <2>1, <2>3, <2>4, NeutralKeeps
<1> QED
  BY <1>1, <1>2, <1>3, <1>4, <1>5, <1>6, <1>7, <1>8, <1>9, <1>10, <1>11, <1>12
     DEF Step

\* What scripts call, and the collector under them.
LEMMA ScriptKeeps ==
  ASSUME TypeOK, Safe, NEW t \in Threads, CurKept(t), Script(t)
  PROVE  Safe'
<1>0. Calling(t) \/ Collecting(t) => todo[t] = <<>>
  BY CallsType, CollectingType
<1>1. CASE NewChannel(t)
  <2>1. PICK m0 \in Mailboxes, m1 \in Mailboxes, a \in UnusedPorts, b \in UnusedPorts :
          Entangle(m0, m1, a, b, t, t, 2)
    BY <1>1 DEF NewChannel, Lowest, UnusedMailboxes
  <2>2. PortsAdded({a, b}) /\ UNCHANGED <<owner, inbox>>
    BY <2>1, EntangleFacts
  <2>3. todo[t] = <<>> /\ Push(t, <<>>)
    BY <1>0, <1>1, Untouched, Zenon DEF NewChannel
  <2>4. {a, b} \in SUBSET UnusedPorts
    OBVIOUS
  <2> QED
    BY <2>2, <2>3, <2>4, NoOps, NeutralOps, AddedKeeps
<1>2. ASSUME NEW u \in Threads, SpawnWorker(t, u)
      PROVE  Safe'
  <2>1. PICK m0 \in Mailboxes, m1 \in Mailboxes, a \in UnusedPorts, b \in UnusedPorts :
          /\ Entangle(m0, m1, a, b, t, u, 3)
          /\ Call(t, <<UnrefOp(m0), UnrefOp(m1), PortOp("start", a)>>)
    BY <1>2 DEF SpawnWorker, Lowest, UnusedMailboxes
  <2> DEFINE r == <<UnrefOp(m0), UnrefOp(m1), PortOp("start", a)>>
  <2>2. /\ PortsAdded({a, b}) /\ UNCHANGED <<owner, inbox>>
        /\ a \in Ports /\ home'[a] = t
    <3>1. Entangle(m0, m1, a, b, t, u, 3) /\ 3 \in Nat
      BY <2>1
    <3>2. /\ UNCHANGED <<closed, owner, inbox>> /\ PortsAdded({a, b})
          /\ a \in Ports /\ home'[a] = t
      BY <3>1, EntangleFacts, SMTT(60)
    <3> QED
      BY <3>2
  <2>3. todo[t] = <<>>
    BY <1>0, <1>2 DEF SpawnWorker
  <2>4. Push(t, r)
    BY <2>1, <2>3 DEF Push
  <2>5. r \in Seq(Op)
    BY <2>2, OpTypes
  <2>6. SeqRange(r) = {UnrefOp(m0), UnrefOp(m1), PortOp("start", a)}
    BY DEF SeqRange
  <2>7. OpOK(t, UnrefOp(m0))' /\ OpOK(t, UnrefOp(m1))' /\ OpOK(t, PortOp("start", a))'
    BY <2>2 DEF OpOK, UnrefOp, PortOp, PortsAdded
  <2>8. \A i \in DOMAIN r : r[i].op \in EndOp => i = Len(r)
    BY DEF EndOp, UnrefOp
  <2>9. {a, b} \in SUBSET UnusedPorts
    OBVIOUS
  <2> HIDE DEF r
  <2> QED
    BY <2>2, <2>3, <2>4, <2>5, <2>6, <2>7, <2>8, <2>9, AddedKeeps
<1>3. ASSUME NEW u \in Threads, Terminate(t, u)
      PROVE  Safe'
  <2>0. /\ Collecting(t) /\ near[u] # None /\ home[near[u]] = t
        /\ Call(t, <<JoinOp(u), PortOp("shut", near[u])>>)
        /\ UNCHANGED <<mailboxVars, portVars>>
    BY <1>3, Zenon DEF Terminate
  <2>1. PICK p \in Ports : /\ home[p] = t /\ Call(t, <<JoinOp(u), PortOp("shut", p)>>)
                          /\ UNCHANGED <<mailboxVars, portVars>>
    <3>1. near[u] \in Ports
      BY <2>0 DEF TypeOK, ThreadTypeOK
    <3> QED
      BY <2>0, <3>1, Zenon
  <2>2. todo[t] = <<>>
    BY <1>0, <2>0
  <2> DEFINE r == <<JoinOp(u), PortOp("shut", p)>>
  <2>3. JoinOp(u) \in Op /\ PortOp("shut", p) \in Op
    BY <2>2, OpTypes
  <2>4. r \in Seq(Op) /\ SeqRange(r) = {JoinOp(u), PortOp("shut", p)}
    BY <2>3 DEF SeqRange
  <2>5. PortsKept /\ UNCHANGED <<owner, inbox, wake>> /\ Push(t, r) /\ Rest(t) = <<>>
    BY <2>1, <2>2 DEF PortsKept, portVars, mailboxVars, Push, Rest
  <2>6. home'[p] = t
    BY <2>1 DEF portVars
  <2>7. OpOK(t, JoinOp(u))' /\ OpOK(t, PortOp("shut", p))'
    BY <2>6 DEF OpOK, JoinOp, PortOp
  <2>8. \A i \in DOMAIN r : r[i].op \in EndOp => i = Len(r)
    BY DEF EndOp, JoinOp
  <2> HIDE DEF r
  <2> QED
    BY <2>2, <2>4, <2>5, <2>7, <2>8, PushKeeps
<1>4. CASE Stop(t)
  <2>1. todo[t] = <<>> /\ UNCHANGED <<mailboxVars, portVars, todo>>
    BY <1>0, <1>4, Zenon DEF Stop
  <2>2. Push(t, <<>>) /\ PortsKept /\ UNCHANGED <<owner, inbox, wake>>
    BY <2>1, Untouched DEF PortsKept, portVars, mailboxVars
  <2> QED
    BY <2>1, <2>2, NoOps, NeutralKeeps
<1>5. ASSUME NEW p \in Ports, NEW list \in TransferLists(t, p), PostMessage(t, p, list)
      PROVE  Safe'
  <2> DEFINE moved == {list[i] : i \in DOMAIN list}
             x == [id |-> calls + 1,
                   ports |-> [i \in DOMAIN list |-> [rx |-> rx[list[i]], tx |-> tx[list[i]]]]]
             ops == IF tx[p] \in {rx[q] : q \in moved}
                    THEN Freeing(<<x>>) ELSE <<PostOp(tx[p], x)>>
  <2>1. /\ Calling(t) /\ Live(p)
        /\ Neuter(moved) /\ Disown({rx[q] : q \in moved})
        /\ Call(t, ops)
        /\ UNCHANGED <<inbox, home, handle, wake>>
    BY <1>5, Zenon DEF PostMessage
  <2>2. x \in Msg
    BY <2>1, CallsType, MessageType DEF Safe
  <2>3. tx[p] \in Mailboxes
    BY <2>1 DEF Safe, PortOK
  <2>4. moved \in SUBSET Ports /\ \A q \in moved : Live(q) /\ home[q] = t
    BY DEF TransferLists, Transferable
  <2> HIDE DEF moved, x
  <2>5. Neutral(ops)
    <3>1. PostOp(tx[p], x) \in Op /\ PostOp(tx[p], x).op = "post"
      BY <2>2, <2>3, OpTypes DEF PostOp
    <3>2. Neutral(<<PostOp(tx[p], x)>>)
      BY <3>1 DEF Neutral, SeqRange
    <3>3. <<x>> \in Seq(Msg)
      BY <2>2
    <3>4. Neutral(Freeing(<<x>>))
      BY <3>3, FreeingOps
    <3> QED
      BY <3>2, <3>4
  <2> HIDE DEF ops
  <2>6. todo[t] = <<>> /\ Push(t, ops)
    BY <1>0, <2>1 DEF Push
  <2> QED
    BY <2>1, <2>4, <2>5, <2>6, NeuterKeeps
<1>6. ASSUME NEW p \in Ports, Start(t, p)
      PROVE  Safe'
  <2>1. Calling(t) /\ home[p] = t /\ state[p] = "open" /\ Own(p) /\ Call(t, Flush(p))
    BY <1>6, Zenon DEF Start
  <2>2. todo[t] = <<>> /\ Rest(t) = <<>> /\ Push(t, Flush(p))
    BY <1>0, <2>1 DEF Push, Rest
  <2> QED
    BY <2>1, <2>2, OwnKeeps
<1>7. ASSUME NEW p \in Ports, Close(t, p)
      PROVE  Safe'
  <2>1. Calling(t) /\ home[p] = t /\ Live(p) /\ Detach(p) /\ Call(t, Release(rx[p], tx[p]))
    BY <1>7, Zenon DEF Close
  <2>2. rx[p] \in Mailboxes /\ tx[p] \in Mailboxes
    BY <2>1 DEF Safe, PortOK
  <2>3. todo[t] = <<>> /\ Rest(t) = <<>> /\ Push(t, Release(rx[p], tx[p]))
    BY <1>0, <2>1 DEF Push, Rest
  <2> QED
    BY <2>1, <2>2, <2>3, ReleaseOps, NeutralOps, DetachKeeps
<1>8. ASSUME NEW p \in Ports, Finalize(t, p)
      PROVE  Safe'
  <2> DEFINE uv == <<PortOp("uvclose", p)>>
  <2>1. /\ Collecting(t) /\ home[p] = t
        /\ \/ Live(p) /\ Detach(p) /\ Call(t, Release(rx[p], tx[p]) \o uv)
           \/ ~Live(p) /\ Call(t, uv) /\ UNCHANGED <<mailboxVars, portVars>>
    BY <1>8, Zenon DEF Finalize
  <2>2. todo[t] = <<>> /\ Rest(t) = <<>>
    BY <1>0, <2>1 DEF Rest
  <2>3. uv \in Seq(Op) /\ SeqRange(uv) = {PortOp("uvclose", p)}
        /\ \A i \in DOMAIN uv : uv[i].op \notin EndOp
    <3>1. PortOp("uvclose", p) \in Op /\ PortOp("uvclose", p).op \notin EndOp
      BY OpTypes DEF EndOp, PortOp
    <3> QED
      BY <3>1 DEF SeqRange
  <2> HIDE DEF uv
  <2>4. CASE Live(p) /\ Detach(p) /\ Call(t, Release(rx[p], tx[p]) \o uv)
    <3> DEFINE rel == Release(rx[p], tx[p])
               r == rel \o uv
    <3>1. Neutral(rel) /\ rel # <<>> /\ Head(rel) = CloseOp(rx[p])
      BY <2>4, ReleaseOps DEF Safe, PortOK
    <3>2. rel \in Seq(Op) /\ \A i \in DOMAIN rel : rel[i].op \notin EndOp
      BY <3>1, NeutralOps
    <3>3. Push(t, r)
      BY <2>2, <2>4 DEF Push
    <3> HIDE DEF rel
    <3>4. r \in Seq(Op) /\ r # <<>> /\ Head(r) = CloseOp(rx[p])
      BY <2>3, <3>1, <3>2
    <3>5. \A i \in DOMAIN r : r[i].op \notin EndOp
      BY <2>3, <3>2, ConcatFacts
    <3>6. SeqRange(r) = SeqRange(rel) \cup {PortOp("uvclose", p)}
      BY <2>3, <3>2, ConcatFacts
    <3>7. home'[p] = t /\ state'[p] = "closed"
      BY <2>1, <2>4 DEF Detach, TypeOK, PortTypeOK
    <3>8. OpOK(t, PortOp("uvclose", p))'
      BY <3>7 DEF OpOK, PortOp
    <3>9. \A o \in SeqRange(r) : OpOK(t, o)'
      BY <3>1, <3>6, <3>8, NeutralOps
    <3> HIDE DEF r
    <3> QED
      BY <2>1, <2>2, <2>4, <3>3, <3>4, <3>5, <3>9, DetachKeeps
  <2>5. CASE ~Live(p) /\ Call(t, uv) /\ UNCHANGED <<mailboxVars, portVars>>
    <3>1. Push(t, uv) /\ PortsKept /\ UNCHANGED <<owner, inbox, wake>>
      BY <2>2, <2>5 DEF Push, PortsKept, portVars, mailboxVars
    <3>2. state[p] \in {"closed", "detached"}
      BY <2>1, <2>5 DEF Safe, PortOK, Live, TypeOK, PortTypeOK
    <3>3. OpOK(t, PortOp("uvclose", p))'
      BY <2>1, <3>1, <3>2 DEF OpOK, PortOp, PortsKept
    <3> QED
      BY <2>2, <2>3, <3>1, <3>3, PushKeeps
  <2> QED
    BY <2>1, <2>4, <2>5
<1> QED
  BY <1>1, <1>2, <1>3, <1>4, <1>5, <1>6, <1>7, <1>8 DEF Script

\* The turns of a loop, and the life of a runtime.
LEMMA LoopKeeps ==
  ASSUME TypeOK, Safe, NEW t \in Threads, CurKept(t), Loop(t)
  PROVE  Safe'
<1>1. ASSUME NEW p \in Ports, LoopWake(t, p)
      PROVE  Safe'
  <2> DEFINE r == IF Live(p) THEN <<PortOp("splice", p)>> ELSE <<>>
  <2>1. /\ Idle(t) /\ home[p] = t
        /\ wake' = [wake EXCEPT ![p] = FALSE]
        /\ Call(t, r)
        /\ UNCHANGED <<mailboxVars, state, rx, tx, home, handle>>
    BY <1>1, Zenon DEF LoopWake, Turning
  <2>2. todo[t] = <<>> /\ Rest(t) = <<>>
    BY <2>1 DEF Idle, Rest
  <2>3. /\ r \in Seq(Op)
        /\ SeqRange(r) = IF Live(p) THEN {PortOp("splice", p)} ELSE {}
        /\ \A i \in DOMAIN r : i = Len(r)
    BY OpTypes DEF SeqRange
  <2> HIDE DEF r
  <2>4. PortsKept /\ UNCHANGED <<owner, inbox>> /\ Push(t, r)
    BY <2>1, <2>2 DEF PortsKept, mailboxVars, Push
  <2>5. \A q \in Ports : wake[q] => wake'[q] \/ q = p
    BY <2>1 DEF TypeOK, PortTypeOK
  <2>6. Live(p) => OpOK(t, PortOp("splice", p))'
    <3>1. cur'[t] = None
      BY <1>1 DEF LoopWake, Turning, Idle, loopVars
    <3> QED
      BY <2>1, <3>1 DEF OpOK, PortOp, Live
  <2> QED
    BY <2>1, <2>2, <2>3, <2>4, <2>5, <2>6, PushKeeps
<1>2. CASE CloseCb(t)
  <2>1. /\ Idle(t)
        /\ handle' = [p \in Ports |-> IF home[p] = t /\ handle[p] = "closing"
                                     THEN "freed" ELSE handle[p]]
        /\ UNCHANGED <<mailboxVars, state, rx, tx, home, wake, todo>>
    BY <1>2, Zenon DEF CloseCb
  <2>2. \A p \in Ports : handle'[p] = handle[p] \/ handle[p] # "active"
    BY <2>1
  <2>3. todo[t] = <<>> /\ Push(t, <<>>) /\ UNCHANGED <<owner, inbox>>
    BY <2>1, Untouched DEF Idle, mailboxVars
  <2> QED
    BY <2>1, <2>2, <2>3, ClosingKeeps
<1>3. ASSUME NEW from, NEW to, Phase(t, from, to)
      PROVE  Safe'
  <2>1. Idle(t) /\ UNCHANGED <<mailboxVars, portVars, todo>>
    BY <1>3, Zenon DEF Phase
  <2>2. todo[t] = <<>> /\ Push(t, <<>>) /\ PortsKept /\ UNCHANGED <<owner, inbox, wake>>
    BY <2>1, Untouched DEF Idle, PortsKept, portVars, mailboxVars
  <2> QED
    BY <2>2, NoOps, NeutralKeeps
<1>4. \/ \E p \in Ports : LoopWake(t, p)
      \/ CloseCb(t)
      \/ Phase(t, "running", "stopped") \/ Phase(t, "stopped", "draining")
      \/ Phase(t, "draining", "freeing") \/ Phase(t, "freeing", "closing")
      \/ Phase(t, "closing", "freed")
  BY Zenon DEF Loop, LoopReturn, FreeRuntime, FreeEngine, CloseLoop, LoopClosed
<1> QED
  BY <1>1, <1>2, <1>3, <1>4

----------------------------------------------------------------------------
(* Callbacks and the batches they work on.                                 *)

\* The callback of a thread changes only where its stack says so.
LEMMA CurStep ==
  ASSUME TypeOK, TodoOK, NEW t \in Threads, Script(t) \/ Step(t) \/ Loop(t)
  PROVE  CurKept(t)
<1>1. \/ UNCHANGED cur
      \/ cur' = [cur EXCEPT ![t] = None] /\ todo[t] = <<>>
      \/ /\ cur' = [cur EXCEPT ![t] = Head(todo[t]).port]
         /\ todo[t] # <<>> /\ Head(todo[t]).op = "splice"
  <2>1. CASE Script(t)
    BY <2>1 DEF Script, NewChannel, SpawnWorker, Terminate, Stop, PostMessage, Start, Close,
                Finalize, loopVars
  <2>2. CASE Step(t)
    BY <2>2 DEF Step, CloseStep, UnrefStep, PostStep, FreeStep, StartStep, WakeStep,
                UvCloseStep, JoinStep, ShutStep, SpliceStep, Dispatch, HandlerReturn,
                DropRest, CallbackReturn, Doing, loopVars
  <2>3. CASE Loop(t)
    BY <2>3 DEF Loop, LoopWake, CloseCb, LoopReturn, FreeRuntime, FreeEngine, CloseLoop,
                LoopClosed, Phase, loopVars
  <2> QED
    BY <2>1, <2>2, <2>3
<1>2. todo[t] = <<>> \/ Head(todo[t]).op = "splice" => Rest(t) = <<>>
  <2>1. "splice" \in EndOp
    BY DEF EndOp
  <2> QED
    BY <2>1, RestFacts, NoOps
<1>3. cur \in [Threads -> Ports \cup {None}]
  BY DEF TypeOK, LoopTypeOK
<1> QED
  BY <1>1, <1>2, <1>3 DEF CurKept

\* A handler runs in a callback, on the head of its batch, after every step.
LEMMA BusyStep ==
  ASSUME TypeOK, TodoOK, BusyOK, NEW t \in Threads, Script(t) \/ Step(t) \/ Loop(t)
  PROVE  BusyOK'
<1>0. /\ cur \in [Threads -> Ports \cup {None}]
      /\ batch \in [Threads -> Seq(Msg)]
      /\ busy \in [Threads -> BOOLEAN]
  BY DEF TypeOK, LoopTypeOK
<1>1. CASE SpliceStep(t)
  <2>1. /\ todo[t] # <<>> /\ Head(todo[t]).op = "splice" /\ UNCHANGED busy
        /\ \A u \in Threads \ {t} : cur'[u] = cur[u] /\ batch'[u] = batch[u]
    BY <1>0, <1>1 DEF SpliceStep, Doing
  <2>2. ~busy[t]
    BY <2>1, HeadFacts DEF TodoOK, OpOK, BusyOK
  <2> QED
    BY <2>1, <2>2 DEF BusyOK
<1>2. CASE Dispatch(t)
  <2>1. /\ cur[t] # None /\ batch[t] # <<>>
        /\ busy' = [busy EXCEPT ![t] = TRUE]
        /\ Adopt(t, Head(batch[t])) \/ UNCHANGED <<portVars, batch>>
        /\ UNCHANGED cur
    BY <1>2, Zenon DEF Dispatch
  <2>2. /\ batch'[t] # <<>>
        /\ \A u \in Threads \ {t} : batch'[u] = batch[u]
    BY <2>1, AdoptFacts
  <2> QED
    BY <1>0, <2>1, <2>2 DEF BusyOK
<1>3. CASE HandlerReturn(t) \/ DropRest(t) \/ CallbackReturn(t)
  <2>1. ~busy'[t]
    BY <1>0, <1>3 DEF HandlerReturn, DropRest, CallbackReturn
  <2>2. \A u \in Threads \ {t} :
           cur'[u] = cur[u] /\ batch'[u] = batch[u] /\ busy'[u] = busy[u]
    BY <1>0, <1>3 DEF HandlerReturn, DropRest, CallbackReturn
  <2> QED
    BY <2>1, <2>2 DEF BusyOK
<1>4. CASE UNCHANGED loopVars
  BY <1>4 DEF BusyOK, loopVars
<1>5. CASE Script(t)
  <2>1. UNCHANGED loopVars
    BY <1>5, Zenon DEF Script, NewChannel, SpawnWorker, Terminate, Stop, PostMessage, Start,
                       Close, Finalize
  <2> QED
    BY <2>1, <1>4
<1>6. CASE Step(t)
  <2>1. \/ SpliceStep(t) \/ Dispatch(t)
        \/ HandlerReturn(t) \/ DropRest(t) \/ CallbackReturn(t)
        \/ UNCHANGED loopVars
    BY <1>6, Zenon DEF Step, CloseStep, UnrefStep, PostStep, FreeStep, StartStep, WakeStep,
                       UvCloseStep, JoinStep, ShutStep
  <2> QED
    BY <2>1, <1>1, <1>2, <1>3, <1>4
<1>7. CASE Loop(t)
  <2>1. UNCHANGED loopVars
    BY <1>7, Zenon DEF Loop, LoopWake, CloseCb, LoopReturn, FreeRuntime, FreeEngine,
                       CloseLoop, LoopClosed, Phase
  <2> QED
    BY <2>1, <1>4
<1> QED
  BY <1>5, <1>6, <1>7

----------------------------------------------------------------------------
(* The inductive invariant.                                                *)

\* The invariant holds at the start,
LEMMA InitInv == Init => IInv
<1> SUFFICES ASSUME Init PROVE IInv
  OBVIOUS
<1>1. MailboxTypeOK /\ PortTypeOK
  BY DEF Init, MailboxTypeOK, PortTypeOK
<1>2. ThreadTypeOK /\ TodoTypeOK /\ LoopTypeOK /\ HistoryTypeOK
  BY DEF Init, ThreadTypeOK, TodoTypeOK, LoopTypeOK, HistoryTypeOK
<1>3. PortOK
  BY DEF Init, PortOK, Live
<1>4. \A t \in Threads : todo[t] = <<>> /\ DOMAIN todo[t] = {}
  <2>1. \A t \in Threads : todo[t] = <<>>
    BY DEF Init
  <2>2. DOMAIN <<>> = {}
    OBVIOUS
  <2> QED
    BY <2>1, <2>2
<1>5. TodoOK
  BY <1>4, Zenon DEF TodoOK, Ops
<1>6. BusyOK /\ OwnerOK /\ NoLostWakeup
  BY DEF Init, BusyOK, OwnerOK, NoLostWakeup
<1> QED
  BY <1>1, <1>2, <1>3, <1>5, <1>6 DEF IInv, TypeOK

\* every step keeps it,
LEMMA NextInv == IInv /\ [Next]_vars => IInv'
<1>1. ASSUME IInv, NEW t \in Threads, Script(t) \/ Step(t) \/ Loop(t)
      PROVE  IInv'
  <2>1. TypeOK /\ Safe /\ BusyOK
    BY <1>1 DEF IInv, Safe
  <2>2. CurKept(t)
    BY <1>1, <2>1, CurStep DEF Safe
  <2>3. TypeOK'
    BY <1>1, <2>1, ScriptType, StepType, LoopType DEF Safe
  <2>4. Safe'
    BY <1>1, <2>1, <2>2, ScriptKeeps, StepKeeps, LoopKeeps
  <2>5. BusyOK'
    BY <1>1, <2>1, BusyStep DEF Safe
  <2> QED
    BY <2>3, <2>4, <2>5 DEF IInv, Safe
<1>2. ASSUME IInv, UNCHANGED vars
      PROVE  IInv'
  <2>1. UNCHANGED <<mailboxVars, portVars, threadVars, todo, loopVars, calls, last>>
    BY <1>2 DEF vars
  <2>2. TypeOK'
    BY <1>2, <2>1, Frames DEF IInv, TypeOK
  <2>3. PortOK' /\ TodoOK' /\ BusyOK'
    BY <1>2, <2>1 DEF IInv, PortOK, TodoOK, BusyOK, OpOK, Ops, Live, portVars, loopVars
  <2>4. OwnerOK' /\ NoLostWakeup'
    BY <1>2, <2>1 DEF IInv, OwnerOK, NoLostWakeup, CloseOp, PortOp, mailboxVars, portVars
  <2> QED
    BY <2>2, <2>3, <2>4 DEF IInv
<1> QED
  BY <1>1, <1>2 DEF Next

\* and so it holds always.
LEMMA Inductive == Spec => []IInv
<1>1. Init => IInv
  BY InitInv
<1>2. IInv /\ [Next]_vars => IInv'
  BY NextInv
<1> QED
  BY <1>1, <1>2, PTL DEF Spec

\* Every variable of the transport keeps its type (mod_channel.c).
THEOREM TypeCorrect == Spec => []TypeOK
<1>1. IInv => TypeOK
  BY DEF IInv
<1> QED
  BY <1>1, Inductive, PTL

\* port_post never wakes a handle that has been closed: an owner found under
\* the lock of a mailbox has an open async handle, whatever its thread does.
THEOREM OwnersUsable == Spec => []OwnerUsable
<1>1. IInv => OwnerUsable
  BY DEF IInv, OwnerOK, OwnerUsable
<1> QED
  BY <1>1, Inductive, PTL

\* A message is never left in the inbox of a started port with nobody about to
\* take it out, whatever is posted, flushed, transferred or closed meanwhile.
THEOREM WakeupsKept == Spec => []NoLostWakeup
<1>1. IInv => NoLostWakeup
  BY DEF IInv
<1> QED
  BY <1>1, Inductive, PTL

----------------------------------------------------------------------------
(* Counting in unions of indexed sets.                                     *)

\* The union of a family of sets, every element with its index.
Joined(F) == UNION {{d} \X F[d] : d \in DOMAIN F}

\* Two sets with a bijection between them have as many elements.
LEMMA SameCount ==
  ASSUME NEW S, NEW T, IsFiniteSet(S), NEW f \in [S -> T],
         \A a, b \in S : f[a] = f[b] => a = b,
         \A y \in T : \E x \in S : f[x] = y
  PROVE  IsFiniteSet(T) /\ Cardinality(T) = Cardinality(S)
<1>1. f \in Bijection(S, T)
  BY DEF Bijection, Injection, Surjection, IsInjective
<1>2. ExistsBijection(S, T)
  BY <1>1 DEF ExistsBijection
<1> QED
  BY <1>2, FS_Bijection

\* To have an index does not change the number of elements.
LEMMA TaggedCount ==
  ASSUME NEW d, NEW X, IsFiniteSet(X)
  PROVE  IsFiniteSet({d} \X X) /\ Cardinality({d} \X X) = Cardinality(X)
<1> DEFINE f == [x \in X |-> <<d, x>>]
<1>1. f \in [X -> {d} \X X]
  OBVIOUS
<1>2. \A a, b \in X : f[a] = f[b] => a = b
  OBVIOUS
<1>3. \A y \in {d} \X X : \E x \in X : f[x] = y
  OBVIOUS
<1> QED
  BY <1>1, <1>2, <1>3, SameCount

\* A set is finite when its elements with a tag are.
LEMMA Untagged ==
  ASSUME NEW d, NEW X, IsFiniteSet({d} \X X)
  PROVE  IsFiniteSet(X)
<1> DEFINE f == [y \in {d} \X X |-> y[2]]
<1>1. f \in [{d} \X X -> X]
  OBVIOUS
<1>2. \A a, b \in {d} \X X : f[a] = f[b] => a = b
  OBVIOUS
<1>3. \A x \in X : \E y \in {d} \X X : f[y] = x
  <2>1. \A x \in X : <<d, x>> \in {d} \X X /\ f[<<d, x>>] = x
    OBVIOUS
  <2> QED
    BY <2>1
<1> HIDE DEF f
<1> QED
  BY <1>1, <1>2, <1>3, SameCount

\* The sizes of disjoint sets add up.
LEMMA DisjointCount ==
  ASSUME NEW A, NEW B, IsFiniteSet(A), IsFiniteSet(B), A \cap B = {}
  PROVE  /\ IsFiniteSet(A \cup B)
         /\ Cardinality(A \cup B) = Cardinality(A) + Cardinality(B)
         /\ Cardinality(A) \in Nat /\ Cardinality(B) \in Nat
<1>1. Cardinality(A) \in Nat /\ Cardinality(B) \in Nat /\ Cardinality({}) = 0
  BY FS_EmptySet, FS_CardinalityType
<1>2. /\ IsFiniteSet(A \cup B)
      /\ Cardinality(A \cup B) = Cardinality(A) + Cardinality(B) - Cardinality(A \cap B)
  BY FS_Union
<1>3. Cardinality(A \cap B) = 0
  BY <1>1
<1> QED
  BY <1>1, <1>2, <1>3

\* A finite family of finite sets has a finite union.
LEMMA JoinedFinite ==
  ASSUME NEW F, IsFiniteSet(DOMAIN F), \A d \in DOMAIN F : IsFiniteSet(F[d])
  PROVE  IsFiniteSet(Joined(F)) /\ Cardinality(Joined(F)) \in Nat
<1> DEFINE parts == {{d} \X F[d] : d \in DOMAIN F}
           f == [d \in DOMAIN F |-> {d} \X F[d]]
<1>1. f \in Surjection(DOMAIN F, parts)
  BY DEF Surjection
<1>2. IsFiniteSet(parts)
  BY <1>1, FS_Surjection
<1>3. \A T \in parts : IsFiniteSet(T)
  <2> SUFFICES ASSUME NEW d \in DOMAIN F PROVE IsFiniteSet({d} \X F[d])
    OBVIOUS
  <2> QED
    BY TaggedCount
<1>4. IsFiniteSet(UNION parts)
  BY <1>2, <1>3, FS_UNION
<1> QED
  BY <1>4, FS_CardinalityType DEF Joined

\* Families that differ in one member differ by the elements of that member.
LEMMA JoinedChange ==
  ASSUME NEW F, NEW G, NEW d \in DOMAIN F, DOMAIN G = DOMAIN F,
         \A e \in DOMAIN F : e # d => G[e] = F[e],
         IsFiniteSet(Joined(F)), IsFiniteSet(G[d])
  PROVE  /\ IsFiniteSet(Joined(G)) /\ IsFiniteSet(F[d])
         /\ Cardinality(Joined(G)) + Cardinality(F[d])
              = Cardinality(Joined(F)) + Cardinality(G[d])
         /\ Cardinality(Joined(F)) \in Nat /\ Cardinality(Joined(G)) \in Nat
         /\ Cardinality(F[d]) \in Nat /\ Cardinality(G[d]) \in Nat
<1> DEFINE R == {q \in Joined(F) : q[1] # d}
<1>1. Joined(F) = R \cup ({d} \X F[d]) /\ R \cap ({d} \X F[d]) = {}
  BY DEF Joined
<1>2. Joined(G) = R \cup ({d} \X G[d]) /\ R \cap ({d} \X G[d]) = {}
  BY DEF Joined
<1>3. R \subseteq Joined(F) /\ {d} \X F[d] \subseteq Joined(F)
  BY <1>1
<1> HIDE DEF R
<1>4. IsFiniteSet(R) /\ IsFiniteSet({d} \X F[d])
  BY <1>3, FS_Subset
<1>5. IsFiniteSet(F[d])
  BY <1>4, Untagged
<1>6. /\ IsFiniteSet({d} \X F[d]) /\ Cardinality({d} \X F[d]) = Cardinality(F[d])
      /\ IsFiniteSet({d} \X G[d]) /\ Cardinality({d} \X G[d]) = Cardinality(G[d])
  BY <1>5, TaggedCount
<1> DEFINE XF == {d} \X F[d]
           XG == {d} \X G[d]
<1>7. /\ Cardinality(Joined(F)) = Cardinality(R) + Cardinality(XF)
      /\ Cardinality(R) \in Nat /\ Cardinality(XF) \in Nat
  <2>1. Joined(F) = R \cup XF /\ R \cap XF = {} /\ IsFiniteSet(XF)
    BY <1>1, <1>6
  <2> HIDE DEF XF
  <2> QED
    BY <2>1, <1>4, DisjointCount
<1>8. /\ Cardinality(Joined(G)) = Cardinality(R) + Cardinality(XG)
      /\ IsFiniteSet(Joined(G)) /\ Cardinality(XG) \in Nat
  <2>1. Joined(G) = R \cup XG /\ R \cap XG = {} /\ IsFiniteSet(XG)
    BY <1>2, <1>6
  <2> HIDE DEF XG
  <2>2. /\ IsFiniteSet(R \cup XG)
        /\ Cardinality(R \cup XG) = Cardinality(R) + Cardinality(XG)
        /\ Cardinality(XG) \in Nat
    BY <2>1, <1>4, DisjointCount
  <2> QED
    BY <2>1, <2>2
<1> HIDE DEF XF, XG
<1>9. Cardinality(XF) = Cardinality(F[d]) /\ Cardinality(XG) = Cardinality(G[d])
  BY <1>6 DEF XF, XG
<1> QED
  BY <1>5, <1>7, <1>8, <1>9

\* A sequence of sets, H, that begins with the n of F and goes on with the l of G.
Concats(n, l, F, G, H) ==
  /\ n \in Nat /\ l \in Nat
  /\ DOMAIN F = 1..n /\ DOMAIN G = 1..l /\ DOMAIN H = 1..(n + l)
  /\ \A i \in 1..n : H[i] = F[i]
  /\ \A i \in 1..l : H[n + i] = G[i]

\* It has the elements of both.
LEMMA JoinedConcat ==
  ASSUME NEW n, NEW l, NEW F, NEW G, NEW H, Concats(n, l, F, G, H),
         IsFiniteSet(Joined(F)), IsFiniteSet(Joined(G))
  PROVE  /\ IsFiniteSet(Joined(H))
         /\ Cardinality(Joined(H)) = Cardinality(Joined(F)) + Cardinality(Joined(G))
<1> DEFINE f == [q \in Joined(G) |-> <<n + q[1], q[2]>>]
           R == {q \in Joined(H) : q[1] > n}
<1>0. /\ n \in Nat /\ l \in Nat
      /\ DOMAIN F = 1..n /\ DOMAIN G = 1..l /\ DOMAIN H = 1..(n + l)
      /\ \A i \in 1..n : H[i] = F[i]
      /\ \A i \in 1..l : H[n + i] = G[i]
  BY DEF Concats
<1> USE <1>0
<1>1. \A q \in Joined(G) : q[1] \in 1..l /\ q[2] \in G[q[1]] /\ q = <<q[1], q[2]>>
  BY DEF Joined
<1>2. \A q \in Joined(H) : q[1] \in 1..(n + l) /\ q[2] \in H[q[1]] /\ q = <<q[1], q[2]>>
  BY DEF Joined
<1>3. \A i \in 1..(n + l) : \A e : e \in H[i] => <<i, e>> \in Joined(H)
  BY DEF Joined
<1>4. \A i \in 1..l : \A e : e \in G[i] => <<i, e>> \in Joined(G)
  BY DEF Joined
<1>5. \A q \in Joined(G) : f[q] \in R
  <2> SUFFICES ASSUME NEW q \in Joined(G)
               PROVE  <<n + q[1], q[2]>> \in R
    OBVIOUS
  <2>1. q[1] \in 1..l /\ q[2] \in H[n + q[1]] /\ n + q[1] \in 1..(n + l) /\ n + q[1] > n
    BY <1>1
  <2> QED
    BY <2>1, <1>3
<1>6. \A q \in R : \E p \in Joined(G) : f[p] = q
  <2> SUFFICES ASSUME NEW q \in R
               PROVE  \E p \in Joined(G) : f[p] = q
    OBVIOUS
  <2>1. q[1] \in 1..(n + l) /\ q[1] > n /\ q[2] \in H[q[1]] /\ q = <<q[1], q[2]>>
    BY <1>2
  <2>2. q[1] - n \in 1..l /\ n + (q[1] - n) = q[1]
    BY <2>1
  <2>3. q[2] \in G[q[1] - n]
    BY <2>1, <2>2
  <2>4. <<q[1] - n, q[2]>> \in Joined(G)
    BY <2>2, <2>3, <1>4
  <2> QED
    BY <2>1, <2>2, <2>4
<1>7. \A p, q \in Joined(G) : f[p] = f[q] => p = q
  <2> SUFFICES ASSUME NEW p \in Joined(G), NEW q \in Joined(G), f[p] = f[q]
               PROVE  p = q
    OBVIOUS
  <2>1. /\ p[1] \in 1..l /\ p = <<p[1], p[2]>>
        /\ q[1] \in 1..l /\ q = <<q[1], q[2]>>
    BY <1>1
  <2>2. f[p] = <<n + p[1], p[2]>> /\ f[q] = <<n + q[1], q[2]>>
    OBVIOUS
  <2>3. n + p[1] = n + q[1] /\ p[2] = q[2]
    BY <2>2
  <2>4. p[1] = q[1]
    BY <2>1, <2>3
  <2> QED
    BY <2>1, <2>3, <2>4
<1>8. f \in [Joined(G) -> R]
  BY <1>5
<1>9. IsFiniteSet(R) /\ Cardinality(R) = Cardinality(Joined(G))
  <2> HIDE DEF f, R
  <2> QED
    BY <1>6, <1>7, <1>8, SameCount
<1>10. Joined(F) \cap R = {}
  BY DEF Joined
<1>11. Joined(H) = Joined(F) \cup R
  <2>1. \A q \in Joined(F) : q \in Joined(H)
    BY <1>3 DEF Joined
  <2>2. \A q \in Joined(H) : q \in Joined(F) \cup R
    <3> SUFFICES ASSUME NEW q \in Joined(H), ~(q[1] > n)
                 PROVE  q \in Joined(F)
      OBVIOUS
    <3>1. q[1] \in 1..n /\ q[2] \in F[q[1]] /\ q = <<q[1], q[2]>>
      BY <1>2
    <3>2. \A d \in DOMAIN F : \A e \in F[d] : <<d, e>> \in Joined(F)
      BY DEF Joined
    <3>3. <<q[1], q[2]>> \in Joined(F)
      BY <3>1, <3>2
    <3> QED
      BY <3>1, <3>3
  <2> QED
    BY <2>1, <2>2
<1> HIDE DEF f, R
<1> QED
  BY <1>9, <1>10, <1>11, DisjointCount, ZenonT(60)

\* A family with one member.
LEMMA JoinedOne ==
  ASSUME NEW F, DOMAIN F = 1..1, IsFiniteSet(F[1])
  PROVE  IsFiniteSet(Joined(F)) /\ Cardinality(Joined(F)) = Cardinality(F[1])
<1>1. DOMAIN F = {1}
  OBVIOUS
<1>2. Joined(F) = {1} \X F[1]
  BY <1>1 DEF Joined
<1>3. IsFiniteSet({1} \X F[1]) /\ Cardinality({1} \X F[1]) = Cardinality(F[1])
  BY TaggedCount
<1> QED
  BY <1>2, <1>3

\* A family of empty sets, for one without members.
LEMMA JoinedEmpty ==
  ASSUME NEW F, \A d \in DOMAIN F : F[d] = {}
  PROVE  Joined(F) = {} /\ IsFiniteSet(Joined(F)) /\ Cardinality(Joined(F)) = 0
<1>1. Joined(F) = {}
  BY DEF Joined
<1> QED
  BY <1>1, FS_EmptySet

----------------------------------------------------------------------------
(* How many references of some kinds are in a message, and on a stack.     *)

One(K, k, q, m) == IF k \in K /\ q = m THEN 1 ELSE 0
MsgCount(x, K, m)   == Cardinality(OfMsg(x, K, m))
MsgsCount(s, K, m)  == Cardinality(OfMsgs(s, K, m))
OpCount(o, K, m)    == Cardinality(OfOp(o, K, m))
StackCount(s, K, m) == Cardinality(OfStack(s, K, m))

\* A reference counts once or not at all.
LEMMA OneType ==
  ASSUME NEW K, NEW k, NEW q, NEW m
  PROVE  One(K, k, q, m) \in {0, 1}
BY DEF One

\* The kinds in K that are k, where q is m.
LEMMA PickCount ==
  ASSUME NEW K, NEW k, NEW q, NEW m
  PROVE  LET S == {x \in K : x = k /\ q = m}
         IN  IsFiniteSet(S) /\ Cardinality(S) = One(K, k, q, m)
<1> DEFINE S == {x \in K : x = k /\ q = m}
<1>1. CASE k \in K /\ q = m
  <2>1. S = {k} /\ One(K, k, q, m) = 1
    BY <1>1 DEF One
  <2> QED
    BY <2>1, FS_Singleton
<1>2. CASE ~(k \in K /\ q = m)
  <2>1. S = {} /\ One(K, k, q, m) = 0
    BY <1>2 DEF One
  <2> QED
    BY <2>1, FS_EmptySet
<1> QED
  BY <1>1, <1>2

\* The references of a port in transit: its two sides.
LEMMA PortCount ==
  ASSUME NEW r, NEW K, NEW m
  PROVE  /\ IsFiniteSet(OfPort(r, K, m))
         /\ Cardinality(OfPort(r, K, m)) = One(K, "rx", r.rx, m) + One(K, "tx", r.tx, m)
<1> DEFINE A == {x \in K : x = "rx" /\ r.rx = m}
           B == {x \in K : x = "tx" /\ r.tx = m}
<1>1. IsFiniteSet(A) /\ Cardinality(A) = One(K, "rx", r.rx, m)
  BY PickCount
<1>2. IsFiniteSet(B) /\ Cardinality(B) = One(K, "tx", r.tx, m)
  BY PickCount
<1>3. OfPort(r, K, m) = A \cup B /\ A \cap B = {}
  BY DEF OfPort
<1> HIDE DEF A, B
<1> QED
  BY <1>1, <1>2, <1>3, DisjointCount

\* A message holds finitely many references, none when no port travels in it.
LEMMA MsgFinite ==
  ASSUME NEW x \in Msg, NEW K, NEW m
  PROVE  /\ IsFiniteSet(OfMsg(x, K, m)) /\ MsgCount(x, K, m) \in Nat
         /\ x.ports = <<>> => OfMsg(x, K, m) = {} /\ MsgCount(x, K, m) = 0
<1> DEFINE F == [i \in DOMAIN x.ports |-> OfPort(x.ports[i], K, m)]
<1>1. OfMsg(x, K, m) = Joined(F)
  BY DEF OfMsg, Joined
<1>2. x.ports \in Seq(PortRef) /\ DOMAIN x.ports = 1..Len(x.ports) /\ Len(x.ports) \in Nat
  BY SeqFacts
<1>3. IsFiniteSet(DOMAIN F)
  BY <1>2, FS_Interval
<1>4. \A d \in DOMAIN F : IsFiniteSet(F[d])
  BY PortCount
<1>5. x.ports = <<>> => DOMAIN F = {}
  BY <1>2
<1> HIDE DEF F
<1>6. x.ports = <<>> => Joined(F) = {}
  BY <1>5, JoinedEmpty
<1> QED
  BY <1>1, <1>3, <1>4, <1>6, JoinedFinite, FS_EmptySet DEF MsgCount

\* A message from which the first port was taken.
LEMMA MsgPort ==
  ASSUME NEW x \in Msg, x.ports # <<>>, NEW K, NEW m
  PROVE  LET r == Head(x.ports)
             y == [x EXCEPT !.ports = Tail(@)]
         IN  /\ r \in PortRef /\ y \in Msg
             /\ MsgCount(x, K, m) = One(K, "rx", r.rx, m) + One(K, "tx", r.tx, m)
                                    + MsgCount(y, K, m)
<1> DEFINE r == Head(x.ports)
           s == Tail(x.ports)
           y == [x EXCEPT !.ports = Tail(@)]
           F == [i \in 1..1 |-> OfPort(r, K, m)]
           G == [i \in DOMAIN s |-> OfPort(s[i], K, m)]
           H == [i \in DOMAIN x.ports |-> OfPort(x.ports[i], K, m)]
<1>1. x.ports \in Seq(PortRef) /\ Len(x.ports) \in Nat \ {0} /\ DOMAIN x.ports = 1..Len(x.ports)
  BY SeqFacts
<1>2. /\ s \in Seq(PortRef) /\ r \in PortRef /\ x.ports[1] = r
      /\ DOMAIN s = 1..(Len(x.ports) - 1) /\ Len(x.ports) - 1 \in Nat
      /\ \A i \in 1..(Len(x.ports) - 1) : s[i] = x.ports[1 + i]
  BY <1>1
<1>3. y \in Msg /\ y.ports = s
  BY <1>2, SeqFacts DEF Msg
<1> HIDE DEF s, r, y
<1>4. OfMsg(x, K, m) = Joined(H) /\ OfMsg(y, K, m) = Joined(G)
  BY <1>3 DEF OfMsg, Joined
<1>5. /\ DOMAIN F = 1..1 /\ DOMAIN G = 1..(Len(x.ports) - 1)
      /\ DOMAIN H = 1..(1 + (Len(x.ports) - 1))
      /\ \A i \in 1..1 : H[i] = F[i]
      /\ \A i \in 1..(Len(x.ports) - 1) : H[1 + i] = G[i]
      /\ F[1] = OfPort(r, K, m)
  BY <1>1, <1>2
<1> DEFINE one == 1
           l == Len(x.ports) - 1
<1> HIDE DEF F, G, H
<1>6. /\ IsFiniteSet(Joined(F))
      /\ Cardinality(Joined(F)) = One(K, "rx", r.rx, m) + One(K, "tx", r.tx, m)
  BY <1>5, JoinedOne, PortCount
<1>7. IsFiniteSet(Joined(G))
  BY <1>3, <1>4, MsgFinite
<1>8. Cardinality(Joined(H)) = Cardinality(Joined(F)) + Cardinality(Joined(G))
  <2>1. /\ one \in Nat /\ l \in Nat
        /\ DOMAIN F = 1..one /\ DOMAIN G = 1..l /\ DOMAIN H = 1..(one + l)
        /\ \A i \in 1..one : H[i] = F[i]
        /\ \A i \in 1..l : H[one + i] = G[i]
    BY <1>2, <1>5
  <2> HIDE DEF one, l
  <2>2. Concats(one, l, F, G, H)
    BY <2>1 DEF Concats
  <2> QED
    BY <2>2, <1>6, <1>7, JoinedConcat
<1> QED
  BY <1>2, <1>3, <1>4, <1>6, <1>8 DEF MsgCount, r, y

\* So do messages.
LEMMA MsgsFinite ==
  ASSUME NEW s \in Seq(Msg), NEW K, NEW m
  PROVE  /\ IsFiniteSet(OfMsgs(s, K, m)) /\ MsgsCount(s, K, m) \in Nat
         /\ (\A i \in DOMAIN s : s[i].ports = <<>>) => MsgsCount(s, K, m) = 0
         /\ s = <<>> => MsgsCount(s, K, m) = 0
<1> DEFINE F == [i \in DOMAIN s |-> OfMsg(s[i], K, m)]
<1>1. OfMsgs(s, K, m) = Joined(F)
  BY DEF OfMsgs, Joined
<1>2. DOMAIN s = 1..Len(s) /\ Len(s) \in Nat /\ \A i \in DOMAIN s : s[i] \in Msg
  OBVIOUS
<1>3. IsFiniteSet(DOMAIN F)
  BY <1>2, FS_Interval
<1>4. \A d \in DOMAIN F : IsFiniteSet(F[d])
  BY <1>2, MsgFinite
<1>5. (\A i \in DOMAIN s : s[i].ports = <<>>) => \A d \in DOMAIN F : F[d] = {}
  BY <1>2, MsgFinite
<1>6. s = <<>> => \A i \in DOMAIN s : s[i].ports = <<>>
  OBVIOUS
<1> HIDE DEF F
<1>7. (\A i \in DOMAIN s : s[i].ports = <<>>) => Cardinality(Joined(F)) = 0
  BY <1>5, JoinedEmpty
<1> QED
  BY <1>1, <1>3, <1>4, <1>6, <1>7, JoinedFinite DEF MsgsCount

\* The references of two sequences of messages add up,
LEMMA MsgsConcat ==
  ASSUME NEW s \in Seq(Msg), NEW r \in Seq(Msg), NEW K, NEW m
  PROVE  /\ r \o s \in Seq(Msg)
         /\ MsgsCount(r \o s, K, m) = MsgsCount(r, K, m) + MsgsCount(s, K, m)
<1> DEFINE c == r \o s
           F == [i \in DOMAIN r |-> OfMsg(r[i], K, m)]
           G == [i \in DOMAIN s |-> OfMsg(s[i], K, m)]
           H == [i \in DOMAIN c |-> OfMsg(c[i], K, m)]
<1>1. /\ c \in Seq(Msg) /\ Len(r) \in Nat /\ Len(s) \in Nat
      /\ DOMAIN r = 1..Len(r) /\ DOMAIN s = 1..Len(s) /\ DOMAIN c = 1..(Len(r) + Len(s))
      /\ \A i \in 1..Len(r) : c[i] = r[i]
      /\ \A i \in 1..Len(s) : c[Len(r) + i] = s[i]
  OBVIOUS
<1>2. /\ OfMsgs(r, K, m) = Joined(F) /\ OfMsgs(s, K, m) = Joined(G)
      /\ OfMsgs(c, K, m) = Joined(H)
  BY DEF OfMsgs, Joined
<1> HIDE DEF c
<1>3. /\ DOMAIN F = 1..Len(r) /\ DOMAIN G = 1..Len(s) /\ DOMAIN H = 1..(Len(r) + Len(s))
      /\ \A i \in 1..Len(r) : H[i] = F[i]
      /\ \A i \in 1..Len(s) : H[Len(r) + i] = G[i]
  BY <1>1
<1> HIDE DEF F, G, H
<1>4. IsFiniteSet(Joined(F)) /\ IsFiniteSet(Joined(G))
  BY <1>2, MsgsFinite
<1>5. Cardinality(Joined(H)) = Cardinality(Joined(F)) + Cardinality(Joined(G))
  <2>1. Concats(Len(r), Len(s), F, G, H)
    BY <1>1, <1>3 DEF Concats
  <2> QED
    BY <2>1, <1>4, JoinedConcat
<1> QED
  BY <1>1, <1>2, <1>5 DEF MsgsCount, c

\* those of one message are its own,
LEMMA MsgsOne ==
  ASSUME NEW x \in Msg, NEW K, NEW m
  PROVE  <<x>> \in Seq(Msg) /\ MsgsCount(<<x>>, K, m) = MsgCount(x, K, m)
<1> DEFINE s == <<x>>
           F == [i \in DOMAIN s |-> OfMsg(s[i], K, m)]
<1>1. s \in Seq(Msg) /\ DOMAIN s = 1..1 /\ s[1] = x
  OBVIOUS
<1>2. OfMsgs(s, K, m) = Joined(F)
  BY DEF OfMsgs, Joined
<1> HIDE DEF s
<1>3. DOMAIN F = 1..1 /\ F[1] = OfMsg(x, K, m)
  BY <1>1
<1> HIDE DEF F
<1>4. Cardinality(Joined(F)) = Cardinality(OfMsg(x, K, m))
  BY <1>3, JoinedOne, MsgFinite
<1> QED
  BY <1>1, <1>2, <1>4 DEF MsgsCount, MsgCount, s

\* and those of the first message and of the others add up.
LEMMA MsgsHead ==
  ASSUME NEW s \in Seq(Msg), s # <<>>, NEW K, NEW m
  PROVE  /\ Head(s) \in Msg /\ Tail(s) \in Seq(Msg)
         /\ MsgsCount(s, K, m) = MsgCount(Head(s), K, m) + MsgsCount(Tail(s), K, m)
<1>1. Head(s) \in Msg /\ Tail(s) \in Seq(Msg) /\ s = <<Head(s)>> \o Tail(s)
  OBVIOUS
<1> DEFINE h == <<Head(s)>>
           l == Tail(s)
<1>2. h \in Seq(Msg) /\ l \in Seq(Msg) /\ s = h \o l
  BY <1>1
<1>3. MsgsCount(h, K, m) = MsgCount(Head(s), K, m)
  BY <1>1, MsgsOne
<1> HIDE DEF h, l
<1>4. MsgsCount(h \o l, K, m) = MsgsCount(h, K, m) + MsgsCount(l, K, m)
  BY <1>2, MsgsConcat
<1> QED
  BY <1>1, <1>2, <1>3, <1>4 DEF l

\* What a message holds are sides of ports.
LEMMA OtherKinds ==
  ASSUME NEW s \in Seq(Msg), NEW K, "rx" \notin K, "tx" \notin K, NEW m
  PROVE  OfMsgs(s, K, m) = {}
BY DEF OfMsgs, OfMsg, OfPort

\* The references of an operation, by what it does.
LEMMA OpCounts ==
  ASSUME NEW o \in Op, NEW K, NEW m
  PROVE  /\ IsFiniteSet(OfOp(o, K, m)) /\ OpCount(o, K, m) \in Nat
         /\ o.op = "close" => OpCount(o, K, m) = One(K, "close", o.mb, m)
         /\ o.op = "unref" => OpCount(o, K, m) = One(K, "unref", o.mb, m)
         /\ o.op = "post" => OpCount(o, K, m) = MsgCount(o.msg, K, m)
         /\ o.op = "free" => OpCount(o, K, m) = MsgsCount(o.msgs, K, m)
         /\ o.op \in {"start", "wake", "splice", "shut", "uvclose", "join"}
              => OpCount(o, K, m) = 0
<1> USE OpFields
<1>1. CASE o.op \in {"close", "unref"}
  <2> DEFINE S == {k \in K : k = o.op /\ o.mb = m}
  <2>1. OfOp(o, K, m) = S
    BY <1>1 DEF OfOp
  <2>2. IsFiniteSet(S) /\ Cardinality(S) = One(K, o.op, o.mb, m)
    BY PickCount
  <2> HIDE DEF S
  <2> QED
    BY <1>1, <2>1, <2>2, OneType DEF OpCount
<1>2. CASE o.op = "post"
  <2>1. OfOp(o, K, m) = OfMsgs(<<o.msg>>, K, m)
    BY <1>2 DEF OfOp, MsgsOf
  <2>2. o.msg \in Msg
    BY <1>2
  <2>3. <<o.msg>> \in Seq(Msg) /\ MsgsCount(<<o.msg>>, K, m) = MsgCount(o.msg, K, m)
    BY <2>2, MsgsOne
  <2> QED
    BY <1>2, <2>1, <2>3, MsgsFinite DEF OpCount, MsgsCount
<1>3. CASE o.op = "free"
  <2>1. OfOp(o, K, m) = OfMsgs(o.msgs, K, m)
    BY <1>3 DEF OfOp, MsgsOf
  <2> QED
    BY <1>3, <2>1, MsgsFinite DEF OpCount, MsgsCount
<1>4. CASE o.op \in {"start", "wake", "splice", "shut", "uvclose", "join"}
  <2>1. OfOp(o, K, m) = OfMsgs(<<>>, K, m)
    BY <1>4 DEF OfOp, MsgsOf
  <2> QED
    BY <1>4, <2>1, EmptyType, MsgsFinite DEF OpCount, MsgsCount
<1> QED
  BY <1>1, <1>2, <1>3, <1>4 DEF Op

\* A stack holds finitely many references.
LEMMA StackFinite ==
  ASSUME NEW s \in Seq(Op), NEW K, NEW m
  PROVE  /\ IsFiniteSet(OfStack(s, K, m)) /\ StackCount(s, K, m) \in Nat
         /\ s = <<>> => StackCount(s, K, m) = 0
<1> DEFINE F == [i \in DOMAIN s |-> OfOp(s[i], K, m)]
<1>1. OfStack(s, K, m) = Joined(F)
  BY DEF OfStack, Joined
<1>2. DOMAIN s = 1..Len(s) /\ Len(s) \in Nat /\ \A i \in DOMAIN s : s[i] \in Op
  OBVIOUS
<1>3. IsFiniteSet(DOMAIN F)
  BY <1>2, FS_Interval
<1>4. \A d \in DOMAIN F : IsFiniteSet(F[d])
  BY <1>2, OpCounts
<1>5. s = <<>> => \A d \in DOMAIN F : F[d] = {}
  OBVIOUS
<1> HIDE DEF F
<1>6. s = <<>> => Cardinality(Joined(F)) = 0
  BY <1>5, JoinedEmpty
<1> QED
  BY <1>1, <1>3, <1>4, <1>6, JoinedFinite DEF StackCount

\* The references of two stacks add up,
LEMMA StackConcat ==
  ASSUME NEW s \in Seq(Op), NEW r \in Seq(Op), NEW K, NEW m
  PROVE  /\ r \o s \in Seq(Op)
         /\ StackCount(r \o s, K, m) = StackCount(r, K, m) + StackCount(s, K, m)
<1> DEFINE c == r \o s
           F == [i \in DOMAIN r |-> OfOp(r[i], K, m)]
           G == [i \in DOMAIN s |-> OfOp(s[i], K, m)]
           H == [i \in DOMAIN c |-> OfOp(c[i], K, m)]
<1>1. /\ c \in Seq(Op) /\ Len(r) \in Nat /\ Len(s) \in Nat
      /\ DOMAIN r = 1..Len(r) /\ DOMAIN s = 1..Len(s) /\ DOMAIN c = 1..(Len(r) + Len(s))
      /\ \A i \in 1..Len(r) : c[i] = r[i]
      /\ \A i \in 1..Len(s) : c[Len(r) + i] = s[i]
  OBVIOUS
<1>2. /\ OfStack(r, K, m) = Joined(F) /\ OfStack(s, K, m) = Joined(G)
      /\ OfStack(c, K, m) = Joined(H)
  BY DEF OfStack, Joined
<1> HIDE DEF c
<1>3. /\ DOMAIN F = 1..Len(r) /\ DOMAIN G = 1..Len(s) /\ DOMAIN H = 1..(Len(r) + Len(s))
      /\ \A i \in 1..Len(r) : H[i] = F[i]
      /\ \A i \in 1..Len(s) : H[Len(r) + i] = G[i]
  BY <1>1
<1> HIDE DEF F, G, H
<1>4. IsFiniteSet(Joined(F)) /\ IsFiniteSet(Joined(G))
  BY <1>2, StackFinite
<1>5. Cardinality(Joined(H)) = Cardinality(Joined(F)) + Cardinality(Joined(G))
  <2>1. Concats(Len(r), Len(s), F, G, H)
    BY <1>1, <1>3 DEF Concats
  <2> QED
    BY <2>1, <1>4, JoinedConcat
<1> QED
  BY <1>1, <1>2, <1>5 DEF StackCount, c

\* those of one operation are its own,
LEMMA StackOne ==
  ASSUME NEW o \in Op, NEW K, NEW m
  PROVE  <<o>> \in Seq(Op) /\ StackCount(<<o>>, K, m) = OpCount(o, K, m)
<1> DEFINE s == <<o>>
           F == [i \in DOMAIN s |-> OfOp(s[i], K, m)]
<1>1. s \in Seq(Op) /\ DOMAIN s = 1..1 /\ s[1] = o
  OBVIOUS
<1>2. OfStack(s, K, m) = Joined(F)
  BY DEF OfStack, Joined
<1> HIDE DEF s
<1>3. DOMAIN F = 1..1 /\ F[1] = OfOp(o, K, m)
  BY <1>1
<1> HIDE DEF F
<1>4. Cardinality(Joined(F)) = Cardinality(OfOp(o, K, m))
  BY <1>3, JoinedOne, OpCounts
<1> QED
  BY <1>1, <1>2, <1>4 DEF StackCount, OpCount, s

\* and those of the head and of the others add up.
LEMMA StackHead ==
  ASSUME NEW s \in Seq(Op), s # <<>>, NEW K, NEW m
  PROVE  /\ Head(s) \in Op /\ Tail(s) \in Seq(Op)
         /\ StackCount(s, K, m) = OpCount(Head(s), K, m) + StackCount(Tail(s), K, m)
<1>1. Head(s) \in Op /\ Tail(s) \in Seq(Op) /\ s = <<Head(s)>> \o Tail(s)
  OBVIOUS
<1> DEFINE h == <<Head(s)>>
           l == Tail(s)
<1>2. h \in Seq(Op) /\ l \in Seq(Op) /\ s = h \o l
  BY <1>1
<1>3. StackCount(h, K, m) = OpCount(Head(s), K, m)
  BY <1>1, StackOne
<1> HIDE DEF h, l
<1>4. StackCount(h \o l, K, m) = StackCount(h, K, m) + StackCount(l, K, m)
  BY <1>2, StackConcat
<1> QED
  BY <1>1, <1>2, <1>3, <1>4 DEF l

\* Freeing messages, and dropping the two references of a port, by count.
LEMMA FreeingCount ==
  ASSUME NEW s \in Seq(Msg), NEW K, NEW m
  PROVE  /\ Freeing(s) \in Seq(Op)
         /\ StackCount(Freeing(s), K, m) = MsgsCount(s, K, m)
<1>1. CASE \A i \in DOMAIN s : s[i].ports = <<>>
  <2>1. Freeing(s) = <<>>
    BY <1>1 DEF Freeing
  <2> QED
    BY <1>1, <2>1, EmptyType, StackFinite, MsgsFinite
<1>2. CASE ~ \A i \in DOMAIN s : s[i].ports = <<>>
  <2> DEFINE o == [op |-> "free", msgs |-> s]
  <2>1. Freeing(s) = <<o>> /\ s # <<>>
    BY <1>2 DEF Freeing
  <2>2. o \in Op /\ o.op = "free" /\ o.msgs = s
    BY <2>1, OpTypes
  <2> HIDE DEF o
  <2> QED
    BY <2>1, <2>2, StackOne, OpCounts
<1> QED
  BY <1>1, <1>2

\* The release of a port closes and drops its receive side and drops its send side.
LEMMA ReleaseCount ==
  ASSUME NEW a \in Mailboxes, NEW b \in Mailboxes, NEW K, NEW m
  PROVE  /\ Release(a, b) \in Seq(Op)
         /\ StackCount(Release(a, b), K, m)
              = One(K, "close", a, m) + One(K, "unref", a, m) + One(K, "unref", b, m)
<1> DEFINE c == <<CloseOp(a)>>
           u == <<UnrefOp(a)>>
           v == <<UnrefOp(b)>>
<1>1. CloseOp(a) \in Op /\ UnrefOp(a) \in Op /\ UnrefOp(b) \in Op
  BY OpTypes
<1>2. /\ c \in Seq(Op) /\ StackCount(c, K, m) = One(K, "close", a, m)
      /\ u \in Seq(Op) /\ StackCount(u, K, m) = One(K, "unref", a, m)
      /\ v \in Seq(Op) /\ StackCount(v, K, m) = One(K, "unref", b, m)
  <2>1. /\ CloseOp(a).op = "close" /\ CloseOp(a).mb = a
        /\ UnrefOp(a).op = "unref" /\ UnrefOp(a).mb = a
        /\ UnrefOp(b).op = "unref" /\ UnrefOp(b).mb = b
    BY DEF CloseOp, UnrefOp
  <2> QED
    BY <1>1, <2>1, StackOne, OpCounts
<1> DEFINE w == u \o v
<1>3. Release(a, b) = c \o w
  <2>1. ASSUME NEW x \in Op, NEW y \in Op, NEW z \in Op
        PROVE  <<x>> \o (<<y>> \o <<z>>) = <<x, y, z>>
    <3> DEFINE l == <<x>> \o (<<y>> \o <<z>>)
               r == <<x, y, z>>
    <3>1. l \in Seq(Op) /\ Len(l) = 3 /\ l[1] = x /\ l[2] = y /\ l[3] = z
      OBVIOUS
    <3>2. r \in Seq(Op) /\ Len(r) = 3 /\ r[1] = x /\ r[2] = y /\ r[3] = z
      OBVIOUS
    <3> HIDE DEF l, r
    <3>3. \A i \in 1..Len(l) : l[i] = r[i]
      BY <3>1, <3>2
    <3>4. l = r
      BY <3>1, <3>2, <3>3, SeqEqual
    <3> QED
      BY <3>4 DEF l, r
  <2> QED
    BY <1>1, <2>1, Zenon DEF Release
<1> HIDE DEF c, u, v
<1>4. w \in Seq(Op) /\ StackCount(w, K, m) = StackCount(u, K, m) + StackCount(v, K, m)
  BY <1>2, StackConcat
<1> HIDE DEF w
<1>5. StackCount(c \o w, K, m) = StackCount(c, K, m) + StackCount(w, K, m)
  BY <1>2, <1>4, StackConcat
<1>6. /\ One(K, "close", a, m) \in {0, 1} /\ One(K, "unref", a, m) \in {0, 1}
      /\ One(K, "unref", b, m) \in {0, 1}
  BY OneType
<1> QED
  BY <1>2, <1>3, <1>4, <1>5, <1>6, ReleaseType

----------------------------------------------------------------------------
(* How a step changes the number of references of one kind on a mailbox.   *)

Kinds == {"rx", "tx", "close", "unref"}
N(k, m) == Held({k}, m)

\* There are finitely many holders, although there may be infinitely many ports.
Bounded(k, m) ==
  /\ IsFiniteSet(Receivers({k}, m)) /\ IsFiniteSet(Senders({k}, m))
  /\ IsFiniteSet(InInboxes({k}, m)) /\ IsFiniteSet(InBatches({k}, m))
  /\ IsFiniteSet(InStacks({k}, m))

\* The ports that hold one, and what the operation at the head of a stack holds.
PortsWith(k, m) == Cardinality(Receivers({k}, m)) + Cardinality(Senders({k}, m))
Top(t, k, m) == IF todo[t] = <<>> THEN 0 ELSE OpCount(Head(todo[t]), {k}, m)

\* A step of t changes what t holds, one inbox and ports.
Within(t, q) ==
  /\ \A e \in Mailboxes : e # q => inbox'[e] = inbox[e]
  /\ \A u \in Threads : u # t => batch'[u] = batch[u]

\* The references of one kind on a mailbox are counted.
LEMMA BoundedCounts ==
  ASSUME NEW k, NEW m, Bounded(k, m)
  PROVE  N(k, m) \in Nat /\ PortsWith(k, m) \in Nat
<1>1. /\ Cardinality(Receivers({k}, m)) \in Nat /\ Cardinality(Senders({k}, m)) \in Nat
      /\ Cardinality(InInboxes({k}, m)) \in Nat /\ Cardinality(InBatches({k}, m)) \in Nat
      /\ Cardinality(InStacks({k}, m)) \in Nat
  BY FS_CardinalityType DEF Bounded
<1> QED
  BY <1>1 DEF N, Held, PortsWith

\* A step that changes the inbox of q alone changes the references in inboxes by that,
LEMMA InboxChange ==
  ASSUME TypeOK, TypeOK', NEW t, NEW q \in Mailboxes, Within(t, q), NEW K, NEW m,
         IsFiniteSet(InInboxes(K, m))
  PROVE  /\ IsFiniteSet(InInboxes(K, m)')
         /\ Cardinality(InInboxes(K, m)') + MsgsCount(inbox[q], K, m)
              = Cardinality(InInboxes(K, m)) + MsgsCount(inbox'[q], K, m)
<1> DEFINE F == [e \in Mailboxes |-> OfMsgs(inbox[e], K, m)]
           G == [e \in Mailboxes |-> OfMsgs(inbox'[e], K, m)]
<1>1. InInboxes(K, m) = Joined(F) /\ InInboxes(K, m)' = Joined(G)
  BY DEF InInboxes, Joined
<1>2. \A e \in DOMAIN F : e # q => G[e] = F[e]
  BY DEF Within
<1>3. /\ DOMAIN F = Mailboxes /\ DOMAIN G = Mailboxes
      /\ F[q] = OfMsgs(inbox[q], K, m) /\ G[q] = OfMsgs(inbox'[q], K, m)
  OBVIOUS
<1>4. inbox'[q] \in Seq(Msg)
  BY DEF TypeOK, MailboxTypeOK
<1>5. IsFiniteSet(G[q])
  BY <1>3, <1>4, MsgsFinite
<1> HIDE DEF F, G
<1>6. /\ IsFiniteSet(Joined(G))
      /\ Cardinality(Joined(G)) + Cardinality(F[q]) = Cardinality(Joined(F)) + Cardinality(G[q])
  BY <1>1, <1>2, <1>3, <1>5, JoinedChange
<1> QED
  BY <1>1, <1>3, <1>6 DEF MsgsCount

\* one that changes the batch of t those in batches,
LEMMA BatchChange ==
  ASSUME TypeOK, TypeOK', NEW t \in Threads, NEW q, Within(t, q), NEW K, NEW m,
         IsFiniteSet(InBatches(K, m))
  PROVE  /\ IsFiniteSet(InBatches(K, m)')
         /\ Cardinality(InBatches(K, m)') + MsgsCount(batch[t], K, m)
              = Cardinality(InBatches(K, m)) + MsgsCount(batch'[t], K, m)
<1> DEFINE F == [u \in Threads |-> OfMsgs(batch[u], K, m)]
           G == [u \in Threads |-> OfMsgs(batch'[u], K, m)]
<1>1. InBatches(K, m) = Joined(F) /\ InBatches(K, m)' = Joined(G)
  BY DEF InBatches, Joined
<1>2. \A u \in DOMAIN F : u # t => G[u] = F[u]
  BY DEF Within
<1>3. /\ DOMAIN F = Threads /\ DOMAIN G = Threads
      /\ F[t] = OfMsgs(batch[t], K, m) /\ G[t] = OfMsgs(batch'[t], K, m)
  OBVIOUS
<1>4. batch'[t] \in Seq(Msg)
  BY DEF TypeOK, LoopTypeOK
<1>5. IsFiniteSet(G[t])
  BY <1>3, <1>4, MsgsFinite
<1> HIDE DEF F, G
<1>6. /\ IsFiniteSet(Joined(G))
      /\ Cardinality(Joined(G)) + Cardinality(F[t]) = Cardinality(Joined(F)) + Cardinality(G[t])
  BY <1>1, <1>2, <1>3, <1>5, JoinedChange
<1> QED
  BY <1>1, <1>3, <1>6 DEF MsgsCount

\* and one that pushes r on the stack of t those on stacks, less the head.
LEMMA StackChange ==
  ASSUME TypeOK, TodoOK, NEW t \in Threads, NEW r \in Seq(Op), Push(t, r), NEW k, NEW m,
         IsFiniteSet(InStacks({k}, m))
  PROVE  /\ IsFiniteSet(InStacks({k}, m)')
         /\ Cardinality(InStacks({k}, m)') + Top(t, k, m)
              = Cardinality(InStacks({k}, m)) + StackCount(r, {k}, m)
         /\ Top(t, k, m) \in Nat
<1> DEFINE K == {k}
           F == [u \in Threads |-> OfStack(todo[u], K, m)]
           G == [u \in Threads |-> OfStack(todo'[u], K, m)]
<1>1. InStacks(K, m) = Joined(F) /\ InStacks(K, m)' = Joined(G)
  BY DEF InStacks, Joined
<1>2. /\ todo'[t] = r \o Rest(t) /\ Rest(t) \in Seq(Op)
      /\ \A u \in Threads \ {t} : todo'[u] = todo[u]
  BY PushFacts, RestFacts
<1>3. /\ DOMAIN F = Threads /\ DOMAIN G = Threads
      /\ F[t] = OfStack(todo[t], K, m) /\ G[t] = OfStack(todo'[t], K, m)
      /\ \A u \in DOMAIN F : u # t => G[u] = F[u]
  BY <1>2
<1> HIDE DEF K
<1>4. /\ r \o Rest(t) \in Seq(Op)
      /\ StackCount(r \o Rest(t), K, m) = StackCount(r, K, m) + StackCount(Rest(t), K, m)
  BY <1>2, StackConcat
<1>5. IsFiniteSet(G[t])
  BY <1>2, <1>3, <1>4, StackFinite
<1> HIDE DEF F, G
<1>6. /\ IsFiniteSet(Joined(G))
      /\ Cardinality(Joined(G)) + Cardinality(F[t]) = Cardinality(Joined(F)) + Cardinality(G[t])
      /\ Cardinality(Joined(F)) \in Nat /\ Cardinality(Joined(G)) \in Nat
  BY <1>1, <1>3, <1>5, JoinedChange DEF K
<1>7. /\ StackCount(todo[t], K, m) = Top(t, k, m) + StackCount(Rest(t), K, m)
      /\ Top(t, k, m) \in Nat
  <2>1. CASE todo[t] = <<>>
    <3>1. Rest(t) = <<>> /\ Top(t, k, m) = 0
      BY <2>1 DEF Top, Rest
    <3>2. \A s : s = <<>> => s \in Seq(Op)
      OBVIOUS
    <3>3. StackCount(todo[t], K, m) = 0 /\ StackCount(Rest(t), K, m) = 0
      BY <2>1, <3>1, <3>2, StackFinite
    <3> QED
      BY <3>1, <3>3
  <2>2. CASE todo[t] # <<>>
    <3>1. todo[t] \in Seq(Op)
      BY DEF TypeOK, TodoTypeOK
    <3>2. /\ Head(todo[t]) \in Op
          /\ StackCount(todo[t], K, m)
               = OpCount(Head(todo[t]), K, m) + StackCount(Tail(todo[t]), K, m)
      BY <2>2, <3>1, StackHead
    <3>3. OpCount(Head(todo[t]), K, m) \in Nat
      BY <3>2, OpCounts
    <3> QED
      BY <2>2, <3>2, <3>3 DEF Top, Rest, K
  <2> QED
    BY <2>1, <2>2
<1>8. StackCount(r, K, m) \in Nat /\ StackCount(Rest(t), K, m) \in Nat
  BY <1>2, StackFinite
<1>9. StackCount(todo'[t], K, m) = StackCount(r, K, m) + StackCount(Rest(t), K, m)
  BY <1>2, <1>4
<1>10. Cardinality(F[t]) = StackCount(todo[t], K, m) /\ Cardinality(G[t]) = StackCount(todo'[t], K, m)
  BY <1>3 DEF StackCount
<1> QED
  BY <1>1, <1>6, <1>7, <1>8, <1>9, <1>10 DEF K

\* A step of t that pushes r keeps the number of references of a kind, but for those of the
\* ports, of the inbox of q, of its batch and of its stack.
Balanced(t, q, r, k, m) ==
  /\ Bounded(k, m)'
  /\ N(k, m)' + PortsWith(k, m) + MsgsCount(inbox[q], {k}, m)
              + MsgsCount(batch[t], {k}, m) + Top(t, k, m)
       = N(k, m) + PortsWith(k, m)' + MsgsCount(inbox'[q], {k}, m)
                 + MsgsCount(batch'[t], {k}, m) + StackCount(r, {k}, m)
  /\ N(k, m) \in Nat /\ N(k, m)' \in Nat /\ PortsWith(k, m) \in Nat
  /\ PortsWith(k, m)' \in Nat /\ Top(t, k, m) \in Nat

\* The balance of a step: what is held after it and what the step took away, against
\* what was held before and what the step added.
LEMMA Balance ==
  ASSUME TypeOK, TodoOK, TypeOK', NEW t \in Threads, NEW q \in Mailboxes, Within(t, q),
         NEW r \in Seq(Op), Push(t, r), NEW k, NEW m, Bounded(k, m),
         IsFiniteSet(Receivers({k}, m)'), IsFiniteSet(Senders({k}, m)')
  PROVE  Balanced(t, q, r, k, m)
<1>1. /\ IsFiniteSet(InInboxes({k}, m)')
      /\ Cardinality(InInboxes({k}, m)') + MsgsCount(inbox[q], {k}, m)
           = Cardinality(InInboxes({k}, m)) + MsgsCount(inbox'[q], {k}, m)
  BY InboxChange DEF Bounded
<1>2. /\ IsFiniteSet(InBatches({k}, m)')
      /\ Cardinality(InBatches({k}, m)') + MsgsCount(batch[t], {k}, m)
           = Cardinality(InBatches({k}, m)) + MsgsCount(batch'[t], {k}, m)
  BY BatchChange DEF Bounded
<1>3. /\ IsFiniteSet(InStacks({k}, m)')
      /\ Cardinality(InStacks({k}, m)') + Top(t, k, m)
           = Cardinality(InStacks({k}, m)) + StackCount(r, {k}, m)
      /\ Top(t, k, m) \in Nat
  BY StackChange DEF Bounded
<1>4. Bounded(k, m)'
  BY <1>1, <1>2, <1>3 DEF Bounded
<1>5. /\ Cardinality(Receivers({k}, m)) \in Nat /\ Cardinality(Senders({k}, m)) \in Nat
      /\ Cardinality(InInboxes({k}, m)) \in Nat /\ Cardinality(InBatches({k}, m)) \in Nat
      /\ Cardinality(InStacks({k}, m)) \in Nat
  BY FS_CardinalityType DEF Bounded
<1>6. /\ Cardinality(Receivers({k}, m)') \in Nat /\ Cardinality(Senders({k}, m)') \in Nat
      /\ Cardinality(InInboxes({k}, m)') \in Nat /\ Cardinality(InBatches({k}, m)') \in Nat
      /\ Cardinality(InStacks({k}, m)') \in Nat
  BY <1>1, <1>2, <1>3, FS_CardinalityType
<1>7. /\ MsgsCount(inbox[q], {k}, m) \in Nat /\ MsgsCount(inbox'[q], {k}, m) \in Nat
      /\ MsgsCount(batch[t], {k}, m) \in Nat /\ MsgsCount(batch'[t], {k}, m) \in Nat
      /\ StackCount(r, {k}, m) \in Nat
  <2>1. /\ inbox[q] \in Seq(Msg) /\ inbox'[q] \in Seq(Msg)
        /\ batch[t] \in Seq(Msg) /\ batch'[t] \in Seq(Msg)
    BY DEF TypeOK, MailboxTypeOK, LoopTypeOK
  <2> QED
    BY <2>1, MsgsFinite, StackFinite
<1>8. /\ N(k, m) = Cardinality(Receivers({k}, m)) + Cardinality(Senders({k}, m))
                   + Cardinality(InInboxes({k}, m)) + Cardinality(InBatches({k}, m))
                   + Cardinality(InStacks({k}, m))
      /\ N(k, m)' = Cardinality(Receivers({k}, m)') + Cardinality(Senders({k}, m)')
                   + Cardinality(InInboxes({k}, m)') + Cardinality(InBatches({k}, m)')
                   + Cardinality(InStacks({k}, m)')
      /\ PortsWith(k, m) = Cardinality(Receivers({k}, m)) + Cardinality(Senders({k}, m))
      /\ PortsWith(k, m)' = Cardinality(Receivers({k}, m)') + Cardinality(Senders({k}, m)')
  BY DEF N, Held, PortsWith
<1> DEFINE a  == Cardinality(InInboxes({k}, m))
           a1 == Cardinality(InInboxes({k}, m)')
           b  == Cardinality(InBatches({k}, m))
           b1 == Cardinality(InBatches({k}, m)')
           c  == Cardinality(InStacks({k}, m))
           c1 == Cardinality(InStacks({k}, m)')
<1> DEFINE p  == Cardinality(Receivers({k}, m))
           p1 == Cardinality(Receivers({k}, m)')
           s  == Cardinality(Senders({k}, m))
           s1 == Cardinality(Senders({k}, m)')
<1>9. /\ N(k, m) = p + s + a + b + c /\ N(k, m)' = p1 + s1 + a1 + b1 + c1
      /\ PortsWith(k, m) = p + s /\ PortsWith(k, m)' = p1 + s1
  BY <1>8, Zenon
<1>10. /\ p \in Nat /\ p1 \in Nat /\ s \in Nat /\ s1 \in Nat /\ a \in Nat /\ a1 \in Nat
       /\ b \in Nat /\ b1 \in Nat /\ c \in Nat /\ c1 \in Nat
  BY <1>5, <1>6, Zenon
<1> DEFINE x  == MsgsCount(inbox[q], {k}, m)
           x1 == MsgsCount(inbox'[q], {k}, m)
           y  == MsgsCount(batch[t], {k}, m)
           y1 == MsgsCount(batch'[t], {k}, m)
           z  == Top(t, k, m)
           z1 == StackCount(r, {k}, m)
<1>11. /\ x \in Nat /\ x1 \in Nat /\ y \in Nat /\ y1 \in Nat /\ z \in Nat /\ z1 \in Nat
       /\ a1 + x = a + x1 /\ b1 + y = b + y1 /\ c1 + z = c + z1
  BY <1>1, <1>2, <1>3, <1>7, Zenon
<1> DEFINE n  == N(k, m)
           n1 == N(k, m)'
           w  == PortsWith(k, m)
           w1 == PortsWith(k, m)'
<1>12. n = p + s + a + b + c /\ n1 = p1 + s1 + a1 + b1 + c1 /\ w = p + s /\ w1 = p1 + s1
  BY <1>9, Zenon
<1> HIDE DEF a, a1, b, b1, c, c1, p, p1, s, s1, x, x1, y, y1, z, z1, n, n1, w, w1
<1>13. n1 + w + x + y + z = n + w1 + x1 + y1 + z1
  BY <1>10, <1>11, <1>12
<1>14. n \in Nat /\ n1 \in Nat /\ w \in Nat /\ w1 \in Nat
  BY <1>10, <1>12
<1> QED
  BY <1>3, <1>4, <1>13, <1>14, Zenon DEF x, x1, y, y1, z, z1, n, n1, w, w1, Balanced

\* How many ports of S hold a reference of kind k on m, when r and x are their sides.
SideCount(S, k, m, r, x) == Cardinality({p \in S : k = "rx" /\ r[p] = m})
                            + Cardinality({p \in S : k = "tx" /\ x[p] = m})

\* The ports that hold a reference of one kind.
LEMMA PortSets ==
  ASSUME NEW k, NEW m
  PROVE  /\ Receivers({k}, m) = {p \in Ports : k = "rx" /\ rx[p] = m}
         /\ Senders({k}, m) = {p \in Ports : k = "tx" /\ tx[p] = m}
         /\ PortsWith(k, m) = SideCount(Ports, k, m, rx, tx)
<1>1. Receivers({k}, m) = {p \in Ports : k = "rx" /\ rx[p] = m}
  BY DEF Receivers
<1>2. Senders({k}, m) = {p \in Ports : k = "tx" /\ tx[p] = m}
  BY DEF Senders
<1> QED
  BY <1>1, <1>2, Zenon DEF PortsWith, SideCount

\* Ports that keep both sides.
LEMMA PortsStay ==
  ASSUME \A p \in Ports : rx'[p] = rx[p] /\ tx'[p] = tx[p], NEW k, NEW m
  PROVE  /\ Receivers({k}, m)' = Receivers({k}, m)
         /\ Senders({k}, m)' = Senders({k}, m)
         /\ PortsWith(k, m)' = PortsWith(k, m)
<1>1. Receivers({k}, m)' = Receivers({k}, m)
  BY DEF Receivers
<1>2. Senders({k}, m)' = Senders({k}, m)
  BY DEF Senders
<1> QED
  BY <1>1, <1>2, Zenon DEF PortsWith

\* Of the elements with a mark, S loses it, or S gets it.
LEMMA MarkLost ==
  ASSUME NEW A, NEW B, NEW S, IsFiniteSet(A), B = A \ S
  PROVE  /\ IsFiniteSet(B) /\ IsFiniteSet(A \cap S)
         /\ Cardinality(B) + Cardinality(A \cap S) = Cardinality(A)
         /\ Cardinality(A) \in Nat /\ Cardinality(B) \in Nat /\ Cardinality(A \cap S) \in Nat
<1> DEFINE C == A \cap S
<1>1. IsFiniteSet(B) /\ IsFiniteSet(C)
  <2>1. B \subseteq A /\ C \subseteq A
    OBVIOUS
  <2> QED
    BY <2>1, FS_Subset
<1>2. A = B \cup C /\ B \cap C = {}
  OBVIOUS
<1> HIDE DEF C
<1>3. /\ Cardinality(B \cup C) = Cardinality(B) + Cardinality(C)
      /\ Cardinality(B) \in Nat /\ Cardinality(C) \in Nat
  BY <1>1, <1>2, DisjointCount
<1> QED
  BY <1>1, <1>2, <1>3, FS_CardinalityType DEF C

\* Ports that lose both sides.
LEMMA PortsLeave ==
  ASSUME NEW S \in SUBSET Ports, NEW k, NEW m \in Mailboxes, Bounded(k, m),
         \A p \in Ports : IF p \in S THEN rx'[p] = None /\ tx'[p] = None
                                     ELSE rx'[p] = rx[p] /\ tx'[p] = tx[p]
  PROVE  /\ IsFiniteSet(Receivers({k}, m)') /\ IsFiniteSet(Senders({k}, m)')
         /\ PortsWith(k, m)' + SideCount(S, k, m, rx, tx) = PortsWith(k, m)
         /\ SideCount(S, k, m, rx, tx) \in Nat
<1> DEFINE A == Receivers({k}, m)
           B == Senders({k}, m)
           A1 == {p \in Ports : k = "rx" /\ rx'[p] = m}
           B1 == {p \in Ports : k = "tx" /\ tx'[p] = m}
           AS == {p \in S : k = "rx" /\ rx[p] = m}
           BS == {p \in S : k = "tx" /\ tx[p] = m}
<1>1. m # None
  BY ChannelAssumption
<1>2. A1 = A \ S /\ B1 = B \ S
  BY <1>1 DEF Receivers, Senders
<1>3. AS = A \cap S /\ BS = B \cap S
  BY DEF Receivers, Senders
<1>4. IsFiniteSet(A) /\ IsFiniteSet(B)
  BY DEF Bounded
<1>5. Receivers({k}, m)' = A1 /\ Senders({k}, m)' = B1
  BY DEF Receivers, Senders
<1>6. /\ PortsWith(k, m)' = Cardinality(A1) + Cardinality(B1)
      /\ PortsWith(k, m) = Cardinality(A) + Cardinality(B)
      /\ SideCount(S, k, m, rx, tx) = Cardinality(AS) + Cardinality(BS)
  BY <1>5, Zenon DEF PortsWith, SideCount
<1> HIDE DEF A, B, A1, B1, AS, BS
<1>7. /\ IsFiniteSet(A1) /\ Cardinality(A1) + Cardinality(AS) = Cardinality(A)
      /\ Cardinality(A) \in Nat /\ Cardinality(A1) \in Nat /\ Cardinality(AS) \in Nat
  BY <1>2, <1>3, <1>4, MarkLost
<1>8. /\ IsFiniteSet(B1) /\ Cardinality(B1) + Cardinality(BS) = Cardinality(B)
      /\ Cardinality(B) \in Nat /\ Cardinality(B1) \in Nat /\ Cardinality(BS) \in Nat
  BY <1>2, <1>3, <1>4, MarkLost
<1> QED
  BY <1>5, <1>6, <1>7, <1>8

\* Ports without sides that get both.
LEMMA PortsEnter ==
  ASSUME NEW S \in SUBSET Ports, IsFiniteSet(S), NEW k, NEW m \in Mailboxes, Bounded(k, m),
         \A p \in S : rx[p] = None /\ tx[p] = None,
         \A p \in Ports : p \notin S => rx'[p] = rx[p] /\ tx'[p] = tx[p]
  PROVE  /\ IsFiniteSet(Receivers({k}, m)') /\ IsFiniteSet(Senders({k}, m)')
         /\ PortsWith(k, m)' = PortsWith(k, m) + SideCount(S, k, m, rx', tx')
         /\ SideCount(S, k, m, rx', tx') \in Nat
<1> DEFINE A == Receivers({k}, m)
           B == Senders({k}, m)
           A1 == {p \in Ports : k = "rx" /\ rx'[p] = m}
           B1 == {p \in Ports : k = "tx" /\ tx'[p] = m}
           AS == {p \in S : k = "rx" /\ rx'[p] = m}
           BS == {p \in S : k = "tx" /\ tx'[p] = m}
<1>1. m # None
  BY ChannelAssumption
<1>2. A1 = A \cup AS /\ B1 = B \cup BS
  BY <1>1 DEF Receivers, Senders
<1>3. A \cap AS = {} /\ B \cap BS = {} /\ AS \subseteq S /\ BS \subseteq S
  BY <1>1 DEF Receivers, Senders
<1>4. IsFiniteSet(A) /\ IsFiniteSet(B) /\ IsFiniteSet(AS) /\ IsFiniteSet(BS)
  BY <1>3, FS_Subset DEF Bounded
<1>5. Receivers({k}, m)' = A1 /\ Senders({k}, m)' = B1
  BY DEF Receivers, Senders
<1>6. /\ PortsWith(k, m)' = Cardinality(A1) + Cardinality(B1)
      /\ PortsWith(k, m) = Cardinality(A) + Cardinality(B)
      /\ SideCount(S, k, m, rx', tx') = Cardinality(AS) + Cardinality(BS)
  BY <1>5, Zenon DEF PortsWith, SideCount
<1> HIDE DEF A, B, A1, B1, AS, BS
<1>7. /\ IsFiniteSet(A1) /\ Cardinality(A1) = Cardinality(A) + Cardinality(AS)
      /\ Cardinality(A) \in Nat /\ Cardinality(AS) \in Nat
  BY <1>2, <1>3, <1>4, DisjointCount, Zenon
<1>8. /\ IsFiniteSet(B1) /\ Cardinality(B1) = Cardinality(B) + Cardinality(BS)
      /\ Cardinality(B) \in Nat /\ Cardinality(BS) \in Nat
  BY <1>2, <1>3, <1>4, DisjointCount, Zenon
<1>9. IsFiniteSet(Receivers({k}, m)') /\ IsFiniteSet(Senders({k}, m)')
  BY <1>5, <1>7, <1>8, Zenon
<1>10. PortsWith(k, m)' = PortsWith(k, m) + SideCount(S, k, m, rx', tx')
  BY <1>6, <1>7, <1>8
<1> QED
  BY <1>6, <1>7, <1>8, <1>9, <1>10

\* One port.
LEMMA SideOne ==
  ASSUME NEW p, NEW k, NEW m, NEW r, NEW x
  PROVE  SideCount({p}, k, m, r, x) = One({k}, "rx", r[p], m) + One({k}, "tx", x[p], m)
<1> DEFINE A == {q \in {p} : k = "rx" /\ r[q] = m}
           B == {q \in {p} : k = "tx" /\ x[q] = m}
<1>1. Cardinality(A) = One({k}, "rx", r[p], m)
  <2>1. A = IF k = "rx" /\ r[p] = m THEN {p} ELSE {}
    OBVIOUS
  <2> QED
    BY <2>1, FS_Singleton, FS_EmptySet DEF One
<1>2. Cardinality(B) = One({k}, "tx", x[p], m)
  <2>1. B = IF k = "tx" /\ x[p] = m THEN {p} ELSE {}
    OBVIOUS
  <2> QED
    BY <2>1, FS_Singleton, FS_EmptySet DEF One
<1> HIDE DEF A, B
<1> QED
  BY <1>1, <1>2 DEF SideCount, A, B

\* The ports S, in the order f, have the sides r and x that msg names.
Carries(msg, f, S, r, x) ==
  /\ DOMAIN f = DOMAIN msg.ports
  /\ \A i, j \in DOMAIN f : f[i] = f[j] => i = j
  /\ \A p \in S : \E i \in DOMAIN f : f[i] = p
  /\ \A i \in DOMAIN f : /\ f[i] \in S
                         /\ msg.ports[i].rx = r[f[i]] /\ msg.ports[i].tx = x[f[i]]

\* A set whose elements are those f names at the marked positions of a message.
LEMMA Marked ==
  ASSUME NEW Q, IsFiniteSet(Q), NEW A, NEW f,
         \A q \in Q : f[q[1]] \in A,
         \A c, d \in Q : f[c[1]] = f[d[1]] => c = d,
         \A p \in A : \E q \in Q : f[q[1]] = p
  PROVE  Cardinality(A) = Cardinality(Q)
<1> DEFINE g == [q \in Q |-> f[q[1]]]
<1>1. g \in [Q -> A]
  OBVIOUS
<1>2. \A c, d \in Q : g[c] = g[d] => c = d
  OBVIOUS
<1>3. \A p \in A : \E q \in Q : g[q] = p
  OBVIOUS
<1> HIDE DEF g
<1> QED
  BY <1>1, <1>2, <1>3, SameCount

\* They hold the references that the message holds.
LEMMA SideList ==
  ASSUME NEW msg \in Msg, NEW f, NEW S, NEW r, NEW x, Carries(msg, f, S, r, x), NEW k, NEW m
  PROVE  SideCount(S, k, m, r, x) = MsgCount(msg, {k}, m)
<1> DEFINE A == {p \in S : k = "rx" /\ r[p] = m}
           B == {p \in S : k = "tx" /\ x[p] = m}
           Q == OfMsg(msg, {k}, m)
<1>1. SideCount(S, k, m, r, x) = Cardinality(A) + Cardinality(B)
  BY DEF SideCount
<1>2. \A q \in Q : /\ q[1] \in DOMAIN f /\ q = <<q[1], k>>
                   /\ k = "rx" => f[q[1]] \in A
                   /\ k = "tx" => f[q[1]] \in B
                   /\ k = "rx" \/ k = "tx"
  BY DEF OfMsg, OfPort, Carries
<1>3. \A i \in DOMAIN f : f[i] \in A \/ f[i] \in B => <<i, k>> \in Q
  <2> SUFFICES ASSUME NEW i \in DOMAIN f, f[i] \in A \/ f[i] \in B
               PROVE  <<i, k>> \in Q
    OBVIOUS
  <2>1. k \in OfPort(msg.ports[i], {k}, m) /\ i \in DOMAIN msg.ports
    BY DEF OfPort, Carries
  <2> QED
    BY <2>1 DEF OfMsg
<1>4. IsFiniteSet(Q) /\ Cardinality(Q) = MsgCount(msg, {k}, m) /\ Cardinality(Q) \in Nat
  BY MsgFinite DEF MsgCount
<1>5. \A c, d \in Q : f[c[1]] = f[d[1]] => c = d
  BY <1>2 DEF Carries
<1>6. \A p : p \in A \/ p \in B => \E q \in Q : f[q[1]] = p
  <2> SUFFICES ASSUME NEW p, p \in A \/ p \in B PROVE \E q \in Q : f[q[1]] = p
    OBVIOUS
  <2>1. PICK i \in DOMAIN f : f[i] = p
    BY DEF Carries
  <2>2. <<i, k>> \in Q
    BY <1>3, <2>1
  <2> QED
    BY <2>1, <2>2
<1>7. Cardinality({}) = 0
  BY FS_EmptySet
<1>8. /\ k # "rx" => A = {}
      /\ k # "tx" => B = {}
      /\ k # "rx" /\ k # "tx" => Q = {}
  BY <1>2
<1> HIDE DEF A, B, Q
<1>9. k = "rx" => Cardinality(A) = Cardinality(Q)
  BY <1>2, <1>4, <1>5, <1>6, Marked
<1>10. k = "tx" => Cardinality(B) = Cardinality(Q)
  BY <1>2, <1>4, <1>5, <1>6, Marked
<1>11. Cardinality(A) + Cardinality(B) = Cardinality(Q)
  <2>1. CASE k = "rx"
    <3>1. Cardinality(A) = Cardinality(Q) /\ Cardinality(B) = 0
      BY <1>7, <1>8, <1>9, <2>1
    <3> QED
      BY <1>4, <3>1
  <2>2. CASE k = "tx"
    <3>1. Cardinality(B) = Cardinality(Q) /\ Cardinality(A) = 0
      BY <1>7, <1>8, <1>10, <2>2
    <3> QED
      BY <1>4, <3>1
  <2>3. CASE k # "rx" /\ k # "tx"
    <3>1. Cardinality(A) = 0 /\ Cardinality(B) = 0 /\ Cardinality(Q) = 0
      BY <1>7, <1>8, <2>3
    <3> QED
      BY <3>1
  <2> QED
    BY <2>1, <2>2, <2>3
<1> QED
  BY <1>1, <1>4, <1>11

\* Operations that hold no reference, and a stack of three operations.
LEMMA StackZero ==
  ASSUME NEW s \in Seq(Op), NEW K, NEW m,
         \A i \in DOMAIN s : s[i].op \in {"start", "wake", "splice", "shut", "uvclose", "join"}
  PROVE  StackCount(s, K, m) = 0
<1> DEFINE F == [i \in DOMAIN s |-> OfOp(s[i], K, m)]
<1>1. OfStack(s, K, m) = Joined(F)
  BY DEF OfStack, Joined
<1>2. \A i \in DOMAIN s : OfOp(s[i], K, m) = {}
  BY DEF OfOp, OfMsgs, MsgsOf
<1>3. \A d \in DOMAIN F : F[d] = {}
  BY <1>2
<1> HIDE DEF F
<1>4. Cardinality(Joined(F)) = 0
  BY <1>3, JoinedEmpty
<1> QED
  BY <1>1, <1>4 DEF StackCount

\* The references of three operations.
LEMMA StackThree ==
  ASSUME NEW x \in Op, NEW y \in Op, NEW z \in Op, NEW K, NEW m
  PROVE  /\ <<x, y, z>> \in Seq(Op)
         /\ StackCount(<<x, y, z>>, K, m)
              = OpCount(x, K, m) + OpCount(y, K, m) + OpCount(z, K, m)
<1> DEFINE s == <<x, y, z>>
           t == Tail(s)
           u == Tail(t)
           v == Tail(u)
<1>1. s \in Seq(Op) /\ s # <<>> /\ Head(s) = x
  OBVIOUS
<1>2. t \in Seq(Op) /\ t # <<>> /\ Head(t) = y
  OBVIOUS
<1>3. u \in Seq(Op) /\ u # <<>> /\ Head(u) = z
  OBVIOUS
<1>4. v \in Seq(Op) /\ v = <<>>
  OBVIOUS
<1>8. t = Tail(s) /\ u = Tail(t) /\ v = Tail(u)
  OBVIOUS
<1> HIDE DEF s, t, u, v
<1>5. /\ StackCount(s, K, m) = OpCount(x, K, m) + StackCount(t, K, m)
      /\ StackCount(t, K, m) = OpCount(y, K, m) + StackCount(u, K, m)
      /\ StackCount(u, K, m) = OpCount(z, K, m) + StackCount(v, K, m)
  <2>1. StackCount(s, K, m) = OpCount(Head(s), K, m) + StackCount(Tail(s), K, m)
    BY <1>1, StackHead
  <2>2. StackCount(t, K, m) = OpCount(Head(t), K, m) + StackCount(Tail(t), K, m)
    BY <1>2, StackHead
  <2>3. StackCount(u, K, m) = OpCount(Head(u), K, m) + StackCount(Tail(u), K, m)
    BY <1>3, StackHead
  <2> QED
    BY <1>1, <1>2, <1>3, <1>8, <2>1, <2>2, <2>3, Zenon
<1>9. StackCount(v, K, m) = 0
  BY <1>4, StackFinite
<1>6. OpCount(x, K, m) \in Nat /\ OpCount(y, K, m) \in Nat /\ OpCount(z, K, m) \in Nat
  BY OpCounts
<1>7. StackCount(s, K, m) = OpCount(x, K, m) + OpCount(y, K, m) + OpCount(z, K, m)
  BY <1>5, <1>6, <1>9
<1> QED
  BY <1>1, <1>7 DEF s

\* The references of the operation a thread is in.
LEMMA TopFacts ==
  ASSUME TypeOK, NEW t \in Threads, NEW k, NEW m
  PROVE  /\ todo[t] = <<>> => Top(t, k, m) = 0
         /\ todo[t] # <<>> => Head(todo[t]) \in Op /\ Top(t, k, m) = OpCount(Head(todo[t]), {k}, m)
<1>1. todo[t] \in Seq(Op)
  BY DEF TypeOK, TodoTypeOK
<1>2. todo[t] # <<>> => Head(todo[t]) \in Op
  BY <1>1
<1> QED
  BY <1>2 DEF Top

\* A step of t that pushes r and moves nothing else keeps the number of references of a kind,
\* but for those of its stack.
StackBalanced(t, r, k, m) ==
  /\ Bounded(k, m)'
  /\ N(k, m)' + Top(t, k, m) = N(k, m) + StackCount(r, {k}, m)
  /\ N(k, m) \in Nat /\ N(k, m)' \in Nat
  /\ Top(t, k, m) \in Nat /\ StackCount(r, {k}, m) \in Nat

\* A step of t that leaves ports, inboxes and batches alone, and exchanges what it holds.
LEMMA QuietCount ==
  ASSUME TypeOK, TodoOK, TypeOK', NEW t \in Threads, NEW r \in Seq(Op), Push(t, r),
         UNCHANGED <<rx, tx, inbox, batch>>, NEW k, NEW m \in Mailboxes, Bounded(k, m)
  PROVE  StackBalanced(t, r, k, m)
<1>1. Within(t, m)
  BY DEF Within
<1>2. /\ PortsWith(k, m)' = PortsWith(k, m)
      /\ IsFiniteSet(Receivers({k}, m)') /\ IsFiniteSet(Senders({k}, m)')
  BY PortsStay DEF Bounded
<1>3. inbox'[m] = inbox[m] /\ batch'[t] = batch[t]
  OBVIOUS
<1>4. /\ Bounded(k, m)'
      /\ N(k, m)' + PortsWith(k, m) + MsgsCount(inbox[m], {k}, m)
                     + MsgsCount(batch[t], {k}, m) + Top(t, k, m)
              = N(k, m) + PortsWith(k, m)' + MsgsCount(inbox'[m], {k}, m)
                        + MsgsCount(batch'[t], {k}, m) + StackCount(r, {k}, m)
      /\ N(k, m) \in Nat /\ N(k, m)' \in Nat /\ PortsWith(k, m) \in Nat /\ Top(t, k, m) \in Nat
  <2>1. Balanced(t, m, r, k, m)
    BY <1>1, <1>2, Balance
  <2> QED
    BY <2>1, Zenon DEF Balanced
<1>6. /\ MsgsCount(inbox[m], {k}, m) \in Nat /\ MsgsCount(batch[t], {k}, m) \in Nat
      /\ Top(t, k, m) \in Nat /\ StackCount(r, {k}, m) \in Nat
  <2>1. inbox[m] \in Seq(Msg) /\ batch[t] \in Seq(Msg)
    BY DEF TypeOK, MailboxTypeOK, LoopTypeOK
  <2> QED
    BY <1>4, <2>1, MsgsFinite, StackFinite
<1> DEFINE a == MsgsCount(inbox[m], {k}, m)
           b == MsgsCount(batch[t], {k}, m)
           p == PortsWith(k, m)
           n == N(k, m)
           n1 == N(k, m)'
           x == Top(t, k, m)
           y == StackCount(r, {k}, m)
<1>7. n1 + p + a + b + x = n + p + a + b + y
  BY <1>2, <1>3, <1>4, Zenon
<1>8. a \in Nat /\ b \in Nat /\ p \in Nat /\ n \in Nat /\ n1 \in Nat /\ x \in Nat /\ y \in Nat
  BY <1>4, <1>6, Zenon
<1> HIDE DEF a, b, p, n, n1, x, y
<1>9. n1 + x = n + y
  BY <1>7, <1>8
<1> QED
  BY <1>4, <1>6, <1>9, Zenon DEF n, n1, x, y, StackBalanced

\* One that also moves messages between inbox q, its batch and its stack.
Moved(t, q, r, k, m) ==
  /\ Bounded(k, m)'
  /\ N(k, m)' + MsgsCount(inbox[q], {k}, m) + MsgsCount(batch[t], {k}, m) + Top(t, k, m)
       = N(k, m) + MsgsCount(inbox'[q], {k}, m) + MsgsCount(batch'[t], {k}, m)
                 + StackCount(r, {k}, m)
  /\ N(k, m) \in Nat /\ N(k, m)' \in Nat

\* A step of t that leaves the ports alone, and moves messages between inbox q, its batch and
\* its stack.
LEMMA MovingCount ==
  ASSUME TypeOK, TodoOK, TypeOK', NEW t \in Threads, NEW q \in Mailboxes, Within(t, q),
         NEW r \in Seq(Op), Push(t, r), UNCHANGED <<rx, tx>>,
         NEW k, NEW m, Bounded(k, m)
  PROVE  Moved(t, q, r, k, m)
<1>2. /\ PortsWith(k, m)' = PortsWith(k, m)
      /\ IsFiniteSet(Receivers({k}, m)') /\ IsFiniteSet(Senders({k}, m)')
  BY PortsStay DEF Bounded
<1>4. /\ Bounded(k, m)'
      /\ N(k, m)' + PortsWith(k, m) + MsgsCount(inbox[q], {k}, m)
                     + MsgsCount(batch[t], {k}, m) + Top(t, k, m)
              = N(k, m) + PortsWith(k, m)' + MsgsCount(inbox'[q], {k}, m)
                        + MsgsCount(batch'[t], {k}, m) + StackCount(r, {k}, m)
      /\ N(k, m) \in Nat /\ N(k, m)' \in Nat /\ PortsWith(k, m) \in Nat /\ Top(t, k, m) \in Nat
  <2>1. Balanced(t, q, r, k, m)
    BY <1>2, Balance
  <2> QED
    BY <2>1, Zenon DEF Balanced
<1>6. /\ MsgsCount(inbox[q], {k}, m) \in Nat /\ MsgsCount(batch[t], {k}, m) \in Nat
      /\ MsgsCount(inbox'[q], {k}, m) \in Nat /\ MsgsCount(batch'[t], {k}, m) \in Nat
      /\ Top(t, k, m) \in Nat /\ StackCount(r, {k}, m) \in Nat
  <2>1. /\ inbox[q] \in Seq(Msg) /\ batch[t] \in Seq(Msg)
        /\ inbox'[q] \in Seq(Msg) /\ batch'[t] \in Seq(Msg)
    BY DEF TypeOK, MailboxTypeOK, LoopTypeOK
  <2> QED
    BY <1>4, <2>1, MsgsFinite, StackFinite
<1> DEFINE a == MsgsCount(inbox[q], {k}, m)
           b == MsgsCount(batch[t], {k}, m)
           a1 == MsgsCount(inbox'[q], {k}, m)
           b1 == MsgsCount(batch'[t], {k}, m)
           p == PortsWith(k, m)
           n == N(k, m)
           n1 == N(k, m)'
           x == Top(t, k, m)
           y == StackCount(r, {k}, m)
<1>7. n1 + p + a + b + x = n + p + a1 + b1 + y
  BY <1>2, <1>4, Zenon
<1>8. /\ a \in Nat /\ b \in Nat /\ p \in Nat /\ n \in Nat /\ n1 \in Nat /\ x \in Nat /\ y \in Nat
      /\ a1 \in Nat /\ b1 \in Nat
  BY <1>4, <1>6, Zenon
<1> HIDE DEF a, b, a1, b1, p, n, n1, x, y
<1>9. n1 + a + b + x = n + a1 + b1 + y
  BY <1>7, <1>8
<1> QED
  BY <1>4, <1>9, Zenon DEF a, b, a1, b1, n, n1, x, y, Moved

----------------------------------------------------------------------------
(* The law of a mailbox: what is held on it, against its fields.           *)

Law(m) ==
  /\ \A k \in Kinds : Bounded(k, m)
  /\ refs[m] = N("rx", m) + N("tx", m) + N("unref", m)
  /\ (alive[m] = "live") <=> (refs[m] > 0)
  /\ N("rx", m) + N("close", m) = IF alive[m] # "unused" /\ ~closed[m] THEN 1 ELSE 0
  /\ N("tx", m) <= 1
  /\ alive[m] = "unused" => ~closed[m]
  /\ alive[m] = "freed" => closed[m]
Counts == \A m \in Mailboxes : Law(m)

\* The numbers of a mailbox are natural numbers.
LEMMA LawNumbers ==
  ASSUME NEW m, Law(m)
  PROVE  /\ N("rx", m) \in Nat /\ N("tx", m) \in Nat
         /\ N("close", m) \in Nat /\ N("unref", m) \in Nat
<1>1. \A k \in Kinds : N(k, m) \in Nat
  BY BoundedCounts DEF Law
<1> QED
  BY <1>1 DEF Kinds

\* Nothing changes hands.
LEMMA LawSame ==
  ASSUME NEW m, Law(m), alive'[m] = alive[m], refs'[m] = refs[m], closed'[m] = closed[m],
         \A k \in Kinds : Bounded(k, m)' /\ N(k, m)' = N(k, m)
  PROVE  Law(m)'
<1>1. /\ N("rx", m)' = N("rx", m) /\ N("tx", m)' = N("tx", m)
      /\ N("close", m)' = N("close", m) /\ N("unref", m)' = N("unref", m)
  BY DEF Kinds
<1> QED
  BY <1>1 DEF Law

\* A port, or a port in transit, gives up its sides a and b.
LEMMA LawDropped ==
  ASSUME NEW m, Law(m), alive'[m] = alive[m], refs'[m] = refs[m], closed'[m] = closed[m],
         NEW a, NEW b,
         \A k \in Kinds :
            /\ Bounded(k, m)' /\ N(k, m)' \in Nat
            /\ N(k, m)' + One({k}, "rx", a, m) + One({k}, "tx", b, m)
                 = N(k, m) + One({k}, "close", a, m) + One({k}, "unref", a, m)
                           + One({k}, "unref", b, m)
  PROVE  Law(m)'
<1> DEFINE x == IF a = m THEN 1 ELSE 0
           y == IF b = m THEN 1 ELSE 0
<1>1. /\ N("rx", m)' + x + 0 = N("rx", m) + 0 + 0 + 0
      /\ N("tx", m)' + 0 + y = N("tx", m) + 0 + 0 + 0
      /\ N("close", m)' + 0 + 0 = N("close", m) + x + 0 + 0
      /\ N("unref", m)' + 0 + 0 = N("unref", m) + 0 + x + y
  BY DEF Kinds, One
<1>2. /\ N("rx", m)' \in Nat /\ N("tx", m)' \in Nat
      /\ N("close", m)' \in Nat /\ N("unref", m)' \in Nat
  BY DEF Kinds
<1>3. x \in {0, 1} /\ y \in {0, 1}
  OBVIOUS
<1> HIDE DEF x, y
<1>4. /\ N("rx", m)' + N("tx", m)' + N("unref", m)' = N("rx", m) + N("tx", m) + N("unref", m)
      /\ N("rx", m)' + N("close", m)' = N("rx", m) + N("close", m)
      /\ N("tx", m)' <= N("tx", m)
  BY <1>1, <1>2, <1>3, LawNumbers
<1>5. N("tx", m)' <= 1
  BY <1>2, <1>4, LawNumbers DEF Law
<1> QED
  BY <1>4, <1>5 DEF Law

\* The receive side of a is closed.
LEMMA LawClosed ==
  ASSUME TypeOK, NEW m \in Mailboxes, Law(m), NEW a,
         alive'[m] = alive[m], refs'[m] = refs[m],
         closed'[m] = IF a = m THEN TRUE ELSE closed[m],
         \A k \in Kinds : /\ Bounded(k, m)' /\ N(k, m)' \in Nat
                          /\ N(k, m)' + One({k}, "close", a, m) = N(k, m)
  PROVE  Law(m)'
<1> DEFINE x == IF a = m THEN 1 ELSE 0
<1>1. /\ N("rx", m)' + 0 = N("rx", m) /\ N("tx", m)' + 0 = N("tx", m)
      /\ N("close", m)' + x = N("close", m) /\ N("unref", m)' + 0 = N("unref", m)
  BY DEF Kinds, One
<1>2. /\ N("rx", m)' \in Nat /\ N("tx", m)' \in Nat
      /\ N("close", m)' \in Nat /\ N("unref", m)' \in Nat
  BY DEF Kinds
<1>3. closed'[m] = IF a = m THEN TRUE ELSE closed[m]
  OBVIOUS
<1>4. CASE a = m
  <2>1. N("rx", m)' + N("close", m)' = 0 /\ alive[m] # "unused"
    BY <1>1, <1>2, <1>4, LawNumbers DEF Law
  <2>2. N("rx", m)' = N("rx", m) /\ N("tx", m)' = N("tx", m) /\ N("unref", m)' = N("unref", m)
    BY <1>1, <1>2, LawNumbers
  <2>3. closed'[m] /\ alive'[m] = alive[m] /\ refs'[m] = refs[m]
    BY <1>3, <1>4
  <2>4. \A k \in Kinds : Bounded(k, m)'
    OBVIOUS
  <2>5. /\ refs'[m] = N("rx", m)' + N("tx", m)' + N("unref", m)'
        /\ (alive'[m] = "live") <=> (refs'[m] > 0)
        /\ N("tx", m)' <= 1 /\ alive'[m] # "unused"
    BY <2>1, <2>2, <2>3 DEF Law
  <2> QED
    BY <2>1, <2>3, <2>4, <2>5 DEF Law
<1>5. CASE a # m
  <2>1. \A k \in Kinds : Bounded(k, m)' /\ N(k, m)' = N(k, m)
    BY <1>1, <1>2, <1>5 DEF Kinds
  <2> QED
    BY <1>3, <1>5, <2>1, LawSame
<1> QED
  BY <1>4, <1>5

\* A reference on a is dropped; the last one goes when the receive side is closed.
LEMMA LawUnref ==
  ASSUME TypeOK, NEW m \in Mailboxes, Law(m), NEW a, closed'[m] = closed[m],
         refs'[m] = IF a = m THEN refs[m] - 1 ELSE refs[m],
         alive'[m] = IF a = m /\ refs[m] = 1 THEN "freed" ELSE alive[m],
         refs[a] = 1 => closed[a],
         \A k \in Kinds : /\ Bounded(k, m)' /\ N(k, m)' \in Nat
                          /\ N(k, m)' + One({k}, "unref", a, m) = N(k, m)
  PROVE  Law(m)'
<1> DEFINE x == IF a = m THEN 1 ELSE 0
<1>1. /\ N("rx", m)' + 0 = N("rx", m) /\ N("tx", m)' + 0 = N("tx", m)
      /\ N("close", m)' + 0 = N("close", m) /\ N("unref", m)' + x = N("unref", m)
  BY DEF Kinds, One
<1>2. /\ N("rx", m)' \in Nat /\ N("tx", m)' \in Nat
      /\ N("close", m)' \in Nat /\ N("unref", m)' \in Nat
  BY DEF Kinds
<1>3. /\ refs'[m] = IF a = m THEN refs[m] - 1 ELSE refs[m]
      /\ alive'[m] = IF a = m /\ refs[m] = 1 THEN "freed" ELSE alive[m]
  OBVIOUS
<1>4. CASE a = m
  <2>1. refs[m] = N("rx", m) + N("tx", m) + N("unref", m) /\ N("unref", m) \in Nat \ {0}
    <3>1. N("unref", m)' + 1 = N("unref", m)
      BY <1>1, <1>4
    <3> QED
      BY <1>2, <3>1 DEF Law
  <2>2. refs[m] \in Nat \ {0} /\ alive[m] = "live"
    BY <2>1, LawNumbers DEF Law
  <2>3. refs'[m] = N("rx", m)' + N("tx", m)' + N("unref", m)'
    BY <1>1, <1>2, <1>3, <1>4, <2>1
  <2>4. CASE refs[m] = 1
    <3>1. closed'[m] /\ closed[m] /\ alive'[m] = "freed" /\ refs'[m] = 0
      BY <1>3, <1>4, <2>4
    <3>2. N("rx", m)' + N("close", m)' = 0 /\ N("tx", m)' <= 1
      BY <1>1, <1>2, <2>2, <3>1 DEF Law
    <3>3. N("rx", m)' + N("close", m)' = IF alive'[m] # "unused" /\ ~closed'[m] THEN 1 ELSE 0
      BY <3>1, <3>2
    <3>4. ((alive'[m] = "live") <=> (refs'[m] > 0)) /\ alive'[m] # "unused"
      BY <3>1
    <3>5. \A k \in Kinds : Bounded(k, m)'
      OBVIOUS
    <3> QED
      BY <2>3, <3>1, <3>2, <3>3, <3>4, <3>5, Zenon DEF Law
  <2>5. CASE refs[m] # 1
    <3>1. alive'[m] = "live" /\ refs'[m] > 0
      BY <1>3, <1>4, <2>2, <2>5
    <3>2. N("rx", m)' + N("close", m)' = N("rx", m) + N("close", m)
      BY <1>1, <1>2, LawNumbers
    <3>3. N("tx", m)' <= 1
      BY <1>1, <1>2, LawNumbers DEF Law
    <3>4. N("rx", m)' + N("close", m)' = IF ~closed'[m] THEN 1 ELSE 0
      BY <2>2, <3>2 DEF Law
    <3>5. \A k \in Kinds : Bounded(k, m)'
      OBVIOUS
    <3>6. N("rx", m)' + N("close", m)' = IF alive'[m] # "unused" /\ ~closed'[m] THEN 1 ELSE 0
      BY <3>1, <3>4
    <3>7. ((alive'[m] = "live") <=> (refs'[m] > 0)) /\ alive'[m] # "unused" /\ alive'[m] # "freed"
      BY <3>1
    <3> QED
      BY <2>3, <3>3, <3>5, <3>6, <3>7 DEF Law
  <2> QED
    BY <2>4, <2>5
<1>5. CASE a # m
  <2>1. \A k \in Kinds : Bounded(k, m)' /\ N(k, m)' = N(k, m)
    BY <1>1, <1>2, <1>5 DEF Kinds
  <2> QED
    BY <1>3, <1>5, <2>1, LawSame
<1> QED
  BY <1>4, <1>5

\* A mailbox is allocated, with one receiver, one sender and n references in all.
LEMMA LawNew ==
  ASSUME TypeOK, NEW m \in Mailboxes, Law(m), alive[m] = "unused", NEW n, n = 2 \/ n = 3,
         closed'[m] = closed[m], refs'[m] = n, alive'[m] = "live",
         \A k \in Kinds : Bounded(k, m)',
         N("rx", m)' = N("rx", m) + 1, N("tx", m)' = N("tx", m) + 1,
         N("close", m)' = N("close", m), N("unref", m)' = N("unref", m) + (n - 2)
  PROVE  Law(m)'
<1>1. ~closed[m] /\ refs[m] <= 0
  BY DEF Law, TypeOK, MailboxTypeOK
<1>2. N("rx", m) = 0 /\ N("tx", m) = 0 /\ N("unref", m) = 0 /\ N("close", m) = 0
  <2> DEFINE a == N("rx", m)
             b == N("tx", m)
             c == N("close", m)
             d == N("unref", m)
  <2>1. a \in Nat /\ b \in Nat /\ c \in Nat /\ d \in Nat
    BY LawNumbers
  <2>2. a + b + d <= 0 /\ a + c = 0
    BY <1>1 DEF Law
  <2> HIDE DEF a, b, c, d
  <2>3. a = 0 /\ b = 0 /\ c = 0 /\ d = 0
    BY <2>1, <2>2
  <2> QED
    BY <2>3 DEF a, b, c, d
<1>3. N("rx", m)' = 1 /\ N("tx", m)' = 1 /\ N("close", m)' = 0 /\ N("unref", m)' = n - 2
  BY <1>2
<1> QED
  BY <1>1, <1>3 DEF Law

----------------------------------------------------------------------------
(* What there is when something is held.                                   *)

\* A finite set with an element has one at least,
LEMMA CardOne ==
  ASSUME NEW S, IsFiniteSet(S), NEW x \in S
  PROVE  Cardinality(S) \in Nat /\ Cardinality(S) >= 1
<1>1. Cardinality(S) \in Nat /\ (Cardinality(S) = 0 <=> S = {})
  BY FS_CardinalityType, FS_EmptySet
<1> QED
  BY <1>1

\* and with another one two.
LEMMA CardTwo ==
  ASSUME NEW S, IsFiniteSet(S), NEW x \in S, NEW y \in S, x # y
  PROVE  Cardinality(S) \in Nat /\ Cardinality(S) >= 2
<1>1. S = (S \ {x}) \cup {x} /\ (S \ {x}) \cap {x} = {} /\ S \ {x} \subseteq S
  OBVIOUS
<1>2. IsFiniteSet(S \ {x}) /\ IsFiniteSet({x}) /\ Cardinality({x}) = 1
  BY <1>1, FS_Subset, FS_Singleton
<1> DEFINE R == S \ {x}
<1>3. y \in R
  OBVIOUS
<1> HIDE DEF R
<1>4. Cardinality(R) \in Nat /\ Cardinality(R) >= 1
  BY <1>2, <1>3, CardOne DEF R
<1>5. Cardinality(R \cup {x}) = Cardinality(R) + Cardinality({x})
  BY <1>1, <1>2, DisjointCount DEF R
<1> QED
  BY <1>1, <1>2, <1>4, <1>5 DEF R

\* Each group of holders is at most the whole.
LEMMA Parts ==
  ASSUME NEW k, NEW m, Bounded(k, m)
  PROVE  /\ Cardinality(Receivers({k}, m)) <= N(k, m) /\ Cardinality(Senders({k}, m)) <= N(k, m)
         /\ Cardinality(InStacks({k}, m)) <= N(k, m)
         /\ Cardinality(Receivers({k}, m)) \in Nat /\ Cardinality(Senders({k}, m)) \in Nat
         /\ Cardinality(InStacks({k}, m)) \in Nat /\ N(k, m) \in Nat
<1>1. /\ Cardinality(Receivers({k}, m)) \in Nat /\ Cardinality(Senders({k}, m)) \in Nat
      /\ Cardinality(InInboxes({k}, m)) \in Nat /\ Cardinality(InBatches({k}, m)) \in Nat
      /\ Cardinality(InStacks({k}, m)) \in Nat
  BY FS_CardinalityType DEF Bounded
<1> QED
  BY <1>1 DEF N, Held

\* Ports that receive on m, and that send to it.
LEMMA PortsHold ==
  ASSUME NEW m, Law(m), NEW p \in Ports
  PROVE  /\ rx[p] = m => N("rx", m) \in Nat /\ N("rx", m) >= 1
         /\ tx[p] = m => N("tx", m) \in Nat /\ N("tx", m) >= 1
         /\ \A q \in Ports : q # p /\ rx[p] = m /\ rx[q] = m
                               => N("rx", m) \in Nat /\ N("rx", m) >= 2
         /\ \A q \in Ports : q # p /\ tx[p] = m /\ tx[q] = m
                               => N("tx", m) \in Nat /\ N("tx", m) >= 2
<1> DEFINE R == Receivers({"rx"}, m)
           S == Senders({"tx"}, m)
<1>1. Bounded("rx", m) /\ Bounded("tx", m)
  BY DEF Law, Kinds
<1>2. IsFiniteSet(R) /\ IsFiniteSet(S)
  BY <1>1 DEF Bounded
<1>3. \A q \in Ports : (rx[q] = m => q \in R) /\ (tx[q] = m => q \in S)
  BY DEF Receivers, Senders
<1>4. /\ Cardinality(R) <= N("rx", m) /\ N("rx", m) \in Nat
      /\ Cardinality(S) <= N("tx", m) /\ N("tx", m) \in Nat
  BY <1>1, Parts
<1> HIDE DEF R, S
<1>5. \A x \in R : Cardinality(R) \in Nat /\ Cardinality(R) >= 1
  BY <1>2, CardOne
<1>6. \A x \in S : Cardinality(S) \in Nat /\ Cardinality(S) >= 1
  BY <1>2, CardOne
<1>7. \A x, y \in R : x # y => Cardinality(R) \in Nat /\ Cardinality(R) >= 2
  BY <1>2, CardTwo
<1>8. \A x, y \in S : x # y => Cardinality(S) \in Nat /\ Cardinality(S) >= 2
  BY <1>2, CardTwo
<1>9. ASSUME rx[p] = m
      PROVE  N("rx", m) \in Nat /\ N("rx", m) >= 1
  <2>1. Cardinality(R) \in Nat /\ Cardinality(R) >= 1
    BY <1>3, <1>5, <1>9
  <2> QED
    BY <1>4, <2>1
<1>10. ASSUME tx[p] = m
       PROVE  N("tx", m) \in Nat /\ N("tx", m) >= 1
  <2>1. Cardinality(S) \in Nat /\ Cardinality(S) >= 1
    BY <1>3, <1>6, <1>10
  <2> QED
    BY <1>4, <2>1
<1>11. ASSUME NEW q \in Ports, q # p, rx[p] = m, rx[q] = m
       PROVE  N("rx", m) \in Nat /\ N("rx", m) >= 2
  <2>1. Cardinality(R) \in Nat /\ Cardinality(R) >= 2
    BY <1>3, <1>7, <1>11
  <2> QED
    BY <1>4, <2>1
<1>12. ASSUME NEW q \in Ports, q # p, tx[p] = m, tx[q] = m
       PROVE  N("tx", m) \in Nat /\ N("tx", m) >= 2
  <2>1. Cardinality(S) \in Nat /\ Cardinality(S) >= 2
    BY <1>3, <1>8, <1>12
  <2> QED
    BY <1>4, <2>1
<1> QED
  BY <1>9, <1>10, <1>11, <1>12

\* The operation at i on the stack of t closes the mailbox m, or drops a reference on it.
OpAt(t, i, k, m) == i \in DOMAIN todo[t] /\ todo[t][i].op = k /\ todo[t][i].mb = m

\* An operation on m is counted, and another one too.
LEMMA OpsHold ==
  ASSUME NEW m, Law(m), NEW k \in {"close", "unref"}, NEW t \in Threads, NEW i, OpAt(t, i, k, m)
  PROVE  /\ N(k, m) \in Nat /\ N(k, m) >= 1
         /\ \A u \in Threads : \A j : OpAt(u, j, k, m) /\ (u # t \/ j # i) => N(k, m) >= 2
<1> DEFINE S == InStacks({k}, m)
<1>1. Bounded(k, m)
  BY DEF Law, Kinds
<1>2. IsFiniteSet(S)
  BY <1>1 DEF Bounded
<1>3. \A u \in Threads : \A j : OpAt(u, j, k, m) => <<u, <<j, k>>>> \in S
  <2> SUFFICES ASSUME NEW u \in Threads, NEW j, OpAt(u, j, k, m)
               PROVE  <<u, <<j, k>>>> \in S
    OBVIOUS
  <2>1. k \in OfOp(todo[u][j], {k}, m)
    BY DEF OfOp, OpAt
  <2>2. <<j, k>> \in OfStack(todo[u], {k}, m)
    BY <2>1 DEF OfStack, OpAt
  <2> QED
    BY <2>2 DEF InStacks
<1>4. Cardinality(S) <= N(k, m) /\ N(k, m) \in Nat
  BY <1>1, Parts
<1> HIDE DEF S
<1>5. \A x \in S : Cardinality(S) \in Nat /\ Cardinality(S) >= 1
  BY <1>2, CardOne
<1>6. \A x, y \in S : x # y => Cardinality(S) \in Nat /\ Cardinality(S) >= 2
  BY <1>2, CardTwo
<1>7. N(k, m) >= 1
  <2>1. <<t, <<i, k>>>> \in S
    BY <1>3
  <2>2. Cardinality(S) \in Nat /\ Cardinality(S) >= 1
    BY <1>5, <2>1
  <2> QED
    BY <1>4, <2>2
<1>8. ASSUME NEW u \in Threads, NEW j, OpAt(u, j, k, m), u # t \/ j # i
      PROVE  N(k, m) >= 2
  <2>1. <<u, <<j, k>>>> \in S /\ <<t, <<i, k>>>> \in S /\ <<u, <<j, k>>>> # <<t, <<i, k>>>>
    BY <1>3, <1>8
  <2> QED
    BY <1>4, <1>6, <2>1
<1> QED
  BY <1>4, <1>7, <1>8

\* A mailbox is closed by an operation on a stack.
LEMMA CloserExists ==
  ASSUME TypeOK, NEW m, Law(m), N("close", m) >= 1
  PROVE  \E t \in Threads : \E i : OpAt(t, i, "close", m)
<1> DEFINE K == {"close"}
<1>1. \A s \in Seq(Msg) : OfMsgs(s, K, m) = {}
  BY OtherKinds
<1>2. Receivers(K, m) = {} /\ Senders(K, m) = {}
  BY DEF Receivers, Senders
<1>3. InInboxes(K, m) = {} /\ InBatches(K, m) = {}
  <2>1. \A q \in Mailboxes : inbox[q] \in Seq(Msg)
    BY DEF TypeOK, MailboxTypeOK
  <2>2. \A t \in Threads : batch[t] \in Seq(Msg)
    BY DEF TypeOK, LoopTypeOK
  <2> HIDE DEF K
  <2> QED
    BY <1>1, <2>1, <2>2 DEF InInboxes, InBatches
<1>4. Cardinality({}) = 0
  BY FS_EmptySet
<1>5. InStacks(K, m) # {}
  <2>1. N("close", m) = Cardinality(Receivers(K, m)) + Cardinality(Senders(K, m))
              + Cardinality(InInboxes(K, m)) + Cardinality(InBatches(K, m))
              + Cardinality(InStacks(K, m))
    BY DEF N, Held
  <2> HIDE DEF K
  <2> QED
    BY <1>2, <1>3, <1>4, <2>1
<1>6. PICK t \in Threads : \E q \in OfStack(todo[t], K, m) : TRUE
  <2> HIDE DEF K
  <2> QED
    BY <1>5 DEF InStacks
<1>7. PICK i \in DOMAIN todo[t] : \E c \in OfOp(todo[t][i], K, m) : TRUE
  <2> HIDE DEF K
  <2> QED
    BY <1>6 DEF OfStack
<1> DEFINE o == todo[t][i]
<1>8. o \in Op
  BY <1>7 DEF TypeOK, TodoTypeOK
<1>9. PICK c \in OfOp(o, K, m) : TRUE
  BY <1>7
<1> HIDE DEF o
<1>10. CASE o.op \in {"close", "unref"}
  <2>1. c = "close" /\ c = o.op /\ o.mb = m
    BY <1>9, <1>10 DEF OfOp
  <2> QED
    BY <1>7, <2>1 DEF OpAt, o
<1>11. CASE o.op \notin {"close", "unref"}
  <2>1. c \in OfMsgs(MsgsOf(o), K, m)
    BY <1>9, <1>11 DEF OfOp
  <2>2. MsgsOf(o) \in Seq(Msg)
    <3>1. CASE o.op = "post"
      <4>1. o.msg \in Msg
        BY <1>8, <3>1, OpFields
      <4> QED
        BY <3>1, <4>1 DEF MsgsOf
    <3>2. CASE o.op = "free"
      <4>1. o.msgs \in Seq(Msg)
        BY <1>8, <3>2, OpFields
      <4> QED
        BY <3>2, <4>1 DEF MsgsOf
    <3>3. CASE o.op \notin {"post", "free"}
      BY <3>3 DEF MsgsOf
    <3> QED
      BY <3>1, <3>2, <3>3
  <2> QED
    BY <1>1, <2>1, <2>2
<1> QED
  BY <1>10, <1>11

\* The same of the sides that ports have.
LEMMA SideOneHere ==
  ASSUME NEW p, NEW k, NEW m
  PROVE  SideCount({p}, k, m, rx, tx) = One({k}, "rx", rx[p], m) + One({k}, "tx", tx[p], m)
BY SideOne, ZenonT(60)

----------------------------------------------------------------------------
(* Sides of ports.                                                         *)

\* A port that is not live has no sides; a started one owns its receive side.
SideOK(p) ==
  /\ ~Live(p) => rx[p] = None /\ tx[p] = None
  /\ state[p] = "started" => owner[rx[p]] = p
Sides == \A p \in Ports : SideOK(p)

\* Two new mailboxes with n references each, and a port on each side.
Entangled(m0, m1, a, b, n) ==
  /\ a # b /\ m0 # m1
  /\ rx'[a] = m0 /\ tx'[a] = m1 /\ rx'[b] = m1 /\ tx'[b] = m0
  /\ state'[a] = "open" /\ state'[b] = "open"
  /\ \A p \in Ports : p \notin {a, b} => rx'[p] = rx[p] /\ tx'[p] = tx[p]
  /\ alive' = [alive EXCEPT ![m0] = "live", ![m1] = "live"]
  /\ refs' = [refs EXCEPT ![m0] = n, ![m1] = n]

\* The sides of the two ports of a new channel.
LEMMA EntangleSides ==
  ASSUME TypeOK, NEW m0 \in Mailboxes, NEW m1 \in Mailboxes,
         NEW a \in UnusedPorts, NEW b \in UnusedPorts,
         NEW ta \in Threads, NEW tb \in Threads, NEW n \in Nat,
         Entangle(m0, m1, a, b, ta, tb, n)
  PROVE  Entangled(m0, m1, a, b, n)
<1> DEFINE h == [p \in {a, b} |-> IF p = a THEN ta ELSE tb]
           r == [p \in {a, b} |-> IF p = a THEN m0 ELSE m1]
           x == [p \in {a, b} |-> IF p = a THEN m1 ELSE m0]
<1>1. NewPorts({a, b}, h, r, x) /\ a # b /\ m0 # m1
  BY DEF Entangle
<1>2. /\ h \in [{a, b} -> Threads] /\ r \in [{a, b} -> Mailboxes]
      /\ x \in [{a, b} -> Mailboxes]
  OBVIOUS
<1>3. r[a] = m0 /\ r[b] = m1 /\ x[a] = m1 /\ x[b] = m0
  BY <1>1
<1>4. /\ alive' = [alive EXCEPT ![m0] = "live", ![m1] = "live"]
      /\ refs' = [refs EXCEPT ![m0] = n, ![m1] = n]
      /\ UNCHANGED wake
  BY Zenon DEF Entangle
<1> HIDE DEF h, r, x
<1>5. /\ PortsAdded({a, b})
      /\ \A p \in {a, b} : rx'[p] = r[p] /\ tx'[p] = x[p]
  BY <1>1, <1>2, <1>4, NewPortsFacts
<1> QED
  BY <1>1, <1>3, <1>4, <1>5 DEF PortsAdded, Entangled

\* The operations r drop what new mailboxes have more than two references.
Reserved(r, m0, m1, n, m) ==
  \A k \in Kinds : StackCount(r, {k}, m)
                     = IF (m = m0 \/ m = m1) /\ k = "unref" THEN n - 2 ELSE 0

\* Two new mailboxes with a port on each side.
LEMMA EntangleLaw ==
  ASSUME TypeOK, TodoOK, TypeOK', Sides, NEW t \in Threads, NEW r \in Seq(Op), Push(t, r),
         todo[t] = <<>>, UNCHANGED batch,
         NEW m0 \in UnusedMailboxes, NEW m1 \in UnusedMailboxes,
         NEW a \in UnusedPorts, NEW b \in UnusedPorts, NEW ta \in Threads, NEW tb \in Threads,
         NEW n, n = 2 \/ n = 3, Entangle(m0, m1, a, b, ta, tb, n), NEW m \in Mailboxes, Law(m),
         Reserved(r, m0, m1, n, m)
  PROVE  Law(m)'
<1>1. m0 \in Mailboxes /\ m1 \in Mailboxes /\ n \in Nat
  BY DEF UnusedMailboxes
<1>2. /\ a # b /\ m0 # m1
      /\ rx'[a] = m0 /\ tx'[a] = m1 /\ rx'[b] = m1 /\ tx'[b] = m0
      /\ \A p \in Ports : p \notin {a, b} => rx'[p] = rx[p] /\ tx'[p] = tx[p]
      /\ alive' = [alive EXCEPT ![m0] = "live", ![m1] = "live"]
      /\ refs' = [refs EXCEPT ![m0] = n, ![m1] = n]
  <2>1. Entangled(m0, m1, a, b, n)
    BY <1>1, EntangleSides
  <2> QED
    BY <2>1, Zenon DEF Entangled
<1>3. UNCHANGED closed /\ UNCHANGED inbox
  BY Zenon DEF Entangle
<1>4. {a, b} \in SUBSET Ports /\ IsFiniteSet({a, b})
  <2>1. {a, b} = {a} \cup {b}
    OBVIOUS
  <2>2. IsFiniteSet({a} \cup {b})
    BY FS_Singleton, FS_AddElement
  <2> QED
    BY <2>1, <2>2 DEF UnusedPorts
<1>5. \A p \in {a, b} : rx[p] = None /\ tx[p] = None
  BY DEF UnusedPorts, Sides, SideOK, Live
<1>6. ASSUME NEW k \in Kinds
      PROVE  /\ Bounded(k, m)'
             /\ N(k, m)' = N(k, m) + (IF m = m0 \/ m = m1 THEN IF k = "rx" \/ k = "tx" THEN 1
                                                     ELSE IF k = "unref" THEN n - 2 ELSE 0
                                                ELSE 0)
  <2>1. Bounded(k, m)
    BY DEF Law
  <2>2. /\ IsFiniteSet(Receivers({k}, m)') /\ IsFiniteSet(Senders({k}, m)')
        /\ PortsWith(k, m)' = PortsWith(k, m) + SideCount({a, b}, k, m, rx', tx')
    <3> DEFINE S == {a, b}
    <3>1. /\ S \in SUBSET Ports /\ IsFiniteSet(S)
          /\ \A p \in S : rx[p] = None /\ tx[p] = None
          /\ \A p \in Ports : p \notin S => rx'[p] = rx[p] /\ tx'[p] = tx[p]
      BY <1>2, <1>4, <1>5
    <3> HIDE DEF S
    <3> QED
      BY <2>1, <3>1, PortsEnter DEF S
  <2>4. SideCount({a, b}, k, m, rx', tx')
           = IF (m = m0 \/ m = m1) /\ (k = "rx" \/ k = "tx") THEN 1 ELSE 0
    <3> DEFINE A == {p \in {a, b} : k = "rx" /\ rx'[p] = m}
               B == {p \in {a, b} : k = "tx" /\ tx'[p] = m}
    <3>1. SideCount({a, b}, k, m, rx', tx') = Cardinality(A) + Cardinality(B)
      BY DEF SideCount
    <3>2. A = IF k # "rx" \/ ~(m = m0 \/ m = m1) THEN {} ELSE IF m = m0 THEN {a} ELSE {b}
      BY <1>2
    <3>3. B = IF k # "tx" \/ ~(m = m0 \/ m = m1) THEN {} ELSE IF m = m0 THEN {b} ELSE {a}
      BY <1>2
    <3>4. Cardinality({}) = 0 /\ Cardinality({a}) = 1 /\ Cardinality({b}) = 1
      BY FS_EmptySet, FS_Singleton
    <3> HIDE DEF A, B
    <3>5. Cardinality(A) = IF k # "rx" \/ ~(m = m0 \/ m = m1) THEN 0 ELSE 1
      BY <3>2, <3>4
    <3>6. Cardinality(B) = IF k # "tx" \/ ~(m = m0 \/ m = m1) THEN 0 ELSE 1
      BY <3>3, <3>4
    <3> QED
      BY <3>1, <3>5, <3>6
  <2>5. Within(t, m) /\ inbox'[m] = inbox[m] /\ batch'[t] = batch[t]
    BY <1>3 DEF Within
  <2>6. /\ Bounded(k, m)'
        /\ N(k, m)' + PortsWith(k, m) + MsgsCount(inbox[m], {k}, m)
                     + MsgsCount(batch[t], {k}, m) + Top(t, k, m)
              = N(k, m) + PortsWith(k, m)' + MsgsCount(inbox'[m], {k}, m)
                        + MsgsCount(batch'[t], {k}, m) + StackCount(r, {k}, m)
        /\ N(k, m) \in Nat /\ N(k, m)' \in Nat /\ PortsWith(k, m) \in Nat
    <3>1. Balanced(t, m, r, k, m)
      BY <2>1, <2>2, <2>5, Balance
    <3> QED
      BY <3>1, Zenon DEF Balanced
  <2>7. MsgsCount(inbox[m], {k}, m) \in Nat /\ MsgsCount(batch[t], {k}, m) \in Nat
    <3>1. inbox[m] \in Seq(Msg) /\ batch[t] \in Seq(Msg)
      BY DEF TypeOK, MailboxTypeOK, LoopTypeOK
    <3> QED
      BY <3>1, MsgsFinite
  <2>8. Top(t, k, m) = 0
    BY TopFacts
  <2>12. StackCount(r, {k}, m) = IF (m = m0 \/ m = m1) /\ k = "unref" THEN n - 2 ELSE 0
    BY DEF Reserved
  <2> DEFINE g == N(k, m)
             g1 == N(k, m)'
             p == PortsWith(k, m)
             i == MsgsCount(inbox[m], {k}, m)
             j == MsgsCount(batch[t], {k}, m)
             c == IF (m = m0 \/ m = m1) /\ (k = "rx" \/ k = "tx") THEN 1 ELSE 0
             d == IF (m = m0 \/ m = m1) /\ k = "unref" THEN n - 2 ELSE 0
  <2>9. /\ g1 + p + i + j + 0 = g + (p + c) + i + j + d
        /\ g \in Nat /\ g1 \in Nat /\ p \in Nat /\ i \in Nat /\ j \in Nat
    BY <2>2, <2>4, <2>5, <2>6, <2>7, <2>8, <2>12, Zenon
  <2>10. c \in Nat /\ d \in Nat
    OBVIOUS
  <2> HIDE DEF g, g1, p, i, j, c, d
  <2>11. g1 = g + c + d
    BY <2>9, <2>10
  <2> QED
    BY <2>6, <2>11 DEF g, g1, c, d
<1>7. /\ m0 # m1 /\ closed'[m] = closed[m]
      /\ alive'[m] = IF m = m0 \/ m = m1 THEN "live" ELSE alive[m]
      /\ refs'[m] = IF m = m0 \/ m = m1 THEN n ELSE refs[m]
  BY <1>2, <1>3 DEF TypeOK, MailboxTypeOK
<1>8. CASE m = m0 \/ m = m1
  <2>1. /\ N("rx", m)' = N("rx", m) + 1 /\ N("tx", m)' = N("tx", m) + 1
        /\ N("close", m)' = N("close", m) + 0 /\ N("unref", m)' = N("unref", m) + (n - 2)
        /\ \A k \in Kinds : Bounded(k, m)'
    BY <1>6, <1>8 DEF Kinds
  <2>2. /\ alive[m] = "unused" /\ closed'[m] = closed[m]
        /\ alive'[m] = "live" /\ refs'[m] = n
    BY <1>7, <1>8 DEF UnusedMailboxes
  <2>3. N("close", m)' = N("close", m)
    BY <2>1, LawNumbers
  <2> QED
    BY <2>1, <2>2, <2>3, LawNew
<1>9. CASE ~(m = m0 \/ m = m1)
  <2>1. \A k \in Kinds : N(k, m) \in Nat
    BY LawNumbers DEF Kinds
  <2>2. \A k \in Kinds : Bounded(k, m)' /\ N(k, m)' = N(k, m)
    BY <1>6, <1>9, <2>1
  <2> QED
    BY <1>7, <1>9, <2>2, LawSame
<1> QED
  BY <1>8, <1>9

\* A port whose two references move to the stack.
LEMMA DetachLaw ==
  ASSUME TypeOK, TodoOK, TypeOK', PortOK, NEW t \in Threads, NEW r \in Seq(Op), Push(t, r),
         UNCHANGED batch, NEW p \in Ports, Live(p), Detach(p), NEW m \in Mailboxes, Law(m),
         \A k \in Kinds : StackCount(r, {k}, m)
            = One({k}, "close", rx[p], m) + One({k}, "unref", rx[p], m)
              + One({k}, "unref", tx[p], m) + Top(t, k, m)
  PROVE  Law(m)'
<1>1. /\ \A q \in Ports : IF q \in {p} THEN rx'[q] = None /\ tx'[q] = None
                                       ELSE rx'[q] = rx[q] /\ tx'[q] = tx[q]
      /\ UNCHANGED mailboxVars
  BY DEF Detach, TypeOK, PortTypeOK
<1>2. UNCHANGED <<alive, refs, closed, inbox>>
  BY <1>1 DEF mailboxVars
<1>3. ASSUME NEW k \in Kinds
      PROVE  /\ Bounded(k, m)' /\ N(k, m)' \in Nat
             /\ N(k, m)' + One({k}, "rx", rx[p], m) + One({k}, "tx", tx[p], m)
                 = N(k, m) + One({k}, "close", rx[p], m) + One({k}, "unref", rx[p], m)
                           + One({k}, "unref", tx[p], m)
  <2>1. Bounded(k, m)
    BY DEF Law
  <2>2. /\ IsFiniteSet(Receivers({k}, m)') /\ IsFiniteSet(Senders({k}, m)')
        /\ PortsWith(k, m)' + SideCount({p}, k, m, rx, tx) = PortsWith(k, m)
    <3> DEFINE S == {p}
    <3>1. /\ S \in SUBSET Ports
          /\ \A q \in Ports : IF q \in S THEN rx'[q] = None /\ tx'[q] = None
                                       ELSE rx'[q] = rx[q] /\ tx'[q] = tx[q]
      BY <1>1
    <3> HIDE DEF S
    <3> QED
      BY <2>1, <3>1, PortsLeave DEF S
  <2>3. SideCount({p}, k, m, rx, tx) = One({k}, "rx", rx[p], m) + One({k}, "tx", tx[p], m)
    BY SideOneHere
  <2>5. Within(t, m) /\ inbox'[m] = inbox[m] /\ batch'[t] = batch[t]
    BY <1>2 DEF Within
  <2>6. /\ Bounded(k, m)'
        /\ N(k, m)' + PortsWith(k, m) + MsgsCount(inbox[m], {k}, m)
                     + MsgsCount(batch[t], {k}, m) + Top(t, k, m)
              = N(k, m) + PortsWith(k, m)' + MsgsCount(inbox'[m], {k}, m)
                        + MsgsCount(batch'[t], {k}, m) + StackCount(r, {k}, m)
        /\ N(k, m) \in Nat /\ N(k, m)' \in Nat /\ PortsWith(k, m) \in Nat
        /\ PortsWith(k, m)' \in Nat /\ Top(t, k, m) \in Nat
    <3>1. Balanced(t, m, r, k, m)
      BY <2>1, <2>2, <2>5, Balance
    <3> QED
      BY <3>1, Zenon DEF Balanced
  <2>7. MsgsCount(inbox[m], {k}, m) \in Nat /\ MsgsCount(batch[t], {k}, m) \in Nat
    <3>1. inbox[m] \in Seq(Msg) /\ batch[t] \in Seq(Msg)
      BY DEF TypeOK, MailboxTypeOK, LoopTypeOK
    <3> QED
      BY <3>1, MsgsFinite
  <2>8. StackCount(r, {k}, m) = One({k}, "close", rx[p], m) + One({k}, "unref", rx[p], m)
              + One({k}, "unref", tx[p], m) + Top(t, k, m)
    OBVIOUS
  <2> DEFINE g == N(k, m)
             g1 == N(k, m)'
             w == PortsWith(k, m)
             w1 == PortsWith(k, m)'
             i == MsgsCount(inbox[m], {k}, m)
             j == MsgsCount(batch[t], {k}, m)
             a == One({k}, "rx", rx[p], m)
             b == One({k}, "tx", tx[p], m)
             c == One({k}, "close", rx[p], m)
             d == One({k}, "unref", rx[p], m)
             e == One({k}, "unref", tx[p], m)
             y == Top(t, k, m)
  <2>9. /\ g1 + w + i + j + y = g + w1 + i + j + (c + d + e + y)
        /\ w1 + (a + b) = w
        /\ g \in Nat /\ g1 \in Nat /\ w \in Nat /\ w1 \in Nat /\ i \in Nat /\ j \in Nat /\ y \in Nat
    BY <2>2, <2>3, <2>5, <2>6, <2>7, <2>8, Zenon
  <2>10. a \in {0, 1} /\ b \in {0, 1} /\ c \in {0, 1} /\ d \in {0, 1} /\ e \in {0, 1}
    BY OneType
  <2> HIDE DEF g, g1, w, w1, i, j, a, b, c, d, e, y
  <2>11. g1 + a + b = g + c + d + e
    BY <2>9, <2>10
  <2> QED
    BY <2>6, <2>11, Zenon DEF g, g1, a, b, c, d, e
<1> DEFINE a == rx[p]
           b == tx[p]
<1>4. /\ alive'[m] = alive[m] /\ refs'[m] = refs[m] /\ closed'[m] = closed[m]
      /\ \A k \in Kinds :
            /\ Bounded(k, m)' /\ N(k, m)' \in Nat
            /\ N(k, m)' + One({k}, "rx", a, m) + One({k}, "tx", b, m)
                 = N(k, m) + One({k}, "close", a, m) + One({k}, "unref", a, m)
                           + One({k}, "unref", b, m)
  BY <1>2, <1>3
<1> HIDE DEF a, b
<1> QED
  BY <1>4, LawDropped

\* The ports S lose their sides.
SidesGone(S) ==
  \A q \in Ports : IF q \in S THEN rx'[q] = None /\ tx'[q] = None
                              ELSE rx'[q] = rx[q] /\ tx'[q] = tx[q]

\* The ports S, in the order f, move into a message.
LEMMA NeuterLaw ==
  ASSUME TypeOK, TodoOK, TypeOK', NEW t \in Threads, NEW r \in Seq(Op), Push(t, r),
         todo[t] = <<>>, UNCHANGED <<alive, refs, closed, inbox, batch>>,
         NEW msg \in Msg, NEW S \in SUBSET Ports, NEW f, Carries(msg, f, S, rx, tx), SidesGone(S),
         NEW m \in Mailboxes, Law(m),
         \A k \in Kinds : StackCount(r, {k}, m) = MsgCount(msg, {k}, m)
  PROVE  Law(m)'
<1>3. ASSUME NEW k \in Kinds
      PROVE  Bounded(k, m)' /\ N(k, m)' = N(k, m)
  <2>1. Bounded(k, m)
    BY DEF Law
  <2>2. SideCount(S, k, m, rx, tx) = MsgCount(msg, {k}, m)
    BY SideList
  <2>3. /\ IsFiniteSet(Receivers({k}, m)') /\ IsFiniteSet(Senders({k}, m)')
        /\ PortsWith(k, m)' + SideCount(S, k, m, rx, tx) = PortsWith(k, m)
    BY <2>1, PortsLeave DEF SidesGone
  <2>5. Within(t, m) /\ inbox'[m] = inbox[m] /\ batch'[t] = batch[t]
    BY DEF Within
  <2>6. /\ Bounded(k, m)'
        /\ N(k, m)' + PortsWith(k, m) + MsgsCount(inbox[m], {k}, m)
                     + MsgsCount(batch[t], {k}, m) + Top(t, k, m)
              = N(k, m) + PortsWith(k, m)' + MsgsCount(inbox'[m], {k}, m)
                        + MsgsCount(batch'[t], {k}, m) + StackCount(r, {k}, m)
        /\ N(k, m) \in Nat /\ N(k, m)' \in Nat /\ PortsWith(k, m) \in Nat
        /\ PortsWith(k, m)' \in Nat /\ Top(t, k, m) \in Nat
    <3>1. Balanced(t, m, r, k, m)
      BY <2>1, <2>3, <2>5, Balance
    <3> QED
      BY <3>1, Zenon DEF Balanced
  <2>7. /\ MsgsCount(inbox[m], {k}, m) \in Nat /\ MsgsCount(batch[t], {k}, m) \in Nat
        /\ MsgCount(msg, {k}, m) \in Nat
    <3>1. inbox[m] \in Seq(Msg) /\ batch[t] \in Seq(Msg)
      BY DEF TypeOK, MailboxTypeOK, LoopTypeOK
    <3> QED
      BY <3>1, MsgsFinite, MsgFinite
  <2>8. Top(t, k, m) = 0
    BY TopFacts
  <2>12. StackCount(r, {k}, m) = MsgCount(msg, {k}, m)
    OBVIOUS
  <2> DEFINE g == N(k, m)
             g1 == N(k, m)'
             w == PortsWith(k, m)
             w1 == PortsWith(k, m)'
             i == MsgsCount(inbox[m], {k}, m)
             j == MsgsCount(batch[t], {k}, m)
             a == MsgCount(msg, {k}, m)
  <2>9. /\ g1 + w + i + j + 0 = g + w1 + i + j + a /\ w1 + a = w
        /\ g \in Nat /\ g1 \in Nat /\ w \in Nat /\ w1 \in Nat /\ i \in Nat /\ j \in Nat /\ a \in Nat
    BY <2>2, <2>3, <2>5, <2>6, <2>7, <2>8, <2>12, Zenon
  <2> HIDE DEF g, g1, w, w1, i, j, a
  <2>10. g1 = g
    BY <2>9
  <2> QED
    BY <2>6, <2>10 DEF g, g1
<1> QED
  BY <1>3, LawSame

\* The ports a message brings are created.
Adopted(t, x, f) ==
  /\ DOMAIN f = DOMAIN x.ports /\ \A i \in DOMAIN f : f[i] \in UnusedPorts
  /\ \A i, j \in DOMAIN f : f[i] = f[j] => i = j
  /\ \A i \in DOMAIN f : /\ rx'[f[i]] = x.ports[i].rx /\ tx'[f[i]] = x.ports[i].tx
                         /\ state'[f[i]] = "open" /\ handle'[f[i]] = "active" /\ home'[f[i]] = t
  /\ \A p \in Ports : (\A i \in DOMAIN f : f[i] # p) =>
        /\ rx'[p] = rx[p] /\ tx'[p] = tx[p] /\ state'[p] = state[p]
        /\ home'[p] = home[p] /\ handle'[p] = handle[p]
  /\ batch'[t] = <<Stripped(x)>> \o Tail(batch[t])
  /\ \A u \in Threads \ {t} : batch'[u] = batch[u]

\* The ports of a message that is delivered are adopted into new ports, one for each.
LEMMA AdoptSides ==
  ASSUME TypeOK, NEW t \in Threads, batch[t] # <<>>, Adopt(t, Head(batch[t]))
  PROVE  \E f : Adopted(t, Head(batch[t]), f)
<1> DEFINE x == Head(batch[t])
<1>1. x \in Msg /\ Tail(batch[t]) \in Seq(Msg)
  BY DEF TypeOK, LoopTypeOK
<1>2. x.ports \in Seq(PortRef) /\ Len(x.ports) \in Nat /\ DOMAIN x.ports = 1..Len(x.ports)
  BY <1>1 DEF Msg
<1> HIDE DEF x
<1>3. PICK f \in Fresh(Len(x.ports)) :
         LET at(p) == x.ports[CHOOSE i \in DOMAIN f : f[i] = p]
             S     == {f[i] : i \in DOMAIN f}
         IN /\ NewPorts(S, [p \in S |-> t], [p \in S |-> at(p).rx],
                        [p \in S |-> at(p).tx])
            /\ batch' = [batch EXCEPT ![t] = <<Stripped(x)>> \o Tail(@)]
            /\ UNCHANGED wake
  BY Zenon DEF Adopt, x
<1> DEFINE at(p) == x.ports[CHOOSE i \in DOMAIN f : f[i] = p]
           S == {f[i] : i \in DOMAIN f}
<1>4. /\ f \in [1..Len(x.ports) -> UnusedPorts]
      /\ DOMAIN f = 1..Len(x.ports) /\ DOMAIN f = DOMAIN x.ports
      /\ \A i \in 1..Len(x.ports) : f[i] \in UnusedPorts
  BY <1>2, <1>3 DEF Fresh
<1>5. \A i, j \in DOMAIN f : i < j => f[i] < f[j]
  <2> SUFFICES ASSUME NEW i \in DOMAIN f, NEW j \in DOMAIN f, i < j PROVE f[i] < f[j]
    OBVIOUS
  <2>1. f[i] < f[j] <=> \E k \in 1..(j - 1) : f[k] = f[i]
    BY <1>3, <1>4 DEF Fresh
  <2>2. i \in 1..(j - 1)
    BY <1>2, <1>4
  <2> QED
    BY <2>1, <2>2
<1>6. \A i, j \in DOMAIN f : f[i] = f[j] => i = j
  <2>1. \A i \in DOMAIN f : f[i] \in Nat
    BY <1>4, ChannelAssumption DEF UnusedPorts
  <2> QED
    BY <1>2, <1>4, <1>5, <2>1
<1>7. \A i \in DOMAIN f : at(f[i]) = x.ports[i]
  BY <1>6
<1>8. \A p \in S : at(p) \in PortRef
  BY <1>2, <1>4, <1>7
<1> DEFINE h == [p \in S |-> t]
           r == [p \in S |-> at(p).rx]
           y == [p \in S |-> at(p).tx]
<1>9. h \in [S -> Threads] /\ r \in [S -> Mailboxes] /\ y \in [S -> Mailboxes]
  BY <1>8 DEF PortRef
<1>10. S \in SUBSET UnusedPorts
  BY <1>4
<1>11. PortsAdded(S) /\ \A p \in S : home'[p] = h[p] /\ rx'[p] = r[p] /\ tx'[p] = y[p]
  <2>1. NewPorts(S, h, r, y) /\ UNCHANGED wake
    BY <1>3
  <2> HIDE DEF h, r, y, S
  <2> QED
    BY <2>1, <1>9, <1>10, NewPortsFacts
<1>12. \A i \in DOMAIN f : /\ x.ports[i].rx = rx'[f[i]] /\ x.ports[i].tx = tx'[f[i]]
                           /\ state'[f[i]] = "open" /\ handle'[f[i]] = "active" /\ home'[f[i]] = t
  <2> SUFFICES ASSUME NEW i \in DOMAIN f
               PROVE  /\ x.ports[i].rx = rx'[f[i]] /\ x.ports[i].tx = tx'[f[i]]
                      /\ state'[f[i]] = "open" /\ handle'[f[i]] = "active" /\ home'[f[i]] = t
    OBVIOUS
  <2>1. f[i] \in S
    OBVIOUS
  <2>2. h[f[i]] = t /\ r[f[i]] = x.ports[i].rx /\ y[f[i]] = x.ports[i].tx
    BY <1>7, <2>1
  <2> HIDE DEF h, r, y, S
  <2> QED
    BY <1>11, <2>1, <2>2 DEF PortsAdded
<1>13. \A p \in Ports : (\A i \in DOMAIN f : f[i] # p) =>
                                      /\ rx'[p] = rx[p] /\ tx'[p] = tx[p] /\ state'[p] = state[p]
                                      /\ home'[p] = home[p] /\ handle'[p] = handle[p]
  <2> SUFFICES ASSUME NEW p \in Ports, \A i \in DOMAIN f : f[i] # p
               PROVE  /\ rx'[p] = rx[p] /\ tx'[p] = tx[p] /\ state'[p] = state[p]
                      /\ home'[p] = home[p] /\ handle'[p] = handle[p]
    OBVIOUS
  <2>1. p \notin S
    OBVIOUS
  <2> HIDE DEF S
  <2> QED
    BY <1>11, <2>1 DEF PortsAdded
<1>14. batch' = [batch EXCEPT ![t] = <<Stripped(x)>> \o Tail(@)]
  BY <1>3, Zenon
<1>15. /\ batch'[t] = <<Stripped(x)>> \o Tail(batch[t])
       /\ \A u \in Threads \ {t} : batch'[u] = batch[u]
  BY <1>14 DEF TypeOK, LoopTypeOK
<1>16. Adopted(t, x, f)
  <2> HIDE DEF at, h, r, y, S
  <2> QED
    BY <1>4, <1>6, <1>12, <1>13, <1>15 DEF Adopted
<1> QED
  BY <1>16, Zenon DEF x

\* The ports in a list are finitely many.
LEMMA CarriedFinite ==
  ASSUME NEW msg \in Msg, NEW f, NEW S, NEW r, NEW x, Carries(msg, f, S, r, x)
  PROVE  IsFiniteSet(S)
<1>1. msg.ports \in Seq(PortRef)
  BY DEF Msg
<1>2. DOMAIN f = 1..Len(msg.ports) /\ Len(msg.ports) \in Nat
  BY <1>1 DEF Carries
<1>3. IsFiniteSet(1..Len(msg.ports))
  BY <1>2, FS_Interval
<1> DEFINE D == DOMAIN f
           g == [i \in D |-> f[i]]
<1>4. g \in Surjection(D, S)
  BY DEF Carries, Surjection
<1>5. IsFiniteSet(D)
  BY <1>2, <1>3
<1> HIDE DEF D, g
<1> QED
  BY <1>4, <1>5, FS_Surjection

\* The ports of the message at the head of a batch are wrapped in new ports.
LEMMA AdoptLaw ==
  ASSUME TypeOK, TodoOK, TypeOK', Sides, NEW t \in Threads, todo[t] = <<>>,
         UNCHANGED <<alive, refs, closed, inbox, todo>>,
         batch[t] # <<>>, NEW f, Adopted(t, Head(batch[t]), f), NEW m \in Mailboxes, Law(m)
  PROVE  Law(m)'
<1> DEFINE x == Head(batch[t])
           S == {p \in Ports : \E i \in DOMAIN f : f[i] = p}
<1>1. x \in Msg /\ Tail(batch[t]) \in Seq(Msg) /\ batch[t] \in Seq(Msg)
  BY DEF TypeOK, LoopTypeOK
<1>2. Carries(x, f, S, rx', tx')
  BY DEF Adopted, Carries, UnusedPorts
<1>3. S \in SUBSET Ports /\ \A p \in S : rx[p] = None /\ tx[p] = None
  <2>1. \A p \in S : state[p] = "unused"
    BY DEF Adopted, UnusedPorts
  <2>2. \A p \in S : p \in Ports /\ ~Live(p)
    BY <2>1 DEF Live
  <2> HIDE DEF S
  <2> QED
    BY <2>2 DEF Sides, SideOK
<1>4. \A p \in Ports : p \notin S => rx'[p] = rx[p] /\ tx'[p] = tx[p]
  BY DEF Adopted
<1>5. batch'[t] = <<Stripped(x)>> \o Tail(batch[t])
  BY DEF Adopted
<1>6. /\ Within(t, m) /\ inbox'[m] = inbox[m] /\ inbox[m] \in Seq(Msg)
      /\ alive'[m] = alive[m] /\ refs'[m] = refs[m] /\ closed'[m] = closed[m]
  BY DEF Within, Adopted, TypeOK, MailboxTypeOK
<1>7. Push(t, <<>>) /\ <<>> \in Seq(Op)
  BY Untouched
<1>8. Stripped(x) \in Msg /\ Stripped(x).ports = <<>>
  <2> HIDE DEF x
  <2>1. Stripped(x) \in Msg
    BY <1>1, SeqFacts DEF Stripped
  <2>2. Stripped(x).ports = <<>>
    BY <1>1 DEF Stripped, Msg
  <2> QED
    BY <2>1, <2>2
<1> HIDE DEF x, S
<1>9. IsFiniteSet(S)
  BY <1>1, <1>2, CarriedFinite
<1>10. ASSUME NEW k \in Kinds
       PROVE  Bounded(k, m)' /\ N(k, m)' = N(k, m)
  <2>1. Bounded(k, m)
    BY DEF Law
  <2>2. /\ IsFiniteSet(Receivers({k}, m)') /\ IsFiniteSet(Senders({k}, m)')
        /\ PortsWith(k, m)' = PortsWith(k, m) + SideCount(S, k, m, rx', tx')
    BY <1>3, <1>4, <1>9, <2>1, PortsEnter
  <2>3. SideCount(S, k, m, rx', tx') = MsgCount(x, {k}, m)
    BY <1>1, <1>2, SideList
  <2>4. /\ Bounded(k, m)'
        /\ N(k, m)' + PortsWith(k, m) + MsgsCount(inbox[m], {k}, m)
                     + MsgsCount(batch[t], {k}, m) + Top(t, k, m)
              = N(k, m) + PortsWith(k, m)' + MsgsCount(inbox'[m], {k}, m)
                        + MsgsCount(batch'[t], {k}, m) + StackCount(<<>>, {k}, m)
        /\ N(k, m) \in Nat /\ N(k, m)' \in Nat /\ PortsWith(k, m) \in Nat
        /\ PortsWith(k, m)' \in Nat /\ Top(t, k, m) \in Nat
    <3>1. PICK r : r = <<>>
      OBVIOUS
    <3>2. Balanced(t, m, r, k, m)
      BY <1>6, <1>7, <2>1, <2>2, <3>1, Balance
    <3> QED
      BY <3>1, <3>2, Zenon DEF Balanced
  <2>5. MsgsCount(batch[t], {k}, m) = MsgCount(x, {k}, m) + MsgsCount(Tail(batch[t]), {k}, m)
    BY <1>1, MsgsHead DEF x
  <2>6. MsgsCount(batch'[t], {k}, m) = MsgsCount(Tail(batch[t]), {k}, m)
    <3> DEFINE y == Stripped(x)
               s == Tail(batch[t])
    <3>1. y \in Msg /\ s \in Seq(Msg) /\ MsgCount(y, {k}, m) = 0
      BY <1>1, <1>8, MsgFinite
    <3>2. batch'[t] = <<y>> \o s
      BY <1>5
    <3> HIDE DEF y, s
    <3>3. <<y>> \in Seq(Msg) /\ MsgsCount(<<y>>, {k}, m) = 0
      BY <3>1, MsgsOne
    <3> DEFINE z == <<y>>
    <3>6. z \in Seq(Msg)
      BY <3>3
    <3> HIDE DEF z
    <3>7. MsgsCount(z \o s, {k}, m) = MsgsCount(z, {k}, m) + MsgsCount(s, {k}, m)
      BY <3>1, <3>6, MsgsConcat
    <3>4. MsgsCount(<<y>> \o s, {k}, m) = MsgsCount(<<y>>, {k}, m) + MsgsCount(s, {k}, m)
      BY <3>7 DEF z
    <3>5. MsgsCount(s, {k}, m) \in Nat
      BY <3>1, MsgsFinite
    <3> QED
      BY <3>2, <3>3, <3>4, <3>5 DEF s
  <2>7. Top(t, k, m) = 0 /\ StackCount(<<>>, {k}, m) = 0
    BY <1>7, TopFacts, StackFinite
  <2>8. /\ MsgCount(x, {k}, m) \in Nat /\ MsgsCount(Tail(batch[t]), {k}, m) \in Nat
        /\ MsgsCount(inbox[m], {k}, m) \in Nat
    BY <1>1, <1>6, MsgFinite, MsgsFinite
  <2> DEFINE g == N(k, m)
             g1 == N(k, m)'
             w == PortsWith(k, m)
             w1 == PortsWith(k, m)'
             i == MsgsCount(inbox[m], {k}, m)
             j == MsgsCount(Tail(batch[t]), {k}, m)
             a == MsgCount(x, {k}, m)
  <2>9. /\ g1 + w + i + (a + j) + 0 = g + w1 + i + j + 0 /\ w1 = w + a
        /\ g \in Nat /\ g1 \in Nat /\ w \in Nat /\ w1 \in Nat /\ i \in Nat /\ j \in Nat /\ a \in Nat
    BY <1>6, <2>2, <2>3, <2>4, <2>5, <2>6, <2>7, <2>8, Zenon
  <2> HIDE DEF g, g1, w, w1, i, j, a
  <2>10. g1 = g
    BY <2>9, SMTT(30)
  <2> QED
    BY <2>4, <2>10 DEF g, g1
<1> QED
  BY <1>6, <1>10, LawSame

\* A step that exchanges what a stack holds for the same, and leaves the rest alone.
LEMMA QuietLaw ==
  ASSUME TypeOK, TodoOK, TypeOK', NEW t \in Threads, NEW r \in Seq(Op), Push(t, r),
         UNCHANGED <<alive, refs, closed, inbox, rx, tx, batch>>, NEW m \in Mailboxes, Law(m),
         \A k \in Kinds : StackCount(r, {k}, m) = Top(t, k, m)
  PROVE  Law(m)'
<1>1. ASSUME NEW k \in Kinds
      PROVE  Bounded(k, m)' /\ N(k, m)' = N(k, m)
  <2>1. Bounded(k, m)
    BY DEF Law
  <2>2. UNCHANGED <<rx, tx, inbox, batch>>
    OBVIOUS
  <2>3. /\ Bounded(k, m)'
        /\ N(k, m)' + Top(t, k, m) = N(k, m) + StackCount(r, {k}, m)
        /\ N(k, m) \in Nat /\ N(k, m)' \in Nat
        /\ Top(t, k, m) \in Nat /\ StackCount(r, {k}, m) \in Nat
    <3>1. StackBalanced(t, r, k, m)
      BY <2>1, <2>2, QuietCount
    <3> QED
      BY <3>1, Zenon DEF StackBalanced
  <2>4. StackCount(r, {k}, m) = Top(t, k, m)
    OBVIOUS
  <2> QED
    BY <2>3, <2>4
<1>2. alive'[m] = alive[m] /\ refs'[m] = refs[m] /\ closed'[m] = closed[m]
  OBVIOUS
<1> QED
  BY <1>1, <1>2, LawSame

\* A step that moves messages between an inbox, a batch and a stack.
LEMMA MovingLaw ==
  ASSUME TypeOK, TodoOK, TypeOK', NEW t \in Threads, NEW q \in Mailboxes, Within(t, q),
         NEW r \in Seq(Op), Push(t, r), UNCHANGED <<alive, refs, closed, rx, tx>>,
         NEW m \in Mailboxes, Law(m),
         \A k \in Kinds :
            MsgsCount(inbox[q], {k}, m) + MsgsCount(batch[t], {k}, m) + Top(t, k, m)
              = MsgsCount(inbox'[q], {k}, m) + MsgsCount(batch'[t], {k}, m)
                + StackCount(r, {k}, m)
  PROVE  Law(m)'
<1>1. ASSUME NEW k \in Kinds
      PROVE  Bounded(k, m)' /\ N(k, m)' = N(k, m)
  <2>1. Bounded(k, m)
    BY DEF Law
  <2>2. UNCHANGED <<rx, tx>>
    OBVIOUS
  <2>3. /\ Bounded(k, m)'
        /\ N(k, m)' + MsgsCount(inbox[q], {k}, m) + MsgsCount(batch[t], {k}, m) + Top(t, k, m)
              = N(k, m) + MsgsCount(inbox'[q], {k}, m) + MsgsCount(batch'[t], {k}, m)
                        + StackCount(r, {k}, m)
        /\ N(k, m) \in Nat /\ N(k, m)' \in Nat
    <3>1. Moved(t, q, r, k, m)
      BY <2>1, <2>2, MovingCount
    <3> QED
      BY <3>1, Zenon DEF Moved
  <2>4. MsgsCount(inbox[q], {k}, m) + MsgsCount(batch[t], {k}, m) + Top(t, k, m)
              = MsgsCount(inbox'[q], {k}, m) + MsgsCount(batch'[t], {k}, m)
                + StackCount(r, {k}, m)
    OBVIOUS
  <2>5. /\ MsgsCount(inbox[q], {k}, m) \in Nat /\ MsgsCount(batch[t], {k}, m) \in Nat
        /\ MsgsCount(inbox'[q], {k}, m) \in Nat /\ MsgsCount(batch'[t], {k}, m) \in Nat
        /\ StackCount(r, {k}, m) \in Nat
    <3>1. /\ inbox[q] \in Seq(Msg) /\ batch[t] \in Seq(Msg)
          /\ inbox'[q] \in Seq(Msg) /\ batch'[t] \in Seq(Msg)
      BY DEF TypeOK, MailboxTypeOK, LoopTypeOK
    <3> QED
      BY <3>1, MsgsFinite, StackFinite
  <2>6. Top(t, k, m) \in Nat
    BY <2>1, StackChange DEF Bounded
  <2> DEFINE n == N(k, m)
             n1 == N(k, m)'
             a == MsgsCount(inbox[q], {k}, m)
             b == MsgsCount(batch[t], {k}, m)
             c == Top(t, k, m)
             a1 == MsgsCount(inbox'[q], {k}, m)
             b1 == MsgsCount(batch'[t], {k}, m)
             c1 == StackCount(r, {k}, m)
  <2>7. /\ n1 + a + b + c = n + a1 + b1 + c1 /\ a + b + c = a1 + b1 + c1
        /\ n \in Nat /\ n1 \in Nat /\ a \in Nat /\ b \in Nat /\ c \in Nat
        /\ a1 \in Nat /\ b1 \in Nat /\ c1 \in Nat
    BY <2>3, <2>4, <2>5, <2>6, Zenon
  <2> HIDE DEF n, n1, a, b, c, a1, b1, c1
  <2>8. n1 = n
    BY <2>7
  <2> QED
    BY <2>3, <2>8 DEF n, n1
<1>2. alive'[m] = alive[m] /\ refs'[m] = refs[m] /\ closed'[m] = closed[m]
  OBVIOUS
<1> QED
  BY <1>1, <1>2, LawSame

----------------------------------------------------------------------------
(* The laws of all mailboxes, action by action.                            *)

Weightless == {"start", "wake", "splice", "shut", "uvclose", "join"}

\* A step that exchanges operations that hold no reference.
LEMMA LightLaw ==
  ASSUME TypeOK, TodoOK, TypeOK', Counts, NEW t \in Threads, NEW r \in Seq(Op), Push(t, r),
         UNCHANGED <<alive, refs, closed, inbox, rx, tx, batch>>,
         \A i \in DOMAIN r : r[i].op \in Weightless,
         todo[t] # <<>> => Head(todo[t]).op \in Weightless
  PROVE  Counts'
<1> SUFFICES ASSUME NEW m \in Mailboxes PROVE Law(m)'
  BY DEF Counts
<1>1. Law(m)
  BY DEF Counts
<1>2. ASSUME NEW k PROVE StackCount(r, {k}, m) = 0
  <2>1. \A i \in DOMAIN r : r[i].op \in {"start", "wake", "splice", "shut", "uvclose", "join"}
    BY DEF Weightless
  <2> QED
    BY <2>1, StackZero
<1>3. ASSUME NEW k PROVE Top(t, k, m) = 0
  <2>1. CASE todo[t] = <<>>
    BY <2>1, TopFacts
  <2>2. CASE todo[t] # <<>>
    <3>1. Head(todo[t]) \in Op /\ Top(t, k, m) = OpCount(Head(todo[t]), {k}, m)
      BY <2>2, TopFacts
    <3>2. Head(todo[t]).op \in {"start", "wake", "splice", "shut", "uvclose", "join"}
      BY <2>2 DEF Weightless
    <3> QED
      BY <3>1, <3>2, OpCounts
  <2> QED
    BY <2>1, <2>2
<1>4. \A k \in Kinds : StackCount(r, {k}, m) = Top(t, k, m)
  BY <1>2, <1>3
<1> QED
  BY <1>1, <1>4, QuietLaw

\* ... or nothing at all.
LEMMA StillLaw ==
  ASSUME TypeOK, TodoOK, TypeOK', Counts, NEW t \in Threads, todo[t] = <<>>,
         UNCHANGED <<alive, refs, closed, inbox, rx, tx, batch, todo>>
  PROVE  Counts'
<1> DEFINE r == <<>>
<1>1. Push(t, r) /\ r \in Seq(Op) /\ DOMAIN r = {}
  BY Untouched
<1> HIDE DEF r
<1>2. \A i \in DOMAIN r : r[i].op \in Weightless
  BY <1>1
<1> QED
  BY <1>1, <1>2, LightLaw

\* An operation on a stack of its own.
LEMMA PortOpAlone ==
  ASSUME NEW p \in Ports, NEW name \in Weightless \ {"join"}
  PROVE  /\ <<PortOp(name, p)>> \in Seq(Op)
         /\ \A i \in DOMAIN <<PortOp(name, p)>> : <<PortOp(name, p)>>[i].op \in Weightless
BY DEF PortOp, Op, Weightless

\* A new channel.
LEMMA NewChannelLaw ==
  ASSUME TypeOK, TodoOK, TypeOK', Sides, Counts, NEW t \in Threads, NewChannel(t)
  PROVE  Counts'
<1> SUFFICES ASSUME NEW m \in Mailboxes PROVE Law(m)'
  BY DEF Counts
<1>1. PICK m0 \in Lowest(UnusedMailboxes), a \in Lowest(UnusedPorts) :
      \E m1 \in Lowest(UnusedMailboxes \ {m0}), b \in Lowest(UnusedPorts \ {a}) :
        Entangle(m0, m1, a, b, t, t, 2)
  BY Zenon DEF NewChannel
<1>2. PICK m1 \in Lowest(UnusedMailboxes \ {m0}), b \in Lowest(UnusedPorts \ {a}) :
        Entangle(m0, m1, a, b, t, t, 2)
  BY <1>1
<1>3. /\ m0 \in UnusedMailboxes /\ m1 \in UnusedMailboxes
      /\ a \in UnusedPorts /\ b \in UnusedPorts
  BY DEF Lowest
<1>4. UNCHANGED todo /\ UNCHANGED loopVars /\ todo[t] = <<>>
  BY CallsType, Zenon DEF NewChannel
<1> DEFINE r == <<>>
           n == 2
<1>5. Push(t, r) /\ r \in Seq(Op) /\ r = <<>> /\ UNCHANGED batch
  BY <1>4, Untouched DEF loopVars
<1>6. Law(m)
  BY DEF Counts
<1>8. n = 2
  OBVIOUS
<1>9. Entangle(m0, m1, a, b, t, t, n)
  BY <1>2
<1> HIDE DEF r, n
<1>7. Reserved(r, m0, m1, n, m)
  <2> SUFFICES ASSUME NEW k
               PROVE  StackCount(r, {k}, m)
                        = IF (m = m0 \/ m = m1) /\ k = "unref" THEN n - 2 ELSE 0
    BY DEF Reserved
  <2>1. StackCount(r, {k}, m) = 0
    BY <1>5, StackFinite
  <2> QED
    BY <1>8, <2>1
<1> QED
  BY <1>3, <1>4, <1>5, <1>6, <1>7, <1>8, <1>9, EntangleLaw

\* A new worker: the reserved references are dropped by the stack.
LEMMA SpawnLaw ==
  ASSUME TypeOK, TodoOK, TypeOK', Sides, Counts, NEW t \in Threads, NEW u \in Threads,
         SpawnWorker(t, u)
  PROVE  Counts'
<1> SUFFICES ASSUME NEW m \in Mailboxes PROVE Law(m)'
  BY DEF Counts
<1>1. PICK m0 \in Lowest(UnusedMailboxes), a \in Lowest(UnusedPorts) :
      \E m1 \in Lowest(UnusedMailboxes \ {m0}), b \in Lowest(UnusedPorts \ {a}) :
        /\ Entangle(m0, m1, a, b, t, u, 3)
        /\ Call(t, <<UnrefOp(m0), UnrefOp(m1), PortOp("start", a)>>)
  BY Zenon DEF SpawnWorker
<1>2. PICK m1 \in Lowest(UnusedMailboxes \ {m0}), b \in Lowest(UnusedPorts \ {a}) :
        /\ Entangle(m0, m1, a, b, t, u, 3)
        /\ Call(t, <<UnrefOp(m0), UnrefOp(m1), PortOp("start", a)>>)
  BY <1>1
<1>3. /\ m0 \in UnusedMailboxes /\ m1 \in UnusedMailboxes /\ m0 \in Mailboxes /\ m1 \in Mailboxes
      /\ a \in UnusedPorts /\ b \in UnusedPorts /\ a \in Ports
  BY DEF Lowest, UnusedMailboxes, UnusedPorts
<1>4. UNCHANGED loopVars /\ todo[t] = <<>>
  BY CallsType, Zenon DEF SpawnWorker
<1>5. UNCHANGED batch
  BY <1>4 DEF loopVars
<1>6. Law(m)
  BY DEF Counts
<1> DEFINE x == UnrefOp(m0)
           y == UnrefOp(m1)
           z == PortOp("start", a)
           r == <<x, y, z>>
<1>7. /\ x \in Op /\ y \in Op /\ z \in Op
      /\ x.op = "unref" /\ x.mb = m0 /\ y.op = "unref" /\ y.mb = m1 /\ z.op = "start"
  BY <1>3, OpTypes DEF UnrefOp, PortOp
<1>8. Call(t, r)
  BY <1>2
<1> HIDE DEF x, y, z
<1>9. r \in Seq(Op) /\ Push(t, r)
  BY <1>4, <1>7, <1>8 DEF Push
<1>10. m0 # m1
  BY <1>2, Zenon DEF Entangle
<1>11. ASSUME NEW k \in Kinds
       PROVE  StackCount(r, {k}, m) = IF (m = m0 \/ m = m1) /\ k = "unref" THEN 3 - 2 ELSE 0
  <2>1. StackCount(r, {k}, m) = OpCount(x, {k}, m) + OpCount(y, {k}, m) + OpCount(z, {k}, m)
    BY <1>7, StackThree
  <2>2. /\ OpCount(x, {k}, m) = One({k}, "unref", m0, m)
        /\ OpCount(y, {k}, m) = One({k}, "unref", m1, m)
        /\ OpCount(z, {k}, m) = 0
    BY <1>7, OpCounts
  <2>3. /\ One({k}, "unref", m0, m) = IF m = m0 /\ k = "unref" THEN 1 ELSE 0
        /\ One({k}, "unref", m1, m) = IF m = m1 /\ k = "unref" THEN 1 ELSE 0
    BY DEF One
  <2> QED
    BY <1>10, <2>1, <2>2, <2>3
<1> HIDE DEF r
<1> DEFINE n == 3
<1>12. Entangle(m0, m1, a, b, t, u, n) /\ n = 3
  BY <1>2
<1> HIDE DEF n
<1>13. Reserved(r, m0, m1, n, m)
  BY <1>11, <1>12 DEF Reserved
<1> QED
  BY <1>3, <1>4, <1>5, <1>6, <1>9, <1>12, <1>13, EntangleLaw

\* A worker is terminated.
LEMMA TerminateLaw ==
  ASSUME TypeOK, TodoOK, TypeOK', Counts, NEW t \in Threads, NEW u \in Threads, Terminate(t, u)
  PROVE  Counts'
<1>1. /\ Collecting(t) /\ near[u] # None
      /\ Call(t, <<JoinOp(u), PortOp("shut", near[u])>>)
      /\ UNCHANGED <<mailboxVars, portVars, loopVars>>
  BY Zenon DEF Terminate
<1> DEFINE r == <<JoinOp(u), PortOp("shut", near[u])>>
<1>2. near[u] \in Ports
  BY <1>1 DEF TypeOK, ThreadTypeOK
<1>3. r \in Seq(Op) /\ \A i \in DOMAIN r : r[i].op \in Weightless
  BY <1>2 DEF JoinOp, PortOp, Op, Weightless
<1>4. todo[t] = <<>> /\ Call(t, r)
  BY <1>1, CollectingType
<1> HIDE DEF r
<1>5. Push(t, r) /\ UNCHANGED <<alive, refs, closed, inbox, rx, tx, batch>>
  BY <1>1, <1>4 DEF Push, mailboxVars, portVars, loopVars
<1> QED
  BY <1>3, <1>4, <1>5, LightLaw

\* A worker is asked to stop.
LEMMA StopLaw ==
  ASSUME TypeOK, TodoOK, TypeOK', Counts, NEW t \in Threads, Stop(t)
  PROVE  Counts'
<1>1. Calling(t) /\ UNCHANGED <<mailboxVars, portVars, todo, loopVars>>
  BY Zenon DEF Stop
<1>2. todo[t] = <<>> /\ UNCHANGED <<alive, refs, closed, inbox, rx, tx, batch, todo>>
  BY <1>1, CallsType DEF mailboxVars, portVars, loopVars
<1> QED
  BY <1>2, StillLaw

\* A port is started.
LEMMA StartLaw ==
  ASSUME TypeOK, TodoOK, TypeOK', Counts, NEW t \in Threads, NEW p \in Ports, Start(t, p)
  PROVE  Counts'
<1>1. Calling(t) /\ Own(p) /\ Call(t, Flush(p)) /\ UNCHANGED loopVars
  BY Zenon DEF Start
<1>2. UNCHANGED <<alive, refs, closed, inbox, rx, tx>>
  BY <1>1, Zenon DEF Own
<1>3. todo[t] = <<>> /\ Push(t, Flush(p)) /\ UNCHANGED batch
  BY <1>1, CallsType DEF Push, loopVars
<1>4. Flush(p) \in Seq(Op) /\ \A i \in DOMAIN Flush(p) : Flush(p)[i].op \in Weightless
  BY PortOpAlone DEF Flush, Weightless
<1> QED
  BY <1>2, <1>3, <1>4, LightLaw

\* A live port gives up its sides, and whatever else r does weighs nothing.
LEMMA ReleaseLaw ==
  ASSUME TypeOK, TodoOK, TypeOK', PortOK, Counts, NEW t \in Threads,
         NEW s \in Seq(Op), \A i \in DOMAIN s : s[i].op \in Weightless,
         NEW p \in Ports, Live(p), Detach(p), UNCHANGED batch,
         Push(t, Release(rx[p], tx[p]) \o s),
         todo[t] # <<>> => Head(todo[t]).op \in Weightless
  PROVE  Counts'
<1> SUFFICES ASSUME NEW m \in Mailboxes PROVE Law(m)'
  BY DEF Counts
<1> DEFINE a == rx[p]
           b == tx[p]
           q == Release(a, b)
           r == q \o s
<1>1. a \in Mailboxes /\ b \in Mailboxes
  BY DEF PortOK
<1>2. Push(t, r)
  OBVIOUS
<1>7. a = rx[p] /\ b = tx[p]
  OBVIOUS
<1> HIDE DEF a, b
<1>3. q \in Seq(Op)
  BY <1>1, ReleaseCount
<1>4. r \in Seq(Op)
  BY <1>3
<1>5. ASSUME NEW k \in Kinds
      PROVE  StackCount(r, {k}, m)
               = One({k}, "close", a, m) + One({k}, "unref", a, m) + One({k}, "unref", b, m)
                 + Top(t, k, m)
  <2>1. StackCount(q, {k}, m)
           = One({k}, "close", a, m) + One({k}, "unref", a, m) + One({k}, "unref", b, m)
    BY <1>1, ReleaseCount
  <2>2. StackCount(s, {k}, m) = 0
    <3>1. \A i \in DOMAIN s : s[i].op \in {"start", "wake", "splice", "shut", "uvclose", "join"}
      BY DEF Weightless
    <3> QED
      BY <3>1, StackZero
  <2>3. Top(t, k, m) = 0
    <3>1. CASE todo[t] = <<>>
      BY <3>1, TopFacts
    <3>2. CASE todo[t] # <<>>
      <4>1. Head(todo[t]) \in Op /\ Top(t, k, m) = OpCount(Head(todo[t]), {k}, m)
        BY <3>2, TopFacts
      <4>2. Head(todo[t]).op \in {"start", "wake", "splice", "shut", "uvclose", "join"}
        BY <3>2 DEF Weightless
      <4> QED
        BY <4>1, <4>2, OpCounts
    <3> QED
      BY <3>1, <3>2
  <2> HIDE DEF q
  <2>4. StackCount(r, {k}, m) = StackCount(q, {k}, m) + StackCount(s, {k}, m)
    BY <1>3, StackConcat
  <2>5. /\ One({k}, "close", a, m) \in {0, 1} /\ One({k}, "unref", a, m) \in {0, 1}
        /\ One({k}, "unref", b, m) \in {0, 1}
    BY OneType
  <2> DEFINE c == One({k}, "close", a, m)
             d == One({k}, "unref", a, m)
             e == One({k}, "unref", b, m)
  <2>6. /\ StackCount(r, {k}, m) = c + d + e + 0 /\ c \in {0, 1} /\ d \in {0, 1} /\ e \in {0, 1}
    BY <2>1, <2>2, <2>4, <2>5
  <2> HIDE DEF c, d, e, r
  <2>7. StackCount(r, {k}, m) = c + d + e + Top(t, k, m)
    BY <2>3, <2>6
  <2> QED
    BY <2>7, Zenon DEF c, d, e
<1> HIDE DEF q, r
<1>6. Law(m)
  BY DEF Counts
<1>8. \A k \in Kinds : StackCount(r, {k}, m)
               = One({k}, "close", rx[p], m) + One({k}, "unref", rx[p], m)
                 + One({k}, "unref", tx[p], m) + Top(t, k, m)
  BY <1>5, <1>7, Zenon
<1> QED
  BY <1>2, <1>4, <1>6, <1>8, DetachLaw

\* A port is closed.
LEMMA CloseLaw ==
  ASSUME TypeOK, TodoOK, TypeOK', PortOK, Counts, NEW t \in Threads, NEW p \in Ports, Close(t, p)
  PROVE  Counts'
<1>1. /\ Calling(t) /\ Live(p) /\ Detach(p) /\ Call(t, Release(rx[p], tx[p])) /\ UNCHANGED loopVars
  BY Zenon DEF Close
<1>2. todo[t] = <<>> /\ UNCHANGED batch
  BY <1>1, CallsType DEF loopVars
<1> DEFINE s == <<>>
           q == Release(rx[p], tx[p])
<1>3. q \in Seq(Op)
  BY <1>1, ReleaseCount DEF PortOK
<1>4. Call(t, q)
  BY <1>1
<1>5. s \in Seq(Op) /\ DOMAIN s = {}
  BY EmptyType
<1>6. q \o s = q
  <2> HIDE DEF q
  <2> QED
    BY <1>3
<1>7. Push(t, q \o s)
  BY <1>2, <1>4, <1>6, Zenon DEF Push
<1> HIDE DEF s
<1>8. \A i \in DOMAIN s : s[i].op \in Weightless
  BY <1>5
<1> QED
  BY <1>1, <1>2, <1>5, <1>7, <1>8, ReleaseLaw DEF q

\* A port is collected.
LEMMA FinalizeLaw ==
  ASSUME TypeOK, TodoOK, TypeOK', PortOK, Counts, NEW t \in Threads, NEW p \in Ports,
         Finalize(t, p)
  PROVE  Counts'
<1>1. /\ Collecting(t) /\ UNCHANGED loopVars
      /\ IF Live(p)
         THEN Detach(p) /\ Call(t, Release(rx[p], tx[p]) \o <<PortOp("uvclose", p)>>)
         ELSE Call(t, <<PortOp("uvclose", p)>>) /\ UNCHANGED <<mailboxVars, portVars>>
  BY Zenon DEF Finalize
<1>2. todo[t] = <<>> /\ UNCHANGED batch
  BY <1>1, CollectingType DEF loopVars
<1> DEFINE s == <<PortOp("uvclose", p)>>
<1>3. s \in Seq(Op) /\ \A i \in DOMAIN s : s[i].op \in Weightless
  BY PortOpAlone DEF Weightless
<1>4. IF Live(p) THEN Detach(p) /\ Push(t, Release(rx[p], tx[p]) \o s)
      ELSE Push(t, s) /\ UNCHANGED <<mailboxVars, portVars>>
  BY <1>1, <1>2 DEF Push
<1> HIDE DEF s
<1>5. CASE Live(p)
  BY <1>2, <1>3, <1>4, <1>5, ReleaseLaw
<1>6. CASE ~Live(p)
  <2>1. UNCHANGED <<alive, refs, closed, inbox, rx, tx, batch>>
    BY <1>2, <1>4, <1>6 DEF mailboxVars, portVars
  <2> QED
    BY <1>2, <1>3, <1>4, <1>6, <2>1, LightLaw
<1> QED
  BY <1>5, <1>6

\* The near end of a pipe is closed.
LEMMA ShutLaw ==
  ASSUME TypeOK, TodoOK, TypeOK', PortOK, Counts, NEW t \in Threads, ShutStep(t)
  PROVE  Counts'
<1> DEFINE p == Head(todo[t]).port
           s == <<>>
<1>1. /\ Doing(t, "shut") /\ UNCHANGED loopVars
      /\ IF Live(p)
         THEN Detach(p) /\ Continue(t, Release(rx[p], tx[p]))
         ELSE Continue(t, <<>>) /\ UNCHANGED <<mailboxVars, portVars>>
  BY Zenon DEF ShutStep
<1>2. todo[t] # <<>> /\ Head(todo[t]).op = "shut"
  BY <1>1 DEF Doing
<1>3. p \in Ports /\ Head(todo[t]).op \in Weightless /\ UNCHANGED batch
  BY <1>1, <1>2, HeadFacts DEF Weightless, loopVars
<1>4. s \in Seq(Op) /\ DOMAIN s = {}
  BY EmptyType
<1> HIDE DEF p
<1>5. CASE Live(p)
  <2> DEFINE q == Release(rx[p], tx[p])
  <2>1. q \in Seq(Op) /\ Continue(t, q) /\ Detach(p)
    BY <1>1, <1>3, <1>5, ReleaseCount DEF PortOK
  <2>2. q \o s = q
    <3> HIDE DEF q
    <3> QED
      BY <2>1
  <2>3. Push(t, q \o s)
    BY <1>2, <2>1, <2>2, Zenon DEF Push
  <2> HIDE DEF s
  <2>4. \A i \in DOMAIN s : s[i].op \in Weightless
    BY <1>4
  <2> QED
    BY <1>3, <1>4, <1>5, <2>1, <2>3, <2>4, ReleaseLaw DEF q
<1>6. CASE ~Live(p)
  <2>1. Push(t, s)
    BY <1>1, <1>2, <1>6 DEF Push
  <2> HIDE DEF s
  <2>2. \A i \in DOMAIN s : s[i].op \in Weightless
    BY <1>4
  <2>3. UNCHANGED <<alive, refs, closed, inbox, rx, tx, batch>>
    BY <1>1, <1>3, <1>6 DEF mailboxVars, portVars
  <2> QED
    BY <1>3, <1>4, <2>1, <2>2, <2>3, LightLaw
<1> QED
  BY <1>5, <1>6

\* The list of a transfer.
LEMMA ListFacts ==
  ASSUME TypeOK, PortOK, NEW t, NEW p, NEW list \in TransferLists(t, p), NEW i
  PROVE  LET S == {list[j] : j \in DOMAIN list}
             x == [id |-> i,
                   ports |-> [j \in DOMAIN list |-> [rx |-> rx[list[j]], tx |-> tx[list[j]]]]]
         IN  /\ S \in SUBSET Ports /\ p \notin S
             /\ \A q \in S : Live(q) /\ home[q] = t /\ q \notin PipeEnds
             /\ Carries(x, list, S, rx, tx)
<1>1. PICK n \in 0..MaxTransfer : /\ list \in [1..n -> Transferable(t, p)]
                                  /\ \A a, b \in 1..n : list[a] = list[b] => a = b
  BY DEF TransferLists
<1>2. /\ \A j \in DOMAIN list : list[j] \in Transferable(t, p)
      /\ \A a, b \in DOMAIN list : list[a] = list[b] => a = b
  BY <1>1
<1> DEFINE S == {list[j] : j \in DOMAIN list}
           x == [id |-> i,
                 ports |-> [j \in DOMAIN list |-> [rx |-> rx[list[j]], tx |-> tx[list[j]]]]]
<1>3. \A q \in S : q \in Transferable(t, p)
  BY <1>2
<1>4. S \in SUBSET Ports /\ \A q \in S : Live(q) /\ home[q] = t /\ q \notin PipeEnds /\ q # p
  BY <1>3 DEF Transferable
<1>5. Carries(x, list, S, rx, tx)
  BY <1>2 DEF Carries
<1> QED
  BY <1>4, <1>5

\* The references of the listed ports move into the message.
LEMMA PostMessageLaw ==
  ASSUME TypeOK, TodoOK, TypeOK', PortOK, Counts, NEW t \in Threads, NEW p \in Ports,
         NEW list \in TransferLists(t, p), PostMessage(t, p, list)
  PROVE  Counts'
<1> SUFFICES ASSUME NEW m \in Mailboxes PROVE Law(m)'
  BY DEF Counts
<1> DEFINE S == {list[i] : i \in DOMAIN list}
           x == [id |-> calls + 1,
                 ports |-> [i \in DOMAIN list |-> [rx |-> rx[list[i]], tx |-> tx[list[i]]]]]
           r == IF tx[p] \in {rx[q] : q \in S} THEN Freeing(<<x>>) ELSE <<PostOp(tx[p], x)>>
<1>1. /\ Calling(t) /\ Live(p) /\ Neuter(S) /\ Call(t, r)
      /\ UNCHANGED <<alive, refs, closed, inbox, loopVars>>
  BY Zenon DEF PostMessage
<1>2. todo[t] = <<>> /\ calls + 1 \in 1..MaxCalls
  BY <1>1, CallsType
<1>3. x \in Msg
  BY <1>2, MessageType
<1>4. S \in SUBSET Ports /\ Carries(x, list, S, rx, tx)
  BY ListFacts
<1>5. tx[p] \in Mailboxes
  BY <1>1 DEF PortOK
<1> HIDE DEF S, x
<1>6. r \in Seq(Op) /\ \A k \in Kinds : StackCount(r, {k}, m) = MsgCount(x, {k}, m)
  <2>1. CASE tx[p] \in {rx[q] : q \in S}
    <3> DEFINE s == <<x>>
    <3>1. s \in Seq(Msg) /\ \A k : MsgsCount(s, {k}, m) = MsgCount(x, {k}, m)
      BY <1>3, MsgsOne
    <3>2. r = Freeing(s)
      BY <2>1
    <3> HIDE DEF s, r
    <3>3. Freeing(s) \in Seq(Op) /\ \A k : StackCount(Freeing(s), {k}, m) = MsgsCount(s, {k}, m)
      BY <3>1, FreeingCount
    <3> QED
      BY <3>1, <3>2, <3>3
  <2>2. CASE tx[p] \notin {rx[q] : q \in S}
    <3> DEFINE o == PostOp(tx[p], x)
    <3>1. o \in Op /\ o.op = "post" /\ o.msg = x
      BY <1>3, <1>5, OpTypes DEF PostOp
    <3>2. r = <<o>>
      BY <2>2
    <3> HIDE DEF o, r
    <3>3. r \in Seq(Op) /\ \A k : StackCount(r, {k}, m) = OpCount(o, {k}, m)
      BY <3>1, <3>2, StackOne
    <3>4. \A k : OpCount(o, {k}, m) = MsgCount(x, {k}, m)
      BY <3>1, OpCounts
    <3> QED
      BY <3>3, <3>4
  <2> QED
    BY <2>1, <2>2
<1>7. Push(t, r) /\ UNCHANGED <<alive, refs, closed, inbox, batch>>
  BY <1>1, <1>2 DEF Push, loopVars
<1>8. SidesGone(S) /\ Law(m)
  BY <1>1 DEF SidesGone, Neuter, Counts
<1> HIDE DEF r
<1> QED
  BY <1>2, <1>3, <1>4, <1>6, <1>7, <1>8, NeuterLaw

\* The function in which t runs weighs what its operation holds.
LEMMA TopWeight ==
  ASSUME TypeOK, NEW t \in Threads, todo[t] # <<>>, NEW k, NEW m
  PROVE  /\ Head(todo[t]).op = "close" => Top(t, k, m) = One({k}, "close", Head(todo[t]).mb, m)
         /\ Head(todo[t]).op = "unref" => Top(t, k, m) = One({k}, "unref", Head(todo[t]).mb, m)
         /\ Head(todo[t]).op = "post" => Top(t, k, m) = MsgCount(Head(todo[t]).msg, {k}, m)
         /\ Head(todo[t]).op = "free" => Top(t, k, m) = MsgsCount(Head(todo[t]).msgs, {k}, m)
         /\ Head(todo[t]).op \in Weightless => Top(t, k, m) = 0
<1>1. Head(todo[t]) \in Op /\ Top(t, k, m) = OpCount(Head(todo[t]), {k}, m)
  BY TopFacts
<1> QED
  BY <1>1, OpCounts DEF Weightless

\* The messages of an inbox go on the stack, and its operation is done.
LEMMA EmptyingCount ==
  ASSUME TypeOK, TodoOK, TypeOK', NEW t \in Threads, NEW q \in Mailboxes,
         Push(t, Freeing(inbox[q])), inbox' = Emptied(q), UNCHANGED <<rx, tx, batch>>,
         NEW k, NEW m, Bounded(k, m)
  PROVE  /\ Bounded(k, m)' /\ N(k, m)' \in Nat /\ N(k, m)' + Top(t, k, m) = N(k, m)
<1> DEFINE s == inbox[q]
           r == Freeing(s)
<1>1. s \in Seq(Msg) /\ batch[t] \in Seq(Msg)
  BY DEF TypeOK, MailboxTypeOK, LoopTypeOK
<1>2. inbox'[q] = <<>> /\ Within(t, q) /\ batch'[t] = batch[t]
  BY DEF Emptied, Within, TypeOK, MailboxTypeOK
<1>3. r \in Seq(Op) /\ StackCount(r, {k}, m) = MsgsCount(s, {k}, m)
  BY <1>1, FreeingCount
<1>4. Push(t, r) /\ UNCHANGED <<rx, tx>>
  OBVIOUS
<1> HIDE DEF s, r
<1>5. /\ Bounded(k, m)'
      /\ N(k, m)' + MsgsCount(inbox[q], {k}, m) + MsgsCount(batch[t], {k}, m) + Top(t, k, m)
              = N(k, m) + MsgsCount(inbox'[q], {k}, m) + MsgsCount(batch'[t], {k}, m)
                        + StackCount(r, {k}, m)
      /\ N(k, m) \in Nat /\ N(k, m)' \in Nat
  <2>1. Moved(t, q, r, k, m)
    BY <1>2, <1>3, <1>4, MovingCount
  <2> QED
    BY <2>1, Zenon DEF Moved
<1>6. Top(t, k, m) \in Nat
  BY <1>3, <1>4, StackChange DEF Bounded
<1>7. MsgsCount(inbox'[q], {k}, m) = 0
  <2> DEFINE z == inbox'[q]
  <2>1. z = <<>> /\ z \in Seq(Msg)
    BY <1>2, EmptyType
  <2> HIDE DEF z
  <2>2. MsgsCount(z, {k}, m) = 0
    BY <2>1, MsgsFinite
  <2> QED
    BY <2>2 DEF z
<1>8. MsgsCount(s, {k}, m) \in Nat /\ MsgsCount(batch[t], {k}, m) \in Nat
  BY <1>1, MsgsFinite
<1> DEFINE n == N(k, m)
           n1 == N(k, m)'
           a == MsgsCount(s, {k}, m)
           b == MsgsCount(batch[t], {k}, m)
           c == Top(t, k, m)
<1>9. /\ n1 + a + b + c = n + 0 + b + a
      /\ n \in Nat /\ n1 \in Nat /\ a \in Nat /\ b \in Nat /\ c \in Nat
  BY <1>2, <1>3, <1>5, <1>6, <1>7, <1>8, Zenon DEF s
<1> HIDE DEF n, n1, a, b, c
<1>10. n1 + c = n
  BY <1>9
<1> QED
  BY <1>5, <1>10, Zenon DEF n, n1, c

\* The receiving end goes, and what waited is to be freed.
LEMMA CloseStepLaw ==
  ASSUME TypeOK, TodoOK, TypeOK', Counts, NEW t \in Threads, CloseStep(t)
  PROVE  Counts'
<1> DEFINE a == Head(todo[t]).mb
<1>1. /\ Doing(t, "close")
      /\ closed' = [closed EXCEPT ![a] = TRUE]
      /\ inbox' = Emptied(a)
      /\ Continue(t, Freeing(inbox[a]))
      /\ UNCHANGED <<alive, refs, portVars, loopVars>>
  BY Zenon DEF CloseStep
<1>2. todo[t] # <<>> /\ Head(todo[t]).op = "close"
  BY <1>1 DEF Doing
<1>3. a \in Mailboxes
  BY <1>2, HeadFacts
<1>4. Push(t, Freeing(inbox[a])) /\ UNCHANGED <<rx, tx, batch>>
  BY <1>1, <1>2 DEF Push, portVars, loopVars
<1>9. a = Head(todo[t]).mb
  OBVIOUS
<1> HIDE DEF a
<1> SUFFICES ASSUME NEW m \in Mailboxes PROVE Law(m)'
  BY DEF Counts
<1>5. Law(m)
  BY DEF Counts
<1>6. ASSUME NEW k \in Kinds
      PROVE  /\ Bounded(k, m)' /\ N(k, m)' \in Nat
             /\ N(k, m)' + One({k}, "close", a, m) = N(k, m)
  <2>1. Bounded(k, m)
    BY <1>5 DEF Law
  <2>2. Top(t, k, m) = One({k}, "close", a, m)
    <3>1. Top(t, k, m) = One({k}, "close", Head(todo[t]).mb, m)
      BY <1>2, TopWeight
    <3> QED
      BY <1>9, <3>1
  <2>3. /\ Bounded(k, m)' /\ N(k, m)' \in Nat /\ N(k, m)' + Top(t, k, m) = N(k, m)
    BY <1>1, <1>3, <1>4, <2>1, EmptyingCount
  <2> QED
    BY <2>2, <2>3
<1>7. /\ alive'[m] = alive[m] /\ refs'[m] = refs[m]
      /\ closed'[m] = IF a = m THEN TRUE ELSE closed[m]
  BY <1>1, <1>3 DEF TypeOK, MailboxTypeOK
<1> QED
  BY <1>5, <1>6, <1>7, LawClosed

\* A reference goes, and with the last one the mailbox.
LEMMA UnrefStepLaw ==
  ASSUME TypeOK, TodoOK, TypeOK', Counts, NEW t \in Threads, UnrefStep(t),
         refs[Head(todo[t]).mb] = 1 => closed[Head(todo[t]).mb]
  PROVE  Counts'
<1> DEFINE a == Head(todo[t]).mb
<1>1. /\ Doing(t, "unref")
      /\ refs' = [refs EXCEPT ![a] = @ - 1]
      /\ IF refs[a] = 1
         THEN /\ alive' = [alive EXCEPT ![a] = "freed"]
              /\ inbox' = Emptied(a)
              /\ Continue(t, Freeing(inbox[a]))
         ELSE Continue(t, <<>>) /\ UNCHANGED <<alive, inbox>>
      /\ UNCHANGED <<closed, portVars, loopVars>>
  BY Zenon DEF UnrefStep
<1>2. todo[t] # <<>> /\ Head(todo[t]).op = "unref"
  BY <1>1 DEF Doing
<1>3. a \in Mailboxes
  BY <1>2, HeadFacts
<1>4. UNCHANGED <<rx, tx, batch>>
  BY <1>1 DEF portVars, loopVars
<1>9. a = Head(todo[t]).mb /\ (refs[a] = 1 => closed[a])
  OBVIOUS
<1> HIDE DEF a
<1> SUFFICES ASSUME NEW m \in Mailboxes PROVE Law(m)'
  BY DEF Counts
<1>5. Law(m)
  BY DEF Counts
<1>6. ASSUME NEW k \in Kinds
      PROVE  /\ Bounded(k, m)' /\ N(k, m)' \in Nat
             /\ N(k, m)' + One({k}, "unref", a, m) = N(k, m)
  <2>1. Bounded(k, m)
    BY <1>5 DEF Law
  <2>2. Top(t, k, m) = One({k}, "unref", a, m)
    <3>1. Top(t, k, m) = One({k}, "unref", Head(todo[t]).mb, m)
      BY <1>2, TopWeight, ZenonT(60)
    <3> QED
      BY <1>9, <3>1
  <2>3. /\ Bounded(k, m)' /\ N(k, m)' \in Nat /\ N(k, m)' + Top(t, k, m) = N(k, m)
    <3>1. CASE refs[a] = 1
      <4>1. Push(t, Freeing(inbox[a])) /\ inbox' = Emptied(a)
        BY <1>1, <1>2, <3>1 DEF Push
      <4> QED
        BY <1>3, <1>4, <2>1, <4>1, EmptyingCount
    <3>2. CASE refs[a] # 1
      <4> DEFINE r == <<>>
      <4>1. Push(t, r) /\ r \in Seq(Op) /\ UNCHANGED <<rx, tx, inbox, batch>> /\ r = <<>>
        BY <1>1, <1>2, <1>4, <3>2, EmptyType DEF Push
      <4> HIDE DEF r
      <4>2. /\ Bounded(k, m)'
            /\ N(k, m)' + Top(t, k, m) = N(k, m) + StackCount(r, {k}, m)
            /\ N(k, m) \in Nat /\ N(k, m)' \in Nat
        <5>1. StackBalanced(t, r, k, m)
          BY <2>1, <4>1, QuietCount
        <5> QED
          BY <5>1, Zenon DEF StackBalanced
      <4>3. StackCount(r, {k}, m) = 0
        BY <4>1, StackFinite
      <4> QED
        BY <4>2, <4>3
    <3> QED
      BY <3>1, <3>2
  <2> QED
    BY <2>2, <2>3
<1>7. /\ closed'[m] = closed[m]
      /\ refs'[m] = IF a = m THEN refs[m] - 1 ELSE refs[m]
      /\ alive'[m] = IF a = m /\ refs[m] = 1 THEN "freed" ELSE alive[m]
  BY <1>1, <1>3 DEF TypeOK, MailboxTypeOK
<1> QED
  BY <1>5, <1>6, <1>7, <1>9, LawUnref

\* The message moves from the stack into the inbox, or is to be freed.
LEMMA PostStepLaw ==
  ASSUME TypeOK, TodoOK, TypeOK', Counts, NEW t \in Threads, PostStep(t)
  PROVE  Counts'
<1> DEFINE q == Head(todo[t]).mb
           x == Head(todo[t]).msg
           s == <<x>>
<1>1. /\ Doing(t, "post")
      /\ IF closed[q]
         THEN Continue(t, Freeing(s)) /\ UNCHANGED <<inbox, wake>>
         ELSE /\ inbox' = [inbox EXCEPT ![q] = Enqueue(@, x)]
              /\ Continue(t, <<>>)
      /\ UNCHANGED <<alive, refs, closed, rx, tx, loopVars>>
  BY Zenon DEF PostStep
<1>2. todo[t] # <<>> /\ Head(todo[t]).op = "post"
  BY <1>1 DEF Doing
<1>3. q \in Mailboxes /\ x \in Msg
  BY <1>2, HeadFacts
<1>4. UNCHANGED <<alive, refs, closed, rx, tx>> /\ UNCHANGED batch
  BY <1>1 DEF loopVars
<1>5. \A k, m : Top(t, k, m) = MsgCount(x, {k}, m)
  BY <1>2, TopWeight
<1> HIDE DEF q, x
<1> SUFFICES ASSUME NEW m \in Mailboxes PROVE Law(m)'
  BY DEF Counts
<1>6. Law(m)
  BY DEF Counts
<1>7. s \in Seq(Msg) /\ \A k : MsgsCount(s, {k}, m) = MsgCount(x, {k}, m)
  BY <1>3, MsgsOne
<1>8. CASE closed[q]
  <2> DEFINE r == Freeing(s)
  <2>1. r \in Seq(Op) /\ \A k : StackCount(r, {k}, m) = MsgsCount(s, {k}, m)
    BY <1>7, FreeingCount
  <2>2. Push(t, r) /\ UNCHANGED <<alive, refs, closed, inbox, rx, tx, batch>>
    BY <1>1, <1>2, <1>4, <1>8 DEF Push
  <2> HIDE DEF r, s
  <2>3. ASSUME NEW k \in Kinds PROVE StackCount(r, {k}, m) = Top(t, k, m)
    <3>1. /\ StackCount(r, {k}, m) = MsgsCount(s, {k}, m)
          /\ MsgsCount(s, {k}, m) = MsgCount(x, {k}, m)
          /\ Top(t, k, m) = MsgCount(x, {k}, m)
      BY <1>5, <1>7, <2>1, Zenon
    <3> QED
      BY <3>1, Zenon
  <2> QED
    BY <1>6, <2>1, <2>2, <2>3, QuietLaw
<1>9. CASE ~closed[q]
  <2> DEFINE r == <<>>
             i == inbox[q]
  <2>1. r \in Seq(Op) /\ Push(t, r) /\ r = <<>>
    BY <1>1, <1>2, <1>9, EmptyType DEF Push
  <2>2. i \in Seq(Msg)
    BY <1>3 DEF TypeOK, MailboxTypeOK
  <2>3. inbox'[q] = i \o s /\ Within(t, q) /\ batch'[t] = batch[t]
    <3>1. inbox' = [inbox EXCEPT ![q] = Append(@, x)]
      BY <1>1, <1>9 DEF Enqueue
    <3>2. Append(i, x) = i \o <<x>>
      BY <1>3, <2>2
    <3>3. inbox'[q] = i \o s /\ \A e \in Mailboxes : e # q => inbox'[e] = inbox[e]
      BY <1>3, <3>1, <3>2 DEF TypeOK, MailboxTypeOK
    <3> QED
      BY <1>4, <3>3 DEF Within
  <2>9. i = inbox[q] /\ batch[t] \in Seq(Msg)
    BY DEF TypeOK, LoopTypeOK
  <2> HIDE DEF r, i, s
  <2>4. ASSUME NEW k \in Kinds
        PROVE  MsgsCount(inbox[q], {k}, m) + MsgsCount(batch[t], {k}, m) + Top(t, k, m)
              = MsgsCount(inbox'[q], {k}, m) + MsgsCount(batch'[t], {k}, m)
                + StackCount(r, {k}, m)
    <3>1. MsgsCount(i \o s, {k}, m) = MsgsCount(i, {k}, m) + MsgsCount(s, {k}, m)
      BY <1>7, <2>2, MsgsConcat
    <3>2. StackCount(r, {k}, m) = 0
      BY <2>1, StackFinite
    <3>3. Top(t, k, m) = MsgsCount(s, {k}, m)
      BY <1>5, <1>7
    <3>4. MsgsCount(i, {k}, m) \in Nat /\ MsgsCount(s, {k}, m) \in Nat
          /\ MsgsCount(batch[t], {k}, m) \in Nat
      BY <1>7, <2>2, <2>9, MsgsFinite
    <3> DEFINE a == MsgsCount(i, {k}, m)
               b == MsgsCount(batch[t], {k}, m)
               c == MsgsCount(s, {k}, m)
    <3>5. a \in Nat /\ b \in Nat /\ c \in Nat
      BY <3>4
    <3>6. /\ MsgsCount(inbox[q], {k}, m) = a /\ MsgsCount(batch[t], {k}, m) = b
          /\ MsgsCount(inbox'[q], {k}, m) = a + c /\ MsgsCount(batch'[t], {k}, m) = b
          /\ Top(t, k, m) = c /\ StackCount(r, {k}, m) = 0
      BY <2>3, <2>9, <3>1, <3>2, <3>3, Zenon
    <3> HIDE DEF a, b, c
    <3> QED
      BY <3>5, <3>6
  <2> QED
    BY <1>3, <1>4, <1>6, <2>1, <2>3, <2>4, MovingLaw
<1> QED
  BY <1>8, <1>9

\* The references of the next port in transit are to be released.
LEMMA FreeStepLaw ==
  ASSUME TypeOK, TodoOK, TypeOK', Counts, NEW t \in Threads, FreeStep(t)
  PROVE  Counts'
<1> DEFINE s == Head(todo[t]).msgs
           x == Head(s)
           y == [x EXCEPT !.ports = Tail(@)]
           c == Head(x.ports)
           l == Tail(s)
<1>1. /\ Doing(t, "free")
      /\ IF x.ports = <<>>
         THEN Continue(t, Freeing(l))
         ELSE Continue(t, Release(c.rx, c.tx) \o Freeing(<<y>> \o l))
      /\ UNCHANGED <<mailboxVars, portVars, loopVars>>
  BY Zenon DEF FreeStep
<1>2. todo[t] # <<>> /\ Head(todo[t]).op = "free"
  BY <1>1 DEF Doing
<1>3. s \in Seq(Msg) /\ s # <<>>
  BY <1>2, HeadFacts
<1>4. UNCHANGED <<alive, refs, closed, inbox, rx, tx, batch>>
  BY <1>1 DEF mailboxVars, portVars, loopVars
<1>5. \A k, m : Top(t, k, m) = MsgsCount(s, {k}, m)
  BY <1>2, TopWeight
<1> HIDE DEF s
<1> SUFFICES ASSUME NEW m \in Mailboxes PROVE Law(m)'
  BY DEF Counts
<1>6. Law(m)
  BY DEF Counts
<1>7. /\ x \in Msg /\ l \in Seq(Msg)
      /\ \A k : MsgsCount(s, {k}, m) = MsgCount(x, {k}, m) + MsgsCount(l, {k}, m)
  BY <1>3, MsgsHead
<1> HIDE DEF x, l
<1>8. CASE x.ports = <<>>
  <2> DEFINE r == Freeing(l)
  <2>1. r \in Seq(Op) /\ \A k : StackCount(r, {k}, m) = MsgsCount(l, {k}, m)
    BY <1>7, FreeingCount
  <2>2. Push(t, r)
    BY <1>1, <1>2, <1>8 DEF Push
  <2>3. \A k : MsgCount(x, {k}, m) = 0 /\ MsgsCount(l, {k}, m) \in Nat
    BY <1>7, <1>8, MsgFinite, MsgsFinite
  <2> HIDE DEF r
  <2>4. ASSUME NEW k \in Kinds PROVE StackCount(r, {k}, m) = Top(t, k, m)
    <3>1. /\ StackCount(r, {k}, m) = MsgsCount(l, {k}, m)
          /\ MsgsCount(s, {k}, m) = MsgCount(x, {k}, m) + MsgsCount(l, {k}, m)
          /\ Top(t, k, m) = MsgsCount(s, {k}, m)
          /\ MsgCount(x, {k}, m) = 0 /\ MsgsCount(l, {k}, m) \in Nat
      BY <1>5, <1>7, <2>1, <2>3, Zenon
    <3> QED
      BY <3>1
  <2> QED
    BY <1>4, <1>6, <2>1, <2>2, <2>4, QuietLaw
<1>9. CASE x.ports # <<>>
  <2> DEFINE a == c.rx
             b == c.tx
             z == <<y>>
             w == z \o l
             p == Release(a, b)
             f == Freeing(w)
             r == p \o f
  <2>1. /\ c \in PortRef /\ y \in Msg
        /\ \A k : MsgCount(x, {k}, m) = One({k}, "rx", a, m) + One({k}, "tx", b, m)
                                        + MsgCount(y, {k}, m)
    BY <1>7, <1>9, MsgPort
  <2>2. a \in Mailboxes /\ b \in Mailboxes
    BY <2>1 DEF PortRef
  <2>3. Continue(t, r)
    BY <1>1, <1>9
  <2> HIDE DEF a, b, y
  <2>4. z \in Seq(Msg) /\ \A k : MsgsCount(z, {k}, m) = MsgCount(y, {k}, m)
    BY <2>1, MsgsOne
  <2> HIDE DEF z
  <2>5. w \in Seq(Msg) /\ \A k : MsgsCount(w, {k}, m) = MsgsCount(z, {k}, m) + MsgsCount(l, {k}, m)
    BY <1>7, <2>4, MsgsConcat
  <2> HIDE DEF w
  <2>6. f \in Seq(Op) /\ \A k : StackCount(f, {k}, m) = MsgsCount(w, {k}, m)
    BY <2>5, FreeingCount
  <2>7. p \in Seq(Op) /\ \A k : StackCount(p, {k}, m)
              = One({k}, "close", a, m) + One({k}, "unref", a, m) + One({k}, "unref", b, m)
    BY <2>2, ReleaseCount
  <2> HIDE DEF f, p
  <2>8. r \in Seq(Op) /\ \A k : StackCount(r, {k}, m) = StackCount(p, {k}, m) + StackCount(f, {k}, m)
    BY <2>6, <2>7, StackConcat
  <2>9. Push(t, r)
    BY <1>2, <2>3 DEF Push
  <2> HIDE DEF r
  <2>10. ASSUME NEW k \in Kinds
         PROVE  /\ Bounded(k, m)' /\ N(k, m)' \in Nat
                /\ N(k, m)' + One({k}, "rx", a, m) + One({k}, "tx", b, m)
                     = N(k, m) + One({k}, "close", a, m) + One({k}, "unref", a, m)
                               + One({k}, "unref", b, m)
    <3>1. Bounded(k, m)
      BY <1>6 DEF Law
    <3>2. /\ Bounded(k, m)'
          /\ N(k, m)' + Top(t, k, m) = N(k, m) + StackCount(r, {k}, m)
          /\ N(k, m) \in Nat /\ N(k, m)' \in Nat
      <4>1. UNCHANGED <<rx, tx, inbox, batch>>
        BY <1>4
      <4>2. StackBalanced(t, r, k, m)
        BY <2>8, <2>9, <3>1, <4>1, QuietCount
      <4> QED
        BY <4>2, Zenon DEF StackBalanced
    <3>3. MsgCount(y, {k}, m) \in Nat /\ MsgsCount(l, {k}, m) \in Nat
      BY <1>7, <2>1, MsgFinite, MsgsFinite
    <3>4. /\ One({k}, "rx", a, m) \in {0, 1} /\ One({k}, "tx", b, m) \in {0, 1}
          /\ One({k}, "close", a, m) \in {0, 1} /\ One({k}, "unref", a, m) \in {0, 1}
          /\ One({k}, "unref", b, m) \in {0, 1}
      BY OneType
    <3> DEFINE n == N(k, m)
               n1 == N(k, m)'
               o1 == One({k}, "rx", a, m)
               o2 == One({k}, "tx", b, m)
               o3 == One({k}, "close", a, m)
               o4 == One({k}, "unref", a, m)
               o5 == One({k}, "unref", b, m)
               u == MsgCount(y, {k}, m)
               v == MsgsCount(l, {k}, m)
    <3>5. Top(t, k, m) = (o1 + o2 + u) + v
      BY <1>5, <1>7, <2>1, Zenon
    <3>6. StackCount(r, {k}, m) = (o3 + o4 + o5) + (u + v)
      <4>1. /\ StackCount(r, {k}, m) = StackCount(p, {k}, m) + StackCount(f, {k}, m)
            /\ StackCount(p, {k}, m) = o3 + o4 + o5
        BY <2>7, <2>8, Zenon
      <4>2. StackCount(f, {k}, m) = u + v
        <5>1. /\ StackCount(f, {k}, m) = MsgsCount(w, {k}, m)
              /\ MsgsCount(w, {k}, m) = MsgsCount(z, {k}, m) + MsgsCount(l, {k}, m)
              /\ MsgsCount(z, {k}, m) = MsgCount(y, {k}, m)
          BY <2>4, <2>5, <2>6, Zenon
        <5> QED
          BY <5>1, Zenon
      <4> QED
        BY <4>1, <4>2, Zenon
    <3>7. n1 + ((o1 + o2 + u) + v) = n + ((o3 + o4 + o5) + (u + v))
      BY <3>2, <3>5, <3>6, Zenon
    <3>8. /\ n \in Nat /\ n1 \in Nat /\ u \in Nat /\ v \in Nat /\ o1 \in {0, 1} /\ o2 \in {0, 1}
          /\ o3 \in {0, 1} /\ o4 \in {0, 1} /\ o5 \in {0, 1}
      BY <3>2, <3>3, <3>4, Zenon
    <3> HIDE DEF n, n1, o1, o2, o3, o4, o5, u, v
    <3>9. n1 + o1 + o2 = n + o3 + o4 + o5
      BY <3>7, <3>8
    <3> QED
      BY <3>2, <3>9, Zenon DEF n, n1, o1, o2, o3, o4, o5
  <2>11. alive'[m] = alive[m] /\ refs'[m] = refs[m] /\ closed'[m] = closed[m]
    BY <1>4
  <2> QED
    BY <1>6, <2>10, <2>11, LawDropped
<1> QED
  BY <1>8, <1>9

\* A worker whose near end is about to be shut has been waited for, or is about to be.
Waited(t, i, p) ==
  \A u \in Threads : near[u] = p => phase[u] = "freed" \/ (i = 2 /\ todo[t][1] = JoinOp(u))

\* What stands on a stack, and where: a close is followed by the release of the same reference;
\* only the send side of a live port is posted to; the operations on a port find it as they need it.
PlaceOK(t, i) ==
  LET o == todo[t][i]
  IN  /\ o.op = "close" => i < Len(todo[t]) /\ todo[t][i + 1] = UnrefOp(o.mb)
      /\ o.op = "post" => i = 1 /\ \E p \in Ports : Live(p) /\ home[p] = t /\ tx[p] = o.mb
      /\ o.op \in {"wake", "splice", "start"} => Live(o.port)
      /\ o.op = "wake" => i = 1 /\ Len(todo[t]) = 1
      /\ o.op = "uvclose" => i = Len(todo[t]) /\ handle[o.port] = "active"
      /\ o.op = "shut" => /\ handle[o.port] # "freed"
                          /\ i = 1 \/ (i = 2 /\ todo[t][1].op = "join")
                          /\ Waited(t, i, o.port)
StackOK == \A t \in Threads : \A i \in DOMAIN todo[t] : PlaceOK(t, i)

\* A callback runs on the thread of its port, and a batch belongs to a callback.
CallbackOK ==
  \A t \in Threads :
    /\ cur[t] = None => batch[t] = <<>>
    /\ cur[t] # None => /\ home[cur[t]] = t /\ handle[cur[t]] # "freed"
                        /\ Live(cur[t]) => src[t] = rx[cur[t]]

\* The last reference goes after the receive side was closed.
LEMMA LastUnref ==
  ASSUME TypeOK, Counts, StackOK, NEW t \in Threads, todo[t] # <<>>, Head(todo[t]).op = "unref",
         refs[Head(todo[t]).mb] = 1
  PROVE  closed[Head(todo[t]).mb]
<1> DEFINE a == Head(todo[t]).mb
<1>1. a \in Mailboxes /\ todo[t] \in Seq(Op)
  BY HeadFacts DEF TypeOK, TodoTypeOK
<1>2. OpAt(t, 1, "unref", a)
  BY <1>1 DEF OpAt
<1>3. refs[a] = 1
  OBVIOUS
<1> HIDE DEF a
<1>4. Law(a)
  BY <1>1 DEF Counts
<1>5. /\ N("unref", a) \in Nat /\ N("unref", a) >= 1
      /\ \A u \in Threads : \A j :
            OpAt(u, j, "unref", a) /\ (u # t \/ j # 1) => N("unref", a) >= 2
  BY <1>2, <1>4, OpsHold
<1>6. N("rx", a) = 0 /\ N("unref", a) = 1 /\ alive[a] = "live"
  BY <1>3, <1>4, <1>5, LawNumbers DEF Law
<1> SUFFICES ASSUME ~closed[a] PROVE FALSE
  BY DEF a
<1>7. N("close", a) >= 1
  BY <1>4, <1>6, LawNumbers DEF Law
<1>8. PICK u \in Threads : \E i : OpAt(u, i, "close", a)
  BY <1>4, <1>7, CloserExists
<1>9. PICK i : OpAt(u, i, "close", a)
  BY <1>8
<1>10. i \in DOMAIN todo[u] /\ todo[u][i].op = "close" /\ todo[u][i].mb = a
  BY <1>9 DEF OpAt
<1>11. PlaceOK(u, i) /\ todo[u] \in Seq(Op)
  BY <1>10 DEF StackOK, TypeOK, TodoTypeOK
<1>12. /\ i \in 1..Len(todo[u]) /\ Len(todo[u]) \in Nat
       /\ i < Len(todo[u]) /\ todo[u][i + 1] = UnrefOp(a)
  BY <1>10, <1>11 DEF PlaceOK
<1>13. i + 1 \in DOMAIN todo[u] /\ i + 1 # 1
  BY <1>11, <1>12
<1>14. OpAt(u, i + 1, "unref", a)
  BY <1>12, <1>13 DEF OpAt, UnrefOp
<1> QED
  BY <1>5, <1>6, <1>13, <1>14

\* The inbox becomes the batch of the callback.
LEMMA SpliceLaw ==
  ASSUME TypeOK, TodoOK, TypeOK', PortOK, CallbackOK, Counts, NEW t \in Threads, SpliceStep(t)
  PROVE  Counts'
<1> DEFINE p == Head(todo[t]).port
           q == rx[p]
           r == <<>>
<1>1. /\ Doing(t, "splice")
      /\ inbox' = Emptied(q) /\ batch' = [batch EXCEPT ![t] = inbox[q]]
      /\ Continue(t, r)
      /\ UNCHANGED <<alive, refs, closed, portVars>>
  BY Zenon DEF SpliceStep
<1>2. todo[t] # <<>> /\ Head(todo[t]).op = "splice"
  BY <1>1 DEF Doing
<1>3. p \in Ports /\ OpOK(t, Head(todo[t])) /\ Head(todo[t]).op \in Weightless
  BY <1>2, HeadFacts DEF TodoOK, Weightless
<1>4. Live(p) /\ cur[t] = None
  BY <1>2, <1>3 DEF OpOK
<1> HIDE DEF p
<1>5. q \in Mailboxes /\ batch[t] = <<>>
  BY <1>3, <1>4 DEF PortOK, CallbackOK
<1>6. Push(t, r) /\ r \in Seq(Op) /\ r = <<>>
  BY <1>1, <1>2, EmptyType DEF Push
<1> HIDE DEF q, r
<1>7. /\ inbox'[q] = <<>> /\ batch'[t] = inbox[q] /\ Within(t, q)
      /\ UNCHANGED <<alive, refs, closed, rx, tx>>
      /\ inbox[q] \in Seq(Msg)
  BY <1>1, <1>5 DEF Emptied, Within, TypeOK, MailboxTypeOK, LoopTypeOK, portVars
<1> SUFFICES ASSUME NEW m \in Mailboxes PROVE Law(m)'
  BY DEF Counts
<1>8. ASSUME NEW k \in Kinds
      PROVE  MsgsCount(inbox[q], {k}, m) + MsgsCount(batch[t], {k}, m) + Top(t, k, m)
              = MsgsCount(inbox'[q], {k}, m) + MsgsCount(batch'[t], {k}, m)
                + StackCount(r, {k}, m)
  <2>1. Top(t, k, m) = 0 /\ StackCount(r, {k}, m) = 0
    BY <1>2, <1>3, <1>6, TopWeight, StackFinite
  <2>2. MsgsCount(batch[t], {k}, m) = 0 /\ MsgsCount(inbox'[q], {k}, m) = 0
    <3> DEFINE z == batch[t]
               y == inbox'[q]
    <3>1. z = <<>> /\ z \in Seq(Msg) /\ y = <<>> /\ y \in Seq(Msg)
      BY <1>5, <1>7, EmptyType
    <3> HIDE DEF y, z
    <3>2. MsgsCount(z, {k}, m) = 0 /\ MsgsCount(y, {k}, m) = 0
      BY <3>1, MsgsFinite
    <3> QED
      BY <3>2 DEF y, z
  <2>3. MsgsCount(inbox[q], {k}, m) \in Nat
    BY <1>7, MsgsFinite
  <2> DEFINE a == MsgsCount(inbox[q], {k}, m)
  <2>4. a \in Nat /\ MsgsCount(batch'[t], {k}, m) = a /\ MsgsCount(inbox[q], {k}, m) = a
    BY <1>7, <2>3, Zenon
  <2> HIDE DEF a
  <2> QED
    BY <2>1, <2>2, <2>4
<1>9. Law(m)
  BY DEF Counts
<1> QED
  BY <1>5, <1>6, <1>7, <1>8, <1>9, MovingLaw

\* The references of the message move into the new ports.
LEMMA DispatchLaw ==
  ASSUME TypeOK, TodoOK, TypeOK', Sides, Counts, NEW t \in Threads, Dispatch(t)
  PROVE  Counts'
<1>1. /\ todo[t] = <<>> /\ batch[t] # <<>>
      /\ Adopt(t, Head(batch[t])) \/ UNCHANGED <<portVars, batch>>
      /\ UNCHANGED <<mailboxVars, todo>>
  BY Zenon DEF Dispatch
<1>2. UNCHANGED <<alive, refs, closed, inbox, todo>>
  BY <1>1 DEF mailboxVars
<1>3. CASE Adopt(t, Head(batch[t]))
  <2>1. PICK f : Adopted(t, Head(batch[t]), f)
    BY <1>1, <1>3, AdoptSides
  <2>2. \A m \in Mailboxes : Law(m)'
    BY <1>1, <1>2, <2>1, AdoptLaw DEF Counts
  <2> QED
    BY <2>2 DEF Counts
<1>4. CASE UNCHANGED <<portVars, batch>>
  <2>1. UNCHANGED <<alive, refs, closed, inbox, rx, tx, batch, todo>>
    BY <1>2, <1>4 DEF portVars
  <2> QED
    BY <1>1, <2>1, StillLaw
<1> QED
  BY <1>1, <1>3, <1>4

\* Messages of a batch are freed.
LEMMA BatchFreedLaw ==
  ASSUME TypeOK, TodoOK, TypeOK', Counts, NEW t \in Threads, todo[t] = <<>>,
         NEW s \in Seq(Msg), NEW l \in Seq(Msg), Call(t, Freeing(s)),
         batch' = [batch EXCEPT ![t] = l],
         \A k, m : MsgsCount(batch[t], {k}, m) = MsgsCount(l, {k}, m) + MsgsCount(s, {k}, m),
         UNCHANGED <<alive, refs, closed, inbox, rx, tx>>
  PROVE  Counts'
<1> SUFFICES ASSUME NEW m \in Mailboxes PROVE Law(m)'
  BY DEF Counts
<1> DEFINE r == Freeing(s)
<1>1. r \in Seq(Op) /\ \A k : StackCount(r, {k}, m) = MsgsCount(s, {k}, m)
  BY FreeingCount
<1>2. Push(t, r)
  BY DEF Push
<1>3. batch'[t] = l /\ Within(t, m) /\ inbox'[m] = inbox[m] /\ inbox[m] \in Seq(Msg)
  BY DEF TypeOK, LoopTypeOK, MailboxTypeOK, Within
<1> HIDE DEF r
<1>4. ASSUME NEW k \in Kinds
      PROVE  MsgsCount(inbox[m], {k}, m) + MsgsCount(batch[t], {k}, m) + Top(t, k, m)
              = MsgsCount(inbox'[m], {k}, m) + MsgsCount(batch'[t], {k}, m)
                + StackCount(r, {k}, m)
  <2> DEFINE a == MsgsCount(inbox[m], {k}, m)
             b == MsgsCount(l, {k}, m)
             c == MsgsCount(s, {k}, m)
  <2>1. a \in Nat /\ b \in Nat /\ c \in Nat
    BY <1>3, MsgsFinite
  <2>2. Top(t, k, m) = 0
    BY TopFacts
  <2>3. /\ MsgsCount(inbox[m], {k}, m) = a /\ MsgsCount(inbox'[m], {k}, m) = a
        /\ MsgsCount(batch'[t], {k}, m) = b /\ StackCount(r, {k}, m) = c
        /\ MsgsCount(batch[t], {k}, m) = b + c
    BY <1>1, <1>3, Zenon
  <2> HIDE DEF a, b, c
  <2> QED
    BY <2>1, <2>2, <2>3
<1>5. Law(m) /\ UNCHANGED <<alive, refs, closed, rx, tx>>
  BY DEF Counts
<1> QED
  BY <1>1, <1>2, <1>3, <1>4, <1>5, MovingLaw

\* The message that was handled is to be freed.
LEMMA HandlerLaw ==
  ASSUME TypeOK, TodoOK, TypeOK', BusyOK, Counts, NEW t \in Threads, HandlerReturn(t)
  PROVE  Counts'
<1> DEFINE x == Head(batch[t])
           l == Tail(batch[t])
           s == <<x>>
<1>1. /\ busy[t] /\ todo[t] = <<>>
      /\ batch' = [batch EXCEPT ![t] = Tail(@)]
      /\ Call(t, Freeing(s)) /\ UNCHANGED <<mailboxVars, portVars>>
  BY Zenon DEF HandlerReturn
<1>2. batch[t] # <<>> /\ batch[t] \in Seq(Msg)
  BY <1>1 DEF BusyOK, TypeOK, LoopTypeOK
<1>3. batch' = [batch EXCEPT ![t] = l]
  BY <1>1 DEF TypeOK, LoopTypeOK
<1>4. /\ x \in Msg /\ l \in Seq(Msg)
      /\ \A k, m : MsgsCount(batch[t], {k}, m) = MsgCount(x, {k}, m) + MsgsCount(l, {k}, m)
  BY <1>2, MsgsHead
<1> HIDE DEF x, l
<1>5. s \in Seq(Msg) /\ \A k, m : MsgsCount(s, {k}, m) = MsgCount(x, {k}, m)
  BY <1>4, MsgsOne
<1>6. ASSUME NEW k, NEW m
      PROVE  MsgsCount(batch[t], {k}, m) = MsgsCount(l, {k}, m) + MsgsCount(s, {k}, m)
  <2>1. MsgCount(x, {k}, m) \in Nat /\ MsgsCount(l, {k}, m) \in Nat
    BY <1>4, MsgFinite, MsgsFinite
  <2>2. MsgsCount(batch[t], {k}, m) = MsgCount(x, {k}, m) + MsgsCount(l, {k}, m)
    BY <1>4, Zenon
  <2>3. MsgsCount(s, {k}, m) = MsgCount(x, {k}, m)
    BY <1>5, Zenon
  <2> HIDE DEF s
  <2> QED
    BY <2>1, <2>2, <2>3
<1>7. Call(t, Freeing(s)) /\ UNCHANGED <<alive, refs, closed, inbox, rx, tx>>
  BY <1>1 DEF mailboxVars, portVars
<1> HIDE DEF s
<1> QED
  BY <1>1, <1>3, <1>4, <1>5, <1>6, <1>7, BatchFreedLaw

\* So is the rest of the batch of a port that is no longer live.
LEMMA DropRestLaw ==
  ASSUME TypeOK, TodoOK, TypeOK', Counts, NEW t \in Threads, DropRest(t)
  PROVE  Counts'
<1> DEFINE s == batch[t]
           l == <<>>
<1>1. /\ todo[t] = <<>> /\ batch' = [batch EXCEPT ![t] = l]
      /\ Call(t, Freeing(s)) /\ UNCHANGED <<mailboxVars, portVars>>
  BY Zenon DEF DropRest
<1>2. s \in Seq(Msg) /\ l \in Seq(Msg) /\ l = <<>> /\ s = batch[t]
  BY EmptyType DEF TypeOK, LoopTypeOK
<1>3. UNCHANGED <<alive, refs, closed, inbox, rx, tx>>
  BY <1>1 DEF mailboxVars, portVars
<1> HIDE DEF s, l
<1>4. ASSUME NEW k, NEW m
      PROVE  MsgsCount(batch[t], {k}, m) = MsgsCount(l, {k}, m) + MsgsCount(s, {k}, m)
  <2>1. MsgsCount(s, {k}, m) \in Nat /\ MsgsCount(l, {k}, m) = 0
    BY <1>2, MsgsFinite
  <2>2. MsgsCount(batch[t], {k}, m) = MsgsCount(s, {k}, m)
    BY <1>2, Zenon
  <2> QED
    BY <2>1, <2>2
<1> QED
  BY <1>1, <1>2, <1>3, <1>4, BatchFreedLaw

\* A step that is done with an operation that holds nothing.
LEMMA PopLaw ==
  ASSUME TypeOK, TodoOK, TypeOK', Counts, NEW t \in Threads, todo[t] # <<>>,
         Head(todo[t]).op \in Weightless, Continue(t, <<>>),
         UNCHANGED <<alive, refs, closed, inbox, rx, tx, batch>>
  PROVE  Counts'
<1> DEFINE r == <<>>
<1>1. Push(t, r) /\ r \in Seq(Op) /\ DOMAIN r = {}
  BY EmptyType DEF Push
<1> HIDE DEF r
<1>2. \A i \in DOMAIN r : r[i].op \in Weightless
  BY <1>1
<1> QED
  BY <1>1, <1>2, LightLaw

\* The Worker object starts its end of the pipe.
LEMMA StartStepLaw ==
  ASSUME TypeOK, TodoOK, TypeOK', Counts, NEW t \in Threads, StartStep(t)
  PROVE  Counts'
<1> DEFINE p == Head(todo[t]).port
<1>1. Doing(t, "start") /\ Own(p) /\ Continue(t, Flush(p)) /\ UNCHANGED loopVars
  BY Zenon DEF StartStep
<1>2. todo[t] # <<>> /\ Head(todo[t]).op = "start"
  BY <1>1 DEF Doing
<1>3. p \in Ports /\ Head(todo[t]).op \in Weightless
  BY <1>2, HeadFacts DEF Weightless
<1> HIDE DEF p
<1>4. UNCHANGED <<alive, refs, closed, inbox, rx, tx, batch>>
  <2>1. UNCHANGED <<alive, refs, closed, inbox, rx, tx>>
    BY <1>1, Zenon DEF Own
  <2> QED
    BY <1>1, <2>1 DEF loopVars
<1>5. Push(t, Flush(p))
  BY <1>1, <1>2 DEF Push
<1>6. Flush(p) \in Seq(Op) /\ \A i \in DOMAIN Flush(p) : Flush(p)[i].op \in Weightless
  BY <1>3, PortOpAlone DEF Flush, Weightless
<1> QED
  BY <1>3, <1>4, <1>5, <1>6, LightLaw

\* Operations that hold no reference are done.
LEMMA LightSteps ==
  ASSUME TypeOK, TodoOK, TypeOK', Counts, NEW t \in Threads,
         WakeStep(t) \/ UvCloseStep(t) \/ JoinStep(t)
  PROVE  Counts'
<1>1. /\ Doing(t, "wake") \/ Doing(t, "uvclose") \/ Doing(t, "join")
      /\ Continue(t, <<>>)
      /\ UNCHANGED <<mailboxVars, rx, tx, loopVars>>
  <2>1. CASE WakeStep(t)
    BY <2>1, Zenon DEF WakeStep
  <2>2. CASE UvCloseStep(t)
    BY <2>2, Zenon DEF UvCloseStep
  <2>3. CASE JoinStep(t)
    <3>1. Doing(t, "join") /\ Continue(t, <<>>) /\ UNCHANGED <<mailboxVars, portVars, loopVars>>
      BY <2>3, Zenon DEF JoinStep
    <3> QED
      BY <3>1 DEF portVars
  <2> QED
    BY <2>1, <2>2, <2>3
<1>2. todo[t] # <<>> /\ Head(todo[t]).op \in Weightless
  BY <1>1 DEF Doing, Weightless
<1>3. UNCHANGED <<alive, refs, closed, inbox, rx, tx, batch>>
  BY <1>1 DEF mailboxVars, loopVars
<1> QED
  BY <1>1, <1>2, <1>3, PopLaw

\* A callback returns.
LEMMA ReturnLaw ==
  ASSUME TypeOK, TodoOK, TypeOK', Counts, NEW t \in Threads, CallbackReturn(t)
  PROVE  Counts'
<1>1. todo[t] = <<>> /\ UNCHANGED <<mailboxVars, portVars, todo, batch>>
  BY Zenon DEF CallbackReturn
<1>2. UNCHANGED <<alive, refs, closed, inbox, rx, tx, batch, todo>>
  BY <1>1 DEF mailboxVars, portVars
<1> QED
  BY <1>1, <1>2, StillLaw

\* What a script or the collector calls keeps the law of every mailbox,
LEMMA ScriptLaw ==
  ASSUME TypeOK, TodoOK, TypeOK', PortOK, Sides, Counts, NEW t \in Threads, Script(t)
  PROVE  Counts'
<1>1. CASE NewChannel(t)
  BY <1>1, NewChannelLaw
<1>2. CASE \E u \in Threads : SpawnWorker(t, u) \/ Terminate(t, u)
  BY <1>2, SpawnLaw, TerminateLaw
<1>3. CASE Stop(t)
  BY <1>3, StopLaw
<1>4. CASE \E p \in Ports : \E list \in TransferLists(t, p) : PostMessage(t, p, list)
  BY <1>4, PostMessageLaw
<1>5. CASE \E p \in Ports : Start(t, p) \/ Close(t, p) \/ Finalize(t, p)
  BY <1>5, StartLaw, CloseLaw, FinalizeLaw
<1> QED
  BY <1>1, <1>2, <1>3, <1>4, <1>5, Zenon DEF Script

\* what a thread does once it was called keeps it,
LEMMA StepLaw ==
  ASSUME TypeOK, TodoOK, TypeOK', PortOK, BusyOK, Sides, StackOK, CallbackOK, Counts,
         NEW t \in Threads, Step(t)
  PROVE  Counts'
<1>1. CASE CloseStep(t)
  BY <1>1, CloseStepLaw
<1>2. CASE UnrefStep(t)
  <2>1. todo[t] # <<>> /\ Head(todo[t]).op = "unref"
    BY <1>2 DEF UnrefStep, Doing
  <2> QED
    BY <1>2, <2>1, LastUnref, UnrefStepLaw
<1>3. CASE PostStep(t)
  BY <1>3, PostStepLaw
<1>4. CASE FreeStep(t)
  BY <1>4, FreeStepLaw
<1>5. CASE StartStep(t)
  BY <1>5, StartStepLaw
<1>6. CASE WakeStep(t) \/ UvCloseStep(t) \/ JoinStep(t)
  BY <1>6, LightSteps
<1>7. CASE ShutStep(t)
  BY <1>7, ShutLaw
<1>8. CASE SpliceStep(t)
  BY <1>8, SpliceLaw
<1>9. CASE Dispatch(t)
  BY <1>9, DispatchLaw
<1>10. CASE HandlerReturn(t)
  BY <1>10, HandlerLaw
<1>11. CASE DropRest(t)
  BY <1>11, DropRestLaw
<1>12. CASE CallbackReturn(t)
  BY <1>12, ReturnLaw
<1> QED
  BY <1>1, <1>2, <1>3, <1>4, <1>5, <1>6, <1>7, <1>8, <1>9, <1>10, <1>11, <1>12, Zenon DEF Step

\* and so does what its loop does.
LEMMA LoopLaw ==
  ASSUME TypeOK, TodoOK, TypeOK', Counts, NEW t \in Threads, Loop(t)
  PROVE  Counts'
<1>1. CASE \E p \in Ports : LoopWake(t, p)
  <2>1. PICK p \in Ports : LoopWake(t, p)
    BY <1>1
  <2> DEFINE r == IF Live(p) THEN <<PortOp("splice", p)>> ELSE <<>>
  <2>2. Turning(t) /\ Call(t, r) /\ UNCHANGED <<mailboxVars, rx, tx, loopVars>>
    BY <2>1, Zenon DEF LoopWake
  <2>3. todo[t] = <<>> /\ UNCHANGED <<alive, refs, closed, inbox, rx, tx, batch>>
    BY <2>2 DEF Turning, Idle, mailboxVars, loopVars
  <2>4. r \in Seq(Op) /\ \A i \in DOMAIN r : r[i].op \in Weightless
    BY PortOpAlone DEF Weightless
  <2> HIDE DEF r
  <2>5. Push(t, r)
    BY <2>2, <2>3 DEF Push
  <2> QED
    BY <2>3, <2>4, <2>5, LightLaw
<1>2. CASE CloseCb(t)
  <2>1. Idle(t) /\ UNCHANGED <<mailboxVars, rx, tx, todo, loopVars>>
    BY <1>2, Zenon DEF CloseCb
  <2>2. todo[t] = <<>> /\ UNCHANGED <<alive, refs, closed, inbox, rx, tx, batch, todo>>
    BY <2>1 DEF Idle, mailboxVars, loopVars
  <2> QED
    BY <2>2, StillLaw
<1>3. CASE LoopReturn(t) \/ FreeRuntime(t) \/ FreeEngine(t) \/ CloseLoop(t) \/ LoopClosed(t)
  <2>1. Idle(t) /\ UNCHANGED <<mailboxVars, portVars, todo, loopVars>>
    BY <1>3, Zenon DEF LoopReturn, FreeRuntime, FreeEngine, CloseLoop, LoopClosed, Phase
  <2>2. todo[t] = <<>> /\ UNCHANGED <<alive, refs, closed, inbox, rx, tx, batch, todo>>
    BY <2>1 DEF Idle, mailboxVars, portVars, loopVars
  <2> QED
    BY <2>2, StillLaw
<1> QED
  BY <1>1, <1>2, <1>3, Zenon DEF Loop

----------------------------------------------------------------------------
(* How the ports move in a step of t.                                      *)

\* A port keeps its thread; a live one keeps its sides until its own thread, which is in no
\* other function, ends it; its handle is closed and freed by that thread.
PortMove(t, p) ==
  /\ home'[p] = home[p] /\ state'[p] # "unused"
  /\ Live(p)' => Live(p) /\ rx'[p] = rx[p] /\ tx'[p] = tx[p]
  /\ Live(p) /\ ~Live(p)' => home[p] = t /\ Rest(t) = <<>>
  /\ \/ handle'[p] = handle[p]
     \/ /\ home[p] = t /\ Rest(t) = <<>> /\ handle[p] = "active" /\ handle'[p] = "closing"
     \/ /\ home[p] = t /\ Rest(t) = <<>> /\ handle[p] = "closing" /\ handle'[p] = "freed"
        /\ cur[t] = None /\ phase[t] # "freeing"
PortsMove(t) == \A p \in Ports : state[p] # "unused" => PortMove(t, p)

\* Ports that stay as they are,
LEMMA MoveKept ==
  ASSUME NEW t, UNCHANGED <<state, rx, tx, home, handle>>
  PROVE  PortsMove(t)
BY DEF PortsMove, PortMove, Live

\* ports that are added,
LEMMA MoveAdded ==
  ASSUME NEW t, NEW S, PortsAdded(S)
  PROVE  PortsMove(t)
BY DEF PortsMove, PortMove, Live, PortsAdded, UnusedPorts

\* a port that is started,
LEMMA MoveOwn ==
  ASSUME TypeOK, NEW t, NEW p \in Ports, Live(p), Own(p)
  PROVE  PortsMove(t)
BY DEF PortsMove, PortMove, Live, Own, TypeOK, PortTypeOK

\* one that is detached,
LEMMA MoveDetach ==
  ASSUME TypeOK, NEW t, Rest(t) = <<>>, NEW p \in Ports, home[p] = t, Detach(p)
  PROVE  PortsMove(t)
BY DEF PortsMove, PortMove, Live, Detach, TypeOK, PortTypeOK

\* and ports that are transferred move as a step of t may move them.
LEMMA MoveNeuter ==
  ASSUME TypeOK, NEW t, Rest(t) = <<>>, NEW S, \A q \in S : home[q] = t, Neuter(S),
         UNCHANGED <<home, handle>>
  PROVE  PortsMove(t)
BY DEF PortsMove, PortMove, Live, Neuter, TypeOK, PortTypeOK

\* A new channel adds two ports.
LEMMA NewChannelPorts ==
  ASSUME TypeOK, NEW t \in Threads, NewChannel(t)
  PROVE  /\ todo[t] = <<>> /\ UNCHANGED <<owner, inbox, todo, near, phase, loopVars, last>>
         /\ \E S \in SUBSET UnusedPorts : PortsAdded(S)
<1>1. PICK m0 \in Lowest(UnusedMailboxes), a \in Lowest(UnusedPorts) :
      \E m1 \in Lowest(UnusedMailboxes \ {m0}), b \in Lowest(UnusedPorts \ {a}) :
        Entangle(m0, m1, a, b, t, t, 2)
  BY Zenon DEF NewChannel
<1>2. PICK m1 \in Lowest(UnusedMailboxes \ {m0}), b \in Lowest(UnusedPorts \ {a}) :
        Entangle(m0, m1, a, b, t, t, 2)
  BY <1>1
<1>3. /\ m0 \in Mailboxes /\ m1 \in Mailboxes
      /\ a \in UnusedPorts /\ b \in UnusedPorts
  BY DEF Lowest, UnusedMailboxes
<1> DEFINE S == {a, b}
<1>4. S \in SUBSET UnusedPorts
  BY <1>3
<1>5. PortsAdded(S) /\ UNCHANGED <<closed, owner, inbox>>
  BY <1>2, <1>3, EntangleFacts
<1>6. Calling(t) /\ UNCHANGED <<threadVars, todo, loopVars, last>>
  BY Zenon DEF NewChannel
<1>7. todo[t] = <<>>
  BY <1>6, CallsType
<1> HIDE DEF S
<1> QED
  BY <1>4, <1>5, <1>6, <1>7 DEF threadVars

\* A worker gets its near end, and what t has to do then.
SpawnedPipe(t, u) ==
  \E a \in UnusedPorts : \E m0 \in Mailboxes, m1 \in Mailboxes :
    /\ near' = [near EXCEPT ![u] = a] /\ state'[a] = "open" /\ home'[a] = t
    /\ Call(t, <<UnrefOp(m0), UnrefOp(m1), PortOp("start", a)>>)

\* So does a new worker, whose pipe they are.
LEMMA SpawnPorts ==
  ASSUME TypeOK, NEW t \in Threads, NEW u \in Threads, SpawnWorker(t, u)
  PROVE  /\ todo[t] = <<>> /\ UNCHANGED <<owner, inbox, loopVars, last>>
         /\ \E S \in SUBSET UnusedPorts : PortsAdded(S)
         /\ phase[u] = "unborn" /\ phase' = [phase EXCEPT ![u] = "running"]
         /\ SpawnedPipe(t, u)
<1>1. PICK m0 \in Lowest(UnusedMailboxes), a \in Lowest(UnusedPorts) :
      \E m1 \in Lowest(UnusedMailboxes \ {m0}), b \in Lowest(UnusedPorts \ {a}) :
        /\ Entangle(m0, m1, a, b, t, u, 3)
        /\ near' = [near EXCEPT ![u] = a]
        /\ Call(t, <<UnrefOp(m0), UnrefOp(m1), PortOp("start", a)>>)
  BY Zenon DEF SpawnWorker
<1>2. PICK m1 \in Lowest(UnusedMailboxes \ {m0}), b \in Lowest(UnusedPorts \ {a}) :
        /\ Entangle(m0, m1, a, b, t, u, 3)
        /\ near' = [near EXCEPT ![u] = a]
        /\ Call(t, <<UnrefOp(m0), UnrefOp(m1), PortOp("start", a)>>)
  BY <1>1
<1>3. /\ m0 \in Mailboxes /\ m1 \in Mailboxes
      /\ a \in UnusedPorts /\ b \in UnusedPorts
  BY DEF Lowest, UnusedMailboxes
<1> DEFINE S == {a, b}
<1>4. S \in SUBSET UnusedPorts /\ a \in S
  BY <1>3
<1> DEFINE n == 3
<1>11. Entangle(m0, m1, a, b, t, u, n) /\ n \in Nat
  BY <1>2
<1> HIDE DEF n
<1>5. PortsAdded(S) /\ home'[a] = t /\ UNCHANGED <<closed, owner, inbox>>
  BY <1>3, <1>11, EntangleFacts
<1>6. /\ Calling(t) /\ phase[u] = "unborn" /\ phase' = [phase EXCEPT ![u] = "running"]
      /\ UNCHANGED <<loopVars, last>>
  BY Zenon DEF SpawnWorker
<1>7. todo[t] = <<>>
  BY <1>6, CallsType
<1> HIDE DEF S
<1>8. state'[a] = "open"
  BY <1>4, <1>5 DEF PortsAdded
<1>9. /\ near' = [near EXCEPT ![u] = a]
      /\ Call(t, <<UnrefOp(m0), UnrefOp(m1), PortOp("start", a)>>)
  BY <1>2
<1>10. SpawnedPipe(t, u)
  BY <1>3, <1>5, <1>8, <1>9, Zenon DEF SpawnedPipe
<1> QED
  BY <1>4, <1>5, <1>6, <1>7, <1>10, Zenon

\* The ports of a transfer list.
LEMMA MovedFacts ==
  ASSUME NEW t, NEW p, NEW list \in TransferLists(t, p), NEW q \in {list[i] : i \in DOMAIN list}
  PROVE  q \in Ports /\ q # p /\ Live(q) /\ home[q] = t /\ q \notin PipeEnds
<1>1. PICK n \in 0..MaxTransfer : list \in [1..n -> Transferable(t, p)]
  BY DEF TransferLists
<1>2. q \in Transferable(t, p)
  BY <1>1
<1> QED
  BY <1>2 DEF Transferable

\* What a script or the collector calls moves the ports of its own thread,
LEMMA ScriptMove ==
  ASSUME TypeOK, PortOK, NEW t \in Threads, Script(t)
  PROVE  PortsMove(t)
<1>1. CASE NewChannel(t)
  BY <1>1, NewChannelPorts, MoveAdded
<1>2. CASE \E u \in Threads : SpawnWorker(t, u)
  BY <1>2, SpawnPorts, MoveAdded
<1>3. CASE \E u \in Threads : Terminate(t, u)
  <2>1. UNCHANGED portVars
    BY <1>3, Zenon DEF Terminate
  <2> QED
    BY <2>1, MoveKept DEF portVars
<1>4. CASE Stop(t)
  <2>1. UNCHANGED portVars
    BY <1>4, Zenon DEF Stop
  <2> QED
    BY <2>1, MoveKept DEF portVars
<1>5. CASE \E p \in Ports : \E list \in TransferLists(t, p) : PostMessage(t, p, list)
  <2>5. PICK p \in Ports : \E list \in TransferLists(t, p) : PostMessage(t, p, list)
    BY <1>5
  <2>1. PICK list \in TransferLists(t, p) : PostMessage(t, p, list)
    BY <2>5
  <2> DEFINE S == {list[i] : i \in DOMAIN list}
  <2>2. Calling(t) /\ Neuter(S) /\ UNCHANGED <<home, handle>>
    BY <2>1, Zenon DEF PostMessage
  <2>3. \A q \in S : home[q] = t
    BY MovedFacts
  <2>4. Rest(t) = <<>>
    BY <2>2, CallsType DEF Rest
  <2> HIDE DEF S
  <2> QED
    BY <2>2, <2>3, <2>4, MoveNeuter
<1>6. CASE \E p \in Ports : Start(t, p)
  <2>1. PICK p \in Ports : Start(t, p)
    BY <1>6
  <2>2. Own(p) /\ state[p] = "open"
    BY <2>1, Zenon DEF Start
  <2> QED
    BY <2>2, MoveOwn DEF Live
<1>7. CASE \E p \in Ports : Close(t, p)
  <2>1. PICK p \in Ports : Close(t, p)
    BY <1>7
  <2>2. Calling(t) /\ home[p] = t /\ Detach(p)
    BY <2>1, Zenon DEF Close
  <2>3. Rest(t) = <<>>
    BY <2>2, CallsType DEF Rest
  <2> QED
    BY <2>2, <2>3, MoveDetach
<1>8. CASE \E p \in Ports : Finalize(t, p)
  <2>1. PICK p \in Ports : Finalize(t, p)
    BY <1>8
  <2>2. /\ Collecting(t) /\ home[p] = t
        /\ Detach(p) \/ UNCHANGED portVars
    BY <2>1, Zenon DEF Finalize
  <2>3. Rest(t) = <<>>
    BY <2>2, CollectingType DEF Rest
  <2> QED
    BY <2>2, <2>3, MoveDetach, MoveKept DEF portVars
<1> QED
  BY <1>1, <1>2, <1>3, <1>4, <1>5, <1>6, <1>7, <1>8, Zenon DEF Script

\* what a thread does once it was called moves no others,
LEMMA StepMove ==
  ASSUME TypeOK, PortOK, TodoOK, StackOK, NEW t \in Threads, Step(t)
  PROVE  PortsMove(t)
<1>1. CASE CloseStep(t) \/ UnrefStep(t) \/ FreeStep(t) \/ JoinStep(t) \/ SpliceStep(t)
           \/ HandlerReturn(t) \/ DropRest(t) \/ CallbackReturn(t)
  <2>1. UNCHANGED portVars
    BY <1>1, Zenon DEF CloseStep, UnrefStep, FreeStep, JoinStep, SpliceStep, HandlerReturn,
                       DropRest, CallbackReturn
  <2> QED
    BY <2>1, MoveKept DEF portVars
<1>2. CASE PostStep(t) \/ WakeStep(t)
  <2>1. UNCHANGED <<state, rx, tx, home, handle>>
    BY <1>2, Zenon DEF PostStep, WakeStep
  <2> QED
    BY <2>1, MoveKept
<1>3. CASE StartStep(t)
  <2> DEFINE p == Head(todo[t]).port
  <2>1. Doing(t, "start") /\ Own(p)
    BY <1>3, Zenon DEF StartStep
  <2>2. p \in Ports /\ OpOK(t, Head(todo[t]))
    BY <2>1, HeadFacts DEF Doing, TodoOK
  <2>3. Live(p)
    BY <2>1, <2>2 DEF Doing, OpOK, Live
  <2> QED
    BY <2>1, <2>2, <2>3, MoveOwn
<1>4. CASE ShutStep(t)
  <2> DEFINE p == Head(todo[t]).port
  <2>1. Doing(t, "shut") /\ (Detach(p) \/ UNCHANGED portVars)
    BY <1>4, Zenon DEF ShutStep
  <2>2. p \in Ports /\ OpOK(t, Head(todo[t])) /\ todo[t] # <<>> /\ Head(todo[t]).op = "shut"
    BY <2>1, HeadFacts DEF Doing, TodoOK
  <2>3. home[p] = t
    BY <2>2 DEF OpOK
  <2>4. Rest(t) = <<>>
    BY <2>2, RestFacts DEF EndOp
  <2> QED
    BY <2>1, <2>2, <2>3, <2>4, MoveDetach, MoveKept DEF portVars
<1>5. CASE UvCloseStep(t)
  <2> DEFINE p == Head(todo[t]).port
  <2>1. /\ Doing(t, "uvclose") /\ handle' = [handle EXCEPT ![p] = "closing"]
        /\ UNCHANGED <<state, rx, tx, home>>
    BY <1>5, Zenon DEF UvCloseStep
  <2>2. p \in Ports /\ OpOK(t, Head(todo[t])) /\ todo[t] # <<>> /\ Head(todo[t]).op = "uvclose"
    BY <2>1, HeadFacts DEF Doing, TodoOK
  <2>3. home[p] = t
    BY <2>2 DEF OpOK
  <2>4. todo[t] \in Seq(Op)
    BY DEF TypeOK, TodoTypeOK
  <2>5. PlaceOK(t, 1) /\ todo[t][1] = Head(todo[t])
    BY <2>2, <2>4 DEF StackOK
  <2>6. Len(todo[t]) = 1 /\ handle[p] = "active"
    BY <2>2, <2>5 DEF PlaceOK
  <2>7. Rest(t) = <<>>
    <3> DEFINE s == Tail(todo[t])
    <3>1. Len(s) = 0 /\ s \in Seq(Op)
      BY <2>2, <2>4, <2>6
    <3>3. Rest(t) = s
      BY <2>2 DEF Rest
    <3> HIDE DEF s
    <3>2. s = <<>>
      BY <3>1, EmptySeq
    <3> QED
      BY <3>2, <3>3
  <2> HIDE DEF p
  <2> QED
    BY <2>1, <2>2, <2>3, <2>6, <2>7 DEF PortsMove, PortMove, Live, TypeOK, PortTypeOK
<1>6. CASE Dispatch(t)
  <2>1. batch[t] # <<>> /\ (Adopt(t, Head(batch[t])) \/ UNCHANGED <<portVars, batch>>)
    BY <1>6, Zenon DEF Dispatch
  <2>2. CASE Adopt(t, Head(batch[t]))
    BY <2>1, <2>2, AdoptFacts, MoveAdded
  <2>3. CASE UNCHANGED <<portVars, batch>>
    BY <2>3, MoveKept DEF portVars
  <2> QED
    BY <2>1, <2>2, <2>3
<1> QED
  BY <1>1, <1>2, <1>3, <1>4, <1>5, <1>6, Zenon DEF Step

\* nor does its loop.
LEMMA LoopMove ==
  ASSUME TypeOK, NEW t \in Threads, Loop(t)
  PROVE  PortsMove(t)
<1>1. CASE \E p \in Ports : LoopWake(t, p)
  <2>1. UNCHANGED <<state, rx, tx, home, handle>>
    BY <1>1, Zenon DEF LoopWake
  <2> QED
    BY <2>1, MoveKept
<1>2. CASE CloseCb(t)
  <2>1. /\ Idle(t) /\ phase[t] \in {"running", "draining", "closing"}
        /\ handle' = [p \in Ports |-> IF home[p] = t /\ handle[p] = "closing"
                               THEN "freed" ELSE handle[p]]
        /\ UNCHANGED <<state, rx, tx, home>>
    BY <1>2, Zenon DEF CloseCb
  <2>2. Rest(t) = <<>> /\ cur[t] = None /\ phase[t] # "freeing"
    BY <2>1 DEF Idle, Rest
  <2> QED
    BY <2>1, <2>2 DEF PortsMove, PortMove, Live
<1>3. CASE LoopReturn(t) \/ FreeRuntime(t) \/ FreeEngine(t) \/ CloseLoop(t) \/ LoopClosed(t)
  <2>1. UNCHANGED portVars
    BY <1>3, Zenon DEF LoopReturn, FreeRuntime, FreeEngine, CloseLoop, LoopClosed, Phase
  <2> QED
    BY <2>1, MoveKept DEF portVars
<1> QED
  BY <1>1, <1>2, <1>3, Zenon DEF Loop

----------------------------------------------------------------------------
(* The sides of ports, step by step.                                       *)

\* A mailbox has one receiver, which is not the one that a function is about to close.
LEMMA OneReceiver ==
  ASSUME NEW m, Law(m), NEW p \in Ports, rx[p] = m
  PROVE  /\ \A q \in Ports : rx[q] = m => q = p
         /\ \A t \in Threads : \A i : ~ OpAt(t, i, "close", m)
<1>1. /\ N("rx", m) \in Nat /\ N("close", m) \in Nat /\ N("rx", m) >= 1
      /\ \A q \in Ports : q # p /\ rx[q] = m => N("rx", m) >= 2
  BY PortsHold, LawNumbers
<1>2. N("rx", m) + N("close", m) <= 1
  BY <1>1 DEF Law
<1>3. ASSUME NEW t \in Threads, NEW i, OpAt(t, i, "close", m)
      PROVE  FALSE
  <2>1. N("close", m) >= 1
    BY <1>3, OpsHold
  <2> QED
    BY <1>1, <1>2, <2>1
<1> QED
  BY <1>1, <1>2, <1>3

\* The sides stay,
LEMMA SidesKept ==
  ASSUME Sides, UNCHANGED <<state, rx, tx, owner>>
  PROVE  Sides'
BY DEF Sides, SideOK, Live

\* new ports have their sides and no owner,
LEMMA SidesAdded ==
  ASSUME TypeOK, Sides, NEW S, PortsAdded(S), UNCHANGED owner
  PROVE  Sides'
BY DEF Sides, SideOK, Live, PortsAdded, UnusedPorts

\* a port that is started owns its receive side,
LEMMA SidesOwn ==
  ASSUME TypeOK, PortOK, Counts, Sides, NEW p \in Ports, Live(p), Own(p)
  PROVE  Sides'
<1> SUFFICES ASSUME NEW q \in Ports PROVE SideOK(q)'
  BY DEF Sides
<1>1. rx[p] \in Mailboxes
  BY DEF PortOK
<1>2. Law(rx[p])
  BY <1>1 DEF Counts
<1>3. \A c \in Ports : rx[c] = rx[p] => c = p
  BY <1>2, OneReceiver
<1>4. /\ state' = [state EXCEPT ![p] = "started"]
      /\ owner' = [owner EXCEPT ![rx[p]] = p]
      /\ UNCHANGED rx /\ UNCHANGED tx
  BY Zenon DEF Own
<1>5. CASE q = p
  BY <1>1, <1>4, <1>5 DEF SideOK, Live, TypeOK, PortTypeOK, MailboxTypeOK
<1>6. CASE q # p
  <2>1. state'[q] = state[q] /\ rx'[q] = rx[q] /\ tx'[q] = tx[q] /\ rx[q] # rx[p]
    BY <1>3, <1>4, <1>6 DEF TypeOK, PortTypeOK
  <2>2. state[q] = "started" => owner'[rx[q]] = owner[rx[q]]
    <3>1. CASE state[q] = "started"
      <4>1. rx[q] \in Mailboxes
        BY <3>1 DEF PortOK, Live
      <4> QED
        BY <1>4, <2>1, <4>1 DEF TypeOK, MailboxTypeOK
    <3> QED
      BY <3>1
  <2> QED
    BY <2>1, <2>2 DEF Sides, SideOK, Live
<1> QED
  BY <1>5, <1>6

\* a port that is detached has no sides,
LEMMA SidesDetach ==
  ASSUME TypeOK, Sides, NEW p \in Ports, Detach(p)
  PROVE  Sides'
<1>1. /\ state' = [state EXCEPT ![p] = "closed"]
      /\ rx' = [rx EXCEPT ![p] = None] /\ tx' = [tx EXCEPT ![p] = None]
      /\ UNCHANGED mailboxVars
  BY Zenon DEF Detach
<1>2. UNCHANGED owner
  BY <1>1 DEF mailboxVars
<1> SUFFICES ASSUME NEW q \in Ports PROVE SideOK(q)'
  BY DEF Sides
<1> QED
  BY <1>1, <1>2 DEF Sides, SideOK, Live, TypeOK, PortTypeOK

\* nor have those that are transferred, whose receive sides nobody owns,
LEMMA SidesNeuter ==
  ASSUME TypeOK, PortOK, Counts, Sides, NEW S \in SUBSET Ports, Neuter(S),
         Disown({rx[q] : q \in S})
  PROVE  Sides'
<1> SUFFICES ASSUME NEW q \in Ports PROVE SideOK(q)'
  BY DEF Sides
<1>1. CASE q \in S
  BY <1>1 DEF SideOK, Live, Neuter
<1>2. CASE q \notin S
  <2>1. state'[q] = state[q] /\ rx'[q] = rx[q] /\ tx'[q] = tx[q]
    BY <1>2 DEF Neuter
  <2>2. state[q] = "started" => owner'[rx[q]] = owner[rx[q]]
    <3>1. CASE state[q] = "started"
      <4>1. rx[q] \in Mailboxes /\ Law(rx[q])
        BY <3>1 DEF PortOK, Live, Counts
      <4>2. \A c \in Ports : rx[c] = rx[q] => c = q
        BY <4>1, OneReceiver
      <4>3. rx[q] \notin {rx[c] : c \in S}
        BY <1>2, <4>2
      <4> QED
        BY <4>1, <4>3 DEF Disown
    <3> QED
      BY <3>1
  <2> QED
    BY <2>1, <2>2 DEF Sides, SideOK, Live
<1> QED
  BY <1>1, <1>2

\* and the receive side that is closed is the side of no port.
LEMMA SidesClose ==
  ASSUME TypeOK, PortOK, Counts, Sides, NEW t \in Threads, CloseStep(t)
  PROVE  Sides'
<1> DEFINE m == Head(todo[t]).mb
<1>1. /\ Doing(t, "close") /\ owner' = [owner EXCEPT ![m] = None] /\ UNCHANGED portVars
  BY Zenon DEF CloseStep
<1>2. todo[t] # <<>> /\ Head(todo[t]).op = "close" /\ todo[t] \in Seq(Op)
  BY <1>1 DEF Doing, TypeOK, TodoTypeOK
<1>3. m \in Mailboxes /\ OpAt(t, 1, "close", m)
  BY <1>2, HeadFacts DEF OpAt
<1> HIDE DEF m
<1> SUFFICES ASSUME NEW q \in Ports PROVE SideOK(q)'
  BY DEF Sides
<1>4. state'[q] = state[q] /\ rx'[q] = rx[q] /\ tx'[q] = tx[q]
  BY <1>1 DEF portVars
<1>5. rx[q] # m
  <2>1. Law(m)
    BY <1>3 DEF Counts
  <2> QED
    BY <1>3, <2>1, OneReceiver
<1>6. state[q] = "started" => owner'[rx[q]] = owner[rx[q]]
  <2>1. CASE state[q] = "started"
    <3>1. rx[q] \in Mailboxes
      BY <2>1 DEF PortOK, Live
    <3> QED
      BY <1>1, <1>5, <3>1 DEF TypeOK, MailboxTypeOK
  <2> QED
    BY <2>1
<1> QED
  BY <1>4, <1>6 DEF Sides, SideOK, Live

\* What a script or the collector calls keeps the sides,
LEMMA ScriptSides ==
  ASSUME TypeOK, PortOK, Counts, Sides, NEW t \in Threads, Script(t)
  PROVE  Sides'
<1>1. CASE NewChannel(t)
  BY <1>1, NewChannelPorts, SidesAdded
<1>2. CASE \E u \in Threads : SpawnWorker(t, u)
  BY <1>2, SpawnPorts, SidesAdded
<1>3. CASE Stop(t) \/ \E u \in Threads : Terminate(t, u)
  <2>1. UNCHANGED <<mailboxVars, portVars>>
    BY <1>3, Zenon DEF Terminate, Stop
  <2> QED
    BY <2>1, SidesKept DEF mailboxVars, portVars
<1>5. CASE \E p \in Ports : \E list \in TransferLists(t, p) : PostMessage(t, p, list)
  <2>1. PICK p \in Ports : \E list \in TransferLists(t, p) : PostMessage(t, p, list)
    BY <1>5
  <2>2. PICK list \in TransferLists(t, p) : PostMessage(t, p, list)
    BY <2>1
  <2> DEFINE S == {list[i] : i \in DOMAIN list}
  <2>3. Neuter(S) /\ Disown({rx[q] : q \in S})
    BY <2>2, Zenon DEF PostMessage
  <2>4. S \in SUBSET Ports
    BY MovedFacts
  <2> HIDE DEF S
  <2> QED
    BY <2>3, <2>4, SidesNeuter
<1>6. CASE \E p \in Ports : Start(t, p)
  <2>1. PICK p \in Ports : Start(t, p)
    BY <1>6
  <2>2. Own(p) /\ state[p] = "open"
    BY <2>1, Zenon DEF Start
  <2> QED
    BY <2>2, SidesOwn DEF Live
<1>7. CASE \E p \in Ports : Close(t, p)
  <2>1. PICK p \in Ports : Close(t, p)
    BY <1>7
  <2>2. Detach(p)
    BY <2>1, Zenon DEF Close
  <2> QED
    BY <2>2, SidesDetach
<1>8. CASE \E p \in Ports : Finalize(t, p)
  <2>1. PICK p \in Ports : Finalize(t, p)
    BY <1>8
  <2>2. Detach(p) \/ UNCHANGED <<mailboxVars, portVars>>
    BY <2>1, Zenon DEF Finalize
  <2> QED
    BY <2>2, SidesDetach, SidesKept DEF mailboxVars, portVars
<1> QED
  BY <1>1, <1>2, <1>3, <1>5, <1>6, <1>7, <1>8, Zenon DEF Script

\* what a thread does once it was called keeps them,
LEMMA StepSides ==
  ASSUME TypeOK, PortOK, TodoOK, Counts, Sides, NEW t \in Threads, Step(t)
  PROVE  Sides'
<1>1. CASE CloseStep(t)
  BY <1>1, SidesClose
<1>2. CASE UnrefStep(t) \/ SpliceStep(t)
  <2>1. UNCHANGED <<owner, portVars>>
    BY <1>2, Zenon DEF UnrefStep, SpliceStep
  <2> QED
    BY <2>1, SidesKept DEF portVars
<1>3. CASE FreeStep(t) \/ JoinStep(t) \/ HandlerReturn(t) \/ DropRest(t) \/ CallbackReturn(t)
  <2>1. UNCHANGED <<mailboxVars, portVars>>
    BY <1>3, Zenon DEF FreeStep, JoinStep, HandlerReturn, DropRest, CallbackReturn
  <2> QED
    BY <2>1, SidesKept DEF mailboxVars, portVars
<1>4. CASE WakeStep(t) \/ UvCloseStep(t)
  <2>1. UNCHANGED <<mailboxVars, state, rx, tx>>
    BY <1>4, Zenon DEF WakeStep, UvCloseStep
  <2> QED
    BY <2>1, SidesKept DEF mailboxVars
<1>5. CASE PostStep(t)
  <2>1. UNCHANGED <<owner, state, rx, tx>>
    BY <1>5, Zenon DEF PostStep
  <2> QED
    BY <2>1, SidesKept
<1>6. CASE StartStep(t)
  <2> DEFINE p == Head(todo[t]).port
  <2>1. Doing(t, "start") /\ Own(p)
    BY <1>6, Zenon DEF StartStep
  <2>2. p \in Ports /\ OpOK(t, Head(todo[t]))
    BY <2>1, HeadFacts DEF Doing, TodoOK
  <2>3. Live(p)
    BY <2>1, <2>2 DEF Doing, OpOK, Live
  <2> QED
    BY <2>1, <2>2, <2>3, SidesOwn
<1>7. CASE ShutStep(t)
  <2> DEFINE p == Head(todo[t]).port
  <2>1. Doing(t, "shut") /\ (Detach(p) \/ UNCHANGED <<mailboxVars, portVars>>)
    BY <1>7, Zenon DEF ShutStep
  <2>2. p \in Ports
    BY <2>1, HeadFacts DEF Doing
  <2> QED
    BY <2>1, <2>2, SidesDetach, SidesKept DEF mailboxVars, portVars
<1>8. CASE Dispatch(t)
  <2>1. /\ batch[t] # <<>> /\ (Adopt(t, Head(batch[t])) \/ UNCHANGED <<portVars, batch>>)
        /\ UNCHANGED mailboxVars
    BY <1>8, Zenon DEF Dispatch
  <2>2. CASE Adopt(t, Head(batch[t]))
    BY <2>1, <2>2, AdoptFacts, SidesAdded DEF mailboxVars
  <2>3. CASE UNCHANGED <<portVars, batch>>
    BY <2>1, <2>3, SidesKept DEF mailboxVars, portVars
  <2> QED
    BY <2>1, <2>2, <2>3
<1> QED
  BY <1>1, <1>2, <1>3, <1>4, <1>5, <1>6, <1>7, <1>8, Zenon DEF Step

\* and so does its loop.
LEMMA LoopSides ==
  ASSUME Sides, NEW t \in Threads, Loop(t)
  PROVE  Sides'
<1>1. UNCHANGED <<mailboxVars, state, rx, tx>>
  <2>1. CASE \E p \in Ports : LoopWake(t, p)
    BY <2>1, Zenon DEF LoopWake
  <2>2. CASE CloseCb(t)
    BY <2>2, Zenon DEF CloseCb
  <2>3. CASE LoopReturn(t) \/ FreeRuntime(t) \/ FreeEngine(t) \/ CloseLoop(t) \/ LoopClosed(t)
    <3>1. UNCHANGED <<mailboxVars, portVars>>
      BY <2>3, Zenon DEF LoopReturn, FreeRuntime, FreeEngine, CloseLoop, LoopClosed, Phase
    <3> QED
      BY <3>1 DEF portVars
  <2> QED
    BY <2>1, <2>2, <2>3, Zenon DEF Loop
<1> QED
  BY <1>1, SidesKept DEF mailboxVars

----------------------------------------------------------------------------
(* The callbacks, step by step.                                            *)

\* No callback begins or ends, and only one that runs has a batch.
LEMMA CallbackKept ==
  ASSUME TypeOK, PortOK, CallbackOK, NEW t \in Threads, PortsMove(t), UNCHANGED <<cur, src>>,
         \A u \in Threads : cur[u] = None => batch'[u] = <<>>
  PROVE  CallbackOK'
<1> SUFFICES ASSUME NEW u \in Threads, cur[u] # None
             PROVE  /\ home'[cur[u]] = u /\ handle'[cur[u]] # "freed"
                    /\ Live(cur[u])' => src'[u] = rx'[cur[u]]
  BY DEF CallbackOK, Live
<1> DEFINE p == cur[u]
<1>1. p \in Ports /\ home[p] = u /\ handle[p] # "freed" /\ (Live(p) => src[u] = rx[p])
  BY DEF CallbackOK, TypeOK, LoopTypeOK
<1>2. state[p] # "unused"
  BY <1>1, ChannelAssumption DEF PortOK
<1>3. PortMove(t, p)
  BY <1>1, <1>2 DEF PortsMove
<1>4. home[p] = t => cur[t] # None
  BY <1>1
<1>5. cur'[u] = p
  OBVIOUS
<1> HIDE DEF p
<1>6. home'[p] = u /\ handle'[p] # "freed" /\ (Live(p)' => src'[u] = rx'[p])
  BY <1>1, <1>3, <1>4 DEF PortMove
<1> QED
  BY <1>6 DEF p, Live

\* The callback of p begins.
LEMMA CallbackBegun ==
  ASSUME TypeOK, TodoOK, PortOK, CallbackOK, NEW t \in Threads, SpliceStep(t)
  PROVE  CallbackOK'
<1> DEFINE p == Head(todo[t]).port
<1>1. /\ Doing(t, "splice")
      /\ batch' = [batch EXCEPT ![t] = inbox[rx[p]]]
      /\ src' = [src EXCEPT ![t] = rx[p]] /\ cur' = [cur EXCEPT ![t] = p]
      /\ UNCHANGED portVars
  BY Zenon DEF SpliceStep
<1>2. todo[t] # <<>> /\ Head(todo[t]).op = "splice"
  BY <1>1 DEF Doing
<1>3. p \in Ports /\ OpOK(t, Head(todo[t]))
  BY <1>2, HeadFacts DEF TodoOK
<1>4. Live(p) /\ home[p] = t /\ handle[p] = "active"
  BY <1>2, <1>3 DEF OpOK, PortOK
<1>5. p # None
  BY <1>3, ChannelAssumption
<1>6. UNCHANGED <<state, rx, home, handle>>
  BY <1>1 DEF portVars
<1> HIDE DEF p
<1>7. \A u \in Threads : u # t => cur'[u] = cur[u] /\ src'[u] = src[u] /\ batch'[u] = batch[u]
  BY <1>1 DEF TypeOK, LoopTypeOK
<1>8. cur'[t] = p /\ src'[t] = rx[p]
  BY <1>1 DEF TypeOK, LoopTypeOK
<1> SUFFICES ASSUME NEW u \in Threads
             PROVE  /\ cur'[u] = None => batch'[u] = <<>>
                    /\ cur'[u] # None => /\ home'[cur'[u]] = u /\ handle'[cur'[u]] # "freed"
                                         /\ Live(cur[u])' => src'[u] = rx'[cur'[u]]
  BY Zenon DEF CallbackOK
<1>9. CASE u = t
  BY <1>4, <1>5, <1>6, <1>8, <1>9
<1>10. CASE u # t
  BY <1>6, <1>7, <1>10 DEF CallbackOK, Live
<1> QED
  BY <1>9, <1>10

\* The callbacks survive what a script does.
LEMMA ScriptCallback ==
  ASSUME TypeOK, PortOK, CallbackOK, NEW t \in Threads, Script(t)
  PROVE  CallbackOK'
<1>1. UNCHANGED loopVars
  BY Zenon DEF Script, NewChannel, SpawnWorker, Terminate, Stop, PostMessage, Start, Close, Finalize
<1> QED
  BY <1>1, ScriptMove, CallbackKept DEF loopVars, CallbackOK

\* ... and the steps of the functions a thread is in, and the callbacks it runs.
LEMMA StepCallback ==
  ASSUME TypeOK, PortOK, TodoOK, StackOK, BusyOK, CallbackOK, NEW t \in Threads, Step(t)
  PROVE  CallbackOK'
<1>0. /\ \A f : batch' = [batch EXCEPT ![t] = f] =>
            \A u \in Threads : u # t => batch'[u] = batch[u]
      /\ PortsMove(t)
  BY StepMove DEF TypeOK, LoopTypeOK
<1>1. CASE SpliceStep(t)
  BY <1>1, CallbackBegun
<1>2. CASE Dispatch(t)
  <2>1. /\ cur[t] # None /\ batch[t] # <<>> /\ UNCHANGED <<cur, src>>
        /\ Adopt(t, Head(batch[t])) \/ UNCHANGED <<portVars, batch>>
    BY <1>2, Zenon DEF Dispatch
  <2>2. \A u \in Threads \ {t} : batch'[u] = batch[u]
    BY <2>1, AdoptFacts
  <2> QED
    BY <1>0, <2>1, <2>2, CallbackKept DEF CallbackOK
<1>3. CASE HandlerReturn(t) \/ DropRest(t)
  <2>1. /\ cur[t] # None /\ UNCHANGED <<cur, src>>
        /\ \E f : batch' = [batch EXCEPT ![t] = f]
    BY <1>3, Zenon DEF HandlerReturn, DropRest, BusyOK
  <2> QED
    BY <1>0, <2>1, CallbackKept DEF CallbackOK
<1>4. CASE CallbackReturn(t)
  <2>1. /\ batch[t] = <<>> /\ cur' = [cur EXCEPT ![t] = None]
        /\ UNCHANGED <<portVars, batch, src>>
    BY <1>4, Zenon DEF CallbackReturn
  <2> QED
    BY <2>1 DEF CallbackOK, Live, portVars, TypeOK, LoopTypeOK
<1>5. CASE UNCHANGED loopVars
  BY <1>0, <1>5, CallbackKept DEF loopVars, CallbackOK
<1>6. \/ SpliceStep(t) \/ Dispatch(t)
      \/ HandlerReturn(t) \/ DropRest(t) \/ CallbackReturn(t)
      \/ UNCHANGED loopVars
  BY Zenon DEF Step, CloseStep, UnrefStep, PostStep, FreeStep, StartStep, WakeStep,
               UvCloseStep, JoinStep, ShutStep
<1> QED
  BY <1>1, <1>2, <1>3, <1>4, <1>5, <1>6

\* ... and what the loop does between two callbacks.
LEMMA LoopCallback ==
  ASSUME TypeOK, PortOK, CallbackOK, NEW t \in Threads, Loop(t)
  PROVE  CallbackOK'
<1>1. UNCHANGED loopVars
  BY Zenon DEF Loop, LoopWake, CloseCb, LoopReturn, FreeRuntime, FreeEngine, CloseLoop, LoopClosed,
               Phase
<1> QED
  BY <1>1, LoopMove, CallbackKept DEF loopVars, CallbackOK

----------------------------------------------------------------------------
(* What stands on the stacks after a step of t that pushes r.              *)

\* A thread that is gone stays so, and a near end is a port that was allocated for it.
ThreadsMove ==
  \A u \in Threads : /\ phase[u] = "freed" => phase'[u] = "freed"
                     /\ near'[u] = near[u] \/ near'[u] \in UnusedPorts

\* A join is left only when the thread is gone.
JoinLeft(t, r) ==
  todo[t] # <<>> /\ Head(todo[t]).op = "join" =>
    r = <<>> /\ phase[Head(todo[t]).thread] = "freed"

\* The operations of r suit the state after the step.
PlacedAt(t, r, i) ==
  LET o == r[i]
  IN  /\ o.op = "close" => i < Len(r) /\ r[i + 1] = UnrefOp(o.mb)
      /\ o.op = "post" => i = 1 /\ \E p \in Ports : Live(p)' /\ home'[p] = t /\ tx'[p] = o.mb
      /\ o.op \in {"wake", "splice", "start"} => state'[o.port] \in {"open", "started"}
      /\ o.op = "wake" => i = 1 /\ Len(r) = 1 /\ Rest(t) = <<>>
      /\ o.op = "uvclose" => i = Len(r) /\ Rest(t) = <<>> /\ handle'[o.port] = "active"
      /\ o.op = "shut" => /\ handle'[o.port] # "freed"
                          /\ i = 1 \/ (i = 2 /\ r[1].op = "join")
                          /\ \A u \in Threads : near'[u] = o.port =>
                               phase'[u] = "freed" \/ (i = 2 /\ r[1] = JoinOp(u))
Placed(t, r) == \A i \in DOMAIN r : PlacedAt(t, r, i)

\* Where the elements of a concatenation are.
LEMMA CatPlaces ==
  ASSUME NEW r \in Seq(Op), NEW s \in Seq(Op)
  PROVE  /\ Len(r \o s) = Len(r) + Len(s) /\ Len(r) \in Nat /\ Len(s) \in Nat
         /\ DOMAIN r = 1..Len(r) /\ DOMAIN s = 1..Len(s)
         /\ DOMAIN (r \o s) = 1..(Len(r) + Len(s))
         /\ \A i \in 1..Len(r) : (r \o s)[i] = r[i]
         /\ \A j \in 1..Len(s) : (r \o s)[Len(r) + j] = s[j]
         /\ \A i \in 1..(Len(r) + Len(s)) : i \in 1..Len(r) \/ i - Len(r) \in 1..Len(s)
OBVIOUS

\* Where the rest of a stack is.
LEMMA RestPlaces ==
  ASSUME TypeOK, NEW t \in Threads
  PROVE  /\ Rest(t) \in Seq(Op) /\ todo[t] \in Seq(Op)
         /\ todo[t] = <<>> => Rest(t) = <<>>
         /\ todo[t] # <<>> => /\ Len(Rest(t)) = Len(todo[t]) - 1 /\ Len(todo[t]) \in Nat
                              /\ DOMAIN todo[t] = 1..Len(todo[t])
                              /\ Head(todo[t]) = todo[t][1]
                              /\ \A j \in 1..Len(Rest(t)) : Rest(t)[j] = todo[t][j + 1]
<1>1. todo[t] \in Seq(Op)
  BY DEF TypeOK, TodoTypeOK
<1>2. CASE todo[t] = <<>>
  BY <1>1, <1>2 DEF Rest
<1>3. CASE todo[t] # <<>>
  <2> DEFINE s == todo[t]
  <2>1. s \in Seq(Op) /\ s # <<>> /\ Rest(t) = Tail(s)
    BY <1>1, <1>3 DEF Rest
  <2> HIDE DEF s
  <2>2. /\ Tail(s) \in Seq(Op) /\ Len(Tail(s)) = Len(s) - 1 /\ Len(s) \in Nat
        /\ DOMAIN s = 1..Len(s) /\ Head(s) = s[1]
        /\ \A j \in 1..Len(Tail(s)) : Tail(s)[j] = s[j + 1]
    BY <2>1
  <2> QED
    BY <1>3, <2>1, <2>2 DEF s
<1> QED
  BY <1>2, <1>3

\* The port of an operation on ports is allocated and on the thread of the operation.
LEMMA OpPort ==
  ASSUME TypeOK, PortOK, TodoOK, NEW u \in Threads, NEW i \in DOMAIN todo[u],
         todo[u][i].op \in {"start", "wake", "splice", "shut", "uvclose"}
  PROVE  todo[u][i].port \in Ports /\ home[todo[u][i].port] = u
         /\ state[todo[u][i].port] # "unused"
<1> DEFINE o == todo[u][i]
<1>1. o \in Op /\ OpOK(u, o)
  BY DEF TypeOK, TodoTypeOK, TodoOK, Ops
<1>2. o.port \in Ports /\ home[o.port] = u
  BY <1>1, OpFields DEF OpOK
<1> QED
  BY <1>2, ChannelAssumption DEF PortOK

\* A port stays as it is when another thread moves, or its own in the midst of a function.
LEMMA PortStill ==
  ASSUME NEW t, PortsMove(t), NEW p \in Ports, state[p] # "unused", home[p] # t \/ Rest(t) # <<>>
  PROVE  /\ home'[p] = home[p] /\ handle'[p] = handle[p]
         /\ Live(p) => /\ state'[p] \in {"open", "started"}
                       /\ rx'[p] = rx[p] /\ tx'[p] = tx[p]
BY DEF PortsMove, PortMove, Live

\* A worker that was waited for has been, also after a step.
LEMMA WaitedKept ==
  ASSUME ThreadsMove, NEW p \in Ports, state[p] # "unused", NEW u \in Threads, near'[u] = p
  PROVE  near[u] = p /\ (phase[u] = "freed" => phase'[u] = "freed")
BY DEF ThreadsMove, UnusedPorts

\* The operations on the stacks of the other threads keep their places.
LEMMA OthersPlaced ==
  ASSUME TypeOK, PortOK, TodoOK, StackOK, NEW t \in Threads, NEW u \in Threads, u # t,
         todo'[u] = todo[u], PortsMove(t), ThreadsMove, NEW i \in DOMAIN todo[u]
  PROVE  PlaceOK(u, i)'
<1> DEFINE o == todo[u][i]
<1>1. PlaceOK(u, i) /\ todo'[u][i] = o
  BY DEF StackOK
<1>2. /\ o.op = "close" => i < Len(todo'[u]) /\ todo'[u][i + 1] = UnrefOp(o.mb)
      /\ o.op = "wake" => i = 1 /\ Len(todo'[u]) = 1
  BY <1>1 DEF PlaceOK
<1>3. o.op = "post" => i = 1 /\ \E p \in Ports : Live(p)' /\ home'[p] = u /\ tx'[p] = o.mb
  <2> SUFFICES ASSUME o.op = "post"
               PROVE  i = 1 /\ \E p \in Ports : Live(p)' /\ home'[p] = u /\ tx'[p] = o.mb
    OBVIOUS
  <2>1. i = 1 /\ \E p \in Ports : Live(p) /\ home[p] = u /\ tx[p] = o.mb
    BY <1>1 DEF PlaceOK
  <2>2. PICK p \in Ports : Live(p) /\ home[p] = u /\ tx[p] = o.mb
    BY <2>1
  <2>3. PortMove(t, p)
    BY <2>2 DEF PortsMove, Live
  <2>4. Live(p)' /\ home'[p] = u /\ tx'[p] = o.mb
    BY <2>2, <2>3 DEF PortMove
  <2> QED
    BY <2>1, <2>4
<1> DEFINE p == o.port
<1>4. ASSUME o.op \in {"start", "wake", "splice", "shut", "uvclose"}
      PROVE  p \in Ports /\ state[p] # "unused" /\ handle'[p] = handle[p]
             /\ (Live(p) => state'[p] \in {"open", "started"})
  <2>1. p \in Ports /\ home[p] = u /\ state[p] # "unused"
    BY <1>4, OpPort
  <2> HIDE DEF p
  <2> QED
    BY <2>1, PortStill
<1>5. o.op \in {"wake", "splice", "start"} => state'[p] \in {"open", "started"}
  BY <1>1, <1>4 DEF PlaceOK, Live
<1>6. o.op = "uvclose" => i = Len(todo'[u]) /\ handle'[p] = "active"
  BY <1>1, <1>4 DEF PlaceOK
<1>7. ASSUME o.op = "shut"
      PROVE  /\ handle'[p] # "freed" /\ (i = 1 \/ (i = 2 /\ todo'[u][1].op = "join"))
             /\ \A v \in Threads : near'[v] = p =>
                  phase'[v] = "freed" \/ (i = 2 /\ todo'[u][1] = JoinOp(v))
  <2>1. /\ handle[p] # "freed" /\ (i = 1 \/ (i = 2 /\ todo[u][1].op = "join"))
        /\ Waited(u, i, p)
    BY <1>1, <1>7 DEF PlaceOK
  <2>2. p \in Ports /\ state[p] # "unused" /\ handle'[p] = handle[p]
    BY <1>4, <1>7
  <2> HIDE DEF p
  <2>3. \A v \in Threads : near'[v] = p =>
                  phase'[v] = "freed" \/ (i = 2 /\ todo[u][1] = JoinOp(v))
    BY <2>1, <2>2, WaitedKept DEF Waited
  <2> QED
    BY <2>1, <2>2, <2>3
<1> QED
  BY <1>1, <1>2, <1>3, <1>5, <1>6, <1>7 DEF PlaceOK, Waited, Live, UnrefOp, JoinOp

\* What is left of the stack of t moves up or down with r.
LEMMA RestPlaced ==
  ASSUME TypeOK, PortOK, TodoOK, StackOK, NEW t \in Threads, NEW r \in Seq(Op), Push(t, r),
         PortsMove(t), ThreadsMove, JoinLeft(t, r), NEW j \in 1..Len(Rest(t))
  PROVE  PlaceOK(t, Len(r) + j)'
<1> DEFINE s == todo[t]
           c == todo'[t]
           i == Len(r) + j
           o == s[j + 1]
<1>1. c = r \o Rest(t) /\ Rest(t) \in Seq(Op) /\ s \in Seq(Op)
  BY PushFacts, RestPlaces
<1>2. s # <<>> /\ Rest(t) # <<>>
  BY <1>1, RestPlaces
<1>3. /\ Len(Rest(t)) = Len(s) - 1 /\ Len(s) \in Nat /\ DOMAIN s = 1..Len(s) /\ Head(s) = s[1]
      /\ \A k \in 1..Len(Rest(t)) : Rest(t)[k] = s[k + 1]
  BY <1>2, RestPlaces
<1>4. /\ Len(c) = Len(r) + Len(Rest(t)) /\ Len(r) \in Nat
      /\ \A k \in 1..Len(Rest(t)) : c[Len(r) + k] = Rest(t)[k]
  BY <1>1, CatPlaces
<1>5. /\ j + 1 \in DOMAIN s /\ j \in Nat /\ j >= 1 /\ j + 1 # 1
      /\ j + 1 = Len(s) => i = Len(c)
      /\ j + 1 < Len(s) => i < Len(c) /\ c[i + 1] = s[j + 1 + 1]
  <2> DEFINE n == Len(s)
             l == Len(r)
             q == Len(Rest(t))
             d == Len(c)
  <2>1. q = n - 1 /\ n \in Nat /\ l \in Nat /\ d = l + q /\ j \in 1..q
    BY <1>3, <1>4
  <2>2. \A k \in 1..q : c[l + k] = s[k + 1]
    BY <1>3, <1>4
  <2>5. i = l + j /\ DOMAIN s = 1..n
    BY <1>3
  <2> HIDE DEF n, l, q, d, s, c, i
  <2>3. /\ j + 1 \in 1..n /\ j \in Nat /\ j >= 1 /\ j + 1 # 1
        /\ j + 1 = n => i = d
        /\ j + 1 < n => i < d /\ j + 1 \in 1..q /\ i + 1 = l + (j + 1)
    BY <2>1, <2>5
  <2>4. j + 1 < n => c[i + 1] = s[j + 1 + 1]
    BY <2>2, <2>3
  <2> QED
    BY <2>3, <2>4, <2>5 DEF n, d
<1>6. PlaceOK(t, j + 1) /\ c[i] = o
  BY <1>3, <1>4, <1>5 DEF StackOK
<1>7. o.op \notin {"post", "wake"}
  BY <1>5, <1>6 DEF PlaceOK
<1>8. o.op = "close" => i < Len(c) /\ c[i + 1] = UnrefOp(o.mb)
  BY <1>5, <1>6 DEF PlaceOK
<1> DEFINE p == o.port
<1>9. ASSUME o.op \in {"start", "wake", "splice", "shut", "uvclose"}
      PROVE  p \in Ports /\ state[p] # "unused" /\ handle'[p] = handle[p]
             /\ (Live(p) => state'[p] \in {"open", "started"})
  <2>1. p \in Ports /\ state[p] # "unused"
    BY <1>5, <1>9, OpPort
  <2> HIDE DEF p
  <2> QED
    BY <1>2, <2>1, PortStill
<1>10. ASSUME o.op \in {"wake", "splice", "start"}
       PROVE  state'[p] \in {"open", "started"}
  <2>1. Live(p)
    BY <1>6, <1>10 DEF PlaceOK
  <2> QED
    BY <1>9, <1>10, <2>1
<1>11. o.op = "uvclose" => i = Len(c) /\ handle'[p] = "active"
  BY <1>5, <1>6, <1>9 DEF PlaceOK
<1>12. ASSUME o.op = "shut"
       PROVE  /\ handle'[p] # "freed" /\ i = 1
              /\ \A v \in Threads : near'[v] = p => phase'[v] = "freed"
  <2>1. /\ handle[p] # "freed" /\ j + 1 = 2 /\ Head(s).op = "join"
        /\ \A v \in Threads : near[v] = p => phase[v] = "freed" \/ Head(s) = JoinOp(v)
    BY <1>3, <1>5, <1>6, <1>12 DEF PlaceOK, Waited
  <2>2. p \in Ports /\ state[p] # "unused" /\ handle'[p] = handle[p]
    BY <1>9, <1>12
  <2>3. r = <<>> /\ phase[Head(s).thread] = "freed"
    BY <1>2, <2>1 DEF JoinLeft
  <2>4. i = 1
    <3>1. Len(r) = 0
      BY <2>3
    <3> QED
      BY <1>5, <2>1, <3>1
  <2>5. \A v \in Threads : near[v] = p => phase[v] = "freed"
    <3>1. \A v \in Threads : JoinOp(v).thread = v
      BY DEF JoinOp
    <3> QED
      BY <2>1, <2>3, <3>1
  <2> HIDE DEF p
  <2>6. \A v \in Threads : near'[v] = p => phase'[v] = "freed"
    BY <2>2, <2>5, WaitedKept
  <2> QED
    BY <2>1, <2>2, <2>4, <2>6
<1> HIDE DEF i
<1> QED
  BY <1>6, <1>7, <1>8, <1>10, <1>11, <1>12 DEF PlaceOK, Waited, Live, UnrefOp, JoinOp, i

\* What is pushed is where it should be.
LEMMA PushPlaced ==
  ASSUME TypeOK, TodoOK, NEW t \in Threads, NEW r \in Seq(Op), Push(t, r),
         NEW i \in DOMAIN r, PlacedAt(t, r, i)
  PROVE  PlaceOK(t, i)'
<1> DEFINE c == todo'[t]
           o == r[i]
<1>1. c = r \o Rest(t) /\ Rest(t) \in Seq(Op)
  BY PushFacts, RestPlaces
<1>2. /\ Len(c) = Len(r) + Len(Rest(t)) /\ Len(r) \in Nat /\ Len(Rest(t)) \in Nat
      /\ DOMAIN r = 1..Len(r) /\ \A k \in 1..Len(r) : c[k] = r[k]
  BY <1>1, CatPlaces
<1>3. Rest(t) = <<>> => Len(c) = Len(r)
  <2> DEFINE s == Rest(t)
  <2>1. s = <<>> => Len(s) = 0
    OBVIOUS
  <2> HIDE DEF s
  <2>2. Len(c) = Len(r) + Len(s)
    BY <1>2 DEF s
  <2> HIDE DEF c
  <2> QED
    BY <1>2, <2>1, <2>2 DEF s
<1>4. /\ c[i] = o /\ c[1] = r[1]
      /\ i < Len(r) => i < Len(c) /\ c[i + 1] = r[i + 1]
  BY <1>2, SMTT(30)
<1> HIDE DEF c
<1>5. /\ o.op = "close" => i < Len(c) /\ c[i + 1] = UnrefOp(o.mb)
      /\ o.op = "post" => i = 1 /\ \E p \in Ports : Live(p)' /\ home'[p] = t /\ tx'[p] = o.mb
      /\ o.op \in {"wake", "splice", "start"} => state'[o.port] \in {"open", "started"}
  BY <1>4 DEF PlacedAt
<1>6. /\ o.op = "wake" => i = 1 /\ Len(c) = 1
      /\ o.op = "uvclose" => i = Len(c) /\ handle'[o.port] = "active"
  BY <1>3 DEF PlacedAt
<1>7. o.op = "shut" => /\ handle'[o.port] # "freed"
                       /\ i = 1 \/ (i = 2 /\ c[1].op = "join")
                       /\ \A u \in Threads : near'[u] = o.port =>
                               phase'[u] = "freed" \/ (i = 2 /\ c[1] = JoinOp(u))
  BY <1>4 DEF PlacedAt
<1> QED
  BY <1>4, <1>5, <1>6, <1>7 DEF PlaceOK, Waited, Live, UnrefOp, JoinOp, c

\* A step that pushes r leaves every operation where it finds what it needs.
LEMMA StackKept ==
  ASSUME TypeOK, PortOK, TodoOK, StackOK, NEW t \in Threads, NEW r \in Seq(Op), Push(t, r),
         PortsMove(t), ThreadsMove, JoinLeft(t, r), Placed(t, r)
  PROVE  StackOK'
<1> SUFFICES ASSUME NEW u \in Threads, NEW i \in DOMAIN todo'[u]
             PROVE  PlaceOK(u, i)'
  BY DEF StackOK
<1>1. CASE u # t
  BY <1>1, PushFacts, OthersPlaced
<1>2. CASE u = t
  <2>1. todo'[t] = r \o Rest(t) /\ Rest(t) \in Seq(Op)
    BY PushFacts, RestPlaces
  <2>2. i \in 1..(Len(r) + Len(Rest(t))) /\ DOMAIN r = 1..Len(r)
    BY <1>2, <2>1, CatPlaces
  <2>3. i \in 1..Len(r) \/ i - Len(r) \in 1..Len(Rest(t))
    BY <2>1, <2>2, CatPlaces
  <2>4. CASE i \in 1..Len(r)
    BY <1>2, <2>2, <2>4, PushPlaced DEF Placed
  <2>5. CASE i - Len(r) \in 1..Len(Rest(t))
    <3> DEFINE j == i - Len(r)
    <3>1. j \in 1..Len(Rest(t)) /\ Len(r) + j = i
      BY <2>2, <2>5
    <3> HIDE DEF j
    <3>2. PlaceOK(t, Len(r) + j)'
      BY <3>1, RestPlaced
    <3> QED
      BY <1>2, <3>1, <3>2, Zenon
  <2> QED
    BY <2>3, <2>4, <2>5
<1> QED
  BY <1>1, <1>2

----------------------------------------------------------------------------
(* Workers and the near ends of their pipes.                               *)

\* A worker has a near end of its own, and until the worker is gone that port is live, or the
\* runtime it belongs to is being freed and has not closed its loop.
PipeEnd(u) ==
  near[u] # None =>
    /\ state[near[u]] # "unused"
    /\ phase[u] # "freed" =>
         \/ state[near[u]] \in {"open", "started"}
         \/ /\ home[near[u]] \in Threads /\ phase[home[near[u]]] = "freeing"
            /\ handle[near[u]] # "freed"
PipeOK == /\ \A u, v \in Threads : near[u] # None /\ near[u] = near[v] => u = v
          /\ \A u \in Threads : PipeEnd(u)

\* A near end of a worker that is not gone is lost only when its runtime is freed.
PipeLost(t) ==
  \A u \in Threads :
    near[u] \in Ports /\ phase[u] # "freed" /\ state[near[u]] \in {"open", "started"} =>
      state'[near[u]] \in {"open", "started"} \/ phase[t] = "freeing"

\* How the threads move: nobody is born or dies.
LEMMA ThreadsStill ==
  ASSUME UNCHANGED <<near, phase>>
  PROVE  ThreadsMove
BY DEF ThreadsMove

\* Nor does a pipe end.
LEMMA PipeStill ==
  ASSUME TypeOK, PortOK, PipeOK, NEW t \in Threads, PortsMove(t), PipeLost(t),
         UNCHANGED <<near, phase>>
  PROVE  PipeOK'
<1>1. ASSUME NEW u \in Threads PROVE PipeEnd(u)'
  <2> SUFFICES ASSUME near[u] # None
               PROVE  /\ state'[near[u]] # "unused"
                      /\ phase[u] # "freed" =>
                           \/ state'[near[u]] \in {"open", "started"}
                           \/ /\ home'[near[u]] \in Threads /\ phase[home'[near[u]]] = "freeing"
                              /\ handle'[near[u]] # "freed"
    BY DEF PipeEnd
  <2> DEFINE p == near[u]
  <2>1. PipeEnd(u) /\ p \in Ports
    BY DEF PipeOK, TypeOK, ThreadTypeOK
  <2>2. /\ state[p] # "unused"
        /\ phase[u] # "freed" => \/ state[p] \in {"open", "started"}
                                 \/ /\ home[p] \in Threads /\ phase[home[p]] = "freeing"
                                    /\ handle[p] # "freed"
    BY <2>1 DEF PipeEnd
  <2>3. /\ phase[u] # "freed" /\ state[p] \in {"open", "started"} =>
             state'[p] \in {"open", "started"} \/ phase[t] = "freeing"
    BY <2>1 DEF PipeLost
  <2> HIDE DEF p
  <2>4. PortMove(t, p)
    BY <2>1, <2>2 DEF PortsMove
  <2>5. state[p] \in {"open", "started"} => handle[p] = "active"
    BY <2>1 DEF PortOK, Live
  <2> QED
    BY <2>2, <2>3, <2>4, <2>5 DEF PortMove, Live, p
<1> QED
  BY <1>1 DEF PipeOK

\* No port is lost when none changes,
LEMMA LostKept ==
  ASSUME NEW t, UNCHANGED state
  PROVE  PipeLost(t)
BY DEF PipeLost

\* when ports are added,
LEMMA LostAdded ==
  ASSUME NEW t, NEW S, PortsAdded(S)
  PROVE  PipeLost(t)
BY DEF PipeLost, PortsAdded, UnusedPorts

\* and when one is started.
LEMMA LostOwn ==
  ASSUME TypeOK, NEW t, NEW p \in Ports, Own(p)
  PROVE  PipeLost(t)
BY DEF PipeLost, Own, TypeOK, PortTypeOK

\* What a script does to threads and pipes.
LEMMA ScriptPipe ==
  ASSUME TypeOK, PortOK, PipeOK, NEW t \in Threads, Script(t)
  PROVE  ThreadsMove /\ PipeOK'
<1>0. PortsMove(t)
  BY ScriptMove
<1>9. ASSUME PipeLost(t), UNCHANGED <<near, phase>>
      PROVE  ThreadsMove /\ PipeOK'
  BY <1>0, <1>9, ThreadsStill, PipeStill
<1>1. CASE NewChannel(t)
  BY <1>1, <1>9, NewChannelPorts, LostAdded
<1>2. CASE \E u \in Threads : SpawnWorker(t, u)
  <2>1. PICK u \in Threads : SpawnWorker(t, u)
    BY <1>2
  <2>2. /\ phase[u] = "unborn" /\ phase' = [phase EXCEPT ![u] = "running"]
        /\ \E a \in UnusedPorts : near' = [near EXCEPT ![u] = a] /\ state'[a] = "open"
    <3>1. /\ phase[u] = "unborn" /\ phase' = [phase EXCEPT ![u] = "running"]
          /\ SpawnedPipe(t, u)
      BY <2>1, SpawnPorts
    <3> QED
      BY <3>1, Zenon DEF SpawnedPipe
  <2>3. PICK a \in UnusedPorts : near' = [near EXCEPT ![u] = a] /\ state'[a] = "open"
    BY <2>2
  <2>4. /\ near'[u] = a /\ phase'[u] = "running"
        /\ \A v \in Threads \ {u} : near'[v] = near[v] /\ phase'[v] = phase[v]
    BY <2>2, <2>3 DEF TypeOK, ThreadTypeOK
  <2>5. ThreadsMove
    BY <2>2, <2>4 DEF ThreadsMove
  <2>6. a \in Ports /\ state[a] = "unused" /\ a # None
    BY ChannelAssumption DEF UnusedPorts
  <2>7. \A v \in Threads : near[v] # a
    BY <2>6 DEF PipeOK, PipeEnd
  <2>8. ASSUME NEW v \in Threads \ {u}, near[v] # None
        PROVE  /\ state'[near[v]] # "unused"
               /\ phase[v] # "freed" =>
                    \/ state'[near[v]] \in {"open", "started"}
                    \/ /\ home'[near[v]] \in Threads /\ phase'[home'[near[v]]] = "freeing"
                       /\ handle'[near[v]] # "freed"
    <3> DEFINE p == near[v]
    <3>1. p \in Ports /\ state[p] # "unused"
      BY <2>8 DEF PipeOK, PipeEnd, TypeOK, ThreadTypeOK
    <3>2. phase[v] # "freed" => \/ state[p] \in {"open", "started"}
                                \/ /\ home[p] \in Threads /\ phase[home[p]] = "freeing"
                                    /\ handle[p] # "freed"
      BY <2>8 DEF PipeOK, PipeEnd
    <3> HIDE DEF p
    <3>3. PICK S \in SUBSET UnusedPorts : PortsAdded(S)
      BY <2>1, SpawnPorts
    <3>4. state'[p] = state[p] /\ home'[p] = home[p] /\ handle'[p] = handle[p]
      BY <3>1, <3>3 DEF PortsAdded, UnusedPorts
    <3>5. home[p] \in Threads /\ phase[home[p]] = "freeing" => phase'[home[p]] = "freeing"
      BY <2>2, <2>4
    <3> QED
      BY <3>1, <3>2, <3>4, <3>5 DEF p
  <2>9. \A v \in Threads : PipeEnd(v)'
    <3> SUFFICES ASSUME NEW v \in Threads PROVE PipeEnd(v)'
      OBVIOUS
    <3>1. CASE v = u
      BY <2>3, <2>4, <3>1 DEF PipeEnd
    <3>2. CASE v # u
      BY <2>4, <2>8, <3>2 DEF PipeEnd
    <3> QED
      BY <3>1, <3>2
  <2>10. \A v, w \in Threads : near'[v] # None /\ near'[v] = near'[w] => v = w
    BY <2>4, <2>7 DEF PipeOK
  <2> QED
    BY <2>5, <2>9, <2>10 DEF PipeOK
<1>3. CASE Stop(t) \/ \E u \in Threads : Terminate(t, u)
  <2>1. UNCHANGED <<portVars, near, phase>>
    BY <1>3, Zenon DEF Stop, Terminate
  <2> QED
    BY <2>1, <1>9, LostKept DEF portVars
<1>5. CASE \E p \in Ports : \E list \in TransferLists(t, p) : PostMessage(t, p, list)
  <2>1. PICK p \in Ports : \E list \in TransferLists(t, p) : PostMessage(t, p, list)
    BY <1>5
  <2>2. PICK list \in TransferLists(t, p) : PostMessage(t, p, list)
    BY <2>1
  <2> DEFINE S == {list[i] : i \in DOMAIN list}
  <2>3. Neuter(S) /\ UNCHANGED threadVars
    BY <2>2, Zenon DEF PostMessage
  <2>4. \A q \in S : q \notin PipeEnds
    BY MovedFacts
  <2> HIDE DEF S
  <2>5. PipeLost(t)
    BY <2>3, <2>4 DEF PipeLost, Neuter, PipeEnds
  <2> QED
    BY <2>3, <2>5, <1>9 DEF threadVars
<1>6. CASE \E p \in Ports : Start(t, p)
  <2>1. PICK p \in Ports : Start(t, p)
    BY <1>6
  <2>2. Own(p) /\ UNCHANGED threadVars
    BY <2>1, Zenon DEF Start
  <2> QED
    BY <2>2, <1>9, LostOwn DEF threadVars
<1>7. CASE \E p \in Ports : Close(t, p)
  <2>1. PICK p \in Ports : Close(t, p)
    BY <1>7
  <2>2. Detach(p) /\ p \notin PipeEnds /\ UNCHANGED threadVars
    BY <2>1, Zenon DEF Close
  <2>3. PipeLost(t)
    BY <2>2 DEF PipeLost, Detach, PipeEnds, TypeOK, PortTypeOK
  <2> QED
    BY <2>2, <2>3, <1>9 DEF threadVars
<1>8. CASE \E p \in Ports : Finalize(t, p)
  <2>1. PICK p \in Ports : Finalize(t, p)
    BY <1>8
  <2>2. /\ phase[t] # "freeing" => (p \in PipeEnds => ~Live(p))
        /\ Detach(p) \/ UNCHANGED <<mailboxVars, portVars>>
        /\ UNCHANGED threadVars
    BY <2>1, Zenon DEF Finalize
  <2>3. CASE Detach(p)
    <3>1. PipeLost(t)
      BY <2>2, <2>3 DEF PipeLost, Detach, PipeEnds, Live, TypeOK, PortTypeOK
    <3> QED
      BY <2>2, <3>1, <1>9 DEF threadVars
  <2>4. CASE UNCHANGED <<mailboxVars, portVars>>
    BY <2>2, <2>4, <1>9, LostKept DEF portVars, threadVars
  <2> QED
    BY <2>2, <2>3, <2>4
<1> QED
  BY <1>1, <1>2, <1>3, <1>5, <1>6, <1>7, <1>8, Zenon DEF Script

\* ... and what the functions do that a thread is in.
LEMMA StepPipe ==
  ASSUME TypeOK, PortOK, TodoOK, StackOK, PipeOK, NEW t \in Threads, Step(t)
  PROVE  ThreadsMove /\ PipeOK'
<1>0. PortsMove(t)
  BY StepMove
<1>9. ASSUME PipeLost(t), UNCHANGED threadVars
      PROVE  ThreadsMove /\ PipeOK'
  BY <1>0, <1>9, ThreadsStill, PipeStill DEF threadVars
<1>1. CASE CloseStep(t) \/ UnrefStep(t) \/ FreeStep(t) \/ JoinStep(t) \/ SpliceStep(t)
           \/ HandlerReturn(t) \/ DropRest(t) \/ CallbackReturn(t)
  <2>1. UNCHANGED <<portVars, threadVars>>
    BY <1>1, Zenon DEF CloseStep, UnrefStep, FreeStep, JoinStep, SpliceStep, HandlerReturn,
                       DropRest, CallbackReturn
  <2> QED
    BY <2>1, <1>9, LostKept DEF portVars
<1>2. CASE PostStep(t) \/ WakeStep(t) \/ UvCloseStep(t)
  <2>1. UNCHANGED <<state, threadVars>>
    BY <1>2, Zenon DEF PostStep, WakeStep, UvCloseStep
  <2> QED
    BY <2>1, <1>9, LostKept
<1>3. CASE StartStep(t)
  <2> DEFINE p == Head(todo[t]).port
  <2>1. Doing(t, "start") /\ Own(p) /\ UNCHANGED threadVars
    BY <1>3, Zenon DEF StartStep
  <2>2. p \in Ports
    BY <2>1, HeadFacts DEF Doing
  <2> QED
    BY <2>1, <2>2, <1>9, LostOwn
<1>4. CASE ShutStep(t)
  <2> DEFINE p == Head(todo[t]).port
  <2>1. /\ Doing(t, "shut") /\ UNCHANGED threadVars
        /\ Detach(p) \/ UNCHANGED <<mailboxVars, portVars>>
    BY <1>4, Zenon DEF ShutStep
  <2>2. p \in Ports /\ todo[t] # <<>> /\ Head(todo[t]).op = "shut"
    BY <2>1, HeadFacts DEF Doing
  <2>3. todo[t] \in Seq(Op)
    BY DEF TypeOK, TodoTypeOK
  <2>4. PlaceOK(t, 1) /\ todo[t][1] = Head(todo[t])
    BY <2>2, <2>3 DEF StackOK
  <2>5. \A u \in Threads : near[u] = p => phase[u] = "freed"
    BY <2>2, <2>4 DEF PlaceOK, Waited
  <2> HIDE DEF p
  <2>6. CASE Detach(p)
    <3>1. PipeLost(t)
      BY <2>5, <2>6 DEF PipeLost, Detach, TypeOK, PortTypeOK
    <3> QED
      BY <2>1, <3>1, <1>9
  <2>7. CASE UNCHANGED <<mailboxVars, portVars>>
    BY <2>1, <2>7, <1>9, LostKept DEF portVars
  <2> QED
    BY <2>1, <2>6, <2>7
<1>6. CASE Dispatch(t)
  <2>1. /\ batch[t] # <<>> /\ (Adopt(t, Head(batch[t])) \/ UNCHANGED <<portVars, batch>>)
        /\ UNCHANGED threadVars
    BY <1>6, Zenon DEF Dispatch
  <2>2. CASE Adopt(t, Head(batch[t]))
    BY <2>1, <2>2, <1>9, AdoptFacts, LostAdded
  <2>3. CASE UNCHANGED <<portVars, batch>>
    BY <2>1, <2>3, <1>9, LostKept DEF portVars
  <2> QED
    BY <2>1, <2>2, <2>3
<1> QED
  BY <1>1, <1>2, <1>3, <1>4, <1>6, Zenon DEF Step

\* A runtime moves on to its next phase, which is not the death of a dead one; the loop of one
\* that is being freed closes only when its workers are gone.
LEMMA PhasePipe ==
  ASSUME TypeOK, PortOK, PipeOK, NEW t \in Threads, NEW from, NEW to, Phase(t, from, to),
         from # "freed",
         from = "freeing" => \A u \in Threads : near[u] # None /\ home[near[u]] = t =>
                                                  phase[u] = "freed"
  PROVE  ThreadsMove /\ PipeOK'
<1>1. /\ phase[t] = from /\ phase' = [phase EXCEPT ![t] = to]
      /\ UNCHANGED <<portVars, near>>
  BY Zenon DEF Phase
<1>2. UNCHANGED <<state, home, handle, near>>
  BY <1>1 DEF portVars
<1>3. \A u \in Threads : u # t => phase'[u] = phase[u]
  BY <1>1 DEF TypeOK, ThreadTypeOK
<1>4. ThreadsMove
  BY <1>1, <1>2, <1>3 DEF ThreadsMove
<1>5. ASSUME NEW u \in Threads, near[u] # None
      PROVE  /\ state[near[u]] # "unused"
             /\ phase'[u] # "freed" =>
                  \/ state[near[u]] \in {"open", "started"}
                  \/ /\ home[near[u]] \in Threads /\ phase'[home[near[u]]] = "freeing"
                     /\ handle[near[u]] # "freed"
  <2> DEFINE p == near[u]
  <2>1. /\ state[p] # "unused"
        /\ phase[u] # "freed" => \/ state[p] \in {"open", "started"}
                                 \/ /\ home[p] \in Threads /\ phase[home[p]] = "freeing"
                                    /\ handle[p] # "freed"
    BY <1>5 DEF PipeOK, PipeEnd
  <2>2. phase'[u] # "freed" => phase[u] # "freed"
    BY <1>1, <1>3
  <2>3. phase[u] # "freed" => ~(home[p] = t /\ from = "freeing")
    BY <1>5
  <2>4. p \in Ports
    BY <1>5 DEF TypeOK, ThreadTypeOK
  <2> HIDE DEF p
  <2>6. phase[u] # "freed" /\ home[p] \in Threads /\ phase[home[p]] = "freeing" =>
          phase'[home[p]] = "freeing"
    BY <1>1, <1>3, <2>3
  <2> QED
    BY <2>1, <2>2, <2>6 DEF p
<1>6. \A u \in Threads : PipeEnd(u)'
  BY <1>2, <1>5 DEF PipeEnd
<1> QED
  BY <1>2, <1>4, <1>6 DEF PipeOK

\* ... and what the loop does.
LEMMA LoopPipe ==
  ASSUME TypeOK, PortOK, PipeOK, NEW t \in Threads, Loop(t)
  PROVE  ThreadsMove /\ PipeOK'
<1>0. PortsMove(t)
  BY LoopMove
<1>1. CASE CloseCb(t) \/ \E p \in Ports : LoopWake(t, p)
  <2>1. UNCHANGED <<state, threadVars>>
    BY <1>1, Zenon DEF LoopWake, CloseCb
  <2> QED
    BY <2>1, <1>0, LostKept, ThreadsStill, PipeStill DEF threadVars
<1>2. CASE LoopReturn(t) \/ FreeRuntime(t) \/ FreeEngine(t) \/ LoopClosed(t)
  <2>1. \/ Phase(t, "running", "stopped") \/ Phase(t, "stopped", "draining")
        \/ Phase(t, "draining", "freeing") \/ Phase(t, "closing", "freed")
    BY <1>2, Zenon DEF LoopReturn, FreeRuntime, FreeEngine, LoopClosed
  <2> QED
    BY <2>1, PhasePipe
<1>3. CASE CloseLoop(t)
  <2>1. /\ Phase(t, "freeing", "closing")
        /\ \A u \in Threads : near[u] # None /\ home[near[u]] = t => phase[u] = "freed"
    BY <1>3, Zenon DEF CloseLoop
  <2> QED
    BY <2>1, PhasePipe
<1> QED
  BY <1>1, <1>2, <1>3, Zenon DEF Loop

----------------------------------------------------------------------------
(* What the actions push is where it should be.                            *)

\* Nothing, and messages to free.
LEMMA PlacedNone ==
  ASSUME NEW t
  PROVE  Placed(t, <<>>)
BY DEF Placed

\* The freeing of messages frees.
LEMMA FreeOnly ==
  ASSUME NEW s \in Seq(Msg), NEW i \in DOMAIN Freeing(s)
  PROVE  Freeing(s)[i].op = "free"
BY DEF Freeing

\* It can stand anywhere.
LEMMA PlacedFree ==
  ASSUME NEW t, NEW s \in Seq(Msg)
  PROVE  Placed(t, Freeing(s))
<1> DEFINE r == Freeing(s)
<1>1. \A i \in DOMAIN r : r[i].op = "free"
  BY FreeOnly
<1> HIDE DEF r
<1>2. Placed(t, r)
  BY <1>1 DEF Placed, PlacedAt
<1> QED
  BY <1>2 DEF r

\* One operation.
LEMMA PlacedOne ==
  ASSUME NEW t, NEW o,
         o.op \notin {"close", "uvclose", "shut"},
         o.op = "post" => \E p \in Ports : Live(p)' /\ home'[p] = t /\ tx'[p] = o.mb,
         o.op \in {"wake", "splice", "start"} => state'[o.port] \in {"open", "started"},
         o.op = "wake" => Rest(t) = <<>>
  PROVE  Placed(t, <<o>>)
<1> DEFINE r == <<o>>
<1>1. DOMAIN r = {1} /\ r[1] = o /\ Len(r) = 1
  OBVIOUS
<1> HIDE DEF r
<1>2. PlacedAt(t, r, 1)
  BY <1>1 DEF PlacedAt
<1>3. Placed(t, r)
  BY <1>1, <1>2 DEF Placed
<1> QED
  BY <1>3 DEF r

\* The closing of a receive side and the release of both references, then s.
LEMMA PlacedRelease ==
  ASSUME NEW t, NEW m0 \in Mailboxes, NEW m1 \in Mailboxes, NEW s \in Seq(Op),
         \A i \in DOMAIN s : \/ s[i].op = "free"
                             \/ /\ s[i].op = "uvclose" /\ i = Len(s) /\ Rest(t) = <<>>
                                /\ handle'[s[i].port] = "active"
  PROVE  Placed(t, Release(m0, m1) \o s)
<1> DEFINE r == Release(m0, m1)
           c == r \o s
<1>1. /\ r \in Seq(Op) /\ Len(r) = 3 /\ r[1] = CloseOp(m0) /\ r[2] = UnrefOp(m0)
      /\ r[3] = UnrefOp(m1)
  BY ReleaseType DEF Release
<1> HIDE DEF r
<1>2. /\ Len(c) = 3 + Len(s) /\ Len(s) \in Nat
      /\ DOMAIN c = 1..(3 + Len(s)) /\ DOMAIN s = 1..Len(s)
      /\ c[1] = CloseOp(m0) /\ c[2] = UnrefOp(m0) /\ c[3] = UnrefOp(m1)
      /\ \A j \in 1..Len(s) : c[3 + j] = s[j]
      /\ \A i \in 1..(3 + Len(s)) : i \in 1..3 \/ i - 3 \in 1..Len(s)
  <2> DEFINE l == Len(r)
  <2>1. /\ Len(c) = l + Len(s) /\ Len(s) \in Nat
        /\ DOMAIN c = 1..(l + Len(s)) /\ DOMAIN s = 1..Len(s)
        /\ \A i \in 1..l : c[i] = r[i]
        /\ \A j \in 1..Len(s) : c[l + j] = s[j]
        /\ \A i \in 1..(l + Len(s)) : i \in 1..l \/ i - l \in 1..Len(s)
    BY <1>1, CatPlaces
  <2>2. l = 3
    BY <1>1
  <2> HIDE DEF l, c
  <2> QED
    BY <1>1, <2>1, <2>2
<1> HIDE DEF c
<1>3. ASSUME NEW i \in 1..(3 + Len(s)) PROVE PlacedAt(t, c, i)
  <2>1. CASE i = 1
    BY <1>2, <2>1 DEF PlacedAt, CloseOp, UnrefOp
  <2>2. CASE i = 2 \/ i = 3
    BY <1>2, <2>2 DEF PlacedAt, UnrefOp
  <2>3. CASE i - 3 \in 1..Len(s)
    <3> DEFINE j == i - 3
    <3>1. j \in 1..Len(s) /\ i = 3 + j
      BY <1>2, <2>3
    <3>2. c[i] = s[j]
      BY <1>2, <3>1
    <3>3. \/ c[i].op = "free"
          \/ /\ c[i].op = "uvclose" /\ i = Len(c) /\ Rest(t) = <<>>
             /\ handle'[c[i].port] = "active"
      BY <1>2, <3>1, <3>2
    <3> HIDE DEF j
    <3> QED
      BY <3>3 DEF PlacedAt
  <2> QED
    BY <1>2, <2>1, <2>2, <2>3
<1>4. Placed(t, c)
  BY <1>2, <1>3 DEF Placed
<1> QED
  BY <1>4 DEF c, r

\* So can the release of a port.
LEMMA PlacedReleaseOnly ==
  ASSUME NEW t, NEW m0 \in Mailboxes, NEW m1 \in Mailboxes
  PROVE  Placed(t, Release(m0, m1))
<1> DEFINE r == Release(m0, m1)
<1>1. /\ Len(r) = 3 /\ DOMAIN r = 1..3 /\ r[1] = CloseOp(m0) /\ r[2] = UnrefOp(m0)
      /\ r[3] = UnrefOp(m1)
  BY DEF Release
<1> HIDE DEF r
<1>2. ASSUME NEW i \in 1..3 PROVE PlacedAt(t, r, i)
  <2>1. CASE i = 1
    BY <1>1, <2>1 DEF PlacedAt, CloseOp, UnrefOp
  <2>2. CASE i = 2 \/ i = 3
    BY <1>1, <2>2 DEF PlacedAt, UnrefOp
  <2> QED
    BY <2>1, <2>2
<1>3. Placed(t, r)
  BY <1>1, <1>2 DEF Placed
<1> QED
  BY <1>3 DEF r

\* Where a join or nothing is at the head of a stack.
LEMMA NoJoin ==
  ASSUME NEW t, NEW r, todo[t] = <<>> \/ Head(todo[t]).op # "join"
  PROVE  JoinLeft(t, r)
BY DEF JoinLeft

----------------------------------------------------------------------------
(* The stacks, step by step.                                               *)

\* A call by a script, or a callback, that starts with an empty stack.
LEMMA CallStack ==
  ASSUME TypeOK, PortOK, TodoOK, StackOK, NEW t \in Threads, todo[t] = <<>>,
         PortsMove(t), ThreadsMove, NEW r \in Seq(Op), Call(t, r), Placed(t, r)
  PROVE  StackOK'
<1>1. Push(t, r) /\ JoinLeft(t, r)
  BY NoJoin DEF Push
<1> QED
  BY <1>1, StackKept

\* A step of a function that ends the operation at the head of the stack.
LEMMA ContinueStack ==
  ASSUME TypeOK, PortOK, TodoOK, StackOK, NEW t \in Threads, todo[t] # <<>>,
         Head(todo[t]).op # "join",
         PortsMove(t), ThreadsMove, NEW r \in Seq(Op), Continue(t, r), Placed(t, r)
  PROVE  StackOK'
<1>1. Push(t, r) /\ JoinLeft(t, r)
  BY NoJoin DEF Push
<1> QED
  BY <1>1, StackKept

\* A step that leaves the stacks alone.
LEMMA StackStill ==
  ASSUME TypeOK, PortOK, TodoOK, StackOK, NEW t \in Threads, todo[t] = <<>>,
         PortsMove(t), ThreadsMove, UNCHANGED todo
  PROVE  StackOK'
<1> DEFINE r == <<>>
<1>1. Push(t, r) /\ JoinLeft(t, r) /\ r \in Seq(Op) /\ Placed(t, r)
  BY Untouched, NoJoin, EmptyType, PlacedNone
<1> HIDE DEF r
<1> QED
  BY <1>1, StackKept

\* A new worker: its parent drops the reserved references and starts its end of the pipe.
LEMMA SpawnStack ==
  ASSUME TypeOK, PortOK, TodoOK, StackOK, NEW t \in Threads, NEW u \in Threads,
         PortsMove(t), ThreadsMove, SpawnWorker(t, u)
  PROVE  StackOK'
<1>1. todo[t] = <<>> /\ SpawnedPipe(t, u)
  BY SpawnPorts
<1>2. PICK a \in UnusedPorts : \E m0 \in Mailboxes, m1 \in Mailboxes :
         /\ state'[a] = "open"
         /\ Call(t, <<UnrefOp(m0), UnrefOp(m1), PortOp("start", a)>>)
  BY <1>1, Zenon DEF SpawnedPipe
<1>3. PICK m0 \in Mailboxes, m1 \in Mailboxes :
         /\ state'[a] = "open"
         /\ Call(t, <<UnrefOp(m0), UnrefOp(m1), PortOp("start", a)>>)
  BY <1>2
<1> DEFINE r == <<UnrefOp(m0), UnrefOp(m1), PortOp("start", a)>>
<1>4. a \in Ports
  BY DEF UnusedPorts
<1>5. r \in Seq(Op) /\ Call(t, r)
  BY <1>3, <1>4, OpTypes
<1>6. /\ DOMAIN r = 1..3 /\ r[1] = UnrefOp(m0) /\ r[2] = UnrefOp(m1)
      /\ r[3] = PortOp("start", a)
  OBVIOUS
<1> HIDE DEF r
<1>7. ASSUME NEW i \in 1..3 PROVE PlacedAt(t, r, i)
  <2>1. CASE i = 1 \/ i = 2
    BY <1>6, <2>1 DEF PlacedAt, UnrefOp
  <2>2. CASE i = 3
    <3>1. r[i].op = "start" /\ r[i].port = a
      BY <1>6, <2>2 DEF PortOp
    <3> QED
      BY <1>3, <3>1 DEF PlacedAt
  <2> QED
    BY <2>1, <2>2
<1>8. Placed(t, r)
  BY <1>6, <1>7 DEF Placed
<1> QED
  BY <1>1, <1>5, <1>8, CallStack

\* The parent waits for the worker before it shuts the near end.
LEMMA TerminateStack ==
  ASSUME TypeOK, PortOK, TodoOK, StackOK, PipeOK, NEW t \in Threads, NEW u \in Threads,
         PortsMove(t), ThreadsMove, Terminate(t, u)
  PROVE  StackOK'
<1> DEFINE p == near[u]
           r == <<JoinOp(u), PortOp("shut", p)>>
<1>1. /\ Collecting(t) /\ near[u] # None /\ phase[u] # "freed"
      /\ Call(t, r)
      /\ UNCHANGED <<portVars, phase, near>>
  BY Zenon DEF Terminate
<1>2. todo[t] = <<>>
  BY <1>1, CollectingType
<1>3. p \in Ports /\ PipeEnd(u)
  BY <1>1 DEF PipeOK, TypeOK, ThreadTypeOK
<1>4. handle[p] # "freed"
  BY <1>1, <1>3 DEF PipeEnd, PortOK, Live
<1>5. handle'[p] # "freed"
  BY <1>1, <1>4 DEF portVars
<1>6. \A v \in Threads : near'[v] = p => v = u
  BY <1>1 DEF PipeOK
<1> HIDE DEF p
<1>7. r \in Seq(Op) /\ DOMAIN r = 1..2 /\ r[1] = JoinOp(u) /\ r[2] = PortOp("shut", p)
  BY <1>3, OpTypes
<1> HIDE DEF r
<1>8. PlacedAt(t, r, 1)
  BY <1>7 DEF PlacedAt, JoinOp
<1>9. PlacedAt(t, r, 2)
  <2>1. r[2].op = "shut" /\ r[2].port = p /\ r[1].op = "join"
    BY <1>7 DEF PortOp, JoinOp
  <2>2. \A v \in Threads : near'[v] = p => r[1] = JoinOp(v)
    BY <1>6, <1>7
  <2> QED
    BY <1>5, <2>1, <2>2 DEF PlacedAt
<1>10. Placed(t, r)
  BY <1>7, <1>8, <1>9 DEF Placed
<1> QED
  BY <1>1, <1>2, <1>7, <1>10, CallStack

\* The message is posted to the send side of a port that stays live.
LEMMA PostMessageStack ==
  ASSUME TypeOK, PortOK, TodoOK, StackOK, NEW t \in Threads, PortsMove(t), ThreadsMove,
         NEW p \in Ports, NEW list \in TransferLists(t, p), PostMessage(t, p, list)
  PROVE  StackOK'
<1> DEFINE S == {list[i] : i \in DOMAIN list}
           x == [id |-> calls + 1,
                 ports |-> [i \in DOMAIN list |-> [rx |-> rx[list[i]], tx |-> tx[list[i]]]]]
           o == PostOp(tx[p], x)
           z == <<o>>
           y == <<x>>
           f == Freeing(y)
<1>1. /\ Calling(t) /\ home[p] = t /\ Live(p) /\ Neuter(S) /\ UNCHANGED home
      /\ Call(t, f) \/ Call(t, z)
  BY Zenon DEF PostMessage
<1>2. todo[t] = <<>> /\ x \in Msg
  BY <1>1, CallsType, MessageType
<1>3. p \notin S /\ tx[p] \in Mailboxes
  BY <1>1, MovedFacts DEF PortOK
<1> HIDE DEF S, x
<1>4. state'[p] = state[p] /\ tx'[p] = tx[p] /\ home'[p] = t
  BY <1>1, <1>3 DEF Neuter
<1>5. o.op = "post" /\ o.mb = tx[p] /\ o \in Op /\ y \in Seq(Msg)
  BY <1>2, <1>3, OpTypes DEF PostOp
<1>6. Live(p)' /\ home'[p] = t /\ tx'[p] = o.mb
  BY <1>1, <1>4, <1>5 DEF Live
<1> HIDE DEF o
<1>7. z \in Seq(Op) /\ Placed(t, z)
  BY <1>5, <1>6, PlacedOne
<1> HIDE DEF y
<1>8. f \in Seq(Op) /\ Placed(t, f)
  BY <1>5, FreeingType, PlacedFree
<1> HIDE DEF z, f
<1> QED
  BY <1>1, <1>2, <1>7, <1>8, CallStack

\* A port that is started is woken.
LEMMA PlacedFlush ==
  ASSUME TypeOK, NEW t, NEW p \in Ports, Own(p), Rest(t) = <<>>
  PROVE  Placed(t, Flush(p)) /\ Flush(p) \in Seq(Op)
<1> DEFINE o == PortOp("wake", p)
<1>1. o.op = "wake" /\ o.port = p
  BY DEF PortOp
<1>2. state'[p] = "started"
  BY DEF Own, TypeOK, PortTypeOK
<1> HIDE DEF o
<1>3. Placed(t, <<o>>)
  BY <1>1, <1>2, PlacedOne
<1> QED
  BY <1>3, FlushType DEF Flush, o

\* The handle of a port that is collected is closed last.
LEMMA FinalizeStack ==
  ASSUME TypeOK, PortOK, TodoOK, StackOK, NEW t \in Threads, PortsMove(t), ThreadsMove,
         NEW p \in Ports, Finalize(t, p)
  PROVE  StackOK'
<1> DEFINE s == <<PortOp("uvclose", p)>>
           r == Release(rx[p], tx[p])
           c == r \o s
<1>1. /\ Collecting(t) /\ handle[p] = "active"
      /\ \/ Live(p) /\ Detach(p) /\ Call(t, c)
         \/ Call(t, s) /\ UNCHANGED portVars
  BY Zenon DEF Finalize
<1>2. todo[t] = <<>> /\ Rest(t) = <<>>
  BY <1>1, CollectingType DEF Rest
<1>3. handle'[p] = "active"
  BY <1>1 DEF Detach, portVars
<1>4. /\ s \in Seq(Op) /\ DOMAIN s = {1} /\ Len(s) = 1 /\ s[1] = PortOp("uvclose", p)
  BY OpTypes
<1>5. s[1].op = "uvclose" /\ s[1].port = p
  BY <1>4 DEF PortOp
<1> HIDE DEF s
<1>6. PlacedAt(t, s, 1)
  BY <1>2, <1>3, <1>4, <1>5 DEF PlacedAt
<1>7. Placed(t, s)
  BY <1>4, <1>6 DEF Placed
<1>8. ASSUME Live(p) PROVE c \in Seq(Op) /\ Placed(t, c)
  <2>1. rx[p] \in Mailboxes /\ tx[p] \in Mailboxes
    BY <1>8 DEF PortOK
  <2>2. r \in Seq(Op) /\ Placed(t, c)
    BY <1>2, <1>3, <1>4, <1>5, <2>1, ReleaseType, PlacedRelease
  <2> HIDE DEF r
  <2> QED
    BY <1>4, <2>2
<1> HIDE DEF c
<1> QED
  BY <1>1, <1>2, <1>4, <1>7, <1>8, CallStack

\* What a script pushes.
LEMMA ScriptStack ==
  ASSUME TypeOK, PortOK, TodoOK, StackOK, PipeOK, NEW t \in Threads, Script(t)
  PROVE  StackOK'
<1>0. PortsMove(t) /\ ThreadsMove
  BY ScriptMove, ScriptPipe
<1>1. CASE NewChannel(t)
  BY <1>0, <1>1, NewChannelPorts, StackStill
<1>2. CASE \E u \in Threads : SpawnWorker(t, u)
  BY <1>0, <1>2, SpawnStack
<1>3. CASE \E u \in Threads : Terminate(t, u)
  BY <1>0, <1>3, TerminateStack
<1>4. CASE Stop(t)
  <2>1. Calling(t) /\ UNCHANGED todo
    BY <1>4, Zenon DEF Stop
  <2> QED
    BY <1>0, <2>1, CallsType, StackStill
<1>5. CASE \E p \in Ports : \E list \in TransferLists(t, p) : PostMessage(t, p, list)
  <2>1. PICK p \in Ports : \E list \in TransferLists(t, p) : PostMessage(t, p, list)
    BY <1>5
  <2> QED
    BY <1>0, <2>1, PostMessageStack
<1>6. CASE \E p \in Ports : Start(t, p)
  <2>1. PICK p \in Ports : Start(t, p)
    BY <1>6
  <2>2. Calling(t) /\ Own(p) /\ Call(t, Flush(p))
    BY <2>1, Zenon DEF Start
  <2>3. todo[t] = <<>> /\ Rest(t) = <<>>
    BY <2>2, CallsType DEF Rest
  <2> QED
    BY <1>0, <2>2, <2>3, PlacedFlush, CallStack
<1>7. CASE \E p \in Ports : Close(t, p)
  <2>1. PICK p \in Ports : Close(t, p)
    BY <1>7
  <2>2. Calling(t) /\ Live(p) /\ Call(t, Release(rx[p], tx[p]))
    BY <2>1, Zenon DEF Close
  <2>3. rx[p] \in Mailboxes /\ tx[p] \in Mailboxes
    BY <2>2 DEF PortOK
  <2> QED
    BY <1>0, <2>2, <2>3, CallsType, ReleaseType, PlacedReleaseOnly, CallStack
<1>8. CASE \E p \in Ports : Finalize(t, p)
  BY <1>0, <1>8, FinalizeStack
<1> QED
  BY <1>1, <1>2, <1>3, <1>4, <1>5, <1>6, <1>7, <1>8, Zenon DEF Script

\* An operation is done, and nothing follows from it.
LEMMA NothingLeft ==
  ASSUME TypeOK, PortOK, TodoOK, StackOK, NEW t \in Threads, todo[t] # <<>>,
         Head(todo[t]).op # "join", PortsMove(t), ThreadsMove, NEW r, r = <<>>, Continue(t, r)
  PROVE  StackOK'
<1>1. r \in Seq(Op) /\ Placed(t, r)
  BY EmptyType, PlacedNone
<1> QED
  BY <1>1, ContinueStack

\* An operation is done, and messages are to be freed.
LEMMA FreeingLeft ==
  ASSUME TypeOK, PortOK, TodoOK, StackOK, NEW t \in Threads, todo[t] # <<>>,
         Head(todo[t]).op # "join", PortsMove(t), ThreadsMove,
         NEW s \in Seq(Msg), Continue(t, Freeing(s))
  PROVE  StackOK'
BY FreeingType, PlacedFree, ContinueStack

\* What is left of freeing messages.
LEMMA FreeStepStack ==
  ASSUME TypeOK, PortOK, TodoOK, StackOK, NEW t \in Threads, PortsMove(t), ThreadsMove,
         FreeStep(t)
  PROVE  StackOK'
<1> DEFINE s == Head(todo[t]).msgs
           x == Head(s)
           y == [x EXCEPT !.ports = Tail(@)]
           r == Head(x.ports)
           z == <<y>> \o Tail(s)
<1>1. /\ Doing(t, "free")
      /\ \/ x.ports = <<>> /\ Continue(t, Freeing(Tail(s)))
         \/ x.ports # <<>> /\ Continue(t, Release(r.rx, r.tx) \o Freeing(z))
  BY Zenon DEF FreeStep
<1>2. todo[t] # <<>> /\ Head(todo[t]).op # "join" /\ s \in Seq(Msg) /\ s # <<>>
  BY <1>1, HeadFacts DEF Doing
<1>3. x \in Msg /\ Tail(s) \in Seq(Msg) /\ x.ports \in Seq(PortRef)
  BY <1>2, SeqFacts
<1>4. CASE Continue(t, Freeing(Tail(s)))
  BY <1>2, <1>3, <1>4, FreeingLeft
<1>5. CASE x.ports # <<>> /\ Continue(t, Release(r.rx, r.tx) \o Freeing(z))
  <2>1. r \in PortRef /\ Tail(x.ports) \in Seq(PortRef)
    <3> DEFINE q == x.ports
    <3>1. q \in Seq(PortRef) /\ q # <<>>
      BY <1>3, <1>5
    <3>2. r = Head(q) /\ Tail(x.ports) = Tail(q)
      OBVIOUS
    <3> HIDE DEF q
    <3>3. Head(q) \in PortRef /\ Tail(q) \in Seq(PortRef)
      BY <3>1
    <3> QED
      BY <3>2, <3>3, Zenon
  <2>2. y = [x EXCEPT !.ports = Tail(x.ports)]
    BY <1>3 DEF Msg
  <2>3. y \in Msg
    BY <1>3, <2>1, <2>2, SeqFacts
  <2>4. z \in Seq(Msg)
    BY <1>3, <2>3, SeqFacts
  <2>5. r.rx \in Mailboxes /\ r.tx \in Mailboxes
    BY <2>1 DEF PortRef
  <2> DEFINE f == Freeing(z)
             c == Release(r.rx, r.tx) \o f
  <2> HIDE DEF z, r
  <2>6. f \in Seq(Op) /\ \A i \in DOMAIN f : f[i].op = "free"
    BY <2>4, FreeingType, FreeOnly
  <2>7. Placed(t, c)
    BY <2>5, <2>6, PlacedRelease
  <2>8. Release(r.rx, r.tx) \in Seq(Op)
    BY <2>5, ReleaseType
  <2> HIDE DEF f
  <2>9. c \in Seq(Op) /\ Continue(t, c)
    BY <1>5, <2>6, <2>8 DEF f
  <2> HIDE DEF c
  <2> QED
    BY <1>2, <2>7, <2>9, ContinueStack
<1> QED
  BY <1>1, <1>4, <1>5

\* What the functions push that a thread is in.
LEMMA StepStack ==
  ASSUME TypeOK, PortOK, TodoOK, BusyOK, StackOK, PipeOK, NEW t \in Threads, Step(t)
  PROVE  StackOK'
<1>0. /\ PortsMove(t) /\ ThreadsMove /\ batch[t] \in Seq(Msg)
      /\ \A m \in Mailboxes : inbox[m] \in Seq(Msg)
  BY StepMove, StepPipe DEF TypeOK, LoopTypeOK, MailboxTypeOK
<1>1. CASE CloseStep(t)
  <2>1. Doing(t, "close") /\ Continue(t, Freeing(inbox[Head(todo[t]).mb]))
    BY <1>1, Zenon DEF CloseStep
  <2>2. /\ todo[t] # <<>> /\ Head(todo[t]).op # "join" /\ Head(todo[t]).mb \in Mailboxes
    BY <2>1, HeadFacts DEF Doing
  <2> QED
    BY <1>0, <2>1, <2>2, FreeingLeft
<1>2. CASE UnrefStep(t)
  <2>1. /\ Doing(t, "unref")
        /\ Continue(t, Freeing(inbox[Head(todo[t]).mb])) \/ Continue(t, <<>>)
    BY <1>2, Zenon DEF UnrefStep
  <2>2. /\ todo[t] # <<>> /\ Head(todo[t]).op # "join" /\ Head(todo[t]).mb \in Mailboxes
    BY <2>1, HeadFacts DEF Doing
  <2> DEFINE r == <<>>
  <2>3. r = <<>> /\ (Continue(t, Freeing(inbox[Head(todo[t]).mb])) \/ Continue(t, r))
    BY <2>1
  <2> HIDE DEF r
  <2> QED
    BY <1>0, <2>2, <2>3, FreeingLeft, NothingLeft
<1>3. CASE PostStep(t)
  <2> DEFINE y == <<Head(todo[t]).msg>>
             r == <<>>
  <2>1. Doing(t, "post") /\ (Continue(t, Freeing(y)) \/ Continue(t, r))
    BY <1>3, Zenon DEF PostStep
  <2>2. todo[t] # <<>> /\ Head(todo[t]).op # "join" /\ y \in Seq(Msg) /\ r = <<>>
    BY <2>1, HeadFacts, SeqFacts DEF Doing
  <2> HIDE DEF y, r
  <2> QED
    BY <1>0, <2>1, <2>2, FreeingLeft, NothingLeft
<1>4. CASE FreeStep(t)
  BY <1>0, <1>4, FreeStepStack
<1>5. CASE StartStep(t)
  <2> DEFINE p == Head(todo[t]).port
  <2>1. Doing(t, "start") /\ Own(p) /\ Continue(t, Flush(p))
    BY <1>5, Zenon DEF StartStep
  <2>2. todo[t] # <<>> /\ Head(todo[t]).op # "join" /\ p \in Ports /\ Rest(t) = <<>>
    BY <2>1, HeadFacts, RestFacts DEF Doing, EndOp
  <2> HIDE DEF p
  <2> QED
    BY <1>0, <2>1, <2>2, PlacedFlush, ContinueStack
<1>6. CASE WakeStep(t) \/ UvCloseStep(t) \/ SpliceStep(t)
  <2> DEFINE r == <<>>
  <2>1. /\ Doing(t, "wake") \/ Doing(t, "uvclose") \/ Doing(t, "splice")
        /\ Continue(t, r)
    BY <1>6, Zenon DEF WakeStep, UvCloseStep, SpliceStep
  <2>2. todo[t] # <<>> /\ Head(todo[t]).op # "join" /\ r = <<>>
    BY <2>1 DEF Doing
  <2> HIDE DEF r
  <2> QED
    BY <1>0, <2>1, <2>2, NothingLeft
<1>7. CASE JoinStep(t)
  <2> DEFINE r == <<>>
  <2>1. /\ Doing(t, "join") /\ phase[Head(todo[t]).thread] = "freed"
        /\ Continue(t, r)
    BY <1>7, Zenon DEF JoinStep
  <2>2. JoinLeft(t, r) /\ r \in Seq(Op) /\ Placed(t, r) /\ Push(t, r)
    BY <2>1, EmptyType, PlacedNone DEF JoinLeft, Doing, Push
  <2> HIDE DEF r
  <2> QED
    BY <1>0, <2>2, StackKept
<1>8. CASE ShutStep(t)
  <2> DEFINE p == Head(todo[t]).port
             r == <<>>
  <2>1. /\ Doing(t, "shut")
        /\ \/ Live(p) /\ Continue(t, Release(rx[p], tx[p]))
           \/ Continue(t, r)
    BY <1>8, Zenon DEF ShutStep
  <2>2. todo[t] # <<>> /\ Head(todo[t]).op # "join" /\ p \in Ports /\ r = <<>>
    BY <2>1, HeadFacts DEF Doing
  <2> HIDE DEF p, r
  <2>3. CASE Live(p) /\ Continue(t, Release(rx[p], tx[p]))
    <3>1. rx[p] \in Mailboxes /\ tx[p] \in Mailboxes
      BY <2>2, <2>3 DEF PortOK
    <3> QED
      BY <1>0, <2>2, <2>3, <3>1, ReleaseType, PlacedReleaseOnly, ContinueStack
  <2> QED
    BY <1>0, <2>1, <2>2, <2>3, NothingLeft
<1>9. CASE Dispatch(t) \/ CallbackReturn(t)
  <2>1. todo[t] = <<>> /\ UNCHANGED todo
    BY <1>9, Zenon DEF Dispatch, CallbackReturn
  <2> QED
    BY <1>0, <2>1, StackStill
<1>10. CASE HandlerReturn(t)
  <2> DEFINE y == <<Head(batch[t])>>
  <2>1. todo[t] = <<>> /\ Call(t, Freeing(y)) /\ busy[t]
    BY <1>10, Zenon DEF HandlerReturn
  <2>2. y \in Seq(Msg)
    BY <1>0, <2>1, SeqFacts DEF BusyOK
  <2> HIDE DEF y
  <2> QED
    BY <1>0, <2>1, <2>2, FreeingType, PlacedFree, CallStack
<1>11. CASE DropRest(t)
  <2>1. todo[t] = <<>> /\ Call(t, Freeing(batch[t]))
    BY <1>11, Zenon DEF DropRest
  <2> QED
    BY <1>0, <2>1, FreeingType, PlacedFree, CallStack
<1> QED
  BY <1>1, <1>2, <1>3, <1>4, <1>5, <1>6, <1>7, <1>8, <1>9, <1>10, <1>11, Zenon DEF Step

\* What the loop pushes.
LEMMA LoopStack ==
  ASSUME TypeOK, PortOK, TodoOK, StackOK, PipeOK, NEW t \in Threads, Loop(t)
  PROVE  StackOK'
<1>0. PortsMove(t) /\ ThreadsMove
  BY LoopMove, LoopPipe
<1>1. CASE \E p \in Ports : LoopWake(t, p)
  <2>1. PICK p \in Ports : LoopWake(t, p)
    BY <1>1
  <2> DEFINE o == PortOp("splice", p)
             z == <<o>>
             r == <<>>
  <2>2. /\ todo[t] = <<>> /\ UNCHANGED state
        /\ (Live(p) /\ Call(t, z)) \/ Call(t, r)
    BY <2>1, Zenon DEF LoopWake, Turning, Idle
  <2>3. o.op = "splice" /\ o.port = p /\ o \in Op
    BY OpTypes DEF PortOp
  <2>4. r \in Seq(Op) /\ Placed(t, r)
    BY EmptyType, PlacedNone
  <2> HIDE DEF o, r
  <2>5. Live(p) => z \in Seq(Op) /\ Placed(t, z)
    <3> SUFFICES ASSUME Live(p) PROVE z \in Seq(Op) /\ Placed(t, z)
      OBVIOUS
    <3>1. state'[o.port] \in {"open", "started"}
      BY <2>2, <2>3 DEF Live
    <3> QED
      BY <2>3, <3>1, PlacedOne
  <2> HIDE DEF z
  <2> QED
    BY <1>0, <2>2, <2>4, <2>5, CallStack
<1>2. CASE ~ \E p \in Ports : LoopWake(t, p)
  <2>1. todo[t] = <<>> /\ UNCHANGED todo
    BY <1>2, Zenon DEF Loop, CloseCb, LoopReturn, FreeRuntime, FreeEngine, CloseLoop, LoopClosed,
                       Phase, Idle
  <2> QED
    BY <1>0, <2>1, StackStill
<1> QED
  BY <1>1, <1>2

----------------------------------------------------------------------------
(* What is held of several kinds is the sum of what is held of each.       *)

\* C is A and B, which have nothing in common.
Splits(A, B, C) == C = A \cup B /\ A \cap B = {}

\* Bounded, for several kinds.
PartsFinite(K, m) ==
  /\ IsFiniteSet(Receivers(K, m)) /\ IsFiniteSet(Senders(K, m))
  /\ IsFiniteSet(InInboxes(K, m)) /\ IsFiniteSet(InBatches(K, m))
  /\ IsFiniteSet(InStacks(K, m))

\* What holds of every part of a union holds of the union.
LEMMA SplitJoined ==
  ASSUME NEW F, NEW G, NEW H, DOMAIN F = DOMAIN H, DOMAIN G = DOMAIN H,
         \A d \in DOMAIN H : Splits(F[d], G[d], H[d])
  PROVE  Splits(Joined(F), Joined(G), Joined(H))
BY DEF Splits, Joined

\* The references of the kinds K, of a kind k that is not one of them, and of all of these.
LEMMA SplitPort ==
  ASSUME NEW K, NEW k, k \notin K, NEW m, NEW r
  PROVE  Splits(OfPort(r, K, m), OfPort(r, {k}, m), OfPort(r, K \cup {k}, m))
BY DEF Splits, OfPort

\* The references of a message of the kinds K and k are those of K and those of k,
LEMMA SplitMsg ==
  ASSUME NEW K, NEW k, k \notin K, NEW m, NEW x
  PROVE  Splits(OfMsg(x, K, m), OfMsg(x, {k}, m), OfMsg(x, K \cup {k}, m))
<1> DEFINE F == [i \in DOMAIN x.ports |-> OfPort(x.ports[i], K, m)]
           G == [i \in DOMAIN x.ports |-> OfPort(x.ports[i], {k}, m)]
           H == [i \in DOMAIN x.ports |-> OfPort(x.ports[i], K \cup {k}, m)]
<1>1. /\ OfMsg(x, K, m) = Joined(F) /\ OfMsg(x, {k}, m) = Joined(G)
      /\ OfMsg(x, K \cup {k}, m) = Joined(H)
  BY DEF OfMsg, Joined
<1>2. DOMAIN F = DOMAIN H /\ DOMAIN G = DOMAIN H
  OBVIOUS
<1>3. \A d \in DOMAIN H : Splits(F[d], G[d], H[d])
  BY SplitPort
<1> HIDE DEF F, G, H
<1>4. Splits(Joined(F), Joined(G), Joined(H))
  BY <1>2, <1>3, SplitJoined
<1> QED
  BY <1>1, <1>4, Zenon

\* also those of messages,
LEMMA SplitMsgs ==
  ASSUME NEW K, NEW k, k \notin K, NEW m, NEW s
  PROVE  Splits(OfMsgs(s, K, m), OfMsgs(s, {k}, m), OfMsgs(s, K \cup {k}, m))
<1> DEFINE F == [i \in DOMAIN s |-> OfMsg(s[i], K, m)]
           G == [i \in DOMAIN s |-> OfMsg(s[i], {k}, m)]
           H == [i \in DOMAIN s |-> OfMsg(s[i], K \cup {k}, m)]
<1>1. /\ OfMsgs(s, K, m) = Joined(F) /\ OfMsgs(s, {k}, m) = Joined(G)
      /\ OfMsgs(s, K \cup {k}, m) = Joined(H)
  BY DEF OfMsgs, Joined
<1>2. DOMAIN F = DOMAIN H /\ DOMAIN G = DOMAIN H
  OBVIOUS
<1>3. \A d \in DOMAIN H : Splits(F[d], G[d], H[d])
  BY SplitMsg
<1> HIDE DEF F, G, H
<1>4. Splits(Joined(F), Joined(G), Joined(H))
  BY <1>2, <1>3, SplitJoined
<1> QED
  BY <1>1, <1>4, Zenon

\* of an operation,
LEMMA SplitOp ==
  ASSUME NEW K, NEW k, k \notin K, NEW m, NEW o
  PROVE  Splits(OfOp(o, K, m), OfOp(o, {k}, m), OfOp(o, K \cup {k}, m))
<1>1. CASE o.op \in {"close", "unref"}
  BY <1>1 DEF OfOp, Splits
<1>2. CASE o.op \notin {"close", "unref"}
  <2>1. /\ OfOp(o, K, m) = OfMsgs(MsgsOf(o), K, m)
        /\ OfOp(o, {k}, m) = OfMsgs(MsgsOf(o), {k}, m)
        /\ OfOp(o, K \cup {k}, m) = OfMsgs(MsgsOf(o), K \cup {k}, m)
    BY <1>2 DEF OfOp
  <2>2. Splits(OfMsgs(MsgsOf(o), K, m), OfMsgs(MsgsOf(o), {k}, m),
               OfMsgs(MsgsOf(o), K \cup {k}, m))
    BY SplitMsgs
  <2> QED
    BY <2>1, <2>2, Zenon
<1> QED
  BY <1>1, <1>2

\* of a stack,
LEMMA SplitStack ==
  ASSUME NEW K, NEW k, k \notin K, NEW m, NEW s
  PROVE  Splits(OfStack(s, K, m), OfStack(s, {k}, m), OfStack(s, K \cup {k}, m))
<1> DEFINE F == [i \in DOMAIN s |-> OfOp(s[i], K, m)]
           G == [i \in DOMAIN s |-> OfOp(s[i], {k}, m)]
           H == [i \in DOMAIN s |-> OfOp(s[i], K \cup {k}, m)]
<1>1. /\ OfStack(s, K, m) = Joined(F) /\ OfStack(s, {k}, m) = Joined(G)
      /\ OfStack(s, K \cup {k}, m) = Joined(H)
  BY DEF OfStack, Joined
<1>2. DOMAIN F = DOMAIN H /\ DOMAIN G = DOMAIN H
  OBVIOUS
<1>3. \A d \in DOMAIN H : Splits(F[d], G[d], H[d])
  BY SplitOp
<1> HIDE DEF F, G, H
<1>4. Splits(Joined(F), Joined(G), Joined(H))
  BY <1>2, <1>3, SplitJoined
<1> QED
  BY <1>1, <1>4, Zenon

\* and of the five places where references are.
LEMMA SplitParts ==
  ASSUME NEW K, NEW k, k \notin K, NEW m
  PROVE  /\ Splits(Receivers(K, m), Receivers({k}, m), Receivers(K \cup {k}, m))
         /\ Splits(Senders(K, m), Senders({k}, m), Senders(K \cup {k}, m))
         /\ Splits(InInboxes(K, m), InInboxes({k}, m), InInboxes(K \cup {k}, m))
         /\ Splits(InBatches(K, m), InBatches({k}, m), InBatches(K \cup {k}, m))
         /\ Splits(InStacks(K, m), InStacks({k}, m), InStacks(K \cup {k}, m))
<1> DEFINE L == K \cup {k}
<1>1. /\ Splits(Receivers(K, m), Receivers({k}, m), Receivers(L, m))
      /\ Splits(Senders(K, m), Senders({k}, m), Senders(L, m))
  BY DEF Splits, Receivers, Senders
<1>2. Splits(InInboxes(K, m), InInboxes({k}, m), InInboxes(L, m))
  <2> DEFINE F == [q \in Mailboxes |-> OfMsgs(inbox[q], K, m)]
             G == [q \in Mailboxes |-> OfMsgs(inbox[q], {k}, m)]
             H == [q \in Mailboxes |-> OfMsgs(inbox[q], L, m)]
  <2>1. /\ InInboxes(K, m) = Joined(F) /\ InInboxes({k}, m) = Joined(G)
        /\ InInboxes(L, m) = Joined(H)
    BY DEF InInboxes, Joined
  <2>2. DOMAIN F = DOMAIN H /\ DOMAIN G = DOMAIN H
    OBVIOUS
  <2>3. \A d \in DOMAIN H : Splits(F[d], G[d], H[d])
    BY SplitMsgs
  <2> HIDE DEF F, G, H
  <2>4. Splits(Joined(F), Joined(G), Joined(H))
    BY <2>2, <2>3, SplitJoined
  <2> QED
    BY <2>1, <2>4, Zenon
<1>3. Splits(InBatches(K, m), InBatches({k}, m), InBatches(L, m))
  <2> DEFINE F == [t \in Threads |-> OfMsgs(batch[t], K, m)]
             G == [t \in Threads |-> OfMsgs(batch[t], {k}, m)]
             H == [t \in Threads |-> OfMsgs(batch[t], L, m)]
  <2>1. /\ InBatches(K, m) = Joined(F) /\ InBatches({k}, m) = Joined(G)
        /\ InBatches(L, m) = Joined(H)
    BY DEF InBatches, Joined
  <2>2. DOMAIN F = DOMAIN H /\ DOMAIN G = DOMAIN H
    OBVIOUS
  <2>3. \A d \in DOMAIN H : Splits(F[d], G[d], H[d])
    BY SplitMsgs
  <2> HIDE DEF F, G, H
  <2>4. Splits(Joined(F), Joined(G), Joined(H))
    BY <2>2, <2>3, SplitJoined
  <2> QED
    BY <2>1, <2>4, Zenon
<1>4. Splits(InStacks(K, m), InStacks({k}, m), InStacks(L, m))
  <2> DEFINE F == [t \in Threads |-> OfStack(todo[t], K, m)]
             G == [t \in Threads |-> OfStack(todo[t], {k}, m)]
             H == [t \in Threads |-> OfStack(todo[t], L, m)]
  <2>1. /\ InStacks(K, m) = Joined(F) /\ InStacks({k}, m) = Joined(G)
        /\ InStacks(L, m) = Joined(H)
    BY DEF InStacks, Joined
  <2>2. DOMAIN F = DOMAIN H /\ DOMAIN G = DOMAIN H
    OBVIOUS
  <2>3. \A d \in DOMAIN H : Splits(F[d], G[d], H[d])
    BY SplitStack
  <2> HIDE DEF F, G, H
  <2>4. Splits(Joined(F), Joined(G), Joined(H))
    BY <2>2, <2>3, SplitJoined
  <2> QED
    BY <2>1, <2>4, Zenon
<1> QED
  BY <1>1, <1>2, <1>3, <1>4

\* The parts of a finite set that splits.
LEMMA SplitCount ==
  ASSUME NEW A, NEW B, NEW C, Splits(A, B, C), IsFiniteSet(A), IsFiniteSet(B)
  PROVE  /\ IsFiniteSet(C) /\ Cardinality(C) = Cardinality(A) + Cardinality(B)
         /\ Cardinality(A) \in Nat /\ Cardinality(B) \in Nat
BY DisjointCount DEF Splits

\* So their numbers add up.
LEMMA HeldSplit ==
  ASSUME NEW K, NEW k, k \notin K, NEW m, PartsFinite(K, m), Bounded(k, m)
  PROVE  /\ PartsFinite(K \cup {k}, m)
         /\ Held(K \cup {k}, m) = Held(K, m) + N(k, m)
<1> DEFINE L == K \cup {k}
<1> DEFINE a  == Cardinality(Receivers(K, m))
           a1 == Cardinality(Receivers({k}, m))
           b  == Cardinality(Senders(K, m))
           b1 == Cardinality(Senders({k}, m))
           c  == Cardinality(InInboxes(K, m))
           c1 == Cardinality(InInboxes({k}, m))
           d  == Cardinality(InBatches(K, m))
           d1 == Cardinality(InBatches({k}, m))
           e  == Cardinality(InStacks(K, m))
           e1 == Cardinality(InStacks({k}, m))
<1>1. /\ Splits(Receivers(K, m), Receivers({k}, m), Receivers(L, m))
      /\ Splits(Senders(K, m), Senders({k}, m), Senders(L, m))
      /\ Splits(InInboxes(K, m), InInboxes({k}, m), InInboxes(L, m))
      /\ Splits(InBatches(K, m), InBatches({k}, m), InBatches(L, m))
      /\ Splits(InStacks(K, m), InStacks({k}, m), InStacks(L, m))
  BY SplitParts
<1> HIDE DEF L
<1>2. /\ IsFiniteSet(Receivers(L, m)) /\ Cardinality(Receivers(L, m)) = a + a1
      /\ a \in Nat /\ a1 \in Nat
  BY <1>1, SplitCount DEF PartsFinite, Bounded
<1>3. /\ IsFiniteSet(Senders(L, m)) /\ Cardinality(Senders(L, m)) = b + b1
      /\ b \in Nat /\ b1 \in Nat
  BY <1>1, SplitCount DEF PartsFinite, Bounded
<1>4. /\ IsFiniteSet(InInboxes(L, m)) /\ Cardinality(InInboxes(L, m)) = c + c1
      /\ c \in Nat /\ c1 \in Nat
  BY <1>1, SplitCount DEF PartsFinite, Bounded
<1>5. /\ IsFiniteSet(InBatches(L, m)) /\ Cardinality(InBatches(L, m)) = d + d1
      /\ d \in Nat /\ d1 \in Nat
  BY <1>1, SplitCount DEF PartsFinite, Bounded
<1>6. /\ IsFiniteSet(InStacks(L, m)) /\ Cardinality(InStacks(L, m)) = e + e1
      /\ e \in Nat /\ e1 \in Nat
  BY <1>1, SplitCount DEF PartsFinite, Bounded
<1>7. /\ Held(L, m) = Cardinality(Receivers(L, m)) + Cardinality(Senders(L, m))
                      + Cardinality(InInboxes(L, m)) + Cardinality(InBatches(L, m))
                      + Cardinality(InStacks(L, m))
      /\ Held(K, m) = a + b + c + d + e /\ N(k, m) = a1 + b1 + c1 + d1 + e1
  BY DEF Held, N
<1> HIDE DEF a, a1, b, b1, c, c1, d, d1, e, e1
<1>8. Held(L, m) = Held(K, m) + N(k, m)
  BY <1>2, <1>3, <1>4, <1>5, <1>6, <1>7
<1>9. PartsFinite(L, m)
  BY <1>2, <1>3, <1>4, <1>5, <1>6 DEF PartsFinite
<1> QED
  BY <1>8, <1>9 DEF L

\* What the law of a mailbox says of all its references, and of its receivers.
LEMMA HeldLaw ==
  ASSUME NEW m, Law(m)
  PROVE  /\ refs[m] = Held({"rx", "tx", "unref"}, m)
         /\ Held({"rx", "close"}, m) <= 1
<1> DEFINE R == {"rx"}
           S == {"rx", "tx"}
           T == {"rx", "tx", "unref"}
           U == {"rx", "close"}
<1>1. /\ Bounded("rx", m) /\ Bounded("tx", m) /\ Bounded("close", m) /\ Bounded("unref", m)
  BY DEF Law, Kinds
<1>2. PartsFinite(R, m) /\ Held(R, m) = N("rx", m)
  BY <1>1 DEF PartsFinite, Bounded, N
<1>3. /\ S = R \cup {"tx"} /\ T = S \cup {"unref"} /\ U = R \cup {"close"}
      /\ "tx" \notin R /\ "unref" \notin S /\ "close" \notin R
  OBVIOUS
<1> HIDE DEF R, S, T, U
<1>4. PartsFinite(S, m) /\ Held(S, m) = N("rx", m) + N("tx", m)
  BY <1>1, <1>2, <1>3, HeldSplit
<1>5. Held(T, m) = N("rx", m) + N("tx", m) + N("unref", m)
  BY <1>1, <1>3, <1>4, HeldSplit
<1>6. Held(U, m) = N("rx", m) + N("close", m)
  BY <1>1, <1>2, <1>3, HeldSplit
<1>7. /\ refs[m] = N("rx", m) + N("tx", m) + N("unref", m)
      /\ N("rx", m) + N("close", m) = IF alive[m] # "unused" /\ ~closed[m] THEN 1 ELSE 0
  BY DEF Law
<1>8. refs[m] = Held(T, m) /\ Held(U, m) <= 1
  BY <1>5, <1>6, <1>7
<1> QED
  BY <1>8 DEF T, U

----------------------------------------------------------------------------
(* What the law of every mailbox says of memory and of ownership.          *)

\* What a function is about to close, release or post to is a live mailbox.
LEMMA LiveMailbox ==
  ASSUME NEW m \in Mailboxes, Law(m),
         alive[m] \in {"unused", "live", "freed"}
  PROVE  /\ \A t \in Threads : \A i : OpAt(t, i, "close", m) \/ OpAt(t, i, "unref", m)
                                    => alive[m] = "live"
         /\ \A p \in Ports : tx[p] = m => alive[m] = "live"
<1> DEFINE a == N("rx", m)
           b == N("tx", m)
           c == N("close", m)
           d == N("unref", m)
<1>1. a \in Nat /\ b \in Nat /\ c \in Nat /\ d \in Nat
  BY LawNumbers
<1>2. /\ refs[m] = a + b + d
      /\ (alive[m] = "live") <=> (refs[m] > 0)
      /\ a + c = IF alive[m] # "unused" /\ ~closed[m] THEN 1 ELSE 0
      /\ alive[m] = "freed" => closed[m]
  BY DEF Law
<1>3. \A t \in Threads : \A i : OpAt(t, i, "close", m) => c >= 1
  BY OpsHold
<1>4. \A t \in Threads : \A i : OpAt(t, i, "unref", m) => d >= 1
  BY OpsHold
<1>5. \A p \in Ports : tx[p] = m => b >= 1
  BY PortsHold
<1> HIDE DEF a, b, c, d
<1>6. c >= 1 => alive[m] = "live"
  BY <1>1, <1>2
<1>7. d >= 1 \/ b >= 1 => alive[m] = "live"
  BY <1>1, <1>2
<1> QED
  BY <1>3, <1>4, <1>5, <1>6, <1>7

\* No function touches a mailbox or a port that was freed.
LEMMA NothingFreed ==
  ASSUME TypeOK, PortOK, TodoOK, StackOK, CallbackOK, Counts
  PROVE  NoUseAfterFree
<1>1. ASSUME NEW t \in Threads, todo[t] # <<>>
      PROVE  /\ Head(todo[t]).op \in {"close", "unref", "post"}
                  => alive[Head(todo[t]).mb] = "live"
             /\ Head(todo[t]).op \in {"start", "wake", "splice", "shut", "uvclose"}
                  => handle[Head(todo[t]).port] # "freed"
  <2> DEFINE o == Head(todo[t])
  <2>1. o \in Op /\ 1 \in DOMAIN todo[t] /\ o = todo[t][1] /\ o \in Ops(t)
    BY <1>1 DEF TypeOK, TodoTypeOK, Ops
  <2>2. PlaceOK(t, 1) /\ OpOK(t, o)
    BY <2>1 DEF StackOK, TodoOK
  <2>3. CASE o.op \in {"close", "unref", "post"}
    <3> DEFINE m == o.mb
    <3>1. m \in Mailboxes
      BY <2>1, <2>3, OpFields
    <3>2. Law(m) /\ alive[m] \in {"unused", "live", "freed"}
      BY <3>1 DEF Counts, TypeOK, MailboxTypeOK
    <3>3. CASE o.op \in {"close", "unref"}
      <4>1. OpAt(t, 1, "close", m) \/ OpAt(t, 1, "unref", m)
        BY <2>1, <3>3 DEF OpAt
      <4> HIDE DEF m, o
      <4>2. alive[m] = "live"
        BY <3>1, <3>2, <4>1, LiveMailbox
      <4> QED
        BY <4>2, <2>3, <3>3 DEF m, o
    <3>4. CASE o.op = "post"
      <4>1. PICK p \in Ports : tx[p] = m
        BY <2>1, <2>2, <3>4 DEF PlaceOK
      <4> HIDE DEF m, o
      <4>2. alive[m] = "live"
        BY <3>1, <3>2, <4>1, LiveMailbox
      <4> QED
        BY <4>2, <3>4 DEF m, o
    <3> QED
      BY <2>3, <3>3, <3>4
  <2>4. CASE o.op \in {"start", "wake", "splice", "shut", "uvclose"}
    <3>1. o.port \in Ports
      BY <2>1, <2>4, OpFields
    <3>2. o.op \in {"start", "wake", "splice"} => Live(o.port)
      BY <2>1, <2>2 DEF PlaceOK, OpOK, Live
    <3>3. Live(o.port) => handle[o.port] = "active"
      BY <3>1 DEF PortOK
    <3>4. o.op = "shut" => handle[o.port] # "freed"
      BY <2>1, <2>2 DEF PlaceOK
    <3>5. o.op = "uvclose" => handle[o.port] = "active"
      BY <2>1, <2>2 DEF PlaceOK
    <3> QED
      BY <2>4, <3>2, <3>3, <3>4, <3>5
  <2> QED
    BY <2>3, <2>4
<1>2. \A t \in Threads : cur[t] # None => handle[cur[t]] # "freed"
  BY DEF CallbackOK
<1> QED
  BY <1>1, <1>2 DEF NoUseAfterFree

\* The law of every mailbox and the places on the stacks give Memory,
LEMMA MemoryLaw ==
  ASSUME TypeOK, PortOK, TodoOK, StackOK, CallbackOK, Counts
  PROVE  Memory
<1>1. \A m \in Mailboxes : /\ refs[m] = Held({"rx", "tx", "unref"}, m)
                           /\ (alive[m] = "live") <=> (refs[m] > 0)
                           /\ alive[m] = "freed" => closed[m]
  <2> SUFFICES ASSUME NEW m \in Mailboxes
               PROVE  /\ refs[m] = Held({"rx", "tx", "unref"}, m)
                      /\ (alive[m] = "live") <=> (refs[m] > 0)
                      /\ alive[m] = "freed" => closed[m]
    OBVIOUS
  <2>1. Law(m)
    BY DEF Counts
  <2>2. refs[m] = Held({"rx", "tx", "unref"}, m)
    BY <2>1, HeldLaw
  <2> QED
    BY <2>1, <2>2 DEF Law
<1>2. RefCountExact /\ DestroyedClosed
  BY <1>1 DEF RefCountExact, DestroyedClosed
<1> QED
  BY <1>2, NothingFreed DEF Memory

\* and the law of every mailbox and the sides of the ports give Ownership.
LEMMA OwnershipLaw ==
  ASSUME TypeOK, PortOK, OwnerOK, Sides, Counts
  PROVE  Ownership
<1>1. SingleReceiver
  BY HeldLaw DEF Counts, SingleReceiver
<1>2. ASSUME NEW p \in Ports, Live(p)
      PROVE  owner[rx[p]] = IF state[p] = "started" THEN p ELSE None
  <2>1. rx[p] \in Mailboxes
    BY <1>2 DEF PortOK
  <2> DEFINE m == rx[p]
             q == owner[m]
  <2>2. Law(m)
    BY <2>1 DEF Counts
  <2>3. CASE state[p] = "started"
    BY <2>3 DEF Sides, SideOK
  <2>4. CASE state[p] # "started"
    <3> SUFFICES ASSUME q # None
                 PROVE  FALSE
      BY <2>4
    <3>1. q \in Ports
      BY <2>1 DEF TypeOK, MailboxTypeOK
    <3>2. CASE state[q] = "started" /\ rx[q] = m
      <4>1. q = p
        BY <2>2, <3>1, <3>2, OneReceiver
      <4> QED
        BY <4>1, <3>2, <2>4
    <3>3. CASE todo[home[q]] # <<>> /\ Head(todo[home[q]]) = CloseOp(m)
      <4> DEFINE t == home[q]
      <4>1. t \in Threads
        BY <2>1 DEF OwnerOK
      <4>2. 1 \in DOMAIN todo[t] /\ todo[t][1] = CloseOp(m)
        BY <3>3, <4>1 DEF TypeOK, TodoTypeOK
      <4>3. OpAt(t, 1, "close", m)
        BY <4>2 DEF OpAt, CloseOp
      <4> HIDE DEF t, q
      <4> QED
        BY <2>2, <4>1, <4>3, OneReceiver
    <3> QED
      BY <2>1, <3>2, <3>3 DEF OwnerOK
  <2> QED
    BY <2>3, <2>4
<1> QED
  BY <1>1, <1>2 DEF Ownership, OwnerAssertions

----------------------------------------------------------------------------
(* The inductive invariant of memory and ownership.                        *)

HeldInv == Counts /\ Sides /\ StackOK /\ CallbackOK /\ PipeOK
Full == IInv /\ HeldInv

\* At first there are no mailboxes, and nobody holds anything.
LEMMA InitCounts == Init => Counts
<1> SUFFICES ASSUME Init, NEW m \in Mailboxes
             PROVE  Law(m)
  BY DEF Counts
<1>1. m # None
  BY ChannelAssumption
<1>2. ASSUME NEW k \in Kinds
      PROVE  Bounded(k, m) /\ N(k, m) = 0
  <2> DEFINE K == {k}
  <2>1. \A p \in Ports : rx[p] = None /\ tx[p] = None
    BY DEF Init
  <2>2. /\ \A q \in Mailboxes : inbox[q] = <<>>
        /\ \A t \in Threads : batch[t] = <<>> /\ todo[t] = <<>>
    BY DEF Init
  <2>3. DOMAIN <<>> = {}
    OBVIOUS
  <2> HIDE DEF K
  <2>4. Receivers(K, m) = {} /\ Senders(K, m) = {}
    BY <1>1, <2>1 DEF Receivers, Senders
  <2> DEFINE e == <<>>
  <2>5. DOMAIN e = {}
    OBVIOUS
  <2>6. /\ \A q \in Mailboxes : inbox[q] = e
        /\ \A t \in Threads : batch[t] = e /\ todo[t] = e
    BY <2>2
  <2> HIDE DEF e
  <2>7. OfMsgs(e, K, m) = {} /\ OfStack(e, K, m) = {}
    BY <2>5 DEF OfMsgs, OfStack
  <2>8. InInboxes(K, m) = {} /\ InBatches(K, m) = {} /\ InStacks(K, m) = {}
    BY <2>6, <2>7 DEF InInboxes, InBatches, InStacks
  <2>9. IsFiniteSet({}) /\ Cardinality({}) = 0
    BY FS_EmptySet
  <2>10. Held(K, m) = 0
    BY <2>4, <2>8, <2>9 DEF Held
  <2> QED
    BY <2>4, <2>8, <2>9, <2>10 DEF Bounded, N, K
<1>3. \A k \in Kinds : Bounded(k, m)
  BY <1>2
<1>4. N("rx", m) = 0 /\ N("tx", m) = 0 /\ N("close", m) = 0 /\ N("unref", m) = 0
  BY <1>2 DEF Kinds
<1>5. refs[m] = 0 /\ alive[m] = "unused" /\ closed[m] = FALSE
  BY DEF Init
<1>6. /\ refs[m] = N("rx", m) + N("tx", m) + N("unref", m)
      /\ (alive[m] = "live") <=> (refs[m] > 0)
      /\ N("rx", m) + N("close", m) = IF alive[m] # "unused" /\ ~closed[m] THEN 1 ELSE 0
      /\ N("tx", m) <= 1
      /\ alive[m] = "unused" => ~closed[m]
      /\ alive[m] = "freed" => closed[m]
  BY <1>4, <1>5
<1> QED
  BY <1>3, <1>6, Zenon DEF Law

\* Nothing is held at the start.
LEMMA InitHeld == Init => HeldInv
<1> SUFFICES ASSUME Init PROVE HeldInv
  OBVIOUS
<1>1. Counts
  BY InitCounts
<1>2. Sides
  BY DEF Init, Sides, SideOK
<1>3. StackOK
  <2>1. \A t \in Threads : todo[t] = <<>>
    BY DEF Init
  <2>2. DOMAIN <<>> = {}
    OBVIOUS
  <2>3. \A t \in Threads : DOMAIN todo[t] = {}
    BY <2>1, <2>2
  <2> QED
    BY <2>3 DEF StackOK
<1>4. CallbackOK
  BY DEF Init, CallbackOK
<1>5. PipeOK
  <2>1. \A u \in Threads : near[u] = None
    BY DEF Init
  <2> QED
    BY <2>1 DEF PipeOK, PipeEnd
<1> QED
  BY <1>1, <1>2, <1>3, <1>4, <1>5 DEF HeldInv

\* A step of a thread, whichever it is.
LEMMA HeldStep ==
  ASSUME Full, IInv', NEW t \in Threads, Script(t) \/ Step(t) \/ Loop(t)
  PROVE  HeldInv'
<1>1. /\ TypeOK /\ PortOK /\ TodoOK /\ BusyOK /\ TypeOK'
      /\ Counts /\ Sides /\ StackOK /\ CallbackOK /\ PipeOK
  BY DEF Full, HeldInv, IInv
<1>2. CASE Script(t)
  <2>1. Counts' /\ Sides'
    BY <1>1, <1>2, ScriptLaw, ScriptSides
  <2>2. StackOK' /\ PipeOK' /\ CallbackOK'
    BY <1>1, <1>2, ScriptStack, ScriptPipe, ScriptCallback
  <2> QED
    BY <2>1, <2>2 DEF HeldInv
<1>3. CASE Step(t)
  <2>1. Counts' /\ Sides'
    BY <1>1, <1>3, StepLaw, StepSides
  <2>2. StackOK' /\ PipeOK' /\ CallbackOK'
    BY <1>1, <1>3, StepStack, StepPipe, StepCallback
  <2> QED
    BY <2>1, <2>2 DEF HeldInv
<1>4. CASE Loop(t)
  <2>1. Counts' /\ Sides'
    BY <1>1, <1>4, LoopLaw, LoopSides
  <2>2. StackOK' /\ PipeOK' /\ CallbackOK'
    BY <1>1, <1>4, LoopStack, LoopPipe, LoopCallback
  <2> QED
    BY <2>1, <2>2 DEF HeldInv
<1> QED
  BY <1>2, <1>3, <1>4

\* A step that changes nothing.
LEMMA HeldStutter ==
  ASSUME HeldInv, UNCHANGED vars
  PROVE  HeldInv'
<1>1. /\ UNCHANGED <<alive, refs, closed, owner, inbox>>
      /\ UNCHANGED <<state, rx, tx, home, handle>>
      /\ UNCHANGED <<phase, near, todo, cur, batch, src>>
  BY DEF vars, mailboxVars, portVars, threadVars, loopVars
<1>2. Counts'
  <2> SUFFICES ASSUME NEW m \in Mailboxes PROVE Law(m)'
    BY DEF Counts
  <2>1. Law(m)
    BY DEF HeldInv, Counts
  <2>2. ASSUME NEW k \in Kinds
        PROVE  Bounded(k, m)' /\ N(k, m)' = N(k, m)
    <3>1. /\ Receivers({k}, m)' = Receivers({k}, m) /\ Senders({k}, m)' = Senders({k}, m)
          /\ InInboxes({k}, m)' = InInboxes({k}, m) /\ InBatches({k}, m)' = InBatches({k}, m)
          /\ InStacks({k}, m)' = InStacks({k}, m)
      BY <1>1 DEF Receivers, Senders, InInboxes, InBatches, InStacks
    <3>2. Bounded(k, m)
      BY <2>1 DEF Law
    <3> QED
      BY <3>1, <3>2 DEF Bounded, N, Held
  <2> QED
    BY <1>1, <2>1, <2>2, LawSame
<1>3. Sides'
  BY <1>1, SidesKept DEF HeldInv
<1>4. StackOK'
  BY <1>1 DEF HeldInv, StackOK, PlaceOK, Waited, Live
<1>5. CallbackOK'
  BY <1>1 DEF HeldInv, CallbackOK, Live
<1>6. PipeOK'
  BY <1>1 DEF HeldInv, PipeOK, PipeEnd
<1> QED
  BY <1>2, <1>3, <1>4, <1>5, <1>6 DEF HeldInv

\* The inductive invariant of memory and ownership.
LEMMA FullHolds == Spec => []Full
<1>1. Init => Full
  BY InitInv, InitHeld DEF Full
<1>2. Full /\ [Next]_vars => Full'
  <2> SUFFICES ASSUME Full, [Next]_vars PROVE Full'
    OBVIOUS
  <2>1. IInv'
    BY NextInv DEF Full
  <2>2. CASE \E t \in Threads : Script(t) \/ Step(t) \/ Loop(t)
    BY <2>1, <2>2, HeldStep DEF Full
  <2>3. CASE UNCHANGED vars
    BY <2>1, <2>3, HeldStutter DEF Full
  <2> QED
    BY <2>2, <2>3 DEF Next
<1> QED
  BY <1>1, <1>2, PTL DEF Spec

\* The refcount of a mailbox is the number of its holders, whichever threads hold them: it is
\* freed exactly when the last one lets go, after its receive side was closed, and nothing
\* that was freed is used (mailbox_unref, port_finalizer, port_async_close_cb).
THEOREM MemorySafe == Spec => []Memory
<1>1. Full => Memory
  BY MemoryLaw DEF Full, HeldInv, IInv
<1> QED
  BY <1>1, FullHolds, PTL

\* A mailbox has at most one receiving end wherever its port travels, and the owner of the
\* mailbox of a live port is that port when it was started and nobody otherwise, as
\* port_do_transfer and tjs_port_start assert.
THEOREM OwnershipHolds == Spec => []Ownership
<1>1. Full => Ownership
  BY OwnershipLaw DEF Full, HeldInv, IInv
<1> QED
  BY <1>1, FullHolds, PTL

----------------------------------------------------------------------------
(* The order of messages.                                                  *)

\* The numbers of the messages of s, which are in the order of the messages.
Ids(s) == {s[i].id : i \in DOMAIN s}
Rising(s) == \A i, j \in DOMAIN s : i < j => s[i].id < s[j].id

\* What the callback of t has still to deliver; it delivers what was taken out of m.
Left(t) == IF busy[t] THEN Tail(batch[t]) ELSE batch[t]
Receives(t, m) == cur[t] # None /\ src[t] = m /\ Live(cur[t])

\* The messages t is about to post to m.
Posted(t, m) == {o.msg.id : o \in {x \in Ops(t) : x.op = "post" /\ x.mb = m}}

\* What was delivered from m is older than what was taken out of it, that than what waits in
\* it, and that than what is about to be posted to it.
TakenOK(t, m) ==
  /\ Rising(Left(t))
  /\ \A y \in Ids(Left(t)) : /\ last[m] < y /\ y <= calls
                             /\ \A x \in Ids(inbox[m]) : y < x
PostedOK(t, m) ==
  \A z \in Posted(t, m) :
    /\ last[m] < z /\ z <= calls
    /\ \A x \in Ids(inbox[m]) : x < z
    /\ \A u \in Threads : Receives(u, m) => \A y \in Ids(Left(u)) : y < z
OrderOK(m) ==
  /\ last[m] <= calls /\ Rising(inbox[m])
  /\ \A x \in Ids(inbox[m]) : last[m] < x /\ x <= calls
  /\ \A t \in Threads : Receives(t, m) => TakenOK(t, m)
  /\ \A t \in Threads : PostedOK(t, m)
Order == \A m \in Mailboxes : OrderOK(m)

\* The numbers of messages are numbers.
LEMMA IdsType ==
  ASSUME NEW s \in Seq(Msg)
  PROVE  Ids(s) \subseteq Nat
<1>1. \A x \in Msg : x.id \in Nat
  BY DEF Msg
<1> QED
  BY <1>1 DEF Ids

\* Nothing is in order.
LEMMA IdsEmpty == Ids(<<>>) = {} /\ Rising(<<>>)
BY DEF Ids, Rising

\* A message that is newer than all of s.
LEMMA IdsAppend ==
  ASSUME NEW s \in Seq(Msg), NEW x \in Msg, Rising(s), \A y \in Ids(s) : y < x.id
  PROVE  /\ Append(s, x) \in Seq(Msg) /\ Rising(Append(s, x))
         /\ Ids(Append(s, x)) = Ids(s) \cup {x.id}
<1> DEFINE c == Append(s, x)
           n == Len(s)
<1>1. /\ c \in Seq(Msg) /\ n \in Nat /\ DOMAIN s = 1..n /\ DOMAIN c = 1..(n + 1)
      /\ c[n + 1] = x /\ \A i \in 1..n : c[i] = s[i]
  OBVIOUS
<1> HIDE DEF c, n
<1>2. \A i \in 1..(n + 1) : i \in 1..n \/ i = n + 1
  BY <1>1
<1>3. \A i \in 1..n : i \in 1..(n + 1) /\ s[i].id < x.id
  BY <1>1 DEF Ids
<1>4. Ids(c) = Ids(s) \cup {x.id}
  <2>1. n + 1 \in 1..(n + 1)
    BY <1>1
  <2> QED
    BY <1>1, <1>2, <1>3, <2>1 DEF Ids
<1>5. Rising(c)
  <2> SUFFICES ASSUME NEW i \in 1..(n + 1), NEW j \in 1..(n + 1), i < j
               PROVE  c[i].id < c[j].id
    BY <1>1 DEF Rising
  <2>1. i \in 1..n
    BY <1>1
  <2>2. CASE j \in 1..n
    BY <1>1, <2>1, <2>2 DEF Rising
  <2>3. CASE j = n + 1
    BY <1>1, <1>3, <2>1, <2>3
  <2> QED
    BY <1>2, <2>2, <2>3
<1> QED
  BY <1>1, <1>4, <1>5 DEF c

\* The first message, and the others.
LEMMA IdsTail ==
  ASSUME NEW s \in Seq(Msg), s # <<>>, Rising(s)
  PROVE  /\ Rising(Tail(s)) /\ Ids(Tail(s)) \subseteq Ids(s) /\ Head(s).id \in Ids(s)
         /\ \A y \in Ids(Tail(s)) : Head(s).id < y
<1> DEFINE c == Tail(s)
           n == Len(s)
           h == Head(s)
<1>1. /\ n \in Nat \ {0} /\ DOMAIN s = 1..n /\ DOMAIN c = 1..(n - 1) /\ h = s[1]
      /\ \A i \in 1..(n - 1) : c[i] = s[i + 1]
  OBVIOUS
<1> HIDE DEF c, n, h
<1>2. 1 \in 1..n /\ \A i \in 1..(n - 1) : i + 1 \in 1..n /\ 1 < i + 1
  BY <1>1
<1>3. \A i \in 1..(n - 1) : h.id < c[i].id /\ c[i].id \in Ids(s)
  BY <1>1, <1>2 DEF Rising, Ids
<1>4. h.id \in Ids(s)
  BY <1>1, <1>2 DEF Ids
<1>5. Ids(c) \subseteq Ids(s) /\ \A y \in Ids(c) : h.id < y
  BY <1>1, <1>3 DEF Ids
<1>6. Rising(c)
  <2> SUFFICES ASSUME NEW i \in 1..(n - 1), NEW j \in 1..(n - 1), i < j
               PROVE  c[i].id < c[j].id
    BY <1>1 DEF Rising
  <2>1. i + 1 < j + 1 /\ i + 1 \in 1..n /\ j + 1 \in 1..n
    BY <1>2
  <2>2. s[i + 1].id < s[j + 1].id
    BY <1>1, <2>1 DEF Rising
  <2> QED
    BY <1>1, <2>2
<1> QED
  BY <1>4, <1>5, <1>6 DEF c, h

\* Messages that are older than others, and these.
LEMMA IdsConcat ==
  ASSUME NEW s \in Seq(Msg), NEW r \in Seq(Msg), Rising(s), Rising(r),
         \A x \in Ids(s), y \in Ids(r) : x < y
  PROVE  Rising(s \o r) /\ Ids(s \o r) = Ids(s) \cup Ids(r)
<1> DEFINE c == s \o r
           n == Len(s)
           k == Len(r)
<1>1. /\ n \in Nat /\ k \in Nat /\ DOMAIN s = 1..n /\ DOMAIN r = 1..k
      /\ DOMAIN c = 1..(n + k)
      /\ \A i \in 1..n : c[i] = s[i]
      /\ \A i \in 1..k : c[n + i] = r[i]
  OBVIOUS
<1> HIDE DEF c, n, k
<1>2. /\ \A i \in 1..(n + k) : i \in 1..n \/ (i - n \in 1..k /\ n + (i - n) = i)
      /\ \A i \in 1..n : i \in 1..(n + k)
      /\ \A i \in 1..k : n + i \in 1..(n + k)
  BY <1>1
<1>3. \A i \in 1..(n + k) : c[i].id \in Ids(s) \cup Ids(r)
  <2> SUFFICES ASSUME NEW i \in 1..(n + k) PROVE c[i].id \in Ids(s) \cup Ids(r)
    OBVIOUS
  <2>1. CASE i \in 1..n
    BY <1>1, <2>1 DEF Ids
  <2>2. CASE i - n \in 1..k /\ n + (i - n) = i
    <3>1. c[i] = r[i - n]
      BY <1>1, <2>2
    <3> QED
      BY <1>1, <2>2, <3>1 DEF Ids
  <2> QED
    BY <1>2, <2>1, <2>2
<1>4. Ids(c) = Ids(s) \cup Ids(r)
  <2>1. Ids(c) \subseteq Ids(s) \cup Ids(r)
    BY <1>1, <1>3 DEF Ids
  <2>2. \A i \in 1..n : s[i].id \in Ids(c)
    BY <1>1, <1>2 DEF Ids
  <2>3. \A i \in 1..k : r[i].id \in Ids(c)
    BY <1>1, <1>2 DEF Ids
  <2>4. ASSUME NEW x \in Ids(s) PROVE x \in Ids(c)
    <3>1. PICK i \in 1..n : x = s[i].id
      BY <1>1, <2>4 DEF Ids
    <3> QED
      BY <2>2, <3>1
  <2>5. ASSUME NEW x \in Ids(r) PROVE x \in Ids(c)
    <3>1. PICK i \in 1..k : x = r[i].id
      BY <1>1, <2>5 DEF Ids
    <3> QED
      BY <2>3, <3>1
  <2> QED
    BY <2>1, <2>4, <2>5
<1>5. Rising(c)
  <2> SUFFICES ASSUME NEW i \in 1..(n + k), NEW j \in 1..(n + k), i < j
               PROVE  c[i].id < c[j].id
    BY <1>1 DEF Rising
  <2>1. CASE i \in 1..n /\ j \in 1..n
    BY <1>1, <2>1 DEF Rising
  <2>2. CASE i \in 1..n /\ j - n \in 1..k /\ n + (j - n) = j
    <3>1. c[i].id \in Ids(s) /\ c[j] = r[j - n] /\ c[j].id \in Ids(r)
      BY <1>1, <2>2 DEF Ids
    <3> QED
      BY <3>1
  <2>3. CASE i - n \in 1..k /\ n + (i - n) = i /\ j - n \in 1..k /\ n + (j - n) = j
    <3>1. i - n < j - n
      BY <1>1
    <3>2. c[i] = r[i - n] /\ c[j] = r[j - n]
      BY <1>1, <2>3
    <3> QED
      BY <1>1, <2>3, <3>1, <3>2 DEF Rising
  <2>4. i \in 1..n \/ j \notin 1..n
    BY <1>1
  <2> QED
    BY <1>2, <2>1, <2>2, <2>3, <2>4
<1> QED
  BY <1>4, <1>5 DEF c

\* What is left to a callback, and what is about to be posted.
LEMMA LeftType ==
  ASSUME TypeOK, BusyOK, NEW t \in Threads
  PROVE  Left(t) \in Seq(Msg) /\ Ids(Left(t)) \subseteq Nat
<1>1. batch[t] \in Seq(Msg)
  BY DEF TypeOK, LoopTypeOK
<1>2. busy[t] => Tail(batch[t]) \in Seq(Msg)
  BY <1>1, SeqFacts DEF BusyOK
<1>3. Left(t) \in Seq(Msg)
  BY <1>1, <1>2 DEF Left
<1> QED
  BY <1>3, IdsType

\* What is about to be posted is numbered.
LEMMA PostedType ==
  ASSUME TypeOK, NEW t \in Threads, NEW m
  PROVE  Posted(t, m) \subseteq Nat
<1>1. Ops(t) \subseteq Op
  BY DEF TypeOK, TodoTypeOK, Ops
<1>2. \A o \in Ops(t) : o.op = "post" => o.msg \in Msg
  BY <1>1, OpFields
<1>3. \A x \in Msg : x.id \in Nat
  BY DEF Msg
<1> QED
  BY <1>2, <1>3 DEF Posted

\* A step delivers nothing from m, and what it is about to post is newer than everything.
TakesKept(m) == \A u \in Threads : Receives(u, m)' => Receives(u, m) /\ Left(u)' = Left(u)
PostsNewer(m) == \A u \in Threads : \A z \in Posted(u, m)' :
                    z \in Posted(u, m) \/ (z = calls' /\ calls < calls')

\* Such a step keeps the order, when it puts nothing into the inbox of m.
LEMMA OrderFrame ==
  ASSUME TypeOK, BusyOK, TypeOK', NEW m \in Mailboxes, OrderOK(m), last'[m] = last[m],
         calls <= calls', inbox'[m] = inbox[m] \/ inbox'[m] = <<>>, TakesKept(m), PostsNewer(m)
  PROVE  OrderOK(m)'
<1>1. calls \in Nat /\ calls' \in Nat /\ last[m] \in Nat /\ last'[m] = last[m]
  <2>1. calls \in 0..MaxCalls /\ calls' \in 0..MaxCalls /\ last[m] \in 0..MaxCalls
    BY DEF TypeOK, HistoryTypeOK
  <2>2. MaxCalls \in Nat
    BY ChannelAssumption
  <2> QED
    BY <2>1, <2>2
<1> DEFINE I == Ids(inbox[m])
<1>2. I \subseteq Nat
  BY IdsType DEF TypeOK, MailboxTypeOK
<1>3. Rising(inbox[m])' /\ Ids(inbox[m])' \subseteq I
  <2>1. Rising(inbox[m])
    BY DEF OrderOK
  <2>2. CASE inbox'[m] = inbox[m]
    BY <2>1, <2>2 DEF Rising, Ids
  <2> DEFINE e == <<>>
  <2>3. Ids(e) = {} /\ Rising(e)
    BY IdsEmpty
  <2>4. CASE inbox'[m] = e
    BY <2>3, <2>4 DEF Rising, Ids
  <2> QED
    BY <2>2, <2>4
<1>4. last[m] <= calls /\ \A x \in I : last[m] < x /\ x <= calls
  BY DEF OrderOK
<1>5. ASSUME NEW t \in Threads, Receives(t, m)'
      PROVE  TakenOK(t, m)'
  <2> DEFINE L == Left(t)
  <2>1. TakenOK(t, m) /\ Left(t)' = L
    BY <1>5 DEF TakesKept, OrderOK
  <2>2. Ids(L) \subseteq Nat /\ Rising(L)
    BY <2>1, LeftType DEF TakenOK
  <2>3. \A y \in Ids(L) : last[m] < y /\ y <= calls /\ \A x \in I : y < x
    BY <2>1 DEF TakenOK
  <2>4. Rising(Left(t))' /\ Ids(Left(t))' = Ids(L)
    BY <2>1, <2>2 DEF Rising, Ids
  <2> HIDE DEF L, I
  <2>5. \A y \in Ids(L) : last'[m] < y /\ y <= calls' /\ \A x \in Ids(inbox[m])' : y < x
    BY <1>1, <1>3, <2>2, <2>3
  <2> QED
    BY <2>4, <2>5 DEF TakenOK
<1>6. ASSUME NEW t \in Threads, NEW z \in Posted(t, m)'
      PROVE  /\ last'[m] < z /\ z <= calls'
             /\ \A x \in Ids(inbox[m])' : x < z
             /\ \A u \in Threads : Receives(u, m)' => \A y \in Ids(Left(u))' : y < z
  <2>1. \A u \in Threads : Receives(u, m)' => Receives(u, m) /\ Ids(Left(u))' = Ids(Left(u))
    BY DEF TakesKept, Ids
  <2>2. CASE z \in Posted(t, m)
    <3>1. z \in Nat
      BY <2>2, PostedType
    <3>2. /\ last[m] < z /\ z <= calls /\ \A x \in I : x < z
          /\ \A u \in Threads : Receives(u, m) => \A y \in Ids(Left(u)) : y < z
      BY <2>2 DEF OrderOK, PostedOK
    <3> HIDE DEF I
    <3> QED
      BY <1>1, <1>3, <2>1, <3>1, <3>2
  <2>3. CASE z = calls' /\ calls < calls'
    <3>1. \A u \in Threads : Receives(u, m) =>
            Ids(Left(u)) \subseteq Nat /\ \A y \in Ids(Left(u)) : y <= calls
      BY LeftType DEF OrderOK, TakenOK
    <3>2. /\ last'[m] < z /\ z <= calls'
      BY <1>1, <1>4, <2>3
    <3>3. \A x \in Nat : x <= calls => x < z
      BY <1>1, <2>3
    <3> HIDE DEF I
    <3>4. \A x \in I : x < z
      BY <1>2, <1>4, <3>3
    <3> QED
      BY <1>3, <2>1, <3>1, <3>2, <3>3, <3>4
  <2> QED
    BY <1>6, <2>2, <2>3 DEF PostsNewer
<1>7. last'[m] <= calls' /\ \A x \in Ids(inbox[m])' : last'[m] < x /\ x <= calls'
  <2>1. last'[m] <= calls'
    BY <1>1, <1>4
  <2> HIDE DEF I
  <2>2. ASSUME NEW x \in I PROVE last'[m] < x /\ x <= calls'
    <3>1. x \in Nat /\ last[m] < x /\ x <= calls
      BY <1>2, <1>4
    <3> QED
      BY <1>1, <3>1
  <2> QED
    BY <1>3, <2>1, <2>2
<1>8. \A t \in Threads : PostedOK(t, m)'
  BY <1>6 DEF PostedOK
<1> QED
  BY <1>3, <1>5, <1>7, <1>8 DEF OrderOK

----------------------------------------------------------------------------
(* What is about to be posted, and what the callbacks have taken.          *)

\* Operations that post nothing.
Postless(r) == r \in Seq(Op) /\ \A i \in DOMAIN r : r[i].op # "post"

\* Nothing posts nothing,
LEMMA PostlessNone ==
  ASSUME NEW r, r = <<>>
  PROVE  Postless(r)
BY EmptyType DEF Postless

\* nor does another operation,
LEMMA PostlessOne ==
  ASSUME NEW o \in Op, o.op # "post"
  PROVE  Postless(<<o>>)
<1> DEFINE r == <<o>>
<1>1. r \in Seq(Op) /\ DOMAIN r = {1} /\ r[1] = o
  OBVIOUS
<1> HIDE DEF r
<1>2. Postless(r)
  BY <1>1 DEF Postless
<1> QED
  BY <1>2 DEF r

\* nor the freeing of messages,
LEMMA PostlessFreeing ==
  ASSUME NEW s \in Seq(Msg)
  PROVE  Postless(Freeing(s))
BY FreeingType, FreeOnly DEF Postless

\* nor the release of a port,
LEMMA PostlessRelease ==
  ASSUME NEW m0 \in Mailboxes, NEW m1 \in Mailboxes
  PROVE  Postless(Release(m0, m1))
<1> DEFINE r == Release(m0, m1)
<1>1. /\ r \in Seq(Op) /\ DOMAIN r = 1..3 /\ r[1] = CloseOp(m0) /\ r[2] = UnrefOp(m0)
      /\ r[3] = UnrefOp(m1)
  BY ReleaseType DEF Release
<1> HIDE DEF r
<1>2. Postless(r)
  BY <1>1 DEF Postless, CloseOp, UnrefOp
<1> QED
  BY <1>2 DEF r

\* nor one after the other.
LEMMA PostlessCat ==
  ASSUME NEW r, NEW s, Postless(r), Postless(s)
  PROVE  Postless(r \o s)
<1> DEFINE c == r \o s
<1>1. r \in Seq(Op) /\ s \in Seq(Op)
  BY DEF Postless
<1>2. c \in Seq(Op)
  BY <1>1
<1>3. \A i \in DOMAIN c : \/ i \in DOMAIN r /\ c[i] = r[i]
                          \/ i - Len(r) \in DOMAIN s /\ c[i] = s[i - Len(r)]
  BY <1>1, ConcatFacts
<1> HIDE DEF c
<1>4. Postless(c)
  BY <1>2, <1>3 DEF Postless
<1> QED
  BY <1>4 DEF c

\* A step that pushes such operations posts nothing new.
LEMMA PostsPushed ==
  ASSUME TypeOK, NEW t \in Threads, NEW r, Postless(r), Push(t, r), NEW m
  PROVE  PostsNewer(m)
<1>1. r \in Seq(Op) /\ \A o \in SeqRange(r) : o.op # "post"
  BY DEF Postless, SeqRange
<1>2. /\ SeqRange(todo'[t]) \subseteq SeqRange(r) \cup Ops(t)
      /\ \A u \in Threads : u # t => todo'[u] = todo[u]
  <2>1. CASE Call(t, r)
    BY <1>1, <2>1, CallFacts
  <2>2. CASE todo[t] # <<>> /\ Continue(t, r)
    BY <1>1, <2>2, ContinueFacts DEF SeqRange, Ops
  <2> QED
    BY <2>1, <2>2 DEF Push
<1>3. \A u \in Threads : \A o \in Ops(u)' : o.op = "post" => o \in Ops(u)
  <2> SUFFICES ASSUME NEW u \in Threads, NEW o \in Ops(u)', o.op = "post"
               PROVE  o \in Ops(u)
    OBVIOUS
  <2>1. CASE u = t
    BY <1>1, <1>2, <2>1, ZenonT(60) DEF SeqRange, Ops
  <2>2. CASE u # t
    BY <1>2, <2>2 DEF Ops
  <2> QED
    BY <2>1, <2>2
<1> QED
  BY <1>3 DEF PostsNewer, Posted

\* Stacks that stay post nothing new.
LEMMA PostsStill ==
  ASSUME UNCHANGED todo, NEW m
  PROVE  PostsNewer(m)
BY DEF PostsNewer, Posted, Ops

\* A callback that delivers after a step did so before it.
LEMMA ReceivesStill ==
  ASSUME TypeOK, PortOK, CallbackOK, NEW t \in Threads, PortsMove(t), NEW u \in Threads, NEW m,
         cur'[u] = cur[u], src'[u] = src[u], Receives(u, m)'
  PROVE  Receives(u, m)
<1>1. cur[u] # None /\ src[u] = m /\ state'[cur[u]] \in {"open", "started"}
  BY DEF Receives, Live
<1>2. PICK p \in Ports : p = cur[u]
  BY <1>1 DEF TypeOK, LoopTypeOK
<1>3. home[p] = u /\ state'[p] \in {"open", "started"}
  BY <1>1, <1>2 DEF CallbackOK
<1>4. state[p] # "unused"
  BY <1>3, ChannelAssumption DEF PortOK
<1>5. PortMove(t, p)
  BY <1>4 DEF PortsMove
<1>6. Live(p)
  BY <1>3, <1>5 DEF PortMove, Live
<1> QED
  BY <1>1, <1>2, <1>6 DEF Receives

\* A callback that goes on delivers what it has taken.
LEMMA TakesStill ==
  ASSUME TypeOK, PortOK, CallbackOK, NEW t \in Threads, PortsMove(t), NEW m,
         \A u \in Threads : Receives(u, m)' =>
            cur'[u] = cur[u] /\ src'[u] = src[u] /\ Left(u)' = Left(u)
  PROVE  TakesKept(m)
<1> SUFFICES ASSUME NEW u \in Threads, Receives(u, m)'
             PROVE  Receives(u, m) /\ Left(u)' = Left(u)
  BY DEF TakesKept
<1>1. cur'[u] = cur[u] /\ src'[u] = src[u] /\ Left(u)' = Left(u)
  OBVIOUS
<1> QED
  BY <1>1, ReceivesStill

\* The batch of a callback is taken by one thread.
LEMMA OneTaker ==
  ASSUME TypeOK, CallbackOK, NEW m \in Mailboxes, Law(m), NEW p \in Ports, rx[p] = m,
         NEW u \in Threads, Receives(u, m)
  PROVE  cur[u] = p /\ home[p] = u
<1> DEFINE q == cur[u]
<1>1. q \in Ports /\ home[q] = u /\ rx[q] = m
  BY DEF Receives, CallbackOK, TypeOK, LoopTypeOK
<1>2. q = p
  BY <1>1, OneReceiver
<1> QED
  BY <1>1, <1>2

\* One port sends to m, and its thread does so at once.
LEMMA OnePoster ==
  ASSUME TypeOK, StackOK, NEW m \in Mailboxes, Law(m), NEW t \in Threads, NEW u \in Threads,
         NEW i \in DOMAIN todo[t], todo[t][i].op = "post", todo[t][i].mb = m,
         NEW j \in DOMAIN todo[u], todo[u][j].op = "post", todo[u][j].mb = m
  PROVE  u = t /\ j = i
<1>1. PlaceOK(t, i) /\ PlaceOK(u, j)
  BY DEF StackOK
<1>2. PICK p \in Ports : home[p] = t /\ tx[p] = m
  BY <1>1 DEF PlaceOK
<1>3. PICK q \in Ports : home[q] = u /\ tx[q] = m
  BY <1>1 DEF PlaceOK
<1>4. i = 1 /\ j = 1
  BY <1>1 DEF PlaceOK
<1>5. N("tx", m) <= 1
  BY DEF Law
<1>6. q = p
  BY <1>2, <1>3, <1>5, PortsHold
<1> QED
  BY <1>2, <1>3, <1>4, <1>6

----------------------------------------------------------------------------
(* The order of messages, step by step.                                    *)

\* What scripts and the collector post is newer than everything.
LEMMA PostMessagePosts ==
  ASSUME TypeOK, PortOK, NEW t \in Threads, NEW p \in Ports, NEW list \in TransferLists(t, p),
         PostMessage(t, p, list), NEW m
  PROVE  PostsNewer(m)
<1> DEFINE x == [id |-> calls + 1,
                 ports |-> [i \in DOMAIN list |-> [rx |-> rx[list[i]], tx |-> tx[list[i]]]]]
           o == PostOp(tx[p], x)
           z == <<o>>
           y == <<x>>
<1>1. Calling(t) /\ Live(p) /\ (Call(t, Freeing(y)) \/ Call(t, z))
  BY Zenon DEF PostMessage
<1>2. todo[t] = <<>> /\ x \in Msg /\ tx[p] \in Mailboxes
  BY <1>1, CallsType, MessageType DEF PortOK
<1>3. x.id = calls' /\ calls < calls'
  BY <1>1 DEF Calling, TypeOK, HistoryTypeOK
<1> HIDE DEF x
<1>4. o \in Op /\ o.msg = x /\ o.op = "post" /\ y \in Seq(Msg)
  BY <1>2, OpTypes DEF PostOp
<1> HIDE DEF o, y
<1>5. CASE Call(t, Freeing(y))
  BY <1>2, <1>4, <1>5, PostlessFreeing, PostsPushed DEF Push
<1>6. CASE Call(t, z)
  <2>1. z \in Seq(Op) /\ {z[i] : i \in DOMAIN z} = {o}
    BY <1>4
  <2> HIDE DEF z
  <2>2. todo'[t] = z /\ \A u \in Threads : u # t => todo'[u] = todo[u]
    BY <1>6, <2>1, CallFacts
  <2>3. Ops(t)' = {o} /\ \A u \in Threads : u # t => Ops(u)' = Ops(u)
    BY <2>1, <2>2 DEF Ops
  <2> SUFFICES ASSUME NEW u \in Threads, NEW n \in Posted(u, m)'
               PROVE  n \in Posted(u, m) \/ (n = calls' /\ calls < calls')
    BY DEF PostsNewer
  <2>4. CASE u = t
    BY <1>3, <1>4, <2>3, <2>4 DEF Posted
  <2>5. CASE u # t
    BY <2>3, <2>5 DEF Posted
  <2> QED
    BY <2>4, <2>5
<1> QED
  BY <1>1, <1>5, <1>6

\* The collector posts nothing,
LEMMA FinalizePosts ==
  ASSUME TypeOK, PortOK, NEW t \in Threads, NEW p \in Ports, Finalize(t, p), NEW m
  PROVE  PostsNewer(m)
<1> DEFINE o == PortOp("uvclose", p)
           s == <<o>>
           r == Release(rx[p], tx[p])
<1>1. Collecting(t) /\ ((Live(p) /\ Call(t, r \o s)) \/ Call(t, s))
  BY Zenon DEF Finalize
<1>2. todo[t] = <<>> /\ o \in Op /\ o.op # "post"
  BY <1>1, CollectingType, OpTypes DEF PortOp
<1> HIDE DEF o
<1>3. Postless(s)
  BY <1>2, PostlessOne
<1>4. Live(p) => Postless(r)
  BY PostlessRelease DEF PortOK
<1> HIDE DEF s, r
<1>5. Live(p) => Postless(r \o s)
  BY <1>3, <1>4, PostlessCat
<1> QED
  BY <1>1, <1>2, <1>3, <1>5, PostsPushed DEF Push

\* nor does a new worker,
LEMMA SpawnPosts ==
  ASSUME TypeOK, PortOK, NEW t \in Threads, NEW u \in Threads, SpawnWorker(t, u), NEW m
  PROVE  PostsNewer(m)
<1>1. todo[t] = <<>> /\ SpawnedPipe(t, u)
  BY SpawnPorts
<1>2. PICK a \in UnusedPorts : \E m0 \in Mailboxes, m1 \in Mailboxes :
         Call(t, <<UnrefOp(m0), UnrefOp(m1), PortOp("start", a)>>)
  BY <1>1, Zenon DEF SpawnedPipe
<1>3. PICK m0 \in Mailboxes, m1 \in Mailboxes :
         Call(t, <<UnrefOp(m0), UnrefOp(m1), PortOp("start", a)>>)
  BY <1>2
<1> DEFINE o == UnrefOp(m0)
           p == UnrefOp(m1)
           q == PortOp("start", a)
           r == <<o, p, q>>
<1>4. o \in Op /\ p \in Op /\ q \in Op /\ o.op # "post" /\ p.op # "post" /\ q.op # "post"
  BY OpTypes DEF UnusedPorts, UnrefOp, PortOp
<1>5. Call(t, r)
  BY <1>3
<1> HIDE DEF o, p, q
<1>6. r \in Seq(Op) /\ \A i \in DOMAIN r : r[i].op # "post"
  BY <1>4
<1> HIDE DEF r
<1> QED
  BY <1>1, <1>5, <1>6, PostsPushed DEF Postless, Push

\* nor its end;
LEMMA TerminatePosts ==
  ASSUME TypeOK, NEW t \in Threads, NEW u \in Threads, Terminate(t, u), NEW m
  PROVE  PostsNewer(m)
<1> DEFINE p == near[u]
           r == <<JoinOp(u), PortOp("shut", p)>>
<1>1. Collecting(t) /\ near[u] # None /\ Call(t, r)
  BY Zenon DEF Terminate
<1>2. todo[t] = <<>> /\ p \in Ports
  BY <1>1, CollectingType DEF TypeOK, ThreadTypeOK
<1> HIDE DEF p
<1>3. r \in Seq(Op) /\ DOMAIN r = 1..2 /\ r[1] = JoinOp(u) /\ r[2] = PortOp("shut", p)
  BY <1>2, OpTypes
<1> HIDE DEF r
<1>4. \A i \in DOMAIN r : r[i].op # "post"
  BY <1>3 DEF JoinOp, PortOp
<1> QED
  BY <1>1, <1>2, <1>3, <1>4, PostsPushed DEF Postless, Push

\* a script posts a message that is newer than all others.
LEMMA ScriptPosts ==
  ASSUME TypeOK, PortOK, NEW t \in Threads, Script(t), NEW m
  PROVE  PostsNewer(m)
<1>1. CASE NewChannel(t) \/ Stop(t)
  <2>1. UNCHANGED todo
    BY <1>1, Zenon DEF NewChannel, Stop
  <2> QED
    BY <2>1, PostsStill
<1>2. CASE \E u \in Threads : SpawnWorker(t, u) \/ Terminate(t, u)
  BY <1>2, SpawnPosts, TerminatePosts
<1>3. CASE \E p \in Ports : \E list \in TransferLists(t, p) : PostMessage(t, p, list)
  BY <1>3, PostMessagePosts
<1>4. CASE \E p \in Ports : Start(t, p)
  <2>1. PICK p \in Ports : Start(t, p)
    BY <1>4
  <2> DEFINE o == PortOp("wake", p)
             r == <<o>>
  <2>2. Calling(t) /\ Call(t, r)
    BY <2>1, Zenon DEF Start, Flush
  <2>3. todo[t] = <<>> /\ o \in Op /\ o.op # "post"
    BY <2>2, CallsType, OpTypes DEF PortOp
  <2> HIDE DEF o
  <2>4. Postless(r)
    BY <2>3, PostlessOne
  <2> HIDE DEF r
  <2> QED
    BY <2>2, <2>3, <2>4, PostsPushed DEF Push
<1>5. CASE \E p \in Ports : Close(t, p)
  <2>1. PICK p \in Ports : Close(t, p)
    BY <1>5
  <2>2. Calling(t) /\ Live(p) /\ Call(t, Release(rx[p], tx[p]))
    BY <2>1, Zenon DEF Close
  <2>3. todo[t] = <<>> /\ Postless(Release(rx[p], tx[p]))
    BY <2>2, CallsType, PostlessRelease DEF PortOK
  <2> QED
    BY <2>2, <2>3, PostsPushed DEF Push
<1>6. CASE \E p \in Ports : Finalize(t, p)
  BY <1>6, FinalizePosts
<1> QED
  BY <1>1, <1>2, <1>3, <1>4, <1>5, <1>6, Zenon DEF Script

\* The order of messages survives what scripts and the collector do.
LEMMA ScriptOrder ==
  ASSUME TypeOK, TypeOK', PortOK, BusyOK, CallbackOK, Order, NEW t \in Threads, Script(t)
  PROVE  Order'
<1>1. /\ UNCHANGED loopVars /\ UNCHANGED last
      /\ Calling(t) \/ Collecting(t)
  BY Zenon DEF Script, NewChannel, SpawnWorker, Terminate, Stop, PostMessage, Start, Close, Finalize
<1>2. UNCHANGED inbox
  <2>1. CASE NewChannel(t)
    <3>1. PICK m0, m1, a, b : Entangle(m0, m1, a, b, t, t, 2)
      BY <2>1, Zenon DEF NewChannel
    <3> QED
      BY <3>1, Zenon DEF Entangle
  <2>5. CASE \E u \in Threads : SpawnWorker(t, u)
    <3>1. PICK u, m0, m1, a, b : Entangle(m0, m1, a, b, t, u, 3)
      BY <2>5, Zenon DEF SpawnWorker
    <3> QED
      BY <3>1, Zenon DEF Entangle
  <2>2. CASE Stop(t) \/ \E u \in Threads : Terminate(t, u)
    <3>1. UNCHANGED mailboxVars
      BY <2>2, Zenon DEF Stop, Terminate
    <3> QED
      BY <3>1 DEF mailboxVars
  <2>3. CASE \E p \in Ports : \/ \E list \in TransferLists(t, p) : PostMessage(t, p, list)
                              \/ Start(t, p)
    BY <2>3, Zenon DEF PostMessage, Start, Own
  <2>4. CASE \E p \in Ports : Close(t, p) \/ Finalize(t, p)
    <3>1. UNCHANGED mailboxVars
      BY <2>4, Zenon DEF Close, Finalize, Detach
    <3> QED
      BY <3>1 DEF mailboxVars
  <2> QED
    BY <2>1, <2>2, <2>3, <2>4, <2>5, Zenon DEF Script
<1>3. calls <= calls'
  BY <1>1 DEF Calling, Collecting, TypeOK, HistoryTypeOK
<1>4. ASSUME NEW m \in Mailboxes PROVE OrderOK(m)'
  <2>1. \A u \in Threads : cur'[u] = cur[u] /\ src'[u] = src[u] /\ Left(u)' = Left(u)
    BY <1>1 DEF loopVars, Left
  <2>2. TakesKept(m)
    BY <2>1, ScriptMove, TakesStill
  <2>3. PostsNewer(m) /\ OrderOK(m) /\ inbox'[m] = inbox[m] /\ last'[m] = last[m]
    BY <1>1, <1>2, ScriptPosts DEF Order
  <2> QED
    BY <1>3, <2>2, <2>3, OrderFrame
<1> QED
  BY <1>4 DEF Order

\* ... and what the loop does between two callbacks.
LEMMA LoopOrder ==
  ASSUME TypeOK, TypeOK', PortOK, BusyOK, CallbackOK, Order, NEW t \in Threads, Loop(t)
  PROVE  Order'
<1>1. /\ UNCHANGED loopVars /\ UNCHANGED last /\ UNCHANGED calls /\ UNCHANGED mailboxVars
  BY Zenon DEF Loop, LoopWake, CloseCb, LoopReturn, FreeRuntime, FreeEngine, CloseLoop, LoopClosed,
               Phase
<1>2. ASSUME NEW m PROVE PostsNewer(m)
  <2>1. CASE \E p \in Ports : LoopWake(t, p)
    <3>1. PICK p \in Ports : LoopWake(t, p)
      BY <2>1
    <3> DEFINE o == PortOp("splice", p)
               z == <<o>>
               r == <<>>
    <3>2. todo[t] = <<>> /\ (Call(t, z) \/ Call(t, r))
      BY <3>1, Zenon DEF LoopWake, Turning, Idle
    <3>3. o \in Op /\ o.op # "post" /\ Postless(r)
      BY OpTypes, PostlessNone DEF PortOp
    <3> HIDE DEF o
    <3>4. Postless(z)
      BY <3>3, PostlessOne
    <3> HIDE DEF z, r
    <3> QED
      BY <3>2, <3>3, <3>4, PostsPushed DEF Push
  <2>2. CASE ~ \E p \in Ports : LoopWake(t, p)
    <3>1. UNCHANGED todo
      BY <2>2, Zenon DEF Loop, CloseCb, LoopReturn, FreeRuntime, FreeEngine, CloseLoop, LoopClosed,
                         Phase
    <3> QED
      BY <3>1, PostsStill
  <2> QED
    BY <2>1, <2>2
<1>3. ASSUME NEW m \in Mailboxes PROVE OrderOK(m)'
  <2>1. \A u \in Threads : cur'[u] = cur[u] /\ src'[u] = src[u] /\ Left(u)' = Left(u)
    BY <1>1 DEF loopVars, Left
  <2>2. TakesKept(m)
    BY <2>1, LoopMove, TakesStill
  <2>3. PostsNewer(m) /\ OrderOK(m) /\ inbox'[m] = inbox[m] /\ last'[m] = last[m]
        /\ calls <= calls'
    BY <1>1, <1>2 DEF Order, mailboxVars, TypeOK, HistoryTypeOK
  <2> QED
    BY <2>2, <2>3, OrderFrame
<1> QED
  BY <1>3 DEF Order

\* A step that delivers nothing, takes nothing out of an inbox to deliver it, and puts nothing
\* into one.
LEMMA OrderQuiet ==
  ASSUME TypeOK, TypeOK', PortOK, BusyOK, CallbackOK, Order, NEW t \in Threads, PortsMove(t),
         UNCHANGED <<last, calls>>, NEW r, Postless(r), Push(t, r),
         \A q \in Mailboxes : inbox'[q] = inbox[q] \/ inbox'[q] = <<>>,
         \A u \in Threads : \A m : Receives(u, m)' =>
            cur'[u] = cur[u] /\ src'[u] = src[u] /\ Left(u)' = Left(u)
  PROVE  Order'
<1>1. ASSUME NEW m \in Mailboxes PROVE OrderOK(m)'
  <2>1. TakesKept(m)
    BY TakesStill
  <2>2. PostsNewer(m)
    BY PostsPushed
  <2>3. OrderOK(m) /\ last'[m] = last[m] /\ calls' = calls
    BY DEF Order
  <2>4. calls <= calls'
    BY <2>3 DEF TypeOK, HistoryTypeOK
  <2> QED
    BY <2>1, <2>2, <2>3, <2>4, OrderFrame
<1> QED
  BY <1>1 DEF Order

\* The functions that a thread is in, but for the posting of a message.
LEMMA QuietStep ==
  ASSUME TypeOK, TypeOK', PortOK, TodoOK, BusyOK, StackOK, CallbackOK, Order,
         NEW t \in Threads, PortsMove(t), UNCHANGED <<last, calls, loopVars>>,
         NEW r, Postless(r), Push(t, r),
         \A q \in Mailboxes : inbox'[q] = inbox[q] \/ inbox'[q] = <<>>
  PROVE  Order'
<1>1. \A u \in Threads : cur'[u] = cur[u] /\ src'[u] = src[u] /\ Left(u)' = Left(u)
  BY DEF loopVars, Left
<1> QED
  BY <1>1, OrderQuiet

\* An inbox that is emptied.
LEMMA EmptiedFacts ==
  ASSUME TypeOK, NEW m, inbox' = Emptied(m)
  PROVE  \A q \in Mailboxes : inbox'[q] = inbox[q] \/ inbox'[q] = <<>>
BY DEF Emptied, TypeOK, MailboxTypeOK

\* The functions that a thread is in keep the order, but for the posting of a message.
LEMMA FunctionOrder ==
  ASSUME TypeOK, TypeOK', PortOK, TodoOK, BusyOK, StackOK, CallbackOK, Order, NEW t \in Threads,
         \/ CloseStep(t) \/ UnrefStep(t) \/ FreeStep(t) \/ StartStep(t) \/ WakeStep(t)
         \/ UvCloseStep(t) \/ JoinStep(t) \/ ShutStep(t)
  PROVE  Order'
<1>1. PortsMove(t)
  BY StepMove, Zenon DEF Step
<1>2. UNCHANGED <<last, calls, loopVars>>
  <2>1. UNCHANGED last /\ UNCHANGED calls /\ UNCHANGED loopVars
    BY Zenon DEF CloseStep, UnrefStep, FreeStep, StartStep, WakeStep, UvCloseStep, JoinStep,
                 ShutStep
  <2> QED
    BY <2>1
<1> DEFINE e == <<>>
<1>3. Postless(e)
  BY PostlessNone
<1>4. \A q \in Mailboxes : inbox[q] \in Seq(Msg)
  BY DEF TypeOK, MailboxTypeOK
<1>5. CASE CloseStep(t)
  <2> DEFINE m == Head(todo[t]).mb
  <2>1. Doing(t, "close") /\ inbox' = Emptied(m) /\ Continue(t, Freeing(inbox[m]))
    BY <1>5, Zenon DEF CloseStep
  <2>2. todo[t] # <<>> /\ m \in Mailboxes
    BY <2>1, HeadFacts DEF Doing
  <2>3. Postless(Freeing(inbox[m])) /\ Push(t, Freeing(inbox[m]))
    BY <1>4, <2>1, <2>2, PostlessFreeing DEF Push
  <2> HIDE DEF m
  <2> QED
    BY <1>1, <1>2, <2>1, <2>3, EmptiedFacts, QuietStep
<1>6. CASE UnrefStep(t)
  <2> DEFINE m == Head(todo[t]).mb
  <2>1. /\ Doing(t, "unref")
        /\ \/ inbox' = Emptied(m) /\ Continue(t, Freeing(inbox[m]))
           \/ UNCHANGED inbox /\ Continue(t, e)
    BY <1>6, Zenon DEF UnrefStep
  <2>2. todo[t] # <<>> /\ m \in Mailboxes
    BY <2>1, HeadFacts DEF Doing
  <2>3. Postless(Freeing(inbox[m]))
    BY <1>4, <2>2, PostlessFreeing
  <2>4. PICK r : Postless(r) /\ Push(t, r)
    BY <1>3, <2>1, <2>2, <2>3 DEF Push
  <2> HIDE DEF m
  <2>5. \A q \in Mailboxes : inbox'[q] = inbox[q] \/ inbox'[q] = <<>>
    BY <2>1, EmptiedFacts
  <2> QED
    BY <1>1, <1>2, <2>4, <2>5, QuietStep
<1>7. CASE FreeStep(t)
  <2> DEFINE s == Head(todo[t]).msgs
             x == Head(s)
             y == [x EXCEPT !.ports = Tail(@)]
             z == <<y>> \o Tail(s)
             p == Head(x.ports)
  <2>1. /\ Doing(t, "free") /\ UNCHANGED mailboxVars
        /\ \/ x.ports = <<>> /\ Continue(t, Freeing(Tail(s)))
           \/ x.ports # <<>> /\ Continue(t, Release(p.rx, p.tx) \o Freeing(z))
    BY <1>7, Zenon DEF FreeStep
  <2>2. todo[t] # <<>> /\ s \in Seq(Msg) /\ s # <<>>
    BY <2>1, HeadFacts DEF Doing
  <2>3. x \in Msg /\ Tail(s) \in Seq(Msg)
    BY <2>2, SeqFacts
  <2>4. x.ports # <<>> => p \in PortRef /\ y \in Msg
    BY <2>3, MsgPort
  <2>5. Postless(Freeing(Tail(s)))
    BY <2>3, PostlessFreeing
  <2>6. x.ports # <<>> => z \in Seq(Msg)
    BY <2>3, <2>4, SeqFacts
  <2>7. p \in PortRef => p.rx \in Mailboxes /\ p.tx \in Mailboxes
    BY DEF PortRef
  <2> HIDE DEF p, z
  <2>8. x.ports # <<>> => Postless(Release(p.rx, p.tx) \o Freeing(z))
    BY <2>4, <2>6, <2>7, PostlessRelease, PostlessFreeing, PostlessCat
  <2>9. PICK r : Postless(r) /\ Push(t, r)
    BY <2>1, <2>2, <2>5, <2>8 DEF Push
  <2>10. UNCHANGED inbox
    BY <2>1 DEF mailboxVars
  <2> QED
    BY <1>1, <1>2, <2>9, <2>10, QuietStep
<1>8. CASE StartStep(t)
  <2> DEFINE o == PortOp("wake", Head(todo[t]).port)
             z == <<o>>
  <2>1. Doing(t, "start") /\ Continue(t, z) /\ UNCHANGED inbox
    BY <1>8, Zenon DEF StartStep, Flush, Own
  <2>2. todo[t] # <<>> /\ Head(todo[t]).port \in Ports
    BY <2>1, HeadFacts DEF Doing
  <2>3. o \in Op /\ o.op # "post"
    BY <2>2, OpTypes DEF PortOp
  <2> HIDE DEF o
  <2>4. Postless(z)
    BY <2>3, PostlessOne
  <2> HIDE DEF z
  <2>5. Push(t, z)
    BY <2>1, <2>2 DEF Push
  <2> QED
    BY <1>1, <1>2, <2>1, <2>4, <2>5, QuietStep
<1>9. CASE WakeStep(t) \/ UvCloseStep(t) \/ JoinStep(t)
  <2>1. /\ todo[t] # <<>> /\ Continue(t, e) /\ UNCHANGED mailboxVars
    BY <1>9, Zenon DEF WakeStep, UvCloseStep, JoinStep, Doing
  <2>2. Push(t, e) /\ UNCHANGED inbox
    BY <2>1 DEF Push, mailboxVars
  <2> HIDE DEF e
  <2> QED
    BY <1>1, <1>2, <1>3, <2>2, QuietStep
<1>10. CASE ShutStep(t)
  <2> DEFINE p == Head(todo[t]).port
  <2>1. /\ Doing(t, "shut") /\ UNCHANGED mailboxVars
        /\ \/ Live(p) /\ Continue(t, Release(rx[p], tx[p]))
           \/ Continue(t, e)
    BY <1>10, Zenon DEF ShutStep, Detach
  <2>2. todo[t] # <<>> /\ p \in Ports
    BY <2>1, HeadFacts DEF Doing
  <2>3. Live(p) => Postless(Release(rx[p], tx[p]))
    BY <2>2, PostlessRelease DEF PortOK
  <2>4. PICK r : Postless(r) /\ Push(t, r)
    BY <1>3, <2>1, <2>2, <2>3 DEF Push
  <2>5. UNCHANGED inbox
    BY <2>1 DEF mailboxVars
  <2> QED
    BY <1>1, <1>2, <2>4, <2>5, QuietStep
<1> QED
  BY <1>5, <1>6, <1>7, <1>8, <1>9, <1>10

\* The end of a handler, of a batch and of a callback.
LEMMA ReturnOrder ==
  ASSUME TypeOK, TypeOK', PortOK, TodoOK, BusyOK, StackOK, CallbackOK, Order, NEW t \in Threads,
         HandlerReturn(t) \/ DropRest(t) \/ CallbackReturn(t)
  PROVE  Order'
<1>1. PortsMove(t)
  BY StepMove, Zenon DEF Step
<1>2. /\ UNCHANGED last /\ UNCHANGED calls /\ UNCHANGED src /\ todo[t] = <<>>
      /\ UNCHANGED mailboxVars /\ UNCHANGED portVars
  BY Zenon DEF HandlerReturn, DropRest, CallbackReturn
<1>3. UNCHANGED inbox /\ UNCHANGED state
  BY <1>2 DEF mailboxVars, portVars
<1>4. batch[t] \in Seq(Msg)
  BY DEF TypeOK, LoopTypeOK
<1>5. PICK r : Postless(r) /\ Push(t, r)
  <2>1. CASE HandlerReturn(t)
    <3> DEFINE y == <<Head(batch[t])>>
    <3>1. busy[t] /\ Call(t, Freeing(y))
      BY <2>1, Zenon DEF HandlerReturn
    <3>2. y \in Seq(Msg)
      BY <1>4, <3>1, SeqFacts DEF BusyOK
    <3> HIDE DEF y
    <3> QED
      BY <1>2, <3>1, <3>2, PostlessFreeing DEF Push
  <2>2. CASE DropRest(t)
    <3>1. Call(t, Freeing(batch[t]))
      BY <2>2, Zenon DEF DropRest
    <3> QED
      BY <1>2, <1>4, <3>1, PostlessFreeing DEF Push
  <2>3. CASE CallbackReturn(t)
    <3> DEFINE e == <<>>
    <3>1. UNCHANGED todo
      BY <2>3, Zenon DEF CallbackReturn
    <3>2. Push(t, e) /\ Postless(e)
      BY <1>2, <3>1, Untouched, PostlessNone
    <3> QED
      BY <3>2
  <2> QED
    BY <2>1, <2>2, <2>3
<1>6. ASSUME NEW u \in Threads, NEW m, Receives(u, m)'
      PROVE  cur'[u] = cur[u] /\ src'[u] = src[u] /\ Left(u)' = Left(u)
  <2>0. cur'[u] # None /\ state'[cur'[u]] \in {"open", "started"}
    BY <1>6 DEF Receives, Live
  <2>1. CASE HandlerReturn(t)
    <3>1. /\ busy' = [busy EXCEPT ![t] = FALSE] /\ batch' = [batch EXCEPT ![t] = Tail(@)]
          /\ UNCHANGED cur /\ busy[t]
      BY <2>1, Zenon DEF HandlerReturn
    <3> QED
      BY <1>2, <3>1 DEF Left, TypeOK, LoopTypeOK
  <2>2. CASE DropRest(t)
    <3>1. /\ ~Live(cur[t]) /\ batch' = [batch EXCEPT ![t] = <<>>]
          /\ UNCHANGED cur /\ UNCHANGED busy
      BY <2>2, Zenon DEF DropRest
    <3>2. u # t
      BY <1>3, <2>0, <3>1 DEF Live
    <3> QED
      BY <1>2, <3>1, <3>2 DEF Left, TypeOK, LoopTypeOK
  <2>3. CASE CallbackReturn(t)
    <3>1. cur' = [cur EXCEPT ![t] = None] /\ UNCHANGED busy /\ UNCHANGED batch
      BY <2>3, Zenon DEF CallbackReturn
    <3>2. u # t
      BY <2>0, <3>1 DEF TypeOK, LoopTypeOK
    <3> QED
      BY <1>2, <3>1, <3>2 DEF Left, TypeOK, LoopTypeOK
  <2> QED
    BY <2>1, <2>2, <2>3
<1> QED
  BY <1>1, <1>2, <1>3, <1>5, <1>6, OrderQuiet

\* What was about to be posted has been posted, and nobody else posts to the same mailbox.
LEMMA PostedGone ==
  ASSUME TypeOK, StackOK, NEW m \in Mailboxes, Law(m), NEW t \in Threads, todo[t] # <<>>,
         Head(todo[t]).op = "post", Head(todo[t]).mb = m, NEW e, e = <<>>, Continue(t, e),
         NEW u \in Threads
  PROVE  Posted(u, m)' = {}
<1> DEFINE s == todo[t]
<1>1. s \in Seq(Op) /\ s # <<>> /\ 1 \in DOMAIN s /\ s[1] = Head(s)
  BY DEF TypeOK, TodoTypeOK
<1>2. e \in Seq(Op) /\ Len(e) = 0 /\ DOMAIN e = {}
  BY EmptyType
<1>3. s[1].op = "post" /\ s[1].mb = m
  BY <1>1
<1> SUFFICES ASSUME NEW o \in Ops(u)', o.op = "post", o.mb = m
             PROVE  FALSE
  BY DEF Posted
<1>4. PICK i \in DOMAIN todo'[u] : o = todo'[u][i]
  BY DEF Ops
<1>5. todo'[t] = e \o Tail(s) /\ (u # t => todo'[u] = todo[u])
  BY <1>2, ContinueFacts
<1>6. CASE u = t
  <2> HIDE DEF s
  <2> DEFINE c == e \o Tail(s)
  <2>1. \A j \in DOMAIN c : \/ j \in DOMAIN e /\ c[j] = e[j]
                            \/ j - Len(e) + 1 \in DOMAIN s /\ c[j] = s[j - Len(e) + 1]
    BY <1>1, <1>2, ReplaceHead
  <2>2. i \in DOMAIN c /\ o = c[i]
    BY <1>4, <1>5, <1>6
  <2> HIDE DEF c
  <2> DEFINE j == i - Len(e) + 1
  <2>3. j \in DOMAIN s /\ o = s[j]
    BY <1>2, <2>1, <2>2
  <2>4. j # 1
    <3>1. i \in DOMAIN c /\ c = todo'[t]
      BY <2>2, <1>5 DEF c
    <3>2. c \in Seq(Op)
      BY <1>1, <1>2, ReplaceHead DEF c
    <3>3. i \in Nat \ {0}
      BY <3>1, <3>2
    <3> QED
      BY <1>2, <3>3
  <2> HIDE DEF j
  <2>5. s = todo[t]
    BY DEF s
  <2> QED
    BY <1>1, <1>3, <2>3, <2>4, <2>5, OnePoster
<1>7. CASE u # t
  <2>1. i \in DOMAIN todo[u] /\ o = todo[u][i]
    BY <1>4, <1>5, <1>7
  <2> QED
    BY <1>1, <1>3, <1>7, <2>1, OnePoster
<1> QED
  BY <1>6, <1>7

\* The inbox a message is added to.
LEMMA PostedOrder ==
  ASSUME TypeOK, TypeOK', PortOK, BusyOK, CallbackOK, StackOK, Order, NEW m \in Mailboxes, Law(m),
         NEW t \in Threads, todo[t] # <<>>, Head(todo[t]).op = "post", Head(todo[t]).mb = m,
         NEW x \in Msg, x = Head(todo[t]).msg, NEW e, e = <<>>, Continue(t, e),
         inbox'[m] = Append(inbox[m], x), UNCHANGED <<last, calls>>, TakesKept(m)
  PROVE  OrderOK(m)'
<1> DEFINE I == Ids(inbox[m])
<1>1. OrderOK(m) /\ PostedOK(t, m)
  BY DEF Order, OrderOK
<1>2. PICK n \in Nat : n = x.id
  BY DEF Msg
<1>3. n \in Posted(t, m)
  BY <1>2, HeadFacts DEF Posted
<1>4. /\ last[m] < n /\ n <= calls /\ \A i \in I : i < n
      /\ \A u \in Threads : Receives(u, m) => \A i \in Ids(Left(u)) : i < n
  BY <1>1, <1>3 DEF PostedOK
<1>5. Rising(inbox[m]) /\ last[m] <= calls /\ \A i \in I : last[m] < i /\ i <= calls
  BY <1>1 DEF OrderOK
<1>6. inbox[m] \in Seq(Msg) /\ inbox'[m] = Append(inbox[m], x)
  BY DEF TypeOK, MailboxTypeOK
<1>7. Rising(inbox'[m]) /\ Ids(inbox'[m]) = I \cup {n}
  BY <1>2, <1>4, <1>5, <1>6, IdsAppend
<1>8. Rising(inbox[m])' /\ Ids(inbox[m])' = I \cup {n}
  BY <1>7 DEF Rising, Ids
<1>9. \A u \in Threads : Posted(u, m)' = {}
  BY PostedGone
<1>10. last'[m] = last[m] /\ calls' = calls
  OBVIOUS
<1> HIDE DEF I
<1>11. \A i \in Ids(inbox[m])' : last'[m] < i /\ i <= calls'
  BY <1>4, <1>5, <1>8, <1>10
<1>12. \A u \in Threads : PostedOK(u, m)'
  BY <1>9 DEF PostedOK
<1>13. ASSUME NEW u \in Threads, Receives(u, m)'
       PROVE  TakenOK(u, m)'
  <2>1. Receives(u, m) /\ Left(u)' = Left(u)
    BY <1>13 DEF TakesKept
  <2>2. TakenOK(u, m) /\ \A i \in Ids(Left(u)) : i < n
    BY <1>1, <1>4, <2>1 DEF OrderOK
  <2>3. Rising(Left(u))' /\ Ids(Left(u))' = Ids(Left(u))
    BY <2>1, <2>2 DEF TakenOK, Rising, Ids
  <2>4. \A y \in Ids(Left(u)) : last[m] < y /\ y <= calls /\ \A i \in I : y < i
    BY <2>2 DEF TakenOK, I
  <2>5. \A y \in Ids(Left(u)) : \A i \in I \cup {n} : y < i
    BY <2>2, <2>4
  <2> QED
    BY <1>8, <1>10, <2>3, <2>4, <2>5 DEF TakenOK
<1> QED
  BY <1>5, <1>8, <1>10, <1>11, <1>12, <1>13 DEF OrderOK

\* A message that is posted is newer than all that waits, and what is taken out is older.
LEMMA PostOrder ==
  ASSUME TypeOK, TypeOK', PortOK, TodoOK, BusyOK, StackOK, CallbackOK, Counts, Order,
         NEW t \in Threads, PostStep(t)
  PROVE  Order'
<1>1. PortsMove(t)
  BY StepMove, Zenon DEF Step
<1>2. Doing(t, "post") /\ UNCHANGED last /\ UNCHANGED calls /\ UNCHANGED loopVars
  BY Zenon DEF PostStep
<1>3. /\ todo[t] # <<>> /\ Head(todo[t]).op = "post" /\ Head(todo[t]).mb \in Mailboxes
      /\ Head(todo[t]).msg \in Msg
  BY <1>2, HeadFacts DEF Doing
<1>4. PICK m \in Mailboxes : m = Head(todo[t]).mb
  BY <1>3
<1>5. PICK x \in Msg : x = Head(todo[t]).msg
  BY <1>3
<1>6. PICK y \in Seq(Msg) : y = <<x>>
  <2>1. <<x>> \in Seq(Msg)
    OBVIOUS
  <2> QED
    BY <2>1, Zenon
<1>7. PICK e : e = <<>>
  OBVIOUS
<1>8. \/ UNCHANGED inbox /\ Continue(t, Freeing(y))
      \/ inbox' = [inbox EXCEPT ![m] = Append(@, x)] /\ Continue(t, e)
  BY <1>4, <1>5, <1>6, <1>7, Zenon DEF PostStep, Enqueue
<1>9. CASE UNCHANGED inbox /\ Continue(t, Freeing(y))
  <2>1. Postless(Freeing(y)) /\ Push(t, Freeing(y))
    BY <1>3, <1>9, PostlessFreeing DEF Push
  <2> QED
    BY <1>1, <1>2, <1>9, <2>1, QuietStep
<1>10. CASE inbox' = [inbox EXCEPT ![m] = Append(@, x)] /\ Continue(t, e)
  <2>1. /\ \A q \in Mailboxes : q # m => inbox'[q] = inbox[q]
        /\ inbox'[m] = Append(inbox[m], x)
    BY <1>10 DEF TypeOK, MailboxTypeOK
  <2>2. \A u \in Threads : cur'[u] = cur[u] /\ src'[u] = src[u] /\ Left(u)' = Left(u)
    BY <1>2 DEF loopVars, Left
  <2>3. ASSUME NEW q PROVE TakesKept(q)
    BY <1>1, <2>2, TakesStill
  <2>4. Postless(e) /\ Push(t, e)
    BY <1>3, <1>7, <1>10, PostlessNone DEF Push
  <2>5. ASSUME NEW q \in Mailboxes, q # m PROVE OrderOK(q)'
    <3>1. PostsNewer(q)
      BY <2>4, PostsPushed
    <3>2. OrderOK(q) /\ last'[q] = last[q] /\ calls <= calls'
      BY <1>2 DEF Order, TypeOK, HistoryTypeOK
    <3> QED
      BY <2>1, <2>3, <2>5, <3>1, <3>2, OrderFrame
  <2>6. OrderOK(m)'
    <3>1. Law(m) /\ TakesKept(m) /\ UNCHANGED <<last, calls>> /\ Head(todo[t]).mb = m
      BY <1>2, <1>4, <2>3 DEF Counts
    <3> QED
      BY <1>3, <1>5, <1>7, <1>10, <2>1, <3>1, PostedOrder
  <2> QED
    BY <2>5, <2>6 DEF Order
<1> QED
  BY <1>8, <1>9, <1>10

\* What follows the first message.
LEMMA ConsTail ==
  ASSUME NEW y \in Msg, NEW c \in Seq(Msg)
  PROVE  Tail(<<y>> \o c) = c
OBVIOUS

\* The inbox that a callback takes becomes its batch.
LEMMA SpliceOrder ==
  ASSUME TypeOK, TypeOK', PortOK, TodoOK, BusyOK, StackOK, CallbackOK, Counts, Order,
         NEW t \in Threads, SpliceStep(t)
  PROVE  Order'
<1>1. PortsMove(t)
  BY StepMove, Zenon DEF Step
<1>2. /\ Doing(t, "splice") /\ UNCHANGED busy /\ UNCHANGED calls /\ UNCHANGED last
      /\ UNCHANGED portVars
  BY Zenon DEF SpliceStep
<1>3. todo[t] # <<>> /\ Head(todo[t]).op = "splice" /\ Head(todo[t]).port \in Ports
  BY <1>2, HeadFacts DEF Doing
<1>4. PICK p \in Ports : p = Head(todo[t]).port
  BY <1>3
<1>5. Live(p) /\ home[p] = t /\ cur[t] = None /\ rx[p] \in Mailboxes
  BY <1>3, <1>4, HeadFacts DEF TodoOK, OpOK, PortOK
<1>6. PICK m \in Mailboxes : m = rx[p]
  BY <1>5
<1>7. PICK e : e = <<>>
  OBVIOUS
<1>8. /\ inbox' = Emptied(m) /\ batch' = [batch EXCEPT ![t] = inbox[m]]
      /\ src' = [src EXCEPT ![t] = m] /\ cur' = [cur EXCEPT ![t] = p] /\ Continue(t, e)
  BY <1>4, <1>6, <1>7, Zenon DEF SpliceStep
<1>9. /\ batch'[t] = inbox[m] /\ src'[t] = m /\ ~busy'[t] /\ inbox'[m] = <<>>
      /\ inbox[m] \in Seq(Msg)
      /\ \A q \in Mailboxes : q # m => inbox'[q] = inbox[q]
      /\ \A u \in Threads : u # t => batch'[u] = batch[u] /\ src'[u] = src[u] /\ cur'[u] = cur[u]
  BY <1>2, <1>5, <1>8 DEF Emptied, BusyOK, TypeOK, LoopTypeOK, MailboxTypeOK
<1>10. Left(t)' = inbox[m] /\ \A u \in Threads : u # t => Left(u)' = Left(u)
  BY <1>2, <1>9 DEF Left
<1>11. Postless(e) /\ Push(t, e)
  BY <1>3, <1>7, <1>8, PostlessNone DEF Push
<1>12. \A q : PostsNewer(q)
  BY <1>11, PostsPushed
<1>13. ASSUME NEW q \in Mailboxes, q # m PROVE OrderOK(q)'
  <2>1. ASSUME NEW u \in Threads, Receives(u, q)'
        PROVE  cur'[u] = cur[u] /\ src'[u] = src[u] /\ Left(u)' = Left(u)
    BY <1>9, <1>10, <1>13, <2>1 DEF Receives
  <2>2. TakesKept(q)
    BY <1>1, <2>1, TakesStill
  <2>3. OrderOK(q) /\ last'[q] = last[q] /\ calls <= calls' /\ inbox'[q] = inbox[q]
    BY <1>2, <1>9, <1>13 DEF Order, TypeOK, HistoryTypeOK
  <2> QED
    BY <1>12, <2>2, <2>3, OrderFrame
<1>14. OrderOK(m)'
  <2> DEFINE I == Ids(inbox[m])
  <2>1. /\ Rising(inbox[m]) /\ last[m] <= calls /\ \A i \in I : last[m] < i /\ i <= calls
        /\ \A u \in Threads : PostedOK(u, m)
    BY DEF Order, OrderOK
  <2>2. Rising(Left(t))' /\ Ids(Left(t))' = I
    BY <1>10, <2>1 DEF Rising, Ids
  <2>3. Rising(inbox[m])' /\ Ids(inbox[m])' = {}
    <3>1. Rising(e) /\ Ids(e) = {}
      BY <1>7, IdsEmpty
    <3> QED
      BY <1>7, <1>9, <3>1 DEF Rising, Ids
  <2>4. last'[m] = last[m] /\ calls' = calls
    BY <1>2
  <2>5. ASSUME NEW u \in Threads, Receives(u, m)' PROVE u = t
    <3> SUFFICES ASSUME u # t PROVE FALSE
      OBVIOUS
    <3>1. Receives(u, m)
      BY <1>1, <1>9, <2>5, ReceivesStill
    <3>2. Law(m) /\ rx[p] = m
      BY <1>6 DEF Counts
    <3> QED
      BY <1>5, <3>1, <3>2, OneTaker
  <2> HIDE DEF I
  <2>6. TakenOK(t, m)'
    BY <2>1, <2>2, <2>3, <2>4 DEF TakenOK
  <2>7. ASSUME NEW u \in Threads, NEW z \in Posted(u, m)'
        PROVE  /\ last'[m] < z /\ z <= calls'
               /\ \A i \in Ids(inbox[m])' : i < z
               /\ \A v \in Threads : Receives(v, m)' => \A i \in Ids(Left(v))' : i < z
    <3>1. z \in Posted(u, m)
      BY <1>12, <2>4, <2>7 DEF PostsNewer, TypeOK, HistoryTypeOK
    <3>2. last[m] < z /\ z <= calls /\ \A i \in I : i < z
      BY <2>1, <3>1 DEF PostedOK, I
    <3> QED
      BY <2>2, <2>3, <2>4, <2>5, <3>2
  <2>8. \A u \in Threads : PostedOK(u, m)'
    BY <2>7 DEF PostedOK
  <2>9. \A u \in Threads : Receives(u, m)' => TakenOK(u, m)'
    BY <2>5, <2>6
  <2> QED
    BY <2>1, <2>3, <2>4, <2>8, <2>9 DEF OrderOK
<1> QED
  BY <1>13, <1>14 DEF Order

\* The message that is delivered is the oldest of what is to be delivered.
LEMMA DispatchOrder ==
  ASSUME TypeOK, TypeOK', PortOK, TodoOK, BusyOK, StackOK, CallbackOK, Counts, Order,
         NEW t \in Threads, Dispatch(t)
  PROVE  Order'
<1>1. PortsMove(t)
  BY StepMove, Zenon DEF Step
<1>2. /\ UNCHANGED mailboxVars /\ UNCHANGED todo /\ UNCHANGED cur /\ UNCHANGED src
      /\ UNCHANGED calls /\ cur[t] # None /\ ~busy[t] /\ batch[t] # <<>> /\ Live(cur[t])
      /\ busy' = [busy EXCEPT ![t] = TRUE]
      /\ last' = [last EXCEPT ![src[t]] = Head(batch[t]).id]
      /\ Adopt(t, Head(batch[t])) \/ UNCHANGED <<portVars, batch>>
  BY Zenon DEF Dispatch
<1>3. PICK p \in Ports : p = cur[t]
  BY <1>2 DEF TypeOK, LoopTypeOK
<1>4. home[p] = t /\ src[t] = rx[p] /\ rx[p] \in Mailboxes /\ UNCHANGED inbox
  BY <1>2, <1>3 DEF CallbackOK, PortOK, mailboxVars
<1>5. PICK m \in Mailboxes : m = rx[p]
  BY <1>4
<1>6. PICK b \in Seq(Msg) : b = batch[t]
  BY DEF TypeOK, LoopTypeOK
<1>7. PICK c \in Seq(Msg) : c = Tail(b)
  BY <1>2, <1>6, SeqFacts
<1>8. Tail(batch'[t]) = c /\ \A u \in Threads : u # t => batch'[u] = batch[u]
  <2>1. CASE Adopt(t, Head(batch[t]))
    <3>1. PICK f : Adopted(t, Head(batch[t]), f)
      BY <1>2, <2>1, AdoptSides
    <3>2. /\ batch'[t] = <<Stripped(Head(b))>> \o c
          /\ \A u \in Threads \ {t} : batch'[u] = batch[u]
      BY <1>6, <1>7, <3>1 DEF Adopted
    <3>3. PICK y \in Msg : y = Stripped(Head(b))
      <4>1. Head(b) \in Msg
        BY <1>2, <1>6, SeqFacts
      <4> QED
        BY <4>1, SeqFacts DEF Stripped
    <3>4. Tail(<<y>> \o c) = c
      BY Zenon, ConsTail
    <3> QED
      BY <3>2, <3>3, <3>4
  <2>2. CASE UNCHANGED <<portVars, batch>>
    BY <1>6, <1>7, <2>2
  <2> QED
    BY <1>2, <2>1, <2>2
<1>9. /\ Left(t) = b /\ Left(t)' = c /\ \A u \in Threads : u # t => Left(u)' = Left(u)
      /\ \A u \in Threads : cur'[u] = cur[u] /\ src'[u] = src[u]
  BY <1>2, <1>6, <1>7, <1>8 DEF Left, TypeOK, LoopTypeOK
<1>10. PICK n \in Nat : n = Head(b).id
  <2>1. Head(b) \in Msg
    BY <1>2, <1>6, SeqFacts
  <2> QED
    BY <2>1 DEF Msg
<1>11. /\ last'[m] = n /\ \A q \in Mailboxes : q # m => last'[q] = last[q]
       /\ calls' = calls /\ inbox'[m] = inbox[m]
  BY <1>2, <1>4, <1>5, <1>6, <1>10 DEF TypeOK, HistoryTypeOK
<1>12. \A q : PostsNewer(q)
  BY <1>2, PostsStill
<1>13. ASSUME NEW q \in Mailboxes, q # m PROVE OrderOK(q)'
  <2>1. ASSUME NEW u \in Threads, Receives(u, q)'
        PROVE  cur'[u] = cur[u] /\ src'[u] = src[u] /\ Left(u)' = Left(u)
    BY <1>4, <1>5, <1>9, <1>13, <2>1 DEF Receives
  <2>2. TakesKept(q)
    BY <1>1, <2>1, TakesStill
  <2>3. OrderOK(q) /\ last'[q] = last[q] /\ calls <= calls' /\ inbox'[q] = inbox[q]
    BY <1>2, <1>4, <1>11, <1>13 DEF Order, TypeOK, HistoryTypeOK
  <2> QED
    BY <1>12, <2>2, <2>3, OrderFrame
<1>14. OrderOK(m)'
  <2> DEFINE I == Ids(inbox[m])
  <2>1. Receives(t, m) /\ OrderOK(m)
    BY <1>2, <1>4, <1>5 DEF Receives, Order
  <2>2. TakenOK(t, m) /\ Rising(inbox[m]) /\ \A u \in Threads : PostedOK(u, m)
    BY <2>1 DEF OrderOK
  <2>3. /\ Rising(b) /\ \A y \in Ids(b) : /\ last[m] < y /\ y <= calls
                                          /\ \A i \in I : y < i
    BY <1>9, <2>2 DEF TakenOK
  <2>4. /\ Rising(c) /\ Ids(c) \subseteq Ids(b) /\ n \in Ids(b)
        /\ \A y \in Ids(c) : n < y
    BY <1>2, <1>6, <1>7, <1>10, <2>3, IdsTail
  <2>5. Rising(Left(t))' /\ Ids(Left(t))' = Ids(c)
    BY <1>9, <2>4 DEF Rising, Ids
  <2>6. Rising(inbox[m])' /\ Ids(inbox[m])' = I
    BY <1>11, <2>2 DEF Rising, Ids
  <2>7. \A i \in I : i <= calls
    BY <2>1 DEF OrderOK
  <2>8. ASSUME NEW u \in Threads, Receives(u, m)' PROVE u = t
    <3> SUFFICES ASSUME u # t PROVE FALSE
      OBVIOUS
    <3>1. Receives(u, m)
      BY <1>1, <1>9, <2>8, ReceivesStill
    <3>2. Law(m) /\ rx[p] = m
      BY <1>5 DEF Counts
    <3> QED
      BY <1>4, <3>1, <3>2, OneTaker
  <2> HIDE DEF I
  <2>9. TakenOK(t, m)'
    BY <1>11, <2>3, <2>4, <2>5, <2>6 DEF TakenOK
  <2>10. ASSUME NEW u \in Threads, NEW z \in Posted(u, m)'
         PROVE  /\ last'[m] < z /\ z <= calls'
                /\ \A i \in Ids(inbox[m])' : i < z
                /\ \A v \in Threads : Receives(v, m)' => \A i \in Ids(Left(v))' : i < z
    <3>1. z \in Posted(u, m)
      BY <1>2, <2>10 DEF Posted, Ops
    <3>2. z <= calls /\ (\A i \in I : i < z) /\ \A i \in Ids(b) : i < z
      BY <1>9, <2>1, <2>2, <3>1 DEF PostedOK, I
    <3> QED
      BY <1>11, <2>4, <2>5, <2>6, <2>8, <3>2
  <2>11. \A u \in Threads : PostedOK(u, m)'
    BY <2>10 DEF PostedOK
  <2>12. \A u \in Threads : Receives(u, m)' => TakenOK(u, m)'
    BY <2>8, <2>9
  <2>13. last'[m] <= calls' /\ \A i \in Ids(inbox[m])' : last'[m] < i /\ i <= calls'
    BY <1>11, <2>3, <2>4, <2>6, <2>7
  <2> QED
    BY <2>6, <2>11, <2>12, <2>13 DEF OrderOK
<1> QED
  BY <1>13, <1>14 DEF Order

\* A step of a thread, whichever it is.
LEMMA OrderStep ==
  ASSUME Full, Order, IInv', NEW t \in Threads, Script(t) \/ Step(t) \/ Loop(t)
  PROVE  Order'
<1>1. /\ TypeOK /\ PortOK /\ TodoOK /\ BusyOK /\ TypeOK'
      /\ Counts /\ StackOK /\ CallbackOK
  BY DEF Full, HeldInv, IInv
<1>2. CASE Script(t) \/ Loop(t)
  BY <1>1, <1>2, ScriptOrder, LoopOrder
<1>3. CASE Step(t)
  <2>1. \/ CloseStep(t) \/ UnrefStep(t) \/ FreeStep(t) \/ StartStep(t) \/ WakeStep(t)
        \/ UvCloseStep(t) \/ JoinStep(t) \/ ShutStep(t)
        \/ PostStep(t) \/ SpliceStep(t) \/ Dispatch(t)
        \/ HandlerReturn(t) \/ DropRest(t) \/ CallbackReturn(t)
    BY <1>3, Zenon DEF Step
  <2>2. CASE \/ CloseStep(t) \/ UnrefStep(t) \/ FreeStep(t) \/ StartStep(t) \/ WakeStep(t)
             \/ UvCloseStep(t) \/ JoinStep(t) \/ ShutStep(t)
    BY <1>1, <2>2, FunctionOrder
  <2>3. CASE PostStep(t)
    BY <1>1, <2>3, PostOrder
  <2>4. CASE SpliceStep(t)
    BY <1>1, <2>4, SpliceOrder
  <2>5. CASE Dispatch(t)
    BY <1>1, <2>5, DispatchOrder
  <2>6. CASE HandlerReturn(t) \/ DropRest(t) \/ CallbackReturn(t)
    BY <1>1, <2>6, ReturnOrder
  <2> QED
    BY <2>1, <2>2, <2>3, <2>4, <2>5, <2>6
<1> QED
  BY <1>2, <1>3

\* A step that changes nothing.
LEMMA OrderStutter ==
  ASSUME Order, UNCHANGED vars
  PROVE  Order'
<1>1. UNCHANGED <<inbox, state, todo, cur, batch, busy, src, calls, last>>
  BY DEF vars, mailboxVars, portVars, loopVars
<1>2. /\ \A t \in Threads : Left(t)' = Left(t)
      /\ \A t \in Threads : \A m : Receives(t, m)' <=> Receives(t, m)
      /\ \A t \in Threads : \A m : Posted(t, m)' = Posted(t, m)
  BY <1>1 DEF Left, Receives, Live, Posted, Ops
<1>3. ASSUME NEW m \in Mailboxes PROVE OrderOK(m)'
  <2>1. OrderOK(m)
    BY DEF Order
  <2>2. \A t \in Threads : PostedOK(t, m)'
    BY <1>1, <1>2, <2>1 DEF OrderOK, PostedOK, Ids
  <2>3. \A t \in Threads : Receives(t, m)' => TakenOK(t, m)'
    BY <1>1, <1>2, <2>1 DEF OrderOK, TakenOK, Ids, Rising
  <2> QED
    BY <1>1, <2>1, <2>2, <2>3 DEF OrderOK, Ids, Rising
<1> QED
  BY <1>3 DEF Order

\* Nothing was posted yet.
LEMMA InitOrder == Init => Order
<1> SUFFICES ASSUME Init, NEW m \in Mailboxes PROVE OrderOK(m)
  BY DEF Order
<1> DEFINE e == <<>>
<1>1. /\ inbox[m] = e /\ calls = 0 /\ last[m] = 0
      /\ \A t \in Threads : todo[t] = e /\ cur[t] = None
  BY DEF Init
<1>2. Ids(e) = {} /\ Rising(e) /\ DOMAIN e = {}
  BY IdsEmpty, EmptyType
<1> HIDE DEF e
<1>3. \A t \in Threads : ~ Receives(t, m) /\ Posted(t, m) = {}
  BY <1>1, <1>2 DEF Receives, Posted, Ops
<1> QED
  BY <1>1, <1>2, <1>3 DEF OrderOK, PostedOK

\* The inductive invariant, with the order of messages.
LEMMA OrderHolds == Spec => [](Full /\ Order)
<1>1. Init => Full /\ Order
  BY InitInv, InitHeld, InitOrder DEF Full
<1>2. Full /\ Order /\ [Next]_vars => Full' /\ Order'
  <2> SUFFICES ASSUME Full, Order, [Next]_vars PROVE Full' /\ Order'
    OBVIOUS
  <2>1. IInv'
    BY NextInv DEF Full
  <2>2. CASE \E t \in Threads : Script(t) \/ Step(t) \/ Loop(t)
    BY <2>1, <2>2, HeldStep, OrderStep DEF Full
  <2>3. CASE UNCHANGED vars
    BY <2>1, <2>3, HeldStutter, OrderStutter DEF Full
  <2> QED
    BY <2>2, <2>3 DEF Next
<1> QED
  BY <1>1, <1>2, PTL DEF Spec

\* What a receiver has still to see rises from the last message it saw.
LEMMA OrderLaw ==
  ASSUME TypeOK, BusyOK, Order
  PROVE  InOrder
<1> SUFFICES ASSUME NEW m \in Mailboxes
             PROVE  \A i, j \in DOMAIN ToSee(m) :
                       /\ ToSee(m)[i].id > last[m]
                       /\ i < j => ToSee(m)[i].id < ToSee(m)[j].id
  BY DEF InOrder
<1> DEFINE taken == {t \in Threads : cur[t] # None /\ src[t] = m /\ Live(cur[t])}
<1>1. OrderOK(m) /\ inbox[m] \in Seq(Msg)
  BY DEF Order, TypeOK, MailboxTypeOK
<1>2. last[m] \in Nat /\ Ids(inbox[m]) \subseteq Nat
  BY <1>1, IdsType, ChannelAssumption DEF TypeOK, HistoryTypeOK
<1>3. PICK s \in Seq(Msg) : /\ ToSee(m) = s \o inbox[m]
                            /\ Rising(s) /\ \A x \in Ids(s) : last[m] < x
                            /\ \A x \in Ids(s), y \in Ids(inbox[m]) : x < y
  <2>1. CASE taken = {}
    <3> DEFINE e == <<>>
    <3>1. ToSee(m) = e \o inbox[m]
      BY <2>1 DEF ToSee
    <3>2. Ids(e) = {} /\ Rising(e) /\ e \in Seq(Msg)
      BY IdsEmpty
    <3> HIDE DEF e
    <3> QED
      BY <3>1, <3>2
  <2>2. CASE taken # {}
    <3> DEFINE u == CHOOSE t \in taken : TRUE
    <3>1. u \in taken
      BY <2>2
    <3>2. ToSee(m) = Left(u) \o inbox[m]
      BY <2>2 DEF ToSee, Left
    <3>3. u \in Threads /\ Receives(u, m)
      BY <3>1 DEF Receives
    <3> HIDE DEF u
    <3>4. TakenOK(u, m) /\ Left(u) \in Seq(Msg)
      BY <1>1, <3>3, LeftType DEF OrderOK
    <3> QED
      BY <3>2, <3>4 DEF TakenOK
  <2> QED
    BY <2>1, <2>2
<1> DEFINE c == s \o inbox[m]
<1>4. Rising(c) /\ Ids(c) = Ids(s) \cup Ids(inbox[m])
  BY <1>1, <1>3, IdsConcat DEF OrderOK
<1>5. \A x \in Ids(c) : last[m] < x /\ x \in Nat
  BY <1>1, <1>2, <1>3, <1>4, IdsType DEF OrderOK
<1>6. ToSee(m) = c
  BY <1>3
<1> HIDE DEF c
<1>7. \A i \in DOMAIN c : c[i].id \in Ids(c)
  BY DEF Ids
<1>8. \A x \in Nat : last[m] < x => x > last[m]
  BY <1>2
<1> QED
  BY <1>4, <1>5, <1>6, <1>7, <1>8 DEF Rising

\* A receiver sees the messages of its mailbox in the order they were posted and none of them
\* twice, also when its port is transferred while messages wait (port_post, port_async_cb,
\* port_dispatch_one).
THEOREM OrderKept == Spec => []InOrder
<1>1. Full /\ Order => InOrder
  BY OrderLaw DEF Full, IInv
<1> QED
  BY <1>1, OrderHolds, PTL

=============================================================================
