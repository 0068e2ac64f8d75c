------------------------------ MODULE Channel ------------------------------
(***************************************************************************)
(* The transport behind MessageChannel, MessagePort and the worker pipe    *)
(* (src/src/mod_channel.c, driven by src/src/js/polyfills/message-channel  *)
(* .js).                                                                   *)
(*                                                                         *)
(* A port is two references to refcounted mailboxes: rx, which it receives *)
(* from, and tx, the receive side of its peer.  Every thread runs one      *)
(* JavaScript runtime and one libuv loop; a port belongs to one thread, a  *)
(* mailbox to none.  A port is transferred by moving its two references    *)
(* into a message; the thread that receives the message wraps them in a    *)
(* new port.                                                               *)
(*                                                                         *)
(* Grain of atomicity: a critical section under a mailbox lock, an atomic  *)
(* refcount operation, uv_async_send and uv_close are one step each, and   *)
(* what a C function does between two of them is merged with one of the    *)
(* two.  What a thread still has to do before the C function it is in      *)
(* returns is the stack todo[t]; nested calls (freeing a message frees the *)
(* ports in it, which closes their mailboxes, which frees the messages in  *)
(* them ...) push on it, so a recursion of any depth is a sequence of      *)
(* steps that other threads interleave with.                               *)
(***************************************************************************)
EXTENDS Integers, Sequences

CONSTANTS
  Threads,      \* one per runtime
  Main,         \* the thread of the main runtime; the others are workers
  Mailboxes,    \* TJSMailbox allocations, each used once
  Ports,        \* TJSPort allocations, each used once
  None,         \* the null pointer
  MaxCalls,     \* bound: what scripts, and the collector under them, call
  MaxTransfer,  \* bound: ports in one transfer list
  Mortal,       \* bound: the runtimes that ever stop
  Collectable   \* bound: the ports ever collected before a teardown

ASSUME ChannelAssumption ==
  /\ Main \in Threads
  /\ Mailboxes \subseteq Nat
  /\ Ports \subseteq Nat
  /\ None \notin Mailboxes
  /\ None \notin Ports
  /\ None \notin Threads
  /\ MaxCalls \in Nat
  /\ MaxTransfer \in Nat
  /\ Mortal \subseteq Threads
  /\ Collectable \subseteq Ports

VARIABLES
  \* TJSMailbox
  alive,    \* "unused", "live" or "freed"
  refs,     \* refcount
  closed,
  owner,    \* the started port receiving here, or None
  inbox,    \* messages, oldest first
  \* TJSPort
  state,    \* "unused" until allocated, then a TJSPortState
  rx, tx,   \* mailboxes, or None once released
  home,     \* the thread whose loop the port is on
  handle,   \* its uv_async_t: "none", "active", "closing" or "freed"
  wake,     \* the async was sent and its callback has not started yet
  \* threads
  phase,    \* where the runtime is in its life, see TypeOK
  stop,     \* TJS_Stop was called
  near, far,\* the parent's and the worker's end of the pipe, or None
  todo,     \* the rest of the C function the thread is in, a stack
  cur,      \* the port whose callback is running, or None
  batch,    \* the messages that callback took out of the inbox
  busy,     \* its deliver function is running (on the head of batch)
  \* history
  calls,    \* calls made so far
  src,      \* the mailbox batch was taken from
  last      \* per mailbox, the newest message delivered from it

mailboxVars == <<alive, refs, closed, owner, inbox>>
portVars    == <<state, rx, tx, home, handle, wake>>
threadVars  == <<phase, stop, near, far>>
loopVars    == <<cur, batch, busy, src>>
vars == <<mailboxVars, portVars, threadVars, todo, loopVars, calls, last>>

----------------------------------------------------------------------------
(* Data.  A message keeps the ports that travel in it; its payload is its  *)
(* number, in the order the messages were built.                           *)

PortRef == [rx : Mailboxes, tx : Mailboxes]
Msg     == [id : 1..MaxCalls, ports : Seq(PortRef)]

Op == [op : {"close", "unref"}, mb : Mailboxes]
   \cup [op : {"post"}, mb : Mailboxes, msg : Msg]
   \cup [op : {"free"}, msgs : Seq(Msg) \ {<<>>}]
   \cup [op : {"start", "wake", "splice", "shut", "uvclose"}, port : Ports]
   \cup [op : {"join"}, thread : Threads]

CloseOp(m)     == [op |-> "close", mb |-> m]
UnrefOp(m)     == [op |-> "unref", mb |-> m]
PostOp(m, x)   == [op |-> "post", mb |-> m, msg |-> x]
PortOp(name, p) == [op |-> name, port |-> p]
JoinOp(u)      == [op |-> "join", thread |-> u]

\* channel_msg_free on each message of s: nothing to do for messages that
\* carry no port.
Freeing(s) ==
  IF \A i \in DOMAIN s : s[i].ports = <<>>
  THEN <<>> ELSE <<[op |-> "free", msgs |-> s]>>

\* mailbox_close followed by the release of both references: what closing a
\* port and destroying a port in transit have in common.
Release(m0, m1) == <<CloseOp(m0), UnrefOp(m0), UnrefOp(m1)>>

\* list_add_tail.  Mutant: the message is added at the head.
EnqueueFirst(s, x) == <<x>> \o s
Enqueue(s, x) == Append(s, x)

\* list_splice_init: m's messages are taken, its inbox is empty.
Emptied(m) == [inbox EXCEPT ![m] = <<>>]

\* The message after its ports were adopted.  Mutant: it still lists them.
NotStripped(x) == x
Stripped(x) == [x EXCEPT !.ports = <<>>]

\* The first wake of a started port, which flushes what was buffered before.
\* Mutant: it is not sent.
NoFlush(p) == <<>>
Flush(p) == <<PortOp("wake", p)>>

\* port_is_live.
Live(p) == state[p] \in {"open", "started"}
PipeEnds == {near[u] : u \in Threads} \cup {far[u] : u \in Threads}

\* At most one element: the lowest of a set of numbers.
Lowest(S) == {x \in S : \A y \in S : x <= y}
UnusedPorts == {p \in Ports : state[p] = "unused"}
UnusedMailboxes == {m \in Mailboxes : alive[m] = "unused"}

\* JavaScript can run on t: its loop is in no C function of this module, or
\* in the deliver function of a port.  Once the loop has been stopped the
\* only JavaScript left is that of callbacks.
Scripting(t) ==
  /\ todo[t] = <<>>
  /\ \/ phase[t] = "running" /\ cur[t] = None
     \/ busy[t]

Calling(t) == Scripting(t) /\ calls < MaxCalls /\ calls' = calls + 1

\* t is between two callbacks of its loop.
Idle(t) == todo[t] = <<>> /\ cur[t] = None

\* The collector runs: under a script, before the final turns of the loop, and
\* when the engine is freed.
Collecting(t) ==
  \/ Calling(t)
  \/ /\ phase[t] = "draining" /\ Idle(t)
     /\ calls < MaxCalls /\ calls' = calls + 1
  \/ phase[t] = "freeing" /\ Idle(t) /\ UNCHANGED calls

Doing(t, name) == todo[t] # <<>> /\ Head(todo[t]).op = name
Call(t, ops) == todo' = [todo EXCEPT ![t] = ops]
Continue(t, ops) == todo' = [todo EXCEPT ![t] = ops \o Tail(@)]

----------------------------------------------------------------------------
(* Creating ports.                                                         *)

\* tjs_new_port: p receives on m0 and sends to m1.
NewPorts(S, home0, rx0, tx0) ==
  /\ state'  = [p \in Ports |-> IF p \in S THEN "open" ELSE state[p]]
  /\ rx'     = [p \in Ports |-> IF p \in S THEN rx0[p] ELSE rx[p]]
  /\ tx'     = [p \in Ports |-> IF p \in S THEN tx0[p] ELSE tx[p]]
  /\ home'   = [p \in Ports |-> IF p \in S THEN home0[p] ELSE home[p]]
  /\ handle' = [p \in Ports |-> IF p \in S THEN "active" ELSE handle[p]]

\* Two fresh mailboxes, with n references each, and a port on each side.
\* Mutant: a reserved reference is not taken.
EntangleOneShort(m0, m1, a, b, ta, tb, n) ==
  /\ a # b /\ m0 # m1
  /\ alive' = [alive EXCEPT ![m0] = "live", ![m1] = "live"]
  /\ refs'  = [refs EXCEPT ![m0] = n - 1, ![m1] = n]
  /\ NewPorts({a, b},
              [p \in {a, b} |-> IF p = a THEN ta ELSE tb],
              [p \in {a, b} |-> IF p = a THEN m0 ELSE m1],
              [p \in {a, b} |-> IF p = a THEN m1 ELSE m0])
  /\ UNCHANGED <<closed, owner, inbox, wake>>
Entangle(m0, m1, a, b, ta, tb, n) ==
  /\ a # b /\ m0 # m1
  /\ alive' = [alive EXCEPT ![m0] = "live", ![m1] = "live"]
  /\ refs'  = [refs EXCEPT ![m0] = n, ![m1] = n]
  /\ NewPorts({a, b},
              [p \in {a, b} |-> IF p = a THEN ta ELSE tb],
              [p \in {a, b} |-> IF p = a THEN m0 ELSE m1],
              [p \in {a, b} |-> IF p = a THEN m1 ELSE m0])
  /\ UNCHANGED <<closed, owner, inbox, wake>>

\* new MessageChannel(): both ports on the calling thread.
NewChannel(t) ==
  /\ Calling(t)
  /\ \E m0 \in Lowest(UnusedMailboxes), a \in Lowest(UnusedPorts) :
     \E m1 \in Lowest(UnusedMailboxes \ {m0}), b \in Lowest(UnusedPorts \ {a}) :
        Entangle(m0, m1, a, b, t, t, 2)
  /\ UNCHANGED <<threadVars, todo, loopVars, last>>

\* new Worker(): the parent holds a reserved reference on each mailbox until
\* the worker has wrapped its side, then drops both while the worker runs,
\* and the Worker object starts its end; the worker starts the other one when
\* its entry module has run.
SpawnWorker(t, u) ==
  /\ Calling(t)
  /\ phase[u] = "unborn"
  /\ phase' = [phase EXCEPT ![u] = "running"]
  /\ \E m0 \in Lowest(UnusedMailboxes), a \in Lowest(UnusedPorts) :
     \E m1 \in Lowest(UnusedMailboxes \ {m0}), b \in Lowest(UnusedPorts \ {a}) :
        /\ Entangle(m0, m1, a, b, t, u, 3)
        /\ near' = [near EXCEPT ![u] = a]
        /\ far'  = [far EXCEPT ![u] = b]
        /\ Call(t, <<UnrefOp(m0), UnrefOp(m1), PortOp("start", a)>>)
  /\ UNCHANGED <<stop, loopVars, last>>

----------------------------------------------------------------------------
(* What a script calls.                                                    *)

\* A transfer list MessagePort.postMessageWithTransfer accepts: distinct live
\* ports of this thread, not the posting one; the ends of a worker pipe are no
\* MessagePort objects, so no script can name them.
Transferable(t, p) ==
  {q \in Ports \ (PipeEnds \cup {p}) : home[q] = t /\ Live(q)}

TransferLists(t, p) ==
  UNION { {s \in [1..n -> Transferable(t, p)] :
             \A i, j \in 1..n : s[i] = s[j] => i = j} : n \in 0..MaxTransfer }

\* port_do_transfer on each port of S: it is detached and its references are
\* gone.  Mutant: the port keeps the pointer to its receive side.
NeuterTxOnly(S) ==
  /\ state' = [q \in Ports |-> IF q \in S THEN "detached" ELSE state[q]]
  /\ tx'    = [q \in Ports |-> IF q \in S THEN None ELSE tx[q]]
  /\ UNCHANGED rx
Neuter(S) ==
  /\ state' = [q \in Ports |-> IF q \in S THEN "detached" ELSE state[q]]
  /\ rx'    = [q \in Ports |-> IF q \in S THEN None ELSE rx[q]]
  /\ tx'    = [q \in Ports |-> IF q \in S THEN None ELSE tx[q]]

\* ... and nobody owns its receive side.
Disown(ms) == owner' = [m \in Mailboxes |-> IF m \in ms THEN None ELSE owner[m]]

\* port.postMessage(value, ports) up to the destination's lock: the message
\* is built and the listed ports are moved into it.  A message that carries
\* its own destination's receiving end is dropped.
PostMessage(t, p, list) ==
  /\ Calling(t)
  /\ home[p] = t /\ Live(p)
  /\ LET moved == {list[i] : i \in DOMAIN list}
         x == [id |-> calls + 1,
               ports |-> [i \in DOMAIN list |-> [rx |-> rx[list[i]], tx |-> tx[list[i]]]]]
     IN /\ Neuter(moved)
        /\ Disown({rx[q] : q \in moved})
        /\ Call(t, IF tx[p] \in {rx[q] : q \in moved}
                   THEN Freeing(<<x>>) ELSE <<PostOp(tx[p], x)>>)
  /\ UNCHANGED <<alive, refs, closed, inbox, home, handle, wake, threadVars,
                 loopVars, last>>

\* p becomes the owner of its receive side; the wake that flushes what was
\* buffered is sent after the lock is released.
Own(p) ==
  /\ state' = [state EXCEPT ![p] = "started"]
  /\ owner' = [owner EXCEPT ![rx[p]] = p]
  /\ UNCHANGED <<alive, refs, closed, inbox, rx, tx, home, handle, wake>>

\* port.start().
Start(t, p) ==
  /\ Calling(t)
  /\ home[p] = t /\ state[p] = "open"
  /\ Own(p)
  /\ Call(t, Flush(p))
  /\ UNCHANGED <<threadVars, loopVars, last>>

\* port_do_close on a live port, up to the closing of its receive side: the
\* two references move to the stack.
Detach(p) ==
  /\ state' = [state EXCEPT ![p] = "closed"]
  /\ rx' = [rx EXCEPT ![p] = None]
  /\ tx' = [tx EXCEPT ![p] = None]
  /\ UNCHANGED <<mailboxVars, home, handle, wake>>

\* port.close().
Close(t, p) ==
  /\ Calling(t)
  /\ home[p] = t /\ Live(p) /\ p \notin PipeEnds
  /\ Detach(p)
  /\ Call(t, Release(rx[p], tx[p]))
  /\ UNCHANGED <<threadVars, loopVars, last>>

\* The collector frees the JavaScript object of p.  Before the runtime is freed
\* it cannot reach a started port, which startedPorts pins, nor a live end of a
\* pipe.
Finalize(t, p) ==
  /\ Collecting(t)
  /\ home[p] = t /\ handle[p] = "active"
  /\ phase[t] # "freeing" =>
       /\ state[p] # "started" /\ (p \in PipeEnds => ~Live(p))
       /\ p \in Collectable
  /\ IF Live(p)
     THEN Detach(p) /\ Call(t, Release(rx[p], tx[p]) \o <<PortOp("uvclose", p)>>)
     ELSE Call(t, <<PortOp("uvclose", p)>>) /\ UNCHANGED <<mailboxVars, portVars>>
  /\ UNCHANGED <<threadVars, loopVars, last>>

\* TJS_Stop.  Mutant: the request is lost.
StopLost(u) == UNCHANGED stop
RequestStop(u) == stop' = [stop EXCEPT ![u] = TRUE]

\* self.close(), an uncaught error, a script that exits.
Stop(t) ==
  /\ Calling(t) /\ t \in Mortal
  /\ RequestStop(t)
  /\ UNCHANGED <<mailboxVars, portVars, phase, near, far, todo, loopVars,
                 last>>

\* tjs_worker_shutdown, when a script calls terminate() or the Worker object
\* is finalized: ask u to stop, wait for its thread, free its runtime on this
\* thread, then close the near end of the pipe.
Terminate(t, u) ==
  /\ Collecting(t) /\ u \in Mortal
  /\ near[u] # None /\ phase[u] # "freed"
  /\ home[near[u]] = t
  /\ RequestStop(u)
  /\ Call(t, <<JoinOp(u), PortOp("shut", near[u])>>)
  /\ UNCHANGED <<mailboxVars, portVars, phase, near, far, loopVars, last>>

----------------------------------------------------------------------------
(* What a thread still has to do before the function it is in returns.     *)

\* mailbox_close: one critical section, then free what was buffered.
CloseStep(t) ==
  /\ Doing(t, "close")
  /\ LET m == Head(todo[t]).mb
     IN /\ closed' = [closed EXCEPT ![m] = TRUE]
        /\ owner'  = [owner EXCEPT ![m] = None]
        /\ inbox'  = Emptied(m)
        /\ Continue(t, Freeing(inbox[m]))
  /\ UNCHANGED <<alive, refs, portVars, threadVars, loopVars, calls, last>>

\* mailbox_unref, and mailbox_destroy when the reference was the last one.
UnrefStep(t) ==
  /\ Doing(t, "unref")
  /\ LET m == Head(todo[t]).mb
     IN /\ refs' = [refs EXCEPT ![m] = @ - 1]
        /\ IF refs[m] = 1
           THEN /\ alive' = [alive EXCEPT ![m] = "freed"]
                /\ inbox' = Emptied(m)
                /\ Continue(t, Freeing(inbox[m]))
           ELSE Continue(t, <<>>) /\ UNCHANGED <<alive, inbox>>
  /\ UNCHANGED <<closed, owner, portVars, threadVars, loopVars, calls, last>>

\* The critical section of port_post: drop, or append and wake the owner.
PostStep(t) ==
  /\ Doing(t, "post")
  /\ LET m == Head(todo[t]).mb
         x == Head(todo[t]).msg
     IN IF closed[m]
        THEN Continue(t, Freeing(<<x>>)) /\ UNCHANGED <<inbox, wake>>
        ELSE /\ inbox' = [inbox EXCEPT ![m] = Enqueue(@, x)]
             /\ wake'  = [p \in Ports |-> wake[p] \/ owner[m] = p]
             /\ Continue(t, <<>>)
  /\ UNCHANGED <<alive, refs, closed, owner, state, rx, tx, home, handle,
                 threadVars, loopVars, calls, last>>

\* channel_msg_free: destroy the references of the next port in transit.
FreeStep(t) ==
  /\ Doing(t, "free")
  /\ LET s == Head(todo[t]).msgs
         x == Head(s)
         r == Head(x.ports)
     IN IF x.ports = <<>>
        THEN Continue(t, Freeing(Tail(s)))
        ELSE Continue(t, Release(r.rx, r.tx) \o
                         Freeing(<<[x EXCEPT !.ports = Tail(@)]>> \o Tail(s)))
  /\ UNCHANGED <<mailboxVars, portVars, threadVars, loopVars, calls, last>>

StartStep(t) ==
  /\ Doing(t, "start")
  /\ LET p == Head(todo[t]).port
     IN Own(p) /\ Continue(t, Flush(p))
  /\ UNCHANGED <<threadVars, loopVars, calls, last>>

\* uv_async_send.
WakeStep(t) ==
  /\ Doing(t, "wake")
  /\ wake' = [wake EXCEPT ![Head(todo[t]).port] = TRUE]
  /\ Continue(t, <<>>)
  /\ UNCHANGED <<mailboxVars, state, rx, tx, home, handle, threadVars, loopVars,
                 calls, last>>

\* uv_close: the callback will not run again.
UvCloseStep(t) ==
  /\ Doing(t, "uvclose")
  /\ handle' = [handle EXCEPT ![Head(todo[t]).port] = "closing"]
  /\ Continue(t, <<>>)
  /\ UNCHANGED <<mailboxVars, state, rx, tx, home, wake, threadVars, loopVars,
                 calls, last>>

\* uv_thread_join and TJS_FreeRuntime of the worker: t waits, and the frees
\* are the steps of the worker's own entry in todo.
JoinStep(t) ==
  /\ Doing(t, "join")
  /\ phase[Head(todo[t]).thread] = "freed"
  /\ Continue(t, <<>>)
  /\ UNCHANGED <<mailboxVars, portVars, threadVars, loopVars, calls, last>>

\* tjs__channel_port_close.
ShutStep(t) ==
  /\ Doing(t, "shut")
  /\ LET p == Head(todo[t]).port
     IN IF Live(p)
        THEN Detach(p) /\ Continue(t, Release(rx[p], tx[p]))
        ELSE Continue(t, <<>>) /\ UNCHANGED <<mailboxVars, portVars>>
  /\ UNCHANGED <<threadVars, loopVars, calls, last>>

----------------------------------------------------------------------------
(* The callback of a port: port_async_cb.                                  *)

\* Turns of the loop: while it runs, and the bounded ones of TJS_FreeRuntime.
Turning(t) == Idle(t) /\ phase[t] \in {"running", "draining"}

\* libuv clears the pending mark of an async before it calls back.
LoopWake(t, p) ==
  /\ Turning(t)
  /\ home[p] = t /\ wake[p] /\ handle[p] = "active"
  /\ wake' = [wake EXCEPT ![p] = FALSE]
  /\ Call(t, IF Live(p) THEN <<PortOp("splice", p)>> ELSE <<>>)
  /\ UNCHANGED <<mailboxVars, state, rx, tx, home, handle, threadVars, loopVars,
                 calls, last>>

\* The critical section that takes the whole inbox.
SpliceStep(t) ==
  /\ Doing(t, "splice")
  /\ LET p == Head(todo[t]).port
     IN /\ inbox' = Emptied(rx[p])
        /\ batch' = [batch EXCEPT ![t] = inbox[rx[p]]]
        /\ src'   = [src EXCEPT ![t] = rx[p]]
        /\ cur'   = [cur EXCEPT ![t] = p]
  /\ Continue(t, <<>>)
  /\ UNCHANGED <<alive, refs, closed, owner, portVars, threadVars, busy, calls,
                 last>>

\* The first n unused ports, in order: a set with at most one element.
Fresh(n) ==
  {f \in [1..n -> UnusedPorts] :
     \A i \in 1..n : \A q \in UnusedPorts :
        q < f[i] <=> \E j \in 1..(i - 1) : f[j] = q}

\* tjs_new_port_from_ref on each port of x: a new port takes over the
\* references the message carried.
Adopt(t, x) ==
  \E f \in Fresh(Len(x.ports)) :
    LET at(p) == x.ports[CHOOSE i \in DOMAIN f : f[i] = p]
        S     == {f[i] : i \in DOMAIN f}
    IN /\ NewPorts(S, [p \in S |-> t], [p \in S |-> at(p).rx],
                   [p \in S |-> at(p).tx])
       /\ batch' = [batch EXCEPT ![t] =
                      <<Stripped(x)>> \o Tail(@)]
       /\ UNCHANGED wake

\* port_dispatch_one up to the call of the handler.  A payload that cannot be
\* decoded is delivered as 'messageerror' and leaves the ports on the message.
Dispatch(t) ==
  /\ cur[t] # None /\ todo[t] = <<>> /\ ~busy[t]
  /\ batch[t] # <<>> /\ Live(cur[t])
  /\ busy' = [busy EXCEPT ![t] = TRUE]
  /\ last' = [last EXCEPT ![src[t]] = Head(batch[t]).id]
  /\ \/ Adopt(t, Head(batch[t]))
     \/ UNCHANGED <<portVars, batch>>
  /\ UNCHANGED <<mailboxVars, threadVars, todo, cur, src, calls>>

\* The handler returns; the message, and what it still owns, is freed.
HandlerReturn(t) ==
  /\ busy[t] /\ todo[t] = <<>>
  /\ busy'  = [busy EXCEPT ![t] = FALSE]
  /\ batch' = [batch EXCEPT ![t] = Tail(@)]
  /\ Call(t, Freeing(<<Head(batch[t])>>))
  /\ UNCHANGED <<mailboxVars, portVars, threadVars, cur, src, calls, last>>

\* A handler made the port no longer live: drop the rest of the batch.
DropRest(t) ==
  /\ cur[t] # None /\ todo[t] = <<>> /\ ~busy[t]
  /\ batch[t] # <<>> /\ ~Live(cur[t])
  /\ batch' = [batch EXCEPT ![t] = <<>>]
  /\ Call(t, Freeing(batch[t]))
  /\ UNCHANGED <<mailboxVars, portVars, threadVars, cur, busy, src, calls, last>>

CallbackReturn(t) ==
  /\ cur[t] # None /\ todo[t] = <<>> /\ ~busy[t] /\ batch[t] = <<>>
  /\ cur' = [cur EXCEPT ![t] = None]
  /\ UNCHANGED <<mailboxVars, portVars, threadVars, todo, batch, busy, src,
                 calls, last>>

\* port_async_close_cb: the loop runs it for every handle that is closing, one
\* after the other.
CloseCb(t) ==
  /\ Idle(t) /\ phase[t] \in {"running", "draining", "closing"}
  /\ \E p \in Ports : home[p] = t /\ handle[p] = "closing"
  /\ handle' = [p \in Ports |-> IF home[p] = t /\ handle[p] = "closing"
                               THEN "freed" ELSE handle[p]]
  /\ UNCHANGED <<mailboxVars, state, rx, tx, home, wake, threadVars, todo,
                 loopVars, calls, last>>

----------------------------------------------------------------------------
(* The life of a runtime.                                                  *)

Phase(t, from, to) ==
  /\ Idle(t) /\ phase[t] = from
  /\ phase' = [phase EXCEPT ![t] = to]
  /\ UNCHANGED <<mailboxVars, portVars, stop, near, far, todo, loopVars, calls,
                 last>>

\* TJS_Run returns: on a stop request, or, in the main runtime, when no started
\* port keeps its loop alive.
LoopReturn(t) ==
  /\ t \in Mortal
  /\ \/ stop[t]
     \/ t = Main /\ ~ \E p \in Ports : home[p] = t /\ state[p] = "started"
  /\ Phase(t, "running", "stopped")

\* TJS_FreeRuntime: up to 32 turns of the loop, the JavaScript engine, then
\* the turns that close the loop.  A worker's is called by its parent.
FreeRuntime(t) ==
  /\ t = Main \/ \E u \in Threads : Doing(u, "join") /\ Head(todo[u]).thread = t
  /\ Phase(t, "stopped", "draining")

FreeEngine(t) == Phase(t, "draining", "freeing")

CloseLoop(t) ==
  /\ \A p \in Ports : home[p] = t => handle[p] # "active"
  /\ \A u \in Threads : near[u] # None /\ home[near[u]] = t => phase[u] = "freed"
  /\ Phase(t, "freeing", "closing")

LoopClosed(t) ==
  /\ \A p \in Ports : home[p] = t => handle[p] = "freed"
  /\ Phase(t, "closing", "freed")

----------------------------------------------------------------------------
Init ==
  /\ alive  = [m \in Mailboxes |-> "unused"]
  /\ refs   = [m \in Mailboxes |-> 0]
  /\ closed = [m \in Mailboxes |-> FALSE]
  /\ owner  = [m \in Mailboxes |-> None]
  /\ inbox  = [m \in Mailboxes |-> <<>>]
  /\ state  = [p \in Ports |-> "unused"]
  /\ rx = [p \in Ports |-> None] /\ tx = [p \in Ports |-> None]
  /\ home   = [p \in Ports |-> None]
  /\ handle = [p \in Ports |-> "none"]
  /\ wake   = [p \in Ports |-> FALSE]
  /\ phase  = [t \in Threads |-> IF t = Main THEN "running" ELSE "unborn"]
  /\ stop   = [t \in Threads |-> FALSE]
  /\ near = [t \in Threads |-> None] /\ far = [t \in Threads |-> None]
  /\ todo   = [t \in Threads |-> <<>>]
  /\ cur    = [t \in Threads |-> None]
  /\ batch  = [t \in Threads |-> <<>>]
  /\ busy   = [t \in Threads |-> FALSE]
  /\ src    = [t \in Threads |-> None]
  /\ calls = 0
  /\ last   = [m \in Mailboxes |-> 0]

\* What a script, or the collector, may do.
Script(t) ==
  \/ NewChannel(t)
  \/ \E u \in Threads : SpawnWorker(t, u) \/ Terminate(t, u)
  \/ Stop(t)
  \/ \E p \in Ports :
       \/ /\ Scripting(t) /\ home[p] = t   \* before TLC enumerates the lists
          /\ \E list \in TransferLists(t, p) : PostMessage(t, p, list)
       \/ Start(t, p)
       \/ Close(t, p)
       \/ Finalize(t, p)

\* What a thread does once it has been called.
Step(t) ==
  \/ CloseStep(t) \/ UnrefStep(t) \/ PostStep(t) \/ FreeStep(t)
  \/ StartStep(t) \/ WakeStep(t) \/ UvCloseStep(t) \/ JoinStep(t) \/ ShutStep(t)
  \/ SpliceStep(t) \/ Dispatch(t) \/ HandlerReturn(t) \/ DropRest(t)
  \/ CallbackReturn(t)

Loop(t) ==
  \/ \E p \in Ports : LoopWake(t, p)
  \/ CloseCb(t)
  \/ LoopReturn(t) \/ FreeRuntime(t) \/ FreeEngine(t) \/ CloseLoop(t)
  \/ LoopClosed(t)

Next == \E t \in Threads : Script(t) \/ Step(t) \/ Loop(t)

Spec == Init /\ [][Next]_vars

\* A thread the scheduler runs makes progress in the functions it is in, its
\* handlers return, and libuv serves every async that was sent and every
\* request to stop.
Fairness ==
  \A t \in Threads :
    /\ WF_vars(Step(t))
    /\ \A p \in Ports : WF_vars(LoopWake(t, p))
    /\ WF_vars(CloseCb(t))
    /\ WF_vars(LoopReturn(t)) /\ WF_vars(FreeRuntime(t))
    /\ WF_vars(FreeEngine(t)) /\ WF_vars(CloseLoop(t)) /\ WF_vars(LoopClosed(t))
    /\ WF_vars(phase[t] = "freeing" /\ (\/ \E p \in Ports : Finalize(t, p)
                                        \/ \E u \in Threads : Terminate(t, u)))

FairSpec == Spec /\ Fairness

----------------------------------------------------------------------------
(* Types.                                                                  *)

MailboxTypeOK ==
  /\ alive  \in [Mailboxes -> {"unused", "live", "freed"}]
  /\ refs   \in [Mailboxes -> Int]
  /\ closed \in [Mailboxes -> BOOLEAN]
  /\ owner  \in [Mailboxes -> Ports \cup {None}]
  /\ inbox  \in [Mailboxes -> Seq(Msg)]
PortTypeOK ==
  /\ state  \in [Ports -> {"unused", "open", "started", "closed", "detached"}]
  /\ rx \in [Ports -> Mailboxes \cup {None}]
  /\ tx \in [Ports -> Mailboxes \cup {None}]
  /\ home   \in [Ports -> Threads \cup {None}]
  /\ handle \in [Ports -> {"none", "active", "closing", "freed"}]
  /\ wake   \in [Ports -> BOOLEAN]
ThreadTypeOK ==
  /\ phase  \in [Threads -> {"unborn", "running", "stopped", "draining",
                             "freeing", "closing", "freed"}]
  /\ stop   \in [Threads -> BOOLEAN]
  /\ near   \in [Threads -> Ports \cup {None}]
  /\ far    \in [Threads -> Ports \cup {None}]
TodoTypeOK == todo \in [Threads -> Seq(Op)]
LoopTypeOK ==
  /\ cur    \in [Threads -> Ports \cup {None}]
  /\ batch  \in [Threads -> Seq(Msg)]
  /\ busy   \in [Threads -> BOOLEAN]
  /\ src    \in [Threads -> Mailboxes \cup {None}]
HistoryTypeOK ==
  /\ calls \in 0..MaxCalls
  /\ last  \in [Mailboxes -> 0..MaxCalls]

TypeOK == /\ MailboxTypeOK /\ PortTypeOK /\ ThreadTypeOK /\ TodoTypeOK
          /\ LoopTypeOK /\ HistoryTypeOK

----------------------------------------------------------------------------
(* The hand-shake between posting and receiving threads.                   *)

\* port_post wakes the owner it finds under the mailbox lock: the async of an
\* owner has not been closed, whatever thread its port lives on.
OwnerUsable ==
  \A m \in Mailboxes : owner[m] # None => handle[owner[m]] = "active"

\* No wake-up is lost: when messages wait for the port that owns a mailbox,
\* its async is pending, or its thread is about to send it or to take them.
NoLostWakeup ==
  \A p \in Ports :
    state[p] = "started" /\ owner[rx[p]] = p /\ inbox[rx[p]] # <<>> =>
      \/ wake[p]
      \/ \E i \in DOMAIN todo[home[p]] :
           todo[home[p]][i] \in {PortOp("wake", p), PortOp("splice", p)}

----------------------------------------------------------------------------
(* The inductive invariant from which Channel_proofs derives TypeOK,       *)
(* OwnerUsable and NoLostWakeup.                                           *)

Ops(t) == {todo[t][i] : i \in DOMAIN todo[t]}

\* A live port has its two mailboxes, a thread and an open async handle.
PortOK ==
  \A p \in Ports :
    /\ state[p] = "unused" => home[p] = None
    /\ Live(p) => /\ rx[p] \in Mailboxes /\ tx[p] \in Mailboxes
                  /\ home[p] \in Threads /\ handle[p] = "active"

\* What a thread is about to do to a port is done on the port's own thread,
\* and the port is still in the state the operation was meant for; a batch is
\* taken by a callback that has just begun.
OpOK(t, o) ==
  /\ o.op \in {"start", "wake", "splice", "shut", "uvclose"} => home[o.port] = t
  /\ o.op = "start" => state[o.port] = "open"
  /\ o.op = "splice" => Live(o.port) /\ cur[t] = None
  /\ o.op = "uvclose" => state[o.port] \in {"closed", "detached"}

TodoOK ==
  \A t \in Threads :
    /\ \A o \in Ops(t) : OpOK(t, o)
    /\ \A i \in DOMAIN todo[t] :
         todo[t][i].op \in {"start", "splice", "shut"} => i = Len(todo[t])

\* The owner of a mailbox is the started port that receives on it, or a port
\* whose thread is about to close that very mailbox.
OwnerOK ==
  \A m \in Mailboxes : owner[m] # None =>
    LET p == owner[m]
    IN /\ handle[p] = "active" /\ home[p] \in Threads
       /\ \/ state[p] = "started" /\ rx[p] = m
          \/ /\ state[p] = "closed"
             /\ todo[home[p]] # <<>> /\ Head(todo[home[p]]) = CloseOp(m)

\* A handler runs in the callback of a port, on the head of its batch.
BusyOK == \A t \in Threads : busy[t] => cur[t] # None /\ batch[t] # <<>>

IInv == TypeOK /\ PortOK /\ TodoOK /\ BusyOK /\ OwnerOK /\ NoLostWakeup

============================================================================
