----------------------------- MODULE Broadcast -----------------------------
(***************************************************************************)
(* BroadcastChannel (src/src/mod_channel.c, the part about TJSBroadcast,   *)
(* driven by src/src/js/polyfills/broadcast-channel.js).                   *)
(*                                                                         *)
(* The channels of all threads are linked in one global list under one     *)
(* lock.  A post holds that lock while it walks the list and puts a copy   *)
(* of the message into the inbox of every other channel of the name, each  *)
(* under the lock of the inbox, and wakes the channel's loop.  Channels    *)
(* are closed by their own thread, which takes the two locks one after the *)
(* other.                                                                  *)
(*                                                                         *)
(* Grain of atomicity: a critical section under an inbox lock, one turn of *)
(* the walk, uv_async_send and uv_close are one step each.  A thread that  *)
(* waits for the global lock does nothing else, so taking the lock is the  *)
(* first step of a post and of an unlinking.  A message is its number in   *)
(* the order in which the posts took the lock.                             *)
(***************************************************************************)
EXTENDS Integers, Sequences

CONSTANTS
  Threads,   \* one per runtime
  Channels,  \* TJSBroadcast allocations, each used once
  Names,
  None,
  MaxCalls,  \* bound: what scripts call
  Mortal     \* bound: the runtimes that are ever freed

ASSUME BroadcastAssumption ==
  /\ None \notin Threads /\ None \notin Channels /\ None \notin Names
  /\ MaxCalls \in Nat
  /\ Mortal \subseteq Threads

VARIABLES
  \* TJSBroadcast
  async,    \* its handle: "none" before it is allocated, "active", "closing",
            \* "freed", which the struct then is too
  home,     \* the thread of its loop
  name,
  closed,
  inbox,    \* messages, oldest first
  wake,     \* the async was sent and its callback has not started yet
  batch,    \* the messages its callback took out of the inbox
  \* the registry
  bc_list,  \* the channels that are linked; a post walks them in some order
  lock,     \* the thread that holds bc_lock, or None
  rest,     \* the channels its walk has not reached
  sending,  \* the channel whose copy was queued and whose loop was not woken
  \* threads
  at,       \* the next step of the C function the thread is in, or "idle"
  arg,      \* the channel that function works on
  fin,      \* it was called by the finalizer
  cur,      \* the channel whose callback is running, or None
  busy,     \* its deliver function is running (on the head of the batch)
  phase,    \* "running", "freeing" (the engine frees its objects), "freed"
  \* history
  log,      \* the posts in the order of the lock: who, under which name
  pos,      \* per channel, the last message delivered (at first, posted)
  calls

channelVars  == <<async, home, name, closed, inbox, wake, batch>>
registryVars == <<bc_list, lock, rest, sending>>
threadVars   == <<at, arg, fin, cur, busy, phase>>
vars == <<channelVars, registryVars, threadVars, log, pos, calls>>

----------------------------------------------------------------------------
\* list_add_tail of a copy.  Mutant: at the head.
EnqueueFirst(s, x) == <<x>> \o s
Enqueue(s, x) == Append(s, x)

\* uv_mutex_lock(&bc_lock) can return.  Mutant: nobody waits.
NoLock == TRUE
LockFree == lock = None

\* c may be sent what s posts.  Mutant: so may s itself.
SendsToSelf(c, s) == name[c] = name[s]
Subscribed(c, s) == c # s /\ name[c] = name[s]

\* What follows when a channel was closed: it leaves the registry, then its
\* inbox is emptied.
AfterClose == [unlink |-> "drop", drop |-> "idle"]
FirstOfClose == "unlink"

\* uv_async_send.  Mutant: not while the callback is running anyway.
WakeIdle(c) == wake' = [wake EXCEPT ![c] = @ \/ cur[home[c]] # c]
Wake(c) == wake' = [wake EXCEPT ![c] = TRUE]

Idle(t) == at[t] = "idle" /\ cur[t] = None
Scripting(t) == at[t] = "idle" /\ phase[t] = "running" /\ (cur[t] = None \/ busy[t])
Calling(t) == Scripting(t) /\ calls < MaxCalls /\ calls' = calls + 1

Go(t, step) == at' = [at EXCEPT ![t] = step]

----------------------------------------------------------------------------
(* What scripts call.                                                      *)

\* new BroadcastChannel(n).
New(t, c, n) ==
  /\ Calling(t) /\ LockFree
  /\ async[c] = "none"
  /\ async' = [async EXCEPT ![c] = "active"]
  /\ home' = [home EXCEPT ![c] = t]
  /\ name' = [name EXCEPT ![c] = n]
  /\ bc_list' = bc_list \cup {c}
  /\ pos' = [pos EXCEPT ![c] = Len(log)]
  /\ UNCHANGED <<closed, inbox, wake, batch, lock, rest, sending, threadVars, log>>

\* channel.postMessage(value), on a channel that is open.
PostMessage(t, c) ==
  /\ Calling(t) /\ LockFree
  /\ home[c] = t /\ async[c] = "active" /\ ~closed[c]
  /\ lock' = t /\ rest' = bc_list
  /\ log' = Append(log, [from |-> c, name |-> name[c]])
  /\ arg' = [arg EXCEPT ![t] = c]
  /\ Go(t, "walk")
  /\ UNCHANGED <<channelVars, bc_list, sending, fin, cur, busy, phase, pos>>

\* channel.close(), up to the lock.
Close(t, c) ==
  /\ Calling(t)
  /\ home[c] = t /\ async[c] = "active" /\ ~closed[c]
  /\ closed' = [closed EXCEPT ![c] = TRUE]
  /\ arg' = [arg EXCEPT ![t] = c]
  /\ fin' = [fin EXCEPT ![t] = FALSE]
  /\ Go(t, FirstOfClose)
  /\ UNCHANGED <<async, home, name, inbox, wake, batch, registryVars, cur, busy,
                 phase, log, pos>>

\* The collector frees the object: openChannels pins an open channel until its
\* runtime is freed.
Finalize(t, c) ==
  /\ Scripting(t) \/ (phase[t] = "freeing" /\ at[t] = "idle")
  /\ home[c] = t /\ async[c] = "active"
  /\ phase[t] = "running" => closed[c]
  /\ closed' = [closed EXCEPT ![c] = TRUE]
  /\ arg' = [arg EXCEPT ![t] = c]
  /\ fin' = [fin EXCEPT ![t] = TRUE]
  /\ Go(t, IF closed[c] THEN "uvclose" ELSE FirstOfClose)
  /\ UNCHANGED <<async, home, name, inbox, wake, batch, registryVars, cur, busy,
                 phase, log, pos, calls>>

----------------------------------------------------------------------------
(* The steps of the functions.                                             *)

\* One turn of the walk of a post.  The closed flag is read without the lock
\* its writer takes: the close of another thread may not be seen yet.
Walk(t) ==
  /\ at[t] = "walk" /\ sending = None
  /\ \E c \in rest :
       /\ rest' = rest \ {c}
       /\ \/ /\ closed[c] \/ ~Subscribed(c, arg[t])
             /\ UNCHANGED <<inbox, sending>>
          \/ /\ Subscribed(c, arg[t]) /\ (closed[c] => home[c] # t)
             /\ inbox' = [inbox EXCEPT ![c] = Enqueue(@, Len(log))]
             /\ sending' = c
  /\ UNCHANGED <<async, home, name, closed, wake, batch, bc_list, lock, threadVars,
                 log, pos, calls>>

Send(t) ==
  /\ at[t] = "walk" /\ sending # None
  /\ Wake(sending)
  /\ sending' = None
  /\ UNCHANGED <<async, home, name, closed, inbox, batch, bc_list, lock, rest,
                 threadVars, log, pos, calls>>

\* The end of the walk: the lock is released.
Unlock(t) ==
  /\ at[t] = "walk" /\ sending = None /\ rest = {}
  /\ lock' = None
  /\ Go(t, "idle")
  /\ UNCHANGED <<channelVars, bc_list, rest, sending, arg, fin, cur, busy, phase,
                 log, pos, calls>>

\* The end of broadcast_do_close, for the finalizer or for close().
Closed(t) == IF fin[t] THEN "uvclose" ELSE "idle"

Unlink(t) ==
  /\ at[t] = "unlink" /\ LockFree
  /\ bc_list' = bc_list \ {arg[t]}
  /\ Go(t, IF AfterClose.unlink = "idle" THEN Closed(t) ELSE AfterClose.unlink)
  /\ UNCHANGED <<channelVars, lock, rest, sending, arg, fin, cur, busy, phase, log,
                 pos, calls>>

Drop(t) ==
  /\ at[t] = "drop"
  /\ inbox' = [inbox EXCEPT ![arg[t]] = <<>>]
  /\ Go(t, IF AfterClose.drop = "idle" THEN Closed(t) ELSE AfterClose.drop)
  /\ UNCHANGED <<async, home, name, closed, wake, batch, registryVars, arg, fin, cur,
                 busy, phase, log, pos, calls>>

\* uv_close.
UvClose(t) ==
  /\ at[t] = "uvclose"
  /\ async' = [async EXCEPT ![arg[t]] = "closing"]
  /\ Go(t, "idle")
  /\ UNCHANGED <<home, name, closed, inbox, wake, batch, registryVars, arg, fin, cur,
                 busy, phase, log, pos, calls>>

----------------------------------------------------------------------------
(* The callback of a channel: broadcast_async_cb.                          *)

LoopWake(t, c) ==
  /\ Idle(t) /\ phase[t] = "running"
  /\ home[c] = t /\ wake[c] /\ async[c] = "active"
  /\ wake' = [wake EXCEPT ![c] = FALSE]
  /\ cur' = [cur EXCEPT ![t] = c]
  /\ Go(t, "splice")
  /\ UNCHANGED <<async, home, name, closed, inbox, batch, registryVars, arg, fin,
                 busy, phase, log, pos, calls>>

\* The critical section that takes the whole inbox.
Splice(t) ==
  /\ at[t] = "splice"
  /\ batch' = [batch EXCEPT ![cur[t]] = inbox[cur[t]]]
  /\ inbox' = [inbox EXCEPT ![cur[t]] = <<>>]
  /\ Go(t, "idle")
  /\ UNCHANGED <<async, home, name, closed, wake, registryVars, arg, fin, cur, busy,
                 phase, log, pos, calls>>

\* broadcast_dispatch_one up to the call of the handler.
Dispatch(t) ==
  /\ cur[t] # None /\ at[t] = "idle" /\ ~busy[t]
  /\ batch[cur[t]] # <<>> /\ ~closed[cur[t]]
  /\ busy' = [busy EXCEPT ![t] = TRUE]
  /\ pos' = [pos EXCEPT ![cur[t]] = Head(batch[cur[t]])]
  /\ UNCHANGED <<channelVars, registryVars, at, arg, fin, cur, phase, log, calls>>

HandlerReturn(t) ==
  /\ busy[t] /\ at[t] = "idle"
  /\ busy' = [busy EXCEPT ![t] = FALSE]
  /\ batch' = [batch EXCEPT ![cur[t]] = Tail(@)]
  /\ UNCHANGED <<async, home, name, closed, inbox, wake, registryVars, at, arg, fin,
                 cur, phase, log, pos, calls>>

\* A handler closed the channel: the rest of the batch is freed.
CallbackReturn(t) ==
  /\ cur[t] # None /\ at[t] = "idle" /\ ~busy[t]
  /\ batch[cur[t]] = <<>> \/ closed[cur[t]]
  /\ batch' = [batch EXCEPT ![cur[t]] = <<>>]
  /\ cur' = [cur EXCEPT ![t] = None]
  /\ UNCHANGED <<async, home, name, closed, inbox, wake, registryVars, at, arg, fin,
                 busy, phase, log, pos, calls>>

\* broadcast_async_close_cb: the struct is freed.
CloseCb(t) ==
  /\ Idle(t)
  /\ \E c \in Channels : home[c] = t /\ async[c] = "closing"
  /\ async' = [c \in Channels |-> IF home[c] = t /\ async[c] = "closing"
                                 THEN "freed" ELSE async[c]]
  /\ UNCHANGED <<home, name, closed, inbox, wake, batch, registryVars, threadVars,
                 log, pos, calls>>

\* TJS_FreeRuntime.  Its turns of the loop dispatch like those of TJS_Run; then
\* the engine finalizes every object, and the loop is closed.
FreeEngine(t) ==
  /\ t \in Mortal
  /\ Idle(t) /\ phase[t] = "running"
  /\ phase' = [phase EXCEPT ![t] = "freeing"]
  /\ UNCHANGED <<channelVars, registryVars, at, arg, fin, cur, busy, log, pos, calls>>

LoopClosed(t) ==
  /\ Idle(t) /\ phase[t] = "freeing"
  /\ \A c \in Channels : home[c] = t => async[c] = "freed"
  /\ phase' = [phase EXCEPT ![t] = "freed"]
  /\ UNCHANGED <<channelVars, registryVars, at, arg, fin, cur, busy, log, pos, calls>>

----------------------------------------------------------------------------
Init ==
  /\ async = [c \in Channels |-> "none"]
  /\ home = [c \in Channels |-> None] /\ name = [c \in Channels |-> None]
  /\ closed = [c \in Channels |-> FALSE]
  /\ inbox = [c \in Channels |-> <<>>] /\ batch = [c \in Channels |-> <<>>]
  /\ wake = [c \in Channels |-> FALSE]
  /\ bc_list = {} /\ lock = None /\ rest = {} /\ sending = None
  /\ at = [t \in Threads |-> "idle"]
  /\ arg = [t \in Threads |-> None] /\ fin = [t \in Threads |-> FALSE]
  /\ cur = [t \in Threads |-> None] /\ busy = [t \in Threads |-> FALSE]
  /\ phase = [t \in Threads |-> "running"]
  /\ log = <<>> /\ pos = [c \in Channels |-> 0] /\ calls = 0

Script(t) == \E c \in Channels :
  \/ \E n \in Names : New(t, c, n)
  \/ PostMessage(t, c) \/ Close(t, c) \/ Finalize(t, c)

Step(t) ==
  \/ Walk(t) \/ Send(t) \/ Unlock(t) \/ Unlink(t) \/ Drop(t) \/ UvClose(t)
  \/ Splice(t) \/ Dispatch(t) \/ HandlerReturn(t) \/ CallbackReturn(t)

Loop(t) ==
  \/ \E c \in Channels : LoopWake(t, c)
  \/ CloseCb(t) \/ FreeEngine(t) \/ LoopClosed(t)

Next == \E t \in Threads : Script(t) \/ Step(t) \/ Loop(t)

Spec == Init /\ [][Next]_vars

\* A thread makes progress in the functions it is in, its handlers return, its
\* loop serves every async that was sent, and a runtime that is being freed
\* finalizes its objects.
Fairness == \A t \in Threads :
  /\ WF_vars(Step(t))
  /\ \A c \in Channels : WF_vars(LoopWake(t, c))
  /\ WF_vars(phase[t] = "freeing" /\ \E c \in Channels : Finalize(t, c))

FairSpec == Spec /\ Fairness

----------------------------------------------------------------------------
TypeOK ==
  /\ async \in [Channels -> {"none", "active", "closing", "freed"}]
  /\ home \in [Channels -> Threads \cup {None}]
  /\ name \in [Channels -> Names \cup {None}]
  /\ closed \in [Channels -> BOOLEAN] /\ wake \in [Channels -> BOOLEAN]
  /\ inbox \in [Channels -> Seq(Nat)] /\ batch \in [Channels -> Seq(Nat)]
  /\ bc_list \in SUBSET Channels /\ rest \in SUBSET Channels
  /\ lock \in Threads \cup {None} /\ sending \in Channels \cup {None}
  /\ at \in [Threads -> {"idle", "walk", "unlink", "drop", "uvclose", "splice"}]
  /\ arg \in [Threads -> Channels \cup {None}]
  /\ fin \in [Threads -> BOOLEAN]
  /\ cur \in [Threads -> Channels \cup {None}]
  /\ busy \in [Threads -> BOOLEAN]
  /\ phase \in [Threads -> {"running", "freeing", "freed"}]
  /\ log \in Seq([from : Channels, name : Names])
  /\ pos \in [Channels -> Nat]
  /\ calls \in 0..MaxCalls

----------------------------------------------------------------------------
(* What the channels promise.                                              *)

Open == {c \in bc_list : ~closed[c]}

\* The messages that c is still to be given: the rest of the batch its callback
\* works on, its inbox, and the copy of the post that walks the list.
Stream(c) ==
  LET taken == IF cur[home[c]] = c /\ busy[home[c]] THEN Tail(batch[c]) ELSE batch[c]
      owed  == IF c \in rest /\ Subscribed(c, arg[lock]) THEN <<Len(log)>> ELSE <<>>
  IN taken \o inbox[c] \o owed

\* Whatever the threads do, an open channel is to be given every message posted
\* under its name by another channel since the last one it was given, each once,
\* in the order of the posts, which is the same for all channels.
For(c) == {i \in DOMAIN log : log[i].name = name[c] /\ log[i].from # c}
Exact ==
  \A c \in Open :
    /\ \A i, j \in DOMAIN Stream(c) : i < j => Stream(c)[i] < Stream(c)[j]
    /\ {Stream(c)[i] : i \in DOMAIN Stream(c)} = {i \in For(c) : i > pos[c]}

\* A post touches only channels that are allocated and wakes only handles that
\* are not closed, whatever threads close and free theirs meanwhile.
TargetsAlive == \A c \in bc_list \cup rest \cup ({sending} \ {None}) : async[c] = "active"

\* Once its inbox was emptied by a close, a channel never gets another message
\* (which would be lost, and leaked with the struct).
ClosedStaysEmpty ==
  \A c \in Channels :
    closed[c] /\ (\A t \in Threads : arg[t] = c => at[t] \notin {"unlink", "drop"}) =>
      c \notin bc_list /\ inbox[c] = <<>>

\* A channel with messages in its inbox has been sent its async, or will be:
\* the poster has still to send it, or the callback to take the messages.
NoLostWakeup ==
  \A c \in Open : inbox[c] # <<>> =>
    \/ wake[c] \/ sending = c
    \/ cur[home[c]] = c /\ at[home[c]] = "splice"

\* The promise, see BroadcastLog: the log is the order of the lock.
Promise == INSTANCE BroadcastLog WITH open <- Open
Ordered == Promise!Spec

\* An open channel catches up with the log: the scripts post finitely often, so
\* this is to say that every message for it is delivered, or the channel closed.
Delivered == \A c \in Channels : []<>(c \in Open => {i \in For(c) : i > pos[c]} = {})

\* Posts meet only channels that are allocated and open, and what they leave in an inbox
\* wakes its channel, however closes, frees and posts of the threads cross.
Posts == TargetsAlive /\ ClosedStaysEmpty /\ NoLostWakeup

=============================================================================
