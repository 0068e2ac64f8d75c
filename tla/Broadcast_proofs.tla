-------------------------- MODULE Broadcast_proofs --------------------------
(***************************************************************************)
(* Proofs about the registry of BroadcastChannels and the wake-ups, and    *)
(* that the channels implement the log of BroadcastLog: every open channel *)
(* is owed exactly what was posted for it since the last message it was    *)
(* given, in the order of the log.  For any threads, channels and names    *)
(* and any number of posts.                                                *)
(***************************************************************************)
EXTENDS Broadcast, SequenceTheorems, TLAPS

(***************************************************************************)
(* The inductive invariant.  What inboxes hold does not matter for it, only *)
(* whether they are empty.                                                 *)
(***************************************************************************)
Shapes ==
  /\ async \in [Channels -> {"none", "active", "closing", "freed"}]
  /\ home \in [Channels -> Threads \cup {None}]
  /\ closed \in [Channels -> BOOLEAN] /\ wake \in [Channels -> BOOLEAN]
  /\ DOMAIN inbox = Channels
  /\ bc_list \subseteq Channels
  /\ at \in [Threads -> {"idle", "walk", "unlink", "drop", "uvclose", "splice"}]
  /\ arg \in [Threads -> Channels \cup {None}]
  /\ cur \in [Threads -> Channels \cup {None}]
  /\ lock \in Threads \cup {None}

\* A post that walks the list holds the lock, and what it has still to visit or to
\* wake is in the list.
LockOK ==
  /\ lock = None => rest = {} /\ sending = None
  /\ \A t \in Threads : at[t] = "walk" <=> lock = t
  /\ rest \subseteq bc_list /\ sending \in bc_list \cup {None}

\* A channel before it was made; one that is in the list.
Linked(c) ==
  /\ async[c] = "none" => ~closed[c] /\ inbox[c] = <<>>
  /\ c \in bc_list => async[c] = "active" /\ home[c] \in Threads

\* A channel is closed by the thread it belongs to.
Closes(t) ==
  /\ at[t] \in {"unlink", "drop", "uvclose"} =>
       /\ arg[t] \in Channels /\ home[arg[t]] = t
       /\ closed[arg[t]] /\ async[arg[t]] = "active"
  /\ at[t] \in {"drop", "uvclose"} => arg[t] \notin bc_list
  /\ at[t] = "uvclose" => inbox[arg[t]] = <<>>
  /\ at[t] = "splice" =>
       cur[t] \in Channels /\ home[cur[t]] = t /\ async[cur[t]] # "none"

\* The parts of ClosedStaysEmpty and NoLostWakeup.
Emptied(c) ==
  closed[c] /\ (\A t \in Threads : arg[t] = c => at[t] \notin {"unlink", "drop"}) =>
    c \notin bc_list /\ inbox[c] = <<>>
Woken(c) ==
  c \in bc_list /\ ~closed[c] /\ inbox[c] # <<>> =>
    \/ wake[c] \/ sending = c
    \/ cur[home[c]] = c /\ at[home[c]] = "splice"

Sound ==
  /\ Shapes /\ LockOK
  /\ \A t \in Threads : Closes(t)
  /\ \A c \in Channels : Linked(c) /\ Emptied(c) /\ Woken(c)

----------------------------------------------------------------------------
\* The invariant holds at first.
LEMMA InitSound == Init => Sound
BY BroadcastAssumption
   DEF Init, Sound, Shapes, LockOK, Closes, Linked, Emptied, Woken

\* The invariant is about these variables only.
LEMMA SameSound ==
  ASSUME Sound,
         UNCHANGED <<async, home, closed, inbox, wake, bc_list, lock, rest, sending,
                     at, arg>>,
         Shapes',
         \A t \in Threads : at[t] = "splice" => cur'[t] = cur[t]
  PROVE  Sound'
<1>1. LockOK'
  BY DEF Sound, LockOK
<1>2. ASSUME NEW t \in Threads PROVE Closes(t)'
  BY DEF Sound, Closes
<1>3. ASSUME NEW c \in Channels PROVE Linked(c)' /\ Emptied(c)'
  BY DEF Sound, Linked, Emptied
<1>4. ASSUME NEW c \in Channels PROVE Woken(c)'
  BY BroadcastAssumption DEF Sound, Shapes, Linked, Woken
<1> QED
  BY <1>1, <1>2, <1>3, <1>4 DEF Sound

\* Every step of a thread keeps it.
LEMMA StepSound ==
  ASSUME Sound, NEW t \in Threads, Script(t) \/ Step(t) \/ Loop(t)
  PROVE  Sound'
<1> USE BroadcastAssumption
<1>a. /\ Shapes /\ LockOK
      /\ \A u \in Threads : Closes(u)
      /\ \A d \in Channels : Linked(d) /\ Emptied(d) /\ Woken(d)
  BY DEF Sound
<1>1. ASSUME NEW c \in Channels, NEW n \in Names, New(t, c, n) PROVE Sound'
  <2>1. Shapes'
    BY <1>a, <1>1
         DEF New, Calling, Scripting, LockFree, threadVars, Shapes, LockOK,
             Closes
  <2>2. LockOK'
    BY <1>a, <1>1
         DEF New, Calling, Scripting, LockFree, threadVars, Shapes, LockOK,
             Linked
  <2>3. ASSUME NEW u \in Threads PROVE Closes(u)'
    <3>1. CASE u = t
      BY <1>a, <1>1, <3>1
         DEF New, Calling, Scripting, LockFree, threadVars, Shapes, LockOK,
             Closes, Linked
    <3>2. CASE u # t
      BY <1>a, <1>1, <3>2
         DEF New, Calling, Scripting, LockFree, threadVars, Shapes, LockOK,
             Closes, Linked
    <3> QED
      BY <3>1, <3>2
  <2>4. ASSUME NEW d \in Channels PROVE Linked(d)'
    BY <1>a, <1>1
         DEF New, Calling, Scripting, LockFree, threadVars, Shapes, LockOK,
             Closes, Linked
  <2>5. ASSUME NEW d \in Channels PROVE Emptied(d)'
    BY <1>a, <1>1
         DEF New, Calling, Scripting, LockFree, threadVars, Shapes, LockOK,
             Closes, Linked, Emptied
  <2>6. ASSUME NEW d \in Channels PROVE Woken(d)'
    BY <1>a, <1>1
         DEF New, Calling, Scripting, LockFree, threadVars, Shapes, LockOK,
             Closes, Linked, Emptied, Woken
  <2> QED
    BY <2>1, <2>2, <2>3, <2>4, <2>5, <2>6 DEF Sound
<1>2. ASSUME NEW c \in Channels, PostMessage(t, c) PROVE Sound'
  <2>1. Shapes'
    BY <1>a, <1>2
         DEF PostMessage, Calling, Scripting, LockFree, Go, channelVars,
             Shapes, LockOK, Closes
  <2>2. LockOK'
    BY <1>a, <1>2
         DEF PostMessage, Calling, Scripting, LockFree, Go, channelVars,
             Shapes, LockOK, Linked
  <2>3. ASSUME NEW u \in Threads PROVE Closes(u)'
    <3>1. CASE u = t
      BY <1>a, <1>2, <3>1
         DEF PostMessage, Calling, Scripting, LockFree, Go, channelVars,
             Shapes, LockOK, Closes, Linked
    <3>2. CASE u # t
      BY <1>a, <1>2, <3>2
         DEF PostMessage, Calling, Scripting, LockFree, Go, channelVars,
             Shapes, LockOK, Closes, Linked
    <3> QED
      BY <3>1, <3>2
  <2>4. ASSUME NEW d \in Channels PROVE Linked(d)'
    BY <1>a, <1>2
         DEF PostMessage, Calling, Scripting, LockFree, Go, channelVars,
             Shapes, LockOK, Closes, Linked
  <2>5. ASSUME NEW d \in Channels PROVE Emptied(d)'
    BY <1>a, <1>2
         DEF PostMessage, Calling, Scripting, LockFree, Go, channelVars,
             Shapes, LockOK, Closes, Linked, Emptied
  <2>6. ASSUME NEW d \in Channels PROVE Woken(d)'
    BY <1>a, <1>2
         DEF PostMessage, Calling, Scripting, LockFree, Go, channelVars,
             Shapes, LockOK, Closes, Linked, Emptied, Woken
  <2> QED
    BY <2>1, <2>2, <2>3, <2>4, <2>5, <2>6 DEF Sound
<1>3. ASSUME NEW c \in Channels, Close(t, c) PROVE Sound'
  <2>1. Shapes'
    BY <1>a, <1>3
         DEF Close, Calling, Scripting, Go, FirstOfClose, AfterClose,
             registryVars, Shapes, LockOK, Closes
  <2>2. LockOK'
    BY <1>a, <1>3
         DEF Close, Calling, Scripting, Go, FirstOfClose, AfterClose,
             registryVars, Shapes, LockOK, Linked
  <2>3. ASSUME NEW u \in Threads PROVE Closes(u)'
    <3>1. CASE u = t
      BY <1>a, <1>3, <3>1
         DEF Close, Calling, Scripting, Go, FirstOfClose, AfterClose,
             registryVars, Shapes, LockOK, Closes, Linked
    <3>2. CASE u # t
      BY <1>a, <1>3, <3>2
         DEF Close, Calling, Scripting, Go, FirstOfClose, AfterClose,
             registryVars, Shapes, LockOK, Closes, Linked
    <3> QED
      BY <3>1, <3>2
  <2>4. ASSUME NEW d \in Channels PROVE Linked(d)'
    BY <1>a, <1>3
         DEF Close, Calling, Scripting, Go, FirstOfClose, AfterClose,
             registryVars, Shapes, LockOK, Closes, Linked
  <2>5. ASSUME NEW d \in Channels PROVE Emptied(d)'
    BY <1>a, <1>3
         DEF Close, Calling, Scripting, Go, FirstOfClose, AfterClose,
             registryVars, Shapes, LockOK, Closes, Linked, Emptied
  <2>6. ASSUME NEW d \in Channels PROVE Woken(d)'
    BY <1>a, <1>3
         DEF Close, Calling, Scripting, Go, FirstOfClose, AfterClose,
             registryVars, Shapes, LockOK, Closes, Linked, Emptied, Woken
  <2> QED
    BY <2>1, <2>2, <2>3, <2>4, <2>5, <2>6 DEF Sound
<1>4. ASSUME NEW c \in Channels, Finalize(t, c) PROVE Sound'
  <2>1. Shapes'
    BY <1>a, <1>4
         DEF Finalize, Scripting, Go, FirstOfClose, AfterClose, registryVars,
             Shapes, LockOK, Closes
  <2>2. LockOK'
    BY <1>a, <1>4
         DEF Finalize, Scripting, Go, FirstOfClose, AfterClose, registryVars,
             Shapes, LockOK, Linked
  <2>3. ASSUME NEW u \in Threads PROVE Closes(u)'
    <3>1. CASE u = t
      BY <1>a, <1>4, <3>1
         DEF Finalize, Scripting, Go, FirstOfClose, AfterClose, registryVars,
             Shapes, LockOK, Closes, Linked, Emptied
    <3>2. CASE u # t
      BY <1>a, <1>4, <3>2
         DEF Finalize, Scripting, Go, FirstOfClose, AfterClose, registryVars,
             Shapes, LockOK, Closes, Linked
    <3> QED
      BY <3>1, <3>2
  <2>4. ASSUME NEW d \in Channels PROVE Linked(d)'
    BY <1>a, <1>4
         DEF Finalize, Scripting, Go, FirstOfClose, AfterClose, registryVars,
             Shapes, LockOK, Closes, Linked
  <2>5. ASSUME NEW d \in Channels PROVE Emptied(d)'
    BY <1>a, <1>4
         DEF Finalize, Scripting, Go, FirstOfClose, AfterClose, registryVars,
             Shapes, LockOK, Closes, Linked, Emptied
  <2>6. ASSUME NEW d \in Channels PROVE Woken(d)'
    BY <1>a, <1>4
         DEF Finalize, Scripting, Go, FirstOfClose, AfterClose, registryVars,
             Shapes, LockOK, Closes, Linked, Emptied, Woken
  <2> QED
    BY <2>1, <2>2, <2>3, <2>4, <2>5, <2>6 DEF Sound
<1>5. ASSUME Walk(t) PROVE Sound'
  <2>1. Shapes'
    BY <1>a, <1>5
         DEF Walk, Enqueue, Subscribed, threadVars, Shapes, LockOK, Closes
  <2>2. LockOK'
    BY <1>a, <1>5
         DEF Walk, Enqueue, Subscribed, threadVars, Shapes, LockOK, Linked
  <2>3. ASSUME NEW u \in Threads PROVE Closes(u)'
    <3>1. CASE u = t
      BY <1>a, <1>5, <3>1
         DEF Walk, Enqueue, Subscribed, threadVars, Shapes, LockOK, Closes,
             Linked
    <3>2. CASE u # t
      BY <1>a, <1>5, <3>2
         DEF Walk, Enqueue, Subscribed, threadVars, Shapes, LockOK, Closes,
             Linked
    <3> QED
      BY <3>1, <3>2
  <2>4. ASSUME NEW d \in Channels PROVE Linked(d)'
    BY <1>a, <1>5
         DEF Walk, Enqueue, Subscribed, threadVars, Shapes, LockOK, Closes,
             Linked
  <2>5. ASSUME NEW d \in Channels PROVE Emptied(d)'
    BY <1>a, <1>5
         DEF Walk, Enqueue, Subscribed, threadVars, Shapes, LockOK, Closes,
             Linked, Emptied
  <2>6. ASSUME NEW d \in Channels PROVE Woken(d)'
    BY <1>a, <1>5
         DEF Walk, Enqueue, Subscribed, threadVars, Shapes, LockOK, Closes,
             Linked, Emptied, Woken
  <2> QED
    BY <2>1, <2>2, <2>3, <2>4, <2>5, <2>6 DEF Sound
<1>6. ASSUME Send(t) PROVE Sound'
  <2>1. Shapes'
    BY <1>a, <1>6
         DEF Send, Wake, threadVars, Shapes, LockOK, Closes
  <2>2. LockOK'
    BY <1>a, <1>6
         DEF Send, Wake, threadVars, Shapes, LockOK, Linked
  <2>3. ASSUME NEW u \in Threads PROVE Closes(u)'
    <3>1. CASE u = t
      BY <1>a, <1>6, <3>1
         DEF Send, Wake, threadVars, Shapes, LockOK, Closes, Linked
    <3>2. CASE u # t
      BY <1>a, <1>6, <3>2
         DEF Send, Wake, threadVars, Shapes, LockOK, Closes, Linked
    <3> QED
      BY <3>1, <3>2
  <2>4. ASSUME NEW d \in Channels PROVE Linked(d)'
    BY <1>a, <1>6
         DEF Send, Wake, threadVars, Shapes, LockOK, Closes, Linked
  <2>5. ASSUME NEW d \in Channels PROVE Emptied(d)'
    BY <1>a, <1>6
         DEF Send, Wake, threadVars, Shapes, LockOK, Closes, Linked, Emptied
  <2>6. ASSUME NEW d \in Channels PROVE Woken(d)'
    BY <1>a, <1>6
         DEF Send, Wake, threadVars, Shapes, LockOK, Closes, Linked, Emptied,
             Woken
  <2> QED
    BY <2>1, <2>2, <2>3, <2>4, <2>5, <2>6 DEF Sound
<1>7. ASSUME Unlock(t) PROVE Sound'
  <2>1. Shapes'
    BY <1>a, <1>7
         DEF Unlock, Go, channelVars, Shapes, LockOK, Closes
  <2>2. LockOK'
    BY <1>a, <1>7
         DEF Unlock, Go, channelVars, Shapes, LockOK, Linked
  <2>3. ASSUME NEW u \in Threads PROVE Closes(u)'
    <3>1. CASE u = t
      BY <1>a, <1>7, <3>1
         DEF Unlock, Go, channelVars, Shapes, LockOK, Closes, Linked
    <3>2. CASE u # t
      BY <1>a, <1>7, <3>2
         DEF Unlock, Go, channelVars, Shapes, LockOK, Closes, Linked
    <3> QED
      BY <3>1, <3>2
  <2>4. ASSUME NEW d \in Channels PROVE Linked(d)'
    BY <1>a, <1>7
         DEF Unlock, Go, channelVars, Shapes, LockOK, Closes, Linked
  <2>5. ASSUME NEW d \in Channels PROVE Emptied(d)'
    BY <1>a, <1>7
         DEF Unlock, Go, channelVars, Shapes, LockOK, Closes, Linked, Emptied
  <2>6. ASSUME NEW d \in Channels PROVE Woken(d)'
    BY <1>a, <1>7
         DEF Unlock, Go, channelVars, Shapes, LockOK, Closes, Linked, Emptied,
             Woken
  <2> QED
    BY <2>1, <2>2, <2>3, <2>4, <2>5, <2>6 DEF Sound
<1>8. ASSUME Unlink(t) PROVE Sound'
  <2>1. Shapes'
    BY <1>a, <1>8
         DEF Unlink, Go, AfterClose, Closed, LockFree, channelVars, Shapes,
             LockOK, Closes
  <2>2. LockOK'
    BY <1>a, <1>8
         DEF Unlink, Go, AfterClose, Closed, LockFree, channelVars, Shapes,
             LockOK, Linked
  <2>3. ASSUME NEW u \in Threads PROVE Closes(u)'
    <3>1. CASE u = t
      BY <1>a, <1>8, <3>1
         DEF Unlink, Go, AfterClose, Closed, LockFree, channelVars, Shapes,
             LockOK, Closes, Linked
    <3>2. CASE u # t
      BY <1>a, <1>8, <3>2
         DEF Unlink, Go, AfterClose, Closed, LockFree, channelVars, Shapes,
             LockOK, Closes, Linked
    <3> QED
      BY <3>1, <3>2
  <2>4. ASSUME NEW d \in Channels PROVE Linked(d)'
    BY <1>a, <1>8
         DEF Unlink, Go, AfterClose, Closed, LockFree, channelVars, Shapes,
             LockOK, Closes, Linked
  <2>5. ASSUME NEW d \in Channels PROVE Emptied(d)'
    BY <1>a, <1>8
         DEF Unlink, Go, AfterClose, Closed, LockFree, channelVars, Shapes,
             LockOK, Closes, Linked, Emptied
  <2>6. ASSUME NEW d \in Channels PROVE Woken(d)'
    BY <1>a, <1>8
         DEF Unlink, Go, AfterClose, Closed, LockFree, channelVars, Shapes,
             LockOK, Closes, Linked, Emptied, Woken
  <2> QED
    BY <2>1, <2>2, <2>3, <2>4, <2>5, <2>6 DEF Sound
<1>9. ASSUME Drop(t) PROVE Sound'
  <2>1. Shapes'
    BY <1>a, <1>9
         DEF Drop, Go, AfterClose, Closed, registryVars, Shapes, LockOK, Closes
  <2>2. LockOK'
    BY <1>a, <1>9
         DEF Drop, Go, AfterClose, Closed, registryVars, Shapes, LockOK, Linked
  <2>3. ASSUME NEW u \in Threads PROVE Closes(u)'
    <3>1. CASE u = t
      BY <1>a, <1>9, <3>1
         DEF Drop, Go, AfterClose, Closed, registryVars, Shapes, LockOK,
             Closes, Linked
    <3>2. CASE u # t
      BY <1>a, <1>9, <3>2
         DEF Drop, Go, AfterClose, Closed, registryVars, Shapes, LockOK,
             Closes, Linked
    <3> QED
      BY <3>1, <3>2
  <2>4. ASSUME NEW d \in Channels PROVE Linked(d)'
    BY <1>a, <1>9
         DEF Drop, Go, AfterClose, Closed, registryVars, Shapes, LockOK,
             Closes, Linked
  <2>5. ASSUME NEW d \in Channels PROVE Emptied(d)'
    BY <1>a, <1>9
         DEF Drop, Go, AfterClose, Closed, registryVars, Shapes, LockOK,
             Closes, Linked, Emptied
  <2>6. ASSUME NEW d \in Channels PROVE Woken(d)'
    BY <1>a, <1>9
         DEF Drop, Go, AfterClose, Closed, registryVars, Shapes, LockOK,
             Closes, Linked, Emptied, Woken
  <2> QED
    BY <2>1, <2>2, <2>3, <2>4, <2>5, <2>6 DEF Sound
<1>10. ASSUME UvClose(t) PROVE Sound'
  <2>1. Shapes'
    BY <1>a, <1>10
         DEF UvClose, Go, registryVars, Shapes, LockOK, Closes
  <2>2. LockOK'
    BY <1>a, <1>10
         DEF UvClose, Go, registryVars, Shapes, LockOK, Linked
  <2>3. ASSUME NEW u \in Threads PROVE Closes(u)'
    <3>1. CASE u = t
      BY <1>a, <1>10, <3>1
         DEF UvClose, Go, registryVars, Shapes, LockOK, Closes, Linked
    <3>2. CASE u # t
      BY <1>a, <1>10, <3>2
         DEF UvClose, Go, registryVars, Shapes, LockOK, Closes, Linked
    <3> QED
      BY <3>1, <3>2
  <2>4. ASSUME NEW d \in Channels PROVE Linked(d)'
    BY <1>a, <1>10
         DEF UvClose, Go, registryVars, Shapes, LockOK, Closes, Linked
  <2>5. ASSUME NEW d \in Channels PROVE Emptied(d)'
    BY <1>a, <1>10
         DEF UvClose, Go, registryVars, Shapes, LockOK, Closes, Linked, Emptied
  <2>6. ASSUME NEW d \in Channels PROVE Woken(d)'
    BY <1>a, <1>10
         DEF UvClose, Go, registryVars, Shapes, LockOK, Closes, Linked,
             Emptied, Woken
  <2> QED
    BY <2>1, <2>2, <2>3, <2>4, <2>5, <2>6 DEF Sound
<1>11. ASSUME NEW c \in Channels, LoopWake(t, c) PROVE Sound'
  <2>1. Shapes'
    BY <1>a, <1>11
         DEF LoopWake, Idle, Go, registryVars, Shapes, LockOK, Closes
  <2>2. LockOK'
    BY <1>a, <1>11
         DEF LoopWake, Idle, Go, registryVars, Shapes, LockOK, Linked
  <2>3. ASSUME NEW u \in Threads PROVE Closes(u)'
    <3>1. CASE u = t
      BY <1>a, <1>11, <3>1
         DEF LoopWake, Idle, Go, registryVars, Shapes, LockOK, Closes, Linked
    <3>2. CASE u # t
      BY <1>a, <1>11, <3>2
         DEF LoopWake, Idle, Go, registryVars, Shapes, LockOK, Closes, Linked
    <3> QED
      BY <3>1, <3>2
  <2>4. ASSUME NEW d \in Channels PROVE Linked(d)'
    BY <1>a, <1>11
         DEF LoopWake, Idle, Go, registryVars, Shapes, LockOK, Closes, Linked
  <2>5. ASSUME NEW d \in Channels PROVE Emptied(d)'
    BY <1>a, <1>11
         DEF LoopWake, Idle, Go, registryVars, Shapes, LockOK, Closes, Linked,
             Emptied
  <2>6. ASSUME NEW d \in Channels PROVE Woken(d)'
    BY <1>a, <1>11
         DEF LoopWake, Idle, Go, registryVars, Shapes, LockOK, Closes, Linked,
             Emptied, Woken
  <2> QED
    BY <2>1, <2>2, <2>3, <2>4, <2>5, <2>6 DEF Sound
<1>12. ASSUME Splice(t) PROVE Sound'
  <2>1. Shapes'
    BY <1>a, <1>12
         DEF Splice, Go, registryVars, Shapes, LockOK, Closes
  <2>2. LockOK'
    BY <1>a, <1>12
         DEF Splice, Go, registryVars, Shapes, LockOK, Linked
  <2>3. ASSUME NEW u \in Threads PROVE Closes(u)'
    <3>1. CASE u = t
      BY <1>a, <1>12, <3>1
         DEF Splice, Go, registryVars, Shapes, LockOK, Closes, Linked
    <3>2. CASE u # t
      BY <1>a, <1>12, <3>2
         DEF Splice, Go, registryVars, Shapes, LockOK, Closes, Linked
    <3> QED
      BY <3>1, <3>2
  <2>4. ASSUME NEW d \in Channels PROVE Linked(d)'
    BY <1>a, <1>12
         DEF Splice, Go, registryVars, Shapes, LockOK, Closes, Linked
  <2>5. ASSUME NEW d \in Channels PROVE Emptied(d)'
    BY <1>a, <1>12
         DEF Splice, Go, registryVars, Shapes, LockOK, Closes, Linked, Emptied
  <2>6. ASSUME NEW d \in Channels PROVE Woken(d)'
    BY <1>a, <1>12
         DEF Splice, Go, registryVars, Shapes, LockOK, Closes, Linked, Emptied,
             Woken
  <2> QED
    BY <2>1, <2>2, <2>3, <2>4, <2>5, <2>6 DEF Sound
<1>13. ASSUME Dispatch(t) PROVE Sound'
  <2>1. Shapes'
    BY <1>a, <1>13
         DEF Dispatch, channelVars, registryVars, Shapes
  <2> QED
    BY <1>a, <1>13, <2>1, SameSound
         DEF Dispatch, channelVars, registryVars, Shapes
<1>14. ASSUME HandlerReturn(t) PROVE Sound'
  <2>1. Shapes'
    BY <1>a, <1>14
         DEF HandlerReturn, registryVars, Shapes
  <2> QED
    BY <1>a, <1>14, <2>1, SameSound
         DEF HandlerReturn, registryVars, Shapes
<1>15. ASSUME CallbackReturn(t) PROVE Sound'
  <2>1. Shapes'
    BY <1>a, <1>15
         DEF CallbackReturn, registryVars, Shapes
  <2> QED
    BY <1>a, <1>15, <2>1, SameSound
         DEF CallbackReturn, registryVars, Shapes
<1>16. ASSUME CloseCb(t) PROVE Sound'
  <2>1. Shapes'
    BY <1>a, <1>16
         DEF CloseCb, Idle, registryVars, threadVars, Shapes, LockOK, Closes
  <2>2. LockOK'
    BY <1>a, <1>16
         DEF CloseCb, Idle, registryVars, threadVars, Shapes, LockOK, Linked
  <2>3. ASSUME NEW u \in Threads PROVE Closes(u)'
    <3>1. CASE u = t
      BY <1>a, <1>16, <3>1
         DEF CloseCb, Idle, registryVars, threadVars, Shapes, LockOK, Closes,
             Linked
    <3>2. CASE u # t
      BY <1>a, <1>16, <3>2
         DEF CloseCb, Idle, registryVars, threadVars, Shapes, LockOK, Closes,
             Linked
    <3> QED
      BY <3>1, <3>2
  <2>4. ASSUME NEW d \in Channels PROVE Linked(d)'
    BY <1>a, <1>16
         DEF CloseCb, Idle, registryVars, threadVars, Shapes, LockOK, Closes,
             Linked
  <2>5. ASSUME NEW d \in Channels PROVE Emptied(d)'
    BY <1>a, <1>16
         DEF CloseCb, Idle, registryVars, threadVars, Shapes, LockOK, Closes,
             Linked, Emptied
  <2>6. ASSUME NEW d \in Channels PROVE Woken(d)'
    BY <1>a, <1>16
         DEF CloseCb, Idle, registryVars, threadVars, Shapes, LockOK, Closes,
             Linked, Emptied, Woken
  <2> QED
    BY <2>1, <2>2, <2>3, <2>4, <2>5, <2>6 DEF Sound
<1>17. ASSUME FreeEngine(t) PROVE Sound'
  <2>1. Shapes'
    BY <1>a, <1>17
         DEF FreeEngine, channelVars, registryVars, Shapes
  <2> QED
    BY <1>a, <1>17, <2>1, SameSound
         DEF FreeEngine, channelVars, registryVars, Shapes
<1>18. ASSUME LoopClosed(t) PROVE Sound'
  <2>1. Shapes'
    BY <1>a, <1>18
         DEF LoopClosed, channelVars, registryVars, Shapes
  <2> QED
    BY <1>a, <1>18, <2>1, SameSound
         DEF LoopClosed, channelVars, registryVars, Shapes
<1> QED
  BY <1>1, <1>2, <1>3, <1>4, <1>5, <1>6, <1>7, <1>8, <1>9,
     <1>10, <1>11, <1>12, <1>13, <1>14, <1>15, <1>16, <1>17, <1>18
     DEF Script, Step, Loop

\* A step of the specification is a step of a thread, or changes nothing.
LEMMA NextSound == Sound /\ [Next]_vars => Sound'
<1> SUFFICES ASSUME Sound, [Next]_vars PROVE Sound'
  OBVIOUS
<1>1. CASE Next
  BY <1>1, StepSound DEF Next
<1>2. CASE UNCHANGED vars
  <2>1. Shapes'
    BY <1>2 DEF vars, channelVars, registryVars, threadVars, Sound, Shapes
  <2> QED
    BY <1>2, <2>1, SameSound DEF vars, channelVars, registryVars, threadVars
<1> QED
  BY <1>1, <1>2

\* The structure holds.
LEMMA AlwaysSound == Spec => []Sound
BY InitSound, NextSound, PTL DEF Spec

----------------------------------------------------------------------------
(* What follows from it.                                                   *)

\* Whatever threads close and free their channels meanwhile, a post touches only
\* channels that are allocated and wakes only handles that are not closed.
THEOREM PostsReachLiveChannels == Spec => []TargetsAlive
<1>1. Sound => TargetsAlive
  <2> SUFFICES ASSUME Sound,
                      NEW c \in bc_list \cup rest \cup ({sending} \ {None})
               PROVE  async[c] = "active"
    BY DEF TargetsAlive
  <2>1. c \in bc_list
    BY DEF Sound, LockOK
  <2> QED
    BY <2>1 DEF Sound, Shapes, Linked
<1> QED
  BY <1>1, AlwaysSound, PTL

\* After its close has unlinked and emptied it, no post puts a message into the
\* inbox of a channel, even one that read its closed flag too early.
THEOREM ClosedGetNothing == Spec => []ClosedStaysEmpty
<1>1. Sound => ClosedStaysEmpty
  BY DEF Sound, Emptied, ClosedStaysEmpty
<1> QED
  BY <1>1, AlwaysSound, PTL

\* No message stays in the inbox of an open channel whose loop is not going to
\* run its callback, although sends of one async are merged.
THEOREM WakeupsArrive == Spec => []NoLostWakeup
<1>1. Sound => NoLostWakeup
  BY DEF Sound, Shapes, Woken, Open, NoLostWakeup
<1> QED
  BY <1>1, AlwaysSound, PTL

\* However the threads interleave, a post meets only live channels, a closed one is owed
\* nothing, and what waits in an inbox is on its way (mod_channel.c:932-960).
THEOREM PostsSound == Spec => []Posts
BY PostsReachLiveChannels, ClosedGetNothing, WakeupsArrive, PTL DEF Posts

----------------------------------------------------------------------------
(* Rising sequences of numbers.                                            *)

Rising(s) == \A i, j \in DOMAIN s : i < j => s[i] < s[j]
Elements(s) == {s[i] : i \in DOMAIN s}

\* A larger number at the end.
LEMMA RisingAppend ==
  ASSUME NEW s \in Seq(Nat), NEW n \in Nat, Rising(s),
         \A i \in Elements(s) : i < n
  PROVE  Rising(s \o <<n>>) /\ Elements(s \o <<n>>) = Elements(s) \cup {n}
<1> DEFINE r == s \o <<n>>
<1>1. /\ <<n>> \in Seq(Nat) /\ Len(<<n>>) = 1 /\ <<n>>[1] = n
  OBVIOUS
<1>2. /\ r \in Seq(Nat) /\ Len(r) = Len(s) + 1
      /\ \A i \in 1 .. Len(s) + 1 :
           r[i] = IF i <= Len(s) THEN s[i] ELSE <<n>>[i - Len(s)]
  BY <1>1, ConcatProperties, Zenon
<1>3. DOMAIN s = 1 .. Len(s) /\ DOMAIN r = 1 .. Len(s) + 1 /\ Len(s) \in Nat
  BY <1>2, LenProperties
<1>4. \A i \in DOMAIN s : i \in DOMAIN r /\ r[i] = s[i] /\ s[i] < n /\ s[i] \in Nat
  BY <1>2, <1>3 DEF Elements
<1>5. Len(s) + 1 \in DOMAIN r /\ r[Len(s) + 1] = n
  BY <1>1, <1>2, <1>3
<1>6. \A i \in DOMAIN r : i \in DOMAIN s \/ i = Len(s) + 1
  BY <1>3
<1> HIDE DEF r
<1>7. Rising(r)
  <2> SUFFICES ASSUME NEW i \in DOMAIN r, NEW j \in DOMAIN r, i < j
               PROVE  r[i] < r[j]
    BY DEF Rising
  <2>1. i \in DOMAIN s
    BY <1>3, <1>6
  <2>2. CASE j \in DOMAIN s
    BY <1>4, <2>1, <2>2 DEF Rising
  <2>3. CASE j = Len(s) + 1
    BY <1>4, <1>5, <2>1, <2>3
  <2> QED
    BY <1>6, <2>2, <2>3
<1>8. Elements(r) = Elements(s) \cup {n}
  BY <1>4, <1>5, <1>6 DEF Elements
<1> QED
  BY <1>7, <1>8 DEF r

\* Without the first, which is the least.
LEMMA RisingTail ==
  ASSUME NEW s \in Seq(Nat), s # <<>>, Rising(s)
  PROVE  /\ Rising(Tail(s))
         /\ Head(s) \in Elements(s)
         /\ \A e \in Elements(s) : Head(s) <= e
         /\ Elements(Tail(s)) = {e \in Elements(s) : e > Head(s)}
<1> DEFINE r == Tail(s)
<1>1. Len(s) \in Nat \ {0} /\ DOMAIN s = 1 .. Len(s) /\ Head(s) = s[1]
  BY EmptySeq, LenProperties
<1>2. /\ r \in Seq(Nat) /\ Len(r) = Len(s) - 1
      /\ \A i \in 1 .. Len(s) - 1 : r[i] = s[i + 1]
  BY HeadTailProperties
<1>3. DOMAIN r = 1 .. Len(s) - 1
  BY <1>2, LenProperties
<1>4. \A i \in DOMAIN s : s[i] \in Nat
  BY <1>1
<1>5. \A i \in DOMAIN r : i + 1 \in DOMAIN s /\ r[i] = s[i + 1] /\ s[1] < r[i]
  BY <1>1, <1>2, <1>3 DEF Rising
<1>6. \A i \in DOMAIN s : i = 1 \/ (i - 1 \in DOMAIN r /\ s[i] = r[i - 1])
  BY <1>1, <1>2, <1>3
<1> HIDE DEF r
<1>7. Rising(r)
  BY <1>1, <1>3, <1>5 DEF Rising
<1>8. \A e \in Elements(s) : e = s[1] \/ e \in Elements(r)
  BY <1>6 DEF Elements
<1>9. \A e \in Elements(r) : e \in Elements(s) /\ e > s[1]
  BY <1>1, <1>4, <1>5 DEF Elements
<1>10. s[1] \in Elements(s) /\ s[1] \in Nat
  BY <1>1, <1>4 DEF Elements
<1>11. \A e \in Elements(s) : e \in Nat
  BY <1>4 DEF Elements
<1>12. Elements(r) = {e \in Elements(s) : e > s[1]}
  BY <1>8, <1>9, <1>10
<1>13. \A e \in Elements(s) : s[1] <= e
  BY <1>8, <1>9, <1>10, <1>11
<1> QED
  BY <1>1, <1>7, <1>10, <1>12, <1>13 DEF r

\* The first of a concatenation is the first of its first part.
LEMMA ConcatTail ==
  ASSUME NEW s \in Seq(Nat), NEW r \in Seq(Nat), s # <<>>
  PROVE  /\ s \o r # <<>> /\ Head(s \o r) = Head(s)
         /\ Tail(s \o r) = Tail(s) \o r
<1>1. /\ s \o r \in Seq(Nat) /\ Len(s \o r) = Len(s) + Len(r)
      /\ \A i \in 1 .. Len(s) + Len(r) :
           (s \o r)[i] = IF i <= Len(s) THEN s[i] ELSE r[i - Len(s)]
  BY ConcatProperties
<1>2. Len(s) \in Nat \ {0} /\ Len(r) \in Nat
  BY EmptySeq, LenProperties
<1>3. s \o r # <<>>
  BY <1>1, <1>2
<1>4. /\ Tail(s) \in Seq(Nat) /\ Len(Tail(s)) = Len(s) - 1
      /\ \A i \in 1 .. Len(s) - 1 : Tail(s)[i] = s[i + 1]
  BY HeadTailProperties
<1>5. /\ Tail(s \o r) \in Seq(Nat) /\ Len(Tail(s \o r)) = Len(s) + Len(r) - 1
      /\ \A i \in 1 .. Len(s) + Len(r) - 1 : Tail(s \o r)[i] = (s \o r)[i + 1]
  BY <1>1, <1>3, HeadTailProperties
<1>6. /\ Tail(s) \o r \in Seq(Nat) /\ Len(Tail(s) \o r) = Len(s) - 1 + Len(r)
      /\ \A i \in 1 .. Len(s) - 1 + Len(r) :
           (Tail(s) \o r)[i] = IF i <= Len(s) - 1 THEN Tail(s)[i] ELSE r[i - (Len(s) - 1)]
  BY <1>4, ConcatProperties
<1>7. \A i \in 1 .. Len(s) + Len(r) - 1 : Tail(s \o r)[i] = (Tail(s) \o r)[i]
  <2> SUFFICES ASSUME NEW i \in 1 .. Len(s) + Len(r) - 1
               PROVE  Tail(s \o r)[i] = (Tail(s) \o r)[i]
    OBVIOUS
  <2> DEFINE n == Len(s)
             m == Len(r)
  <2>1. n \in Nat \ {0} /\ m \in Nat /\ i \in 1 .. n + m - 1
    BY <1>2
  <2>2. Tail(s \o r)[i] = IF i + 1 <= n THEN s[i + 1] ELSE r[i + 1 - n]
    <3>1. i + 1 \in 1 .. n + m
      BY <2>1
    <3> QED
      BY <1>1, <1>5, <2>1, <3>1
  <2>3. (Tail(s) \o r)[i] = IF i <= n - 1 THEN Tail(s)[i] ELSE r[i - (n - 1)]
    BY <1>6, <2>1
  <2>4. CASE i + 1 <= n
    BY <1>4, <2>1, <2>2, <2>3, <2>4
  <2>5. CASE ~(i + 1 <= n)
    <3>1. i + 1 - n = i - (n - 1) /\ ~(i <= n - 1)
      BY <2>1, <2>5
    <3> QED
      BY <2>2, <2>3, <2>5, <3>1
  <2> QED
    BY <2>4, <2>5
<1>8. Tail(s \o r) = Tail(s) \o r
  <2>1. Len(Tail(s \o r)) = Len(Tail(s) \o r)
    BY <1>2, <1>5, <1>6
  <2> QED
    BY <1>5, <1>6, <1>7, <2>1, SeqEqual
<1>9. Head(s \o r) = Head(s)
  BY <1>1, <1>2, <1>3
<1> QED
  BY <1>3, <1>8, <1>9

----------------------------------------------------------------------------
(***************************************************************************)
(* The invariant: what is owed to an open channel, and what the order of   *)
(* its pieces rests on.                                                    *)
(***************************************************************************)

\* The parts of Stream(c): what is left of the batch, and the copy to come.
Taken(c) == IF cur[home[c]] = c /\ busy[home[c]] THEN Tail(batch[c]) ELSE batch[c]
Owed(c) == IF c \in rest /\ Subscribed(c, arg[lock]) THEN <<Len(log)>> ELSE <<>>

Typed ==
  /\ inbox \in [Channels -> Seq(Nat)] /\ batch \in [Channels -> Seq(Nat)]
  /\ pos \in [Channels -> Nat]
  /\ log \in Seq([from : Channels, name : Names \cup {None}])
  /\ name \in [Channels -> Names \cup {None}]
  /\ busy \in [Threads -> BOOLEAN]

\* A callback takes a batch when the last one is used up, and handlers run on one.
Working(t) ==
  /\ cur[t] # None => home[cur[t]] = t /\ async[cur[t]] # "none"
  /\ busy[t] => cur[t] # None /\ batch[cur[t]] # <<>> /\ at[t] # "splice"
  /\ at[t] = "splice" => cur[t] # None /\ batch[cur[t]] = <<>>

\* A channel has a batch only in its callback, and is in the list until it is closed;
\* it was given nothing that is not in the log.
Held(c) ==
  /\ async[c] = "none" => name[c] = None
  /\ batch[c] # <<>> => home[c] \in Threads /\ cur[home[c]] = c
  /\ async[c] # "none" /\ ~closed[c] => c \in bc_list
  /\ pos[c] <= Len(log)

\* Exact, for one channel.
Owes(c) ==
  /\ Rising(Stream(c))
  /\ Elements(Stream(c)) = {i \in For(c) : i > pos[c]}

Data ==
  /\ Typed
  /\ \A t \in Threads : Working(t)
  /\ \A c \in Channels : Held(c)
  /\ \A c \in Open : Owes(c)

----------------------------------------------------------------------------
(* What a step has to leave alone.                                         *)

\* What a channel has taken, has before it and is owed.
LEMMA StreamParts ==
  ASSUME NEW c
  PROVE  Stream(c) = Taken(c) \o inbox[c] \o Owed(c)
BY DEF Stream, Taken, Owed

\* The parts are sequences of numbers.
LEMMA PartsTyped ==
  ASSUME Sound, Data, NEW c \in Open
  PROVE  /\ c \in Channels /\ home[c] \in Threads /\ async[c] = "active"
         /\ Taken(c) \in Seq(Nat) /\ inbox[c] \in Seq(Nat) /\ Owed(c) \in Seq(Nat)
         /\ Stream(c) \in Seq(Nat)
<1>0. c \in Channels /\ home[c] \in Threads /\ async[c] = "active"
  BY DEF Open, Sound, Shapes, Linked
<1>1. Taken(c) \in Seq(Nat)
  <2>1. CASE cur[home[c]] = c /\ busy[home[c]]
    <3>1. batch[c] # <<>>
      BY <1>0, <2>1 DEF Data, Working
    <3> QED
      BY <1>0, <2>1, <3>1, HeadTailProperties DEF Data, Typed, Taken
  <2>2. CASE ~(cur[home[c]] = c /\ busy[home[c]])
    BY <1>0, <2>2 DEF Data, Typed, Taken
  <2> QED
    BY <2>1, <2>2
<1>2. inbox[c] \in Seq(Nat)
  BY <1>0 DEF Data, Typed
<1>3. Owed(c) \in Seq(Nat)
  <2>1. Len(log) \in Nat
    BY LenProperties DEF Data, Typed
  <2> QED
    BY <2>1 DEF Owed
<1> QED
  BY <1>0, <1>1, <1>2, <1>3, ConcatProperties, StreamParts, Zenon

\* The copy to come, unless a post begins or the walk reaches the channel.
LEMMA SameOwed ==
  ASSUME Sound, NEW c \in Channels, log' = log, name' = name, rest' = rest,
         lock' = lock \/ rest = {},
         \A t \in Threads : at[t] = "walk" => arg'[t] = arg[t]
  PROVE  Owed(c)' = Owed(c)
<1>1. CASE c \in rest
  <2>1. lock \in Threads /\ at[lock] = "walk" /\ lock' = lock
    BY <1>1 DEF Sound, Shapes, LockOK
  <2>2. arg'[lock'] = arg[lock]
    BY <2>1
  <2> QED
    BY <2>2 DEF Owed, Subscribed
<1>2. CASE c \notin rest
  BY <1>2 DEF Owed
<1> QED
  BY <1>1, <1>2

\* What is owed, if the parts together, the log and the position are the same.
LEMMA SameOwes ==
  ASSUME NEW c \in Channels, Owes(c), log' = log, name'[c] = name[c],
         pos'[c] = pos[c], Stream(c)' = Stream(c)
  PROVE  Owes(c)'
<1>1. For(c)' = For(c)
  BY DEF For
<1> QED
  BY <1>1 DEF Owes

\* The same, part by part.
LEMMA SameParts ==
  ASSUME NEW c \in Channels, Owes(c), log' = log, name'[c] = name[c],
         pos'[c] = pos[c], Taken(c)' = Taken(c), inbox'[c] = inbox[c],
         Owed(c)' = Owed(c)
  PROVE  Owes(c)'
<1>1. Stream(c)' = (Taken(c) \o inbox[c] \o Owed(c))'
  BY DEF Stream, Taken, Owed
<1>2. Stream(c)' = Stream(c)
  BY <1>1, StreamParts
<1> QED
  BY <1>2, SameOwes

\* Steps that leave to each open channel what it is owed.
LEMMA SameData ==
  ASSUME Sound, Data, log' = log, name' = name, pos' = pos, rest' = rest,
         lock' = lock \/ rest = {},
         \A t \in Threads : at[t] = "walk" => arg'[t] = arg[t],
         \A c \in Open' : c \in Open /\ inbox'[c] = inbox[c] /\ Taken(c)' = Taken(c),
         Typed',
         \A t \in Threads : Working(t)',
         \A c \in Channels : Held(c)',
         Open \subseteq Channels
  PROVE  Data'
<1>1. ASSUME NEW c \in Open' PROVE Owes(c)'
  <2>1. c \in Channels /\ Owes(c) /\ inbox'[c] = inbox[c] /\ Taken(c)' = Taken(c)
    BY <1>1 DEF Data
  <2>2. Owed(c)' = Owed(c)
    BY <2>1, SameOwed
  <2> QED
    BY <2>1, <2>2, SameParts
<1> QED
  BY <1>1 DEF Data
----------------------------------------------------------------------------
\* The invariant holds at first.
LEMMA InitData == Init => Data
BY BroadcastAssumption
   DEF Init, Data, Typed, Working, Held, Open

\* Most steps leave to each channel what it is owed.
LEMMA QuietData ==
  ASSUME Sound, Data, NEW t \in Threads,
         \/ \E c \in Channels : Close(t, c) \/ Finalize(t, c) \/ LoopWake(t, c)
         \/ Send(t) \/ Unlock(t) \/ Unlink(t) \/ Drop(t) \/ UvClose(t)
         \/ HandlerReturn(t) \/ CallbackReturn(t)
         \/ CloseCb(t) \/ FreeEngine(t) \/ LoopClosed(t)
  PROVE  Data'
<1> USE BroadcastAssumption
<1>a. /\ Shapes /\ LockOK
      /\ \A u \in Threads : Closes(u)
      /\ \A d \in Channels : Linked(d)
  BY DEF Sound
<1>b. /\ Typed
      /\ \A u \in Threads : Working(u)
      /\ \A d \in Channels : Held(d)
      /\ Open \subseteq Channels
  BY <1>a DEF Data, Shapes, Open
<1>1. ASSUME NEW c \in Channels, Close(t, c) PROVE Data'
  <2>1. Typed'
    BY <1>a, <1>b, <1>1
         DEF Close, Calling, Scripting, Go, FirstOfClose, AfterClose, registryVars,
             Shapes, Typed, Working
  <2>2. ASSUME NEW u \in Threads PROVE Working(u)'
    <3>1. CASE u = t
      BY <1>a, <1>b, <1>1, <3>1
           DEF Close, Calling, Scripting, Go, FirstOfClose, AfterClose,
               registryVars, Shapes, Closes, Working, Typed, Held
    <3>2. CASE u # t
      BY <1>a, <1>b, <1>1, <3>2
           DEF Close, Calling, Scripting, Go, FirstOfClose, AfterClose,
               registryVars, Shapes, Closes, Working, Typed, Held
    <3> QED
      BY <3>1, <3>2
  <2>3. ASSUME NEW e \in Channels PROVE Held(e)'
    BY <1>a, <1>b, <1>1
         DEF Close, Calling, Scripting, Go, FirstOfClose, AfterClose, registryVars,
             Shapes, Closes, Linked, Working, Held, Typed
  <2>4. ASSUME NEW e \in Open'
        PROVE  e \in Open /\ inbox'[e] = inbox[e] /\ Taken(e)' = Taken(e)
    BY <1>a, <1>b, <1>1
         DEF Close, Calling, Scripting, Go, FirstOfClose, AfterClose, registryVars,
             Shapes, LockOK, Closes, Linked, Working, Held, Typed, Open, Taken
  <2>5. \A u \in Threads : at[u] = "walk" => arg'[u] = arg[u]
    BY <1>a, <1>b, <1>1
         DEF Close, Calling, Scripting, Go, FirstOfClose, AfterClose, registryVars,
             Shapes
  <2> QED
    BY <1>a, <1>b, <1>1, <2>1, <2>2, <2>3, <2>4, <2>5, SameData
         DEF Close, Calling, Scripting, Go, FirstOfClose, AfterClose, registryVars
<1>2. ASSUME NEW c \in Channels, Finalize(t, c) PROVE Data'
  <2>1. Typed'
    BY <1>a, <1>b, <1>2
         DEF Finalize, Scripting, Go, FirstOfClose, AfterClose, registryVars,
             Shapes, Typed, Working
  <2>2. ASSUME NEW u \in Threads PROVE Working(u)'
    <3>1. CASE u = t
      BY <1>a, <1>b, <1>2, <3>1
           DEF Finalize, Scripting, Go, FirstOfClose, AfterClose, registryVars,
               Shapes, Closes, Working, Typed, Held
    <3>2. CASE u # t
      BY <1>a, <1>b, <1>2, <3>2
           DEF Finalize, Scripting, Go, FirstOfClose, AfterClose, registryVars,
               Shapes, Closes, Working, Typed, Held
    <3> QED
      BY <3>1, <3>2
  <2>3. ASSUME NEW e \in Channels PROVE Held(e)'
    BY <1>a, <1>b, <1>2
         DEF Finalize, Scripting, Go, FirstOfClose, AfterClose, registryVars,
             Shapes, Closes, Linked, Working, Held, Typed
  <2>4. ASSUME NEW e \in Open'
        PROVE  e \in Open /\ inbox'[e] = inbox[e] /\ Taken(e)' = Taken(e)
    BY <1>a, <1>b, <1>2
         DEF Finalize, Scripting, Go, FirstOfClose, AfterClose, registryVars,
             Shapes, LockOK, Closes, Linked, Working, Held, Typed, Open, Taken
  <2>5. \A u \in Threads : at[u] = "walk" => arg'[u] = arg[u]
    BY <1>a, <1>b, <1>2
         DEF Finalize, Scripting, Go, FirstOfClose, AfterClose, registryVars, Shapes
  <2> QED
    BY <1>a, <1>b, <1>2, <2>1, <2>2, <2>3, <2>4, <2>5, SameData
         DEF Finalize, Scripting, Go, FirstOfClose, AfterClose, registryVars
<1>3. ASSUME NEW c \in Channels, LoopWake(t, c) PROVE Data'
  <2>1. Typed'
    BY <1>a, <1>b, <1>3 DEF LoopWake, Idle, Go, registryVars, Shapes, Typed, Working
  <2>2. ASSUME NEW u \in Threads PROVE Working(u)'
    <3>1. CASE u = t
      BY <1>a, <1>b, <1>3, <3>1
           DEF LoopWake, Idle, Go, registryVars, Shapes, Closes, Working, Typed,
               Held
    <3>2. CASE u # t
      BY <1>a, <1>b, <1>3, <3>2
           DEF LoopWake, Idle, Go, registryVars, Shapes, Closes, Working, Typed,
               Held
    <3> QED
      BY <3>1, <3>2
  <2>3. ASSUME NEW e \in Channels PROVE Held(e)'
    BY <1>a, <1>b, <1>3
         DEF LoopWake, Idle, Go, registryVars, Shapes, Closes, Linked, Working,
             Held, Typed
  <2>4. ASSUME NEW e \in Open'
        PROVE  e \in Open /\ inbox'[e] = inbox[e] /\ Taken(e)' = Taken(e)
    BY <1>a, <1>b, <1>3
         DEF LoopWake, Idle, Go, registryVars, Shapes, LockOK, Closes, Linked,
             Working, Held, Typed, Open, Taken
  <2>5. \A u \in Threads : at[u] = "walk" => arg'[u] = arg[u]
    BY <1>a, <1>b, <1>3 DEF LoopWake, Idle, Go, registryVars, Shapes
  <2> QED
    BY <1>a, <1>b, <1>3, <2>1, <2>2, <2>3, <2>4, <2>5, SameData
         DEF LoopWake, Idle, Go, registryVars
<1>4. ASSUME Send(t) PROVE Data'
  <2>1. Typed'
    BY <1>a, <1>b, <1>4 DEF Send, Wake, threadVars, Shapes, Typed, Working
  <2>2. ASSUME NEW u \in Threads PROVE Working(u)'
    <3>1. CASE u = t
      BY <1>a, <1>b, <1>4, <3>1
           DEF Send, Wake, threadVars, Shapes, Closes, Working, Typed, Held
    <3>2. CASE u # t
      BY <1>a, <1>b, <1>4, <3>2
           DEF Send, Wake, threadVars, Shapes, Closes, Working, Typed, Held
    <3> QED
      BY <3>1, <3>2
  <2>3. ASSUME NEW e \in Channels PROVE Held(e)'
    BY <1>a, <1>b, <1>4
         DEF Send, Wake, threadVars, Shapes, Closes, Linked, Working, Held, Typed
  <2>4. ASSUME NEW e \in Open'
        PROVE  e \in Open /\ inbox'[e] = inbox[e] /\ Taken(e)' = Taken(e)
    BY <1>a, <1>b, <1>4
         DEF Send, Wake, threadVars, Shapes, LockOK, Closes, Linked, Working, Held,
             Typed, Open, Taken
  <2>5. \A u \in Threads : at[u] = "walk" => arg'[u] = arg[u]
    BY <1>a, <1>b, <1>4 DEF Send, Wake, threadVars, Shapes
  <2> QED
    BY <1>a, <1>b, <1>4, <2>1, <2>2, <2>3, <2>4, <2>5, SameData
         DEF Send, Wake, threadVars
<1>5. ASSUME Unlock(t) PROVE Data'
  <2>1. Typed'
    BY <1>a, <1>b, <1>5 DEF Unlock, Go, channelVars, Shapes, Typed, Working
  <2>2. ASSUME NEW u \in Threads PROVE Working(u)'
    <3>1. CASE u = t
      BY <1>a, <1>b, <1>5, <3>1
           DEF Unlock, Go, channelVars, Shapes, Closes, Working, Typed, Held
    <3>2. CASE u # t
      BY <1>a, <1>b, <1>5, <3>2
           DEF Unlock, Go, channelVars, Shapes, Closes, Working, Typed, Held
    <3> QED
      BY <3>1, <3>2
  <2>3. ASSUME NEW e \in Channels PROVE Held(e)'
    BY <1>a, <1>b, <1>5
         DEF Unlock, Go, channelVars, Shapes, Closes, Linked, Working, Held, Typed
  <2>4. ASSUME NEW e \in Open'
        PROVE  e \in Open /\ inbox'[e] = inbox[e] /\ Taken(e)' = Taken(e)
    BY <1>a, <1>b, <1>5
         DEF Unlock, Go, channelVars, Shapes, LockOK, Closes, Linked, Working, Held,
             Typed, Open, Taken
  <2>5. \A u \in Threads : at[u] = "walk" => arg'[u] = arg[u]
    BY <1>a, <1>b, <1>5 DEF Unlock, Go, channelVars, Shapes
  <2> QED
    BY <1>a, <1>b, <1>5, <2>1, <2>2, <2>3, <2>4, <2>5, SameData
         DEF Unlock, Go, channelVars
<1>6. ASSUME Unlink(t) PROVE Data'
  <2>1. Typed'
    BY <1>a, <1>b, <1>6
         DEF Unlink, Go, AfterClose, Closed, LockFree, channelVars, Shapes, Typed,
             Working
  <2>2. ASSUME NEW u \in Threads PROVE Working(u)'
    <3>1. CASE u = t
      BY <1>a, <1>b, <1>6, <3>1
           DEF Unlink, Go, AfterClose, Closed, LockFree, channelVars, Shapes,
               Closes, Working, Typed, Held
    <3>2. CASE u # t
      BY <1>a, <1>b, <1>6, <3>2
           DEF Unlink, Go, AfterClose, Closed, LockFree, channelVars, Shapes,
               Closes, Working, Typed, Held
    <3> QED
      BY <3>1, <3>2
  <2>3. ASSUME NEW e \in Channels PROVE Held(e)'
    BY <1>a, <1>b, <1>6
         DEF Unlink, Go, AfterClose, Closed, LockFree, channelVars, Shapes, Closes,
             Linked, Working, Held, Typed
  <2>4. ASSUME NEW e \in Open'
        PROVE  e \in Open /\ inbox'[e] = inbox[e] /\ Taken(e)' = Taken(e)
    BY <1>a, <1>b, <1>6
         DEF Unlink, Go, AfterClose, Closed, LockFree, channelVars, Shapes, LockOK,
             Closes, Linked, Working, Held, Typed, Open, Taken
  <2>5. \A u \in Threads : at[u] = "walk" => arg'[u] = arg[u]
    BY <1>a, <1>b, <1>6
         DEF Unlink, Go, AfterClose, Closed, LockFree, channelVars, Shapes
  <2> QED
    BY <1>a, <1>b, <1>6, <2>1, <2>2, <2>3, <2>4, <2>5, SameData
         DEF Unlink, Go, AfterClose, Closed, LockFree, channelVars
<1>7. ASSUME Drop(t) PROVE Data'
  <2>1. Typed'
    <3>1. inbox \in [Channels -> Seq(Nat)] /\ inbox' = [inbox EXCEPT ![arg[t]] = <<>>]
      BY <1>a, <1>b, <1>7 DEF Drop, Typed
    <3>2. inbox' \in [Channels -> Seq(Nat)]
      BY <3>1, EmptySeq
    <3> QED
      BY <1>b, <1>7, <3>2 DEF Drop, Go, AfterClose, Closed, registryVars, Typed
  <2>2. ASSUME NEW u \in Threads PROVE Working(u)'
    <3>1. CASE u = t
      BY <1>a, <1>b, <1>7, <3>1
           DEF Drop, Go, AfterClose, Closed, registryVars, Shapes, Closes, Working,
               Typed, Held
    <3>2. CASE u # t
      BY <1>a, <1>b, <1>7, <3>2
           DEF Drop, Go, AfterClose, Closed, registryVars, Shapes, Closes, Working,
               Typed, Held
    <3> QED
      BY <3>1, <3>2
  <2>3. ASSUME NEW e \in Channels PROVE Held(e)'
    BY <1>a, <1>b, <1>7
         DEF Drop, Go, AfterClose, Closed, registryVars, Shapes, Closes, Linked,
             Working, Held, Typed
  <2>4. ASSUME NEW e \in Open'
        PROVE  e \in Open /\ inbox'[e] = inbox[e] /\ Taken(e)' = Taken(e)
    BY <1>a, <1>b, <1>7
         DEF Drop, Go, AfterClose, Closed, registryVars, Shapes, LockOK, Closes,
             Linked, Working, Held, Typed, Open, Taken
  <2>5. \A u \in Threads : at[u] = "walk" => arg'[u] = arg[u]
    BY <1>a, <1>b, <1>7 DEF Drop, Go, AfterClose, Closed, registryVars, Shapes
  <2> QED
    BY <1>a, <1>b, <1>7, <2>1, <2>2, <2>3, <2>4, <2>5, SameData
         DEF Drop, Go, AfterClose, Closed, registryVars
<1>8. ASSUME UvClose(t) PROVE Data'
  <2>1. Typed'
    BY <1>a, <1>b, <1>8 DEF UvClose, Go, registryVars, Shapes, Typed, Working
  <2>2. ASSUME NEW u \in Threads PROVE Working(u)'
    <3>1. CASE u = t
      BY <1>a, <1>b, <1>8, <3>1
           DEF UvClose, Go, registryVars, Shapes, Closes, Working, Typed, Held
    <3>2. CASE u # t
      BY <1>a, <1>b, <1>8, <3>2
           DEF UvClose, Go, registryVars, Shapes, Closes, Working, Typed, Held
    <3> QED
      BY <3>1, <3>2
  <2>3. ASSUME NEW e \in Channels PROVE Held(e)'
    BY <1>a, <1>b, <1>8
         DEF UvClose, Go, registryVars, Shapes, Closes, Linked, Working, Held, Typed
  <2>4. ASSUME NEW e \in Open'
        PROVE  e \in Open /\ inbox'[e] = inbox[e] /\ Taken(e)' = Taken(e)
    BY <1>a, <1>b, <1>8
         DEF UvClose, Go, registryVars, Shapes, LockOK, Closes, Linked, Working,
             Held, Typed, Open, Taken
  <2>5. \A u \in Threads : at[u] = "walk" => arg'[u] = arg[u]
    BY <1>a, <1>b, <1>8 DEF UvClose, Go, registryVars, Shapes
  <2> QED
    BY <1>a, <1>b, <1>8, <2>1, <2>2, <2>3, <2>4, <2>5, SameData
         DEF UvClose, Go, registryVars
<1>9. ASSUME HandlerReturn(t) PROVE Data'
  <2>1. Typed'
    <3>1. cur[t] \in Channels /\ batch[cur[t]] \in Seq(Nat) /\ batch[cur[t]] # <<>>
      BY <1>a, <1>b, <1>9 DEF HandlerReturn, Shapes, Typed, Working
    <3>2. Tail(batch[cur[t]]) \in Seq(Nat)
      BY <3>1, HeadTailProperties
    <3>3. /\ batch \in [Channels -> Seq(Nat)]
          /\ batch' = [batch EXCEPT ![cur[t]] = Tail(batch[cur[t]])]
      BY <1>a, <1>b, <1>9 DEF HandlerReturn, Typed
    <3>4. batch' \in [Channels -> Seq(Nat)]
      BY <3>1, <3>2, <3>3
    <3> QED
      BY <1>b, <1>9, <3>4 DEF HandlerReturn, registryVars, Typed
  <2>2. ASSUME NEW u \in Threads PROVE Working(u)'
    <3>1. CASE u = t
      BY <1>a, <1>b, <1>9, <3>1
           DEF HandlerReturn, registryVars, Shapes, Closes, Working, Typed, Held
    <3>2. CASE u # t
      BY <1>a, <1>b, <1>9, <3>2
           DEF HandlerReturn, registryVars, Shapes, Closes, Working, Typed, Held
    <3> QED
      BY <3>1, <3>2
  <2>3. ASSUME NEW e \in Channels PROVE Held(e)'
    BY <1>a, <1>b, <1>9
         DEF HandlerReturn, registryVars, Shapes, Closes, Linked, Working, Held,
             Typed
  <2>4. ASSUME NEW e \in Open'
        PROVE  e \in Open /\ inbox'[e] = inbox[e] /\ Taken(e)' = Taken(e)
    BY <1>a, <1>b, <1>9
         DEF HandlerReturn, registryVars, Shapes, LockOK, Closes, Linked, Working,
             Held, Typed, Open, Taken
  <2>5. \A u \in Threads : at[u] = "walk" => arg'[u] = arg[u]
    BY <1>a, <1>b, <1>9 DEF HandlerReturn, registryVars, Shapes
  <2> QED
    BY <1>a, <1>b, <1>9, <2>1, <2>2, <2>3, <2>4, <2>5, SameData
         DEF HandlerReturn, registryVars
<1>10. ASSUME CallbackReturn(t) PROVE Data'
  <2>1. Typed'
    BY <1>a, <1>b, <1>10 DEF CallbackReturn, registryVars, Shapes, Typed, Working
  <2>2. ASSUME NEW u \in Threads PROVE Working(u)'
    <3>1. CASE u = t
      BY <1>a, <1>b, <1>10, <3>1
           DEF CallbackReturn, registryVars, Shapes, Closes, Working, Typed, Held
    <3>2. CASE u # t
      BY <1>a, <1>b, <1>10, <3>2
           DEF CallbackReturn, registryVars, Shapes, Closes, Working, Typed, Held
    <3> QED
      BY <3>1, <3>2
  <2>3. ASSUME NEW e \in Channels PROVE Held(e)'
    BY <1>a, <1>b, <1>10
         DEF CallbackReturn, registryVars, Shapes, Closes, Linked, Working, Held,
             Typed
  <2>4. ASSUME NEW e \in Open'
        PROVE  e \in Open /\ inbox'[e] = inbox[e] /\ Taken(e)' = Taken(e)
    BY <1>a, <1>b, <1>10
         DEF CallbackReturn, registryVars, Shapes, LockOK, Closes, Linked, Working,
             Held, Typed, Open, Taken
  <2>5. \A u \in Threads : at[u] = "walk" => arg'[u] = arg[u]
    BY <1>a, <1>b, <1>10 DEF CallbackReturn, registryVars, Shapes
  <2> QED
    BY <1>a, <1>b, <1>10, <2>1, <2>2, <2>3, <2>4, <2>5, SameData
         DEF CallbackReturn, registryVars
<1>11. ASSUME CloseCb(t) PROVE Data'
  <2>1. Typed'
    BY <1>a, <1>b, <1>11
         DEF CloseCb, Idle, registryVars, threadVars, Shapes, Typed, Working
  <2>2. ASSUME NEW u \in Threads PROVE Working(u)'
    <3>1. CASE u = t
      BY <1>a, <1>b, <1>11, <3>1
           DEF CloseCb, Idle, registryVars, threadVars, Shapes, Closes, Working,
               Typed, Held
    <3>2. CASE u # t
      BY <1>a, <1>b, <1>11, <3>2
           DEF CloseCb, Idle, registryVars, threadVars, Shapes, Closes, Working,
               Typed, Held
    <3> QED
      BY <3>1, <3>2
  <2>3. ASSUME NEW e \in Channels PROVE Held(e)'
    BY <1>a, <1>b, <1>11
         DEF CloseCb, Idle, registryVars, threadVars, Shapes, Closes, Linked,
             Working, Held, Typed
  <2>4. ASSUME NEW e \in Open'
        PROVE  e \in Open /\ inbox'[e] = inbox[e] /\ Taken(e)' = Taken(e)
    BY <1>a, <1>b, <1>11
         DEF CloseCb, Idle, registryVars, threadVars, Shapes, LockOK, Closes,
             Linked, Working, Held, Typed, Open, Taken
  <2>5. \A u \in Threads : at[u] = "walk" => arg'[u] = arg[u]
    BY <1>a, <1>b, <1>11 DEF CloseCb, Idle, registryVars, threadVars, Shapes
  <2> QED
    BY <1>a, <1>b, <1>11, <2>1, <2>2, <2>3, <2>4, <2>5, SameData
         DEF CloseCb, Idle, registryVars, threadVars
<1>12. ASSUME FreeEngine(t) PROVE Data'
  <2>1. Typed'
    BY <1>a, <1>b, <1>12
         DEF FreeEngine, channelVars, registryVars, Idle, Shapes, Typed, Working
  <2>2. ASSUME NEW u \in Threads PROVE Working(u)'
    <3>1. CASE u = t
      BY <1>a, <1>b, <1>12, <3>1
           DEF FreeEngine, channelVars, registryVars, Idle, Shapes, Closes, Working,
               Typed, Held
    <3>2. CASE u # t
      BY <1>a, <1>b, <1>12, <3>2
           DEF FreeEngine, channelVars, registryVars, Idle, Shapes, Closes, Working,
               Typed, Held
    <3> QED
      BY <3>1, <3>2
  <2>3. ASSUME NEW e \in Channels PROVE Held(e)'
    BY <1>a, <1>b, <1>12
         DEF FreeEngine, channelVars, registryVars, Idle, Shapes, Closes, Linked,
             Working, Held, Typed
  <2>4. ASSUME NEW e \in Open'
        PROVE  e \in Open /\ inbox'[e] = inbox[e] /\ Taken(e)' = Taken(e)
    BY <1>a, <1>b, <1>12
         DEF FreeEngine, channelVars, registryVars, Idle, Shapes, LockOK, Closes,
             Linked, Working, Held, Typed, Open, Taken
  <2>5. \A u \in Threads : at[u] = "walk" => arg'[u] = arg[u]
    BY <1>a, <1>b, <1>12 DEF FreeEngine, channelVars, registryVars, Idle, Shapes
  <2> QED
    BY <1>a, <1>b, <1>12, <2>1, <2>2, <2>3, <2>4, <2>5, SameData
         DEF FreeEngine, channelVars, registryVars, Idle
<1>13. ASSUME LoopClosed(t) PROVE Data'
  <2>1. Typed'
    BY <1>a, <1>b, <1>13
         DEF LoopClosed, channelVars, registryVars, Idle, Shapes, Typed, Working
  <2>2. ASSUME NEW u \in Threads PROVE Working(u)'
    <3>1. CASE u = t
      BY <1>a, <1>b, <1>13, <3>1
           DEF LoopClosed, channelVars, registryVars, Idle, Shapes, Closes, Working,
               Typed, Held
    <3>2. CASE u # t
      BY <1>a, <1>b, <1>13, <3>2
           DEF LoopClosed, channelVars, registryVars, Idle, Shapes, Closes, Working,
               Typed, Held
    <3> QED
      BY <3>1, <3>2
  <2>3. ASSUME NEW e \in Channels PROVE Held(e)'
    BY <1>a, <1>b, <1>13
         DEF LoopClosed, channelVars, registryVars, Idle, Shapes, Closes, Linked,
             Working, Held, Typed
  <2>4. ASSUME NEW e \in Open'
        PROVE  e \in Open /\ inbox'[e] = inbox[e] /\ Taken(e)' = Taken(e)
    BY <1>a, <1>b, <1>13
         DEF LoopClosed, channelVars, registryVars, Idle, Shapes, LockOK, Closes,
             Linked, Working, Held, Typed, Open, Taken
  <2>5. \A u \in Threads : at[u] = "walk" => arg'[u] = arg[u]
    BY <1>a, <1>b, <1>13 DEF LoopClosed, channelVars, registryVars, Idle, Shapes
  <2> QED
    BY <1>a, <1>b, <1>13, <2>1, <2>2, <2>3, <2>4, <2>5, SameData
         DEF LoopClosed, channelVars, registryVars, Idle
<1> QED
  BY <1>1, <1>2, <1>3, <1>4, <1>5, <1>6, <1>7, <1>8, <1>9,
     <1>10, <1>11, <1>12, <1>13


\* A new channel is owed nothing: the log ends where it begins.
LEMMA NewData ==
  ASSUME Sound, Data, NEW t \in Threads, NEW c \in Channels, NEW n \in Names,
         New(t, c, n)
  PROVE  Data'
<1> USE BroadcastAssumption
<1>a. /\ Shapes /\ LockOK
      /\ \A u \in Threads : Closes(u)
      /\ \A d \in Channels : Linked(d)
  BY DEF Sound
<1>b. /\ Typed
      /\ \A u \in Threads : Working(u)
      /\ \A d \in Channels : Held(d)
      /\ Open \subseteq Channels
  BY <1>a DEF Data, Shapes, Open
<1>c. /\ async[c] = "none" /\ ~closed[c] /\ inbox[c] = <<>> /\ name[c] = None
      /\ rest = {} /\ c \notin bc_list
  BY <1>a, <1>b DEF New, LockFree, LockOK, Linked, Held
<1>d. batch[c] = <<>> /\ \A u \in Threads : cur[u] # c
  BY <1>a, <1>b, <1>c DEF Working, Held, Shapes
<1>e. Len(log) \in Nat /\ DOMAIN log = 1 .. Len(log)
  BY <1>b, LenProperties DEF Typed
<1>1. Typed'
  BY <1>b, <1>e DEF New, threadVars, Typed
<1>2. ASSUME NEW u \in Threads PROVE Working(u)'
  BY <1>a, <1>b, <1>d DEF New, threadVars, Working, Shapes
<1>3. ASSUME NEW d \in Channels PROVE Held(d)'
  BY <1>a, <1>b, <1>c, <1>d, <1>e DEF Typed, New, threadVars, Held, Shapes
<1>4. Open' = Open \cup {c}
  BY <1>a, <1>c DEF New, Open, Shapes
<1>5. ASSUME NEW d \in Open' PROVE Owes(d)'
  <2>1. CASE d = c
    <3>1. Owed(c)' = <<>>
      BY <1>c DEF New, Owed
    <3>2. Taken(c)' = <<>> /\ inbox'[c] = <<>>
      BY <1>a, <1>c, <1>d DEF New, threadVars, Taken, Shapes
    <3>3. Stream(c)' = <<>> \o <<>> \o <<>>
      BY <3>1, <3>2 DEF Stream, Taken, Owed
    <3>4. <<>> \in Seq(Nat) /\ <<>> \o <<>> = <<>>
      BY EmptySeq, ConcatEmptySeq
    <3>5. Stream(c)' = <<>>
      BY <3>3, <3>4
    <3>6. pos'[c] = Len(log) /\ log' = log
      BY <1>b DEF New, Typed
    <3>7. {i \in For(c) : i > pos[c]}' = {}
      BY <1>e, <3>6 DEF For
    <3>8. Rising(<<>>) /\ Elements(<<>>) = {}
      BY DEF Rising, Elements
    <3> QED
      BY <2>1, <3>5, <3>7, <3>8 DEF Owes
  <2>2. CASE d # c
    <3>1. d \in Open /\ d \in Channels /\ Owes(d)
      BY <1>4, <1>b, <2>2 DEF Data
    <3>2. /\ log' = log /\ name'[d] = name[d] /\ pos'[d] = pos[d]
          /\ inbox'[d] = inbox[d]
      BY <1>b, <2>2, <3>1 DEF New, Typed
    <3>3. Owed(d) = <<>> /\ Owed(d)' = <<>>
      BY <1>c DEF New, Owed
    <3>4. Taken(d)' = Taken(d)
      BY <1>a, <2>2, <3>1 DEF New, threadVars, Taken, Shapes
    <3> QED
      BY <3>1, <3>2, <3>3, <3>4, SameParts
  <2> QED
    BY <2>1, <2>2
<1> QED
  BY <1>1, <1>2, <1>3, <1>5 DEF Data

\* A post: each other channel of the name is owed the new entry, as the last.
LEMMA PostData ==
  ASSUME Sound, Data, NEW t \in Threads, NEW c \in Channels, PostMessage(t, c)
  PROVE  Data'
<1> USE BroadcastAssumption
<1>a. /\ Shapes /\ LockOK
      /\ \A u \in Threads : Closes(u)
      /\ \A d \in Channels : Linked(d)
  BY DEF Sound
<1>b. /\ Typed
      /\ \A u \in Threads : Working(u)
      /\ \A d \in Channels : Held(d)
      /\ Open \subseteq Channels
  BY <1>a DEF Data, Shapes, Open
<1> DEFINE n == Len(log) + 1
           entry == [from |-> c, name |-> name[c]]
<1>c. /\ Len(log) \in Nat /\ DOMAIN log = 1 .. Len(log) /\ n \in Nat
      /\ entry \in [from : Channels, name : Names \cup {None}]
  BY <1>b, LenProperties DEF Typed
<1>d. log' = Append(log, entry) /\ rest = {} /\ rest' = bc_list /\ lock' = t
  BY <1>a DEF PostMessage, LockFree, LockOK
<1>e. /\ log' \in Seq([from : Channels, name : Names \cup {None}])
      /\ Len(log') = n /\ DOMAIN log' = 1 .. n /\ log'[n] = entry
      /\ \A i \in 1 .. Len(log) : log'[i] = log[i]
  <2> HIDE DEF entry
  <2>1. log \in Seq([from : Channels, name : Names \cup {None}])
    BY <1>b DEF Typed
  <2> QED
    BY <1>c, <1>d, <2>1, AppendProperties, LenProperties
<1>f. UNCHANGED <<name, pos, inbox, batch, busy, cur, home, async, closed, bc_list>>
  BY DEF PostMessage, channelVars
<1>1. Typed'
  BY <1>b, <1>e, <1>f DEF Typed
<1>2. ASSUME NEW u \in Threads PROVE Working(u)'
  BY <1>a, <1>b DEF PostMessage, channelVars, Go, Working, Shapes
<1>3. ASSUME NEW d \in Channels PROVE Held(d)'
  BY <1>b, <1>c, <1>e, <1>f DEF Held, Typed
<1>4. ASSUME NEW d \in Open' PROVE Owes(d)'
  <2>1. d \in Open /\ d \in Channels /\ Owes(d) /\ d \in bc_list
    BY <1>a, <1>f DEF Open, Data, Shapes
  <2>2. Taken(d) \in Seq(Nat) /\ inbox[d] \in Seq(Nat) /\ Stream(d) \in Seq(Nat)
    BY <2>1, PartsTyped
  <2>3. Stream(d) = Taken(d) \o inbox[d]
    <3>1. Owed(d) = <<>>
      BY <1>d DEF Owed
    <3>2. Taken(d) \o inbox[d] \in Seq(Nat)
      BY <2>2, ConcatProperties
    <3> QED
      BY <3>1, <3>2, ConcatEmptySeq, StreamParts
  <2>4. Taken(d)' = Taken(d)
    BY <1>f DEF Taken
  <2>5. Stream(d)' = Stream(d) \o Owed(d)'
    <3>1. Stream(d)' = (Taken(d) \o inbox[d] \o Owed(d))'
      BY DEF Stream, Taken, Owed
    <3> QED
      BY <1>f, <2>3, <2>4, <3>1
  <2>6. Subscribed(d, arg[lock])' <=> d # c /\ name[d] = name[c]
    BY <1>a DEF PostMessage, channelVars, Subscribed, Shapes
  <2>7. \A i \in DOMAIN log : log'[i] = log[i] /\ i # n /\ i \in DOMAIN log'
    BY <1>c, <1>e
  <2>8. \A i \in DOMAIN log' : i \in DOMAIN log \/ i = n
    BY <1>c, <1>e
  <2>9. For(d)' = IF d # c /\ name[d] = name[c] THEN For(d) \cup {n} ELSE For(d)
    <3>1. \A i \in DOMAIN log : i \in For(d)' <=> i \in For(d)
      BY <1>f, <2>7 DEF For
    <3>2. n \in For(d)' <=> d # c /\ name[d] = name[c]
      BY <1>e, <1>f, <1>c DEF For
    <3>3. For(d)' \subseteq DOMAIN log' /\ For(d) \subseteq DOMAIN log
      BY DEF For
    <3>4. \A i : i \in For(d)' => i \in For(d) \/ (i = n /\ d # c /\ name[d] = name[c])
      BY <2>8, <3>1, <3>2, <3>3
    <3>5. \A i : i \in For(d) => i \in For(d)'
      BY <3>1, <3>3
    <3>6. CASE d # c /\ name[d] = name[c]
      <4>1. n \in For(d)'
        BY <3>2, <3>6
      <4>2. For(d)' = For(d) \cup {n}
        BY <3>4, <3>5, <4>1
      <4> QED
        BY <3>6, <4>2
    <3>7. CASE ~(d # c /\ name[d] = name[c])
      <4>1. For(d)' = For(d)
        BY <3>4, <3>5, <3>7
      <4> QED
        BY <3>7, <4>1
    <3> QED
      BY <3>6, <3>7
  <2>10. n > pos[d] /\ pos[d] \in Nat /\ pos'[d] = pos[d]
    BY <1>b, <1>c, <1>f, <2>1 DEF Held, Typed
  <2>11. Rising(Stream(d)) /\ Elements(Stream(d)) = {i \in For(d) : i > pos[d]}
    BY <2>1 DEF Owes
  <2>12. CASE d # c /\ name[d] = name[c]
    <3>1. Owed(d)' = <<n>>
      BY <1>d, <1>e, <1>f, <2>1, <2>6, <2>12 DEF Owed
    <3>2. \A i \in Elements(Stream(d)) : i < n
      BY <1>c, <2>11 DEF For
    <3>3. Rising(Stream(d)') /\ Elements(Stream(d)') = Elements(Stream(d)) \cup {n}
      BY <1>c, <2>2, <2>5, <2>11, <3>1, <3>2, RisingAppend
    <3>4. For(d)' = For(d) \cup {n}
      BY <2>9, <2>12
    <3>5. {i \in For(d)' : i > pos'[d]} = {i \in For(d) : i > pos[d]} \cup {n}
      BY <2>10, <3>4
    <3> QED
      BY <2>11, <3>3, <3>5 DEF Owes
  <2>13. CASE ~(d # c /\ name[d] = name[c])
    <3>1. Owed(d)' = <<>>
      BY <2>6, <2>13 DEF Owed
    <3>2. Stream(d)' = Stream(d)
      BY <2>2, <2>5, <3>1, ConcatEmptySeq
    <3>3. For(d)' = For(d)
      BY <2>9, <2>13
    <3> QED
      BY <2>10, <2>11, <3>2, <3>3 DEF Owes
  <2> QED
    BY <2>12, <2>13
<1> QED
  BY <1>1, <1>2, <1>3, <1>4 DEF Data

\* How a concatenation is grouped does not matter.
LEMMA Grouped ==
  ASSUME NEW s \in Seq(Nat), NEW r \in Seq(Nat), NEW q \in Seq(Nat)
  PROVE  s \o (r \o q) = s \o r \o q
<1>1. (s \o r) \o q = s \o (r \o q)
  BY ConcatAssociative
<1> QED
  BY <1>1

\* The walk reaches a channel: the copy it was owed is in its inbox.
LEMMA WalkData ==
  ASSUME Sound, Data, NEW t \in Threads, Walk(t)
  PROVE  Data'
<1> USE BroadcastAssumption
<1>a. /\ Shapes /\ LockOK
      /\ \A u \in Threads : Closes(u)
      /\ \A d \in Channels : Linked(d)
  BY DEF Sound
<1>b. /\ Typed
      /\ \A u \in Threads : Working(u)
      /\ \A d \in Channels : Held(d)
      /\ Open \subseteq Channels
  BY <1>a DEF Data, Shapes, Open
<1>c. PICK c \in rest :
        /\ rest' = rest \ {c}
        /\ \/ /\ closed[c] \/ ~Subscribed(c, arg[t])
              /\ UNCHANGED <<inbox, sending>>
           \/ /\ Subscribed(c, arg[t]) /\ (closed[c] => home[c] # t)
              /\ inbox' = [inbox EXCEPT ![c] = Enqueue(@, Len(log))]
              /\ sending' = c
  BY DEF Walk
<1>d. lock = t /\ c \in Channels /\ Len(log) \in Nat
  BY <1>a, <1>b, <1>c, LenProperties DEF Walk, LockOK, Shapes, Typed
<1>e. UNCHANGED <<async, home, name, closed, batch, bc_list, lock, arg, cur, busy, at,
                  log, pos>>
  BY DEF Walk, threadVars
<1>f. /\ inbox' \in [Channels -> Seq(Nat)]
      /\ \A d \in Channels : d # c => inbox'[d] = inbox[d]
  <2>1. CASE UNCHANGED inbox
    BY <1>b, <2>1 DEF Typed
  <2>2. CASE inbox' = [inbox EXCEPT ![c] = Enqueue(@, Len(log))]
    <3>1. Append(inbox[c], Len(log)) \in Seq(Nat)
      BY <1>b, <1>d, AppendProperties DEF Typed
    <3> QED
      BY <1>b, <1>d, <2>2, <3>1 DEF Typed, Enqueue
  <2> QED
    BY <1>c, <2>1, <2>2
<1>1. Typed'
  BY <1>b, <1>e, <1>f DEF Typed
<1>2. ASSUME NEW u \in Threads PROVE Working(u)'
  BY <1>b, <1>e DEF Working
<1>3. ASSUME NEW d \in Channels PROVE Held(d)'
  BY <1>b, <1>e DEF Held
<1>4. ASSUME NEW d \in Open' PROVE Owes(d)'
  <2>1. d \in Open /\ d \in Channels /\ Owes(d) /\ ~closed[d]
    BY <1>b, <1>e DEF Open, Data
  <2>2. Taken(d) \in Seq(Nat) /\ inbox[d] \in Seq(Nat)
    BY <2>1, PartsTyped
  <2>3. Taken(d)' = Taken(d)
    BY <1>e DEF Taken
  <2>4. CASE d = c /\ Subscribed(c, arg[t])
    <3>1. Owed(d) = <<Len(log)>> /\ Owed(d)' = <<>>
      BY <1>c, <1>d, <2>4 DEF Owed
    <3>2. inbox'[d] = inbox[d] \o <<Len(log)>>
      <4>1. inbox'[d] = Append(inbox[d], Len(log))
        BY <1>b, <1>c, <1>d, <2>1, <2>4 DEF Enqueue, Typed
      <4> QED
        BY <1>d, <2>2, <4>1, AppendIsConcat
    <3>3. <<Len(log)>> \in Seq(Nat)
      BY <1>d
    <3>4. /\ inbox[d] \o <<Len(log)>> \in Seq(Nat)
          /\ Taken(d) \o (inbox[d] \o <<Len(log)>>) \in Seq(Nat)
          /\ Taken(d) \o (inbox[d] \o <<Len(log)>>) = Taken(d) \o inbox[d] \o <<Len(log)>>
      <4> DEFINE x == <<Len(log)>>
      <4>1. x \in Seq(Nat)
        BY <3>3
      <4> HIDE DEF x
      <4>2. inbox[d] \o x \in Seq(Nat)
        BY <2>2, <4>1, ConcatProperties
      <4>3. Taken(d) \o (inbox[d] \o x) \in Seq(Nat)
        BY <2>2, <4>2, ConcatProperties
      <4>4. Taken(d) \o (inbox[d] \o x) = Taken(d) \o inbox[d] \o x
        BY <2>2, <4>1, Grouped
      <4> QED
        BY <4>2, <4>3, <4>4 DEF x
    <3>5. Stream(d)' = Taken(d) \o (inbox[d] \o <<Len(log)>>) \o <<>>
      <4>1. Stream(d)' = (Taken(d) \o inbox[d] \o Owed(d))'
        BY DEF Stream, Taken, Owed
      <4> QED
        BY <2>3, <3>1, <3>2, <4>1
    <3>6. Stream(d)' = Taken(d) \o inbox[d] \o <<Len(log)>>
      BY <3>4, <3>5, ConcatEmptySeq
    <3>7. Stream(d)' = Stream(d)
      BY <3>1, <3>6, StreamParts
    <3> QED
      BY <1>e, <2>1, <3>7, SameOwes
  <2>5. CASE d # c \/ ~Subscribed(c, arg[t])
    <3>1. Owed(d)' = Owed(d)
      BY <1>c, <1>d, <1>e, <2>5 DEF Owed, Subscribed
    <3>2. inbox'[d] = inbox[d]
      BY <1>c, <1>f, <2>1, <2>5
    <3> QED
      BY <1>e, <2>1, <2>3, <3>1, <3>2, SameParts
  <2> QED
    BY <2>4, <2>5
<1> QED
  BY <1>1, <1>2, <1>3, <1>4 DEF Data

\* The callback takes the inbox as its batch, which was empty.
LEMMA SpliceData ==
  ASSUME Sound, Data, NEW t \in Threads, Splice(t)
  PROVE  Data'
<1> USE BroadcastAssumption
<1>a. /\ Shapes /\ LockOK
      /\ \A u \in Threads : Closes(u)
      /\ \A d \in Channels : Linked(d)
  BY DEF Sound
<1>b. /\ Typed
      /\ \A u \in Threads : Working(u)
      /\ \A d \in Channels : Held(d)
      /\ Open \subseteq Channels
  BY <1>a DEF Data, Shapes, Open
<1> DEFINE c == cur[t]
<1>c. /\ c \in Channels /\ home[c] = t /\ batch[c] = <<>> /\ ~busy[t]
      /\ at[t] = "splice" /\ async[c] # "none" /\ inbox[c] \in Seq(Nat)
  BY <1>a, <1>b DEF Splice, Closes, Working, Typed
<1>d. /\ batch' = [batch EXCEPT ![c] = inbox[c]]
      /\ inbox' = [inbox EXCEPT ![c] = <<>>]
      /\ at' = [at EXCEPT ![t] = "idle"]
      /\ UNCHANGED <<async, home, name, closed, bc_list, lock, rest, arg, cur, busy,
                     log, pos>>
  BY DEF Splice, Go, registryVars
<1> HIDE DEF c
<1>e. /\ batch'[c] = inbox[c] /\ inbox'[c] = <<>>
      /\ \A d \in Channels : d # c => batch'[d] = batch[d] /\ inbox'[d] = inbox[d]
      /\ batch' \in [Channels -> Seq(Nat)] /\ inbox' \in [Channels -> Seq(Nat)]
  BY <1>b, <1>c, <1>d, EmptySeq DEF Typed
<1>1. Typed'
  BY <1>b, <1>d, <1>e DEF Typed
<1>2. ASSUME NEW u \in Threads PROVE Working(u)'
  <2>1. CASE u = t
    BY <1>a, <1>b, <1>c, <1>d, <2>1 DEF Working, Shapes
  <2>2. CASE u # t
    <3>1. at'[u] = at[u]
      BY <1>a, <1>d, <2>2 DEF Shapes
    <3>2. cur[u] # None => cur[u] \in Channels /\ cur[u] # c
      BY <1>a, <1>b, <1>c, <2>2 DEF Working, Shapes
    <3> QED
      BY <1>b, <1>d, <1>e, <3>1, <3>2 DEF Working
  <2> QED
    BY <2>1, <2>2
<1>3. ASSUME NEW d \in Channels PROVE Held(d)'
  BY <1>b, <1>c, <1>d, <1>e DEF Held, c
<1>4. ASSUME NEW d \in Open' PROVE Owes(d)'
  <2>1. d \in Open /\ d \in Channels /\ Owes(d)
    BY <1>b, <1>d DEF Open, Data
  <2>2. Owed(d)' = Owed(d)
    BY <1>d DEF Owed, Subscribed
  <2>3. CASE d = c
    <3>1. Taken(d) = <<>>
      BY <1>c, <2>3 DEF Taken
    <3>2. Taken(d)' = inbox[d] /\ inbox'[d] = <<>>
      BY <1>c, <1>d, <1>e, <2>3 DEF Taken
    <3>3. Stream(d)' = inbox[d] \o <<>> \o Owed(d)
      <4>1. Stream(d)' = (Taken(d) \o inbox[d] \o Owed(d))'
        BY DEF Stream, Taken, Owed
      <4> QED
        BY <2>2, <3>2, <4>1
    <3>4. inbox[d] \o <<>> = inbox[d] /\ <<>> \o inbox[d] = inbox[d]
      BY <1>c, <2>3, ConcatEmptySeq
    <3>5. Stream(d)' = Stream(d)
      BY <3>1, <3>3, <3>4, StreamParts
    <3> QED
      BY <1>d, <2>1, <3>5, SameOwes
  <2>4. CASE d # c
    <3>1. Taken(d)' = Taken(d) /\ inbox'[d] = inbox[d]
      BY <1>d, <1>e, <2>1, <2>4 DEF Taken
    <3> QED
      BY <1>d, <2>1, <2>2, <3>1, SameParts
  <2> QED
    BY <2>3, <2>4
<1> QED
  BY <1>1, <1>2, <1>3, <1>4 DEF Data

\* The handler is given the first message its channel is owed.
LEMMA FirstIsNext ==
  ASSUME Sound, Data, NEW t \in Threads, Dispatch(t), NEW c, c = cur[t]
  PROVE  /\ c \in Open /\ Stream(c) # <<>>
         /\ Head(Stream(c)) = Head(batch[c])
         /\ Stream(c)' = Tail(Stream(c))
<1> USE BroadcastAssumption
<1>a. /\ Shapes /\ Typed
      /\ Working(t) /\ \A d \in Channels : Held(d)
  BY DEF Sound, Data
<1>1. /\ c \in Channels /\ home[c] = t /\ c \in Open
      /\ batch[c] \in Seq(Nat) /\ batch[c] # <<>> /\ ~busy[t]
  BY <1>a DEF Dispatch, Working, Held, Shapes, Typed, Open
<1>2. /\ UNCHANGED <<home, name, inbox, batch, lock, rest, arg, cur, log>>
      /\ busy'[t]
  BY <1>a DEF Dispatch, channelVars, registryVars, Typed
<1>3. Taken(c) = batch[c] /\ Taken(c)' = Tail(batch[c])
  BY <1>1, <1>2 DEF Taken
<1>4. Owed(c)' = Owed(c)
  BY <1>2 DEF Owed, Subscribed
<1>5. inbox[c] \in Seq(Nat) /\ Owed(c) \in Seq(Nat)
  BY <1>1, PartsTyped
<1>6. /\ batch[c] \o inbox[c] # <<>> /\ Head(batch[c] \o inbox[c]) = Head(batch[c])
      /\ Tail(batch[c] \o inbox[c]) = Tail(batch[c]) \o inbox[c]
      /\ batch[c] \o inbox[c] \in Seq(Nat)
  BY <1>1, <1>5, ConcatTail, ConcatProperties
<1>7. /\ batch[c] \o inbox[c] \o Owed(c) # <<>>
      /\ Head(batch[c] \o inbox[c] \o Owed(c)) = Head(batch[c])
      /\ Tail(batch[c] \o inbox[c] \o Owed(c)) = Tail(batch[c]) \o inbox[c] \o Owed(c)
  <2> DEFINE s == batch[c] \o inbox[c]
             r == Owed(c)
  <2>1. s \in Seq(Nat) /\ r \in Seq(Nat) /\ s # <<>>
    BY <1>5, <1>6
  <2> HIDE DEF s, r
  <2>2. s \o r # <<>> /\ Head(s \o r) = Head(s) /\ Tail(s \o r) = Tail(s) \o r
    BY <2>1, ConcatTail
  <2> QED
    BY <1>6, <2>2 DEF s, r
<1>8. Stream(c) = batch[c] \o inbox[c] \o Owed(c)
  BY <1>3, StreamParts
<1>9. Stream(c)' = Tail(batch[c]) \o inbox[c] \o Owed(c)
  <2>1. Stream(c)' = (Taken(c) \o inbox[c] \o Owed(c))'
    BY DEF Stream, Taken, Owed
  <2> QED
    BY <1>2, <1>3, <1>4, <2>1
<1> QED
  BY <1>1, <1>2, <1>7, <1>8, <1>9

\* It is the next entry of the log for that channel.
LEMMA DispatchData ==
  ASSUME Sound, Data, NEW t \in Threads, Dispatch(t), NEW c, c = cur[t],
         NEW h, h = Head(batch[c])
  PROVE  /\ Data'
         /\ h \in For(c) /\ h > pos[c]
         /\ \A i \in For(c) : i > pos[c] => h <= i
<1> USE BroadcastAssumption
<1>a. /\ Shapes /\ LockOK
      /\ \A u \in Threads : Closes(u)
      /\ \A d \in Channels : Linked(d)
  BY DEF Sound
<1>b. /\ Typed
      /\ \A u \in Threads : Working(u)
      /\ \A d \in Channels : Held(d)
      /\ Open \subseteq Channels
  BY <1>a DEF Data, Shapes, Open
<1>c. /\ c \in Channels /\ home[c] = t /\ c \in Open /\ batch[c] # <<>>
      /\ busy' = [busy EXCEPT ![t] = TRUE] /\ pos' = [pos EXCEPT ![c] = h]
      /\ UNCHANGED <<async, home, name, closed, inbox, batch, bc_list, lock, rest,
                     at, arg, cur, log>>
      /\ at[t] = "idle"
  BY <1>a, <1>b DEF Dispatch, channelVars, registryVars, Working, Held, Shapes, Open
<1>d. /\ Stream(c) \in Seq(Nat) /\ Stream(c) # <<>> /\ Head(Stream(c)) = h
      /\ Stream(c)' = Tail(Stream(c))
  BY <1>c, FirstIsNext, PartsTyped
<1>e. Len(log) \in Nat /\ DOMAIN log = 1 .. Len(log)
  BY <1>b, LenProperties DEF Typed
<1>f. Rising(Stream(c)) /\ Elements(Stream(c)) = {i \in For(c) : i > pos[c]}
  BY <1>c DEF Data, Owes
<1>g. /\ Rising(Tail(Stream(c))) /\ h \in Elements(Stream(c))
      /\ \A e \in Elements(Stream(c)) : h <= e
      /\ Elements(Tail(Stream(c))) = {e \in Elements(Stream(c)) : e > h}
  BY <1>d, <1>f, RisingTail
<1>h. h \in For(c) /\ h > pos[c] /\ h \in Nat /\ h <= Len(log) /\ pos[c] \in Nat
  BY <1>b, <1>c, <1>e, <1>f, <1>g DEF For, Typed
<1>i. \A i \in For(c) : i \in Nat
  BY <1>e DEF For
<1>1. Typed'
  BY <1>b, <1>c, <1>h DEF Typed
<1>2. ASSUME NEW u \in Threads PROVE Working(u)'
  BY <1>b, <1>c DEF Working, Typed
<1>3. ASSUME NEW d \in Channels PROVE Held(d)'
  BY <1>b, <1>c, <1>h DEF Held, Typed
<1>4. ASSUME NEW d \in Open' PROVE Owes(d)'
  <2>1. d \in Open /\ d \in Channels /\ Owes(d)
    BY <1>b, <1>c DEF Open, Data
  <2>2. CASE d = c
    <3>1. For(c)' = For(c) /\ pos'[c] = h
      BY <1>b, <1>c DEF For, Typed
    <3>2. {i \in For(c) : i > h} = {e \in Elements(Stream(c)) : e > h}
      <4>1. ASSUME NEW i \in For(c), i > h PROVE i > pos[c]
        <5>1. i \in Nat
          BY <1>i
        <5> QED
          BY <1>h, <4>1, <5>1
      <4>2. Elements(Stream(c)) = {i \in For(c) : i > pos[c]}
        BY <1>f
      <4> QED
        BY <4>1, <4>2
    <3> QED
      BY <1>d, <1>g, <2>2, <3>1, <3>2 DEF Owes
  <2>3. CASE d # c
    <3>1. Owed(d)' = Owed(d) /\ inbox'[d] = inbox[d] /\ pos'[d] = pos[d]
      BY <1>b, <1>c, <2>1, <2>3 DEF Owed, Subscribed, Typed
    <3>2. Taken(d)' = Taken(d)
      <4>1. home[d] \in Threads
        BY <2>1, PartsTyped
      <4>2. home[d] = t => cur[home[d]] # d
        BY <2>3
      <4>3. home[d] # t => busy'[home[d]] = busy[home[d]]
        BY <1>b, <1>c, <4>1 DEF Typed
      <4> QED
        BY <1>c, <4>2, <4>3 DEF Taken
    <3> QED
      BY <1>c, <2>1, <3>1, <3>2, SameParts
  <2> QED
    BY <2>2, <2>3
<1>5. \A i \in For(c) : i > pos[c] => h <= i
  BY <1>f, <1>g
<1> QED
  BY <1>1, <1>2, <1>3, <1>4, <1>5, <1>h DEF Data

----------------------------------------------------------------------------
(* The theorems.                                                           *)

\* Every step keeps what was posted.
LEMMA NextData == Sound /\ Data /\ [Next]_vars => Data'
<1> SUFFICES ASSUME Sound, Data, [Next]_vars PROVE Data'
  OBVIOUS
<1>1. ASSUME NEW t \in Threads, Script(t) \/ Step(t) \/ Loop(t) PROVE Data'
  <2>1. ASSUME NEW c \in Channels, NEW n \in Names, New(t, c, n) PROVE Data'
    BY <2>1, NewData
  <2>2. ASSUME NEW c \in Channels, PostMessage(t, c) PROVE Data'
    BY <2>2, PostData
  <2>3. CASE Walk(t)
    BY <2>3, WalkData
  <2>4. CASE Splice(t)
    BY <2>4, SpliceData
  <2>5. CASE Dispatch(t)
    BY <2>5, DispatchData
  <2> QED
    BY <1>1, <2>1, <2>2, <2>3, <2>4, <2>5, QuietData DEF Script, Step, Loop
<1>2. CASE UNCHANGED vars
  <2>1. Open' = Open /\ Typed' /\ Open \subseteq Channels
    BY <1>2 DEF vars, channelVars, registryVars, threadVars, Open, Data, Typed, Sound,
                Shapes
  <2>2. ASSUME NEW u \in Threads PROVE Working(u)'
    BY <1>2 DEF vars, channelVars, registryVars, threadVars, Data, Working
  <2>3. ASSUME NEW c \in Channels PROVE Held(c)'
    BY <1>2 DEF vars, channelVars, registryVars, threadVars, Data, Held
  <2>4. ASSUME NEW c \in Open'
        PROVE  c \in Open /\ inbox'[c] = inbox[c] /\ Taken(c)' = Taken(c)
    BY <1>2, <2>1 DEF vars, channelVars, registryVars, threadVars, Taken
  <2> QED
    BY <1>2, <2>1, <2>2, <2>3, <2>4, SameData
       DEF vars, channelVars, registryVars, threadVars
<1> QED
  BY <1>1, <1>2 DEF Next

\* What was posted is kept.
LEMMA AlwaysData == Spec => [](Sound /\ Data)
<1>1. Init => Sound /\ Data
  BY InitSound, InitData
<1>2. Sound /\ Data /\ [Next]_vars => (Sound /\ Data)'
  BY NextSound, NextData
<1> QED
  BY <1>1, <1>2, PTL DEF Spec

\* Batch, inbox and the copy still to come are together exactly the messages posted for
\* an open channel since the last one it was given, in the order of the posts, whatever
\* the threads post, close and free meanwhile (mod_channel.c:796-961).
THEOREM OwedExactly == Spec => []Exact
<1>1. Data => Exact
  BY DEF Data, Owes, Exact, Rising, Elements
<1> QED
  BY <1>1, AlwaysData, PTL

\* A step of the channels is a step of the log, or none.
LEMMA LogStep ==
  ASSUME Sound, Data, [Next]_vars
  PROVE  [Promise!Next]_(Promise!vars)
<1> USE BroadcastAssumption
<1>a. /\ Shapes /\ LockOK
      /\ \A u \in Threads : Closes(u)
      /\ \A d \in Channels : Linked(d)
      /\ \A d \in Channels : Held(d)
  BY DEF Sound, Data
<1>b. pos \in [Channels -> Nat] /\ name \in [Channels -> Names \cup {None}]
  BY DEF Data, Typed
<1>1. ASSUME NEW t \in Threads, NEW c \in Channels, NEW n \in Names, New(t, c, n)
      PROVE  Promise!Create(c, n)
  BY <1>a, <1>1 DEF New, LockFree, Linked, Held, Open, Shapes, Promise!Create
<1>2. ASSUME NEW t \in Threads, NEW c \in Channels, PostMessage(t, c)
      PROVE  Promise!Post(c)
  BY <1>a, <1>2 DEF PostMessage, channelVars, Held, Open, Promise!Post
<1>3. ASSUME NEW t \in Threads, Dispatch(t)
      PROVE  \E c \in Channels : Promise!Deliver(c)
  <2>1. PICK c : c = cur[t]
    OBVIOUS
  <2>2. PICK h : h = Head(batch[c])
    OBVIOUS
  <2>3. c \in Open /\ c \in Channels
    BY <1>3, <1>a, <2>1, FirstIsNext DEF Open, Shapes
  <2>4. h \in For(c) /\ h > pos[c] /\ \A i \in For(c) : i > pos[c] => h <= i
    BY <1>3, <2>1, <2>2, DispatchData
  <2>5. pos' = [pos EXCEPT ![c] = h] /\ UNCHANGED <<log, name, closed, bc_list>>
    BY <1>3, <2>1, <2>2 DEF Dispatch, channelVars, registryVars
  <2>6. Open' = Open
    BY <2>5 DEF Open
  <2>7. h \in Promise!Ahead(c) /\ \A i \in Promise!Ahead(c) : h <= i
    BY <2>4 DEF Promise!Ahead, Promise!For, For
  <2>8. Promise!Deliver(c)
    BY <2>3, <2>5, <2>6, <2>7 DEF Promise!Deliver
  <2> QED
    BY <2>3, <2>8
<1>4. ASSUME NEW t \in Threads, NEW c \in Channels, Close(t, c)
      PROVE  Promise!Close(c)
  BY <1>a, <1>4 DEF Close, registryVars, Held, Open, Shapes, Promise!Close
<1>5. ASSUME NEW t \in Threads, NEW c \in Channels, Finalize(t, c)
      PROVE  Promise!Close(c) \/ UNCHANGED Promise!vars
  BY <1>a, <1>5 DEF Finalize, registryVars, Held, Open, Shapes, Promise!Close,
                    Promise!vars
<1>6. ASSUME NEW t \in Threads, Unlink(t) PROVE UNCHANGED Promise!vars
  BY <1>a, <1>6 DEF Unlink, channelVars, Closes, Open, Shapes, Promise!vars
<1>7. ASSUME NEW t \in Threads,
             \/ Walk(t) \/ Send(t) \/ Unlock(t) \/ Drop(t) \/ UvClose(t)
             \/ Splice(t) \/ HandlerReturn(t) \/ CallbackReturn(t)
             \/ (\E c \in Channels : LoopWake(t, c))
             \/ CloseCb(t) \/ FreeEngine(t) \/ LoopClosed(t)
      PROVE  UNCHANGED Promise!vars
  <2>1. UNCHANGED <<log, name, pos, bc_list, closed>>
    BY <1>7 DEF Walk, Send, Unlock, Drop, UvClose, Splice, HandlerReturn, CallbackReturn,
                LoopWake, CloseCb, FreeEngine, LoopClosed, channelVars, registryVars
  <2> QED
    BY <2>1 DEF Open, Promise!vars
<1>8. CASE UNCHANGED vars
  BY <1>8 DEF vars, channelVars, registryVars, Open, Promise!vars
<1> QED
  BY <1>1, <1>2, <1>3, <1>4, <1>5, <1>6, <1>7, <1>8
     DEF Next, Script, Step, Loop, Promise!Next

\* The channels of all threads implement one log: each open channel is given the
\* entries for it in the order of the log, each once (BroadcastLog).
THEOREM ImplementsLog == Spec => Ordered
<1>1. Init => Promise!Init
  BY DEF Init, Open, Promise!Init
<1>2. Sound /\ Data /\ [Next]_vars => [Promise!Next]_(Promise!vars)
  BY LogStep
<1> QED
  BY <1>1, <1>2, AlwaysData, PTL DEF Spec, Ordered, Promise!Spec

=============================================================================
