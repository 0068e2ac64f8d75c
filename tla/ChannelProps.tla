---------------------------- MODULE ChannelProps ----------------------------
(***************************************************************************)
(* What the transport of Channel.tla has to guarantee.  Kept apart from it *)
(* because counting references needs the community modules.                *)
(***************************************************************************)
EXTENDS Channel, FiniteSets

(* Who holds a reference on a mailbox.                                     *)

MsgsOf(o) == CASE o.op = "post" -> <<o.msg>>
               [] o.op = "free" -> o.msgs
               [] OTHER -> <<>>

\* The references on m of the kinds K, which are the sides of a port ("rx", "tx") and what
\* is to be done with a reference ("close", "unref"): those of a port in transit, a message,
\* messages, an operation and the operations of a stack, each with its position.
OfPort(r, K, m)  == {k \in K : (k = "rx" /\ r.rx = m) \/ (k = "tx" /\ r.tx = m)}
OfMsg(x, K, m)   == UNION {{i} \X OfPort(x.ports[i], K, m) : i \in DOMAIN x.ports}
OfMsgs(s, K, m)  == UNION {{i} \X OfMsg(s[i], K, m) : i \in DOMAIN s}
OfOp(o, K, m)    == IF o.op \in {"close", "unref"} THEN {k \in K : k = o.op /\ o.mb = m}
                    ELSE OfMsgs(MsgsOf(o), K, m)
OfStack(s, K, m) == UNION {{i} \X OfOp(s[i], K, m) : i \in DOMAIN s}

\* The holders of such references: ports, inboxes, callbacks, functions that run.
Receivers(K, m) == {p \in Ports : "rx" \in K /\ rx[p] = m}
Senders(K, m)   == {p \in Ports : "tx" \in K /\ tx[p] = m}
InInboxes(K, m) == UNION {{q} \X OfMsgs(inbox[q], K, m) : q \in Mailboxes}
InBatches(K, m) == UNION {{t} \X OfMsgs(batch[t], K, m) : t \in Threads}
InStacks(K, m)  == UNION {{t} \X OfStack(todo[t], K, m) : t \in Threads}
Held(K, m) == Cardinality(Receivers(K, m)) + Cardinality(Senders(K, m))
              + Cardinality(InInboxes(K, m)) + Cardinality(InBatches(K, m))
              + Cardinality(InStacks(K, m))

----------------------------------------------------------------------------
(* Memory.                                                                 *)

\* The refcount of a mailbox counts its holders, and it is freed exactly when
\* the last one lets go: never early (use after free), never twice.
RefCountExact ==
  \A m \in Mailboxes :
    /\ refs[m] = Held({"rx", "tx", "unref"}, m)
    /\ (alive[m] = "live") <=> (refs[m] > 0)

\* No function is about to touch a freed mailbox or a freed port.
NoUseAfterFree ==
  \A t \in Threads :
    /\ todo[t] # <<>> =>
         LET o == Head(todo[t])
         IN /\ o.op \in {"close", "unref", "post"} => alive[o.mb] = "live"
            /\ o.op \in {"start", "wake", "splice", "shut", "uvclose"}
                 => handle[o.port] # "freed"
    /\ cur[t] # None => handle[cur[t]] # "freed"

\* mailbox_destroy drains the inbox without the lock "at refcount 0"; nothing
\* is left for it to drain, because the receive side was closed before.
DestroyedClosed == \A m \in Mailboxes : alive[m] = "freed" => closed[m]

\* Memory: a mailbox is freed exactly when its last holder lets go, nothing that was
\* freed is used, and what is freed was closed, whatever the threads close, transfer,
\* collect or post at the same time.
Memory == RefCountExact /\ NoUseAfterFree /\ DestroyedClosed

----------------------------------------------------------------------------
(* Ownership.                                                              *)

\* A mailbox has one receiving end at a time, a port, a port in transit or one that a
\* function is about to close, wherever the port went.
SingleReceiver == \A m \in Mailboxes : Held({"rx", "close"}, m) <= 1

\* A started port owns its receive side and an open one finds it without an
\* owner, as port_do_transfer (line 478) and tjs_port_start (line 636) assert.
OwnerAssertions ==
  \A p \in Ports : Live(p) =>
     owner[rx[p]] = IF state[p] = "started" THEN p ELSE None

\* Ownership: a mailbox has at most one receiver, and the assertions of the code about
\* its owner hold, wherever the port travels while messages wait for it.
Ownership == SingleReceiver /\ OwnerAssertions

----------------------------------------------------------------------------
(* Delivery.                                                               *)

\* What the receiver of m has still to see: the batch a callback took, then
\* the inbox.  Messages arrive in the order they were posted and none twice,
\* also when the port is transferred while messages wait.
ToSee(m) ==
  LET taken == {t \in Threads : cur[t] # None /\ src[t] = m /\ Live(cur[t])}
      rest(t) == IF busy[t] THEN Tail(batch[t]) ELSE batch[t]
  IN (IF taken = {} THEN <<>> ELSE rest(CHOOSE t \in taken : TRUE)) \o inbox[m]
InOrder ==
  \A m \in Mailboxes :
    LET s == ToSee(m)
    IN \A i, j \in DOMAIN s :
         s[i].id > last[m] /\ (i < j => s[i].id < s[j].id)

----------------------------------------------------------------------------
(* Progress.                                                               *)

\* What waits for a started port reaches it, or the port or its loop ends.
Delivered ==
  \A p \in Ports :
    state[p] = "started" /\ inbox[rx[p]] # <<>>
      ~> \/ state[p] # "started"
         \/ inbox[rx[p]] = <<>>
         \/ phase[home[p]] # "running"

\* terminate() returns: the worker stops, its runtime is freed, its loop closes.
TerminateReturns ==
  \A t \in Threads : Doing(t, "join") ~> ~Doing(t, "join")

=============================================================================
