------------------------------- MODULE EvLib -------------------------------
(***************************************************************************)
(* The event library that drives libwebsockets off the libuv loop          *)
(* (src/src/lws-evlib.c): a table of watchers, one uv_poll each, keyed by  *)
(* (wsi, racer index) and looked up by file descriptor.                    *)
(*                                                                         *)
(* The calls come from lws, which is external: it opens a primary socket   *)
(* and races others against it, closes and promotes sockets without        *)
(* telling, moves a socket to another wsi, and the numbers of closed       *)
(* descriptors and the addresses of freed wsis are used again.  Descriptors*)
(* that lws gives up when it tears a racer down are the library's to       *)
(* close, once their uv_poll is closed.                                    *)
(***************************************************************************)
EXTENDS Integers, FiniteSets

CONSTANTS
  Wsis,    \* addresses of wsis
  Racers,  \* racer indices
  Fds,     \* descriptors
  Events,  \* UV_READABLE, UV_WRITABLE
  Readable,
  None     \* LWS_SOCK_INVALID

\* TJS__EVLIB_PIDX_PRIMARY.
Primary == -1

ASSUME EvLibAssumption ==
  /\ Racers \subseteq Nat /\ Readable \in Events
  /\ None \notin Fds /\ "spent" \notin Fds /\ None # "spent"

VARIABLES
  watchers,       \* the table: records with wsi, pidx, fd, events and ref
  closing,        \* closing[fd]: the closing uv_polls that will close fd
  tick,           \* "running", "closing" or "freed"
  pendingCloses,
  tickHandles,    \* the timer and the prepare handle, until they are closed
  \* lws
  wsis,           \* "free", "client" or "listen"
  desc,           \* wsi->desc.sockfd
  racer,          \* racer[w][p]: the socket, None, or "spent" after a promotion
  owner,          \* who has to close a descriptor: "free" (none), "lws", "evlib"
  want            \* the events lws subscribed to

lwsVars == <<wsis, desc, racer, owner, want>>
tickVars == <<tick, pendingCloses, tickHandles>>
vars == <<watchers, closing, tickVars, lwsVars>>

Keys == Racers \cup {Primary}
Watcher == [wsi : Wsis, pidx : Keys, fd : Fds, events : SUBSET Events, ref : BOOLEAN]

\* The sockets of a wsi.
SocketsOf(w) == {fd \in Fds : fd = desc[w] \/ \E p \in Racers : fd = racer[w][p]}

----------------------------------------------------------------------------
\* tjs__evlib_watcher_find and tjs__evlib_watcher_find_by_fd.
Find(ws, w, p) == {x \in ws : x.wsi = w /\ x.pidx = p}
FindByFd(ws, fd) == {x \in ws : x.fd = fd}

\* tjs__evlib_watcher_detach, _detach_all and _detach_by_fd: lws owns the
\* descriptor.
\* Mutant: the watcher of a descriptor that was closed behind the library's back stays.
Detach(ws, w, p) == ws \ Find(ws, w, p)
DetachAll(ws, w) == {x \in ws : x.wsi # w}
DetachNoFd(ws, fd) == ws
DetachByFd(ws, fd) == ws \ FindByFd(ws, fd)

\* tjs__evlib_watcher_create.
Created(w, p, fd, events, ref) ==
  [wsi |-> w, pidx |-> p, fd |-> fd, events |-> events, ref |-> ref]

\* tjs__evlib_watcher_rekey.
Rekey(ws, x, w, p) ==
  (Detach(ws, w, p) \ {x}) \cup {[x EXCEPT !.wsi = w, !.pidx = p]}

\* tjs__evlib_watcher_apply.
Subscribe(events, start, flags) == IF start THEN events \cup flags ELSE events \ flags
Apply(x, start, flags) == [x EXCEPT !.events = Subscribe(@, start, flags)]

\* tjs__evlib_io on the socket fd that wsi->desc points at.
\* Mutants: the watcher is that of the wsi, whichever socket the call is about; a
\* socket that is adopted holds the loop.
IoByWsi(ws, w, fd, start, flags) ==
  {IF x.wsi = w /\ x.pidx = Primary THEN Apply(x, start, flags) ELSE x : x \in ws}
IoAdoptRefd(ws, w, fd, start, flags) ==
  LET known == IF FindByFd(ws, fd) = {} /\ start
               THEN ws \cup {Created(w, Primary, fd, {Readable}, TRUE)}
               ELSE ws IN
  {IF x.fd = fd THEN [Apply(x, start, flags) EXCEPT !.wsi = w] ELSE x : x \in known}
IoByFd(ws, w, fd, start, flags) ==
  LET found == FindByFd(ws, fd)
      moved == IF \E x \in found : x.wsi # w
               THEN Rekey(ws, CHOOSE x \in found : x.wsi # w, w, Primary)
               ELSE ws
      known == IF found = {} /\ start
               THEN ws \cup {Created(w, Primary, fd, {Readable}, FALSE)}
               ELSE moved IN
  {IF x.fd = fd THEN Apply(x, start, flags) ELSE x : x \in known}

----------------------------------------------------------------------------
\* What lws does.  It runs until the context is destroyed.
Lws == tick = "running" /\ UNCHANGED tickVars

\* A wsi is allocated; its address was perhaps in use before.
NewClient(w) ==
  /\ Lws
  /\ wsis[w] = "free" /\ wsis' = [wsis EXCEPT ![w] = "client"]
  /\ UNCHANGED <<watchers, closing, desc, racer, owner, want>>

\* A descriptor for lws.
Opened(fd) ==
  /\ owner[fd] = "free" /\ owner' = [owner EXCEPT ![fd] = "lws"]
  /\ want' = [want EXCEPT ![fd] = {}]

\* It connects, or tries the next address: tjs__evlib_sock_accept.
SockAccept(w, fd) ==
  /\ Lws
  /\ wsis[w] = "client" /\ desc[w] = None /\ Opened(fd)
  /\ desc' = [desc EXCEPT ![w] = fd]
  /\ watchers' = DetachByFd(Detach(watchers, w, Primary), fd)
                   \cup {Created(w, Primary, fd, {}, FALSE)}
  /\ UNCHANGED <<closing, wsis, racer>>

\* The connection fails and lws closes the socket, without a call.
CloseBehind(w) ==
  /\ Lws
  /\ wsis[w] = "client" /\ desc[w] # None
  /\ desc' = [desc EXCEPT ![w] = None]
  /\ owner' = [owner EXCEPT ![desc[w]] = "free"]
  /\ UNCHANGED <<watchers, closing, wsis, racer, want>>

\* A socket races the primary one: tjs__evlib_sock_accept_parallel.
SockAcceptParallel(w, p, fd) ==
  /\ Lws
  /\ wsis[w] = "client" /\ desc[w] # None /\ racer[w][p] = None /\ Opened(fd)
  /\ racer' = [racer EXCEPT ![w][p] = fd]
  /\ watchers' = DetachByFd(watchers, fd) \cup {Created(w, p, fd, {}, FALSE)}
  /\ UNCHANGED <<closing, wsis, desc>>

\* tjs__evlib_io, on the primary or, for the time of the call, on a racer.
Io(w, fd, start, flags) ==
  /\ Lws
  /\ fd \in SocketsOf(w)
  /\ want' = [want EXCEPT ![fd] = Subscribe(@, start, flags)]
  /\ watchers' = IoByFd(watchers, w, fd, start, flags)
  /\ UNCHANGED <<closing, wsis, desc, racer, owner>>

\* tjs__evlib_io for a wsi that has no socket any more, which can only stop.
IoClosed(w, flags) ==
  /\ Lws
  /\ wsis[w] = "client" /\ desc[w] = None
  /\ watchers' = {IF x.wsi = w /\ x.pidx = Primary THEN Apply(x, FALSE, flags) ELSE x :
                    x \in watchers}
  /\ UNCHANGED <<closing, lwsVars>>

\* tjs__evlib_io_parallel.
IoParallel(w, p, start, flags) ==
  /\ Lws
  /\ racer[w][p] \in Fds
  /\ want' = [want EXCEPT ![racer[w][p]] = Subscribe(@, start, flags)]
  /\ watchers' = {IF x.wsi = w /\ x.pidx = p THEN Apply(x, start, flags) ELSE x :
                    x \in watchers}
  /\ UNCHANGED <<closing, wsis, desc, racer, owner>>

\* tjs__evlib_watcher_destroy with close_fd, for a watcher of each of the ws.
CloseLater(ws) ==
  [fd \in Fds |-> closing[fd] + Cardinality(FindByFd(ws, fd))]

\* A racer is torn down: tjs__evlib_close_handle_manually_parallel.
CloseRacer(w, p) ==
  /\ Lws
  /\ racer[w][p] \in Fds /\ racer' = [racer EXCEPT ![w][p] = None]
  /\ owner' = [owner EXCEPT ![racer[w][p]] = "evlib"]
  /\ closing' = CloseLater(Find(watchers, w, p))
  /\ watchers' = Detach(watchers, w, p)
  /\ UNCHANGED <<wsis, desc, want>>

\* A racer wins over the primary socket: tjs__evlib_promote_parallel.
PromoteParallel(w, p) ==
  LET losers == FindByFd(watchers, desc[w]) IN
  /\ Lws
  /\ racer[w][p] \in Fds
  /\ racer' = [racer EXCEPT ![w][p] = None] /\ desc' = [desc EXCEPT ![w] = racer[w][p]]
  /\ closing' = CloseLater(losers)
  /\ owner' = [fd \in Fds |-> IF fd # desc[w] THEN owner[fd]
                              ELSE IF losers = {} THEN "free" ELSE "evlib"]
  /\ \E winner \in Find(watchers, w, p) :
       watchers' = Rekey(watchers \ losers, winner, w, Primary)
  /\ UNCHANGED <<wsis, want>>

\* A racer takes the place of a primary socket that failed, without a call.
PromoteSilently(w, p) ==
  /\ Lws
  /\ racer[w][p] \in Fds /\ desc[w] = None
  /\ desc' = [desc EXCEPT ![w] = racer[w][p]]
  /\ racer' = [racer EXCEPT ![w][p] = "spent"]
  /\ UNCHANGED <<watchers, closing, wsis, owner, want>>

\* QUIC hands the socket to a fresh wsi, without a call.
Migrate(w, v) ==
  /\ Lws
  /\ wsis[w] = "client" /\ desc[w] # None /\ wsis[v] = "free"
  /\ wsis' = [wsis EXCEPT ![v] = "client"]
  /\ desc' = [desc EXCEPT ![w] = None, ![v] = desc[w]]
  /\ want' = [want EXCEPT ![desc[w]] = {}]
  /\ UNCHANGED <<watchers, closing, racer, owner>>

\* A server socket: tjs__evlib_init_vhost_listen_wsi with its io().  A descriptor
\* that a leftover watcher polls cannot be polled again (UV_EEXIST), which fails the
\* server; a leftover that does not poll is the one that io() finds.
Listen(w, fd) ==
  LET leftovers == FindByFd(watchers, fd) IN
  /\ Lws
  /\ wsis[w] = "free" /\ Opened(fd) /\ \A x \in leftovers : x.events = {}
  /\ wsis' = [wsis EXCEPT ![w] = "listen"] /\ desc' = [desc EXCEPT ![w] = fd]
  /\ watchers' = IF leftovers = {}
                 THEN watchers \cup {Created(w, Primary, fd, {Readable}, TRUE)}
                 ELSE IoByFd(watchers, w, fd, TRUE, {Readable})
  /\ UNCHANGED <<closing, racer>>

\* tjs__evlib_wsi_logical_close, the close of the socket by lws, and
\* tjs__evlib_destroy_wsi.  The racers were torn down before.
CloseWsi(w) ==
  /\ Lws
  /\ wsis[w] # "free" /\ \A p \in Racers : racer[w][p] \notin Fds
  /\ wsis' = [wsis EXCEPT ![w] = "free"] /\ desc' = [desc EXCEPT ![w] = None]
  /\ racer' = [racer EXCEPT ![w] = [p \in Racers |-> None]]
  /\ owner' = [fd \in Fds |-> IF fd = desc[w] THEN "free" ELSE owner[fd]]
  /\ watchers' = DetachAll(watchers, w)
  /\ UNCHANGED <<closing, want>>

\* tjs__evlib_destroy_pt, after lws_context_destroy closed every wsi.
DestroyPt ==
  /\ tick = "running" /\ \A w \in Wsis : wsis[w] = "free"
  /\ tick' = "closing" /\ watchers' = {}
  /\ UNCHANGED <<closing, pendingCloses, tickHandles, lwsVars>>

\* tjs__evlib_tick_close_cb: once for each of the two handles.
TickClosed ==
  /\ tick # "running" /\ tickHandles > 0 /\ tickHandles' = tickHandles - 1
  /\ pendingCloses' = pendingCloses - 1
  /\ tick' = IF pendingCloses' = 0 THEN "freed" ELSE "closing"
  /\ UNCHANGED <<watchers, closing, lwsVars>>

\* tjs__evlib_watcher_close_cb of a watcher with close_fd.
WatcherClosed(fd) ==
  /\ closing[fd] > 0 /\ closing' = [closing EXCEPT ![fd] = @ - 1]
  /\ owner' = [owner EXCEPT ![fd] = "free"]
  /\ UNCHANGED <<watchers, tickVars, wsis, desc, racer, want>>

\* tjs__evlib_init_pt sets the number of close callbacks to come.
CloseCount == 2
Init ==
  /\ watchers = {} /\ closing = [fd \in Fds |-> 0]
  /\ tick = "running" /\ pendingCloses = CloseCount /\ tickHandles = 2
  /\ wsis = [w \in Wsis |-> "free"] /\ desc = [w \in Wsis |-> None]
  /\ racer = [w \in Wsis |-> [p \in Racers |-> None]]
  /\ owner = [fd \in Fds |-> "free"] /\ want = [fd \in Fds |-> {}]

Next ==
  \/ DestroyPt \/ TickClosed
  \/ \E fd \in Fds : WatcherClosed(fd)
  \/ \E w \in Wsis :
       \/ NewClient(w) \/ CloseBehind(w) \/ CloseWsi(w)
       \/ \E v \in Wsis : Migrate(w, v)
       \/ \E fd \in Fds : SockAccept(w, fd) \/ Listen(w, fd)
       \/ \E flags \in SUBSET Events \ {{}} :
            \/ IoClosed(w, flags)
            \/ \E start \in BOOLEAN :
                 \/ \E fd \in Fds : Io(w, fd, start, flags)
                 \/ \E p \in Racers : IoParallel(w, p, start, flags)
       \/ \E p \in Racers :
            \/ CloseRacer(w, p) \/ PromoteParallel(w, p) \/ PromoteSilently(w, p)
            \/ \E fd \in Fds : SockAcceptParallel(w, p, fd)

Spec == Init /\ [][Next]_vars

----------------------------------------------------------------------------
\* The range of every variable; the tick is not freed before the last of its handles.
TypeOK ==
  /\ watchers \subseteq Watcher /\ closing \in [Fds -> Nat]
  /\ tick \in {"running", "closing", "freed"} /\ pendingCloses \in Int
  /\ tickHandles \in 0..2 /\ (tick = "freed" => tickHandles = 0)
  /\ wsis \in [Wsis -> {"free", "client", "listen"}]
  /\ desc \in [Wsis -> Fds \cup {None}]
  /\ racer \in [Wsis -> [Racers -> Fds \cup {None, "spent"}]]
  /\ owner \in [Fds -> {"free", "lws", "evlib"}]
  /\ want \in [Fds -> SUBSET Events]

\* Only one uv_poll ever references a descriptor, however often its number is used
\* again (lws-evlib.c:255).
OnePoll == \A x, y \in watchers : x.fd = y.fd => x = y

\* A slot has one watcher: the hash table never holds a key twice, so a lookup by
\* key finds the socket it is about.
OneSlot == \A x, y \in watchers : x.wsi = y.wsi /\ x.pidx = y.pidx => x = y

\* poll_cb dereferences the wsi of its watcher: no watcher outlives its wsi, also
\* after promotions and moves that lws did not tell of.
NoDangling == \A x \in watchers : wsis[x.wsi] # "free"

\* A descriptor that lws gave up is closed by exactly one close callback, and no
\* other one is: neither is it leaked, nor is the number closed when it is in use
\* again.
ClosedOnce ==
  \A fd \in Fds : closing[fd] = IF owner[fd] = "evlib" THEN 1 ELSE 0

\* A socket is polled for what lws asked for, through races, promotions and moves:
\* the calls for one socket never end up at the watcher of another one.
NotDeaf ==
  \A w \in Wsis : \A fd \in SocketsOf(w) :
    want[fd] # {} => \E x \in watchers : x.wsi = w /\ x.fd = fd /\ want[fd] \subseteq x.events

\* Only servers keep the loop alive: every other watcher is unref'd (the liveness
\* model, lws-evlib.c:31).
OnlyServersHold == \A x \in watchers : x.ref => wsis[x.wsi] = "listen"

\* The table of watchers is sound: one poll for a descriptor, one watcher for a slot, none
\* for a socket that was freed, and each close is made once.
TableSound == TypeOK /\ OnePoll /\ OneSlot /\ NoDangling /\ ClosedOnce

=============================================================================
