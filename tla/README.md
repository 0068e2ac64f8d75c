# TLA+ models of txiki.js

Formal models of the runtime core of txiki.js: the parts of `src/src/*.c` and
`src/src/js` in which threads, callbacks of libuv, the garbage collector and the
teardown of a runtime meet, and its network clients and servers over libwebsockets.
The modules are model-checked with TLC on small instances; all ten components are
proved about with TLAPS for every value of the constants.

Paths are relative to the repository root (`src/src/vm.c` is the file `src/vm.c` of
txiki.js; `vm.c:728` is short for line 728 of it).

    tlc -workers 2 -config Libuv.cfg MCLibuv.tla        # a run
    tlapm Streams_proofs.tla                            # the proofs of a module

`PROJECT.json` lists the components, the runs, the lines every definition translates
(`map`), what is hard to test (`hazards`), the disagreements found (`findings`) and
the theorems.

## 1. The system

One *runtime* is a QuickJS engine, a libuv loop and the state that joins them
(`TJSRuntime`). The main thread has one, every `Worker` has one on a thread of its
own. Inside a runtime everything runs on one thread: a callback of libuv calls a
JavaScript handler through `tjs_call_handler`, which drains the microtasks after it.
Threads meet in `mod_channel.c` (mailboxes under locks, woken with `uv_async_send`),
in `worker.c` (spawn, stop, join) and in the reference counts of shared buffers.
HTTP and WebSocket go through libwebsockets (lws), which calls back on the same thread:
`lws-evlib.c` lets libuv poll its sockets, `lws-utils.c` counts the connections that
keep the loop alive.

Five mechanisms cut across the components, and most of what is hard in this code is
where two of them meet:

* *The life of a wrapper.* A JavaScript object wraps a C struct with a libuv handle
  in it. The object can be collected while the handle still has callbacks to come:
  the finalizer closes the handle, and the close callback frees the struct; if the
  handle was closed before, the finalizer frees it. An operation in flight *pins* the
  wrapper (`private.h:73-76`, `tjs__pin`).
* *The teardown.* `TJS_FreeRuntime` detaches every pinned handle, destroys the
  timers, runs the loop for a bounded number of turns, frees the engine (which runs
  the remaining finalizers) and closes the loop, which must then have no open handle.
* *Reentrancy.* A handler may close, transfer, clear or drop the very object whose
  callback it is called from, or another one that is due next.
* *A second library with a life of its own.* lws closes, frees and moves sockets when it
  likes, may call a terminal callback more than once or none, and gives the addresses of
  freed connections and the numbers of closed descriptors to the next ones.
* *Ownership across threads.* Ports move between threads with messages still in
  their mailboxes; the sender must wake a loop that is not being closed.

### Components

| component | state | operations | what is hard | what makes it correct |
|---|---|---|---|---|
| message channels, worker pipe (`mod_channel.c`, `polyfills/message-channel.js`) | mailboxes (refcount, closed, owner, inbox), ports (rx, tx, async handle), batch of the callback | new, post with transfer list, start, close, transfer, adopt, finalize | posts of one thread against close, start and transfer of another; ports inside messages inside mailboxes; reentrant handlers | exact refcounts, no use after free, one receiver, order, no lost wake-up |
| workers (`worker.c`, `polyfills/worker.js`, `js/worker`) | thread, its runtime, the pipe | spawn, terminate, self.close, finalize | `terminate()` joins a thread while holding the parent; both ends race | terminate returns, the worker's runtime is freed by its parent after the join |
| broadcast channels (`mod_channel.c`, `polyfills/broadcast-channel.js`) | global list and lock, inbox per channel | new, post, close, finalize | the walk of the list against closes on other threads | all channels see one order, exactly what was posted |
| runtime and event loop (`vm.c`) | microtasks, list of pending rejections, stop request, prepare/idle/check handles | turn of the loop, drain, track a rejection, stop, run again, beforeunload | blocking with work left, walking a list that handlers change, stop at any moment | nothing left behind, rejections reported exactly once and late enough |
| timers (`timers.c`) | table, identifiers, libuv heap and ready queue | set, clear, fire, destroy | clear from a handler, of oneself or of the next; delay 0; wrap of identifiers | cleared is silent, closed exactly once, none left at the end |
| streams (`mod_streams.c`, `core/direct-sockets/utils.js`, `tcp.js`, `pipe.js`) | handle, requests in flight, pin; halves of the web streams, closed promise | connect, listen, accept, read, write, shutdown, close, abort | halves ending independently; collection with requests in flight; failed accept | pinned while active, promises settled, everything freed |
| handle pins (`vm.c`) | list of pins with detach hooks | pin, unpin, detach all | taken and dropped from callbacks that may free the wrapper | the teardown finds every active handle |
| TLS, UDP (`mod_tls.c`, `mod_udp.c`) | as streams, and the handshake | as streams | handshake against close | as streams |
| processes (`mod_process.c`) | handle, exit status, pipes, pin | spawn, kill, exit | the exit callback drops the pin before it closes | exit reported once, pipes drained |
| file system (`mod_fs.c`, `core/fs.js`) | one request per call, the descriptor | open, read, write, close, watch | a request in flight on a file that is closed | no descriptor used after close |
| signals (`signals.c`) | one handle per listener | add, remove | a signal pending when the listener goes | none delivered after removal |
| libwebsockets (`lws-evlib.c`, `lws-utils.c`) | table of watchers, one poll per descriptor; tick; count of connections | subscribe, adopt, race, promote, rekey, close, destroy | lws closes and moves sockets without a call, numbers and addresses are reused | one poll per descriptor, no watcher of a freed wsi, nothing asked for is missed, only servers hold the loop |
| HTTP client and fetch (`httpclient.c`, `polyfills/http-client.js`, `fetch`, `xhr.js`) | a native client per hop, redirect count, body streams in both directions | open, send, abort, redirect, receive, time out | abort, timeout and redirect with a body in flight; terminal callbacks that repeat | torn down once, the promise settles, a body is whole or fails, the upload moves |
| WebSocket (`ws.c`, `polyfills/ws.js`, `ws-stream.js`) | close code, write queue, pin; state, promises and halves | connect, send, close, abort, receive | crossing closes, close while connecting, late Blobs, teardown | one close event with a true code, messages in order, pinned and counted exactly |
| HTTP server (`httpserver.c`, `core/httpserver.js`) | vhosts, requests, user pointers of connections, streamed bodies, upgrades | accept, dispatch, respond, stream, upgrade, close | responses before, inside or after the callbacks of their request; reuse of connections; close at any time | one handler per request, framed responses, close resolves |
| EventSource (`polyfills/eventsource.js`) | readyState, reconnect timer, parser, last event id | connect, read, reconnect, close | close at every await, breaks in the middle of an event | each event once, one attempt, silence after close |
| AbortController, EventTarget | dependencies of signals, listener lists | abort, any, timeout, dispatch | listeners changed during dispatch | abort once |
| SQLite (`mod_sqlite3.c`, `stdlib/sqlite.js`) | database, statements | prepare, step, finalize, close | statements that outlive their database | |
| structured clone, WebAssembly, crypto, FFI, compression, text and URL, import maps, buffers, system queries, stdio, storage, console, CLI, bundles | mostly data, synchronous | | bounds and formats | |

`PROJECT.json` gives the files, the status and the reason for each of them.

## 2. The modules

| module | models | lines it is about |
|---|---|---|
| `Channel` | the transport of ports and of the worker pipe, with the life of the runtimes at its ends | `mod_channel.c`, `message-channel.js`, `worker.c`, `vm.c` |
| `ChannelProps` | what that transport guarantees (needs `FiniteSets`) | |
| `Channel_proofs` | its inductive invariant, proved | |
| `BroadcastLog` | what `BroadcastChannel` promises: one log, a position per channel | abstract |
| `Broadcast`, `Broadcast_proofs` | how it is done; registry and wake-ups, and that it implements `BroadcastLog`, proved | `mod_channel.c`, `broadcast-channel.js` |
| `EventLoop`, `EventLoop_proofs` | turns of the loop, microtasks, rejections, stop, the ends of `TJS_Run` | `vm.c`, `worker.c`, `utils.c`, libuv's loop from its use |
| `Timers` | `setTimeout` and its kind; proved about in `EventSource_proofs` | `timers.c`, libuv's timers from their use |
| `Streams`, `Streams_proofs` | TCP and pipe sockets and servers, pins, collector, teardown; proved about | `mod_streams.c`, `direct-sockets/utils.js`, `tcp.js`, `vm.c` |
| `EvLib`, `Lws_proofs` | the event library under lws: watchers, descriptors, races; proved about | `lws-evlib.c` |
| `WebSocket`, `WebSocket_proofs` | clients of both kinds, close handshake, write queue, pins, teardown; proved about | `ws.c`, `polyfills/ws.js`, `ws-stream.js`, `lws-utils.c`, `vm.c` |
| `Fetch`, `Lws_proofs` | one fetch() with its redirects, aborts and bodies; proved about | `httpclient.c`, `polyfills/http-client.js`, `fetch/fetch.js` |
| `EventSource`, `EventSource_proofs` | one EventSource over a fetch and a server that resumes; proved about | `polyfills/eventsource.js` |
| `HttpServer`, `HttpServer_proofs` | a server, its vhosts, connections, requests and WebSockets; proved about | `httpserver.c`, `core/httpserver.js` |
| `MC*` | instances for TLC: symmetry, small sets; `MCLibuv` has the timers and the event library side by side | |

The modules are not composed into one: each component keeps the part of the runtime
that it depends on (in `Channel` and `Broadcast` the phases of a runtime, in `Timers`
and `Streams` the phases of the teardown, in `WebSocket` both), and the parts agree on where handlers run,
when the collector runs and what `TJS_FreeRuntime` does in which order.

### Channel

State. `alive`, `refs`, `closed`, `owner`, `inbox` are the fields of `TJSMailbox`;
`state`, `rx`, `tx`, `home`, `handle`, `wake` those of `TJSPort` and of its
`uv_async_t`; `phase`, `stop`, `near`, `far` the runtimes and the two ends of a worker
pipe; `todo`, `cur`, `batch`, `busy` the C stack of each thread.

Steps. A C function is cut where another thread can look: at a critical section, an
atomic refcount operation, `uv_async_send`, `uv_close`. What is left of the function a
thread is in is the stack `todo[t]`. `mailbox_destroy` frees messages, which free the
ports in them, which close mailboxes, and so on: each level pushes on the stack, so
the recursion has no depth built into it and other threads interleave with it.

| action | code |
|---|---|
| `NewChannel`, `SpawnWorker` | `tjs_channel_new`, `tjs_worker_constructor` |
| `PostMessage`, `PostStep` | `tjs_port_postmessage` with `port_do_transfer`, and `port_post` under the lock |
| `Start`, `StartStep`, `WakeStep` | `tjs_port_start` and the flush |
| `Close`, `Finalize`, `CloseStep`, `UnrefStep`, `FreeStep`, `UvCloseStep` | `port_do_close`, the finalizer, `mailbox_close`, `mailbox_unref`, `channel_msg_free` |
| `LoopWake`, `SpliceStep`, `Dispatch`, `HandlerReturn`, `DropRest`, `CallbackReturn` | `port_async_cb` and `port_dispatch_one` |
| `Stop`, `Terminate`, `JoinStep`, `ShutStep` | `TJS_Stop`, `tjs_worker_shutdown` |
| `LoopReturn` ... `LoopClosed`, `CloseCb` | `TJS_Run` and `TJS_FreeRuntime` |

### Broadcast

`bc_list` and `lock` are the global registry, `rest` and `sending` the position of a
post in it. A post takes the lock (`PostMessage`), visits the channels one by one
(`Walk`, `Send`) and lets go (`Unlock`); closing takes the list lock and the inbox
lock one after the other (`Close`, `Unlink`, `Drop`), and the callback swaps the
inbox out (`LoopWake`, `Splice`, `Dispatch`). The list is walked in any order.

### EventLoop

`pc` is the phase of `uv_run` or of `TJS_Run`; `stk` the functions that are active,
top first: a handler, a listener, a microtask, the drain that runs it. `jobs` counts
microtasks; `pending` is `pending_rejections` with the two cursors `el` and `el1` of
the walk; `ops` the operations in flight by kind, as far as they differ in the phase
that calls back. A worker differs from the main runtime (`is_worker`) in what an
uncaught exception does, in `self.close()` and in the end of `TJS_Run`. A listener may
attach a handler to any promise (`Handle`), which frees its entry of the list, also the one
on which the walk stands (`Stale`); the walk then uses freed memory, and what follows is
undefined: the model's run ends there (`UseFreed`). `reaped` counts the jobs that the walk
itself queues when it frees an event.

### Timers

`table`, `next_timer`, `id`, `interval` are those of `timers.c`; `heap`, `ready`,
`due`, `repeat` those of libuv, whose turn over the timers is `RunTimers`, `Fire`,
`HandlerReturn`, `TurnEnd`. Delays are signed and times unsigned integers of one width
(`Modulus`, 2^64 in the code), because the code passes an `int64_t` on as `uint64_t`.
Scripts run before and in the turns of the teardown (`phase`), which deliver messages of
ports: `late` are the timers they set there. `FireFreed` is such a timer that calls back
while the loop is closed, with an engine that was freed.

### Streams

`handle` and `doing` are the libuv handle and the requests and watchers on it,
`pinned` the pins, `finalized` the wrappers that were collected; `active`, `usable`,
`answering`, `settled` are the JavaScript side: which halves are not over, which web
streams are neither closed nor errored, which write and `closed` promises are open.
A callback of libuv takes two steps, up to the end of its handler (`ConnectCb`,
`ReadCb`, `WriteCb`, `ConnectionCb` ...) and what C code does after it
(`CallbackEnd`), since a script or a collection in between is where it goes wrong.
`Collect` is the garbage collector, at any time.

### EvLib

`watchers` is the hash table of `lws-evlib.c` as a set of records (its key is the pair
`wsi`, `pidx`), `closing` the polls that will close their descriptor, `pendingCloses`
and `tick` the struct of the tick. `wsis`, `desc`, `racer` and `owner` are what lws
knows, and `want` what it asked for. Each function of the library is an action or an
operator; the actions without a call (`CloseBehind`, `PromoteSilently`, `Migrate`) are
what lws does behind its back, after the comments of the code.

### WebSocket

`wsi`, `pinned`, `pending`, `wanted`, `timer`, `close_code`, `conns` are `TJSWs` and
what lws and `lws-utils.c` keep for it; `readyState`, `blobs`, `stream` the two classes;
`todo` the rest of the callbacks whose handler runs. A callback is an action (`Established`,
`Receive`, `Writeable`, `PeerClose`, `Closed`, `ConnectionError`), with its second half
in `CallbackEnd`; scripts (`Connect`, `SendCall`, `Close`, `StreamWrite`, `EndHalf`,
`Abort`) and `Collect` come in between. `DestroyWsi` is the teardown.

### Fetch

`hop[h]` is the `HttpClient` of `httpclient.c` for the h-th hop with its connection,
`client` that of `http-client.js`, `fetch` the promise, the stream and the timers of
`fetch.js`, `upload` the reads of the request body. The callbacks of one event of lws are
actions of their own (`event`), because microtasks run between them. `Ends` is every way
in which a client reports that it is over, up to the opening of the next hop. A whole
body that is empty counts as none (`httpclient.c:473`): `SendRequest` has `body` only with
chunks.

### EventSource

`pc` is where the coroutine `#connect` of each connection is: an action runs from one
await to the next, or to a listener, in which `Close` may come. The stream is cut into
lines and halves of lines, and a connection may break after any of them.

### HttpServer

`req` and `wsi` are the requests and what lws and the code keep for a connection or
stream, `js` where `#handleRequest` is, `body` the stream of a chunked request body,
`frame` the callback that goes on with its request when the script comes back. Everything
a script does may come inside such a callback. Freed memory that is used, and an error
that stops the program, end the model's run (`stopped`), as they end the program.

## 3. The runs

Deadlock is not reported by any run (`CHECK_DEADLOCK FALSE`): a runtime really ends,
and then nothing happens any more. That nothing hangs before is stated as a liveness
property where the code promises progress.

### Runs that pass

`channel_ports` (646,055 states). Two threads, four mailboxes, ports posted over ports
and to the other thread, which may be terminated and torn down while it has them (the
teardown of both runtimes is in the next run; the theorem `MemorySafe` has no such bound). `Memory` counts every holder of a mailbox (ports, ports in
messages wherever the message is, functions about to drop a reference) and compares it
with the refcount, and says what that count is for: nothing freed is used, and what is
freed was closed. `Ownership`: a mailbox has one receiving end wherever the port went, and
the two assertions of the code (lines 478 and 636) hold. `InOrder`: messages are delivered
in the order they were posted and none twice, across transfers of the receiving port in
the middle of a batch.

`channel_pipe` (104,287 states). A parent and a worker over the pipe between them with
`terminate()`, `self.close()` and both teardowns: `Memory`, `NoLostWakeup`; `Delivered`:
what waits for a started port reaches it, or the port or its loop ends;
`TerminateReturns`: the join in `terminate()` ends.

`broadcast` (330,893 states). Three channels of one name on two threads, one of
which is torn down. `Ordered` is the refinement of `BroadcastLog`, with the log in the
order in which the posts took the lock. `Exact` is the invariant under it: batch, inbox
and the position of the walking post are together exactly what a channel is owed. `Posts`:
a post touches only live channels, leaves nothing in a closed inbox and loses no wake-up.

`loop` (458,294 states). Both kinds of runtime, two promises. `Rejections`: the list of
pending rejections is what it should be at every moment, its walk loses no entry but one
that a script handled under it, and nothing is reported while a microtask waits that could
handle it (at most those wait that the walk queued itself); `NothingWaits`: the poll does not
block and `TJS_Run` does not return with work left; `Reported` and `StopObeyed` are their
liveness counterparts. Scripts may handle any promise in this run; what comes of it when the
walk stands there is the run `loop_handled` below.

`libuv` (1,286,376 states). The two components that keep tables of libuv handles, side by
side: they share nothing, and a behaviour is one of either. Timers: three, with delays -1, 0
and 1 and identifiers that wrap at 2. `Registry`: what is destroyed is open (the check at
line 54), a timer is open as long as it will call back, and none is open when the engine has
been freed, except those that were set after `tjs__destroy_timers`; `ClearedIsSilent`: a
cleared timer never calls back, due or not. Event library: two wsis with two racers each,
three descriptors. `TableSound`: one poll per descriptor, one watcher per slot, none of a
freed wsi, and a descriptor is closed by the library exactly if it was given up to it;
`NotDeaf`: what lws asked for a socket is polled for on it; `OnlyServersHold`.

`streams` (403,705 states). Two sockets, or a server and the client it accepts.
`Pins`: what connects, reads or listens is pinned, no callback is owed to a struct that
was freed, and the teardown leaves every handle closed and every struct freed;
`WritesAnswered`: an open write promise has a request that will settle it;
`ClosedSettled`: the `closed` promise is settled exactly when both halves are over;
`TeardownEnds`.

`websocket` (1,428,417 states). A WebSocket and a WebSocketStream. `Lifetimes`: what lws
will call back is pinned, not collected, and counted exactly, and the loop does not end
before every socket was told that it is closed. `EventsTrue`: the order of events, a
close code that one side gave (or 1005, 1006 exactly when nobody did), and the ends of a
stream. `MessagesKept`: no message waits on a connection nobody will call back, texts stay
in order. `Closes`: closing ends, and in the teardown no handler runs.

`eventsource` (233,989 states). Two connections, two events in three lines each, cut
anywhere. `ExactlyOnce`: each event once and in order, with its id; `OneConnection`: one
attempt or one timer; `CloseIsFinal`: after `close()` no event, and everything ends.

`fetch` (222,764 states). One redirect, two chunks each way, the three redirect modes.
`ClientsSound`: the loop is held once for each client that is not torn down, at most one
waits for its response; `BodySound`: a body that ends is whole and of one response, no
handler trips over a stream that scripts ended, an abort after the request was sent wins;
`UploadSound`: chunks and end in order, and what is left to write has somebody who will
write it; `CompletionSettles`: the promise settles and the loop is let go.

`httpserver` (704,986 states). An HTTP/1.1 connection and a stream of HTTP/2, two requests,
with HTTP/3. `RequestsExact`: the table of requests and the user pointers are
one to one, a handler runs once per request, with the whole body if its length is known;
`Exchanges`: on a connection the responses are framed and in the order of the requests,
and a body stream is left open only by a response that came before its end; `WriteWanted`:
what is queued has asked for a callback; `ServerAlive`: the pin outlives the vhosts, and
WebSockets are counted exactly; `ClosedResolves`: `close()` resolves,
with any requests under way but an upload of chunks (see below).

### Runs that find a disagreement

`loop_handled` checks what `vm.c:445-446` says: a promise that is handled is removed from the
list of pending rejections "so no event fires". It is removed (`vm.c:415-427`), but the walk
of `vm.c:899` keeps its cursors. An `unhandledrejection` listener that attaches a handler to
the promise of the next entry makes the walk go on with an entry that was freed, and
dispatch its event; one that handles the promise of its own event frees the entry which the
walk then unlinks and leaves. `HandledIsSilent` is violated: the walk comes to a promise that
is handled.

`fetch_abort` checks what `tests/test-fetch-stream-abort.js:26` says: a fetch aborted
before its response must throw. The code looks at `signal.aborted` when `fetch()` is called
and adds the listener after an await (`fetch.js:298`, `225-227`), so an abort in between
is lost. The test passes because it aborts later.

### Other behaviour that differs from a comment or surprises

Met while modelling and contained in the models; the properties above are stated so that
they allow it.

Channels and workers. A message posted over a port of another mailbox can close a cycle
that is never freed (`mod_channel.c:533` catches only a port in its own mailbox, against
lines 40-41). A handler that transfers its own port drops the rest of the batch
(`mod_channel.c:429`). Message handlers may be called in the turns of the teardown
(`vm.c:728`), after the timers were destroyed, against `vm.c:656-658`.

Event loop. A listener that handles the promise at which the walk of the rejections stands
(run `loop_handled`). A microtask that throws ends the drain (`vm.c:884`), so rejections are
reported that the next one would have handled; rejections of a `beforeunload` listener
are not reported (`vm.c:1025`); a main loop that was stopped is run again if a microtask
was queued late (`vm.c:1017`).

Timers. An interval with a delay of 0 calls back once and is never freed
(`timers.c:142`). A negative delay is a very large unsigned one: the timer is never due
and keeps the loop alive. A message handler that is called in the turns of the teardown may set a
timer after `tjs__destroy_timers`; unless it fires or is cleared in those turns, its handle
is open when the loop is closed (against `vm.c:759`), and it may call back with a freed
engine. `AllClosed` excepts these timers.

Streams. A client that is gone before its address is asked for stops the server's runtime
(`utils.js:377`, against 349-354). A socket that is only written to is not pinned
(`mod_streams.c:288`): it may be collected with a write in flight, whose promise never
settles (against `private.h:73-76`), or its write is canceled after the engine was freed
(against `vm.c:722-725`). After a write that failed, the writable half is never over and
`closed` stays pending until the script calls `close()` (`utils.js:230`).

WebSocket. The handler of `open` sets OPEN without looking (`ws.js:139`), so a `close()` or
an abort of a connecting socket is undone by a handshake that finishes; close code and
reason may come from different sides (`ws.c:265`); `wasClean` is true for a connection
that drops after `close(1000)` (`ws.js:159`); a Blob is overtaken by later texts and may be
queued after `close()` (`ws.js:212`); messages queued while the peer's close is echoed
are never written.

EventSource. `close()` right after a connect leaves the request, whose abort listener is not
there yet, until the server answers.

Fetch. A redirect to where no connection can be opened throws in the callback of the hop
before, which stops the program (`http-client.js:262`); if the first open throws, an entry
of `activeClients` stays (`fetch.js:83`); after a 307 or 308 a streamed request body goes
on with what is left of it; a 304 counts as a redirect; `open()` on a busy XMLHttpRequest
mixes the events of both requests (`xhr.js:322`, not modelled).

HTTP server. A handler that answers with an empty body inside the callback of a body chunk
frees the request that the callback goes on with (`httpserver.c:1075`, 1262). A handler
that cancels the body stream makes the next chunk throw, which stops the program
(`core/httpserver.js:91`); so does a peer that disconnects in the middle of a chunked body
after `close()`, because the end of the upload calls the function that `close()` set to
undefined (`httpserver.c:1253-1258`, 1722-1723): `close()` then does not resolve, and
`ClosedResolves` excepts it. A handler that answers before it read the body
leaves the stream and its entry for ever. An accepted upgrade whose 101 is not sent leaves
an entry keyed by an address that is used again (`httpserver.c:627`). A vhost that dies
before its protocol was initialised does not report, and `close()` does not resolve
(the comment at `httpserver.c:1269-1275`). A POST on HTTP/2 without a content-length is
dispatched without its body (`httpserver.c:948`).

lws. A server on the number of a descriptor that a leftover watcher still polls fails
(`lws-evlib.c:561`).

### Bounds

| bound | value | why it is enough |
|---|---|---|
| `MaxCalls` | 4 to 7 | calls of scripts. Everything else (functions, callbacks, the loop, the teardown) is unbounded. Seven cover connect, two halves, a write, the end of one half, close and one more; five posts, transfers and closes cover a port that travels in a message inside a message and comes back. In `EventLoop` and in `Channel` the calls of listeners and finalizers of a script count as well. |
| `Mailboxes`, `Ports` | 2 or 4, 2 or 7 | two channels are the least in which a port travels over a port; `MCChannel` assumes that there are enough ports for every adoption, so that this bound never stops a delivery |
| `MaxTransfer` | 0 or 1 | the ports of one list are handled one after the other; the model takes any number |
| `Mortal`, `Collectable` | some | which runtimes end and which ports are collected in a run |
| `Threads` | 2 | a mailbox has one receiver and one sender; a broadcast needs two for a race on the lock, with three channels for two receivers of one post |
| `Horizon`, `Modulus`, `MaxId`, `Delays` | 2, 16, 2, {-1, 0, 1} | a delay below, at and above zero, with an interval of 1 that is due twice; the clamp of the sum is reached by the negative one; three timers with two identifiers give a clash. Timers and descriptors of `MCLibuv` have the same three model values, for the symmetry |
| `Streams` | 2 | a server and its client; two sockets do not share state |
| `Wsis`, `Racers`, `Fds` (`EvLib`) | 2, 2, 3 | the least in which a descriptor moves between wsis, two sockets race with a primary one, and a number is used again; the proofs hold for any |
| `Sockets`, `Codes`, `MaxCalls`, `MaxEvents` (`WebSocket`) | 2, {1000, 3000}, 4, 2 | one socket of each class; two codes make crossing closes differ; connect, two sends and a close, or connect, close and two more; a peer sends no message to a socket that had two events |
| `MaxConns`, `MaxEvent` | 2, 2 | a break in any place of an event and the connection that resumes after it, with one more event |
| `MaxRedirects`, `MaxData`, `MaxChunks`, `FailingHops` | 1, 2, 2, {1, 2} | one redirect that is followed and one too many; bodies that are cut in the middle; each hop may fail to open |
| `Wsis`, `Muxed`, `Http3` (`HttpServer`) | 2, one, {TRUE} | connections of both kinds; with HTTP/3 the server has two vhosts, which covers the one of a server without (the constructor of which is the same action) |
| `MaxRequests`, `MaxBody`, `MaxPieces`, `MaxChunks`, `MaxSends` | 2, 1, 2, 1, 2 | two requests on one connection or one on each; a chunk, its end, and a response and a chunk that are sent in parts |

Every run is checked to the end of its state space.

## 4. Fairness

Only what the code's scheduling justifies; everything is weak fairness unless it says
otherwise, and no script is ever forced to do anything.

* `Channel`: each thread goes on with the C function it is in and its handlers return
  (`Step`); its loop serves every async that was sent and every handle that is closing
  (`LoopWake`, `CloseCb`); a loop that was stopped returns, and the teardown, once
  begun, goes through its phases, in which the engine finalizes what is left. Threads
  are scheduled by the operating system; libuv serves all pending asyncs of a turn. A
  `join` is not assumed to end: that it does is `TerminateReturns`.
* `Broadcast`: the same, `Step`, `LoopWake`, and the finalizers of a runtime that is
  being freed.
* `EventLoop`: JavaScript functions return and the loop takes its turns. `Stopped` is
  strongly fair: the async of a stop is pending in a poll that is entered again and
  again, and libuv looks at it in each. Nothing is assumed of operations: a timer or
  a read may never call back, so the loop may block for good, unless there is work,
  which is what `Reported` is about.
* `Streams`: only what libuv does by itself, the close callback of a handle that is
  closing and the canceled requests before it, and the next step of the teardown.
  Nothing is assumed of the network: a peer may never answer and never take what was
  written, and `TeardownEnds` holds all the same.
* `Timers`, `EvLib`: no liveness property; whether time passes or a socket becomes ready
  is left open.
* `WebSocket`: callbacks and microtasks that began are finished; lws fires the timeout
  that `close()` asked for, answers the close of a peer, and ends a connection attempt one
  way or the other (it has a timeout for that). Nothing is assumed of open connections.
* `EventSource`: microtasks and the timer run; a request is answered or its connection
  breaks, without which `close()` could not end the request it does not reach.
* `Fetch`: the microtask that sends, the zero timers and the callbacks of one lws event
  run; lws closes what was marked to be closed. Neither a response nor progress of an
  upload is assumed.
* `HttpServer`: callbacks return; lws drops the connections of a server that closes, calls
  their close callbacks and destroys the vhosts. Handlers need never answer.

## 5. What is proved

Proofs are in `Channel_proofs`, `Broadcast_proofs`, `Streams_proofs`, `Lws_proofs`,
`EventLoop_proofs`, `WebSocket_proofs`, `EventSource_proofs` and `HttpServer_proofs`; they hold
for all values of the constants that satisfy the named assumptions (`ChannelAssumption`,
`BroadcastAssumption`, `TimersAssumption`, `StreamsAssumption`, `EvLibAssumption`,
`EventLoopAssumption`, `WebSocketAssumption`, `EventSourceAssumption`, `FetchAssumption`,
`HttpServerAssumption`), hence for any number of threads, mailboxes, ports, channels,
names, messages, transferred ports, timers, delays, streams, wsis, racers, descriptors,
promises, sockets, redirects, chunks of a body, requests and connections of an HTTP server,
and for 64-bit times.
`MaxCalls` may be any number, so the bound on calls is none.

`Channel_proofs`: `TypeCorrect`, `OwnersUsable`, `WakeupsKept`, and after them
`MemorySafe`, `OwnershipHolds` and `OrderKept`.

The two safety properties among the first three are about a hand-shake: a post finds the owner of a mailbox
under its lock and wakes the owner's handle. They are not inductive. That the owner's
handle is open needs to know that a port stops being an owner before its handle is
closed, although closing takes several steps in between; and that a wake-up is not lost
needs to know what a thread that is in the middle of `start()` or of the callback is
still going to do. So the invariant is about the stacks:

    IInv == TypeOK /\ PortOK /\ TodoOK /\ BusyOK /\ OwnerOK /\ NoLostWakeup

* `PortOK`: a live port has its mailboxes, a thread and an open handle.
* `TodoOK`: what a thread is about to do to a port is done on the port's own thread
  and the port is still in the state the operation was meant for, and operations that
  take a live port are at the bottom of the stack, so that nothing can come between.
* `OwnerOK`: the owner of a mailbox is a started port that receives there, or one
  that was just closed and whose thread's very next step closes that mailbox.
* `BusyOK`: a handler runs in a callback.

Preservation is proved action by action (`ScriptType`, `StepType`, `LoopType` for the
types, `ScriptKeeps`, `StepKeeps`, `LoopKeeps` for the rest); actions that treat the
stack alike share a lemma (`NeutralKeeps`, `AddedKeeps`, `DetachKeeps`, ...).

`MemorySafe` and `OwnershipHolds` are proved from

    Full == IInv /\ HeldInv,   HeldInv == Counts /\ Sides /\ StackOK /\ CallbackOK /\ PipeOK

* `Counts` is the law of each mailbox: how many hold its receive side, its send side, a
  close and a reference to be dropped, wherever they are (a port, a message in an inbox, in
  a batch or on a stack, a function that has not returned), against `refs`, `alive` and
  `closed`. The refcount alone is not inductive: that the last reference goes after the
  close is known only because the receive side and the close that follows it are counted
  together, as exactly one until the mailbox is closed; and a new mailbox may be given two
  references only because nobody holds one that was not made yet.
* `Sides`: a port that is not live has no mailboxes, a started one owns its receive side.
* `StackOK` says what is true of the operation at each position of a stack: a close is
  followed at once by the drop of the same reference, so no other step can let go in
  between; a post is at the top, made by a live port that sends to that mailbox, which
  therefore stays live; a port that is woken, started or put in order is live, and one that
  is to be shut has not been freed, with a `join` above it at most. `CallbackOK` is the
  same for the callback and the batch it holds.
* `PipeOK`: each worker has a near end of its own, and until the worker is gone that port
  is live or its runtime is just being freed, which is why `terminate()` may shut it.

A holder is a pair of a position and a kind, so the numbers are cardinalities of finite
sets, and the lemmas about what a step moves are about these sets: what is put on a stack
or in an inbox adds what it holds (`Parts`, `TopWeight`, `Freeing`, `EmptyingCount`), and a
step leaves the sum as it is, or changes it by what is gained and dropped. Since a transfer
carries any number of ports and a drained inbox any number of messages, that is shown for
sequences of any length, without induction: what is held is a union over positions.

`OrderKept` adds `Order`: for each mailbox, what was delivered, what a callback took and has
not delivered, what waits in the inbox and what some thread is about to post are, in this
order, rising numbers. It needs `Full`: only one callback takes from a mailbox at a time
because only one port receives there, and what a transfer leaves in the batch is put back
in front of the inbox before another port can start.

The proof of `Counts` found an error of the model. For messages with two or more ports,
`Fresh` let both be adopted into one new port; the runs transfer at most one port for each
message and could not show it. The definition now takes distinct ports, as the code
allocates one for each.

The timers are in `EventSource_proofs`, which extends both modules (they share no name).
`TimersTypeCorrect`, `CheckHoldsAlways`, `NoZombies`, `TimersClosed`,
`RegistrySound` (the three before it together) and `ClearedStaysSilent` (an action
property) are all from

    TimersSound == TimersTypeOK /\ TimerTable /\ TimersRearmed

* `TimerTable`: the table holds exactly the open timers and libuv knows no other. The
  properties only need one direction of it, but a step that closes a timer keeps
  either only with the other.
* `TimersRearmed`: an open timer is armed, or its handler is running; an interval whose
  handler is running was armed again before, unless its delay is 0; and a delay is
  converted to 0 only if it is 0, which is where the width of the integers matters.

That the teardown leaves no timer open but late ones is the last part of `TimerTable`: from
`tjs__destroy_timers` on, what is in the table was set later. A script in the draining turns
may set and clear timers; that it cannot open an older one again needs the table to be
exactly the open timers.

`Broadcast_proofs`: `PostsReachLiveChannels`, `ClosedGetNothing`, `WakeupsArrive` and, of
all three, `PostsSound`, from

    Sound == Shapes /\ LockOK /\ \A t : Closes(t) /\ \A c : Linked(c) /\ Emptied(c) /\ Woken(c)

What inboxes hold does not matter for it, only whether they are empty. The post reads
the closed flag of a channel without the lock under which it is written, so it may
queue a copy on a channel that is being closed. That this is harmless needs the order
of `broadcast_do_close`: `LockOK` says that what a walk has still to visit is in the
list, and `Closes` that a thread which is about to empty an inbox, or to close the
handle, has taken its channel out of the list before. `Emptied` and `Woken` are
`ClosedStaysEmpty` and `NoLostWakeup` for one channel. Steps that touch none of this
share `SameSound`.

`Broadcast_proofs` also has `OwedExactly` and, with it, the refinement `ImplementsLog`, from

    Sound /\ Data,   Data == Typed /\ \A t : Working(t) /\ \A c : Held(c) /\ \A c \in Open : Owes(c)

`Owes(c)` is `Exact` for one channel: batch, inbox and the copy still to come are a rising
sequence (`Rising`), whose members are what was posted for the channel since the last
message it was given. Where a message is changes with most steps; that it is owed changes
with three only. A post adds the end of the log to the sequence (`PostData`), a dispatch
takes its head, which is the least because the sequence rises (`FirstIsNext`,
`DispatchData`), and a new channel begins empty at the end of the log (`NewData`). The
other steps move messages within the sequence: the walk from the copy to come into the
inbox, the callback from the inbox into the batch, which `Working` and `Held` show to be
empty then. `LogStep` maps each step to one of the log or to none: only the dispatch needs
more than the guards, namely that the head is the next entry for the channel.

`Streams_proofs`: `ActivesPinned`, `StructsAlive`, `AllWritesAnswered`,
`ClosedIsSettled`, `EverythingFreed` and `PinsHold` (the first two and the last together), from

    Sound == TypeOK /\ Current /\ \A s : Local(s)

`Local(s)` is about one stream: `Unused` (a stream that was not allocated is nowhere),
`Ended` (what a closed handle can still call back), `Collected` (what is left of a
stream whose wrapper is gone), `Staged` (lookup, connect and the web streams come one
after the other), `Pinned`, `Answered` and `Pending` (both ends of the `closed`
promise), and `Gone` (who was finalized with the engine). The properties are not
inductive: a collected struct is not freed under a request only because a stream with a
read or a connect is pinned, and that pins are never released too early needs to know
which requests a stream in its stage can have; likewise `ClosedSettled` needs the state
of both halves (`Pending`). Script calls and steps of the loop keep the types, the parts
of each stream and `Current` in lemmas of their own.

`Lws_proofs`, of `EvLib`: `TableAlwaysSound`, `NeverDeaf`, `ServersHold`, from

    Sound == TypeOK /\ Table /\ ClosedOnce /\ Ticks
    Table == OnePoll /\ OneSlot /\ NoDangling /\ Races /\ Primaries /\ Users /\ States /\ NotDeaf

The table is kept by a library that is not told of everything, so the invariant relates it
to what lws has. `Users`: a descriptor that lws uses is its own and is used once, which is
why detaching by descriptor never takes the watcher of a live socket. `Races`: the racers
of lws and the watchers with a racer index correspond, so the slot of a new racer is free.
`Primaries`: a wsi with a primary watcher has a watcher for its present socket; that watcher
may be another one, since lws promotes and moves sockets silently, and only the lookup by
descriptor in `tjs__evlib_io` finds it. `States`: what a wsi in its state may have. What
`tjs__evlib_io` does to the table is first reduced to four cases (`IoTable`), which the
lemmas about `Io` and `Listen` share. `ClosedOnce` counts the polls that will close a
descriptor with the cardinality of sets of one element.

`EventLoop_proofs`: `LoopNeverWaits`, from

    IInv == TypeOK /\ Stacked /\ Settled /\ Waits

and `RejectionsSound`, from `IInv /\ Cursors /\ Known /\ Ledger`.
`NothingWaits` looks like a matter of the idle handle alone, but that jobs are gone when the
poll may block, or before a rejection is reported, depends on who ran last. `Stacked` says
which function can be called by which (`Above`) and which is the outermost at each place of
the loop (`Bottom`), for stacks of any depth; from it follows that what returns to the event
of a rejection has drained the jobs, all but those that the walk queues itself (`reaped`), unless
a job threw (`Settled`), and that a walk does not
get past an entry before its event has ended. `Waits` adds the idle handle: it is active
while the list is not empty, and in a poll that may block it is active or there are no jobs.
The steps of functions are reduced to what they do to the stack (`Framed`), the steps of the
loop are taken one by one. For the list, `Cursors` says
that each cursor is an entry of it, or was one whose promise a script handled under the
walk, and that the two differ, so that unlinking the current entry leaves the next one
valid. No assumption is made about what listeners handle: a walk on a freed entry ends the
behaviour, and until then the list is exact.

`WebSocket_proofs`: `LifetimesHold`, `EventsHold`, `MessagesHold` and `TeardownIsSilent`, from

    Lives == TypeOK /\ Types /\ Stack /\ (\A s : Life(s)) /\ Counted /\ NoneForgotten

with, for the second, `Heard(s)`, `Coded(s)` and `Settles(s)` for each socket and, for the
third, `Kept(s)`. `Life(s)` says that a socket that was connected and is not CLOSED is in one
place: lws has it, a job has it, or one callback on the stack has it (`Stack`: no socket is
there twice). The properties are not inductive without it: the count of connections is right
only because no callback releases a socket which lws still has, and a runtime with no
connections and no jobs forgets nobody only because every socket that is not CLOSED is in one
of these places. `Counted` is `RefsExact` with the finiteness that cardinalities need; a step adds one
socket to those that hold the loop, drops one or leaves them (`CountAdds`, `CountDrops`,
`CountSame`). `Heard(s)` gives the history of events for each place, and with it when the
close event is the first, the second or the last; `Coded(s)` that the code which is kept is
one that was given. `Kept(s)` takes what was written, what is queued and what is still
being read as one order: a call adds to its end, or a Blob that is not ordered yet, and
writing only moves its border (`Requeue`, `Ordering`).

`HttpServer_proofs`: `RequestsExactHold`, `WriteWantedHold`, `ServerAliveHold` and
`ExchangesHold` (an action property), from

    IInv == TypeOK /\ PinOK /\ RefsOK /\ FrameOK /\ (\A r : RequestOK(r)) /\ (\A w : ConnectionOK(w))

The properties are about pairs: a request and its connection point at each other, and each
is freed by steps of its own, some of them inside a callback of the other. So the invariant
says, for a request in each of its states, what its connection is and what is still queued
for it (`RequestOK`), and from the connection whose it is, what it waits for and how much
of a response it has sent (`ConnectionOK`). `RefsOK` says that the loop is held once for each
established WebSocket; `PinOK` that the wrapper is pinned and its close event still to be
given unless no vhost is left; `FrameOK` that the function which runs because a connection
is gone has ended the body of its request. A step changes one connection and its request:
`RestKept` shows once that all others keep their part, and each step then argues about that
one pair only.

`EventSource_proofs`: `ExactlyOnceHolds`, `OneConnectionHolds` and `SilentAfterCloseHolds`
(the safety half of `CloseIsFinal`), from

    Sound == TypeOK /\ Shapes /\ Attempt /\ Parsing /\ Heard /\ ExactlyOnce
             /\ \A c : Ordered(c) /\ Awaiting(c) /\ Flow(c)

The stream of the server is a sequence of places, each so many whole lines and half of the
next one or not. A piece leads from one place to another (`Before`, `After`), and a sequence
of pieces `Runs` from a place to its `End`. `Place` is where the parser is, as told by what
it holds: the last event it dispatched, the id and the data of the next one, and the half
line in its buffer. `Flow` says that what the chunk in hand and the body hold runs from
there to where the server is. It is what makes the parser's state mean something: the next
piece then belongs to the event after the last one (`NextPiece`), so its blank line
dispatches just that (`FeedMoves`), and a new connection may drop all of it, because the
server is asked to go on from `lastEventId` and the parser is put back there
(`ConnectSound`). Resuming from the id that was parsed instead would break `Flow` in that
one step. `Ordered`, `Awaiting` and `Attempt` say which connections and requests there are
at each await; `OneConnection` is read off them.

`Lws_proofs`, of `Fetch`: `ClientsSoundHolds`, `BodySoundHolds` and `UploadSoundHolds`, from

    FetchSound ==
      /\ Shapes /\ RefsExact /\ EventOK /\ Chained /\ Awaited /\ Named /\ Unsent
      /\ Settling /\ Streamed /\ UploadMoves
      /\ \A h : Staged(h) /\ Counted(h) /\ Known(h) /\ Served(h) /\ Framed(h) /\ Chunked(h)

None of the three is inductive. `Staged` gives the stages of a native client: it is pinned
exactly while its connection waits for headers or for a body, a client that was torn down has
reported, and one that still has its connection is marked for closing exactly when it
reported. That is why an abort followed by the close of the connection counts once. `Chained`: the hops
are opened in order, and all but the last are over and were redirects, hence at most one
client waits; `Known` and `Awaited` say that `HttpClient` has its number, and that there is
one until the request is over, so that an abort between two callbacks finds it. `Settling`
says how the zero timers stand: a timer for the response exists only if the headers of a
response that is no redirect ended, and an abort that came before them put its own first.
`Streamed` and `Served`: the stream is readable as long as the controller is there, and what
was delivered is all of the body of the last response and nothing else. `Framed` and
`Chunked` place every chunk of the request body: written, then buffered, then with the
source, with the end of the body behind all of them. A terminal callback is first reduced
to two cases (`EndsCases`): a redirect is followed (`FollowsSound`) or the client reports
(`ReportSound`), marked or torn down; aborts of the signal, of the body and of the upload
share `ClientAborts`. The proof showed that the model of an earlier version was wrong: with
an empty whole body, which it allowed, `UploadMoves` does not hold, while the code takes such
a body for none.

All these invariants were model-checked on small instances before they were proved.

Every invariant and every action property of the runs is proved. Model-checked only is
liveness, since the prover has no rule for fairness and no `ENABLED`: `Delivered` and
`TerminateReturns` of `Channel`, `Delivered` of `Broadcast`, `Reported` and `StopObeyed` of
`EventLoop`, `TeardownEnds`, `CompletionSettles`, `ClosedResolves`, and the second halves of
`Closes` and `CloseIsFinal`, whose first halves are `TeardownIsSilent` and
`SilentAfterCloseHolds`. `AbortBeforeResponse` and `HandledIsSilent` are violated
(`fetch_abort` and `loop_handled`, section 3).

## 6. What is not modelled

Components without a module are in section 1 and, with the reason, in
`PROJECT.json`. In the modules there are:

* Running out of memory, everywhere, and errors of the system that end the process.
* `Channel`: the value of a message (its number stands for it); a message that cannot
  be built because a value cannot be cloned. The main loop is ended by handles other
  than ports only through `Stop`.
* `Broadcast`: messages that cannot be decoded; the turns of the teardown, which are
  those of the running loop.
* `EventLoop`: handles that do not keep the loop alive; operations that call back more
  than once (a handler that starts the operation again stands for one); the time
  between two turns. Any job of a worker may do what only the first does
  (`StartDelivery`), which allows more behaviours than the code has.
* `Timers`: the order of timers that are due together (any order here); what a timer does
  that calls back with a freed engine.
* `Streams`: bytes, addresses and kinds of error; terminals, socket options, `ref` and
  `unref`; chunks that leave room in the read queue; the order of callbacks within one
  turn of the loop; writes that `uv_try_write` takes whole. The lookup of a pipe ends
  at once. The bound of 32 turns in the teardown is taken to be enough for handles that
  are closing. A stream that is pinned while the loop is drained (a connect handler
  that reads then) outlives the engine and is not followed further; `AllFreed` names
  the exception.
* `EvLib`: the readiness of sockets and `poll_cb`, which passes it to lws; the time of the
  next tick; memory that runs out. `Listen` takes only numbers that can be polled.
* `WebSocket`: the text of reasons, `wasClean`, fragments, headers and protocols, the
  backpressure of the readable half, `bufferedAmount`.
* `Fetch`: the construction of requests and responses, headers, cookies, credentials,
  keep-alive and pooling of lws, HTTP versions except where flow control comes in;
  `XMLHttpRequest`.
* `EventSource`: the `retry` field, which only changes a delay; of `fetch()` what it sees.
* `HttpServer`: received WebSocket messages, the code and reason of a server's WebSocket
  close, TLS; the teardown of a runtime with a server that is still open. lws is taken
  not to repeat LWS_CALLBACK_HTTP for a transaction that was completed.
* `lws-utils.c`: contexts, TLS options, the choice of a vhost and of a proxy. Only the
  count of connections is in the models.

The components without a module are left out for one of three reasons. Process, UDP, TLS,
file system, signals, name resolution and POSIX sockets repeat the protocols that are
modelled (a pin, a request in flight, a close callback, a finalizer) and would need the
same module again. The serializers, crypto, FFI, compression, text and URL code, import
maps and buffers compute on data and have next to no state to interleave. The bundles under
`src/src/bundles`, which are most of the lines there, are compiled scripts.

libuv, lws and the JavaScript engine are not in `src/src`: they are modelled from how the
code uses them, and such definitions are marked `external` in the map.

## 7. Plan

Done: the modules above. What would come next, in this order:

1. `Channel` against an abstract queue per mailbox, of which `OrderKept` is the core.
2. `Process` and `Signals`: exit, pipes and pins; the same protocol for UDP and TLS.
3. `FileSystem`: requests in flight against close.
4. `AbortSignals`: dependent signals, timeouts and collection.
5. Pure modules against reference definitions: growth of `TBuf`, import map
   resolution, back references of the V8 serializer.
