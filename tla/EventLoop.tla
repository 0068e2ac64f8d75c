----------------------------- MODULE EventLoop ------------------------------
(***************************************************************************)
(* The event loop of one runtime (src/src/vm.c, and tjs_call_handler of    *)
(* src/src/utils.c): the turns of the libuv loop, the microtasks (jobs)    *)
(* drained in them, the promise rejections nobody handles, and the ways a  *)
(* runtime ends.                                                           *)
(*                                                                         *)
(* One step is a step of the loop, the start or the end of a JavaScript    *)
(* function, or one thing such a function does.  stk holds the functions   *)
(* that are on the C stack, the innermost first:                           *)
(*   main       the entry point (tjs__run_main)                            *)
(*   handler    a function called by tjs_call_handler                      *)
(*   job        a microtask                                                *)
(*   listener   an event listener                                          *)
(*   drain      tjs__drain_microtasks                                      *)
(*   jsdrain    the same, entered by dispatchEvent after a listener        *)
(*   free       the rest of a callback that called a handler: it frees the *)
(*              arguments                                                  *)
(*   rejection, error, unload   the dispatch of an 'unhandledrejection',   *)
(*              'error' (in workers) or 'beforeunload' event               *)
(*   fatal, break   what follows that of 'error': TJS_Stop, and after a    *)
(*              job the end of the drain that ran it                       *)
(* Left out: handles and timers that do not keep the loop alive or that    *)
(* call back more than once (a handler that starts the operation again     *)
(* stands for them), and running out of memory.                            *)
(***************************************************************************)
EXTENDS Integers, Sequences

CONSTANTS
  Promises,   \* the promises that are rejected with no handler attached
  None,
  MaxCalls    \* bound: what scripts, and the collector under them, do

ASSUME EventLoopAssumption == None \notin Promises /\ MaxCalls \in Nat

\* Operations in flight, by the phase of the loop in which they call back.
Ops == {"io", "timer", "closing"}

VARIABLES
  is_worker,  \* is the runtime that of a worker?
  pc,         \* where TJS_Run and uv_run are, see TypeOK
  stk,
  jobs,       \* the length of the job queue
  pending,    \* pending_rejections: promises, oldest first
  el, el1,    \* the cursors of list_for_each_safe in tjs__execute_jobs
  idle,       \* jobs.idle is active
  ops,        \* how many operations are in flight
  stopSent,   \* the stop async was sent and its callback has not run
  stopFlag,   \* uv_stop was called and uv_run has not returned
  polled,     \* a callback ran in this poll, which will not block any more
  prevented,  \* preventDefault() was called on the event being dispatched
  \* history
  rejected, handled, reported,  \* promises
  stopping,   \* TJS_Stop was called
  threw,      \* a job threw
  dropped,    \* the promises forgotten when an unhandled rejection was fatal
  reaped,     \* jobs that the walk over the rejections queued with what it freed
  calls

listVars == <<pending, el, el1>>
stopVars == <<stopSent, stopFlag, stopping>>
loopVars == <<pc, ops, polled>>
history  == <<rejected, handled, reported, threw, dropped, reaped>>
vars == <<is_worker, stk, jobs, idle, prevented, listVars, stopVars, loopVars, history, calls>>

----------------------------------------------------------------------------
Top == IF stk = <<>> THEN "none" ELSE Head(stk)
On(frame) == \E i \in DOMAIN stk : stk[i] = frame
Push(s) == stk' = s \o stk
Replace(s) == stk' = s \o Tail(stk)

\* The first entry of p, if there is one, is unlinked from s.
Without(s, p) ==
  LET at == {k \in DOMAIN s : s[k] = p /\ \A i \in 1..(k - 1) : s[i] # p}
  IN IF at = {} THEN s
     ELSE [i \in 1..(Len(s) - 1) |-> IF \A k \in at : i < k THEN s[i] ELSE s[i + 1]]
Listed(p) == \E i \in DOMAIN pending : pending[i] = p

\* The entry after p.
NextOf(s, p) ==
  IF \E i \in 1..(Len(s) - 1) : s[i] = p
  THEN s[1 + CHOOSE i \in 1..(Len(s) - 1) : s[i] = p]
  ELSE None

\* uv__maybe_idle.  Mutant: only the jobs count.
IdleForJobs == idle' = (jobs > 0)
MaybeIdle == idle' = (jobs > 0 \/ pending' # <<>>)

\* uv_loop_alive: of the core handles, only idle and a worker's stop count.
Alive(i, o) == i \/ is_worker \/ \E k \in Ops : o[k] > 0

\* TJS_Stop.
RequestStop == stopSent' = TRUE /\ stopping' = TRUE /\ UNCHANGED stopFlag

\* tjs__pending_rejections_add.
Add(p) == pending' = Append(pending, p) /\ MaybeIdle

\* tjs__pending_rejections_remove.
Removed(p) == pending' = Without(pending, p)

----------------------------------------------------------------------------
(* What scripts do.                                                        *)

InScript == Top \in {"main", "handler", "job", "listener"}
Calling == InScript /\ calls < MaxCalls /\ calls' = calls + 1

\* queueMicrotask, then() on a settled promise, ...
EnqueueJob ==
  /\ Calling
  /\ jobs' = jobs + 1
  /\ UNCHANGED <<stk, idle, prevented, listVars, stopVars, loopVars, history>>

\* tjs__promise_rejection_tracker, not handled; from a script, or (Settle) from
\* a native callback.
Track(p) ==
  /\ p \notin rejected
  /\ rejected' = rejected \cup {p}
  /\ Add(p)
  /\ UNCHANGED <<el, el1, handled, reported, threw, dropped, reaped>>

Reject(p) ==
  /\ Calling /\ Track(p)
  /\ UNCHANGED <<stk, jobs, prevented, stopVars, loopVars>>

\* The same, handled: a handler is attached to a rejected promise, which also
\* queues its job.
Handle(p) ==
  /\ Calling
  /\ p \in rejected \ handled
  /\ handled' = handled \cup {p}
  /\ Removed(p)
  /\ jobs' = jobs + 1
  /\ UNCHANGED <<stk, idle, prevented, el, el1, stopVars, loopVars, rejected,
                 reported, threw, dropped, reaped>>

StartOp(k) ==
  /\ Calling
  /\ ops' = [ops EXCEPT ![k] = @ + 1]
  /\ UNCHANGED <<stk, jobs, idle, prevented, listVars, stopVars, pc, polled, history>>

\* self.close() in a worker.
SelfClose ==
  /\ Calling /\ is_worker
  /\ RequestStop
  /\ UNCHANGED <<stk, jobs, idle, prevented, listVars, loopVars, history>>

\* dispatchEvent of a script's own event: after the listener, which is a script
\* like its caller, microtasks are drained, unless that is being done.
DispatchEvent ==
  /\ Calling /\ ~On("jsdrain")
  /\ Push(<<"jsdrain">>)
  /\ UNCHANGED <<jobs, idle, prevented, listVars, stopVars, loopVars, history>>

\* The first job of a worker calls a handler, which drains: worker_eval.  Here
\* any of its jobs can.
StartDelivery ==
  /\ Calling /\ is_worker /\ stk = <<"job", "drain">>
  /\ Push(<<"drain">>)
  /\ UNCHANGED <<jobs, idle, prevented, listVars, stopVars, loopVars, history>>

PreventDefault ==
  /\ Calling
  /\ Len(stk) > 1 /\ Top = "listener" /\ stk[2] \in {"rejection", "unload"}
  /\ prevented' = TRUE
  /\ UNCHANGED <<stk, jobs, idle, listVars, stopVars, loopVars, history>>

----------------------------------------------------------------------------
(* Functions end.                                                          *)

MainReturn ==
  /\ Top = "main"
  /\ stk' = <<>> /\ pc' = "enter"
  /\ UNCHANGED <<jobs, idle, prevented, listVars, stopVars, ops, polled, history, calls>>

\* TJS_Run returns at once.
MainThrow ==
  /\ Top = "main"
  /\ stk' = <<>> /\ pc' = "exit"
  /\ UNCHANGED <<jobs, idle, prevented, listVars, stopVars, ops, polled, history, calls>>

\* An uncaught exception: a worker dispatches an 'error' event and reports to its
\* parent before the runtime is stopped.
Uncaught(ifWorker, ifMain) ==
  IF is_worker
  THEN stk' = <<"error">> \o ifWorker /\ UNCHANGED stopVars
  ELSE stk' = ifMain /\ RequestStop

\* The end of tjs_call_handler.
HandlerReturn ==
  /\ Top = "handler"
  /\ Replace(<<"drain">>)
  /\ UNCHANGED <<jobs, idle, prevented, listVars, stopVars, loopVars, history, calls>>

HandlerThrow ==
  /\ Top = "handler"
  /\ Uncaught(<<"fatal", "drain">> \o Tail(stk), <<"drain">> \o Tail(stk))
  /\ UNCHANGED <<jobs, idle, prevented, listVars, loopVars, history, calls>>

\* uv__timer_cb and others free the function and its arguments after the drain,
\* and the engine queues the clean-up of a FinalizationRegistry they were in.
FreeArgs ==
  /\ Top = "free"
  /\ stk' = <<>>
  /\ \/ UNCHANGED <<jobs, calls>>
     \/ calls < MaxCalls /\ calls' = calls + 1 /\ jobs' = jobs + 1
  /\ UNCHANGED <<idle, prevented, listVars, stopVars, loopVars, history>>

Fatal ==
  /\ Top \in {"fatal", "break"}
  /\ stk' = IF Top = "fatal" THEN Tail(stk) ELSE Tail(Tail(stk))
  /\ RequestStop
  /\ UNCHANGED <<jobs, idle, prevented, listVars, loopVars, history, calls>>

\* tjs__drain_microtasks: one job, or the end.
RunJob ==
  /\ Top \in {"drain", "jsdrain"} /\ jobs > 0
  /\ jobs' = jobs - 1
  /\ Push(<<"job">>)
  /\ UNCHANGED <<idle, prevented, listVars, stopVars, loopVars, history, calls>>

DrainEnd ==
  /\ Top \in {"drain", "jsdrain"} /\ jobs = 0
  /\ stk' = Tail(stk)
  /\ reaped' = 0
  /\ UNCHANGED <<jobs, idle, prevented, listVars, stopVars, loopVars, rejected, handled,
                 reported, threw, dropped, calls>>

JobReturn ==
  /\ Top = "job"
  /\ stk' = Tail(stk)
  /\ UNCHANGED <<jobs, idle, prevented, listVars, stopVars, loopVars, history, calls>>

\* The drain it was run by ends, whatever jobs are left.
JobThrow ==
  /\ Top = "job"
  /\ Uncaught(<<"break">> \o Tail(stk), Tail(Tail(stk)))
  /\ threw' = TRUE
  /\ UNCHANGED <<jobs, idle, prevented, listVars, loopVars, rejected, handled, reported,
                 dropped, reaped, calls>>

\* dispatchEvent calls a listener, and drains microtasks after it.  A listener
\* that throws is reported and goes on as if it had returned.
CallListener ==
  /\ Top \in {"rejection", "error", "unload"}
  /\ calls < MaxCalls /\ calls' = calls + 1
  /\ Push(<<"listener">>)
  /\ UNCHANGED <<jobs, idle, prevented, listVars, stopVars, loopVars, history>>

ListenerReturn ==
  /\ Top = "listener"
  /\ Replace(IF On("jsdrain") THEN <<>> ELSE <<"jsdrain">>)
  /\ UNCHANGED <<jobs, idle, prevented, listVars, stopVars, loopVars, history, calls>>

ErrorEnd ==
  /\ Top = "error"
  /\ stk' = Tail(stk)
  /\ UNCHANGED <<jobs, idle, prevented, listVars, stopVars, loopVars, history, calls>>

----------------------------------------------------------------------------
(* tjs__execute_jobs and the rest of uv__check_cb.                         *)

\* tjs__execute_jobs comes before the rejections.
DrainFirst == stk' = <<"drain">> /\ UNCHANGED <<jobs, idle>>

Check ==
  /\ pc = "check"
  /\ DrainFirst
  /\ pc' = "reject"
  /\ UNCHANGED <<prevented, listVars, stopVars, ops, polled, history, calls>>

\* The walk starts.
Walk ==
  /\ pc = "reject" /\ stk = <<>>
  /\ el' = (IF pending = <<>> THEN None ELSE Head(pending))
  /\ el1' = (IF pending = <<>> THEN None ELSE NextOf(pending, Head(pending)))
  /\ pc' = "walk"
  /\ UNCHANGED <<stk, jobs, idle, prevented, pending, stopVars, ops, polled, history,
                 calls>>

\* The entry on which the walk stands was freed: a script attached a handler to its
\* promise, which is the one whose event is being dispatched, or was the next.
Stale == pc = "walk" /\ stk \in {<<>>, <<"rejection">>} /\ el # None /\ ~Listed(el)

\* It is used all the same, to dispatch its event or to leave it: what follows
\* is not defined, and the model ends.
UseFreed ==
  /\ Stale
  /\ pc' = "undefined" /\ stk' = <<>>
  /\ UNCHANGED <<jobs, idle, prevented, listVars, stopVars, ops, polled, history, calls>>

\* The event of the current entry is dispatched.
RejectionStart ==
  /\ pc = "walk" /\ stk = <<>> /\ el # None /\ ~Stale
  /\ stk' = <<"rejection">>
  /\ prevented' = FALSE
  /\ reported' = reported \cup {el}
  /\ UNCHANGED <<jobs, idle, listVars, stopVars, loopVars, rejected, handled, threw,
                 dropped, reaped, calls>>

\* The event and what it held are freed, and the engine queues the clean-up of a
\* FinalizationRegistry they were in, which nothing runs before the walk goes on.
FreeEvent ==
  \/ UNCHANGED <<jobs, reaped, calls>>
  \/ calls < MaxCalls /\ calls' = calls + 1 /\ jobs' = jobs + 1 /\ reaped' = reaped + 1

\* It was cancelled: the entry is unlinked and freed.  The walk goes to the next, which
\* the cursor kept, also if that was freed meanwhile.
RejectionPrevented ==
  /\ stk = <<"rejection">> /\ prevented /\ ~Stale
  /\ stk' = <<>>
  /\ pending' = Without(pending, el)
  /\ el' = el1
  /\ el1' = (IF el1 = None THEN None ELSE NextOf(pending', el1))
  /\ FreeEvent
  /\ UNCHANGED <<idle, prevented, stopVars, loopVars, rejected, handled, reported, threw,
                 dropped>>

\* The walk ends with it.  Mutant: it goes on.
AbortGoesOn == el' = el1 /\ UNCHANGED el1
AbortEnds == el' = None /\ el1' = None

\* It was not: every entry is freed and the runtime is stopped.
RejectionFatal ==
  /\ stk = <<"rejection">> /\ ~prevented /\ ~Stale
  /\ stk' = <<>>
  /\ pending' = <<>>
  /\ AbortEnds
  /\ dropped' = dropped \cup {pending[i] : i \in DOMAIN pending}
  /\ FreeEvent
  /\ RequestStop
  /\ UNCHANGED <<idle, prevented, loopVars, rejected, handled, reported, threw>>

CheckEnd ==
  /\ pc = "walk" /\ stk = <<>> /\ el = None
  /\ UNCHANGED <<jobs, pending>> /\ MaybeIdle
  /\ pc' = "closing"
  /\ UNCHANGED <<stk, prevented, el, el1, stopVars, ops, polled, history, calls>>

----------------------------------------------------------------------------
(* uv_run, and TJS_Run around it.                                          *)

\* What TJS_Run does when uv_run has returned: it runs the loop again for jobs,
\* but not a loop that is alive, which was stopped.  Mutant: it
\* always runs again for jobs.
RunsAgain(alive) == IF jobs > 0 THEN "enter" ELSE "left"
AfterRun(alive) == IF ~alive /\ jobs > 0 THEN "enter" ELSE "left"

\* uv_run starts: its first timers run before its first turn, which a loop that
\* is not alive does not take.
Enter ==
  /\ pc = "enter"
  /\ UNCHANGED <<jobs, pending>> /\ MaybeIdle
  /\ IF Alive(idle', ops)
     THEN pc' = "early"
     ELSE pc' = AfterRun(FALSE)
  /\ UNCHANGED <<stk, prevented, el, el1, stopVars, ops, polled, history, calls>>

\* The prepare callback.  Mutant: it does nothing.
Unprepared == UNCHANGED idle
Prepared == MaybeIdle

Prepare ==
  /\ pc = "prepare"
  /\ UNCHANGED <<jobs, pending>> /\ Prepared
  /\ polled' = FALSE
  /\ pc' = "poll"
  /\ UNCHANGED <<stk, prevented, el, el1, stopVars, ops, history, calls>>

\* The phase in which an operation of kind k calls back.
PhaseOf(k) ==
  CASE k = "io" -> {"poll"} [] k = "timer" -> {"early", "timers"}
    [] k = "closing" -> {"closing"}

Completes(k) ==
  /\ pc \in PhaseOf(k) /\ stk = <<>> /\ ops[k] > 0
  /\ ops' = [ops EXCEPT ![k] = @ - 1]
  /\ polled' = TRUE

\* It calls a handler.
CallHandler(k) ==
  /\ Completes(k)
  /\ stk' = <<"handler", "free">>
  /\ UNCHANGED <<jobs, idle, prevented, listVars, stopVars, pc, history, calls>>

\* It settles a promise (files, DNS and SQLite do): its reactions are queued and
\* nothing is drained, or nobody handles its rejection.
Settle ==
  /\ Completes("io")
  /\ \/ jobs' = jobs + 1 /\ UNCHANGED <<idle, listVars, history>>
     \/ UNCHANGED jobs /\ \E p \in Promises : Track(p)
  /\ UNCHANGED <<stk, prevented, stopVars, pc, calls>>

\* uv__stop.
Stopped ==
  /\ pc = "poll" /\ stk = <<>> /\ stopSent
  /\ stopSent' = FALSE /\ stopFlag' = TRUE /\ polled' = TRUE
  /\ UNCHANGED <<stk, jobs, idle, prevented, listVars, stopping, pc, ops, history, calls>>

\* The poll returns: something happened in it, a timer is due, or it was not
\* allowed to block.
Awake == idle \/ polled \/ ops["closing"] > 0 \/ ops["timer"] > 0 \/ ~Alive(idle, ops)
PollEnd ==
  /\ pc = "poll" /\ stk = <<>> /\ Awake
  /\ pc' = "check"
  /\ UNCHANGED <<stk, jobs, idle, prevented, listVars, stopVars, ops, polled, history,
                 calls>>

EarlyEnd ==
  /\ pc = "early" /\ stk = <<>>
  /\ pc' = "prepare"
  /\ UNCHANGED <<stk, jobs, idle, prevented, listVars, stopVars, ops, polled, history,
                 calls>>

\* What is closed by a callback of this phase waits for the next turn.
ClosingEnd ==
  /\ pc = "closing" /\ stk = <<>>
  /\ pc' = "timers"
  /\ UNCHANGED <<stk, jobs, idle, prevented, listVars, stopVars, ops, polled, history,
                 calls>>

\* The end of a turn.
TurnEnd ==
  /\ pc = "timers" /\ stk = <<>>
  /\ UNCHANGED jobs
  /\ IF Alive(idle, ops) /\ ~stopFlag
     THEN pc' = "prepare" /\ UNCHANGED stopFlag
     ELSE pc' = AfterRun(Alive(idle, ops)) /\ stopFlag' = FALSE
  /\ UNCHANGED <<stk, idle, prevented, listVars, stopSent, stopping, ops, polled, history,
                 calls>>

\* TJS_Run of a worker returns; the main one dispatches 'beforeunload'.
Leave ==
  /\ pc = "left"
  /\ IF is_worker
     THEN pc' = "exit" /\ UNCHANGED <<stk, prevented>>
     ELSE pc' = "unload" /\ stk' = <<"unload">> /\ prevented' = FALSE
  /\ UNCHANGED <<jobs, idle, listVars, stopVars, ops, polled, history, calls>>

\* It goes on if that was cancelled and there is something to do.
UnloadEnd ==
  /\ stk = <<"unload">>
  /\ stk' = <<>>
  /\ pc' = IF prevented /\ (jobs > 0 \/ Alive(idle, ops)) THEN "enter" ELSE "exit"
  /\ UNCHANGED <<jobs, idle, prevented, listVars, stopVars, ops, polled, history, calls>>

----------------------------------------------------------------------------
\* The job of a new worker evaluates its entry module.
Init ==
  /\ is_worker \in BOOLEAN
  /\ pc = IF is_worker THEN "enter" ELSE "eval"
  /\ stk = IF is_worker THEN <<>> ELSE <<"main">>
  /\ jobs = IF is_worker THEN 1 ELSE 0
  /\ pending = <<>> /\ el = None /\ el1 = None
  /\ idle = FALSE
  /\ ops = [k \in Ops |-> 0]
  /\ stopSent = FALSE /\ stopFlag = FALSE /\ polled = FALSE /\ prevented = FALSE
  /\ rejected = {} /\ handled = {} /\ reported = {}
  /\ stopping = FALSE /\ threw = FALSE /\ dropped = {} /\ reaped = 0
  /\ calls = 0

Script ==
  \/ EnqueueJob \/ SelfClose \/ DispatchEvent \/ StartDelivery \/ PreventDefault
  \/ \E p \in Promises : Reject(p) \/ Handle(p)
  \/ \E k \in Ops : StartOp(k)

Return ==
  \/ MainReturn \/ HandlerReturn \/ FreeArgs \/ JobReturn \/ ListenerReturn
  \/ Fatal \/ RunJob \/ DrainEnd \/ ErrorEnd

Throw == MainThrow \/ HandlerThrow \/ JobThrow

Turn ==
  \/ Check \/ Walk \/ UseFreed \/ RejectionStart \/ RejectionPrevented \/ RejectionFatal
  \/ CheckEnd \/ Enter \/ Prepare \/ Stopped \/ PollEnd \/ EarlyEnd \/ ClosingEnd
  \/ TurnEnd \/ Leave \/ UnloadEnd

Callback == Settle \/ \E k \in Ops : CallHandler(k)

Next ==
  /\ Script \/ Return \/ Throw \/ CallListener \/ Turn \/ Callback
  /\ UNCHANGED is_worker

Spec == Init /\ [][Next]_vars

\* JavaScript functions return, the loop takes its turns, and a poll that is
\* entered again and again sees the stop async.  Nothing is assumed of the
\* operations: they may never call back.
FairSpec ==
  /\ Spec
  /\ WF_vars((Return \/ Turn) /\ UNCHANGED is_worker)
  /\ SF_vars(Stopped /\ UNCHANGED is_worker)

----------------------------------------------------------------------------
Frames == {"main", "handler", "job", "listener", "drain", "jsdrain", "rejection",
           "error", "unload", "free", "fatal", "break"}

TypeOK ==
  /\ pc \in {"eval", "enter", "early", "prepare", "poll", "check", "reject", "walk",
             "closing", "timers", "left", "unload", "exit", "undefined"}
  /\ stk \in Seq(Frames)
  /\ jobs \in Nat /\ reaped \in Nat
  /\ pending \in Seq(Promises) /\ {el, el1} \subseteq Promises \cup {None}
  /\ ops \in [Ops -> Nat]
  /\ {is_worker, idle, stopSent, stopFlag, stopping, polled, prevented, threw} \subseteq BOOLEAN
  /\ {rejected, handled, reported, dropped} \subseteq SUBSET Promises
  /\ calls \in 0..MaxCalls

----------------------------------------------------------------------------
(* Rejections.                                                             *)

\* The list holds the rejected promises that were neither handled nor reported,
\* and the one whose event is being dispatched, each once: a promise that is
\* handled is never reported later, and none is reported twice or forgotten.
Current == IF pc = "walk" /\ stk # <<>> THEN {el} ELSE {}
Ledger ==
  /\ {pending[i] : i \in DOMAIN pending}
       = ((rejected \ handled) \ dropped) \ (reported \ Current)
  /\ \A i, j \in DOMAIN pending : pending[i] = pending[j] => i = j

\* The walk stands on a freed entry only if a script that ran in it attached a handler to
\* the promise of that entry: nothing else that scripts and the walk do in the meantime,
\* new rejections, other handlers, and the end of it all when one is fatal, frees it.
StaleIfHandled == Stale => el \in handled

\* "The rejection is now handled ... Remove it from the pending list so no event fires"
\* (vm.c:445).  It is removed, but a walk whose cursor is there comes to it.
HandledIsSilent == pc = "walk" /\ stk = <<>> /\ el # None => el \notin handled

\* No rejection is reported while jobs wait that could handle it, unless a job threw and
\* the runtime is stopping: at most those wait that the walk itself queued, freeing the
\* events before.
JobsFirst == pc = "walk" /\ stk = <<>> /\ el # None => jobs <= reaped \/ threw

\* A rejection that nobody handles is reported, or the runtime ends, or a walk that used a
\* freed entry left it undefined.
Reported == \A p \in Promises : Listed(p) ~> (~Listed(p) \/ pc \in {"exit", "undefined"})

----------------------------------------------------------------------------
(* The loop.                                                               *)

\* The loop does not block while there are jobs to run or rejections to report.
NeverAsleep ==
  pc = "poll" /\ ~idle /\ ~polled /\ ops["closing"] = 0 /\ Alive(idle, ops)
    => jobs = 0 /\ pending = <<>>

\* TJS_Run leaves the loop only when nothing is left to do, unless it was told
\* to stop.
NothingLeft == pc = "left" /\ ~stopping => jobs = 0 /\ pending = <<>>

\* A worker that is stopped leaves its loop, or a walk that used a freed entry left it
\* undefined.
StopObeyed == (is_worker /\ stopSent) ~> pc \in {"left", "exit", "undefined"}

\* The list of rejections holds what is neither handled nor reported, its walk loses no
\* entry but one that is handled under it, and jobs that may handle a promise run before it
\* is reported.
Rejections == Ledger /\ StaleIfHandled /\ JobsFirst

\* The loop neither sleeps nor ends while a job or a rejection waits.
NothingWaits == NeverAsleep /\ NothingLeft

=============================================================================
