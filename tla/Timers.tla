------------------------------- MODULE Timers -------------------------------
(***************************************************************************)
(* setTimeout, setInterval and their clear functions (src/src/timers.c) on *)
(* the timers of libuv, which are modelled from how they are used here:    *)
(* timers that are due leave the heap for a queue of ready ones, which     *)
(* then call back one by one (here in any order).                          *)
(*                                                                         *)
(* Times are unsigned integers below Modulus, delays signed ones of the    *)
(* same width.  The handlers of timers and every other script run the same *)
(* calls; a handler that throws ends like one that returns.  Scripts run   *)
(* in the teardown, too: its turns of the loop deliver the messages that   *)
(* wait for the ports of the runtime (see Channel).                        *)
(***************************************************************************)
EXTENDS Integers

CONSTANTS
  Timers,   \* TJSTimer allocations, each used once
  NoTimer,
  MaxId,    \* the last identifier: 2^53 - 1 in the code
  Modulus,  \* 2^64 in the code
  Delays,   \* bound: the delays that scripts ask for
  Horizon,  \* bound: the last time that is reached
  MaxCalls  \* bound: what scripts call

ASSUME TimersAssumption ==
  /\ NoTimer \notin Timers /\ MaxId \in Nat \ {0}
  /\ Modulus \in Nat \ {0} /\ Horizon \in 0..(Modulus - 1) /\ MaxCalls \in Nat
  /\ Delays \subseteq {d \in Int : -Modulus <= 2 * d /\ 2 * d < Modulus}

VARIABLES
  \* TJSTimer
  handle,    \* "none", "open", "closing", "freed" (the struct then is too)
  id,        \* 0 before it is set
  interval,
  asked,     \* the delay that the script passed
  table,     \* qrt->timers.timers: the timers that clearTimeout finds
  next_timer,
  \* libuv
  now,       \* loop->time
  due,       \* handle->timeout
  repeat,    \* handle->repeat
  heap,      \* the active timers
  ready,     \* those in the queue of uv__run_timers
  turning,   \* uv__run_timers is running
  running,   \* the timer whose handler is running, or NoTimer
  \* the runtime
  phase,     \* "running", "draining" (TJS_FreeRuntime runs the loop), "freed" (the
             \* engine is), "undefined" (after that a timer called back)
  calls,
  late       \* history: the timers that were set while draining

registryVars == <<handle, id, interval, asked, table, next_timer, late>>
uvVars == <<now, due, repeat, heap, ready, turning, running>>
timersVars == <<registryVars, uvVars, phase, calls>>

----------------------------------------------------------------------------
\* int64_t to uint64_t, and the sum that uv_timer_start clamps.
Forever == Modulus - 1
Unsigned(d) == IF d < 0 THEN d + Modulus ELSE d
DueIn(d) == IF now + d > Forever THEN Forever ELSE now + d

\* uv_timer_start.
StartTimer(t, delay) ==
  due' = [due EXCEPT ![t] = DueIn(delay)] /\ heap' = heap \cup {t}

\* destroy_timer; the handle that is closed is stopped too.
Destroy(t) ==
  /\ handle' = [handle EXCEPT ![t] = "closing"]
  /\ table' = table \ {t}
  /\ heap' = heap \ {t} /\ ready' = ready \ {t}

\* What clearTimeout does with the timer it found.  Mutant: it only forgets it.
Forget(t) == table' = table \ {t} /\ UNCHANGED <<handle, heap, ready>>
Clear(t) == Destroy(t)

----------------------------------------------------------------------------
\* A script runs outside uv__run_timers or in a handler.
Calling ==
  /\ turning => running # NoTimer
  /\ phase \in {"running", "draining"}
  /\ calls < MaxCalls /\ calls' = calls + 1
  /\ UNCHANGED phase

\* tjs_setTimeout, as setTimeout and as setInterval.
SetTimeout(t, d, every) ==
  /\ Calling
  /\ handle[t] = "none"
  /\ handle' = [handle EXCEPT ![t] = "open"]
  /\ id' = [id EXCEPT ![t] = next_timer]
  /\ next_timer' = (IF next_timer = MaxId THEN 1 ELSE next_timer + 1)
  /\ interval' = [interval EXCEPT ![t] = every]
  /\ asked' = [asked EXCEPT ![t] = d]
  /\ repeat' = [repeat EXCEPT ![t] = IF every THEN Unsigned(d) ELSE 0]
  /\ StartTimer(t, Unsigned(d))
  /\ table' = table \cup {t}
  /\ late' = (IF phase = "draining" THEN late \cup {t} ELSE late)
  /\ UNCHANGED <<now, ready, turning, running>>

\* tjs_clearTimeout of an identifier that was given out; after a wrap it may be
\* that of several timers, of which one is found.
ClearTimeout(n) ==
  /\ Calling
  /\ \E t \in Timers : id[t] = n
  /\ IF \E t \in table : id[t] = n
     THEN \E t \in table : id[t] = n /\ Clear(t)
     ELSE UNCHANGED <<handle, table, heap, ready>>
  /\ UNCHANGED <<id, interval, asked, next_timer, late, now, due, repeat, turning, running>>

\* Time passes between the turns of the loop.
Tick ==
  /\ ~turning /\ now < Horizon
  /\ now' = now + 1
  /\ UNCHANGED <<registryVars, due, repeat, heap, ready, turning, running, phase, calls>>

\* uv__run_timers takes what is due from the heap.
Due == {t \in heap : due[t] <= now}
RunTimers ==
  /\ ~turning /\ Due # {}
  /\ turning' = TRUE
  /\ ready' = Due /\ heap' = heap \ Due
  /\ UNCHANGED <<registryVars, now, due, repeat, running, phase, calls>>

\* The next ready timer: uv_timer_again, and uv__timer_cb up to the handler.
Fire ==
  /\ phase # "freed" /\ turning /\ running = NoTimer
  /\ \E t \in ready :
        /\ ready' = ready \ {t}
        /\ IF repeat[t] # 0 THEN StartTimer(t, repeat[t]) ELSE UNCHANGED <<due, heap>>
        /\ running' = t
  /\ UNCHANGED <<registryVars, now, repeat, turning, phase, calls>>

\* In the turns that close the loop it is called with an engine that was freed.
FireFreed ==
  /\ phase = "freed" /\ turning /\ running = NoTimer /\ ready # {}
  /\ phase' = "undefined"
  /\ UNCHANGED <<registryVars, uvVars, calls>>

\* What uv__timer_cb does after the handler: a timer the handler did not clear is
\* destroyed unless it is an interval.  Mutant: it is an interval if it
\* asked for a delay.
DestroysAtZero(t) == handle[t] = "open" /\ asked[t] = 0
DestroysAfter(t) == handle[t] = "open" /\ ~interval[t]

HandlerReturn ==
  /\ running # NoTimer
  /\ running' = NoTimer
  /\ IF DestroysAfter(running)
     THEN Destroy(running)
     ELSE UNCHANGED <<handle, table, heap, ready>>
  /\ UNCHANGED <<id, interval, asked, next_timer, late, now, due, repeat, turning, phase,
                 calls>>

TurnEnd ==
  /\ turning /\ running = NoTimer /\ ready = {}
  /\ turning' = FALSE
  /\ UNCHANGED <<registryVars, now, due, repeat, heap, ready, running, phase, calls>>

\* uv__timer_close, in the closing phase of the loop.
CloseCb ==
  /\ ~turning
  /\ \E t \in Timers : handle[t] = "closing" /\ handle' = [handle EXCEPT ![t] = "freed"]
  /\ UNCHANGED <<id, interval, asked, table, next_timer, late, uvVars, phase, calls>>

\* TJS_FreeRuntime: tjs__destroy_timers, some turns of the loop, then the engine is
\* freed and the loop is closed.
FreeRuntime ==
  /\ phase = "running" /\ ~turning
  /\ phase' = "draining"
  /\ handle' = [t \in Timers |-> IF t \in table THEN "closing" ELSE handle[t]]
  /\ heap' = heap \ table /\ ready' = ready \ table
  /\ table' = {}
  /\ UNCHANGED <<id, interval, asked, next_timer, late, now, due, repeat, turning, running,
                 calls>>

FreeEngine ==
  /\ phase = "draining" /\ ~turning
  /\ phase' = "freed"
  /\ UNCHANGED <<registryVars, uvVars, calls>>

----------------------------------------------------------------------------
TimersInit ==
  /\ handle = [t \in Timers |-> "none"]
  /\ id = [t \in Timers |-> 0] /\ next_timer = 1
  /\ interval = [t \in Timers |-> FALSE] /\ asked = [t \in Timers |-> 0]
  /\ table = {}
  /\ now = 0 /\ due = [t \in Timers |-> 0] /\ repeat = [t \in Timers |-> 0]
  /\ heap = {} /\ ready = {}
  /\ turning = FALSE /\ running = NoTimer
  /\ phase = "running" /\ calls = 0 /\ late = {}

TimersNext ==
  \/ \E t \in Timers, d \in Delays, every \in BOOLEAN : SetTimeout(t, d, every)
  \/ \E n \in 1..MaxId : ClearTimeout(n)
  \/ Tick \/ RunTimers \/ Fire \/ FireFreed \/ HandlerReturn \/ TurnEnd \/ CloseCb
  \/ FreeRuntime \/ FreeEngine

TimersSpec == TimersInit /\ [][TimersNext]_timersVars

----------------------------------------------------------------------------
TimersTypeOK ==
  /\ handle \in [Timers -> {"none", "open", "closing", "freed"}]
  /\ id \in [Timers -> 0..MaxId] /\ next_timer \in 1..MaxId
  /\ interval \in [Timers -> BOOLEAN] /\ asked \in [Timers -> Int]
  /\ {table, heap, ready, late} \subseteq SUBSET Timers
  /\ now \in 0..Horizon
  /\ due \in [Timers -> 0..Forever] /\ repeat \in [Timers -> 0..Forever]
  /\ turning \in BOOLEAN /\ running \in Timers \cup {NoTimer}
  /\ phase \in {"running", "draining", "freed", "undefined"} /\ calls \in 0..MaxCalls

\* The check in destroy_timer (line 54) holds: what clearTimeout and the teardown
\* can find, and what uv__timer_cb destroys after its handler, is not closing.
CheckHolds ==
  /\ \A t \in table : handle[t] = "open"
  /\ running # NoTimer /\ DestroysAfter(running) => handle[running] = "open"

\* A cleared timer never calls back, also if it was due with the one that clears it
\* ("It's possible our timer was scheduled to run but was destroyed by another
\* one", line 82).
ClearedIsSilent == [][running' \notin {running, NoTimer} => running' \in table]_timersVars

\* A timer is there for as long as it will call back and no longer: a one-shot is
\* gone after its handler, an interval goes on.  Not so an interval without delay: its
\* repeat is 0, which means none, so it fires once and its handle stays.
WillFire(t) == t \in heap \cup ready \/ running = t
NoZombie ==
  /\ heap \cup ready \subseteq table
  /\ \A t \in Timers : handle[t] = "open" /\ ~(interval[t] /\ asked[t] = 0) =>
       WillFire(t)

\* The teardown closes every timer that was set before it, armed, due or with its handler
\* just over, and no later call opens one of these again.  It closes no other: a timer that
\* is set by a script in the turns after tjs__destroy_timers (vm.c:728) stays open unless it
\* fires or is cleared in one of them, against "All handles should be closed" (vm.c:759).
AllClosed == phase \notin {"running", "draining"} => \A t \in Timers \ late : handle[t] # "open"

\* The table holds exactly the timers that are open: what can be cleared is not
\* closing, what is open will call back, and the teardown leaves none but late ones.
Registry == CheckHolds /\ NoZombie /\ AllClosed

=============================================================================
