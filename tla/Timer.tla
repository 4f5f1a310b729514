------------------------------- MODULE Timer -------------------------------
(***************************************************************************)
(* Timers: timer.cxx over libev's ev_timer.  A timer is of one of two      *)
(* kinds.  The one-shot kind calls back once per start.  The timeout kind  *)
(* (ixut_timer_setimeout) is meant to call back when nothing has ticked it *)
(* for an interval: its watcher may fire early, and is then armed again    *)
(* for the rest.                                                           *)
(*                                                                         *)
(* A script may call every function on every timer that it has not freed,  *)
(* but for the two calls that an assertion forbids: stop of a timer that   *)
(* is not active and free of one that is.  Two more are left undefined by  *)
(* what they do to the watcher, and the model ends with them: setimeout on *)
(* one that is in the loop, and again on one that was never set.           *)
(*                                                                         *)
(* Time is the loop's time, in whole units; it may pass by any amount      *)
(* before the loop gets to a watcher.  Watchers that are due fire in any   *)
(* order; the heap libev keeps them in is not modelled, but for the copy   *)
(* of a watcher's time in it.                                              *)
(***************************************************************************)
EXTENDS Naturals

CONSTANTS
  Timers,      \* places for timers in memory
  Interval,    \* intervals a script may start a timer with
  Begin,       \* the loop's time when the script starts
  MaxTime      \* bound of the model on the loop's time

ASSUME TimerAssumption ==
  /\ Interval \subseteq Nat /\ MaxTime \in Nat /\ Begin \in 0..MaxTime
  /\ \A i \in Interval : i < Begin

VARIABLES
  now,         \* ev_now
  live,        \* allocated timers (struct ixut_timer)
  timeouts,    \* those with is_timeout
  active,      \* those with active = true
  interval, lastAct,     \* the fields of that name
  armed,       \* watchers that libev considers active
  at, repeat,  \* when the watcher fires, and the ev_timer's field
  undefined,   \* a call has left the watcher in a state that libev does not define
  started,     \* history: when the timer was started, 0 before
  calls,       \* history: callbacks since the timer was started
  rearmed,     \* history: timers whose last start found them in the loop
  halted       \* history: one-shot timers that `again` has taken out of the loop

timerVars == <<live, timeouts, active, interval, lastAct>>
watcherVars == <<armed, at, repeat, undefined>>
historyVars == <<started, calls, rearmed, halted>>
vars == <<now, timerVars, watcherVars, historyVars>>

Init ==
  /\ now = Begin
  /\ live = {} /\ timeouts = {} /\ active = {} /\ armed = {}
  /\ interval = [t \in Timers |-> 0] /\ lastAct = [t \in Timers |-> 0]
  /\ at = [t \in Timers |-> 0] /\ repeat = [t \in Timers |-> 0]
  /\ started = [t \in Timers |-> 0] /\ calls = [t \in Timers |-> 0]
  /\ undefined = FALSE /\ rearmed = {} /\ halted = {}
-----------------------------------------------------------------------------
(* The functions of timer.cxx.  The watcher has memory of its own, which   *)
(* ixut_timer_free does not free: a place whose watcher is still armed     *)
(* stays that watcher's.                                                   *)

\* Mutant: the fields are left as malloc gives them.
CreatedInterval_Unset == MaxTime

CreatedInterval == 0

\* ixut_timer_create.  The memory of the watcher's repeat is left as it was:
\* a start comes before anything reads it.
Create(t) ==
  /\ t \notin live \cup armed
  /\ live' = live \cup {t}
  /\ timeouts' = timeouts \ {t}
  /\ interval' = [interval EXCEPT ![t] = CreatedInterval]
  /\ lastAct' = [lastAct EXCEPT ![t] = 0]
  /\ repeat' = [repeat EXCEPT ![t] = 0]
  /\ started' = [started EXCEPT ![t] = 0] /\ calls' = [calls EXCEPT ![t] = 0]
  /\ rearmed' = rearmed \ {t} /\ halted' = halted \ {t}
  /\ UNCHANGED <<now, active, armed, at, undefined>>

\* ixut_timer_setimeout.  Its ev_init makes a watcher forget that it is in
\* the loop.
SetTimeout(t) ==
  /\ t \in live
  /\ timeouts' = timeouts \cup {t}
  /\ undefined' = (t \in armed)
  /\ UNCHANGED <<now, live, active, interval, lastAct, armed, at, repeat, historyVars>>

\* The last argument of ev_timer_set
StartRepeat(i) == 0

\* ev_timer_set and ev_timer_start: the watcher fires at one of `times`, by
\* the interval i.  Within the bound of the model a started timer can fire.
SetTimer(t, i, times) ==
  /\ now + i < MaxTime
  /\ interval' = [interval EXCEPT ![t] = i]
  /\ repeat' = [repeat EXCEPT ![t] = StartRepeat(i)]
  /\ \E a \in times : a < MaxTime /\ at' = [at EXCEPT ![t] = a]

\* When a started timer fires.  ev_timer_start does nothing for a watcher that
\* is in the loop already: what counts then is the heap's copy of the old
\* time, or the bare interval if libev is built without those copies.
StartTimes(t, i) == IF t \in armed THEN {at[t], i} ELSE {now + i}

\* ixut_timer_start
Start(t) ==
  /\ t \in live
  /\ \E i \in Interval : SetTimer(t, i, StartTimes(t, i))
  /\ armed' = armed \cup {t} /\ active' = active \cup {t}
  /\ started' = [started EXCEPT ![t] = now] /\ calls' = [calls EXCEPT ![t] = 0]
  /\ rearmed' = IF t \in armed THEN rearmed \cup {t} ELSE rearmed \ {t}
  /\ halted' = halted \ {t}
  /\ UNCHANGED <<now, live, timeouts, lastAct, undefined>>

\* Mutant: the watcher is left in the loop.
Disarm_Not(t) == armed

\* ev_timer_stop
Disarm(t) == armed \ {t}

\* ixut_timer_stop
Stop(t) ==
  /\ t \in live \cap active
  /\ armed' = Disarm(t)
  /\ active' = active \ {t}
  /\ halted' = halted \ {t}
  /\ UNCHANGED <<now, live, timeouts, interval, lastAct, at, repeat, undefined>>
  /\ UNCHANGED <<started, calls, rearmed>>

\* ixut_timer_tick.  Within the bound of the model the ticks come to an end.
Tick(t) ==
  /\ t \in live /\ now + interval[t] < MaxTime
  /\ lastAct' = [lastAct EXCEPT ![t] = now]
  /\ UNCHANGED <<now, live, timeouts, active, interval, watcherVars, historyVars>>

\* ixut_timer_free: it asserts that the timer is not active.
Free(t) ==
  /\ t \in live \ active
  /\ live' = live \ {t}
  /\ UNCHANGED <<now, timeouts, active, interval, lastAct, watcherVars, historyVars>>

Greater(a, b) == IF a > b THEN a ELSE b

\* Mutant: the repeat is set and ev_timer_again is not called.
Again_Not(t, rest) ==
  IF repeat[t] = 0 THEN armed' = Disarm(t) /\ UNCHANGED at
                   ELSE armed' = armed /\ at' = [at EXCEPT ![t] = Greater(@ + repeat[t], now)]

\* ev_timer_again: a rest of zero stops the watcher.
Again(t, rest) ==
  IF rest = 0 THEN armed' = Disarm(t) /\ UNCHANGED at
              ELSE armed' = armed \cup {t} /\ at' = [at EXCEPT ![t] = now + rest]

\* ixut_timer_again, called by a script.  A timer without a repeat is taken
\* out of the loop and says that it is active.  Within the bound of the model
\* a timer is not put off for ever.
TimerAgain(t) ==
  /\ t \in live /\ started[t] # 0 /\ now + repeat[t] < MaxTime
  /\ Again(t, repeat[t])
  /\ active' = active \cup {t}
  /\ halted' = halted \cup ({t} \ timeouts)
  /\ UNCHANGED <<now, live, timeouts, interval, lastAct, repeat, undefined>>
  /\ UNCHANGED <<started, calls, rearmed>>

\* The same for a timer that was never started: it reads a repeat that nobody
\* has written.
AgainUnset(t) ==
  /\ t \in live /\ started[t] = 0
  /\ undefined' = TRUE
  /\ UNCHANGED <<now, timerVars, armed, at, repeat, historyVars>>
-----------------------------------------------------------------------------
(* libev, and the two callbacks of timer.cxx.                              *)

TimePasses ==
  /\ now < MaxTime
  /\ now' = now + 1
  /\ UNCHANGED <<timerVars, watcherVars, historyVars>>

\* timers_reify: a watcher with a repeat is put off by it, another is done.
\* Then its callback runs.
Fires(t) == t \in armed /\ at[t] < now

Rearm(t) ==
  IF repeat[t] = 0
  THEN armed' = Disarm(t) /\ UNCHANGED <<at, repeat, undefined>>
  ELSE /\ at' = [at EXCEPT ![t] = Greater(at[t] + repeat[t], now)]
       /\ UNCHANGED <<armed, repeat, undefined>>

\* Mutant: active is not reset.
CallBack_StillActive(t) ==
  /\ calls' = [calls EXCEPT ![t] = @ + 1]
  /\ UNCHANGED active

CallBack(t) ==
  /\ active' = active \ {t}
  /\ calls' = [calls EXCEPT ![t] = @ + 1]

\* ixut_timer_cb
FireOneShot(t) ==
  /\ Fires(t) /\ t \in live \ timeouts
  /\ Rearm(t) /\ CallBack(t)
  /\ UNCHANGED <<now, live, timeouts, interval, lastAct, started, rearmed, halted>>

\* Mutant: ticks do not count.
Due_Unticked(t) == started[t] + interval[t]

\* timer->_last_act + timer->interval
Due(t) == lastAct[t] + interval[t]

\* ixut_timeout_cb, when the interval has passed since the last tick.
FireTimeout(t) ==
  /\ Fires(t) /\ t \in live \cap timeouts /\ Due(t) < now
  /\ Rearm(t) /\ CallBack(t)
  /\ UNCHANGED <<now, live, timeouts, interval, lastAct, started, rearmed, halted>>

\* ixut_timeout_cb otherwise: the watcher is put off by the rest of the
\* interval (ixut_timer_again).
PutOff(t) ==
  /\ Fires(t) /\ t \in live \cap timeouts /\ now <= Due(t)
  /\ repeat' = [repeat EXCEPT ![t] = Due(t) - now]
  /\ Again(t, Due(t) - now)
  /\ active' = active \cup {t}
  /\ UNCHANGED <<now, live, timeouts, interval, lastAct, undefined, historyVars>>

\* A watcher fires whose timer has been freed.  What its callback does is
\* undefined; the model only goes on.
FireFreed(t) ==
  /\ Fires(t) /\ t \notin live
  /\ Rearm(t)
  /\ UNCHANGED <<now, timerVars, historyVars>>

\* What becomes of a timer after its creation.
Use(t) ==
  \/ SetTimeout(t) \/ Start(t) \/ Stop(t) \/ Tick(t) \/ Free(t)
  \/ TimerAgain(t) \/ AgainUnset(t)
  \/ FireOneShot(t) \/ FireTimeout(t) \/ PutOff(t) \/ FireFreed(t)

Next ==
  /\ ~undefined
  /\ TimePasses \/ \E t \in Timers : Create(t) \/ Use(t)

Spec == Init /\ [][Next]_vars
-----------------------------------------------------------------------------
(* Properties.                                                             *)

\* Types of struct ixut_timer and of its watcher.
TypeOK ==
  /\ now \in Begin..MaxTime
  /\ live \subseteq Timers /\ timeouts \subseteq Timers /\ active \subseteq live
  /\ armed \subseteq Timers
  /\ interval \in [Timers -> Interval \cup {0}] /\ lastAct \in [Timers -> 0..MaxTime]
  /\ at \in [Timers -> Nat] /\ repeat \in [Timers -> Nat]
  /\ undefined \in BOOLEAN
  /\ started \in [Timers -> 0..MaxTime] /\ calls \in [Timers -> Nat]
  /\ rearmed \subseteq Timers /\ halted \subseteq Timers

\* For a one-shot timer `active` is the truth: the watcher is in the loop
\* exactly as long, so that ixut_timer_free, which asserts ~active, frees no
\* timer that can still fire.  Only `again` makes it say more than is true.
OneShotTruth ==
  \A t \in live \ timeouts :
    /\ t \in armed => t \in active
    /\ t \in active \ halted => t \in armed

\* A one-shot timer calls back at most once per start.
OneShotOnce == \A t \in live \ timeouts : calls[t] <= 1

\* A callback is called only after the interval has passed, since the last
\* tick for a timeout and since the start for a one-shot timer that was not
\* in the loop when it was started.
NeverEarly ==
  [][\A t \in Timers :
       calls'[t] > calls[t] =>
         \/ t \in rearmed \ timeouts
         \/ (IF t \in timeouts THEN lastAct[t] ELSE started[t]) + interval[t] < now]_vars

\* A one-shot timer that is started, in the loop already or not, calls back,
\* unless it is stopped or `again` halts it.
OneShotFires ==
  \A t \in Timers :
    (t \in active \ timeouts) ~> (t \notin active \/ t \in halted \/ undefined)

\* The timer says that it is active and its watcher is out of the loop: the
\* rest of the interval was zero when it was put off last, or `again` was
\* called without a repeat.
Stalled(t) == t \in active \ armed /\ repeat[t] = 0

\* A timeout that is no longer ticked calls back, unless it is stopped or has
\* stalled, however often its watcher was put off before.
TimeoutFires ==
  \A t \in Timers :
    (t \in active \cap timeouts) ~> (t \notin active \/ Stalled(t) \/ undefined)

\* The timer whose watcher calls back exists, as the first assertions of
\* both callbacks have it (w->data and its _timer).
CallbackOwnsTimer == \A t \in Timers : Fires(t) => t \in live
=============================================================================
