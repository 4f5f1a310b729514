---------------------------- MODULE LuaTimerProof ----------------------------
(***************************************************************************)
(* Proofs about the timers of scripts, for any places, intervals and times.*)
(* The invariant says of each place who knows it: the loop (armed), the    *)
(* timer itself (active), the object (self) and Lua (held).                *)
(***************************************************************************)
EXTENDS LuaTimer, TLAPS

\* A freed timer is known to nobody, but for a timeout that the loop may
\* still call; an object's timer is one-shot.
Places(t) ==
  /\ t \in active => t \in live
  /\ t \in armed /\ t \notin live => t \in timeouts /\ t \notin objects
  /\ t \in held \cup self => t \in objects /\ t \in live
  /\ t \in objects => t \notin timeouts /\ t \notin halted

\* A one-shot timer in the loop is active and fires the first time since its
\* start, an interval after it if the start was what put it there.
OneShot(t) ==
  t \in live \ timeouts =>
    /\ t \in armed => t \in active /\ calls[t] = 0
    /\ t \in armed \ rearmed => at[t] = started[t] + interval[t]
    /\ t \in active \ halted => t \in armed
    /\ calls[t] <= 1 /\ repeat[t] = 0

\* A live object is held, or refers to itself until its callback; one that
\* does not while its timer is active was started by its own callback.
Object(t) ==
  t \in objects /\ t \in live =>
    /\ t \in held \/ t \in self
    /\ t \in self => t \in armed
    /\ t \in armed /\ t \notin restarted => t \in self

ObjectTypeOK ==
  /\ objects \subseteq Timers /\ self \subseteq Timers /\ held \subseteq Timers
  /\ aborted \in BOOLEAN /\ restarted \subseteq Timers

TimerInv(t) == Places(t) /\ OneShot(t) /\ Object(t)

IInv ==
  /\ TypeOK /\ ObjectTypeOK
  /\ \A t \in Timers : TimerInv(t)
  /\ aborted => restarted # {}

USE DEF timerVars, watcherVars, historyVars, referenceVars, objectVars
-----------------------------------------------------------------------------
LEMMA InitEstablishes == ObjectInit => IInv
<1> SUFFICES ASSUME ObjectInit  PROVE IInv
  OBVIOUS
<1>1. TypeOK
  <2>1. now \in Begin..MaxTime /\ 0 \in 0..MaxTime /\ 0 \in Interval \cup {0}
    BY TimerAssumption DEF ObjectInit, Init
  <2> QED  BY <2>1 DEF ObjectInit, Init, TypeOK
<1>4. ObjectTypeOK /\ aborted = FALSE
  BY DEF ObjectInit, ObjectTypeOK
<1>2. \A t \in Timers : t \notin live /\ t \notin active /\ t \notin armed
                         /\ t \notin objects /\ t \notin held /\ t \notin self
  BY DEF ObjectInit, Init
<1>3. \A t \in Timers : TimerInv(t)
  BY <1>2 DEF TimerInv, Places, OneShot, Object
<1> QED  BY <1>1, <1>3, <1>4 DEF IInv

\* What a step does to a timer other than its own: nothing.
Others(t) ==
  \A u \in Timers \ {t} :
    /\ u \in live' <=> u \in live
    /\ u \in timeouts' <=> u \in timeouts
    /\ u \in active' <=> u \in active
    /\ u \in armed' <=> u \in armed
    /\ u \in objects' <=> u \in objects
    /\ u \in self' <=> u \in self
    /\ u \in held' <=> u \in held
    /\ u \in restarted' <=> u \in restarted
    /\ u \in rearmed' <=> u \in rearmed
    /\ u \in halted' <=> u \in halted
    /\ interval'[u] = interval[u] /\ at'[u] = at[u]
    /\ started'[u] = started[u] /\ calls'[u] = calls[u] /\ repeat'[u] = repeat[u]

LEMMA OthersKeep ==
  ASSUME NEW t \in Timers, \A u \in Timers : TimerInv(u), Others(t), TimerInv(t)'
  PROVE  \A u \in Timers : TimerInv(u)'
<1> SUFFICES ASSUME NEW u \in Timers \ {t}  PROVE TimerInv(u)'
  OBVIOUS
<1> QED  BY DEF Others, TimerInv, Places, OneShot, Object
-----------------------------------------------------------------------------
LEMMA CreateKeeps ==
  ASSUME IInv, ~aborted, NEW t \in Timers, New(t) \/ CreateRaw(t)  PROVE IInv'
<1>1. Create(t) /\ UNCHANGED <<self, aborted>>
  BY DEF New, CreateRaw
<1>2. TypeOK' /\ ObjectTypeOK'
  BY TimerAssumption DEF New, CreateRaw, Create, CreatedInterval, IInv, TypeOK, ObjectTypeOK
<1>3. Others(t)
  BY <1>2 DEF New, CreateRaw, Create, Others, IInv, TypeOK, ObjectTypeOK
<1>4. TimerInv(t)'
  <2>1. t \notin live /\ t \notin armed /\ TimerInv(t)
    BY DEF New, CreateRaw, Create, IInv
  <2>2. t \notin active /\ t \notin held /\ t \notin self
    BY <2>1 DEF TimerInv, Places
  <2>3. /\ t \in live' /\ t \notin timeouts' /\ t \notin active' /\ t \notin armed'
        /\ calls'[t] = 0 /\ repeat'[t] = 0 /\ t \notin halted'
    <3>1. t \in live' /\ t \notin timeouts' /\ active' = active /\ armed' = armed
      BY <1>1 DEF Create
    <3>2. calls'[t] = 0 /\ repeat'[t] = 0 /\ t \notin halted'
      BY <1>1 DEF Create, IInv, TypeOK
    <3> QED  BY <2>1, <2>2, <3>1, <3>2
  <2>4. t \notin self' /\ (t \in held' <=> t \in objects')
    BY <2>2 DEF New, CreateRaw
  <2> QED  BY <2>3, <2>4 DEF TimerInv, Places, OneShot, Object
<1>5. aborted' => restarted' # {}
  BY DEF New, CreateRaw, IInv
<1> QED  BY <1>2, <1>3, <1>4, <1>5, OthersKeep DEF IInv

\* A start by anybody but the timer's own callback.
LEMMA StartKeeps ==
  ASSUME IInv, ~aborted, NEW t \in Timers,
         StartObject(t) \/ (t \notin objects /\ Start(t) /\ UNCHANGED objectVars)
  PROVE  IInv'
<1>1. /\ Start(t) /\ UNCHANGED <<objects, held, aborted>>
      /\ t \in objects => t \in self'
      /\ self' \subseteq self \cup {t} /\ self \subseteq self'
      /\ t \notin objects => UNCHANGED self
      /\ restarted' = restarted \/ restarted' = restarted \ {t}
      /\ t \in objects => t \notin restarted'
  BY DEF StartObject, Ref
<1>0. PICK i \in Interval : SetTimer(t, i, StartTimes(t, i))
  BY <1>1 DEF Start
<1>2. PICK a \in StartTimes(t, i) :
        /\ now + i < MaxTime
        /\ interval' = [interval EXCEPT ![t] = i]
        /\ repeat' = [repeat EXCEPT ![t] = StartRepeat(i)]
        /\ at' = [at EXCEPT ![t] = a]
  BY <1>0 DEF SetTimer
<1>3. /\ t \in live
      /\ armed' = armed \cup {t} /\ active' = active \cup {t}
      /\ started' = [started EXCEPT ![t] = now] /\ calls' = [calls EXCEPT ![t] = 0]
      /\ rearmed' = IF t \in armed THEN rearmed \cup {t} ELSE rearmed \ {t}
      /\ halted' = halted \ {t}
      /\ UNCHANGED <<now, live, timeouts, lastAct, undefined>>
  BY <1>1 DEF Start
<1>4. TypeOK' /\ ObjectTypeOK'
  <2>1. now \in Nat /\ i \in Nat /\ now \in 0..MaxTime /\ at[t] \in Nat
    BY TimerAssumption DEF IInv, TypeOK
  <2>2. a \in Nat
    BY <2>1 DEF StartTimes
  <2>3. TypeOK'
    BY <1>2, <1>3, <2>1, <2>2 DEF StartRepeat, IInv, TypeOK
  <2> QED  BY <1>1, <2>3 DEF IInv, ObjectTypeOK
<1>5. Others(t)
  BY <1>1, <1>2, <1>3 DEF Others, IInv, TypeOK
<1>6. TimerInv(t)'
  <2>1. TimerInv(t)
    BY DEF IInv
  <2>2. Places(t)'
    BY <1>1, <1>3, <2>1 DEF TimerInv, Places
  <2>3. OneShot(t)'
    <3>1. /\ t \in live' /\ t \in active' /\ t \in armed' /\ calls'[t] = 0
          /\ started'[t] = now /\ interval'[t] = i /\ repeat'[t] = 0 /\ at'[t] = a
      BY <1>2, <1>3 DEF StartRepeat, IInv, TypeOK
    <3>2. t \notin rearmed' => a = now + i
      BY <1>3 DEF StartTimes
    <3> QED  BY <3>1, <3>2 DEF OneShot
  <2>4. Object(t)'
    BY <1>1, <1>3 DEF Object
  <2> QED  BY <2>2, <2>3, <2>4 DEF TimerInv
<1> QED  BY <1>1, <1>4, <1>5, <1>6, OthersKeep DEF IInv

\* A one-shot timer calls back, and its object may be started in between.
LEMMA FireOneShotKeeps ==
  ASSUME IInv, ~aborted, NEW t \in Timers,
         FireObject(t) \/ (t \notin objects /\ FireOneShot(t) /\ UNCHANGED objectVars)
  PROVE  IInv'
<1>1. /\ FireOneShot(t) /\ UNCHANGED <<objects, aborted>>
      /\ t \in objects => t \notin self' /\ t \in held'
      /\ self' \subseteq self /\ self \subseteq self' \cup {t}
      /\ held' \subseteq held \cup {t} /\ held \subseteq held'
      /\ t \notin objects => UNCHANGED <<self, held>>
      /\ restarted' = restarted \/ restarted' = restarted \ {t}
  BY DEF FireObject, CallObject
<1>2. /\ t \in armed /\ t \in live /\ t \notin timeouts
      /\ Rearm(t) /\ active' = active \ {t} /\ calls' = [calls EXCEPT ![t] = @ + 1]
      /\ UNCHANGED <<now, live, timeouts, interval, lastAct, started, rearmed, halted>>
  BY <1>1 DEF FireOneShot, Fires, CallBack
<1>3. t \in active /\ calls[t] = 0 /\ repeat[t] = 0
  BY <1>2 DEF IInv, TimerInv, OneShot
<1>4. armed' = armed \ {t} /\ UNCHANGED <<at, repeat, undefined>>
  BY <1>2, <1>3 DEF Rearm, Disarm
<1>5. TypeOK' /\ ObjectTypeOK'
  <2>1. TypeOK'
    BY <1>2, <1>4 DEF IInv, TypeOK
  <2>2. ObjectTypeOK'
    BY <1>1 DEF IInv, ObjectTypeOK
  <2> QED  BY <2>1, <2>2
<1>6. Others(t)
  BY <1>1, <1>2, <1>4 DEF Others, IInv, TypeOK
<1>7. TimerInv(t)'
  <2>1. TimerInv(t)
    BY DEF IInv
  <2>2. Places(t)' /\ Object(t)'
    BY <1>1, <1>2, <1>4, <2>1 DEF TimerInv, Places, Object
  <2>3. calls'[t] = 1
    BY <1>2, <1>3 DEF IInv, TypeOK
  <2>4. OneShot(t)'
    BY <1>2, <1>3, <1>4, <2>3 DEF OneShot
  <2> QED  BY <2>2, <2>4 DEF TimerInv
<1> QED  BY <1>1, <1>5, <1>6, <1>7, OthersKeep DEF IInv

LEMMA RestartKeeps ==
  ASSUME IInv, ~aborted, NEW t \in Timers, FireAndRestart(t)  PROVE IInv'
<1>1. /\ t \in objects /\ self' = self \ {t} /\ held' = held \cup {t}
      /\ UNCHANGED <<objects, aborted>>
      /\ t \in armed /\ t \in live /\ t \notin timeouts
      /\ restarted' = restarted \cup {t}
      /\ rearmed' = rearmed \ {t}
      /\ UNCHANGED <<now, live, timeouts, active, lastAct, armed, undefined, halted>>
  BY DEF FireAndRestart, CallObject, Fires
<1>2. PICK i \in Interval :
        /\ now + i < MaxTime
        /\ interval' = [interval EXCEPT ![t] = i]
        /\ at' = [at EXCEPT ![t] = now + i]
        /\ repeat' = [repeat EXCEPT ![t] = 0]
        /\ started' = [started EXCEPT ![t] = now] /\ calls' = [calls EXCEPT ![t] = 0]
  BY DEF FireAndRestart, SetTimer, StartRepeat
<1>3. TypeOK' /\ ObjectTypeOK'
  <2>1. now \in Nat /\ i \in Nat /\ now \in 0..MaxTime
    BY TimerAssumption DEF IInv, TypeOK
  <2>2. TypeOK'
    BY <1>1, <1>2, <2>1 DEF IInv, TypeOK
  <2> QED  BY <1>1, <2>2 DEF IInv, ObjectTypeOK
<1>4. Others(t)
  BY <1>1, <1>2 DEF Others, IInv, TypeOK
<1>5. TimerInv(t)'
  <2>1. TimerInv(t)
    BY DEF IInv
  <2>2. Places(t)' /\ Object(t)'
    BY <1>1, <2>1 DEF TimerInv, Places, Object
  <2>3. calls'[t] = 0 /\ repeat'[t] = 0 /\ at'[t] = started'[t] + interval'[t]
    BY <1>2 DEF IInv, TypeOK
  <2>4. OneShot(t)'
    BY <1>1, <2>1, <2>3 DEF TimerInv, OneShot
  <2> QED  BY <2>2, <2>4 DEF TimerInv
<1> QED  BY <1>1, <1>3, <1>4, <1>5, OthersKeep DEF IInv
-----------------------------------------------------------------------------
LEMMA CollectKeeps ==
  ASSUME IInv, ~aborted, NEW t \in Timers, Collect(t)  PROVE IInv'
<1>1. /\ t \in held
      /\ t \notin active \/ t \in self
      /\ held' = held \ {t}
      /\ live' = IF t \in self THEN live ELSE live \ {t}
      /\ UNCHANGED <<now, timeouts, active, interval, lastAct, armed, at, repeat>>
      /\ UNCHANGED <<started, calls, objects, self, aborted, restarted>>
      /\ UNCHANGED <<undefined, rearmed, halted>>
  BY DEF Collect
<1>2. TimerInv(t)
  BY DEF IInv
<1>3. t \in objects /\ t \in live /\ t \notin timeouts /\ t \notin halted /\ (t \in active <=> t \in armed)
  BY <1>1, <1>2 DEF TimerInv, Places, OneShot
<1>4. TypeOK' /\ ObjectTypeOK'
  <2>1. active' \subseteq live'
    BY <1>1 DEF IInv, TypeOK
  <2>2. TypeOK'
    BY <1>1, <2>1 DEF IInv, TypeOK
  <2> QED  BY <1>1, <2>2 DEF IInv, ObjectTypeOK
<1>5. Others(t)
  BY <1>1 DEF Others
<1>6. TimerInv(t)'
  BY <1>1, <1>2, <1>3 DEF TimerInv, Places, OneShot, Object
<1> QED  BY <1>1, <1>4, <1>5, <1>6, OthersKeep DEF IInv

\* Only a timer that its callback started can be active without a reference.
LEMMA AbortKeeps ==
  ASSUME IInv, ~aborted, NEW t \in Timers, CollectAborts(t)  PROVE IInv'
<1>1. /\ t \in held /\ t \in active /\ t \notin self /\ restarted' = restarted \cap {t}
      /\ live' = {} /\ active' = {} /\ armed' = {}
      /\ objects' = {} /\ self' = {} /\ held' = {} /\ aborted' = TRUE
      /\ UNCHANGED <<now, timeouts, interval, lastAct, at, repeat, started, calls>>
      /\ UNCHANGED <<undefined, rearmed, halted>>
  BY DEF CollectAborts
<1>2. t \in restarted
  <2>1. TimerInv(t)
    BY DEF IInv
  <2> QED  BY <1>1, <2>1 DEF TimerInv, Places, OneShot, Object
<1>3. TypeOK' /\ ObjectTypeOK'
  BY <1>1 DEF IInv, TypeOK, ObjectTypeOK
<1>4. \A u \in Timers : TimerInv(u)'
  BY <1>1 DEF TimerInv, Places, OneShot, Object
<1> QED  BY <1>1, <1>2, <1>3, <1>4 DEF IInv
-----------------------------------------------------------------------------
\* What the functions of timer.cxx that are left do to a raw timer.
Raw(t) ==
  \/ SetTimeout(t) \/ Stop(t) \/ Tick(t) \/ Free(t) \/ TimerAgain(t) \/ AgainUnset(t)
  \/ FireTimeout(t) \/ PutOff(t) \/ FireFreed(t)

LEMMA RearmType ==
  ASSUME TypeOK, NEW t \in Timers, Rearm(t)
  PROVE  /\ armed' \subseteq armed /\ armed \subseteq armed' \cup {t}
         /\ at' \in [Timers -> Nat]
         /\ \A u \in Timers \ {t} : at'[u] = at[u]
         /\ UNCHANGED <<repeat, undefined>>
<1>1. now \in Nat
  BY TimerAssumption DEF TypeOK
<1> QED  BY <1>1 DEF Rearm, Disarm, Greater, TypeOK

LEMMA AgainType ==
  ASSUME TypeOK, NEW t \in Timers, NEW rest \in Nat, Again(t, rest)
  PROVE  /\ armed' \subseteq Timers /\ at' \in [Timers -> Nat]
         /\ \A u \in Timers \ {t} : at'[u] = at[u] /\ (u \in armed' <=> u \in armed)
<1>1. CASE rest = 0
  BY <1>1 DEF Again, Disarm, TypeOK
<1>2. CASE rest # 0
  <2>1. armed' = armed \cup {t} /\ at' = [at EXCEPT ![t] = now + rest]
    BY <1>2 DEF Again
  <2>2. now + rest \in Nat
    BY TimerAssumption DEF TypeOK
  <2> QED  BY <2>1, <2>2 DEF TypeOK
<1> QED  BY <1>1, <1>2

\* Type correctness, and that nothing happens to another timer.
LEMMA RawType ==
  ASSUME IInv, NEW t \in Timers, t \notin objects, Raw(t), UNCHANGED objectVars
  PROVE  TypeOK' /\ Others(t)
<1>0. TypeOK /\ now \in Nat /\ now \in 0..MaxTime
  BY TimerAssumption DEF IInv, TypeOK
<1>1. CASE SetTimeout(t)
  BY <1>0, <1>1 DEF SetTimeout, Others, TypeOK
<1>2. CASE Stop(t)
  <2>1. TypeOK'
    BY <1>0, <1>2 DEF Stop, Disarm, TypeOK
  <2> QED  BY <1>0, <1>2, <2>1 DEF Stop, Disarm, Others, TypeOK
<1>3. CASE Tick(t)
  BY <1>0, <1>3 DEF Tick, Others, TypeOK
<1>4. CASE Free(t)
  <2>1. TypeOK'
    BY <1>0, <1>4 DEF Free, TypeOK
  <2> QED  BY <1>0, <1>4, <2>1 DEF Free, Others, TypeOK
<1>5. CASE FireTimeout(t)
  <2>1. /\ Rearm(t) /\ active' = active \ {t} /\ calls' = [calls EXCEPT ![t] = @ + 1]
        /\ UNCHANGED <<now, live, timeouts, interval, lastAct, started, rearmed, halted>>
    BY <1>5 DEF FireTimeout, CallBack
  <2>2. /\ armed' \subseteq armed /\ armed \subseteq armed' \cup {t}
        /\ at' \in [Timers -> Nat] /\ UNCHANGED <<repeat, undefined>>
        /\ \A u \in Timers \ {t} : at'[u] = at[u]
    BY <1>0, <2>1, RearmType
  <2>3. calls' \in [Timers -> Nat] /\ (\A u \in Timers \ {t} : calls'[u] = calls[u])
    BY <1>0, <2>1 DEF TypeOK
  <2>4. TypeOK'
    BY <1>0, <2>1, <2>2, <2>3 DEF TypeOK
  <2> QED  BY <2>1, <2>2, <2>3, <2>4 DEF Others
<1>6. CASE PutOff(t)
  <2>0. interval[t] \in Nat /\ lastAct[t] \in Nat
    <3>1. interval[t] \in Interval \cup {0} /\ lastAct[t] \in 0..MaxTime
      BY <1>0 DEF TypeOK
    <3>2. Interval \subseteq Nat /\ 0 \in Nat /\ 0..MaxTime \subseteq Nat
      BY TimerAssumption
    <3> QED  BY <3>1, <3>2
  <2>1. Due(t) \in Nat /\ Due(t) - now \in Nat /\ t \in live
    <3>1. Due(t) \in Nat
      BY <2>0 DEF Due
    <3>2. now <= Due(t) /\ t \in live
      BY <1>6 DEF PutOff
    <3> QED  BY <1>0, <3>1, <3>2
  <2>2. /\ repeat' = [repeat EXCEPT ![t] = Due(t) - now] /\ Again(t, Due(t) - now)
        /\ active' = active \cup {t}
        /\ UNCHANGED <<now, live, timeouts, interval, lastAct, undefined>>
        /\ UNCHANGED <<started, calls, rearmed, halted>>
    BY <1>6 DEF PutOff
  <2>3. /\ armed' \subseteq Timers /\ at' \in [Timers -> Nat]
        /\ \A u \in Timers \ {t} : at'[u] = at[u] /\ (u \in armed' <=> u \in armed)
    BY <1>0, <2>1, <2>2, AgainType
  <2>4. /\ repeat' \in [Timers -> Nat]
        /\ \A u \in Timers \ {t} : repeat'[u] = repeat[u]
    BY <1>0, <2>1, <2>2 DEF TypeOK
  <2>5. TypeOK'
    BY <1>0, <2>1, <2>2, <2>3, <2>4 DEF TypeOK
  <2> QED  BY <2>2, <2>3, <2>4, <2>5 DEF Others
<1>7. CASE FireFreed(t)
  <2>1. Rearm(t) /\ UNCHANGED <<now, timerVars, historyVars>>
    BY <1>7 DEF FireFreed
  <2> QED  BY <1>0, <2>1, RearmType DEF Others, TypeOK
<1>8. CASE TimerAgain(t)
  <2>1. /\ t \in live /\ Again(t, repeat[t]) /\ active' = active \cup {t}
        /\ halted' = halted \cup ({t} \ timeouts)
        /\ UNCHANGED <<now, live, timeouts, interval, lastAct, repeat, undefined>>
        /\ UNCHANGED <<started, calls, rearmed>>
    BY <1>8 DEF TimerAgain
  <2>2. repeat[t] \in Nat
    BY <1>0 DEF TypeOK
  <2>3. /\ armed' \subseteq Timers /\ at' \in [Timers -> Nat]
        /\ \A u \in Timers \ {t} : at'[u] = at[u] /\ (u \in armed' <=> u \in armed)
    BY <1>0, <2>1, <2>2, AgainType
  <2>4. TypeOK'
    BY <1>0, <2>1, <2>3 DEF TypeOK
  <2> QED  BY <2>1, <2>3, <2>4 DEF Others
<1>9. CASE AgainUnset(t)
  BY <1>0, <1>9 DEF AgainUnset, Others, TypeOK
<1> QED  BY <1>1, <1>2, <1>3, <1>4, <1>5, <1>6, <1>7, <1>8, <1>9 DEF Raw

LEMMA RawKeeps ==
  ASSUME IInv, ~aborted, NEW t \in Timers, t \notin objects, Raw(t), UNCHANGED objectVars
  PROVE  IInv'
<1>1. TypeOK' /\ Others(t)
  BY RawType
<1>2. TypeOK /\ TimerInv(t) /\ t \notin held /\ t \notin self
  BY DEF IInv, TimerInv, Places
<1>3. Places(t)' /\ OneShot(t)'
  <2>1. CASE SetTimeout(t)
    BY <1>2, <2>1 DEF SetTimeout, TimerInv, Places, OneShot
  <2>2. CASE Stop(t)
    <3>1. t \notin armed' /\ t \notin active'
      BY <2>2 DEF Stop, Disarm
    <3> QED  BY <1>2, <2>2, <3>1 DEF Stop, TimerInv, Places, OneShot
  <2>3. CASE Tick(t)
    BY <1>2, <2>3 DEF Tick, TimerInv, Places, OneShot
  <2>4. CASE Free(t)
    BY <1>2, <2>4 DEF Free, TimerInv, Places, OneShot
  <2>5. CASE FireTimeout(t)
    <3>1. t \in live' /\ t \in timeouts'
      BY <2>5 DEF FireTimeout
    <3> QED  BY <1>2, <3>1 DEF Places, OneShot
  <2>6. CASE PutOff(t)
    <3>1. t \in live' /\ t \in timeouts'
      BY <2>6 DEF PutOff
    <3> QED  BY <1>2, <3>1 DEF Places, OneShot
  <2>7. CASE FireFreed(t)
    <3>1. t \notin live /\ Rearm(t) /\ UNCHANGED <<now, timerVars, historyVars>>
      BY <2>7 DEF FireFreed
    <3>2. armed' \subseteq armed
      BY <1>2, <3>1, RearmType
    <3> QED  BY <1>2, <3>1, <3>2 DEF TimerInv, Places, OneShot
  <2>8. CASE TimerAgain(t)
    <3>1. /\ t \in live /\ Again(t, repeat[t]) /\ active' = active \cup {t}
          /\ halted' = halted \cup ({t} \ timeouts)
          /\ UNCHANGED <<live, timeouts, repeat, calls>>
      BY <2>8 DEF TimerAgain
    <3>2. t \notin timeouts => t \notin armed'
      BY <1>2, <3>1 DEF TimerInv, OneShot, Again, Disarm
    <3> QED  BY <1>2, <3>1, <3>2 DEF TimerInv, Places, OneShot
  <2>9. CASE AgainUnset(t)
    BY <1>2, <2>9 DEF AgainUnset, TimerInv, Places, OneShot
  <2> QED  BY <2>1, <2>2, <2>3, <2>4, <2>5, <2>6, <2>7, <2>8, <2>9 DEF Raw
<1>4. TimerInv(t)'
  BY <1>3 DEF TimerInv, Object
<1>5. ObjectTypeOK' /\ (aborted' => restarted' # {})
  BY DEF IInv, ObjectTypeOK
<1> QED  BY <1>1, <1>4, <1>5, OthersKeep DEF IInv
-----------------------------------------------------------------------------
LEMMA TimeKeeps ==
  ASSUME IInv, TimePasses, UNCHANGED objectVars  PROVE IInv'
<1>1. TypeOK'
  BY TimerAssumption DEF TimePasses, IInv, TypeOK
<1> QED  BY <1>1 DEF TimePasses, IInv, ObjectTypeOK, TimerInv, Places, OneShot, Object

\* A step of the process, with the timer it is about.
LEMMA Steps ==
  ASSUME ObjectNext
  PROVE  /\ ~aborted
         /\ \/ TimePasses /\ UNCHANGED objectVars
            \/ \E t \in Timers :
                 \/ New(t) \/ CreateRaw(t)
                 \/ StartObject(t)
                 \/ (t \notin objects /\ Start(t) /\ UNCHANGED objectVars)
                 \/ FireObject(t)
                 \/ (t \notin objects /\ FireOneShot(t) /\ UNCHANGED objectVars)
                 \/ FireAndRestart(t) \/ Collect(t) \/ CollectAborts(t)
                 \/ (t \notin objects /\ Raw(t) /\ UNCHANGED objectVars)
BY Zenon DEF ObjectNext, Running, UseRaw, Use, Raw

LEMMA NextKeeps == IInv /\ [ObjectNext]_<<vars, objectVars>> => IInv'
<1> SUFFICES ASSUME IInv, [ObjectNext]_<<vars, objectVars>>  PROVE IInv'
  OBVIOUS
<1>1. CASE ObjectNext
  <2>0. ~aborted
    BY <1>1, Steps
  <2>1. CASE TimePasses /\ UNCHANGED objectVars
    BY <2>1, TimeKeeps
  <2>2. ASSUME NEW t \in Timers, New(t) \/ CreateRaw(t)  PROVE IInv'
    BY <2>0, <2>2, CreateKeeps
  <2>3. ASSUME NEW t \in Timers,
               StartObject(t) \/ (t \notin objects /\ Start(t) /\ UNCHANGED objectVars)
        PROVE  IInv'
    BY <2>0, <2>3, StartKeeps
  <2>4. ASSUME NEW t \in Timers,
               FireObject(t) \/ (t \notin objects /\ FireOneShot(t) /\ UNCHANGED objectVars)
        PROVE  IInv'
    BY <2>0, <2>4, FireOneShotKeeps
  <2>5. ASSUME NEW t \in Timers, FireAndRestart(t)  PROVE IInv'
    BY <2>0, <2>5, RestartKeeps
  <2>6. ASSUME NEW t \in Timers, Collect(t)  PROVE IInv'
    BY <2>0, <2>6, CollectKeeps
  <2>7. ASSUME NEW t \in Timers, CollectAborts(t)  PROVE IInv'
    BY <2>0, <2>7, AbortKeeps
  <2>8. ASSUME NEW t \in Timers, t \notin objects, Raw(t), UNCHANGED objectVars  PROVE IInv'
    BY <2>0, <2>8, RawKeeps
  <2> QED  BY <1>1, <2>1, <2>2, <2>3, <2>4, <2>5, <2>6, <2>7, <2>8, Steps, Zenon
<1>2. CASE UNCHANGED <<vars, objectVars>>
  BY <1>2 DEF vars, IInv, TypeOK, ObjectTypeOK, TimerInv, Places, OneShot, Object
<1> QED  BY <1>1, <1>2

\* The inductive invariant, for any scripts, places, intervals and times.
THEOREM Invariance == ObjectSpec => []IInv
<1> QED  BY InitEstablishes, NextKeeps, PTL DEF ObjectSpec
-----------------------------------------------------------------------------
\* The types of ixut_timer and of its watcher are kept, by objects too.
THEOREM TypesKept == ObjectSpec => []TypeOK
<1>1. IInv => TypeOK
  BY DEF IInv
<1> QED  BY <1>1, Invariance, PTL

\* For a one-shot timer, raw or of an object, started again while it runs,
\* in its callback or later, `active` is the truth but for what `again` makes
\* of it.
THEOREM ActiveIsTrue == ObjectSpec => []OneShotTruth
<1>1. IInv => OneShotTruth
  BY DEF IInv, TypeOK, TimerInv, OneShot, OneShotTruth
<1> QED  BY <1>1, Invariance, PTL

\* A one-shot timer calls back at most once per start (timer.cxx:89-93).
THEOREM FiresOnce == ObjectSpec => []OneShotOnce
<1>1. IInv => OneShotOnce
  BY DEF IInv, TypeOK, TimerInv, OneShot, OneShotOnce
<1> QED  BY <1>1, Invariance, PTL

\* ixlbx_timer objects live as long as they are needed and no longer, and
\* only one that its callback started can meet the assertion of
\* ixut_timer_free.
THEOREM ObjectsLive == ObjectSpec => []ObjectLife
<1>1. IInv => ObjectLife
  <2> SUFFICES ASSUME IInv  PROVE ObjectLife
    OBVIOUS
  <2>1. ASSUME NEW t \in objects
        PROVE  /\ t \in armed => t \in live
               /\ t \in live \ armed => t \in held \ self
    <3>1. t \in Timers /\ TimerInv(t)
      BY DEF IInv, ObjectTypeOK
    <3> QED  BY <3>1 DEF TimerInv, Places, Object
  <2> QED  BY <2>1 DEF IInv, ObjectLife
<1> QED  BY <1>1, Invariance, PTL
-----------------------------------------------------------------------------
\* The step of NeverEarly.
EarlyNever ==
  \A t \in Timers :
    calls'[t] > calls[t] =>
      \/ t \in rearmed \ timeouts
      \/ (IF t \in timeouts THEN lastAct[t] ELSE started[t]) + interval[t] < now

LEMMA Quiet ==
  ASSUME \A u \in Timers : calls'[u] = calls[u] \/ calls'[u] = 0, TypeOK
  PROVE  EarlyNever
BY DEF EarlyNever, TypeOK

LEMMA OneCall ==
  ASSUME TypeOK, NEW t \in Timers, calls' = [calls EXCEPT ![t] = @ + 1],
         \/ t \in rearmed \ timeouts
         \/ (IF t \in timeouts THEN lastAct[t] ELSE started[t]) + interval[t] < now
  PROVE  EarlyNever
<1>1. \A u \in Timers \ {t} : calls'[u] = calls[u] /\ calls[u] \in Nat
  BY DEF TypeOK
<1> QED  BY <1>1 DEF EarlyNever

\* Callbacks come when they are due: a timeout's an interval after its last
\* tick (timer.cxx:102), a one-shot timer's an interval after its start,
\* unless it was in the loop already, where ev_timer_start leaves it.
THEOREM NothingEarly == ObjectSpec => NeverEarly
<1>1. IInv /\ [ObjectNext]_<<vars, objectVars>> => [EarlyNever]_vars
  <2> SUFFICES ASSUME IInv, ObjectNext  PROVE EarlyNever
    BY Zenon DEF vars
  <2>0. TypeOK
    BY DEF IInv
  <2>1. CASE TimePasses /\ UNCHANGED objectVars
    BY <2>0, <2>1, Quiet DEF TimePasses
  <2>2. ASSUME NEW t \in Timers, New(t) \/ CreateRaw(t)  PROVE EarlyNever
    <3>1. calls' = [calls EXCEPT ![t] = 0]
      BY <2>2 DEF New, CreateRaw, Create
    <3> QED  BY <2>0, <3>1, Quiet DEF TypeOK
  <2>3. ASSUME NEW t \in Timers,
               StartObject(t) \/ (t \notin objects /\ Start(t) /\ UNCHANGED objectVars)
        PROVE  EarlyNever
    <3>1. calls' = [calls EXCEPT ![t] = 0]
      BY <2>3 DEF StartObject, Start
    <3> QED  BY <2>0, <3>1, Quiet DEF TypeOK
  <2>4. ASSUME NEW t \in Timers,
               FireObject(t) \/ (t \notin objects /\ FireOneShot(t) /\ UNCHANGED objectVars)
        PROVE  EarlyNever
    <3>1. /\ t \in armed /\ at[t] < now /\ t \in live /\ t \notin timeouts
          /\ calls' = [calls EXCEPT ![t] = @ + 1]
      BY <2>4 DEF FireObject, FireOneShot, Fires, CallBack
    <3>2. t \notin rearmed => at[t] = started[t] + interval[t]
      BY <3>1 DEF IInv, TimerInv, OneShot
    <3> QED  BY <2>0, <3>1, <3>2, OneCall
  <2>5. ASSUME NEW t \in Timers, FireAndRestart(t)  PROVE EarlyNever
    <3>1. calls' = [calls EXCEPT ![t] = 0]
      BY <2>5 DEF FireAndRestart
    <3> QED  BY <2>0, <3>1, Quiet DEF TypeOK
  <2>6. ASSUME NEW t \in Timers, Collect(t) \/ CollectAborts(t)  PROVE EarlyNever
    <3>1. UNCHANGED calls
      BY <2>6 DEF Collect, CollectAborts
    <3> QED  BY <2>0, <3>1, Quiet
  <2>7. ASSUME NEW t \in Timers, FireTimeout(t)  PROVE EarlyNever
    <3>1. t \in timeouts /\ Due(t) < now /\ calls' = [calls EXCEPT ![t] = @ + 1]
      BY <2>7 DEF FireTimeout, CallBack
    <3> QED  BY <2>0, <3>1, OneCall DEF Due
  <2>8. ASSUME NEW t \in Timers, Raw(t), ~FireTimeout(t)  PROVE EarlyNever
    <3>1. UNCHANGED calls
      BY <2>8 DEF Raw, SetTimeout, Stop, Tick, Free, TimerAgain, AgainUnset, PutOff, FireFreed
    <3> QED  BY <2>0, <3>1, Quiet
  <2> QED  BY <2>1, <2>2, <2>3, <2>4, <2>5, <2>6, <2>7, <2>8, Steps, Zenon
<1> QED  BY <1>1, Invariance, PTL DEF ObjectSpec, NeverEarly, EarlyNever
=============================================================================
