------------------------------ MODULE LuaTimer ------------------------------
(***************************************************************************)
(* Timers as scripts have them: those of the raw interface (iojx.timer in  *)
(* luafound.cxx), which the script frees itself, and the objects of        *)
(* luafoundx.cxx (iojxx.timer), which delayed_gc of oj/iojxd.lua uses.  An *)
(* object refers to itself from its start to its callback; the collector   *)
(* frees it once nothing refers to it.  The destructor calls               *)
(* ixut_timer_free whatever state the timer is in, and the watcher of a    *)
(* started timer points to the object.                                     *)
(*                                                                         *)
(* A collection within the callback (delayed_gc's does nothing else) ends  *)
(* in the state that one right after it leads to.                          *)
(***************************************************************************)
EXTENDS Timer

VARIABLES
  objects,     \* places of timers that belong to an object
  self,        \* objects that refer to themselves (m_this_ref)
  held,        \* objects that a Lua userdata refers to
  aborted,     \* an assertion has ended the process
  restarted    \* history: objects started last by their own callback

referenceVars == <<self, held>>
objectVars == <<objects, referenceVars, aborted, restarted>>

ObjectInit ==
  Init /\ objects = {} /\ self = {} /\ held = {} /\ aborted = FALSE /\ restarted = {}

\* iojxx.timer(context, cb)
New(t) ==
  /\ Create(t)
  /\ objects' = objects \cup {t} /\ held' = held \cup {t}
  /\ restarted' = restarted \ {t}
  /\ UNCHANGED <<self, aborted>>

\* Mutant: the object takes no reference to itself.
Ref_None(t) == self

\* ixlbx_ref_base::ref
Ref(t) == self \cup {t}

\* ixlbx_timer::start, called through a userdata, of a timer that is running
\* too: ref takes no second reference.
StartObject(t) ==
  /\ t \in objects \cap held
  /\ Start(t) /\ self' = Ref(t)
  /\ restarted' = restarted \ {t}
  /\ UNCHANGED <<objects, held, aborted>>

\* The callback of ixlbx_timer::start makes a userdata for the script's
\* function; then un_ref.
CallObject(t) ==
  /\ t \in objects
  /\ self' = self \ {t} /\ held' = held \cup {t}
  /\ UNCHANGED <<objects, aborted>>

FireObject(t) ==
  /\ CallObject(t) /\ FireOneShot(t)
  /\ restarted' = restarted \ {t}

\* The script's function starts its timer again: ref finds the reference that
\* is about to be given up, and takes none.
FireAndRestart(t) ==
  /\ CallObject(t)
  /\ Fires(t) /\ t \in live \ timeouts
  /\ \E i \in Interval : SetTimer(t, i, {now + i})
  /\ started' = [started EXCEPT ![t] = now] /\ calls' = [calls EXCEPT ![t] = 0]
  /\ rearmed' = rearmed \ {t}
  /\ restarted' = restarted \cup {t}
  /\ UNCHANGED <<now, live, timeouts, active, lastAct, armed, undefined, halted>>

\* The collector finalizes an object's userdata.
Collect(t) ==
  /\ t \in held \ active \/ t \in held \cap self
  /\ held' = held \ {t}
  /\ live' = IF t \in self THEN live ELSE live \ {t}
  /\ UNCHANGED <<now, timeouts, active, interval, lastAct, watcherVars, historyVars>>
  /\ UNCHANGED <<objects, self, aborted, restarted>>

\* ixlbx_timer::~ixlbx_timer, and the assertion of ixut_timer_free: the
\* process is gone with its memory.
CollectAborts(t) ==
  /\ t \in (held \cap active) \ self
  /\ aborted' = TRUE /\ restarted' = restarted \cap {t}
  /\ live' = {} /\ active' = {} /\ armed' = {}
  /\ objects' = {} /\ self' = {} /\ held' = {}
  /\ UNCHANGED <<now, timeouts, interval, lastAct, at, repeat, undefined, historyVars>>

\* The raw interface.
CreateRaw(t) ==
  /\ Create(t)
  /\ objects' = objects \ {t}
  /\ UNCHANGED <<referenceVars, aborted, restarted>>

UseRaw(t) == t \notin objects /\ Use(t) /\ UNCHANGED objectVars

\* There is a process, in a state that C and libev define.
Running == ~aborted /\ ~undefined

ObjectNext ==
  /\ Running
  /\ \/ TimePasses /\ UNCHANGED objectVars
     \/ \E t \in Timers :
          \/ New(t) \/ StartObject(t) \/ FireObject(t) \/ FireAndRestart(t)
          \/ Collect(t) \/ CollectAborts(t)
          \/ CreateRaw(t) \/ UseRaw(t)

ObjectSpec == ObjectInit /\ [][ObjectNext]_<<vars, objectVars>>

\* Time passes, and the loop gets to the watchers that are due, with a
\* callback of either kind.
ObjectFairness ==
  /\ WF_<<vars, objectVars>>(Running /\ TimePasses /\ UNCHANGED objectVars)
  /\ \A t \in Timers :
       /\ WF_<<vars, objectVars>>(
            Running /\ (FireObject(t) \/ FireAndRestart(t) \/
                         (t \notin objects /\ FireOneShot(t) /\ UNCHANGED objectVars)))
       /\ WF_<<vars, objectVars>>(
            Running /\ t \notin objects /\ (FireTimeout(t) \/ PutOff(t)) /\ UNCHANGED objectVars)

ObjectFairSpec == ObjectSpec /\ ObjectFairness
-----------------------------------------------------------------------------
\* An object lives as long as its timer can fire; one whose timer cannot fire
\* any more is left to the collector; and no destructor meets the assertion
\* of ixut_timer_free but that of a timer which its own callback had started.
ObjectLife ==
  /\ \A t \in objects :
       /\ t \in armed => t \in live
       /\ t \in live \ armed => t \in held \ self
  /\ aborted => restarted # {}
=============================================================================
