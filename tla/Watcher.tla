------------------------------ MODULE Watcher ------------------------------
(***************************************************************************)
(* Child processes and who hears of their end: childprocess.cxx under the  *)
(* reference-counted binding of luafoundx.cxx (iojxx.fork and              *)
(* iojxx.child_watcher) and under the raw one of luafound.cxx              *)
(* (iojx.child_process), and the older child_termcb.cxx (spawn_process).   *)
(*                                                                         *)
(* A watcher knows its child by the process id, which the kernel gives     *)
(* again once the child has been waited for.  The loop waits for every     *)
(* child, those that nobody watches (the evaluators) included.  A wrapper  *)
(* lives while it holds a reference to itself or userdata refers to it;    *)
(* the collector may run between any two events.                           *)
(*                                                                         *)
(* As in the scripts, a watcher is started in the handler that forks       *)
(* (oj/iojxd.lua:219-229, lib/laoj.lua:26-33).  It may be started again,   *)
(* also in its own callback.  Scripts free raw watchers as the assertions  *)
(* of ixut_childw_free ask, and start no watcher that is started.          *)
(***************************************************************************)
EXTENDS Integers, Sequences

CONSTANTS
  Child,       \* the children, each forked once
  Pid,         \* process ids
  Place,       \* memory for a watcher and its wrapper
  Exit         \* how a process may end: <<"exited", code>>, <<"killed", signal>>,
               \* or <<"dumped", signal>> with a core image

ASSUME WatcherAssumption ==
  /\ Pid \subseteq Nat \ {0}
  /\ Exit \subseteq ({"exited"} \X (0..255)) \cup ({"killed", "dumped"} \X (1..126))

VARIABLES
  proc,        \* per child: "new", "running", "zombie", "reaped"
  pid, ended,  \* its process id, 0 when it has none, and how it ended
  live,        \* places that are allocated
  termcbs,     \* those with a termination callback instead of a wrapper
  raw,         \* those without a wrapper, which their script frees
  self, held,  \* wrappers that refer to themselves, that userdata refers to
  active,      \* watchers in the loop
  pending,     \* watchers whose event is fed and not yet called
  wpid, rstatus,   \* the ev_child's fields pid and rstatus
  aborted,     \* an assertion has ended the process
  childOf,     \* history: the child a watcher was started for
  restarted,   \* history: wrappers started last by their own callback
  told         \* history: per child, what callbacks were told of its end

procVars == <<proc, pid, ended>>
wrapperVars == <<live, termcbs, raw, self, held>>
eventVars == <<active, pending, wpid, rstatus>>
historyVars == <<childOf, restarted, told>>
vars == <<procVars, wrapperVars, eventVars, aborted, historyVars>>

None == <<"exited", -1>>

Init ==
  /\ proc = [c \in Child |-> "new"]
  /\ pid = [c \in Child |-> 0] /\ ended = [c \in Child |-> None]
  /\ live = {} /\ termcbs = {} /\ raw = {} /\ self = {} /\ held = {}
  /\ active = {} /\ pending = {}
  /\ wpid = [w \in Place |-> -1] /\ rstatus = [w \in Place |-> -1]
  /\ aborted = FALSE /\ restarted = {}
  /\ childOf = [w \in Place |-> {}]
  /\ told = [c \in Child |-> <<>>]
-----------------------------------------------------------------------------
(* The kernel's processes.                                                 *)

FreePid(p) == \A c \in Child : pid[c] # p

\* fork(2) has made child c with process id p.
Forks(c, p) ==
  /\ proc[c] = "new" /\ FreePid(p)
  /\ proc' = [proc EXCEPT ![c] = "running"]
  /\ pid' = [pid EXCEPT ![c] = p]
  /\ UNCHANGED ended

ChildEnds(c) ==
  /\ proc[c] = "running"
  /\ proc' = [proc EXCEPT ![c] = "zombie"]
  /\ \E e \in Exit : ended' = [ended EXCEPT ![c] = e]
  /\ UNCHANGED <<pid, wrapperVars, eventVars, aborted, historyVars>>
-----------------------------------------------------------------------------
(* Handlers of the server.  They run between events, never while a child's *)
(* end is being told.                                                      *)

\* Mutant: the wrapper does not refer to itself.
Ref_None(w) == self

\* ref(): new RefCountedPtr(this)
Ref(w) == self \cup {w}

\* Mutant: the watcher is set for any child.
SetPid_Any(p) == 0

\* ev_child_set
SetPid(p) == p

\* Mutant: the watcher is set and never started.
ChildStart_Not(w) == active

\* ev_child_start
ChildStart(w) == active \cup {w}

\* What fork gives a script to watch: the process id of a new child, or -1.
Forked(p, cs) ==
  \/ p \in Pid /\ \E c \in Child : cs = {c} /\ Forks(c, p)
  \/ p = -1 /\ cs = {} /\ UNCHANGED procVars

\* Watcher w waits for what Forked gave.
Waits(w, p, cs) ==
  /\ active' = ChildStart(w)
  /\ wpid' = [wpid EXCEPT ![w] = SetPid(p)]
  /\ childOf' = [childOf EXCEPT ![w] = cs]

AtRest == pending = {} /\ ~aborted

\* Place w is allocated for a watcher.
Allocate(w) ==
  /\ w \notin live /\ live' = live \cup {w}
  /\ rstatus' = [rstatus EXCEPT ![w] = -1]

\* iojxx.child_watcher(...), by userdata, and start.
NewWrapper(w) ==
  /\ Allocate(w)
  /\ self' = Ref(w) /\ held' = held \cup {w}
  /\ termcbs' = termcbs \ {w} /\ UNCHANGED raw

\* iojx.child_process.create and start.
NewRaw(w) ==
  /\ Allocate(w)
  /\ raw' = raw \cup {w} /\ termcbs' = termcbs \ {w}
  /\ UNCHANGED <<self, held>>

\* start, of a watcher that a script still has.
Again(w) ==
  /\ w \in (held \cup raw) \ active
  /\ self' = IF w \in raw THEN self ELSE Ref(w)
  /\ UNCHANGED <<live, termcbs, raw, held, rstatus>>

StartWatcher(w) ==
  /\ AtRest
  /\ \E p \in Pid \cup {-1} : \E cs \in {{}} \cup {{c} : c \in Child} :
       Forked(p, cs) /\ Waits(w, p, cs)
  /\ NewWrapper(w) \/ NewRaw(w) \/ Again(w)
  /\ restarted' = restarted \ {w}
  /\ UNCHANGED <<pending, aborted, told>>

\* A fork without a watcher: iojx.util.fork, or evaluate.
ForkUnwatched(c) ==
  /\ AtRest
  /\ \E p \in Pid : Forks(c, p)
  /\ UNCHANGED <<wrapperVars, eventVars, aborted, historyVars>>

\* ixut_spawn_process: ixc_add_termcb allocates the watcher, with no wrapper.
Spawn(c, w) ==
  /\ AtRest
  /\ \E p \in Pid : Forks(c, p) /\ Waits(w, p, {c})
  /\ Allocate(w) /\ termcbs' = termcbs \cup {w}
  /\ restarted' = restarted \ {w}
  /\ UNCHANGED <<raw, self, held, pending, aborted, told>>

\* ixut_childw_free by the script that made the watcher.
FreeRaw(w) ==
  /\ AtRest /\ w \in raw \ active
  /\ live' = live \ {w} /\ raw' = raw \ {w}
  /\ UNCHANGED <<procVars, termcbs, self, held, eventVars, aborted, historyVars>>

\* Userdata is collected; the destructor frees what nothing refers to.
CollectSome ==
  /\ AtRest
  /\ \E w \in held :
       /\ w \in active => w \in self
       /\ held' = held \ {w}
       /\ live' = IF w \in self THEN live ELSE live \ {w}
  /\ UNCHANGED <<procVars, termcbs, raw, self, eventVars, aborted, historyVars>>

\* ~ixlbx_child_watcher of a watcher in the loop: an assertion of
\* ixut_childw_free fails, and the process is gone with its memory.
Aborts ==
  /\ aborted' = TRUE
  /\ live' = {} /\ termcbs' = {} /\ raw' = {} /\ self' = {} /\ held' = {}
  /\ active' = {} /\ pending' = {}

CollectAborts ==
  /\ AtRest
  /\ \E w \in (held \cap active) \ self : restarted' = restarted \cap {w}
  /\ Aborts
  /\ UNCHANGED <<procVars, wpid, rstatus, childOf, told>>
-----------------------------------------------------------------------------
(* libev's childcb: one child is waited for, its watchers are called, then *)
(* the next.                                                               *)

\* The status that waitpid gives of a process that ended so.
RawStatus(e) ==
  CASE e[1] = "exited" -> 256 * e[2]
    [] e[1] = "killed" -> e[2]
    [] OTHER -> e[2] + 128

Reap(c) ==
  /\ AtRest /\ proc[c] = "zombie"
  /\ proc' = [proc EXCEPT ![c] = "reaped"]
  /\ pid' = [pid EXCEPT ![c] = 0]
  /\ pending' = {w \in active : wpid[w] \in {0, pid[c]}}
  /\ rstatus' = [w \in Place |-> IF w \in pending' THEN RawStatus(ended[c]) ELSE rstatus[w]]
  /\ UNCHANGED <<ended, wrapperVars, active, wpid, aborted, historyVars>>

\* ixut_childw_getstatus, of a process that is not stopped: WEXITSTATUS,
\* WTERMSIG, and the cause by WIFEXITED.
GetStatus(rs) ==
  [decoded |-> TRUE,
   status |-> (rs \div 256) % 256,
   term_sig |-> rs % 128,
   exit_cause |-> IF rs % 128 = 0 THEN 0 ELSE 1]

\* What ixcb_child_terminated_ev leaves in struct ixc_termcb_args: the status
\* as it is, and a signal that nobody sets.
TermArgs(rs) == [decoded |-> FALSE, status |-> rs, term_signal |-> 0]

Tell(w, what) == told' = [c \in Child |-> IF c \in childOf[w] THEN Append(told[c], what) ELSE told[c]]

\* Mutant: the watcher stays in the loop.
ChildStop_Not(w) == active

\* ev_child_stop
ChildStop(w) == active \ {w}

\* Mutant: the wrapper goes on referring to itself.
UnRef_Not(w) == self

UnRef(w) == self \ {w}

\* ixut_childw_cb, and the callback of a raw watcher or that which
\* ixlbx_child_watcher::start gives it: the last reference may be the
\* wrapper's own.
WatcherCallback(w) ==
  /\ w \in pending \ termcbs
  /\ pending' = pending \ {w}
  /\ active' = ChildStop(w)
  /\ Tell(w, GetStatus(rstatus[w]))
  /\ self' = UnRef(w) /\ restarted' = restarted \ {w}
  /\ live' = IF w \in raw \cup self' \cup held THEN live ELSE live \ {w}
  /\ UNCHANGED <<procVars, termcbs, raw, held, wpid, rstatus, aborted, childOf>>

\* The same, with a script that forks and starts the watcher again: ref finds
\* the reference that is about to be given up, and takes none.
CallbackRestarts(w) ==
  /\ w \in pending \ termcbs /\ w \in raw \cup held
  /\ pending' = pending \ {w}
  /\ \E p \in Pid : \E c \in Child : Forks(c, p) /\ Waits(w, p, {c})
  /\ Tell(w, GetStatus(rstatus[w]))
  /\ self' = UnRef(w)
  /\ restarted' = IF w \in raw THEN restarted ELSE restarted \cup {w}
  /\ UNCHANGED <<live, termcbs, raw, held, rstatus, aborted>>

\* No userdata refers to the wrapper: un_ref destroys it in the loop.
RestartAborts(w) ==
  /\ w \in pending \ (termcbs \cup raw \cup held)
  /\ \E p \in Pid : \E c \in Child : Forks(c, p)
  /\ Tell(w, GetStatus(rstatus[w]))
  /\ restarted' = {w}
  /\ Aborts
  /\ UNCHANGED <<wpid, rstatus, childOf>>

\* ixcb_child_terminated_ev: the watcher is freed last.
TermCallback(w) ==
  /\ w \in pending \cap termcbs
  /\ pending' = pending \ {w}
  /\ active' = ChildStop(w)
  /\ Tell(w, TermArgs(rstatus[w]))
  /\ live' = live \ {w}
  /\ UNCHANGED <<procVars, termcbs, raw, self, held, wpid, rstatus, aborted, childOf, restarted>>

Loop ==
  \/ \E c \in Child : Reap(c)
  \/ \E w \in Place :
       WatcherCallback(w) \/ CallbackRestarts(w) \/ RestartAborts(w) \/ TermCallback(w)

Next ==
  \/ \E c \in Child :
       \/ ChildEnds(c) \/ ForkUnwatched(c)
       \/ \E w \in Place : Spawn(c, w)
  \/ \E w \in Place : StartWatcher(w) \/ FreeRaw(w)
  \/ CollectSome \/ CollectAborts \/ Loop

Spec == Init /\ [][Next]_vars

\* The loop is woken by SIGCHLD and waits until no child is left.
Fairness == WF_vars(Loop)

FairSpec == Spec /\ Fairness
-----------------------------------------------------------------------------
(* Properties.                                                             *)

\* Types of the processes and of their watchers (struct ixut_child_watcher).
TypeOK ==
  /\ proc \in [Child -> {"new", "running", "zombie", "reaped"}]
  /\ pid \in [Child -> Pid \cup {0}] /\ ended \in [Child -> Exit \cup {None}]
  /\ live \subseteq Place /\ termcbs \subseteq Place /\ raw \subseteq Place
  /\ self \subseteq Place /\ held \subseteq Place
  /\ active \subseteq Place /\ pending \subseteq active
  /\ wpid \in [Place -> Pid \cup {-1}] /\ rstatus \in [Place -> Int]
  /\ aborted \in BOOLEAN /\ restarted \subseteq Place
  /\ childOf \in [Place -> SUBSET Child]

\* What a callback may say of a process that ended so: a watcher how and by
\* what, a termination callback the same to one who decodes its status (its
\* signal says nothing).
Truth(e, s) ==
  LET d == IF s.decoded THEN s ELSE GetStatus(s.status)
  IN  IF e[1] = "exited" THEN d.exit_cause = 0 /\ d.status = e[2]
                         ELSE d.exit_cause = 1 /\ d.term_sig = e[2]

\* A child's end is told once, after it, and is the end of that child, not of
\* another one that had its process id before or after.
ToldTruth ==
  \A c \in Child :
    told[c] # <<>> => Len(told[c]) = 1 /\ proc[c] = "reaped" /\ Truth(ended[c], told[c][1])

\* The loop's watchers are in allocated memory: the assertions of
\* ixut_childw_free (childprocess.cxx:73-74) hold whenever a wrapper is freed.
WatchersLive == active \subseteq live /\ held \cup raw \cup self \subseteq live

\* Memory that no userdata refers to is memory the loop will come back to:
\* a wrapper whose child's end has been told is not kept by itself.
NothingKept == live \subseteq held \cup raw \cup active

\* A watcher's memory lives exactly as long as somebody will come back to it,
\* and no destructor meets an assertion of ixut_childw_free but that of a
\* wrapper which its own callback had started.
WatcherLife == WatchersLive /\ NothingKept /\ (aborted => restarted # {})

\* Whoever watches a child hears of its end, however many others end at the
\* same time, as long as there is a process to hear of it.
EndTold ==
  \A c \in Child :
    (proc[c] = "zombie" /\ (\E w \in live : childOf[w] = {c})) ~> (told[c] # <<>> \/ aborted)
=============================================================================
