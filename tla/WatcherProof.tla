---------------------------- MODULE WatcherProof ----------------------------
(***************************************************************************)
(* Child watchers, for any number of children, process ids and watchers:   *)
(* whoever is told of an end is told once, of its own child, the truth,    *)
(* and the memory of a watcher lives exactly as long as something uses it. *)
(***************************************************************************)
EXTENDS Watcher, TLAPS

\* A process id is one process's until the loop has waited for it.
Alive(c) == proc[c] \in {"running", "zombie"}

PidsDistinct ==
  /\ \A c \in Child : IF Alive(c) THEN pid[c] \in Pid ELSE pid[c] = 0
  /\ \A c, d \in Child : Alive(c) /\ Alive(d) /\ pid[c] = pid[d] => c = d

EndsKnown == \A c \in Child : proc[c] \in {"zombie", "reaped"} => ended[c] \in Exit

\* A wrapper refers to itself while its watcher is in the loop, but for one
\* whose own callback has started it; the other watchers have no wrapper.
References ==
  /\ self \subseteq active
  /\ active \subseteq self \cup termcbs \cup raw \cup restarted
  /\ (termcbs \cup raw) \cap (self \cup held) = {}
  /\ raw \cap termcbs = {}

\* The process has been ended by a destructor, and nothing is being told.
AbortedBy == aborted => pending = {} /\ restarted # {}

\* A child has one watcher, and one that was forked.
OneWatcher ==
  /\ \A v, w \in Place : \A c \in childOf[v] \cap childOf[w] : v = w
  /\ \A w \in Place : \A c \in childOf[w] : proc[c] # "new"

\* A watcher in the loop waits for the process it was started for, which the
\* loop has not waited for yet, or for -1 when the fork had failed.
WaitsForOwn ==
  \A w \in active \ pending :
    /\ childOf[w] = {} => wpid[w] = -1
    /\ \A c \in childOf[w] : wpid[w] = pid[c] /\ Alive(c)

\* What is in the loop has not been told; what is about to be is true.
Telling ==
  /\ \A w \in active : \A c \in childOf[w] : told[c] = <<>>
  /\ \A w \in pending : \A c \in childOf[w] : proc[c] = "reaped" /\ rstatus[w] = RawStatus(ended[c])

\* What a watcher and a termination callback tell.
Status ==
  [decoded : {TRUE}, status : Int, term_sig : Int, exit_cause : {0, 1}]
    \cup [decoded : {FALSE}, status : Int, term_signal : {0}]

\* What the callback of watcher w tells.
What(w) == IF w \in termcbs THEN TermArgs(rstatus[w]) ELSE GetStatus(rstatus[w])

IInv ==
  /\ TypeOK /\ told \in [Child -> Seq(Status)]
  /\ PidsDistinct /\ EndsKnown /\ References /\ OneWatcher /\ WaitsForOwn /\ Telling
  /\ ToldTruth /\ WatchersLive /\ NothingKept /\ AbortedBy

USE DEF procVars, wrapperVars, eventVars, historyVars, Alive, AtRest
-----------------------------------------------------------------------------
LEMMA InitEstablishes == Init => IInv
<1>1. ASSUME Init  PROVE TypeOK /\ told \in [Child -> Seq(Status)]
  <2>1. aborted \in BOOLEAN
    BY <1>1 DEF Init
  <2>2. /\ proc \in [Child -> {"new", "running", "zombie", "reaped"}]
        /\ pid \in [Child -> Pid \cup {0}] /\ ended \in [Child -> Exit \cup {None}]
        /\ wpid \in [Place -> Pid \cup {-1}] /\ rstatus \in [Place -> Int]
        /\ childOf \in [Place -> SUBSET Child] /\ told \in [Child -> Seq(Status)]
    BY <1>1, WatcherAssumption DEF Init, None
  <2> QED  BY <1>1, <2>1, <2>2 DEF Init, TypeOK
<1>2. ASSUME Init  PROVE PidsDistinct /\ EndsKnown /\ OneWatcher /\ WaitsForOwn /\ Telling
  BY <1>2 DEF Init, PidsDistinct, EndsKnown, OneWatcher, WaitsForOwn, Telling
<1>3. ASSUME Init  PROVE References /\ ToldTruth /\ WatchersLive /\ NothingKept /\ AbortedBy
  BY <1>3 DEF Init, References, ToldTruth, WatchersLive, NothingKept, AbortedBy
<1> QED  BY <1>1, <1>2, <1>3 DEF IInv

\* The processes after a fork that gave p, and the children cs.
Given(p, cs) ==
  /\ proc' \in [Child -> {"new", "running", "zombie", "reaped"}]
  /\ pid' \in [Child -> Pid \cup {0}] /\ UNCHANGED ended
  /\ \A d \in Child \ cs : proc'[d] = proc[d] /\ pid'[d] = pid[d]
  /\ \A d \in cs : proc[d] = "new" /\ proc'[d] = "running" /\ pid'[d] = p
  /\ cs \subseteq Child /\ (cs = {} => p = -1)
  /\ PidsDistinct' /\ EndsKnown'

\* Process ids: fork gives one that nobody has.
LEMMA ForksKeeps ==
  ASSUME IInv, NEW c \in Child, NEW p \in Pid, Forks(c, p)
  PROVE  Given(p, {c})
<1>1. /\ proc' = [proc EXCEPT ![c] = "running"] /\ pid' = [pid EXCEPT ![c] = p]
      /\ proc[c] = "new" /\ UNCHANGED ended
      /\ \A d \in Child : pid[d] # p
  BY DEF Forks, FreePid
<1>2. PidsDistinct' /\ EndsKnown'
  BY <1>1 DEF IInv, TypeOK, PidsDistinct, EndsKnown
<1> QED  BY <1>1, <1>2 DEF IInv, TypeOK, Given

LEMMA ForkedKeeps ==
  ASSUME IInv, NEW p \in Pid \cup {-1}, NEW cs, Forked(p, cs)
  PROVE  Given(p, cs)
<1>1. CASE p \in Pid /\ \E c \in Child : cs = {c} /\ Forks(c, p)
  BY <1>1, ForksKeeps
<1>2. CASE p = -1 /\ cs = {} /\ UNCHANGED <<proc, pid, ended>>
  BY <1>2 DEF IInv, TypeOK, PidsDistinct, EndsKnown, Given
<1> QED  BY <1>1, <1>2 DEF Forked

\* A watcher starts to wait for the child just forked, or for nothing.
LEMMA WaitsKeeps ==
  ASSUME IInv, NEW w \in Place, NEW p \in Pid \cup {-1}, NEW cs, Given(p, cs),
         Waits(w, p, cs), pending = {}, UNCHANGED <<pending, told>>
  PROVE  /\ active' = active \cup {w}
         /\ wpid' \in [Place -> Pid \cup {-1}] /\ childOf' \in [Place -> SUBSET Child]
         /\ OneWatcher' /\ WaitsForOwn' /\ Telling' /\ ToldTruth'
<1>1. /\ active' = active \cup {w}
      /\ wpid' = [wpid EXCEPT ![w] = p] /\ childOf' = [childOf EXCEPT ![w] = cs]
  BY DEF Waits, ChildStart, SetPid
<1>2. /\ childOf'[w] = cs /\ wpid'[w] = p
      /\ \A v \in Place \ {w} : childOf'[v] = childOf[v] /\ wpid'[v] = wpid[v]
  BY <1>1 DEF IInv, TypeOK
<1>3. \A v \in Place : \A d \in childOf[v] : d \in Child \ cs
  BY DEF IInv, TypeOK, OneWatcher, Given
<1>4. wpid' \in [Place -> Pid \cup {-1}] /\ childOf' \in [Place -> SUBSET Child]
  BY <1>1 DEF IInv, TypeOK, Given
<1>5. OneWatcher'
  <2>1. \A v \in Place : \A d \in childOf'[v] : proc'[d] # "new"
    BY <1>2, <1>3 DEF IInv, OneWatcher, Given
  <2>2. ASSUME NEW v \in Place, NEW u \in Place, NEW d, d \in childOf'[v], d \in childOf'[u]
        PROVE  v = u
    BY <2>2, <1>2, <1>3 DEF IInv, OneWatcher
  <2> QED  BY <2>1, <2>2 DEF OneWatcher
<1>6. WaitsForOwn'
  BY <1>1, <1>2, <1>3 DEF IInv, WaitsForOwn, TypeOK, Given
<1>7. \A d \in cs : told[d] = <<>>
  BY DEF IInv, ToldTruth, Given
<1>8. Telling'
  BY <1>1, <1>2, <1>7 DEF IInv, Telling, TypeOK
<1>9. ToldTruth'
  BY <1>1, <1>7 DEF IInv, ToldTruth, Given
<1> QED  BY <1>1, <1>4, <1>5, <1>6, <1>8, <1>9

LEMMA StartWatcherKeeps ==
  ASSUME IInv, NEW w \in Place, StartWatcher(w)
  PROVE  IInv'
<1>1. PICK p \in Pid \cup {-1} : \E cs \in {{}} \cup {{c} : c \in Child} :
             Forked(p, cs) /\ Waits(w, p, cs)
  BY DEF StartWatcher
<1>2. PICK cs \in {{}} \cup {{c} : c \in Child} : Forked(p, cs) /\ Waits(w, p, cs)
  BY <1>1
<1>3. /\ pending = {} /\ ~aborted /\ restarted' = restarted \ {w}
      /\ UNCHANGED <<pending, aborted, told>>
      /\ NewWrapper(w) \/ NewRaw(w) \/ Again(w)
  BY DEF StartWatcher
<1>4. Given(p, cs)
  BY <1>2, ForkedKeeps
<1>5. /\ active' = active \cup {w}
      /\ wpid' \in [Place -> Pid \cup {-1}] /\ childOf' \in [Place -> SUBSET Child]
      /\ OneWatcher' /\ WaitsForOwn' /\ Telling' /\ ToldTruth'
  BY <1>2, <1>3, <1>4, WaitsKeeps
<1>6. TypeOK'
  <2>1. rstatus' \in [Place -> Int]
    BY <1>3 DEF IInv, TypeOK, NewWrapper, NewRaw, Again, Allocate
  <2>2. /\ live' \subseteq Place /\ termcbs' \subseteq Place /\ raw' \subseteq Place
        /\ self' \subseteq Place /\ held' \subseteq Place
    BY <1>3 DEF IInv, TypeOK, NewWrapper, NewRaw, Again, Allocate, Ref
  <2> QED  BY <1>3, <1>4, <1>5, <2>1, <2>2 DEF IInv, TypeOK, Given
<1>7. References' /\ WatchersLive' /\ NothingKept'
  <2>1. CASE NewWrapper(w)
    BY <2>1, <1>3, <1>5
       DEF IInv, References, WatchersLive, NothingKept, NewWrapper, Allocate, Ref
  <2>2. CASE NewRaw(w)
    BY <2>2, <1>3, <1>5
       DEF IInv, References, WatchersLive, NothingKept, NewRaw, Allocate
  <2>3. CASE Again(w)
    BY <2>3, <1>3, <1>5
       DEF IInv, References, WatchersLive, NothingKept, Again, Ref
  <2> QED  BY <1>3, <2>1, <2>2, <2>3
<1> QED  BY <1>3, <1>4, <1>5, <1>6, <1>7 DEF IInv, Given, AbortedBy

LEMMA SpawnKeeps ==
  ASSUME IInv, NEW c \in Child, NEW w \in Place, Spawn(c, w)
  PROVE  IInv'
<1>1. PICK p \in Pid : Forks(c, p) /\ Waits(w, p, {c})
  BY DEF Spawn
<1>2. /\ pending = {} /\ ~aborted /\ restarted' = restarted \ {w}
      /\ w \notin live /\ live' = live \cup {w} /\ termcbs' = termcbs \cup {w}
      /\ rstatus' = [rstatus EXCEPT ![w] = -1]
      /\ UNCHANGED <<raw, self, held, pending, aborted, told>>
  BY DEF Spawn, Allocate
<1>3. Given(p, {c})
  BY <1>1, ForksKeeps
<1>4. /\ active' = active \cup {w}
      /\ wpid' \in [Place -> Pid \cup {-1}] /\ childOf' \in [Place -> SUBSET Child]
      /\ OneWatcher' /\ WaitsForOwn' /\ Telling' /\ ToldTruth'
  BY <1>1, <1>2, <1>3, WaitsKeeps
<1>5. TypeOK'
  <2>1. rstatus' \in [Place -> Int]
    BY <1>2 DEF IInv, TypeOK
  <2>2. live' \subseteq Place /\ termcbs' \subseteq Place
    BY <1>2 DEF IInv, TypeOK
  <2> QED  BY <1>2, <1>3, <1>4, <2>1, <2>2 DEF IInv, TypeOK, Given
<1>6. References' /\ WatchersLive' /\ NothingKept'
  BY <1>2, <1>4 DEF IInv, References, WatchersLive, NothingKept
<1> QED  BY <1>2, <1>3, <1>4, <1>5, <1>6 DEF IInv, Given, AbortedBy

LEMMA ForkUnwatchedKeeps ==
  ASSUME IInv, NEW c \in Child, ForkUnwatched(c)
  PROVE  IInv'
<1>1. PICK p \in Pid : Forks(c, p)
  BY DEF ForkUnwatched
<1>2. /\ UNCHANGED <<live, termcbs, raw, self, held, active, pending, wpid, rstatus,
                     aborted, childOf, restarted, told>>
      /\ pending = {}
  BY DEF ForkUnwatched
<1>3. Given(p, {c})
  BY <1>1, ForksKeeps
<1>4. \A v \in Place : c \notin childOf[v]
  BY <1>3 DEF IInv, OneWatcher, Given
<1>5. /\ TypeOK' /\ References' /\ WatchersLive' /\ NothingKept' /\ AbortedBy'
      /\ told' \in [Child -> Seq(Status)]
  BY <1>2, <1>3 DEF IInv, TypeOK, References, WatchersLive, NothingKept, AbortedBy, Given
<1>6. OneWatcher'
  BY <1>2, <1>3 DEF IInv, TypeOK, OneWatcher, Given
<1>7. WaitsForOwn' /\ Telling'
  BY <1>2, <1>3, <1>4 DEF IInv, TypeOK, WaitsForOwn, Telling, Given
<1>8. ToldTruth'
  BY <1>2, <1>3 DEF IInv, ToldTruth, Given
<1> QED  BY <1>3, <1>5, <1>6, <1>7, <1>8 DEF IInv, Given

LEMMA ChildEndsKeeps ==
  ASSUME IInv, NEW c \in Child, ChildEnds(c)
  PROVE  IInv'
<1>1. PICK e \in Exit : ended' = [ended EXCEPT ![c] = e]
  BY DEF ChildEnds
<1>2. /\ proc[c] = "running" /\ proc' = [proc EXCEPT ![c] = "zombie"]
      /\ UNCHANGED <<pid, live, termcbs, raw, self, held, active, pending, wpid, rstatus,
                     aborted, childOf, restarted, told>>
  BY DEF ChildEnds
<1>3. /\ TypeOK' /\ PidsDistinct' /\ EndsKnown' /\ References' /\ WatchersLive' /\ NothingKept'
      /\ AbortedBy' /\ told' \in [Child -> Seq(Status)]
  BY <1>1, <1>2
     DEF IInv, TypeOK, PidsDistinct, EndsKnown, References, WatchersLive, NothingKept, AbortedBy
<1>4. OneWatcher' /\ WaitsForOwn' /\ Telling'
  BY <1>1, <1>2 DEF IInv, TypeOK, OneWatcher, WaitsForOwn, Telling
<1>5. ToldTruth'
  BY <1>1, <1>2 DEF IInv, TypeOK, ToldTruth
<1> QED  BY <1>2, <1>3, <1>4, <1>5 DEF IInv

\* What a script or the collector frees is not in the loop.
LEMMA FreeKeeps ==
  ASSUME IInv, pending = {},
         UNCHANGED <<proc, pid, ended, termcbs, self, active, pending, wpid, rstatus,
                     aborted, childOf, restarted, told>>,
         live' \subseteq live, raw' \subseteq raw, held' \subseteq held,
         active \cup held' \cup raw' \subseteq live',
         live' \subseteq held' \cup raw' \cup active, raw \cap active \subseteq raw'
  PROVE  IInv'
<1>1. TypeOK' /\ References' /\ WatchersLive' /\ NothingKept' /\ AbortedBy'
  BY DEF IInv, TypeOK, References, WatchersLive, NothingKept, AbortedBy
<1>2. PidsDistinct' /\ EndsKnown' /\ OneWatcher' /\ WaitsForOwn' /\ Telling' /\ ToldTruth'
  BY DEF IInv, PidsDistinct, EndsKnown, OneWatcher, WaitsForOwn, Telling, ToldTruth
<1> QED  BY <1>1, <1>2 DEF IInv

LEMMA FreeRawKeeps ==
  ASSUME IInv, NEW w \in Place, FreeRaw(w)
  PROVE  IInv'
<1>1. /\ pending = {} /\ w \in raw \ active /\ live' = live \ {w} /\ raw' = raw \ {w}
      /\ UNCHANGED <<proc, pid, ended, termcbs, self, held, active, pending, wpid, rstatus,
                     aborted, childOf, restarted, told>>
  BY DEF FreeRaw
<1>2. /\ active \cup held' \cup raw' \subseteq live'
      /\ live' \subseteq held' \cup raw' \cup active
  BY <1>1 DEF IInv, References, WatchersLive, NothingKept
<1> QED  BY <1>1, <1>2, FreeKeeps

LEMMA CollectSomeKeeps ==
  ASSUME IInv, CollectSome
  PROVE  IInv'
<1>1. PICK w \in held : /\ w \in active => w \in self
                        /\ held' = held \ {w}
                        /\ live' = IF w \in self THEN live ELSE live \ {w}
  BY DEF CollectSome
<1>2. /\ UNCHANGED <<proc, pid, ended, termcbs, raw, self, active, pending, wpid, rstatus,
                     aborted, childOf, restarted, told>>
      /\ pending = {}
  BY DEF CollectSome
<1>3. /\ active \cup held' \cup raw' \subseteq live'
      /\ live' \subseteq held' \cup raw' \cup active
  BY <1>1, <1>2 DEF IInv, References, WatchersLive, NothingKept
<1> QED  BY <1>1, <1>2, <1>3, FreeKeeps

\* A destructor ends the process: its memory is gone, and so is the loop.
LEMMA AbortsKeeps ==
  ASSUME IInv, Aborts, restarted' # {}, restarted' \subseteq Place,
         UNCHANGED <<ended, wpid, rstatus, childOf>>,
         proc' \in [Child -> {"new", "running", "zombie", "reaped"}],
         pid' \in [Child -> Pid \cup {0}], told' \in [Child -> Seq(Status)],
         \A c \in Child : proc[c] # "new" => proc'[c] = proc[c],
         PidsDistinct', EndsKnown', ToldTruth'
  PROVE  IInv'
<1>1. /\ TypeOK' /\ References' /\ WatchersLive' /\ NothingKept' /\ AbortedBy'
      /\ WaitsForOwn' /\ Telling'
  BY DEF Aborts, IInv, TypeOK, References, WatchersLive, NothingKept, AbortedBy,
         WaitsForOwn, Telling
<1>2. OneWatcher'
  BY DEF IInv, TypeOK, OneWatcher
<1> QED  BY <1>1, <1>2 DEF IInv

\* The collector destroys a wrapper in the loop only if its own callback had
\* started it: it has no reference to itself.
LEMMA CollectAbortsKeeps ==
  ASSUME IInv, CollectAborts
  PROVE  IInv'
<1>1. PICK w \in (held \cap active) \ self : restarted' = restarted \cap {w}
  BY DEF CollectAborts
<1>2. w \in restarted' /\ restarted' \subseteq Place
  BY <1>1 DEF IInv, TypeOK, References
<1>3. Aborts /\ UNCHANGED <<proc, pid, ended, wpid, rstatus, childOf, told>>
  BY DEF CollectAborts
<1>4. PidsDistinct' /\ EndsKnown' /\ ToldTruth'
  BY <1>3 DEF IInv, PidsDistinct, EndsKnown, ToldTruth
<1>5. /\ proc' \in [Child -> {"new", "running", "zombie", "reaped"}]
      /\ pid' \in [Child -> Pid \cup {0}] /\ told' \in [Child -> Seq(Status)]
  BY <1>3 DEF IInv, TypeOK
<1> QED  BY <1>2, <1>3, <1>4, <1>5, AbortsKeeps

LEMMA RawType ==
  ASSUME NEW e \in Exit \cup {None}  PROVE RawStatus(e) \in Int
<1>1. e[2] \in Int
  BY WatcherAssumption DEF None
<1> QED  BY <1>1 DEF RawStatus

\* The loop waits for c: the watchers it finds by process id are c's own.
LEMMA ReapKeeps ==
  ASSUME IInv, NEW c \in Child, Reap(c)
  PROVE  IInv'
<1>1. /\ pending = {} /\ ~aborted
      /\ proc[c] = "zombie" /\ proc' = [proc EXCEPT ![c] = "reaped"]
      /\ pid' = [pid EXCEPT ![c] = 0]
      /\ pending' = {w \in active : wpid[w] \in {0, pid[c]}}
      /\ rstatus' = [w \in Place |-> IF w \in pending' THEN RawStatus(ended[c]) ELSE rstatus[w]]
      /\ UNCHANGED <<ended, live, termcbs, raw, self, held, active, wpid, aborted,
                     childOf, restarted, told>>
  BY DEF Reap
<1>2. pid[c] \in Pid /\ pid[c] # 0 /\ pid[c] # -1 /\ 0 \notin Pid
  BY <1>1, WatcherAssumption DEF IInv, PidsDistinct
<1>3. \A w \in pending' : w \in Place /\ wpid[w] = pid[c]
  BY <1>1, <1>2, WatcherAssumption DEF IInv, TypeOK
<1>4. \A w \in pending' : \A d \in childOf[w] : d = c
  BY <1>1, <1>3 DEF IInv, TypeOK, WaitsForOwn, PidsDistinct
<1>5. \A w \in active \ pending' : c \notin childOf[w]
  BY <1>1 DEF IInv, WaitsForOwn
<1>6. TypeOK'
  <2>1. RawStatus(ended[c]) \in Int
    BY RawType DEF IInv, TypeOK
  <2> QED  BY <1>1, <2>1 DEF IInv, TypeOK
<1>7. PidsDistinct' /\ EndsKnown'
  BY <1>1 DEF IInv, TypeOK, PidsDistinct, EndsKnown
<1>8. References' /\ WatchersLive' /\ NothingKept' /\ OneWatcher' /\ AbortedBy'
  BY <1>1 DEF IInv, TypeOK, References, WatchersLive, NothingKept, OneWatcher, AbortedBy
<1>9. WaitsForOwn'
  BY <1>1, <1>5 DEF IInv, TypeOK, WaitsForOwn
<1>10. Telling'
  BY <1>1, <1>3, <1>4 DEF IInv, TypeOK, Telling
<1>11. ToldTruth'
  BY <1>1 DEF IInv, TypeOK, ToldTruth
<1> QED  BY <1>1, <1>6, <1>7, <1>8, <1>9, <1>10, <1>11 DEF IInv

\* Both kinds of callback tell the truth of a status that waitpid gave.
LEMMA StatusType ==
  ASSUME NEW rs \in Int
  PROVE  GetStatus(rs) \in Status /\ TermArgs(rs) \in Status
<1>1. (rs \div 256) % 256 \in Int /\ rs % 128 \in Int
  OBVIOUS
<1> QED  BY <1>1 DEF GetStatus, TermArgs, Status

LEMMA StatusTrue ==
  ASSUME NEW e \in Exit
  PROVE  Truth(e, GetStatus(RawStatus(e))) /\ Truth(e, TermArgs(RawStatus(e)))
<1> DEFINE rs == RawStatus(e)
<1>1. CASE e[1] = "exited"
  <2>1. e[2] \in 0..255 /\ rs = 256 * e[2]
    BY <1>1, WatcherAssumption DEF RawStatus
  <2>2. rs % 128 = 0 /\ (rs \div 256) % 256 = e[2]
    BY <2>1
  <2> QED  BY <1>1, <2>2 DEF Truth, GetStatus, TermArgs
<1>2. CASE e[1] # "exited"
  <2>1. e[2] \in 1..126 /\ (rs = e[2] \/ rs = e[2] + 128)
    BY <1>2, WatcherAssumption DEF RawStatus
  <2>2. rs % 128 = e[2]
    BY <2>1
  <2> QED  BY <1>2, <2>1, <2>2 DEF Truth, GetStatus, TermArgs
<1> QED  BY <1>1, <1>2

\* What a callback tells is true, and new: of a child that has ended, and that
\* no other watcher has.
LEMMA TellKeeps ==
  ASSUME IInv, NEW w \in pending, Tell(w, What(w)), UNCHANGED ended,
         \A c \in Child : proc[c] = "reaped" => proc'[c] = "reaped"
  PROVE  /\ told' \in [Child -> Seq(Status)] /\ ToldTruth'
         /\ \A v \in active \ {w} : \A c \in childOf[v] : told'[c] = <<>>
         /\ \A c \in Child : proc[c] = "new" => told'[c] = <<>>
<1>1. w \in active /\ w \in Place
  BY DEF IInv, TypeOK
<1>2. What(w) \in Status
  BY <1>1, StatusType DEF IInv, TypeOK, What
<1> DEFINE s == What(w)
<1>3. told' = [c \in Child |-> IF c \in childOf[w] THEN Append(told[c], s) ELSE told[c]]
  BY DEF Tell
<1>4. \A c \in childOf[w] : /\ told[c] = <<>> /\ proc[c] = "reaped" /\ c \in Child
                             /\ Truth(ended[c], s)
  <2>1. \A c \in childOf[w] : /\ told[c] = <<>> /\ proc[c] = "reaped" /\ c \in Child
                              /\ rstatus[w] = RawStatus(ended[c]) /\ ended[c] \in Exit
    BY <1>1 DEF IInv, TypeOK, Telling, EndsKnown
  <2> QED  BY <2>1, StatusTrue DEF What
<1> HIDE DEF s
<1>5. told' \in [Child -> Seq(Status)]
  <2>1. s \in Status /\ told \in [Child -> Seq(Status)]
    BY <1>2 DEF s, IInv
  <2> HIDE DEF Status
  <2> QED  BY <1>3, <2>1
<1>6. ToldTruth'
  <2>1. SUFFICES ASSUME NEW c \in Child, told'[c] # <<>>
                 PROVE  Len(told'[c]) = 1 /\ proc'[c] = "reaped" /\ Truth(ended[c], told'[c][1])
    BY DEF ToldTruth, Truth
  <2>2. CASE c \in childOf[w]
    BY <2>2, <1>3, <1>4
  <2>3. CASE c \notin childOf[w]
    BY <2>1, <2>3, <1>3 DEF IInv, ToldTruth
  <2> QED  BY <2>2, <2>3
<1>7. \A v \in active \ {w} : \A c \in childOf[v] : told'[c] = <<>>
  <2>1. \A v \in active \ {w} : \A c \in childOf[v] : c \in Child /\ c \notin childOf[w]
    BY <1>1 DEF IInv, TypeOK, OneWatcher
  <2> QED  BY <2>1, <1>1, <1>3 DEF IInv, Telling
<1>8. \A c \in Child : proc[c] = "new" => told'[c] = <<>>
  BY <1>3, <1>4 DEF IInv, ToldTruth
<1> QED  BY <1>5, <1>6, <1>7, <1>8

\* A callback, of any kind, after which the watcher is out of the loop.
LEMMA CallbackKeeps ==
  ASSUME IInv, NEW w \in pending,
         pending' = pending \ {w}, active' = ChildStop(w), Tell(w, What(w)),
         UNCHANGED <<proc, pid, ended, termcbs, raw, held, wpid, rstatus, aborted, childOf>>
  PROVE  /\ active' = active \ {w} /\ told' \in [Child -> Seq(Status)]
         /\ PidsDistinct' /\ EndsKnown' /\ OneWatcher' /\ WaitsForOwn' /\ Telling' /\ ToldTruth'
         /\ AbortedBy'
<1>1. w \in active /\ w \in Place /\ active' = active \ {w}
  BY DEF IInv, TypeOK, ChildStop
<1>2. /\ told' \in [Child -> Seq(Status)] /\ ToldTruth'
      /\ \A v \in active \ {w} : \A c \in childOf[v] : told'[c] = <<>>
  BY TellKeeps
<1>3. PidsDistinct' /\ EndsKnown' /\ OneWatcher' /\ WaitsForOwn' /\ AbortedBy'
  BY <1>1 DEF IInv, PidsDistinct, EndsKnown, OneWatcher, WaitsForOwn, AbortedBy
<1>4. Telling'
  BY <1>1, <1>2 DEF IInv, Telling
<1> QED  BY <1>1, <1>2, <1>3, <1>4

LEMMA WatcherCallbackKeeps ==
  ASSUME IInv, NEW w \in Place, WatcherCallback(w)
  PROVE  IInv'
<1>1. /\ w \in pending /\ w \notin termcbs /\ pending' = pending \ {w}
      /\ active' = ChildStop(w) /\ Tell(w, What(w))
      /\ self' = self \ {w} /\ restarted' = restarted \ {w}
      /\ live' = IF w \in raw \cup self' \cup held THEN live ELSE live \ {w}
      /\ UNCHANGED <<proc, pid, ended, termcbs, raw, held, wpid, rstatus, aborted, childOf>>
  BY DEF WatcherCallback, UnRef, What
<1>2. TypeOK' /\ References' /\ WatchersLive' /\ NothingKept'
  BY <1>1, CallbackKeeps DEF IInv, TypeOK, References, WatchersLive, NothingKept
<1> QED  BY <1>1, <1>2, CallbackKeeps DEF IInv

LEMMA TermCallbackKeeps ==
  ASSUME IInv, NEW w \in Place, TermCallback(w)
  PROVE  IInv'
<1>1. /\ w \in pending /\ w \in termcbs /\ pending' = pending \ {w}
      /\ active' = ChildStop(w) /\ Tell(w, What(w))
      /\ live' = live \ {w}
      /\ UNCHANGED <<proc, pid, ended, termcbs, raw, self, held, wpid, rstatus, aborted,
                     childOf, restarted>>
  BY DEF TermCallback, What
<1>2. TypeOK' /\ References' /\ WatchersLive' /\ NothingKept'
  BY <1>1, CallbackKeeps DEF IInv, TypeOK, References, WatchersLive, NothingKept
<1> QED  BY <1>1, <1>2, CallbackKeeps DEF IInv

\* A callback that starts its watcher again: told of the old child, it waits
\* for the new one.
LEMMA CallbackRestartsKeeps ==
  ASSUME IInv, NEW w \in Place, CallbackRestarts(w)
  PROVE  IInv'
<1>1. PICK p \in Pid : \E c \in Child : Forks(c, p) /\ Waits(w, p, {c})
  BY DEF CallbackRestarts
<1>2. PICK c \in Child : Forks(c, p) /\ Waits(w, p, {c})
  BY <1>1
<1>3. /\ w \in pending /\ w \notin termcbs /\ w \in raw \cup held
      /\ pending' = pending \ {w} /\ Tell(w, What(w))
      /\ self' = self \ {w}
      /\ restarted' = IF w \in raw THEN restarted ELSE restarted \cup {w}
      /\ UNCHANGED <<live, termcbs, raw, held, rstatus, aborted>>
  BY DEF CallbackRestarts, UnRef, What
<1>4. /\ active' = active /\ w \in active
      /\ wpid' = [wpid EXCEPT ![w] = p] /\ childOf' = [childOf EXCEPT ![w] = {c}]
  BY <1>2, <1>3 DEF IInv, TypeOK, Waits, ChildStart, SetPid
<1>5. Given(p, {c})
  BY <1>2, ForksKeeps
<1>6. /\ told' \in [Child -> Seq(Status)] /\ ToldTruth'
      /\ \A v \in active \ {w} : \A d \in childOf[v] : told'[d] = <<>>
      /\ told'[c] = <<>>
  BY <1>3, <1>5, TellKeeps DEF Given
<1>7. /\ childOf'[w] = {c} /\ wpid'[w] = p
      /\ \A v \in Place \ {w} : childOf'[v] = childOf[v] /\ wpid'[v] = wpid[v]
  BY <1>4 DEF IInv, TypeOK
<1>8. \A v \in Place : \A d \in childOf[v] : d \in Child \ {c}
  BY <1>5 DEF IInv, TypeOK, OneWatcher, Given
<1>9. TypeOK'
  BY <1>3, <1>4, <1>5 DEF IInv, TypeOK, Given
<1>10. References' /\ WatchersLive' /\ NothingKept' /\ AbortedBy'
  BY <1>3, <1>4 DEF IInv, References, WatchersLive, NothingKept, AbortedBy
<1>11. OneWatcher'
  <2>1. ASSUME NEW v \in Place, NEW d \in childOf'[v]  PROVE proc'[d] # "new"
    <3>1. CASE v = w
      BY <3>1, <1>5, <1>7 DEF Given
    <3>2. CASE v # w
      BY <3>2, <1>5, <1>7, <1>8 DEF IInv, OneWatcher, Given
    <3> QED  BY <3>1, <3>2
  <2>2. ASSUME NEW v \in Place, NEW u \in Place, NEW d, d \in childOf'[v], d \in childOf'[u]
        PROVE  v = u
    BY <2>2, <1>7, <1>8 DEF IInv, OneWatcher
  <2> QED  BY <2>1, <2>2 DEF OneWatcher
<1>12. WaitsForOwn'
  BY <1>3, <1>4, <1>5, <1>7, <1>8 DEF IInv, WaitsForOwn, TypeOK, Given
<1>13. Telling'
  <2>1. \A v \in active' : \A d \in childOf'[v] : told'[d] = <<>>
    BY <1>4, <1>6, <1>7 DEF IInv, TypeOK
  <2>2. \A v \in pending' : v \in Place \ {w} /\ v \in pending
    BY <1>3 DEF IInv, TypeOK
  <2>3. \A v \in pending' : \A d \in childOf'[v] : proc'[d] = "reaped" /\ rstatus'[v] = RawStatus(ended'[d])
    BY <2>2, <1>3, <1>5, <1>7, <1>8 DEF IInv, Telling, Given
  <2> QED  BY <2>1, <2>3 DEF Telling
<1> QED  BY <1>5, <1>6, <1>9, <1>10, <1>11, <1>12, <1>13 DEF IInv, Given

LEMMA RestartAbortsKeeps ==
  ASSUME IInv, NEW w \in Place, RestartAborts(w)
  PROVE  IInv'
<1>1. PICK p \in Pid : \E c \in Child : Forks(c, p)
  BY DEF RestartAborts, What
<1>2. PICK c \in Child : Forks(c, p)
  BY <1>1
<1>3. /\ w \in pending /\ Tell(w, What(w)) /\ restarted' = {w} /\ Aborts
      /\ UNCHANGED <<wpid, rstatus, childOf>>
  BY DEF RestartAborts, What
<1>4. Given(p, {c})
  BY <1>2, ForksKeeps
<1>5. \A d \in Child : proc[d] # "new" => proc'[d] = proc[d]
  BY <1>4 DEF Given
<1>6. told' \in [Child -> Seq(Status)] /\ ToldTruth'
  BY <1>3, <1>4, <1>5, TellKeeps DEF Given
<1> QED  BY <1>3, <1>4, <1>5, <1>6, AbortsKeeps DEF Given

LEMMA StepKeeps == IInv /\ [Next]_vars => IInv'
<1>1. SUFFICES ASSUME IInv, [Next]_vars  PROVE IInv'
  OBVIOUS
<1>2. ASSUME NEW c \in Child, ChildEnds(c) \/ ForkUnwatched(c) \/ Reap(c)  PROVE IInv'
  BY <1>1, <1>2, ChildEndsKeeps, ForkUnwatchedKeeps, ReapKeeps
<1>3. ASSUME NEW c \in Child, NEW w \in Place, Spawn(c, w)  PROVE IInv'
  BY <1>1, <1>3, SpawnKeeps
<1>4. ASSUME NEW w \in Place, StartWatcher(w) \/ FreeRaw(w)  PROVE IInv'
  BY <1>1, <1>4, StartWatcherKeeps, FreeRawKeeps
<1>5. ASSUME NEW w \in Place,
             WatcherCallback(w) \/ CallbackRestarts(w) \/ RestartAborts(w) \/ TermCallback(w)
      PROVE  IInv'
  BY <1>1, <1>5, WatcherCallbackKeeps, CallbackRestartsKeeps, RestartAbortsKeeps, TermCallbackKeeps
<1>6. CASE UNCHANGED vars
  BY <1>1, <1>6 DEF vars, IInv, TypeOK, PidsDistinct, EndsKnown, References, OneWatcher, WaitsForOwn,
     Telling, ToldTruth, Truth, WatchersLive, NothingKept, AbortedBy
<1> QED  BY <1>1, <1>2, <1>3, <1>4, <1>5, <1>6, CollectSomeKeeps, CollectAbortsKeeps DEF Next, Loop
-----------------------------------------------------------------------------
\* The processes, what the loop knows of them and the memory of its watchers
\* stay in agreement: the inductive invariant.
THEOREM Invariance == Spec => []IInv
  BY InitEstablishes, StepKeeps, PTL DEF Spec

\* Types of the processes and of their watchers (struct ixut_child_watcher).
THEOREM TypeCorrect == Spec => []TypeOK
  BY Invariance, PTL DEF IInv

\* However process ids are reused, whoever is told of an end is told once, of
\* its own child and the truth (ixut_childw_cb, ixut_childw_getstatus).
THEOREM AlwaysToldTruth == Spec => []ToldTruth
  BY Invariance, PTL DEF IInv

\* No watcher is freed in the loop, none is kept that nobody comes back to, and
\* the destructor that ends the process is that of a wrapper which its own
\* callback had started (ref, un_ref and ixut_childw_free).
THEOREM MemoryLives == Spec => []WatcherLife
  BY Invariance, PTL DEF IInv, WatcherLife, AbortedBy
-----------------------------------------------------------------------------
(***************************************************************************)
(* The safety half of EndTold: nobody who watches a child is forgotten.    *)
(***************************************************************************)

\* Of a child that is watched an end is told, or its watcher is still in the
\* loop, and called as soon as the loop has waited for the child.
NobodyForgotten ==
  \A w \in Place : \A c \in childOf[w] :
    told[c] # <<>> \/ aborted \/ (w \in active /\ (proc[c] = "reaped" => w \in pending))

Watches(w) == \A c \in childOf[w] : told[c] # <<>> \/ aborted \/ w \in active

\* A watcher may be given another child only when the end of the one it had
\* was told.
PassedOn == [][\A w \in Place : \A c \in childOf[w] \ childOf'[w] : told'[c] # <<>>]_vars

LEMMA ToldKept ==
  ASSUME IInv, [Next]_vars, NEW c \in Child, told[c] # <<>> PROVE told'[c] # <<>>
<1>1. CASE UNCHANGED told
  BY <1>1
<1>2. ASSUME NEW w \in Place, Tell(w, What(w)) PROVE told'[c] # <<>>
  <2>1. What(w) \in Status
    BY StatusType DEF IInv, TypeOK, What
  <2>2. told'[c] = told[c] \/ told'[c] = Append(told[c], What(w))
    BY <1>2 DEF Tell
  <2>3. told[c] \in Seq(Status)
    BY DEF IInv
  <2> HIDE DEF Status
  <2> QED  BY <2>1, <2>2, <2>3
<1>3. UNCHANGED told \/ \E w \in Place : Tell(w, What(w))
  BY DEF Next, ChildEnds, ForkUnwatched, Spawn, StartWatcher, FreeRaw, CollectSome,
     CollectAborts, Loop, Reap, WatcherCallback, CallbackRestarts, RestartAborts,
     TermCallback, What, vars
<1> QED  BY <1>1, <1>2, <1>3

\* A watcher that leaves the loop, or is given another child, has told.
LEMMA LeavesTold ==
  ASSUME IInv, [Next]_vars, NEW w \in Place
  PROVE  /\ w \in active => \/ w \in active' \/ aborted'
                            \/ \A c \in childOf[w] : told'[c] # <<>>
         /\ \/ childOf'[w] = childOf[w]
            \/ /\ w \in active'
               /\ w \notin active \/ \A c \in childOf[w] : told'[c] # <<>>
<1> DEFINE Goal == /\ w \in active => \/ w \in active' \/ aborted'
                                      \/ \A c \in childOf[w] : told'[c] # <<>>
                   /\ \/ childOf'[w] = childOf[w]
                      \/ /\ w \in active'
                         /\ w \notin active \/ \A c \in childOf[w] : told'[c] # <<>>
<1>1. ASSUME NEW c \in Child, ChildEnds(c) \/ ForkUnwatched(c) \/ Reap(c) PROVE Goal
  BY <1>1 DEF ChildEnds, ForkUnwatched, Reap
<1>2. ASSUME NEW v \in Place, NEW p, NEW cs, Waits(v, p, cs), v \notin active PROVE Goal
  BY <1>2 DEF Waits, ChildStart, IInv, TypeOK
<1>3. ASSUME NEW c \in Child, NEW v \in Place, Spawn(c, v) PROVE Goal
  <2>1. v \notin active
    BY <1>3 DEF Spawn, Allocate, IInv, WatchersLive
  <2> QED  BY <1>2, <1>3, <2>1 DEF Spawn
<1>4. ASSUME NEW v \in Place, StartWatcher(v) PROVE Goal
  <2>1. v \notin active
    BY <1>4 DEF StartWatcher, NewWrapper, NewRaw, Again, Allocate, IInv, WatchersLive
  <2> QED  BY <1>2, <1>4, <2>1 DEF StartWatcher
<1>5. ASSUME NEW v \in Place, FreeRaw(v) PROVE Goal
  BY <1>5 DEF FreeRaw
<1>6. CASE CollectSome \/ CollectAborts \/ UNCHANGED vars
  BY <1>6 DEF CollectSome, CollectAborts, Aborts, vars
<1>7. ASSUME NEW v \in pending, Tell(v, What(v))
      PROVE  \A c \in childOf[v] : told'[c] # <<>>
  <2>1. What(v) \in Status /\ \A c \in childOf[v] : c \in Child
    BY StatusType DEF IInv, TypeOK, What
  <2>2. \A c \in childOf[v] : told[c] \in Seq(Status)
                              /\ told'[c] = Append(told[c], What(v))
    BY <1>7, <2>1 DEF Tell, IInv
  <2> HIDE DEF Status
  <2> QED  BY <2>1, <2>2
<1>8. ASSUME NEW v \in Place, WatcherCallback(v) \/ TermCallback(v) PROVE Goal
  BY <1>7, <1>8 DEF WatcherCallback, TermCallback, ChildStop, What
<1>9. ASSUME NEW v \in Place, CallbackRestarts(v) PROVE Goal
  <2>1. v \in pending /\ \A c \in childOf[v] : told'[c] # <<>>
    BY <1>7, <1>9 DEF CallbackRestarts, What
  <2>2. PICK p \in Pid, c \in Child : Waits(v, p, {c})
    BY <1>9 DEF CallbackRestarts
  <2> QED  BY <2>1, <2>2 DEF Waits, ChildStart, IInv, TypeOK
<1>10. ASSUME NEW v \in Place, RestartAborts(v) PROVE Goal
  BY <1>10 DEF RestartAborts, Aborts
<1> QED
  BY <1>1, <1>3, <1>4, <1>5, <1>6, <1>8, <1>9, <1>10 DEF Next, Loop

LEMMA WatchesKept ==
  ASSUME IInv, \A w \in Place : Watches(w), [Next]_vars, NEW w \in Place
  PROVE  Watches(w)'
<1> SUFFICES ASSUME NEW c \in childOf'[w], ~aborted', w \notin active'
             PROVE  told'[c] # <<>>
  BY DEF Watches
<1>1. childOf'[w] = childOf[w] /\ c \in Child
  BY LeavesTold DEF IInv, TypeOK
<1>2. aborted => aborted'
  BY DEF Next, ChildEnds, ForkUnwatched, Spawn, StartWatcher, FreeRaw, CollectSome,
     CollectAborts, Aborts, Loop, Reap, WatcherCallback, CallbackRestarts, RestartAborts,
     TermCallback, vars
<1> QED  BY <1>1, <1>2, LeavesTold, ToldKept DEF Watches

\* However many children end at once, and whatever is started, freed and
\* collected meanwhile, the watcher of a child that has been waited for is
\* called or about to be (ixut_childw_cb, libev's childcb).
THEOREM NobodyIsForgotten == Spec => []NobodyForgotten
<1> DEFINE Inv == \A w \in Place : Watches(w)
<1>1. Init => Inv
  BY DEF Init, Watches
<1>2. IInv /\ Inv /\ [Next]_vars => Inv'
  BY WatchesKept
<1>3. IInv /\ Inv => NobodyForgotten
  BY DEF Watches, NobodyForgotten, IInv, WaitsForOwn
<1> HIDE DEF Inv
<1> QED  BY <1>1, <1>2, <1>3, Invariance, PTL DEF Spec

\* start on a watcher that has a child, by a script or by its own callback,
\* comes after that child's end was told.
THEOREM NoneIsPassedOver == Spec => PassedOn
<1> DEFINE Inv == \A w \in Place : Watches(w)
<1>1. Init => Inv
  BY DEF Init, Watches
<1>2. IInv /\ Inv /\ [Next]_vars => Inv'
  BY WatchesKept
<1>3. IInv /\ Inv /\ [Next]_vars
        => [\A w \in Place : \A c \in childOf[w] \ childOf'[w] : told'[c] # <<>>]_vars
  <2> SUFFICES ASSUME IInv, Inv, [Next]_vars, NEW w \in Place, NEW c \in childOf[w],
                      c \notin childOf'[w]
               PROVE  told'[c] # <<>>
    OBVIOUS
  <2>1. c \in Child
    BY DEF IInv, TypeOK
  <2>2. ~aborted
    BY DEF Next, ChildEnds, ForkUnwatched, Spawn, StartWatcher, FreeRaw, CollectSome,
       CollectAborts, Loop, Reap, WatcherCallback, CallbackRestarts, RestartAborts,
       TermCallback, vars, IInv, AbortedBy
  <2> QED  BY <2>1, <2>2, LeavesTold, ToldKept DEF Watches
<1> HIDE DEF Inv
<1> QED  BY <1>1, <1>2, <1>3, Invariance, PTL DEF Spec, PassedOn
=============================================================================
