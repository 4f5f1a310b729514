---------------------------- MODULE ServerProof ----------------------------
(***************************************************************************)
(* The whole server, for any clients and any submissions.                  *)
(*                                                                         *)
(* A step of the system is for Judge a step of its own, a stutter, or the  *)
(* end of the process in one of the sessions' handlers, which is no step   *)
(* of Judge (Dies).  Judge's inductive invariant survives all three, so    *)
(* what was proved of the pipeline alone holds beside the sessions as      *)
(* well.  The system's own invariant SInv ties the two together: sockets   *)
(* keep the loop alive, and what was forked holds the sockets that were    *)
(* open then.                                                              *)
(***************************************************************************)
EXTENDS Server, JudgeProof

\* The listening socket or a session is left to serve.
Serving == server # "closed" \/ \E k \in Client : Sessions!InSession(k)

SessionTypes ==
  /\ session \in [Client -> {"none", "open", "authed", "over"}]
  /\ executed \subseteq Client /\ server \in {"starting", "accepting", "closed"}

\* The loop is kept alive by the sockets that are open, and nothing is open
\* once the process has ended.
ServingTruth ==
  /\ main = "up" => (serving <=> Serving)
  /\ main # "up" => ~Serving

\* Only requests of authenticated clients are executed, and only requests
\* submit.
ProvedExecute ==
  /\ \A k \in executed : session[k] \in {"authed", "over"}
  /\ Submitted # {} => executed # {}

\* The sockets that the server can have opened so far.
Known ==
  {k \in Client : session[k] # "none"} \cup (IF server = "starting" THEN {} ELSE {"listener"})

\* The processes of a submission that hold what its evaluator inherited.
EvaluatorHolding(s) ==
  evaluator[s] \in {"forked", "tracing", "diffing"} \/ Alive(s) \/ diff[s] = "running"

\* Whoever was forked inherited sockets of the server, and what is forked
\* by the handler of a request inherited the connection of its client.
Inherited ==
  /\ compilerHolds \in [Session -> SUBSET Known]
  /\ evaluatorHolds \in [Session -> SUBSET Known]
  /\ \A s \in Session :
       /\ compiler[s] = "running" => compilerHolds[s] \cap executed # {}
       /\ s \notin Compiled /\ EvaluatorHolding(s) => evaluatorHolds[s] \cap executed # {}

SInv == SessionTypes /\ ServingTruth /\ ProvedExecute /\ Inherited

\* Why a submission without a verdict has none yet: it is compiled, or its
\* evaluator is at work, or it is lost.
Pending(s) ==
  \/ main = "up" /\ s \in watching /\ compiler[s] \in {"running", "ok", "failed", "killed"}
  \/ evaluator[s] \in {"forked", "tracing"}
  \/ evaluator[s] = "diffing" /\ diff[s] \in {"running", "nothing", "differences"}

VerdictPending == \A s \in Submitted : report[s] # "none" \/ Pending(s) \/ Lost(s)

\* What an evaluator has done when it dies, and what it waits for.
EvaluatorStory(s) ==
  /\ evaluator[s] = "diffing" => diff[s] # "none"
  /\ evaluator[s] = "dead" =>
       \/ report[s] # "none"
       \/ target[s] = "killed" /\ SignalVerdict(status[s], overflow[s]) = "none"

InheritedByOwn ==
  \A s \in Session :
    compiler[s] = "running" \/ (s \notin Compiled /\ EvaluatorHolding(s))
      => \E k \in executed : Holds(s, k)
ClosedStays ==
  [][\A s \in Session, x \in Socket :
       ClosedByServer(x) /\ ~Holds(s, x) => ~Holds(s, x)']_systemVars
SubmittersProved == Submitted # {} => \E k \in executed : session[k] \in {"authed", "over"}
-----------------------------------------------------------------------------
(***************************************************************************)
(* The steps of the system, as Judge sees them.                            *)
(***************************************************************************)
Dies ==
  /\ main = "up" /\ main' = "crashed" /\ serving' = FALSE
  /\ UNCHANGED <<watching, compiler, tracerVars, targetVars>>

LEMMA SystemInitEstablishes ==
  ASSUME SystemInit PROVE IInv /\ SInv /\ Submitted = {}
<1>1. IInv
  BY InitEstablishes DEF SystemInit
<1>2. Submitted = {}
  BY DEF SystemInit, Init, Submitted
<1>3. SessionTypes /\ ServingTruth
  BY DEF SystemInit, Init, Sessions!Init, SessionTypes, ServingTruth, Serving
<1>4. ProvedExecute
  BY <1>2 DEF SystemInit, Sessions!Init, ProvedExecute
<1>5. \A s \in Session : compiler[s] = "none" /\ ~EvaluatorHolding(s)
  BY DEF SystemInit, Init, EvaluatorHolding, Alive
<1>6. Inherited
  BY <1>5 DEF SystemInit, Inherited
<1> QED  BY <1>1, <1>2, <1>3, <1>4, <1>6 DEF SInv

\* A session that ends leaves the pipeline alone, or is the last one and
\* ends the serving.
LEMMA PartStops ==
  ASSUME SInv, Part PROVE StopServing \/ UNCHANGED vars
<1>1. main = "up" /\ serving = TRUE
  BY DEF Part, SInv, ServingTruth, Serving, Sessions!End, Sessions!Exit
<1>2. serving' = TRUE \/ serving' = FALSE
  BY DEF Part, StillServing
<1>3. UNCHANGED <<main, watching, compiler, tracerVars, targetVars>>
  BY DEF Part
<1> QED  BY <1>1, <1>2, <1>3 DEF StopServing, vars, serverVars

LEMMA SystemStep ==
  ASSUME SInv, [SystemNext]_systemVars PROVE [Next]_vars \/ Dies
<1>1. CASE Converse \/ UNCHANGED systemVars
  BY <1>1 DEF Converse, systemVars
<1>2. CASE Part
  BY <1>2, PartStops DEF Next, ServerNext
<1>3. CASE Crashes
  BY <1>3 DEF Crashes, Dies
<1>4. CASE Return
  BY <1>4 DEF Return, Next, ServerNext
<1>5. CASE \E k \in Client : Submit(k)
  BY <1>5 DEF Submit, Next, ServerNext
<1>6. ASSUME NEW s \in Session, Reap(s) \/ Proceed(s) PROVE Next
  BY <1>6 DEF Reap, Proceed, Next, ServerNext
<1> QED  BY <1>1, <1>2, <1>3, <1>4, <1>5, <1>6 DEF SystemNext

\* The process may end anywhere: what the pipeline has done stays true.
LEMMA DeathKeeps ==
  ASSUME IInv, Dies PROVE IInv'
<1>1. /\ main' = "crashed" /\ serving' = FALSE /\ main = "up"
      /\ UNCHANGED <<watching, compiler, evaluator, waited, inited, overflow, diff, report>>
      /\ UNCHANGED <<holder, target, status, output, ran, seen>>
  BY DEF Dies, tracerVars, targetVars
<1>2. TypeOK'
  BY <1>1 DEF IInv, TypeOK
<1>3. ASSUME NEW s \in Session PROVE Inductive(s)'
  BY <1>1, UntouchedKeeps DEF IInv, Untouched, MainMoves
<1> QED  BY <1>2, <1>3 DEF IInv

LEMMA SystemKeepsJudge ==
  ASSUME IInv, SInv, [SystemNext]_systemVars PROVE IInv'
BY SystemStep, NextKeeps, DeathKeeps
-----------------------------------------------------------------------------
\* Processes beget processes: what runs for a submission was running before,
\* or was just forked by the server.
LEMMA HoldersFork ==
  ASSUME IInv, [Next]_vars \/ Dies, NEW x \in Session
  PROVE  /\ compiler'[x] = "running" => compiler[x] \in {"running", "none"}
         /\ EvaluatorHolding(x)' =>
              EvaluatorHolding(x) \/ (evaluator[x] = "none" /\ evaluator'[x] = "forked")
<1> DEFINE Goal == /\ compiler'[x] = "running" => compiler[x] \in {"running", "none"}
                   /\ EvaluatorHolding(x)' =>
                        EvaluatorHolding(x) \/ (evaluator[x] = "none" /\ evaluator'[x] = "forked")
<1>1. CASE \/ UNCHANGED <<compiler, evaluator, target, diff>>
           \/ UNCHANGED <<compiler[x], evaluator[x], target[x], diff[x]>>
  BY <1>1 DEF EvaluatorHolding, Alive
<1>2. CASE StopServing \/ LoopEnds \/ UNCHANGED vars \/ Dies
  BY <1>1, <1>2 DEF StopServing, LoopEnds, vars, Dies, serverVars, tracerVars, targetVars
<1>3. ASSUME NEW s \in Session, Acts(s), x # s PROVE Goal
  <2>1. UNCHANGED <<compiler[x], evaluator[x], target[x], diff[x]>>
    BY <1>3, Frame DEF Untouched
  <2> QED  BY <1>1, <2>1
<1>4. CASE Acts(x)
  <2>1. CASE JudgeCompiled(x)
    BY <2>1 DEF JudgeCompiled, tracerVars, targetVars, EvaluatorHolding, Alive, IInv, TypeOK
  <2>2. CASE JudgeInterpreted(x)
    BY <2>2 DEF JudgeInterpreted, ForkEvaluator, serverVars, targetVars, EvaluatorHolding,
       Alive, IInv, TypeOK
  <2>3. CASE CompilerReaped(x)
    <3>1. evaluator[x] = "none" /\ UNCHANGED <<compiler, target, diff>>
      BY <2>3 DEF CompilerReaped, targetVars, IInv, Inductive, ServerStage
    <3>2. evaluator'[x] \in {"none", "unforked", "forked"}
      BY <2>3, <3>1 DEF CompilerReaped, ForkEvaluator, IInv, TypeOK
    <3> QED  BY <3>1, <3>2 DEF EvaluatorHolding, Alive
  <2>4. CASE CompilerEnds(x)
    BY <2>4 DEF CompilerEnds, tracerVars, targetVars, EvaluatorHolding, Alive
  <2>5. CASE TargetNext(x) /\ ~CompilerEnds(x)
    <3>1. compiler' = compiler /\ (Alive(x) \/ diff[x] = "running")
      BY <2>5 DEF TargetNext, TargetExecs, TargetFaults, TargetAborts, TargetCalls,
         TimerExpires, OutOfMemory, DiffEnds, Alive, serverVars
    <3> QED  BY <3>1 DEF EvaluatorHolding
  <2>6. CASE EvaluatorNext(x)
    BY <2>6, EvaluatorMoves DEF serverVars, EvaluatorHolding
  <2> QED  BY <1>4, <2>1, <2>2, <2>3, <2>4, <2>5, <2>6 DEF Acts
<1> QED  BY <1>2, <1>3, <1>4, NextActs
-----------------------------------------------------------------------------
(***************************************************************************)
(* SInv is an invariant.                                                   *)
(***************************************************************************)
LEMMA SessionStep ==
  ASSUME SystemNext PROVE Sessions!Next \/ UNCHANGED sessionVars
BY DEF SystemNext, Converse, Part, Crashes, Return, Submit, Reap, Proceed, Sessions!Next

\* Sessions only move forward.
LEMMA SessionsKept ==
  ASSUME SessionTypes, Sessions!Next \/ UNCHANGED sessionVars,
         \A k \in executed : session[k] \in {"authed", "over"}
  PROVE  /\ SessionTypes' /\ Known \subseteq Known' /\ executed \subseteq executed'
         /\ \A k \in executed' : session'[k] \in {"authed", "over"}
         /\ server = "closed" => server' = "closed"
         /\ \A k \in Client : session[k] = "over" => session'[k] = "over"
<1>1. CASE Sessions!Start \/ UNCHANGED sessionVars
  BY <1>1 DEF Sessions!Start, sessionVars, SessionTypes, Known
<1>2. ASSUME NEW k \in Client, Sessions!Open(k) \/ Sessions!Authenticate(k) \/ Sessions!End(k)
      PROVE  /\ executed' = executed /\ server' = server
             /\ session' \in [Client -> {"none", "open", "authed", "over"}]
             /\ \A j \in Client :
                  /\ session[j] # "none" => session'[j] # "none"
                  /\ session[j] \in {"authed", "over"} => session'[j] \in {"authed", "over"}
                  /\ session[j] = "over" => session'[j] = "over"
  BY <1>2 DEF Sessions!Open, Sessions!Authenticate, Sessions!End, Sessions!InSession, SessionTypes
<1>3. ASSUME NEW k \in Client, Sessions!Execute(k)
      PROVE  session' = session /\ server' = server /\ executed' = executed \cup {k}
             /\ session[k] = "authed"
  BY <1>3 DEF Sessions!Execute
<1>4. CASE Sessions!Crash \/ \E k \in Client : Sessions!Exit(k)
  <2>1. /\ executed' = executed /\ server' = "closed"
        /\ \E ends \in SUBSET Client :
             /\ session' = [j \in Client |-> IF j \in ends THEN "over" ELSE session[j]]
    <3>1. ASSUME NEW k \in Client, Sessions!Exit(k)
          PROVE  \E ends \in SUBSET Client :
                   session' = [j \in Client |-> IF j \in ends THEN "over" ELSE session[j]]
      <4>1. PICK cut \in SUBSET {j \in Client : session[j] = "none"} :
              session' = [j \in Client |-> IF j \in cut \cup {k} THEN "over" ELSE session[j]]
        BY <3>1 DEF Sessions!Exit
      <4> WITNESS cut \cup {k} \in SUBSET Client
      <4> QED  BY <4>1
    <3>2. ASSUME Sessions!Crash
          PROVE  \E ends \in SUBSET Client :
                   session' = [j \in Client |-> IF j \in ends THEN "over" ELSE session[j]]
      <4>1. PICK cut \in SUBSET {j \in Client : session[j] = "none"} :
              session' = [j \in Client |-> IF j \in cut \/ Sessions!InSession(j)
                                           THEN "over" ELSE session[j]]
        BY <3>2 DEF Sessions!Crash
      <4> DEFINE ends == cut \cup {j \in Client : Sessions!InSession(j)}
      <4>2. session' = [j \in Client |-> IF j \in ends THEN "over" ELSE session[j]]
        BY <4>1
      <4> QED  BY <4>2
    <3>3. executed' = executed /\ server' = "closed"
      BY <1>4 DEF Sessions!Crash, Sessions!Exit
    <3> QED  BY <1>4, <3>1, <3>2, <3>3
  <2> QED  BY <2>1 DEF SessionTypes, Known
<1>5. CASE \E k \in Client : Sessions!Open(k) \/ Sessions!Authenticate(k) \/ Sessions!End(k)
  BY <1>2, <1>5 DEF SessionTypes, Known
<1>6. CASE \E k \in Client : Sessions!Execute(k)
  BY <1>3, <1>6 DEF SessionTypes, Known
<1> QED  BY <1>1, <1>4, <1>5, <1>6 DEF Sessions!Next

\* The socket that keeps the loop alive is there, or the loop has ended.
LEMMA ServingKept ==
  ASSUME SInv, IInv, SystemNext PROVE ServingTruth'
<1>1. CASE Converse
  <2>1. main = "up" /\ UNCHANGED <<main, serving>> /\ Serving
    BY <1>1 DEF Converse, vars, serverVars, Serving, Sessions!Start, Sessions!Open,
       Sessions!Authenticate, Sessions!Execute, Sessions!InSession
  <2>2. Serving'
    BY <1>1 DEF Converse, Serving, Sessions!Start, Sessions!Open, Sessions!Authenticate,
       Sessions!Execute, Sessions!InSession, SInv, SessionTypes
  <2> QED  BY <2>1, <2>2 DEF SInv, ServingTruth
<1>2. CASE Part
  BY <1>2 DEF Part, StillServing, ServingTruth, Serving
<1>3. ASSUME Sessions!Crash, main' # "up" PROVE ServingTruth'
  BY <1>3 DEF Sessions!Crash, Sessions!InSession, ServingTruth, Serving, SInv, SessionTypes
<1>4. CASE Crashes
  BY <1>3, <1>4 DEF Crashes
<1>5. CASE Return
  BY <1>5 DEF Return, LoopEnds, LoopIdle, sessionVars, SInv, ServingTruth, Serving,
     Sessions!InSession
<1>6. ASSUME UNCHANGED <<main, serving>>, UNCHANGED <<session, server>> PROVE ServingTruth'
  BY <1>6 DEF SInv, ServingTruth, Serving, Sessions!InSession
<1>7. ASSUME NEW k \in Client, Submit(k) PROVE ServingTruth'
  BY <1>6, <1>7 DEF Submit, JudgeCompiled, JudgeInterpreted, serverVars, Sessions!Execute
<1>8. ASSUME NEW s \in Session, Reap(s) PROVE ServingTruth'
  <2>1. serving' = serving /\ main = "up" /\ main' \in {main, "crashed"}
    BY <1>8 DEF Reap, CompilerReaped
  <2>2. CASE main' = "crashed" /\ serving
    BY <1>3, <1>8, <2>2 DEF Reap
  <2>3. CASE ~(main' = "crashed" /\ serving)
    <3>1. UNCHANGED <<session, server>>
      BY <1>8, <2>3 DEF Reap, sessionVars
    <3> QED  BY <2>1, <2>3, <3>1 DEF SInv, ServingTruth, Serving, Sessions!InSession
  <2> QED  BY <2>2, <2>3
<1>9. ASSUME NEW s \in Session, Proceed(s) PROVE ServingTruth'
  <2>1. UNCHANGED <<main, serving>>
    BY <1>9, EvaluatorMoves DEF Proceed, TargetNext, CompilerEnds, TargetExecs, TargetFaults,
       TargetAborts, TargetCalls, TimerExpires, OutOfMemory, DiffEnds, serverVars
  <2> QED  BY <1>6, <1>9, <2>1 DEF Proceed, sessionVars
<1> QED  BY <1>1, <1>2, <1>4, <1>5, <1>7, <1>8, <1>9 DEF SystemNext

\* What a submission's processes do, they do for one that was submitted.
LEMMA ActsSubmitted ==
  ASSUME IInv, NEW s \in Session, TargetNext(s) \/ EvaluatorNext(s) \/ CompilerReaped(s)
  PROVE  s \in Submitted
<1>1. CASE TargetNext(s)
  <2>1. compiler[s] = "running" \/ Alive(s) \/ diff[s] = "running"
    BY <1>1 DEF TargetNext, CompilerEnds, TargetExecs, TargetFaults, TargetAborts,
       TargetCalls, TimerExpires, OutOfMemory, DiffEnds, Alive
  <2> QED  BY <2>1 DEF Submitted, Alive, IInv, Inductive, EvaluatorStage
<1>2. CASE EvaluatorNext(s)
  BY <1>2, EvaluatorMoves DEF Submitted
<1>3. CASE CompilerReaped(s)
  BY <1>3 DEF CompilerReaped, Submitted, IInv, TypeOK
<1> QED  BY <1>1, <1>2, <1>3

LEMMA SubmittedKept ==
  ASSUME IInv, SInv, SystemNext PROVE ProvedExecute'
<1>1. /\ \A k \in executed' : session'[k] \in {"authed", "over"}
      /\ executed \subseteq executed'
  BY SessionStep, SessionsKept DEF SInv, ProvedExecute
<1>2. ASSUME UNCHANGED <<compiler, evaluator>> PROVE Submitted' = Submitted
  BY <1>2 DEF Submitted
<1>3. CASE Converse \/ Part \/ Crashes \/ Return
  <2>1. UNCHANGED <<compiler, evaluator>>
    BY <1>3 DEF Converse, Part, Crashes, Return, LoopEnds, vars, serverVars, tracerVars
  <2> QED  BY <1>1, <1>2, <2>1 DEF SInv, ProvedExecute
<1>4. ASSUME NEW k \in Client, Submit(k) PROVE executed' # {}
  BY <1>4 DEF Submit, Sessions!Execute
<1>5. ASSUME NEW s \in Session, Reap(s) \/ Proceed(s) PROVE executed # {}
  BY <1>5, ActsSubmitted DEF Reap, Proceed, SInv, ProvedExecute
<1> QED  BY <1>1, <1>3, <1>4, <1>5 DEF SystemNext, SInv, ProvedExecute

\* Only judge and the callback of its watcher fork a compiler or an evaluator.
LEMMA OthersForkNothing ==
  ASSUME IInv, NEW s \in Session, TargetNext(s) \/ EvaluatorNext(s), NEW x \in Session
  PROVE  /\ compiler'[x] = "running" => compiler[x] = "running"
         /\ evaluator'[x] = "forked" => evaluator[x] = "forked"
<1>1. CASE x # s
  BY <1>1, Frame DEF Untouched, Acts
<1>2. CASE x = s /\ TargetNext(s)
  BY <1>2 DEF TargetNext, CompilerEnds, TargetExecs, TargetFaults, TargetAborts,
     TargetCalls, TimerExpires, OutOfMemory, DiffEnds, serverVars, tracerVars
<1>3. CASE x = s /\ EvaluatorNext(s)
  BY <1>3, EvaluatorMoves DEF serverVars, IInv, TypeOK
<1> QED  BY <1>1, <1>2, <1>3

\* What judge forks inherits the connection of the request.
LEMMA SubmitInherits ==
  ASSUME IInv, SInv, NEW k \in Client, Submit(k), Known \subseteq Known' PROVE Inherited'
<1>1. k \in Opened /\ Opened \subseteq Known /\ executed' = executed \cup {k}
  BY ServerAssumption DEF Submit, Sessions!Execute, Sessions!InSession, Opened, Known
<1>2. [Next]_vars
  BY DEF Submit, Next, ServerNext
<1>3. ASSUME NEW x \in Session
      PROVE  /\ compilerHolds'[x] \in SUBSET Known' /\ evaluatorHolds'[x] \in SUBSET Known'
             /\ compiler'[x] = "running" => compilerHolds'[x] \cap executed' # {}
             /\ x \notin Compiled /\ EvaluatorHolding(x)' => evaluatorHolds'[x] \cap executed' # {}
  <2>1. /\ compilerHolds'[x] = IF compiler[x] = "none" /\ compiler'[x] = "running"
                               THEN Opened ELSE compilerHolds[x]
        /\ evaluatorHolds'[x] = IF evaluator[x] = "none" /\ evaluator'[x] = "forked"
                                THEN Opened ELSE evaluatorHolds[x]
    BY DEF Submit, Inherit
  <2>2. /\ compilerHolds[x] \in SUBSET Known /\ evaluatorHolds[x] \in SUBSET Known
        /\ compiler[x] = "running" => compilerHolds[x] \cap executed # {}
        /\ x \notin Compiled /\ EvaluatorHolding(x) => evaluatorHolds[x] \cap executed # {}
    BY DEF SInv, Inherited
  <2>3. /\ compiler'[x] = "running" => compiler[x] \in {"running", "none"}
        /\ EvaluatorHolding(x)' =>
             EvaluatorHolding(x) \/ (evaluator[x] = "none" /\ evaluator'[x] = "forked")
    BY <1>2, HoldersFork
  <2> HIDE DEF EvaluatorHolding
  <2> QED  BY <1>1, <2>1, <2>2, <2>3
<1>4. /\ compilerHolds' = [s \in Session |-> compilerHolds'[s]]
      /\ evaluatorHolds' = [s \in Session |-> evaluatorHolds'[s]]
  BY DEF Submit, Inherit
<1> QED  BY <1>3, <1>4 DEF Inherited

\* So does the evaluator that the compiler's end brings; it is another's
\* client then, perhaps.
LEMMA ReapInherits ==
  ASSUME IInv, SInv, NEW s \in Session, Reap(s), Known \subseteq Known',
         executed \subseteq executed'
  PROVE  Inherited'
<1>1. Opened \subseteq Known
  BY ServerAssumption DEF Sessions!InSession, Opened, Known
<1>2. [Next]_vars /\ compiler' = compiler /\ s \in Compiled
  BY DEF Reap, CompilerReaped, Next, ServerNext, IInv, TypeOK
<1>3. ASSUME NEW x \in Session
      PROVE  /\ compilerHolds'[x] \in SUBSET Known' /\ evaluatorHolds'[x] \in SUBSET Known'
             /\ compiler'[x] = "running" => compilerHolds'[x] \cap executed' # {}
             /\ x \notin Compiled /\ EvaluatorHolding(x)' => evaluatorHolds'[x] \cap executed' # {}
  <2>1. /\ compilerHolds'[x] = compilerHolds[x]
        /\ evaluatorHolds'[x] = IF evaluator[x] = "none" /\ evaluator'[x] = "forked"
                                THEN Opened ELSE evaluatorHolds[x]
    BY <1>2 DEF Reap, Inherit
  <2>2. /\ compilerHolds[x] \in SUBSET Known /\ evaluatorHolds[x] \in SUBSET Known
        /\ compiler[x] = "running" => compilerHolds[x] \cap executed # {}
        /\ x \notin Compiled /\ EvaluatorHolding(x) => evaluatorHolds[x] \cap executed # {}
    BY DEF SInv, Inherited
  <2>3. EvaluatorHolding(x)' =>
          EvaluatorHolding(x) \/ (evaluator[x] = "none" /\ evaluator'[x] = "forked")
    BY <1>2, HoldersFork
  <2>4. x \notin Compiled => evaluator'[x] = evaluator[x]
    BY <1>2, Frame DEF Reap, Acts, Untouched
  <2> HIDE DEF EvaluatorHolding
  <2> QED  BY <1>1, <1>2, <2>1, <2>2, <2>3, <2>4
<1>4. /\ compilerHolds' = [x \in Session |-> compilerHolds'[x]]
      /\ evaluatorHolds' = [x \in Session |-> evaluatorHolds'[x]]
  BY DEF Reap, Inherit
<1> QED  BY <1>3, <1>4 DEF Inherited

LEMMA InheritedKept ==
  ASSUME IInv, SInv, SystemNext PROVE Inherited'
<1>1. Known \subseteq Known' /\ executed \subseteq executed'
  BY SessionStep, SessionsKept DEF SInv, ProvedExecute
<1>2. ASSUME UNCHANGED holdVars,
             \A x \in Session :
               /\ compiler'[x] = "running" => compiler[x] = "running"
               /\ EvaluatorHolding(x)' => EvaluatorHolding(x)
      PROVE  Inherited'
  BY <1>1, <1>2 DEF holdVars, SInv, Inherited
<1>3. CASE Converse \/ Part \/ Crashes \/ Return
  <2>1. UNCHANGED holdVars /\ UNCHANGED <<compiler, evaluator, target, diff>>
    BY <1>3 DEF Converse, Part, Crashes, Return, LoopEnds, vars, serverVars, tracerVars,
       targetVars, holdVars
  <2> QED  BY <1>2, <2>1 DEF EvaluatorHolding, Alive
<1>4. ASSUME NEW s \in Session, Proceed(s) PROVE Inherited'
  <2>1. UNCHANGED holdVars /\ [Next]_vars
    BY <1>4 DEF Proceed, Next
  <2>2. \A x \in Session :
          /\ compiler'[x] = "running" => compiler[x] = "running"
          /\ EvaluatorHolding(x)' => EvaluatorHolding(x)
    BY <1>4, <2>1, OthersForkNothing, HoldersFork DEF Proceed
  <2> QED  BY <1>2, <2>1, <2>2
<1> QED  BY <1>1, <1>3, <1>4, SubmitInherits, ReapInherits DEF SystemNext

LEMMA SystemKeeps ==
  ASSUME IInv, SInv, [SystemNext]_systemVars PROVE SInv'
<1>1. CASE UNCHANGED systemVars
  BY <1>1 DEF systemVars, vars, serverVars, tracerVars, targetVars, sessionVars, holdVars, SInv,
     SessionTypes, ServingTruth, Serving, Sessions!InSession, ProvedExecute, Submitted,
     Inherited, Known, EvaluatorHolding, Alive
<1>2. CASE SystemNext
  BY <1>2, SessionStep, SessionsKept, ServingKept, SubmittedKept, InheritedKept
     DEF SInv, ProvedExecute
<1> QED  BY <1>1, <1>2

\* The pipeline's invariant holds beside the sessions, and the two agree.
THEOREM SystemInvariance == SystemSpec => [](IInv /\ SInv)
<1>1. SystemInit => IInv /\ SInv
  BY SystemInitEstablishes
<1>2. (IInv /\ SInv) /\ [SystemNext]_systemVars => (IInv /\ SInv)'
  BY SystemKeepsJudge, SystemKeeps
<1> QED  BY <1>1, <1>2, PTL DEF SystemSpec
-----------------------------------------------------------------------------
(***************************************************************************)
(* The server implements the judge's service.                              *)
(***************************************************************************)

\* The sessions disturb no submission: the judge keeps its promises when
\* clients leave, when EXIT closes the port and when a handler's error ends
\* the process.
THEOREM ServiceServed == SystemSpec => ImplementsService
<1>1. SystemInit => Service!Init
  BY DEF SystemInit, Init, File, Service!Init, Service!NoVerdict, Submitted
<1>2. IInv /\ SInv /\ [SystemNext]_systemVars => [Service!Next]_(Service!serviceVars)
  <2>1. ASSUME Dies PROVE Service!Stop
    BY <2>1 DEF Dies, tracerVars, Service!Stop, Submitted
  <2> QED  BY <2>1, SystemStep, StepServes DEF Service!Next
<1> QED  BY <1>1, <1>2, SystemInvariance, PTL
            DEF SystemSpec, ImplementsService, Service!Spec

\* What holds of the pipeline on its own holds in the server: each verdict
\* has its cause, traced programs are confined, only the time limit orphans
\* one, and the end of the server loses no submission.
THEOREM SystemJudges ==
  SystemSpec => [](VerdictSound /\ Confined /\ OrphanedOnlyByTimeout /\ ExitLosesNothing)
<1>1. IInv => VerdictSound /\ Confined
  BY DEF IInv, Inductive, ReportSound, TargetStory, VerdictSound, Confined
<1>2. IInv => OrphanedOnlyByTimeout /\ ExitLosesNothing
  BY DEF IInv, TypeOK, Inductive, EvaluatorStage, ServerStage, OrphanedOnlyByTimeout,
     ExitLosesNothing, Submitted
<1> QED  BY <1>1, <1>2, SystemInvariance, PTL

\* No crash and no client makes the server or an evaluator write a verdict
\* over one of the same submission, and a report file that several
\* submissions name loses a verdict only to the first one of another.
THEOREM SystemVerdictsFinal == SystemSpec => VerdictFinal
<1>1. IInv /\ SInv /\ [SystemNext]_systemVars => [\A s \in Session : Final(s)]_vars
  <2> SUFFICES ASSUME IInv, SInv, [SystemNext]_systemVars, NEW x \in Session PROVE Final(x)
    OBVIOUS
  <2>1. CASE Dies
    BY <2>1 DEF Dies, tracerVars, Final
  <2> QED  BY <2>1, SystemStep, StepFinal
<1> QED  BY <1>1, SystemInvariance, PTL DEF SystemSpec, VerdictFinal, Final

\* A submission is only ever taken from a client that has authenticated:
\* AUTH stands between every compiler, evaluator and program and the clients.
THEOREM OnlyProvedSubmit == SystemSpec => []SubmittersProved
<1>1. SInv => SubmittersProved
  BY DEF SInv, ProvedExecute, SubmittersProved
<1> QED  BY <1>1, SystemInvariance, PTL

\* What the handler of a request forked keeps the connection of the request
\* open, whatever the server and the client do meanwhile: an EXIT, a crash or
\* a refused request is not seen by that client as the end of its connection
\* before the compiler, or the evaluator with its program, has ended.
THEOREM OwnConnectionHeld == SystemSpec => []InheritedByOwn
<1>1. SInv => InheritedByOwn
  BY DEF SInv, Inherited, InheritedByOwn, Holds, EvaluatorHolding
<1> QED  BY <1>1, SystemInvariance, PTL

\* Nothing opens a socket again that the server has closed: once no process
\* of a submission has it, none will, not even one forked later
\* (ClosedInTheEnd without its fairness).
THEOREM ClosedStaysClosed == SystemSpec => ClosedStays
<1>1. ASSUME IInv, SInv, [SystemNext]_systemVars, NEW s \in Session, NEW x \in Socket,
             ClosedByServer(x), ~Holds(s, x)
      PROVE  ~Holds(s, x)'
  <2>1. x \notin Opened
    BY <1>1, ServerAssumption DEF ClosedByServer, Opened, Sessions!InSession, Socket
  <2>2. /\ x \in compilerHolds'[s] => x \in compilerHolds[s]
        /\ x \in evaluatorHolds'[s] => x \in evaluatorHolds[s]
        /\ compiler[s] = "none" /\ compiler'[s] = "running" => x \notin compilerHolds'[s]
        /\ evaluator[s] = "none" /\ evaluator'[s] = "forked" => x \notin evaluatorHolds'[s]
    <3>1. CASE Inherit
      BY <2>1, <3>1 DEF Inherit
    <3>2. CASE /\ UNCHANGED holdVars
               /\ compiler'[s] = "running" => compiler[s] = "running"
               /\ evaluator'[s] = "forked" => evaluator[s] = "forked"
      BY <3>2 DEF holdVars
    <3>3. CASE Converse \/ Part \/ Crashes \/ Return \/ UNCHANGED systemVars
      <4>1. UNCHANGED holdVars /\ UNCHANGED <<compiler, evaluator>>
        BY <3>3 DEF Converse, Part, Crashes, Return, LoopEnds, vars, serverVars, tracerVars,
           systemVars
      <4> QED  BY <3>2, <4>1
    <3>4. ASSUME NEW r \in Session, Proceed(r)
          PROVE  /\ UNCHANGED holdVars
                 /\ compiler'[s] = "running" => compiler[s] = "running"
                 /\ evaluator'[s] = "forked" => evaluator[s] = "forked"
      BY <1>1, <3>4, OthersForkNothing DEF Proceed
    <3> QED  BY <1>1, <3>1, <3>2, <3>3, <3>4 DEF SystemNext, Submit, Reap
  <2>3. /\ compiler'[s] = "running" => compiler[s] \in {"running", "none"}
        /\ EvaluatorHolding(s)' =>
             EvaluatorHolding(s) \/ (evaluator[s] = "none" /\ evaluator'[s] = "forked")
    BY <1>1, SystemStep, HoldersFork
  <2>4. /\ Holds(s, x) <=> \/ compiler[s] = "running" /\ x \in compilerHolds[s]
                           \/ EvaluatorHolding(s) /\ x \in evaluatorHolds[s]
        /\ Holds(s, x)' <=> \/ compiler'[s] = "running" /\ x \in compilerHolds'[s]
                            \/ EvaluatorHolding(s)' /\ x \in evaluatorHolds'[s]
    BY DEF Holds, EvaluatorHolding
  <2> HIDE DEF EvaluatorHolding, Holds
  <2> QED  BY <1>1, <2>2, <2>3, <2>4
<1>2. IInv /\ SInv /\ [SystemNext]_systemVars
        => [\A s \in Session, x \in Socket :
              ClosedByServer(x) /\ ~Holds(s, x) => ~Holds(s, x)']_systemVars
  BY <1>1
<1> QED  BY <1>2, SystemInvariance, PTL DEF SystemSpec, ClosedStays

\* If fork and diff work, AC is the doing of the program in the whole server
\* too.
THEOREM SystemAcceptedIsCorrect ==
  ASSUME Fault \cap {"fork", "diff"} = {}
  PROVE  SystemSpec => []AcceptedCorrect
<1> DEFINE Inv == IInv /\ SInv /\ \A x \in Session : Compared(x)
<1>1. SystemInit => Inv
  BY SystemInitEstablishes DEF SystemInit, Init, Compared
<1>2. Inv /\ [SystemNext]_systemVars => Inv'
  <2>1. ASSUME Dies, NEW x \in Session, Compared(x) PROVE Compared(x)'
    BY <2>1 DEF Dies, tracerVars, targetVars, Compared
  <2> QED  BY <2>1, SystemStep, SystemKeepsJudge, SystemKeeps, AllCompared
<1>3. Inv => AcceptedCorrect
  BY DEF Compared, AcceptedCorrect
<1> HIDE DEF Inv
<1> QED  BY <1>1, <1>2, <1>3, PTL DEF SystemSpec
-----------------------------------------------------------------------------
(***************************************************************************)
(* No submission is forgotten: one without a verdict has a process that    *)
(* works for it, or is lost in one of the ways that Lost lists             *)
(* (VerdictOrLost without its fairness).                                   *)
(***************************************************************************)
Cared(s) == s \in Submitted => report[s] # "none" \/ Pending(s) \/ Lost(s)

Stories(s) == EvaluatorStory(s) /\ Cared(s)

\* The server's part: what it submits is compiled or evaluated, and what it
\* reaps is reported, handed on, or lost in a fork.
LEMMA ServerStories ==
  ASSUME IInv, NEW s \in Session, Stories(s),
         JudgeCompiled(s) \/ JudgeInterpreted(s) \/ CompilerReaped(s)
  PROVE  Stories(s)'
<1>1. CASE JudgeCompiled(s)
  <2>1. compiler'[s] \in {"running", "unforked"} /\ s \in watching' /\ main' = "up"
        /\ UNCHANGED <<evaluator, diff, report, target, status, overflow>>
    BY <1>1 DEF JudgeCompiled, tracerVars, targetVars, IInv, TypeOK
  <2> QED  BY <2>1 DEF Stories, EvaluatorStory, Cared, Pending, Lost
<1>2. CASE JudgeInterpreted(s)
  <2>1. evaluator'[s] \in {"forked", "unforked"}
    BY <1>2 DEF JudgeInterpreted, ForkEvaluator, IInv, TypeOK
  <2> QED  BY <2>1 DEF Stories, EvaluatorStory, Cared, Pending, Lost
<1>3. CASE CompilerReaped(s)
  <2>1. evaluator[s] = "none"
    BY <1>3 DEF CompilerReaped, IInv, Inductive, ServerStage
  <2>2. \/ report' = [report EXCEPT ![s] = "CE"] /\ evaluator' = evaluator
        \/ main' = "crashed" /\ evaluator' = evaluator
        \/ \E e \in {"forked", "unforked"} : evaluator' = [evaluator EXCEPT ![s] = e]
    BY <1>3, ForksEvaluator DEF CompilerReaped, WriteStatus
  <2>3. \/ report'[s] = "CE" /\ evaluator'[s] = "none"
        \/ main' = "crashed" /\ evaluator'[s] = "none"
        \/ evaluator'[s] \in {"forked", "unforked"}
    BY <2>1, <2>2 DEF IInv, TypeOK
  <2> QED  BY <2>3 DEF Stories, EvaluatorStory, Cared, Pending, Lost
<1> QED  BY <1>1, <1>2, <1>3

\* The processes' part: none of them ends what its evaluator waits for.
LEMMA ProcessStories ==
  ASSUME IInv, NEW s \in Session, Stories(s), TargetNext(s)
  PROVE  Stories(s)'
<1>1. s \in Submitted /\ UNCHANGED <<main, watching, evaluator, report, overflow>>
  BY ActsSubmitted DEF TargetNext, CompilerEnds, TargetExecs, TargetFaults, TargetAborts,
     TargetCalls, TimerExpires, OutOfMemory, DiffEnds, serverVars, tracerVars
<1>2. CASE CompilerEnds(s)
  <2>1. /\ compiler[s] = "running" /\ compiler'[s] \in {"ok", "failed", "killed"}
        /\ UNCHANGED <<diff, target, status>>
    BY <1>2 DEF CompilerEnds, tracerVars, targetVars, IInv, TypeOK
  <2> QED  BY <1>1, <2>1 DEF Stories, EvaluatorStory, Cared, Pending, Lost
<1>3. CASE DiffEnds(s)
  <2>1. /\ evaluator[s] = "diffing" /\ diff'[s] \in {"nothing", "differences"}
        /\ UNCHANGED <<compiler, target, status>>
    BY <1>3 DEF DiffEnds, serverVars, targetVars, IInv, TypeOK, Inductive, EvaluatorStage
  <2> QED  BY <1>1, <2>1 DEF Stories, EvaluatorStory, Cared, Pending, Lost
<1>4. CASE ~CompilerEnds(s) /\ ~DiffEnds(s)
  <2>1. target[s] \in {"setup", "running", "aborting", "stopped"}
        /\ UNCHANGED <<compiler, diff>>
    BY <1>4 DEF TargetNext, TargetExecs, TargetFaults, TargetAborts, TargetCalls,
       TimerExpires, OutOfMemory, Alive, serverVars, tracerVars
  <2> QED  BY <1>1, <2>1 DEF Stories, EvaluatorStory, Cared, Pending, Lost
<1> QED  BY <1>2, <1>3, <1>4

\* The evaluator's part: it leaves its loop with a verdict written, by the
\* error of a report that cannot be, or for a signal that has none.
LEMMA EvaluatorStories ==
  ASSUME IInv, NEW s \in Session, Stories(s), EvaluatorNext(s)
  PROVE  Stories(s)'
<1>1. CASE EvaluatorForks(s) \/ TracerSeesExit(s)
  <2>1. \/ evaluator'[s] = "tracing"
        \/ evaluator'[s] = "diffing" /\ diff'[s] \in {"running", "unforked"}
    BY <1>1 DEF EvaluatorForks, TracerSeesExit, ForkDiff, IInv, TypeOK
  <2> QED  BY <2>1 DEF Stories, EvaluatorStory, Cared, Pending, Lost
<1>2. CASE TracerWaits(s) \/ TracerReads(s) \/ TracerStarts(s) \/ TracerBans(s) \/ TracerAllows(s)
  <2>1. evaluator'[s] = "tracing"
    BY <1>2 DEF TracerWaits, TracerReads, TracerStarts, TracerBans, TracerAllows, Decides,
       WIFSTOPPED, Waited
  <2> QED  BY <2>1 DEF Stories, EvaluatorStory, Cared, Pending, Lost
<1>3. ASSUME NEW v, v # "none", Conclude(s, v) PROVE Stories(s)'
  <2>1. CASE Concluded(s, v)
    <3>1. evaluator'[s] = "dead" /\ report'[s] = v
      BY <2>1 DEF Concluded, IInv, TypeOK
    <3> QED  BY <1>3, <3>1 DEF Stories, EvaluatorStory, Cared
  <2>2. CASE Erred(s)
    <3>1. evaluator'[s] = "failed"
      BY <2>2, ServerAssumption DEF Erred, IInv, TypeOK
    <3> QED  BY <3>1 DEF Stories, EvaluatorStory, Cared, Lost
  <2> QED  BY <1>3, <2>1, <2>2, Concludes
<1>4. CASE TracerTimesOut(s) \/ DiffReaped(s)
  BY <1>3, <1>4 DEF TracerTimesOut, DiffReaped, DiffVerdict
<1>5. CASE TracerSeesDeath(s)
  <2>1. CASE SignalVerdict(status[s], overflow[s]) = "none"
    <3>1. /\ evaluator'[s] = "dead" /\ target'[s] = "killed"
          /\ SignalVerdict(status'[s], overflow'[s]) = "none"
      BY <1>5, <2>1 DEF TracerSeesDeath, WIFSIGNALED, Waited, EvaluatorDies, targetVars,
         IInv, TypeOK
    <3> QED  BY <3>1 DEF Stories, EvaluatorStory, Cared, Lost
  <2>2. CASE SignalVerdict(status[s], overflow[s]) # "none"
    BY <1>3, <1>5, <2>2 DEF TracerSeesDeath
  <2> QED  BY <2>1, <2>2
<1> QED  BY <1>1, <1>2, <1>4, <1>5 DEF EvaluatorNext

LEMMA StoriesKept ==
  ASSUME IInv, IInv', \A s \in Session : Stories(s),
         [Next]_vars \/ Dies, NEW x \in Session
  PROVE  Stories(x)'
<1>1. ASSUME Untouched(x),
             main' = main \/ (main = "up" /\ (main' = "crashed" \/ x \notin watching))
      PROVE  Stories(x)'
  <2>1. EvaluatorStory(x)'
    BY <1>1 DEF Untouched, Stories, EvaluatorStory
  <2>2. x \in watching => evaluator[x] = "none"
    BY DEF IInv, Inductive, ServerStage
  <2>3. Lost(x) => Lost(x)'
    BY <1>1 DEF Untouched, Lost
  <2>4. Pending(x) => Pending(x)' \/ Lost(x)'
    BY <1>1, <2>2 DEF Untouched, Pending, Lost
  <2> QED  BY <1>1, <2>1, <2>3, <2>4 DEF Untouched, Stories, Cared, Submitted
<1>2. CASE StopServing \/ LoopEnds \/ UNCHANGED vars \/ Dies
  <2>1. Untouched(x)
    BY <1>2 DEF StopServing, LoopEnds, vars, Dies, serverVars, tracerVars, targetVars, Untouched
  <2>2. main' = main \/ (main = "up" /\ (main' = "crashed" \/ x \notin watching))
    BY <1>2 DEF StopServing, LoopEnds, LoopIdle, vars, serverVars, Dies
  <2> QED  BY <1>1, <2>1, <2>2
<1>3. ASSUME NEW s \in Session, Acts(s), x # s PROVE Stories(x)'
  <2>1. Untouched(x)
    BY <1>3, Frame
  <2>2. main' = main \/ (main = "up" /\ main' = "crashed")
    BY <1>3, ActsMoveMain
  <2> QED  BY <1>1, <2>1, <2>2
<1>4. CASE Acts(x)
  BY <1>4, ServerStories, ProcessStories, EvaluatorStories DEF Acts
<1> QED  BY <1>2, <1>3, <1>4, NextActs

\* A submission without a verdict is being worked on or lost for a reason
\* that Lost names: no leaving client, EXIT, crash of a handler, callback or
\* signal makes one vanish in another way.
THEOREM NoVerdictForgotten == SystemSpec => []VerdictPending
<1> DEFINE Inv == IInv /\ SInv /\ \A s \in Session : Stories(s)
<1>1. SystemInit => Inv
  BY SystemInitEstablishes DEF SystemInit, Init, Stories, EvaluatorStory, Cared
<1>2. Inv /\ [SystemNext]_systemVars => Inv'
  BY SystemStep, SystemKeepsJudge, SystemKeeps, StoriesKept
<1>3. Inv => VerdictPending
  BY DEF Stories, Cared, VerdictPending, Submitted
<1> HIDE DEF Inv
<1> QED  BY <1>1, <1>2, <1>3, PTL DEF SystemSpec
=============================================================================
