------------------------------- MODULE Server -------------------------------
(***************************************************************************)
(* The whole server: the sessions of its clients (SessionService, which    *)
(* Conn implements) and the judging of what they submit (Judge), in one    *)
(* process and one event loop.                                             *)
(*                                                                         *)
(* What the two share is the process.  A session lets judge run, inside    *)
(* the handler of its request; the loop ends when neither sockets nor      *)
(* watchers of compilers are left; a crash takes both.  And every process  *)
(* that judge forks inherits the sockets that are open at that moment,     *)
(* since none is marked close-on-exec: the compiler and, later, the        *)
(* evaluator, which passes its own on to the target and to diff.  A socket *)
(* the server has closed stays open for its peer while one of them lives.  *)
(***************************************************************************)
EXTENDS Judge

CONSTANT Client   \* clients, each connecting once

\* Where a report can fail every submission is compiled: the evaluator of an
\* interpreted one would be caught in the pcall of on_read and go on as a
\* second server on the same sockets ("astray"), which is not modelled.
ASSUME ServerAssumption ==
  "listener" \notin Client /\ ("report" \in Fault => Session \subseteq Compiled)

VARIABLES
  session, executed, server,   \* the sessions, as in SessionService
  compilerHolds,               \* per submission: sockets its compiler inherited
  evaluatorHolds               \* the same of its evaluator, target and diff

sessionVars == <<session, executed, server>>
holdVars == <<compilerHolds, evaluatorHolds>>
systemVars == <<vars, sessionVars, holdVars>>

Sessions == INSTANCE SessionService

Socket == Client \cup {"listener"}

\* The sockets the server has open.
Opened ==
  {k \in Client : Sessions!InSession(k)} \cup
  (IF server = "accepting" THEN {"listener"} ELSE {})

SystemInit ==
  /\ Init /\ Sessions!Init
  /\ compilerHolds = [s \in Session |-> {}]
  /\ evaluatorHolds = [s \in Session |-> {}]
-----------------------------------------------------------------------------
\* fork copies the descriptors, and execvp closes none of them.
Inherit ==
  /\ compilerHolds' =
       [s \in Session |-> IF compiler[s] = "none" /\ compiler'[s] = "running"
                          THEN Opened ELSE compilerHolds[s]]
  /\ evaluatorHolds' =
       [s \in Session |-> IF evaluator[s] = "none" /\ evaluator'[s] = "forked"
                          THEN Opened ELSE evaluatorHolds[s]]

\* Sockets keep the server's loop alive.
StillServing == serving' = (server' # "closed" \/ \E k \in Client : Sessions!InSession(k)')

\* on_accept, commands.AUTH, and a request that submits nothing.
Converse ==
  /\ main = "up"
  /\ \/ Sessions!Start
     \/ \E k \in Client : Sessions!Open(k) \/ Sessions!Authenticate(k) \/ Sessions!Execute(k)
  /\ UNCHANGED <<vars, holdVars>>

\* A request is executed and calls judge.
Submit(k) ==
  /\ Sessions!Execute(k)
  /\ \E s \in Session : JudgeCompiled(s) \/ JudgeInterpreted(s)
  /\ Inherit

\* A session ends by itself, or by an EXIT.
Part ==
  /\ main = "up"
  /\ \E k \in Client : Sessions!End(k) \/ Sessions!Exit(k)
  /\ StillServing
  /\ UNCHANGED <<main, watching, compiler, tracerVars, targetVars, holdVars>>

\* An assertion, a signal or an error ends the server in one of its handlers.
Crashes ==
  /\ main = "up" /\ Sessions!Crash
  /\ main' = "crashed" /\ serving' = FALSE
  /\ UNCHANGED <<watching, compiler, tracerVars, targetVars, holdVars>>

\* The callback of judge, which an error in write_status leaves with the loop.
Reap(s) ==
  /\ main = "up" /\ CompilerReaped(s)
  /\ Inherit
  /\ IF main' = "crashed" /\ serving THEN Sessions!Crash ELSE UNCHANGED sessionVars

\* The processes of a submission go their own way, and so does the loop.
Proceed(s) ==
  /\ TargetNext(s) \/ EvaluatorNext(s)
  /\ UNCHANGED <<sessionVars, holdVars>>

Return == LoopEnds /\ UNCHANGED <<sessionVars, holdVars>>

SystemNext ==
  \/ Converse \/ Part \/ Crashes \/ Return
  \/ \E k \in Client : Submit(k)
  \/ \E s \in Session : Reap(s) \/ Proceed(s)

\* What Judge assumes of its processes.
SystemFairness ==
  \A s \in Session :
    /\ WF_systemVars(Reap(s))
    /\ WF_systemVars(EvaluatorNext(s) /\ Proceed(s))
    /\ WF_systemVars(CompilerEnds(s) /\ Proceed(s))
    /\ WF_systemVars(DiffEnds(s) /\ Proceed(s))
    /\ WF_systemVars((TargetExecs(s) \/ TargetAborts(s)) /\ Proceed(s))
    /\ SF_systemVars(TimerExpires(s) /\ Proceed(s))

SystemSpec == SystemInit /\ [][SystemNext]_systemVars /\ SystemFairness
-----------------------------------------------------------------------------
\* A process of the submission has the socket open.
Holds(s, x) ==
  \/ compiler[s] = "running" /\ x \in compilerHolds[s]
  \/ /\ evaluator[s] \in {"forked", "tracing", "diffing"} \/ Alive(s) \/ diff[s] = "running"
     /\ x \in evaluatorHolds[s]

\* The server has closed the socket, or has died with it.
ClosedByServer(x) ==
  IF x = "listener" THEN server = "closed" ELSE session[x] = "over"

\* What nothing ends: an evaluator that waits for a diff it could not fork,
\* a program without a time limit, or one abandoned at it.
Stuck(s) ==
  \/ evaluator[s] = "diffing" /\ diff[s] = "unforked"
  \/ Alive(s) /\ (s \notin Timed \/ Ended(s))

\* A client whose connection the server has closed sees it end, and the
\* server's port is free to be bound again (a bind that fails aborts the new
\* server): what judging inherits delays this, but only a submission that is
\* stuck can put it off for ever.
ClosedInTheEnd ==
  \A x \in Socket :
    ClosedByServer(x) ~> \A s \in Session : Holds(s, x) => Stuck(s)

\* Nothing will ever write the submission's verdict: a fork failed, the
\* server crashed while it was compiled, the evaluator ended by the error of
\* a report that could not be opened, or an untraced program died by a signal
\* that evaluate_tracer has no branch for.
Lost(s) ==
  \/ "unforked" \in {compiler[s], evaluator[s], diff[s]}
  \/ evaluator[s] = "failed"
  \/ main = "crashed" /\ evaluator[s] = "none"
  \/ target[s] = "killed" /\ SignalVerdict(status[s], overflow[s]) = "none"

=============================================================================
