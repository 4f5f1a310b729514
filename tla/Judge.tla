------------------------------- MODULE Judge -------------------------------
(***************************************************************************)
(* The judging pipeline of oj/iojxd.lua, for any number of submissions at  *)
(* once.  Per submission up to five processes take part:                   *)
(*   the server      (judge, the child watcher's callback, write_status);  *)
(*   the compiler    (forked by judge, watched by the server);             *)
(*   the evaluator   (forked by evaluate, watched by nobody): the tracer;  *)
(*   the target      (forked by the evaluator): the submitted program;     *)
(*   diff            (forked by the evaluator, watched in a new loop).     *)
(* The kernel's part (signals, wait, ptrace, the profiling timer) is       *)
(* modelled from how the code uses it.  Only Linux traces: on Darwin the   *)
(* target runs free and its evaluator only sees it end.                    *)
(*                                                                         *)
(* A system call is what it does; what the tracer reads is its number, and *)
(* two calls can share one: int 0x80 with 2 forks, and the table for       *)
(* x86-64 names that number open.                                          *)
(*                                                                         *)
(* `ran` and `seen` are history variables: no guard reads `ran`, and of     *)
(* `seen` only whether the one-shot timer has expired.                     *)
(***************************************************************************)
CONSTANTS
  Session,     \* submissions
  Compiled,    \* those whose language needs a compiler (caster.needscompile)
  Timed,       \* those with a time limit; setitimer with 0 arms nothing
  Outfile,     \* the report file that each names (args.outfile)
  Call,        \* what a program can ask of the kernel; "exit_group" ends it
  Raising,     \* those that can send the program itself a signal
  Number,      \* system call numbers, written as their names on x86-64
  OrigRax,     \* the number that each call is made with
  Named,       \* the numbers that the table of losyscall.cxx has a name for
  Whitelist,   \* the names that each submission may call
  Linux,       \* TRUE: ptrace is used (lplatform.is_linux)
  Fault        \* what the environment may do wrong, a subset of FaultClass

\* "fork": fork returns -1.  "exec": execvp finds no runnable program.
\* "kill": a signal ends the compiler.  "oom": SIGKILL from outside ends the
\* target.  "diff": diff ends without writing.  "report": outfile cannot be
\* opened.
FaultClass == {"fork", "exec", "kill", "oom", "diff", "report"}

\* The number that zeroed registers show.
Zero == "read"

\* No whitelist lists the name "unknown".
ASSUME JudgeAssumption ==
  /\ Compiled \subseteq Session /\ Timed \subseteq Session /\ "none" \notin Session
  /\ DOMAIN Outfile = Session
  /\ "exit_group" \in Call /\ Raising \subseteq Call \ {"exit_group"}
  /\ Call \cap {"none", "trap", "abort", "fault", "PROF", "KILL", "SEGV", "ABRT"} = {}
  /\ OrigRax \in [Call -> Number] /\ Zero \in Named /\ Named \subseteq Number
  /\ Number \cap {"none", "nocall", "unknown", "PROF", "other"} = {}
  /\ Whitelist \in [Session -> SUBSET Number]
  /\ Linux \in BOOLEAN /\ Fault \subseteq FaultClass

File == {Outfile[s] : s \in Session}

VARIABLES
  main,        \* the server process: "up", "exited" or "crashed"
  serving,     \* a listening socket or a connection keeps its loop alive
  watching,    \* submissions with an active child watcher in its loop
  compiler,    \* "none", "unforked", "running", then how it ended
  evaluator,   \* "none", "unforked", "forked", "tracing", "diffing", then
               \* "dead", "failed" (by an error), or "astray" (it was caught)
  waited,      \* the tracer after a stop: how it reads it, then the number
  inited,      \* the tracer's local `inited`
  overflow,    \* the tracer's local status.name == 'overflow'
  diff,        \* "none", "unforked", "running", then what it wrote
  report,      \* the verdict that write_status wrote for each submission
  holder,      \* the submission whose verdict each report file holds
  target,      \* the submitted program's process
  status,      \* what wait4 tells about a stopped or a killed target
  output,      \* its output file: "absent", or, once it exits, right or wrong
  ran,         \* history: the calls the program has executed
  seen         \* history: what happened to the target

serverVars == <<main, serving, watching, compiler>>
tracerVars == <<evaluator, waited, inited, overflow, diff, report, holder>>
targetVars == <<target, status, output, ran, seen>>
vars == <<serverVars, tracerVars, targetVars>>

\* The outcomes of an operation that fails only if fault f is allowed.
Succeeds(f) == IF f \in Fault THEN BOOLEAN ELSE {TRUE}

\* ptrace holds as long as the tracer lives, and one gone astray lives.
Traced(s) == Linux /\ evaluator[s] \in {"tracing", "astray"}

Init ==
  /\ main = "up" /\ serving = TRUE /\ watching = {}
  /\ compiler = [s \in Session |-> "none"]
  /\ evaluator = [s \in Session |-> "none"]
  /\ waited = [s \in Session |-> "none"]
  /\ inited = [s \in Session |-> FALSE]
  /\ overflow = [s \in Session |-> FALSE]
  /\ diff = [s \in Session |-> "none"]
  /\ report = [s \in Session |-> "none"]
  /\ holder = [f \in File |-> "none"]
  /\ target = [s \in Session |-> "none"]
  /\ status = [s \in Session |-> "none"]
  /\ output = [s \in Session |-> "absent"]
  /\ ran = [s \in Session |-> {}]
  /\ seen = [s \in Session |-> {}]
-----------------------------------------------------------------------------
(* The server process.                                                     *)

\* write_status opens outfile with 'w', whoever wrote to it before; when that
\* fails, out is nil and `out:write` raises a Lua error.
WriteStatus(s, verdict, opened) ==
  IF opened THEN /\ report' = [report EXCEPT ![s] = verdict]
                 /\ holder' = [holder EXCEPT ![Outfile[s]] = s]
            ELSE UNCHANGED <<report, holder>>

\* evaluate: the evaluator is forked and never watched.
ForkEvaluator(s) ==
  \E forked \in Succeeds("fork") :
    evaluator' = [evaluator EXCEPT ![s] = IF forked THEN "forked" ELSE "unforked"]

\* judge, for a language that is compiled.  A fork that failed leaves the
\* watcher waiting for pid -1.
JudgeCompiled(s) ==
  /\ main = "up" /\ serving /\ s \in Compiled /\ compiler[s] = "none"
  /\ \E forked \in Succeeds("fork") :
       compiler' = [compiler EXCEPT ![s] = IF forked THEN "running" ELSE "unforked"]
  /\ watching' = watching \cup {s}
  /\ UNCHANGED <<main, serving, tracerVars, targetVars>>

\* judge, for a language that is not.
JudgeInterpreted(s) ==
  /\ main = "up" /\ serving /\ s \notin Compiled /\ evaluator[s] = "none"
  /\ ForkEvaluator(s)
  /\ UNCHANGED <<serverVars, waited, inited, overflow, diff, report, holder, targetVars>>

\* The compiler ends by itself, or by a signal: execvp failing in
\* iojx.util.exec ends in abort.
CompilerEnds(s) ==
  /\ compiler[s] = "running"
  /\ \E how \in {"ok", "failed"} \cup (IF Fault \cap {"exec", "kill"} # {}
                                         THEN {"killed"} ELSE {}) :
       compiler' = [compiler EXCEPT ![s] = how]
  /\ UNCHANGED <<main, serving, watching, tracerVars, targetVars>>

\* WEXITSTATUS of the raw status, whatever the cause: the high byte of a
\* status left by a signal is zero (ixut_childw_getstatus).
ExitStatus(how) == IF how = "failed" THEN 1 ELSE 0

\* ixut_childw_cb stops the watcher, then the callback of judge decides.  An
\* error in write_status leaves the callback, the loop and the server.
CompilerReaped(s) ==
  /\ main = "up" /\ s \in watching
  /\ compiler[s] \in {"ok", "failed", "killed"}
  /\ watching' = watching \ {s}
  /\ \/ /\ ExitStatus(compiler[s]) # 0
        /\ \E opened \in Succeeds("report") :
             /\ WriteStatus(s, "CE", opened)
             /\ main' = IF opened THEN main ELSE "crashed"
        /\ UNCHANGED evaluator
     \/ /\ ExitStatus(compiler[s]) = 0
        /\ ForkEvaluator(s)
        /\ UNCHANGED <<main, report, holder>>
  /\ UNCHANGED <<serving, compiler, waited, inited, overflow, diff, targetVars>>

\* EXIT closes the listening socket and the connection that sent it; the
\* other clients leave when they like.
StopServing ==
  /\ main = "up" /\ serving
  /\ serving' = FALSE
  /\ UNCHANGED <<main, watching, compiler, tracerVars, targetVars>>

\* Mutant: the loop does not count child watchers.
LoopIdle_SocketsOnly == ~serving

\* ev_run returns when no watcher is active.
LoopIdle == ~serving /\ watching = {}

LoopEnds ==
  /\ main = "up" /\ LoopIdle
  /\ main' = "exited"
  /\ UNCHANGED <<serving, watching, compiler, tracerVars, targetVars>>
-----------------------------------------------------------------------------
(* The target, and what the kernel does to it.                             *)

\* The program is there to be executed: the compiler wrote it, or it is the
\* interpreter's.
Runnable(s) == s \in Compiled => compiler[s] = "ok"

Stops(s, why) ==
  /\ target' = [target EXCEPT ![s] = "stopped"]
  /\ status' = [status EXCEPT ![s] = why]

Killed(s, signal) ==
  /\ target' = [target EXCEPT ![s] = "killed"]
  /\ status' = [status EXCEPT ![s] = signal]

Saw(s, what) == seen' = [seen EXCEPT ![s] = @ \cup {what}]

Signal == {"PROF", "KILL", "SEGV", "ABRT"}   \* "ABRT" for all the others

\* The program sends itself a signal.  A traced one stops before it is
\* delivered, unless it is SIGKILL.
Raise(s) ==
  \E signal \in Signal :
    /\ Saw(s, signal)
    /\ IF Traced(s) /\ signal # "KILL"
       THEN Stops(s, IF signal = "PROF" THEN "PROF" ELSE "fault")
       ELSE Killed(s, signal)

\* The call takes effect; exit_group ends the program with its output done.
Execute(s, call) ==
  /\ ran' = [ran EXCEPT ![s] = @ \cup {call}]
  /\ \/ /\ call = "exit_group"
        /\ target' = [target EXCEPT ![s] = "exited"]
        /\ \E o \in {"right", "wrong"} : output' = [output EXCEPT ![s] = o]
        /\ UNCHANGED <<status, seen>>
     \/ /\ call # "exit_group"
        /\ target' = [target EXCEPT ![s] = "running"]
        /\ UNCHANGED <<status, output, seen>>
     \/ call \in Raising /\ Raise(s) /\ UNCHANGED output

\* evaluate_child_setup and the exec that follows.  A traced exec stops with
\* SIGTRAP; a failed one aborts, and SIGABRT is the first stop.
TargetExecs(s) ==
  /\ target[s] = "setup"
  /\ \E found \in Succeeds("exec") :
       \/ /\ found /\ Runnable(s)
          /\ \/ Traced(s) /\ Stops(s, "trap")
             \/ /\ ~Traced(s)
                /\ target' = [target EXCEPT ![s] = "running"]
                /\ UNCHANGED status
          /\ UNCHANGED seen
       \/ /\ ~(found /\ Runnable(s))
          /\ Saw(s, "fault")
          /\ IF Traced(s) THEN Stops(s, "abort") ELSE Killed(s, "ABRT")
  /\ UNCHANGED <<serverVars, tracerVars, output, ran>>

\* ixut_syscall_name: a number the table does not have is "unknown", and so
\* is the -1 of a stop outside of any call.
SyscallName(number) == IF number \in Named THEN number ELSE "unknown"

OnList(s, call) == SyscallName(OrigRax[call]) \in Whitelist[s]

\* The program makes a system call: a traced one stops before it.
TargetCalls(s, call) ==
  /\ target[s] = "running"
  /\ \/ /\ Traced(s) /\ Stops(s, call)
        /\ IF OnList(s, call) THEN UNCHANGED seen ELSE Saw(s, "banned")
        /\ UNCHANGED <<output, ran>>
     \/ ~Traced(s) /\ Execute(s, call)
  /\ UNCHANGED <<serverVars, tracerVars>>

\* The program faults.  A traced one stops before the signal is delivered,
\* and orig_rax is the number of no call then.
TargetFaults(s) ==
  /\ target[s] = "running"
  /\ Saw(s, "fault")
  /\ IF Traced(s) THEN Stops(s, "fault")
                  ELSE \E signal \in {"SEGV", "ABRT"} : Killed(s, signal)
  /\ UNCHANGED <<serverVars, tracerVars, output, ran>>

\* After a failed exec whose SIGABRT the tracer swallowed, abort goes on to
\* calls that no whitelist has, and in the end to an illegal instruction.
TargetAborts(s) ==
  /\ target[s] = "aborting"
  /\ Stops(s, "fault")
  /\ UNCHANGED <<serverVars, tracerVars, output, ran, seen>>

\* The one-shot ITIMER_PROF expires: the program has used its CPU time.
TimerExpires(s) ==
  /\ s \in Timed /\ target[s] = "running" /\ "timer" \notin seen[s]
  /\ Saw(s, "timer")
  /\ IF Traced(s) THEN Stops(s, "PROF") ELSE Killed(s, "PROF")
  /\ UNCHANGED <<serverVars, tracerVars, output, ran>>

Alive(s) == target[s] \in {"setup", "running", "aborting", "stopped"}

\* SIGKILL from outside; it does not wait for the tracer.
OutOfMemory(s) ==
  /\ "oom" \in Fault /\ Alive(s)
  /\ Saw(s, "oom") /\ Killed(s, "KILL")
  /\ UNCHANGED <<serverVars, tracerVars, output, ran>>
-----------------------------------------------------------------------------
(* The evaluator: evaluate_tracer, one action per way through its loop.    *)

\* Mutant: no break, the evaluator goes back to wait4.
EvaluatorDies_Continues(s) == UNCHANGED evaluator

\* The evaluator leaves evaluate_tracer and aborts (ixut_fork).  A target it
\* was tracing is detached: it goes on, without the signal it stopped for.
EvaluatorDies(s) == evaluator' = [evaluator EXCEPT ![s] = "dead"]

\* The error of write_status.  An evaluator forked in the callback of a
\* compiler's watcher ends by it.  One forked while a request is executed is
\* still inside the pcall of on_read, which catches the error: it answers the
\* client, goes back to the loop and stays the tracer.  From the loop that
\* waits for diff the error has to pass the frames of libev to get there,
\* which depends on how libev was built.
EvaluatorFails(s) ==
  \E caught \in IF s \in Compiled THEN {FALSE}
                ELSE IF evaluator[s] = "diffing" THEN BOOLEAN ELSE {TRUE} :
    evaluator' = [evaluator EXCEPT ![s] = IF caught THEN "astray" ELSE "failed"]

\* write_status as the evaluator's last act.
Conclude(s, verdict) ==
  \E opened \in Succeeds("report") :
    /\ WriteStatus(s, verdict, opened)
    /\ IF opened THEN EvaluatorDies(s) ELSE EvaluatorFails(s)

\* laoj.fork of diff, its callback and the new loop that waits for it.
ForkDiff(s) ==
  /\ \E forked \in Succeeds("fork") :
       diff' = [diff EXCEPT ![s] = IF forked THEN "running" ELSE "unforked"]
  /\ evaluator' = [evaluator EXCEPT ![s] = "diffing"]

\* The fork of the target.  After a failed one wait4(-1) fails too and
\* leaves status 0, which reads as a normal exit.
EvaluatorForks(s) ==
  /\ evaluator[s] = "forked"
  /\ \E forked \in Succeeds("fork") :
       \/ /\ forked
          /\ evaluator' = [evaluator EXCEPT ![s] = "tracing"]
          /\ target' = [target EXCEPT ![s] = "setup"]
          /\ UNCHANGED diff
       \/ ~forked /\ ForkDiff(s) /\ UNCHANGED target
  /\ UNCHANGED <<serverVars, waited, inited, overflow, report, holder>>
  /\ UNCHANGED <<status, output, ran, seen>>

\* What wait4 tells the tracer of its target, as the three macros read it.
Waited(s, state) == evaluator[s] = "tracing" /\ waited[s] = "none" /\ target[s] = state
WIFEXITED(s) == Waited(s, "exited")
WIFSIGNALED(s) == Waited(s, "killed")
WIFSTOPPED(s) == Waited(s, "stopped")

\* wait4 returns at a stop.  What follows takes the tracer several system
\* calls, and a SIGKILL can end the target between any two of them.
TracerWaits(s) ==
  /\ WIFSTOPPED(s)
  /\ waited' = [waited EXCEPT ![s] = IF status[s] = "PROF" THEN "PROF" ELSE "other"]
  /\ UNCHANGED <<serverVars, evaluator, inited, overflow, diff, report, holder, targetVars>>

\* The tracer goes on with its target, if that is still there: ptrace fails
\* on a target that was killed, and nobody looks.
Resumes(s, state) ==
  target' = [target EXCEPT ![s] = IF @ = "stopped" THEN state ELSE @]

\* SIGPROF: the verdict is written and the loop left.
TracerTimesOut(s) ==
  /\ evaluator[s] = "tracing" /\ waited[s] = "PROF"
  /\ Conclude(s, "TLE")
  /\ waited' = [waited EXCEPT ![s] = "none"]
  /\ IF evaluator'[s] = "astray" THEN UNCHANGED target ELSE Resumes(s, "running")
  /\ UNCHANGED <<serverVars, inited, overflow, diff, status, output, ran, seen>>

\* PTRACE_GETREGS into zeroed registers, which stay so if it fails.
TracerReads(s) ==
  /\ evaluator[s] = "tracing" /\ waited[s] = "other"
  /\ waited' = [waited EXCEPT ![s] = IF target[s] # "stopped" THEN Zero
                                     ELSE IF status[s] \in Call THEN OrigRax[status[s]]
                                     ELSE "nocall"]
  /\ UNCHANGED <<serverVars, evaluator, inited, overflow, diff, report, holder, targetVars>>

\* The number is read, and the tracer ready to go back to wait4.
Decides(s) ==
  /\ evaluator[s] = "tracing" /\ waited[s] \in Number \cup {"nocall"}
  /\ waited' = [waited EXCEPT ![s] = "none"]

\* The first stop is the exec, and goes on whatever it was.
TracerStarts(s) ==
  /\ Decides(s) /\ ~inited[s]
  /\ inited' = [inited EXCEPT ![s] = TRUE]
  /\ Resumes(s, IF status[s] = "trap" THEN "running" ELSE "aborting")
  /\ UNCHANGED <<serverVars, evaluator, overflow, diff, report, holder>>
  /\ UNCHANGED <<status, output, ran, seen>>

\* Mutant: whatever has a name is allowed.
Allowed_AnyName(s) == SyscallName(waited[s]) # "unknown"

\* lutil.inside(args.syscall_whitelist, syscall_name)
Allowed(s) == SyscallName(waited[s]) \in Whitelist[s]

\* Mutant: the tracer leaves the loop instead of killing.
TracerBans_Leaves(s) ==
  /\ Decides(s) /\ inited[s] /\ ~Allowed(s)
  /\ Conclude(s, "RE") /\ Resumes(s, "running")
  /\ UNCHANGED <<serverVars, inited, overflow, diff, status, output, ran, seen>>

\* PTRACE_KILL: the call is not made.
TracerBans(s) ==
  /\ Decides(s) /\ inited[s] /\ ~Allowed(s)
  /\ overflow' = [overflow EXCEPT ![s] = TRUE]
  /\ IF target[s] = "stopped" THEN Killed(s, "KILL") ELSE UNCHANGED <<target, status>>
  /\ UNCHANGED <<serverVars, evaluator, inited, diff, report, holder, output, ran, seen>>

\* PTRACE_SYSCALL: the call is made.
TracerAllows(s) ==
  /\ Decides(s) /\ inited[s] /\ Allowed(s)
  /\ IF target[s] = "stopped" THEN Execute(s, status[s]) ELSE UNCHANGED targetVars
  /\ UNCHANGED <<serverVars, evaluator, inited, overflow, diff, report, holder>>

\* Whatever the exit status: the output is compared.
TracerSeesExit(s) ==
  /\ WIFEXITED(s)
  /\ ForkDiff(s)
  /\ UNCHANGED <<serverVars, waited, inited, overflow, report, holder, targetVars>>

\* Mutant: the tracer forgets that it killed the target itself.
SignalVerdict_NoOverflow(signal, over) ==
  CASE signal = "SEGV" -> "RE" [] signal = "PROF" -> "TLE"
    [] signal = "KILL" -> "MLE" [] OTHER -> "none"

\* Mutant: a kill without a known cause is written as code 0, UNKNOWN.
SignalVerdict_Unknown(signal, over) ==
  CASE signal = "SEGV" -> "RE" [] signal = "PROF" -> "TLE"
    [] signal = "KILL" /\ over -> "RE" [] OTHER -> "UNKNOWN"

\* The verdict of each signal; "none" where no branch writes one.
SignalVerdict(signal, over) ==
  CASE signal = "SEGV" -> "RE"
    [] signal = "PROF" -> "TLE"
    [] signal = "KILL" -> IF over THEN "RE" ELSE "MLE"
    [] OTHER -> "none"

TracerSeesDeath(s) ==
  /\ WIFSIGNALED(s)
  /\ LET verdict == SignalVerdict(status[s], overflow[s]) IN
       IF verdict = "none" THEN EvaluatorDies(s) /\ UNCHANGED <<report, holder>>
                           ELSE Conclude(s, verdict)
  /\ UNCHANGED <<serverVars, waited, inited, overflow, diff, targetVars>>

\* diff writes the differences, if both files are there to be compared.
DiffEnds(s) ==
  /\ diff[s] = "running"
  /\ \E worked \in Succeeds("diff") :
       diff' = [diff EXCEPT ![s] =
                  IF worked /\ output[s] = "wrong" THEN "differences" ELSE "nothing"]
  /\ UNCHANGED <<serverVars, evaluator, waited, inited, overflow, report, holder, targetVars>>

\* Mutant: the two sizes are taken for each other.
DiffVerdict_Swapped(wrote) == IF wrote = "nothing" THEN "WA" ELSE "AC"

\* Only the size of what diff wrote counts.
DiffVerdict(wrote) == IF wrote = "nothing" THEN "AC" ELSE "WA"

\* The callback of diff's watcher writes the verdict and breaks the loop.
DiffReaped(s) ==
  /\ evaluator[s] = "diffing" /\ diff[s] \in {"nothing", "differences"}
  /\ Conclude(s, DiffVerdict(diff[s]))
  /\ UNCHANGED <<serverVars, waited, inited, overflow, diff, targetVars>>
-----------------------------------------------------------------------------
ServerNext ==
  \/ \E s \in Session : JudgeCompiled(s) \/ JudgeInterpreted(s) \/ CompilerReaped(s)
  \/ StopServing \/ LoopEnds

TargetNext(s) ==
  \/ CompilerEnds(s) \/ TargetExecs(s) \/ TargetFaults(s) \/ TargetAborts(s)
  \/ (\E call \in Call : TargetCalls(s, call)) \/ TimerExpires(s) \/ OutOfMemory(s)
  \/ DiffEnds(s)

EvaluatorNext(s) ==
  \/ EvaluatorForks(s) \/ TracerWaits(s) \/ TracerTimesOut(s) \/ TracerReads(s)
  \/ TracerStarts(s) \/ TracerBans(s) \/ TracerAllows(s)
  \/ TracerSeesExit(s) \/ TracerSeesDeath(s) \/ DiffReaped(s)

Next == ServerNext \/ \E s \in Session : TargetNext(s) \/ EvaluatorNext(s)

Spec == Init /\ [][Next]_vars

\* The server's loop and every evaluator run; compilers and diff end; a
\* process that was forked gets as far as exec or abort.  Nothing is assumed
\* of the program but this: one that keeps running uses up its CPU time, and
\* neither disarms its timer nor blocks SIGPROF.
Fairness ==
  \A s \in Session :
    /\ WF_vars(CompilerReaped(s)) /\ WF_vars(EvaluatorNext(s))
    /\ WF_vars(CompilerEnds(s)) /\ WF_vars(DiffEnds(s))
    /\ WF_vars(TargetExecs(s)) /\ WF_vars(TargetAborts(s))
    /\ SF_vars(TimerExpires(s))

FairSpec == Spec /\ Fairness
-----------------------------------------------------------------------------
Submitted == {s \in Session : compiler[s] # "none" \/ evaluator[s] # "none"}

Service == INSTANCE JudgeService
  WITH up <- main = "up", submitted <- Submitted, verdict <- report

\* Every variable has its type.
TypeOK ==
  /\ main \in {"up", "exited", "crashed"}
  /\ serving \in BOOLEAN /\ watching \subseteq Compiled
  /\ compiler \in [Session -> {"none", "unforked", "running", "ok", "failed", "killed"}]
  /\ evaluator \in [Session -> {"none", "unforked", "forked", "tracing", "diffing",
                                "dead", "failed", "astray"}]
  /\ waited \in [Session -> Number \cup {"none", "PROF", "other", "nocall"}]
  /\ inited \in [Session -> BOOLEAN] /\ overflow \in [Session -> BOOLEAN]
  /\ diff \in [Session -> {"none", "unforked", "running", "nothing", "differences"}]
  /\ report \in [Session -> Service!Verdict \cup {"none"}]
  /\ holder \in [File -> Session \cup {"none"}]
  /\ target \in [Session -> {"none", "setup", "running", "aborting", "stopped",
                             "exited", "killed"}]
  /\ status \in [Session -> Call \cup Signal \cup {"none", "trap", "abort", "fault"}]
  /\ output \in [Session -> {"absent", "right", "wrong"}]
  /\ ran \in [Session -> SUBSET Call]
  /\ seen \in [Session -> SUBSET (Signal \cup {"fault", "banned", "timer", "oom"})]

\* The program's own doing that RE stands for: a fault, a signal it raised
\* that is not SIGPROF or SIGKILL, a call off its whitelist.
Misbehaved(s) == seen[s] \cap {"fault", "SEGV", "ABRT", "banned"} # {}

\* PTRACE_GETREGS on a target killed from outside leaves zeros, which name
\* the call `read`: without read on the list the tracer takes the kill for
\* its own.
MisreadKill(s) == "oom" \in seen[s] /\ Zero \notin Whitelist[s]

\* A verdict is about what happened: write_status is called by two processes
\* and along nine paths, and each verdict is only ever written after its
\* cause, whatever order signals, stops and callbacks come in.  A program can
\* bring about TLE and MLE by raising SIGPROF and SIGKILL itself.
VerdictSound ==
  \A s \in Session :
    /\ report[s] = "CE" => compiler[s] = "failed" /\ evaluator[s] = "none"
    /\ report[s] = "TLE" => seen[s] \cap {"timer", "PROF"} # {}
    /\ report[s] = "MLE" => seen[s] \cap {"oom", "KILL"} # {}
    /\ report[s] = "RE" => Misbehaved(s) \/ MisreadKill(s)
    /\ report[s] = "WA" => target[s] = "exited" /\ output[s] = "wrong"

\* AC is the output's doing: what diff and fork fail to do is not taken for
\* a correct answer.
AcceptedCorrect ==
  \A s \in Session : report[s] = "AC" => target[s] = "exited" /\ output[s] = "right"

Ended(s) == evaluator[s] \in {"dead", "failed"}

\* Every call that a program under the tracer makes has a number whose name
\* is on its whitelist; only one abandoned at its time limit can make others.
\* (What a number does when it is called through the 32-bit entry is another
\* matter: the tracer does not look at the entry.)
Confined ==
  Linux => \A s \in Session :
             \/ \A call \in ran[s] : OnList(s, call)
             \/ Ended(s) /\ seen[s] \cap {"timer", "PROF"} # {}

\* An evaluator leaves a live target behind only at SIGPROF: no other way out
\* of the tracer's loop lets a program go on without its tracer.
OrphanedOnlyByTimeout ==
  \A s \in Session :
    Ended(s) /\ Alive(s) => seen[s] \cap {"timer", "PROF"} # {} /\ target[s] = "running"

\* write_status is final: neither the server nor an evaluator writes a second
\* verdict for a submission, and what a report file holds is only replaced by
\* the first verdict of another submission that names the same file.
VerdictFinal ==
  [][\A s \in Session :
       report[s] # "none" =>
         /\ report'[s] = report[s]
         /\ holder'[Outfile[s]] # holder[Outfile[s]] =>
              \E other \in Session :
                /\ Outfile[other] = Outfile[s] /\ holder'[Outfile[s]] = other
                /\ report[other] = "none" /\ report'[other] # "none"]_vars

\* The server leaves its loop only when every submission it took has been
\* handed to an evaluator of its own, or reported, or lost in a failed fork:
\* none is left that only the server could go on with.
ExitLosesNothing ==
  main = "exited" =>
    \A s \in Submitted :
      \/ evaluator[s] \in {"forked", "tracing", "diffing", "dead", "failed", "astray"}
      \/ report[s] # "none"
      \/ evaluator[s] = "unforked" /\ "fork" \in Fault

\* Submissions go in and verdicts come out as the service promises.
ImplementsService == Service!Spec

\* No verdict will be written, for the report could not be opened.
Unwritten(s) ==
  \/ evaluator[s] \in {"failed", "astray"}
  \/ main = "crashed" /\ evaluator[s] = "none"

\* Every submission with a time limit gets its verdict, or meets a report
\* file that cannot be opened, in its own evaluator or, with CE, in the
\* server.
VerdictReached ==
  \A s \in Timed : s \in Submitted ~> report[s] # "none" \/ Unwritten(s)

\* A time limit that was reported ends the program, if not at once.
TimeLimitEnforced ==
  \A s \in Session : report[s] = "TLE" ~> target[s] \in {"killed", "exited"}
=============================================================================
