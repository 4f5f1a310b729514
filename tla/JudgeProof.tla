----------------------------- MODULE JudgeProof -----------------------------
(***************************************************************************)
(* The judging pipeline, for any set of submissions, any calls, numbers,   *)
(* whitelists and report files, on Linux and on Darwin, and for every      *)
(* combination of the environment's faults.  The inductive invariant IInv  *)
(* says how far each process of a submission can be while another one is   *)
(* where it is; the properties of Judge follow from it.                    *)
(***************************************************************************)
EXTENDS Judge, Submission, TLAPS

\* What the server knows of submission s, and what it has given away.
ServerStage(s) ==
  /\ s \notin Compiled => compiler[s] = "none"
  /\ s \in watching => compiler[s] # "none" /\ evaluator[s] = "none" /\ report[s] = "none"
  /\ s \in Compiled /\ evaluator[s] # "none" => compiler[s] \in {"ok", "killed"}
  /\ compiler[s] # "none" /\ s \notin watching /\ main # "crashed"
       => evaluator[s] # "none" \/ report[s] # "none"
  /\ compiler[s] \in {"unforked", "running"} => s \in watching
  /\ main = "exited" => s \notin watching
  /\ evaluator[s] = "unforked" => "fork" \in Fault

\* Where the target and diff can be at each stage of their evaluator.
EvaluatorStage(s) ==
  /\ evaluator[s] \in {"none", "unforked", "forked"}
       => target[s] = "none" /\ diff[s] = "none" /\ ~inited[s]
  /\ evaluator[s] \in {"unforked", "forked", "tracing", "diffing", "failed", "astray"}
       => report[s] = "none"
  /\ evaluator[s] = "tracing" => target[s] # "none" /\ diff[s] = "none"
  /\ evaluator[s] = "diffing" => target[s] \in {"none", "exited"}
  /\ evaluator[s] = "astray" => s \notin Compiled /\ "report" \in Fault
                                /\ target[s] \in {"none", "exited", "stopped", "killed"}
  /\ Ended(s) /\ Alive(s) => seen[s] \cap {"timer", "PROF"} # {} /\ target[s] = "running"
  /\ target[s] \in {"stopped", "aborting"} => Traced(s)
  /\ output[s] # "absent" <=> target[s] = "exited"
  /\ diff[s] = "running" => evaluator[s] = "diffing"
  /\ diff[s] = "differences" => output[s] = "wrong"

\* The tracer has read a number and not yet acted on it.
Read(s) == waited[s] \notin {"none", "PROF", "other"}

\* What the tracer has learnt of its target while that may be killed.
TracerStage(s) ==
  /\ waited[s] # "none" => evaluator[s] = "tracing" /\ target[s] \in {"stopped", "killed"}
  /\ waited[s] # "none" /\ target[s] = "killed" => "oom" \in seen[s]
  /\ waited[s] = "PROF" => seen[s] \cap {"timer", "PROF"} # {}
  /\ waited[s] \notin {"none", "PROF"} /\ target[s] = "stopped" => status[s] # "PROF"
  /\ Read(s) /\ target[s] = "stopped" /\ status[s] \in Call => waited[s] = OrigRax[status[s]]
  /\ Read(s) /\ target[s] = "stopped" /\ status[s] \notin Call => waited[s] = "nocall"
  /\ Read(s) /\ inited[s] /\ ~Allowed(s) => Misbehaved(s) \/ MisreadKill(s)
  /\ overflow[s] => Misbehaved(s) \/ MisreadKill(s)

\* What has brought about a stop of the target, from its first one on.
StopStory(s) ==
  /\ target[s] = "setup" => ~inited[s]
  /\ Traced(s) /\ target[s] \in {"running", "aborting"} => inited[s]
  /\ target[s] = "stopped" /\ ~inited[s] => status[s] \in {"trap", "abort"}
  /\ target[s] = "stopped" /\ inited[s] => status[s] # "trap"
  /\ target[s] = "stopped" /\ status[s] \notin Call \cup {"trap", "PROF"} => Misbehaved(s)
  /\ target[s] = "stopped" /\ status[s] \in Call => OnList(s, status[s]) \/ Misbehaved(s)
  /\ target[s] = "aborting" => Misbehaved(s)

\* What has happened to a target that died, and what it ran until then.
TargetStory(s) ==
  /\ target[s] \in {"stopped", "killed"} /\ status[s] = "PROF"
       => seen[s] \cap {"timer", "PROF"} # {}
  /\ target[s] = "killed" /\ status[s] = "SEGV" => Misbehaved(s)
  /\ target[s] = "killed" /\ status[s] = "KILL" => overflow[s] \/ seen[s] \cap {"oom", "KILL"} # {}
  /\ Linux => \/ \A call \in ran[s] : OnList(s, call)
              \/ Ended(s) /\ seen[s] \cap {"timer", "PROF"} # {}

\* What each verdict says (VerdictSound, for one submission), and who wrote it.
ReportSound(s) ==
  /\ evaluator[s] = "none" => report[s] \in {"none", "CE"}
  /\ report[s] = "CE" => compiler[s] = "failed" /\ evaluator[s] = "none"
  /\ report[s] = "TLE" => seen[s] \cap {"timer", "PROF"} # {}
  /\ report[s] = "MLE" => seen[s] \cap {"oom", "KILL"} # {}
  /\ report[s] = "RE" => Misbehaved(s) \/ MisreadKill(s)
  /\ report[s] = "WA" => target[s] = "exited" /\ output[s] = "wrong"

Inductive(s) ==
  /\ ServerStage(s) /\ EvaluatorStage(s) /\ TracerStage(s)
  /\ StopStory(s) /\ TargetStory(s) /\ ReportSound(s)

IInv == TypeOK /\ \A s \in Session : Inductive(s)

\* What a report file holds is the verdict of a submission that names it; a
\* file that was written to is not empty again.
FilesKept ==
  /\ \A f \in File : holder[f] # "none" => Outfile[holder[f]] = f /\ report[holder[f]] # "none"
  /\ \A s \in Session : report[s] # "none" => holder[Outfile[s]] # "none"

USE DEF Service!Verdict, Service!StatusCode

\* What write_status as an evaluator's last act comes to: a verdict and the
\* end, or an error, which ends it or is caught.
Concluded(s, verdict) ==
  /\ evaluator' = [evaluator EXCEPT ![s] = "dead"]
  /\ report' = [report EXCEPT ![s] = verdict] /\ holder' = [holder EXCEPT ![Outfile[s]] = s]
Erred(s) ==
  /\ "report" \in Fault /\ UNCHANGED <<report, holder>>
  /\ \/ evaluator' = [evaluator EXCEPT ![s] = "failed"]
     \/ evaluator' = [evaluator EXCEPT ![s] = "astray"] /\ s \notin Compiled

LEMMA Concludes ==
  ASSUME NEW s \in Session, NEW verdict, Conclude(s, verdict)
  PROVE  Concluded(s, verdict) \/ Erred(s)
<1>1. PICK opened \in Succeeds("report") :
        /\ WriteStatus(s, verdict, opened)
        /\ IF opened THEN EvaluatorDies(s) ELSE EvaluatorFails(s)
  BY DEF Conclude
<1>2. opened \in BOOLEAN /\ (opened = FALSE => "report" \in Fault)
  BY <1>1 DEF Succeeds
<1>3. CASE opened = TRUE
  BY <1>1, <1>3 DEF WriteStatus, EvaluatorDies, Concluded
<1>4. CASE opened = FALSE
  BY <1>1, <1>2, <1>4 DEF WriteStatus, EvaluatorFails, Erred
<1> QED  BY <1>2, <1>3, <1>4

LEMMA ForksEvaluator ==
  ASSUME NEW s \in Session, ForkEvaluator(s)
  PROVE  \/ evaluator' = [evaluator EXCEPT ![s] = "forked"]
         \/ evaluator' = [evaluator EXCEPT ![s] = "unforked"] /\ "fork" \in Fault
<1>1. PICK forked \in Succeeds("fork") :
        evaluator' = [evaluator EXCEPT ![s] = IF forked THEN "forked" ELSE "unforked"]
  BY DEF ForkEvaluator
<1>2. forked \in BOOLEAN /\ (forked = FALSE => "fork" \in Fault)
  BY <1>1 DEF Succeeds
<1>3. CASE forked = TRUE
  BY <1>1, <1>3
<1>4. CASE forked = FALSE
  BY <1>1, <1>2, <1>4
<1> QED  BY <1>2, <1>3, <1>4
-----------------------------------------------------------------------------
(***************************************************************************)
(* What one submission's processes do leaves the other submissions alone.  *)
(***************************************************************************)
Acts(s) ==
  \/ JudgeCompiled(s) \/ JudgeInterpreted(s) \/ CompilerReaped(s)
  \/ TargetNext(s) \/ EvaluatorNext(s)

LEMMA NextActs ==
  ASSUME Next PROVE StopServing \/ LoopEnds \/ \E s \in Session : Acts(s)
BY DEF Next, ServerNext, Acts

Untouched(s) ==
  /\ UNCHANGED <<compiler[s], evaluator[s], waited[s], inited[s], overflow[s], diff[s], report[s]>>
  /\ UNCHANGED <<target[s], status[s], output[s], ran[s], seen[s]>>
  /\ s \in watching <=> s \in watching'

\* How the server's process can be affected by a step.
MainMoves ==
  \/ main' = main
  \/ main = "up" /\ main' = "crashed"
  \/ main = "up" /\ main' = "exited" /\ watching = {}

LEMMA UntouchedKeeps ==
  ASSUME NEW s \in Session, Inductive(s), Untouched(s), MainMoves PROVE Inductive(s)'
<1>1. ServerStage(s)'
  BY DEF Inductive, ServerStage, Untouched, MainMoves
<1>2. EvaluatorStage(s)'
  BY DEF Inductive, EvaluatorStage, Untouched, Ended, Alive, Traced
<1>3. TracerStage(s)' /\ StopStory(s)' /\ TargetStory(s)'
  BY DEF Inductive, TracerStage, StopStory, TargetStory, Untouched, Read, Allowed, Misbehaved,
     MisreadKill, Ended, Traced, OnList
<1>4. ReportSound(s)'
  BY DEF Inductive, ReportSound, Untouched, Misbehaved, MisreadKill
<1> QED  BY <1>1, <1>2, <1>3, <1>4 DEF Inductive

LEMMA Frame ==
  ASSUME IInv, NEW s \in Session, Acts(s), NEW x \in Session, x # s
  PROVE  Untouched(x)
<1>1. CASE JudgeCompiled(s) \/ JudgeInterpreted(s)
  BY <1>1 DEF JudgeCompiled, JudgeInterpreted, ForkEvaluator, tracerVars, targetVars,
     serverVars, IInv, TypeOK, Untouched
<1>2. CASE CompilerReaped(s)
  BY <1>2 DEF CompilerReaped, ForkEvaluator, WriteStatus, targetVars, IInv, TypeOK, Untouched
<1>3. CASE CompilerEnds(s) \/ DiffEnds(s) \/ TimerExpires(s) \/ OutOfMemory(s)
  BY <1>3 DEF CompilerEnds, DiffEnds, TimerExpires, OutOfMemory, Stops, Killed, Saw,
     tracerVars, targetVars, serverVars, IInv, TypeOK, Untouched
<1>4. CASE TargetExecs(s) \/ TargetFaults(s) \/ TargetAborts(s)
  BY <1>4 DEF TargetExecs, TargetFaults, TargetAborts, Stops, Killed, Saw,
     tracerVars, serverVars, IInv, TypeOK, Untouched
<1>5. ASSUME NEW call \in Call, TargetCalls(s, call) PROVE Untouched(x)
  BY <1>5 DEF TargetCalls, Stops, Killed, Saw, Raise, Execute, tracerVars, serverVars, IInv,
     TypeOK, Untouched
<1>6. CASE TargetNext(s)
  BY <1>3, <1>4, <1>5, <1>6 DEF TargetNext
<1>7. CASE EvaluatorForks(s) \/ TracerWaits(s) \/ TracerReads(s) \/ TracerStarts(s) \/ TracerBans(s)
  BY <1>7 DEF EvaluatorForks, ForkDiff, TracerWaits, TracerReads, TracerStarts, TracerBans,
     Decides, Resumes, Killed, serverVars, targetVars, IInv, TypeOK, Untouched
<1>8. CASE TracerAllows(s) \/ TracerSeesExit(s)
  BY <1>8 DEF TracerAllows, TracerSeesExit, ForkDiff, Decides, Execute, Raise, Stops, Killed, Saw,
     serverVars, targetVars, IInv, TypeOK, Untouched
<1>9. CASE TracerTimesOut(s) \/ TracerSeesDeath(s) \/ DiffReaped(s)
  <2>1. ASSUME NEW verdict, Conclude(s, verdict)
        PROVE  UNCHANGED <<evaluator[x], report[x]>>
    BY <2>1, Concludes DEF Concluded, Erred, IInv, TypeOK
  <2>2. UNCHANGED <<evaluator[x], report[x], target[x]>>
    BY <1>9, <2>1 DEF TracerTimesOut, TracerSeesDeath, DiffReaped, Resumes, EvaluatorDies,
       targetVars, IInv, TypeOK
  <2> QED
    BY <1>9, <2>2 DEF TracerTimesOut, TracerSeesDeath, DiffReaped, serverVars, targetVars,
       IInv, TypeOK, Untouched
<1>10. CASE EvaluatorNext(s)
  BY <1>7, <1>8, <1>9, <1>10 DEF EvaluatorNext
<1> QED  BY <1>1, <1>2, <1>6, <1>10 DEF Acts

-----------------------------------------------------------------------------
(***************************************************************************)
(* What each step leaves of its own submission.                            *)
(***************************************************************************)
LEMMA JudgeCompiledKeeps ==
  ASSUME IInv, NEW s \in Session, JudgeCompiled(s) PROVE TypeOK' /\ Inductive(s)'
<1>1. TypeOK'
  BY JudgeAssumption DEF JudgeCompiled, Succeeds, tracerVars, targetVars, IInv, TypeOK
<1>2. ServerStage(s)' /\ EvaluatorStage(s)'
  BY JudgeAssumption DEF JudgeCompiled, Succeeds, tracerVars, targetVars, IInv, TypeOK,
     Inductive, ServerStage, EvaluatorStage, TracerStage, TargetStory, StopStory,
     ReportSound, Ended, Alive, Traced
<1>3. TracerStage(s)'
  BY JudgeAssumption DEF JudgeCompiled, Succeeds, tracerVars, targetVars, IInv, TypeOK,
     Inductive, EvaluatorStage, TracerStage, StopStory, TargetStory, Read, Allowed,
     SyscallName, Traced, OnList, Misbehaved, MisreadKill
<1>4. StopStory(s)'
  BY JudgeAssumption DEF JudgeCompiled, Succeeds, tracerVars, targetVars, IInv, TypeOK,
     Inductive, EvaluatorStage, TracerStage, StopStory, Traced, OnList, Misbehaved
<1>5. TargetStory(s)'
  BY JudgeAssumption DEF JudgeCompiled, Succeeds, tracerVars, targetVars, IInv, TypeOK,
     Inductive, EvaluatorStage, TracerStage, TargetStory, Ended, Traced, OnList, Misbehaved
<1>6. ReportSound(s)'
  BY JudgeAssumption DEF JudgeCompiled, Succeeds, tracerVars, targetVars, IInv, TypeOK,
     Inductive, ServerStage, EvaluatorStage, TargetStory, ReportSound, Misbehaved,
     MisreadKill
<1> QED  BY <1>1, <1>2, <1>3, <1>4, <1>5, <1>6 DEF Inductive

LEMMA JudgeInterpretedKeeps ==
  ASSUME IInv, NEW s \in Session, JudgeInterpreted(s) PROVE TypeOK' /\ Inductive(s)'
<1>0. /\ evaluator[s] = "none" /\ evaluator'[s] \in {"forked", "unforked"} /\ s \notin Compiled
      /\ evaluator'[s] = "unforked" => "fork" \in Fault
      /\ UNCHANGED <<serverVars, inited, diff, report, targetVars>>
  BY ForksEvaluator DEF JudgeInterpreted, IInv, TypeOK
<1>1. TypeOK'
  BY JudgeAssumption DEF JudgeInterpreted, ForkEvaluator, Succeeds, serverVars,
     targetVars, IInv, TypeOK
<1>2. ServerStage(s)' /\ EvaluatorStage(s)'
  BY <1>0 DEF serverVars, targetVars, IInv, TypeOK, Inductive, ServerStage, EvaluatorStage,
     ReportSound, Ended, Alive, Traced
<1>3. TracerStage(s)'
  BY JudgeAssumption DEF JudgeInterpreted, ForkEvaluator, Succeeds, serverVars,
     targetVars, IInv, TypeOK, Inductive, EvaluatorStage, TracerStage, StopStory,
     TargetStory, Read, Allowed, SyscallName, Traced, OnList, Misbehaved, MisreadKill
<1>4. StopStory(s)'
  BY JudgeAssumption DEF JudgeInterpreted, ForkEvaluator, Succeeds, serverVars,
     targetVars, IInv, TypeOK, Inductive, EvaluatorStage, TracerStage, StopStory, Traced,
     OnList, Misbehaved
<1>5. TargetStory(s)'
  BY JudgeAssumption DEF JudgeInterpreted, ForkEvaluator, Succeeds, serverVars,
     targetVars, IInv, TypeOK, Inductive, EvaluatorStage, TracerStage, TargetStory, Ended,
     Traced, OnList, Misbehaved
<1>6. ReportSound(s)'
  BY JudgeAssumption DEF JudgeInterpreted, ForkEvaluator, Succeeds, serverVars,
     targetVars, IInv, TypeOK, Inductive, ServerStage, EvaluatorStage, TargetStory,
     ReportSound, Misbehaved, MisreadKill
<1> QED  BY <1>1, <1>2, <1>3, <1>4, <1>5, <1>6 DEF Inductive

LEMMA CompilerEndsKeeps ==
  ASSUME IInv, NEW s \in Session, CompilerEnds(s) PROVE TypeOK' /\ Inductive(s)'
<1>1. TypeOK'
  BY JudgeAssumption DEF CompilerEnds, tracerVars, targetVars, IInv, TypeOK
<1>2. ServerStage(s)' /\ EvaluatorStage(s)'
  BY JudgeAssumption DEF CompilerEnds, tracerVars, targetVars, IInv, TypeOK, Inductive,
     ServerStage, EvaluatorStage, TracerStage, TargetStory, StopStory, ReportSound, Ended,
     Alive, Traced
<1>3. TracerStage(s)'
  BY JudgeAssumption DEF CompilerEnds, tracerVars, targetVars, IInv, TypeOK, Inductive,
     EvaluatorStage, TracerStage, StopStory, TargetStory, Read, Allowed, SyscallName, Traced,
     OnList, Misbehaved, MisreadKill
<1>4. StopStory(s)'
  BY JudgeAssumption DEF CompilerEnds, tracerVars, targetVars, IInv, TypeOK, Inductive,
     EvaluatorStage, TracerStage, StopStory, Traced, OnList, Misbehaved
<1>5. TargetStory(s)'
  BY JudgeAssumption DEF CompilerEnds, tracerVars, targetVars, IInv, TypeOK, Inductive,
     EvaluatorStage, TracerStage, TargetStory, Ended, Traced, OnList, Misbehaved
<1>6. ReportSound(s)'
  BY JudgeAssumption DEF CompilerEnds, tracerVars, targetVars, IInv, TypeOK, Inductive,
     ServerStage, EvaluatorStage, TargetStory, ReportSound, Misbehaved, MisreadKill
<1> QED  BY <1>1, <1>2, <1>3, <1>4, <1>5, <1>6 DEF Inductive

LEMMA TargetExecsKeeps ==
  ASSUME IInv, NEW s \in Session, TargetExecs(s) PROVE TypeOK' /\ Inductive(s)'
<1>0. /\ target[s] = "setup" /\ UNCHANGED inited[s]
      /\ \/ target'[s] = "stopped" /\ status'[s] \in {"trap", "abort"} /\ ~inited[s]
         \/ target'[s] \in {"running", "killed"} /\ ~Traced(s)
  BY DEF TargetExecs, Stops, Killed, serverVars, tracerVars, IInv, TypeOK, Inductive, StopStory
<1>1. TypeOK'
  BY JudgeAssumption DEF TargetExecs, Stops, Killed, Saw, serverVars, tracerVars, Signal,
     IInv, TypeOK
<1>2. ServerStage(s)' /\ EvaluatorStage(s)'
  BY JudgeAssumption DEF TargetExecs, Stops, Killed, Saw, serverVars, tracerVars, Signal,
     IInv, TypeOK, Inductive, ServerStage, EvaluatorStage, TracerStage, TargetStory,
     StopStory, ReportSound, Ended, Alive, Traced
<1>3. TracerStage(s)'
  BY JudgeAssumption DEF TargetExecs, Stops, Killed, Saw, serverVars, tracerVars, Signal,
     IInv, TypeOK, Inductive, EvaluatorStage, TracerStage, StopStory, TargetStory, Read,
     Allowed, SyscallName, Traced, OnList, Misbehaved, MisreadKill
<1>4. StopStory(s)'
  <2>1. Traced(s)' <=> Traced(s)
    BY DEF TargetExecs, tracerVars, Traced
  <2>2. status'[s] = "abort" /\ target'[s] = "stopped" => "fault" \in seen'[s]
    BY DEF TargetExecs, Stops, Killed, Saw, tracerVars, IInv, TypeOK
  <2> QED  BY <1>0, <2>1, <2>2, JudgeAssumption DEF StopStory, Misbehaved
<1>5. TargetStory(s)'
  BY JudgeAssumption DEF TargetExecs, Stops, Killed, Saw, serverVars, tracerVars, Signal,
     IInv, TypeOK, Inductive, EvaluatorStage, TracerStage, TargetStory, Ended, Traced,
     OnList, Misbehaved
<1>6. ReportSound(s)'
  BY JudgeAssumption DEF TargetExecs, Stops, Killed, Saw, serverVars, tracerVars, Signal,
     IInv, TypeOK, Inductive, ServerStage, EvaluatorStage, TargetStory, ReportSound,
     Misbehaved, MisreadKill
<1> QED  BY <1>1, <1>2, <1>3, <1>4, <1>5, <1>6 DEF Inductive

LEMMA TargetFaultsKeeps ==
  ASSUME IInv, NEW s \in Session, TargetFaults(s) PROVE TypeOK' /\ Inductive(s)'
<1>0. /\ target[s] = "running" /\ "fault" \in seen'[s] /\ seen[s] \subseteq seen'[s]
      /\ UNCHANGED <<serverVars, tracerVars, output, ran>>
      /\ \/ target'[s] = "stopped" /\ status'[s] = "fault" /\ Traced(s)
         \/ target'[s] = "killed" /\ status'[s] \in {"SEGV", "ABRT"} /\ ~Traced(s)
  <2>1. seen' = [seen EXCEPT ![s] = @ \cup {"fault"}]
    BY DEF TargetFaults, Saw
  <2> QED  BY <2>1 DEF TargetFaults, Stops, Killed, IInv, TypeOK
<1>1. TypeOK'
  BY JudgeAssumption DEF TargetFaults, Stops, Killed, Saw, serverVars, tracerVars, Signal,
     IInv, TypeOK
<1>2. ServerStage(s)' /\ EvaluatorStage(s)'
  BY JudgeAssumption DEF TargetFaults, Stops, Killed, Saw, serverVars, tracerVars, Signal,
     IInv, TypeOK, Inductive, ServerStage, EvaluatorStage, TracerStage, TargetStory,
     StopStory, ReportSound, Ended, Alive, Traced
<1>3. TracerStage(s)'
  BY JudgeAssumption DEF TargetFaults, Stops, Killed, Saw, serverVars, tracerVars, Signal,
     IInv, TypeOK, Inductive, EvaluatorStage, TracerStage, StopStory, TargetStory, Read,
     Allowed, SyscallName, Traced, OnList, Misbehaved, MisreadKill
<1>4. StopStory(s)'
  BY <1>0, JudgeAssumption DEF tracerVars, IInv, Inductive, StopStory, Traced, Misbehaved
<1>5. TargetStory(s)'
  BY <1>0 DEF tracerVars, IInv, Inductive, TargetStory, Traced, Ended, OnList, Misbehaved
<1>6. ReportSound(s)'
  BY JudgeAssumption DEF TargetFaults, Stops, Killed, Saw, serverVars, tracerVars, Signal,
     IInv, TypeOK, Inductive, ServerStage, EvaluatorStage, TargetStory, ReportSound,
     Misbehaved, MisreadKill
<1> QED  BY <1>1, <1>2, <1>3, <1>4, <1>5, <1>6 DEF Inductive

LEMMA TargetAbortsKeeps ==
  ASSUME IInv, NEW s \in Session, TargetAborts(s) PROVE TypeOK' /\ Inductive(s)'
<1>1. TypeOK'
  BY JudgeAssumption DEF TargetAborts, Stops, serverVars, tracerVars, IInv, TypeOK
<1>2. ServerStage(s)' /\ EvaluatorStage(s)'
  BY JudgeAssumption DEF TargetAborts, Stops, serverVars, tracerVars, IInv, TypeOK,
     Inductive, ServerStage, EvaluatorStage, TracerStage, TargetStory, StopStory,
     ReportSound, Ended, Alive, Traced
<1>3. TracerStage(s)'
  BY JudgeAssumption DEF TargetAborts, Stops, serverVars, tracerVars, IInv, TypeOK,
     Inductive, EvaluatorStage, TracerStage, StopStory, TargetStory, Read, Allowed,
     SyscallName, Traced, OnList, Misbehaved, MisreadKill
<1>4. StopStory(s)'
  BY JudgeAssumption DEF TargetAborts, Stops, serverVars, tracerVars, IInv, TypeOK,
     Inductive, EvaluatorStage, TracerStage, StopStory, Traced, OnList, Misbehaved
<1>5. TargetStory(s)'
  BY JudgeAssumption DEF TargetAborts, Stops, serverVars, tracerVars, IInv, TypeOK,
     Inductive, EvaluatorStage, TracerStage, TargetStory, Ended, Traced, OnList, Misbehaved
<1>6. ReportSound(s)'
  BY JudgeAssumption DEF TargetAborts, Stops, serverVars, tracerVars, IInv, TypeOK,
     Inductive, ServerStage, EvaluatorStage, TargetStory, ReportSound, Misbehaved,
     MisreadKill
<1> QED  BY <1>1, <1>2, <1>3, <1>4, <1>5, <1>6 DEF Inductive

LEMMA TimerExpiresKeeps ==
  ASSUME IInv, NEW s \in Session, TimerExpires(s) PROVE TypeOK' /\ Inductive(s)'
<1>1. TypeOK'
  BY JudgeAssumption DEF TimerExpires, Stops, Killed, Saw, serverVars, tracerVars, Signal,
     IInv, TypeOK
<1>2. ServerStage(s)' /\ EvaluatorStage(s)'
  BY JudgeAssumption DEF TimerExpires, Stops, Killed, Saw, serverVars, tracerVars, Signal,
     IInv, TypeOK, Inductive, ServerStage, EvaluatorStage, TracerStage, TargetStory,
     StopStory, ReportSound, Ended, Alive, Traced
<1>3. TracerStage(s)'
  BY JudgeAssumption DEF TimerExpires, Stops, Killed, Saw, serverVars, tracerVars, Signal,
     IInv, TypeOK, Inductive, EvaluatorStage, TracerStage, StopStory, TargetStory, Read,
     Allowed, SyscallName, Traced, OnList, Misbehaved, MisreadKill
<1>4. StopStory(s)'
  BY JudgeAssumption DEF TimerExpires, Stops, Killed, Saw, serverVars, tracerVars, Signal,
     IInv, TypeOK, Inductive, EvaluatorStage, TracerStage, StopStory, Traced, OnList,
     Misbehaved
<1>5. TargetStory(s)'
  BY JudgeAssumption DEF TimerExpires, Stops, Killed, Saw, serverVars, tracerVars, Signal,
     IInv, TypeOK, Inductive, EvaluatorStage, TracerStage, TargetStory, Ended, Traced,
     OnList, Misbehaved
<1>6. ReportSound(s)'
  BY JudgeAssumption DEF TimerExpires, Stops, Killed, Saw, serverVars, tracerVars, Signal,
     IInv, TypeOK, Inductive, ServerStage, EvaluatorStage, TargetStory, ReportSound,
     Misbehaved, MisreadKill
<1> QED  BY <1>1, <1>2, <1>3, <1>4, <1>5, <1>6 DEF Inductive

LEMMA OutOfMemoryKeeps ==
  ASSUME IInv, NEW s \in Session, OutOfMemory(s) PROVE TypeOK' /\ Inductive(s)'
<1>1. TypeOK'
  BY JudgeAssumption DEF OutOfMemory, Killed, Saw, Alive, serverVars, tracerVars, Signal,
     IInv, TypeOK
<1>2. ServerStage(s)' /\ EvaluatorStage(s)'
  BY JudgeAssumption DEF OutOfMemory, Killed, Saw, Alive, serverVars, tracerVars, Signal,
     IInv, TypeOK, Inductive, ServerStage, EvaluatorStage, TracerStage, TargetStory,
     StopStory, ReportSound, Ended, Alive, Traced
<1>3. TracerStage(s)'
  BY JudgeAssumption DEF OutOfMemory, Killed, Saw, Alive, serverVars, tracerVars, Signal,
     IInv, TypeOK, Inductive, EvaluatorStage, TracerStage, StopStory, TargetStory, Read,
     Allowed, SyscallName, Traced, OnList, Misbehaved, MisreadKill
<1>4. StopStory(s)'
  BY JudgeAssumption DEF OutOfMemory, Killed, Saw, Alive, serverVars, tracerVars, Signal,
     IInv, TypeOK, Inductive, EvaluatorStage, TracerStage, StopStory, Traced, OnList,
     Misbehaved
<1>5. TargetStory(s)'
  BY JudgeAssumption DEF OutOfMemory, Killed, Saw, Alive, serverVars, tracerVars, Signal,
     IInv, TypeOK, Inductive, EvaluatorStage, TracerStage, TargetStory, Ended, Traced,
     OnList, Misbehaved
<1>6. ReportSound(s)'
  BY JudgeAssumption DEF OutOfMemory, Killed, Saw, Alive, serverVars, tracerVars, Signal,
     IInv, TypeOK, Inductive, ServerStage, EvaluatorStage, TargetStory, ReportSound,
     Misbehaved, MisreadKill
<1> QED  BY <1>1, <1>2, <1>3, <1>4, <1>5, <1>6 DEF Inductive

LEMMA DiffEndsKeeps ==
  ASSUME IInv, NEW s \in Session, DiffEnds(s) PROVE TypeOK' /\ Inductive(s)'
<1>1. TypeOK'
  BY JudgeAssumption DEF DiffEnds, serverVars, targetVars, IInv, TypeOK
<1>2. ServerStage(s)' /\ EvaluatorStage(s)'
  BY JudgeAssumption DEF DiffEnds, serverVars, targetVars, IInv, TypeOK, Inductive,
     ServerStage, EvaluatorStage, TracerStage, TargetStory, StopStory, ReportSound, Ended,
     Alive, Traced
<1>3. TracerStage(s)'
  BY JudgeAssumption DEF DiffEnds, serverVars, targetVars, IInv, TypeOK, Inductive,
     EvaluatorStage, TracerStage, StopStory, TargetStory, Read, Allowed, SyscallName, Traced,
     OnList, Misbehaved, MisreadKill
<1>4. StopStory(s)'
  BY JudgeAssumption DEF DiffEnds, serverVars, targetVars, IInv, TypeOK, Inductive,
     EvaluatorStage, TracerStage, StopStory, Traced, OnList, Misbehaved
<1>5. TargetStory(s)'
  BY JudgeAssumption DEF DiffEnds, serverVars, targetVars, IInv, TypeOK, Inductive,
     EvaluatorStage, TracerStage, TargetStory, Ended, Traced, OnList, Misbehaved
<1>6. ReportSound(s)'
  BY JudgeAssumption DEF DiffEnds, serverVars, targetVars, IInv, TypeOK, Inductive,
     ServerStage, EvaluatorStage, TargetStory, ReportSound, Misbehaved, MisreadKill
<1> QED  BY <1>1, <1>2, <1>3, <1>4, <1>5, <1>6 DEF Inductive

LEMMA TracerWaitsKeeps ==
  ASSUME IInv, NEW s \in Session, TracerWaits(s) PROVE TypeOK' /\ Inductive(s)'
<1>1. TypeOK'
  BY JudgeAssumption DEF TracerWaits, WIFSTOPPED, Waited, serverVars, targetVars, IInv,
     TypeOK
<1>2. ServerStage(s)' /\ EvaluatorStage(s)'
  BY JudgeAssumption DEF TracerWaits, WIFSTOPPED, Waited, serverVars, targetVars, IInv,
     TypeOK, Inductive, ServerStage, EvaluatorStage, TracerStage, TargetStory, StopStory,
     ReportSound, Ended, Alive, Traced
<1>3. TracerStage(s)'
  BY JudgeAssumption DEF TracerWaits, WIFSTOPPED, Waited, serverVars, targetVars, IInv,
     TypeOK, Inductive, EvaluatorStage, TracerStage, StopStory, TargetStory, Read, Allowed,
     SyscallName, Traced, OnList, Misbehaved, MisreadKill
<1>4. StopStory(s)'
  BY JudgeAssumption DEF TracerWaits, WIFSTOPPED, Waited, serverVars, targetVars, IInv,
     TypeOK, Inductive, EvaluatorStage, TracerStage, StopStory, Traced, OnList, Misbehaved,
     Read
<1>5. TargetStory(s)'
  BY JudgeAssumption DEF TracerWaits, WIFSTOPPED, Waited, serverVars, targetVars, IInv,
     TypeOK, Inductive, EvaluatorStage, TracerStage, TargetStory, Ended, Traced, OnList,
     Misbehaved
<1>6. ReportSound(s)'
  BY JudgeAssumption DEF TracerWaits, WIFSTOPPED, Waited, serverVars, targetVars, IInv,
     TypeOK, Inductive, ServerStage, EvaluatorStage, TargetStory, ReportSound, Misbehaved,
     MisreadKill
<1> QED  BY <1>1, <1>2, <1>3, <1>4, <1>5, <1>6 DEF Inductive

LEMMA TracerReadsKeeps ==
  ASSUME IInv, NEW s \in Session, TracerReads(s) PROVE TypeOK' /\ Inductive(s)'
<1>1. TypeOK'
  BY JudgeAssumption DEF TracerReads, Zero, serverVars, targetVars, IInv, TypeOK
<1>2. ServerStage(s)' /\ EvaluatorStage(s)'
  BY JudgeAssumption DEF TracerReads, Zero, serverVars, targetVars, IInv, TypeOK,
     Inductive, ServerStage, EvaluatorStage, TracerStage, TargetStory, StopStory,
     ReportSound, Ended, Alive, Traced
<1>3. TracerStage(s)'
  BY JudgeAssumption DEF TracerReads, Zero, serverVars, targetVars, IInv, TypeOK,
     Inductive, EvaluatorStage, TracerStage, StopStory, TargetStory, Read, Allowed,
     SyscallName, Traced, OnList, Misbehaved, MisreadKill
<1>4. StopStory(s)'
  BY JudgeAssumption DEF TracerReads, Zero, serverVars, targetVars, IInv, TypeOK,
     Inductive, EvaluatorStage, TracerStage, StopStory, Traced, OnList, Misbehaved, Read
<1>5. TargetStory(s)'
  BY JudgeAssumption DEF TracerReads, Zero, serverVars, targetVars, IInv, TypeOK,
     Inductive, EvaluatorStage, TracerStage, TargetStory, Ended, Traced, OnList, Misbehaved
<1>6. ReportSound(s)'
  BY JudgeAssumption DEF TracerReads, Zero, serverVars, targetVars, IInv, TypeOK,
     Inductive, ServerStage, EvaluatorStage, TargetStory, ReportSound, Misbehaved,
     MisreadKill
<1> QED  BY <1>1, <1>2, <1>3, <1>4, <1>5, <1>6 DEF Inductive

LEMMA TracerStartsKeeps ==
  ASSUME IInv, NEW s \in Session, TracerStarts(s) PROVE TypeOK' /\ Inductive(s)'
<1>1. TypeOK'
  BY JudgeAssumption DEF TracerStarts, Decides, Resumes, serverVars, IInv, TypeOK
<1>2. ServerStage(s)' /\ EvaluatorStage(s)'
  BY JudgeAssumption DEF TracerStarts, Decides, Resumes, serverVars, IInv, TypeOK,
     Inductive, ServerStage, EvaluatorStage, TracerStage, TargetStory, StopStory,
     ReportSound, Ended, Alive, Traced
<1>3. TracerStage(s)'
  BY JudgeAssumption DEF TracerStarts, Decides, Resumes, serverVars, IInv, TypeOK,
     Inductive, EvaluatorStage, TracerStage, StopStory, TargetStory, Read, Allowed,
     SyscallName, Traced, OnList, Misbehaved, MisreadKill
<1>4. StopStory(s)'
  BY JudgeAssumption DEF TracerStarts, Decides, Resumes, serverVars, IInv, TypeOK,
     Inductive, EvaluatorStage, TracerStage, StopStory, Traced, OnList, Misbehaved, Read
<1>5. TargetStory(s)'
  BY JudgeAssumption DEF TracerStarts, Decides, Resumes, serverVars, IInv, TypeOK,
     Inductive, EvaluatorStage, TracerStage, TargetStory, Ended, Traced, OnList, Misbehaved
<1>6. ReportSound(s)'
  BY JudgeAssumption DEF TracerStarts, Decides, Resumes, serverVars, IInv, TypeOK,
     Inductive, ServerStage, EvaluatorStage, TargetStory, ReportSound, Misbehaved,
     MisreadKill
<1> QED  BY <1>1, <1>2, <1>3, <1>4, <1>5, <1>6 DEF Inductive

LEMMA TracerBansKeeps ==
  ASSUME IInv, NEW s \in Session, TracerBans(s) PROVE TypeOK' /\ Inductive(s)'
<1>1. TypeOK'
  BY JudgeAssumption DEF TracerBans, Decides, Killed, serverVars, Signal, IInv, TypeOK
<1>2. ServerStage(s)' /\ EvaluatorStage(s)'
  BY JudgeAssumption DEF TracerBans, Decides, Killed, serverVars, Signal, IInv, TypeOK,
     Inductive, ServerStage, EvaluatorStage, TracerStage, TargetStory, StopStory,
     ReportSound, Ended, Alive, Traced
<1>3. TracerStage(s)'
  BY JudgeAssumption DEF TracerBans, Decides, Killed, serverVars, Signal, IInv, TypeOK,
     Inductive, EvaluatorStage, TracerStage, StopStory, TargetStory, Read, Allowed,
     SyscallName, Traced, OnList, Misbehaved, MisreadKill
<1>4. StopStory(s)'
  BY JudgeAssumption DEF TracerBans, Decides, Killed, serverVars, Signal, IInv, TypeOK,
     Inductive, EvaluatorStage, TracerStage, StopStory, Traced, OnList, Misbehaved, Read
<1>5. TargetStory(s)'
  BY JudgeAssumption DEF TracerBans, Decides, Killed, serverVars, Signal, IInv, TypeOK,
     Inductive, EvaluatorStage, TracerStage, TargetStory, Ended, Traced, OnList, Misbehaved
<1>6. ReportSound(s)'
  BY JudgeAssumption DEF TracerBans, Decides, Killed, serverVars, Signal, IInv, TypeOK,
     Inductive, ServerStage, EvaluatorStage, TargetStory, ReportSound, Misbehaved,
     MisreadKill
<1> QED  BY <1>1, <1>2, <1>3, <1>4, <1>5, <1>6 DEF Inductive

LEMMA TracerSeesExitKeeps ==
  ASSUME IInv, NEW s \in Session, TracerSeesExit(s) PROVE TypeOK' /\ Inductive(s)'
<1>1. TypeOK'
  BY JudgeAssumption DEF TracerSeesExit, WIFEXITED, Waited, ForkDiff, serverVars,
     targetVars, IInv, TypeOK
<1>2. ServerStage(s)' /\ EvaluatorStage(s)'
  BY JudgeAssumption DEF TracerSeesExit, WIFEXITED, Waited, ForkDiff, serverVars,
     targetVars, IInv, TypeOK, Inductive, ServerStage, EvaluatorStage, TracerStage,
     TargetStory, StopStory, ReportSound, Ended, Alive, Traced
<1>3. TracerStage(s)'
  BY JudgeAssumption DEF TracerSeesExit, WIFEXITED, Waited, ForkDiff, serverVars,
     targetVars, IInv, TypeOK, Inductive, EvaluatorStage, TracerStage, StopStory,
     TargetStory, Read, Allowed, SyscallName, Traced, OnList, Misbehaved, MisreadKill
<1>4. StopStory(s)'
  BY JudgeAssumption DEF TracerSeesExit, WIFEXITED, Waited, ForkDiff, serverVars,
     targetVars, IInv, TypeOK, Inductive, EvaluatorStage, TracerStage, StopStory, Traced,
     OnList, Misbehaved, Read
<1>5. TargetStory(s)'
  BY JudgeAssumption DEF TracerSeesExit, WIFEXITED, Waited, ForkDiff, serverVars,
     targetVars, IInv, TypeOK, Inductive, EvaluatorStage, TracerStage, TargetStory, Ended,
     Traced, OnList, Misbehaved
<1>6. ReportSound(s)'
  BY JudgeAssumption DEF TracerSeesExit, WIFEXITED, Waited, ForkDiff, serverVars,
     targetVars, IInv, TypeOK, Inductive, ServerStage, EvaluatorStage, TargetStory,
     ReportSound, Misbehaved, MisreadKill
<1> QED  BY <1>1, <1>2, <1>3, <1>4, <1>5, <1>6 DEF Inductive

\* What a call does to the program that makes it.
Effects(s, call) ==
  /\ ran'[s] = ran[s] \cup {call} /\ seen[s] \subseteq seen'[s]
  /\ \/ /\ call = "exit_group" /\ target'[s] = "exited" /\ output'[s] \in {"right", "wrong"}
        /\ UNCHANGED <<status[s], seen[s]>>
     \/ target'[s] = "running" /\ UNCHANGED <<output[s], status[s], seen[s]>>
     \/ /\ UNCHANGED output[s] /\ Traced(s) /\ target'[s] = "stopped"
        /\ \/ status'[s] = "PROF" /\ "PROF" \in seen'[s]
           \/ status'[s] = "fault" /\ Misbehaved(s)'
     \/ /\ UNCHANGED output[s] /\ target'[s] = "killed"
        /\ status'[s] \in Signal /\ status'[s] \in seen'[s]

\* What it leaves alone, and the types it keeps.
Kept(s) ==
  /\ target' \in [Session -> {"none", "setup", "running", "aborting", "stopped",
                              "exited", "killed"}]
  /\ status' \in [Session -> Call \cup Signal \cup {"none", "trap", "abort", "fault"}]
  /\ output' \in [Session -> {"absent", "right", "wrong"}]
  /\ ran' \in [Session -> SUBSET Call]
  /\ seen' \in [Session -> SUBSET (Signal \cup {"fault", "banned", "timer", "oom"})]

LEMMA Executes ==
  ASSUME TypeOK, NEW s \in Session, NEW call \in Call, Execute(s, call)
  PROVE  Effects(s, call) /\ Kept(s)
<1>1. ran' = [ran EXCEPT ![s] = @ \cup {call}]
  BY DEF Execute
<1>2. CASE /\ call = "exit_group" /\ target' = [target EXCEPT ![s] = "exited"]
           /\ \E o \in {"right", "wrong"} : output' = [output EXCEPT ![s] = o]
           /\ UNCHANGED <<status, seen>>
  BY <1>1, <1>2 DEF TypeOK, Effects, Kept
<1>3. CASE target' = [target EXCEPT ![s] = "running"] /\ UNCHANGED <<status, output, seen>>
  BY <1>1, <1>3 DEF TypeOK, Effects, Kept
<1>4. CASE Raise(s) /\ UNCHANGED output
  <2>1. PICK signal \in Signal :
          /\ seen' = [seen EXCEPT ![s] = @ \cup {signal}]
          /\ IF Traced(s) /\ signal # "KILL"
             THEN Stops(s, IF signal = "PROF" THEN "PROF" ELSE "fault")
             ELSE Killed(s, signal)
    BY <1>4 DEF Raise, Saw
  <2>2. CASE Traced(s) /\ signal # "KILL"
    <3>1. Stops(s, IF signal = "PROF" THEN "PROF" ELSE "fault")
      BY <2>1, <2>2
    <3>2. signal = "PROF" \/ signal \in {"SEGV", "ABRT"}
      BY <2>1, <2>2 DEF Signal
    <3>3. signal \in seen'[s] /\ seen[s] \subseteq seen'[s]
      BY <2>1 DEF TypeOK
    <3>4. signal \in {"SEGV", "ABRT"} => Misbehaved(s)'
      BY <3>3 DEF Misbehaved
    <3>5. /\ target' = [target EXCEPT ![s] = "stopped"]
          /\ status' = [status EXCEPT ![s] = IF signal = "PROF" THEN "PROF" ELSE "fault"]
      BY <3>1 DEF Stops
    <3>6. Kept(s)
      BY <1>1, <1>4, <2>1, <3>5 DEF TypeOK, Kept, Signal
    <3>7. /\ ran'[s] = ran[s] \cup {call} /\ target'[s] = "stopped"
          /\ status'[s] = IF signal = "PROF" THEN "PROF" ELSE "fault"
      BY <1>1, <3>5 DEF TypeOK
    <3> QED  BY <1>4, <2>2, <3>2, <3>3, <3>4, <3>6, <3>7 DEF Effects
  <2>3. CASE ~(Traced(s) /\ signal # "KILL")
    <3>1. Killed(s, signal)
      BY <2>1, <2>3
    <3> QED  BY <1>1, <1>4, <2>1, <3>1 DEF Killed, TypeOK, Effects, Kept, Signal
  <2> QED  BY <2>2, <2>3
<1> QED  BY <1>2, <1>3, <1>4 DEF Execute

LEMMA TargetCallsKeeps ==
  ASSUME IInv, NEW s \in Session, NEW call \in Call, TargetCalls(s, call)
  PROVE  TypeOK' /\ Inductive(s)'
<1>1. target[s] = "running" /\ UNCHANGED <<serverVars, tracerVars>> /\ Traced(s)' = Traced(s)
  BY DEF TargetCalls, tracerVars, Traced
<1>2. CASE Traced(s) /\ Stops(s, call)
  <2>1. /\ UNCHANGED <<output, ran>> /\ target'[s] = "stopped" /\ status'[s] = call
        /\ seen[s] \subseteq seen'[s]
        /\ OnList(s, call) \/ "banned" \in seen'[s]
    BY <1>2 DEF TargetCalls, Execute, Stops, Saw, IInv, TypeOK
  <2>2. TypeOK'
    BY <1>1, <1>2 DEF TargetCalls, Execute, Stops, Saw, serverVars, tracerVars, IInv, TypeOK
  <2>3. Inductive(s)'
    BY <1>1, <1>2, <2>1, JudgeAssumption DEF serverVars, tracerVars, IInv, TypeOK, Inductive,
     ServerStage, EvaluatorStage, TracerStage, StopStory, TargetStory, ReportSound,
       Ended, Alive, Traced, Read, Allowed, OnList, Misbehaved, MisreadKill
  <2> QED  BY <2>2, <2>3
<1>3. CASE ~Traced(s) /\ Execute(s, call)
  <2>1. Effects(s, call) /\ Kept(s)
    BY <1>3, Executes DEF IInv
  <2>2. TypeOK'
    BY <1>1, <2>1 DEF serverVars, tracerVars, IInv, TypeOK, Kept
  <2>3. Inductive(s)'
    BY <1>1, <1>3, <2>1 DEF serverVars, tracerVars, IInv, TypeOK, Effects, Inductive,
     ServerStage, EvaluatorStage, TracerStage, StopStory, TargetStory, ReportSound,
       Ended, Alive, Traced, Read, Allowed, OnList, Misbehaved, MisreadKill
  <2> QED  BY <2>2, <2>3
<1> QED  BY <1>2, <1>3 DEF TargetCalls

LEMMA TracerAllowsKeeps ==
  ASSUME IInv, NEW s \in Session, TracerAllows(s) PROVE TypeOK' /\ Inductive(s)'
<1>1. /\ evaluator[s] = "tracing" /\ Read(s) /\ inited[s] /\ waited' = [waited EXCEPT ![s] = "none"]
      /\ UNCHANGED <<main, serving, watching, compiler>>
      /\ UNCHANGED <<evaluator, inited, overflow, diff, report, holder>>
  BY JudgeAssumption DEF TracerAllows, Decides, serverVars, Read
<1>2. CASE target[s] # "stopped"
  <2>1. UNCHANGED <<target, status, output, ran, seen>>
    BY <1>2 DEF TracerAllows, targetVars
  <2>2. TypeOK'
    BY <1>1, <2>1 DEF IInv, TypeOK
  <2>3. Inductive(s)'
    BY <1>1, <2>1 DEF IInv, TypeOK, Inductive, ServerStage, EvaluatorStage, TracerStage,
     StopStory, TargetStory, ReportSound,
       Ended, Alive, Traced, Read, Allowed, OnList, Misbehaved, MisreadKill
  <2> QED  BY <2>2, <2>3
<1>3. CASE target[s] = "stopped"
  <2>1. status[s] \in Call /\ OnList(s, status[s]) /\ Traced(s)
    BY <1>1, <1>3, JudgeAssumption DEF TracerAllows, Allowed, SyscallName, OnList, IInv, Inductive,
       TracerStage, EvaluatorStage
  <2>2. Effects(s, status[s]) /\ Kept(s)
    BY <1>3, <2>1, Executes DEF TracerAllows, IInv
  <2>3. TypeOK'
    BY <1>1, <2>2 DEF IInv, TypeOK, Kept
  <2>4. waited'[s] = "none"
    BY <1>1 DEF IInv, TypeOK
  <2>5. ServerStage(s)' /\ EvaluatorStage(s)'
    BY <1>1, <1>3, <2>1, <2>2 DEF Effects, IInv, Inductive, ServerStage, EvaluatorStage, Ended,
       Alive, Traced
  <2>6. TracerStage(s)'
    BY <1>1, <2>2, <2>4 DEF Effects, IInv, Inductive, TracerStage, Read, Misbehaved, MisreadKill
  <2>7. StopStory(s)'
    BY <1>1, <1>3, <2>1, <2>2, JudgeAssumption DEF Effects, IInv, Inductive, StopStory, Traced,
       Misbehaved
  <2>8. TargetStory(s)'
    BY <1>1, <1>3, <2>1, <2>2 DEF Effects, IInv, Inductive, TargetStory, Ended, Misbehaved, OnList,
       Signal
  <2>9. ReportSound(s)'
    BY <1>1, <1>3, <2>2 DEF Effects, IInv, Inductive, EvaluatorStage, ReportSound
  <2>10. Inductive(s)'
    BY <2>5, <2>6, <2>7, <2>8, <2>9 DEF Inductive
  <2> QED  BY <2>3, <2>10
<1> QED  BY <1>2, <1>3

LEMMA CompilerReapedKeeps ==
  ASSUME IInv, NEW s \in Session, CompilerReaped(s) PROVE TypeOK' /\ Inductive(s)'
<1> DEFINE Reported == /\ compiler[s] = "failed" /\ main' = main /\ evaluator' = evaluator
                       /\ report' = [report EXCEPT ![s] = "CE"]
                       /\ holder' = [holder EXCEPT ![Outfile[s]] = s]
           Crashed == /\ compiler[s] = "failed" /\ main' = "crashed" /\ evaluator' = evaluator
                      /\ report' = report /\ holder' = holder
           Evaluated == /\ compiler[s] \in {"ok", "killed"} /\ main' = main
                        /\ report' = report /\ holder' = holder
                        /\ \/ evaluator' = [evaluator EXCEPT ![s] = "forked"]
                           \/ /\ evaluator' = [evaluator EXCEPT ![s] = "unforked"]
                              /\ "fork" \in Fault
<1>1. /\ main = "up" /\ s \in watching /\ watching' = watching \ {s} /\ s \in Compiled
      /\ UNCHANGED <<serving, compiler, waited, inited, overflow, diff>>
      /\ UNCHANGED <<target, status, output, ran, seen>>
  BY DEF CompilerReaped, targetVars, IInv, TypeOK
<1>2. Reported \/ Crashed \/ Evaluated
  <2>1. CASE compiler[s] = "failed"
    BY <2>1 DEF CompilerReaped, ExitStatus, WriteStatus
  <2>2. CASE compiler[s] \in {"ok", "killed"}
    BY <2>2, ForksEvaluator DEF CompilerReaped, ExitStatus
  <2> QED  BY <2>1, <2>2 DEF CompilerReaped
<1>3. CASE Reported
  <2>1. TypeOK'
    BY <1>1, <1>3 DEF IInv, TypeOK
  <2>2. Inductive(s)'
    BY <1>1, <1>3 DEF IInv, TypeOK, Inductive, ServerStage, EvaluatorStage, TracerStage,
     StopStory, TargetStory, ReportSound,
       Ended, Alive, Traced, Read, Allowed, OnList, Misbehaved, MisreadKill
  <2> QED  BY <2>1, <2>2
<1>4. CASE Crashed
  <2>1. TypeOK'
    BY <1>1, <1>4 DEF IInv, TypeOK
  <2>2. Inductive(s)'
    BY <1>1, <1>4 DEF IInv, TypeOK, Inductive, ServerStage, EvaluatorStage, TracerStage,
     StopStory, TargetStory, ReportSound,
       Ended, Alive, Traced, Read, Allowed, OnList, Misbehaved, MisreadKill
  <2> QED  BY <2>1, <2>2
<1>5. CASE Evaluated
  <2>1. TypeOK'
    BY <1>1, <1>5 DEF IInv, TypeOK
  <2>2. Inductive(s)'
    BY <1>1, <1>5 DEF IInv, TypeOK, Inductive, ServerStage, EvaluatorStage, TracerStage,
     StopStory, TargetStory, ReportSound,
       Ended, Alive, Traced, Read, Allowed, OnList, Misbehaved, MisreadKill
  <2> QED  BY <2>1, <2>2
<1> QED  BY <1>2, <1>3, <1>4, <1>5

LEMMA EvaluatorForksKeeps ==
  ASSUME IInv, NEW s \in Session, EvaluatorForks(s) PROVE TypeOK' /\ Inductive(s)'
<1> DEFINE Tracing == /\ evaluator' = [evaluator EXCEPT ![s] = "tracing"]
                      /\ target' = [target EXCEPT ![s] = "setup"] /\ diff' = diff
           Diffing == /\ evaluator' = [evaluator EXCEPT ![s] = "diffing"] /\ target' = target
                      /\ \E d \in {"running", "unforked"} : diff' = [diff EXCEPT ![s] = d]
<1>1. /\ evaluator[s] = "forked"
      /\ UNCHANGED <<main, serving, watching, compiler>>
      /\ UNCHANGED <<waited, inited, overflow, report, holder, status, output, ran, seen>>
  BY DEF EvaluatorForks, serverVars
<1>2. Tracing \/ Diffing
  BY DEF EvaluatorForks, ForkDiff
<1>3. CASE Tracing
  <2>1. TypeOK'
    BY <1>1, <1>3 DEF IInv, TypeOK
  <2>2. Inductive(s)'
    BY <1>1, <1>3 DEF IInv, TypeOK, Inductive, ServerStage, EvaluatorStage, TracerStage,
     StopStory, TargetStory, ReportSound,
       Ended, Alive, Traced, Read, Allowed, OnList, Misbehaved, MisreadKill
  <2> QED  BY <2>1, <2>2
<1>4. CASE Diffing
  <2>1. TypeOK'
    BY <1>1, <1>4 DEF IInv, TypeOK
  <2>2. Inductive(s)'
    BY <1>1, <1>4 DEF IInv, TypeOK, Inductive, ServerStage, EvaluatorStage, TracerStage,
     StopStory, TargetStory, ReportSound,
       Ended, Alive, Traced, Read, Allowed, OnList, Misbehaved, MisreadKill
  <2> QED  BY <2>1, <2>2
<1> QED  BY <1>2, <1>3, <1>4

LEMMA TracerTimesOutKeeps ==
  ASSUME IInv, NEW s \in Session, TracerTimesOut(s) PROVE TypeOK' /\ Inductive(s)'
<1>1. /\ evaluator[s] = "tracing" /\ waited[s] = "PROF"
      /\ waited' = [waited EXCEPT ![s] = "none"]
      /\ UNCHANGED <<main, serving, watching, compiler, inited, overflow, diff>>
      /\ UNCHANGED <<status, output, ran, seen>>
  BY DEF TracerTimesOut, serverVars
<1>2. \/ evaluator'[s] = "astray" /\ target' = target
      \/ /\ evaluator'[s] # "astray"
         /\ target' = [target EXCEPT ![s] = IF @ = "stopped" THEN "running" ELSE @]
  BY DEF TracerTimesOut, Resumes
<1>3. target[s] \in {"stopped", "killed"} /\ seen[s] \cap {"timer", "PROF"} # {}
      /\ report[s] = "none"
  BY <1>1 DEF IInv, Inductive, TracerStage, EvaluatorStage
<1>4. Concluded(s, "TLE") \/ Erred(s)
  BY Concludes DEF TracerTimesOut
<1>5. /\ waited'[s] = "none" /\ s \in DOMAIN evaluator /\ s \in DOMAIN target
      /\ s \in DOMAIN report
  BY <1>1 DEF IInv, TypeOK
<1>6. target' \in [Session -> {"none", "setup", "running", "aborting", "stopped",
                               "exited", "killed"}]
  BY <1>2 DEF IInv, TypeOK
<1>7. CASE Concluded(s, "TLE")
  <2>1. evaluator'[s] = "dead" /\ report'[s] = "TLE"
        /\ target'[s] = IF target[s] = "stopped" THEN "running" ELSE target[s]
    BY <1>2, <1>5, <1>7 DEF Concluded
  <2>2. TypeOK'
    BY <1>1, <1>7, <1>6 DEF Concluded, IInv, TypeOK
  <2>3. Inductive(s)'
    BY <1>1, <1>3, <1>5, <2>1 DEF IInv, Inductive, ServerStage, EvaluatorStage, TracerStage,
     StopStory, TargetStory, ReportSound,
       Ended, Alive, Traced, Read, Allowed, OnList, Misbehaved, MisreadKill
  <2> QED  BY <2>2, <2>3
<1>8. CASE Erred(s)
  <2>1. /\ "report" \in Fault /\ report' = report /\ evaluator'[s] \in {"failed", "astray"}
        /\ evaluator'[s] = "astray" => s \notin Compiled /\ target'[s] = target[s]
        /\ evaluator'[s] = "failed" =>
             target'[s] = IF target[s] = "stopped" THEN "running" ELSE target[s]
    BY <1>2, <1>5, <1>8 DEF Erred
  <2>2. /\ UNCHANGED <<report, holder>>
        /\ evaluator' \in [Session -> {"none", "unforked", "forked", "tracing", "diffing",
                                        "dead", "failed", "astray"}]
    BY <1>8 DEF Erred, IInv, TypeOK
  <2>3. TypeOK'
    BY <1>1, <1>6, <2>2 DEF IInv, TypeOK
  <2>4. Inductive(s)'
    BY <1>1, <1>3, <1>5, <2>1 DEF IInv, Inductive, ServerStage, EvaluatorStage, TracerStage,
     StopStory, TargetStory, ReportSound,
       Ended, Alive, Traced, Read, Allowed, OnList, Misbehaved, MisreadKill
  <2> QED  BY <2>3, <2>4
<1> QED  BY <1>4, <1>7, <1>8

\* How an evaluator ends whose target is no longer there.
LEMMA ConcludeKeeps ==
  ASSUME IInv, NEW s \in Session, NEW verdict \in Service!Verdict \ {"CE"},
         Concluded(s, verdict) \/ Erred(s),
         evaluator[s] \in {"tracing", "diffing"}, waited[s] = "none",
         target[s] \in {"none", "exited", "killed"}, diff[s] # "running",
         UNCHANGED <<main, serving, watching, compiler, waited, inited, overflow, diff>>,
         UNCHANGED <<target, status, output, ran, seen>>,
         verdict = "TLE" => seen[s] \cap {"timer", "PROF"} # {},
         verdict = "MLE" => seen[s] \cap {"oom", "KILL"} # {},
         verdict = "RE" => Misbehaved(s) \/ MisreadKill(s),
         verdict = "WA" => target[s] = "exited" /\ output[s] = "wrong"
  PROVE  TypeOK' /\ Inductive(s)'
<1>1. \/ evaluator'[s] = "dead" /\ report'[s] = verdict
      \/ /\ "report" \in Fault /\ report' = report /\ evaluator'[s] \in {"failed", "astray"}
         /\ evaluator'[s] = "astray" => s \notin Compiled
  BY DEF Concluded, Erred, IInv, TypeOK
<1>2. TypeOK'
  BY DEF Concluded, Erred, IInv, TypeOK
<1>3. Inductive(s)'
  BY <1>1 DEF IInv, Inductive, ServerStage, EvaluatorStage, TracerStage, StopStory, TargetStory,
     ReportSound,
     Ended, Alive, Traced, Read, Allowed, OnList, Misbehaved, MisreadKill
<1> QED  BY <1>2, <1>3

LEMMA TracerSeesDeathKeeps ==
  ASSUME IInv, NEW s \in Session, TracerSeesDeath(s) PROVE TypeOK' /\ Inductive(s)'
<1> DEFINE verdict == SignalVerdict(status[s], overflow[s])
<1>1. /\ evaluator[s] = "tracing" /\ waited[s] = "none" /\ target[s] = "killed" /\ diff[s] = "none"
      /\ UNCHANGED <<main, serving, watching, compiler, waited, inited, overflow, diff>>
      /\ UNCHANGED <<target, status, output, ran, seen>>
  BY DEF TracerSeesDeath, WIFSIGNALED, Waited, serverVars, targetVars, IInv, Inductive,
     EvaluatorStage
<1>2. \/ verdict = "none"
      \/ verdict = "RE" /\ (status[s] = "SEGV" \/ (status[s] = "KILL" /\ overflow[s]))
      \/ verdict = "TLE" /\ status[s] = "PROF"
      \/ verdict = "MLE" /\ status[s] = "KILL" /\ ~overflow[s]
  <2>1. overflow[s] \in {TRUE, FALSE}
    BY DEF IInv, TypeOK
  <2>2. CASE status[s] = "KILL"
    BY <2>1, <2>2 DEF SignalVerdict
  <2>3. CASE status[s] = "SEGV"
    BY <2>3 DEF SignalVerdict
  <2>4. CASE status[s] = "PROF"
    BY <2>4 DEF SignalVerdict
  <2>5. CASE status[s] \notin {"KILL", "SEGV", "PROF"}
    BY <2>5 DEF SignalVerdict
  <2> QED  BY <2>2, <2>3, <2>4, <2>5
<1>3. CASE verdict = "none"
  <2>1. evaluator' = [evaluator EXCEPT ![s] = "dead"] /\ UNCHANGED <<report, holder>>
    BY <1>3 DEF TracerSeesDeath, EvaluatorDies
  <2>2. TypeOK'
    BY <1>1, <2>1 DEF IInv, TypeOK
  <2>3. evaluator'[s] = "dead"
    BY <2>1 DEF IInv, TypeOK
  <2>4. Inductive(s)'
    BY <1>1, <2>1, <2>3 DEF IInv, Inductive, ServerStage, EvaluatorStage, TracerStage, StopStory,
     TargetStory, ReportSound,
       Ended, Alive, Traced, Read, Allowed, OnList, Misbehaved, MisreadKill
  <2> QED  BY <2>2, <2>4
<1>4. CASE verdict # "none"
  <2>1. Concluded(s, verdict) \/ Erred(s)
    BY <1>4, Concludes DEF TracerSeesDeath
  <2>2. verdict \in Service!Verdict \ {"CE"}
    BY <1>2, <1>4
  <2>3. /\ status[s] = "PROF" => seen[s] \cap {"timer", "PROF"} # {}
        /\ status[s] = "SEGV" => Misbehaved(s)
        /\ status[s] = "KILL" /\ ~overflow[s] => seen[s] \cap {"oom", "KILL"} # {}
        /\ overflow[s] => Misbehaved(s) \/ MisreadKill(s)
    BY <1>1 DEF IInv, Inductive, TargetStory, TracerStage
  <2> HIDE DEF verdict
  <2> QED  BY <1>1, <1>2, <2>1, <2>2, <2>3, ConcludeKeeps
<1> QED  BY <1>3, <1>4

LEMMA DiffReapedKeeps ==
  ASSUME IInv, NEW s \in Session, DiffReaped(s) PROVE TypeOK' /\ Inductive(s)'
<1>1. /\ evaluator[s] = "diffing" /\ diff[s] \in {"nothing", "differences"}
      /\ UNCHANGED <<main, serving, watching, compiler, waited, inited, overflow, diff>>
      /\ UNCHANGED <<target, status, output, ran, seen>>
  BY DEF DiffReaped, serverVars, targetVars
<1>2. /\ target[s] \in {"none", "exited"} /\ waited[s] = "none"
      /\ diff[s] = "differences" => target[s] = "exited" /\ output[s] = "wrong"
  BY <1>1 DEF IInv, Inductive, EvaluatorStage, TracerStage
<1>3. \/ diff[s] = "nothing" /\ DiffVerdict(diff[s]) = "AC"
      \/ diff[s] = "differences" /\ DiffVerdict(diff[s]) = "WA"
  BY <1>1 DEF DiffVerdict
<1>4. Concluded(s, DiffVerdict(diff[s])) \/ Erred(s)
  BY Concludes DEF DiffReaped
<1> QED  BY <1>1, <1>2, <1>3, <1>4, ConcludeKeeps
-----------------------------------------------------------------------------
LEMMA InitEstablishes ==
  ASSUME Init PROVE IInv
<1>1. TypeOK
  BY DEF Init, TypeOK
<1>2. ASSUME NEW x \in Session PROVE Inductive(x)
  BY DEF Init, Inductive, ServerStage, EvaluatorStage, TracerStage, StopStory, TargetStory,
     ReportSound, Traced, Read, Ended, Alive
<1> QED  BY <1>1, <1>2 DEF IInv

LEMMA ActsKeep ==
  ASSUME IInv, NEW s \in Session, Acts(s) PROVE TypeOK' /\ Inductive(s)'
<1>1. CASE JudgeCompiled(s) \/ JudgeInterpreted(s) \/ CompilerReaped(s)
  BY <1>1, JudgeCompiledKeeps, JudgeInterpretedKeeps, CompilerReapedKeeps
<1>2. CASE TargetNext(s)
  BY <1>2, CompilerEndsKeeps, TargetExecsKeeps, TargetCallsKeeps, TargetFaultsKeeps,
     TargetAbortsKeeps, TimerExpiresKeeps, OutOfMemoryKeeps, DiffEndsKeeps DEF TargetNext
<1>3. CASE EvaluatorNext(s)
  BY <1>3, EvaluatorForksKeeps, TracerWaitsKeeps, TracerTimesOutKeeps, TracerReadsKeeps,
     TracerStartsKeeps, TracerBansKeeps, TracerAllowsKeeps, TracerSeesExitKeeps,
     TracerSeesDeathKeeps, DiffReapedKeeps DEF EvaluatorNext
<1> QED  BY <1>1, <1>2, <1>3 DEF Acts

LEMMA ActsMoveMain ==
  ASSUME NEW s \in Session, Acts(s)
  PROVE  main' = main \/ (main = "up" /\ main' = "crashed")
<1>1. CASE JudgeCompiled(s) \/ JudgeInterpreted(s) \/ CompilerReaped(s)
  BY <1>1 DEF JudgeCompiled, JudgeInterpreted, CompilerReaped, serverVars
<1>2. CASE TargetNext(s)
  BY <1>2 DEF TargetNext, CompilerEnds, TargetExecs, TargetCalls, TargetFaults, TargetAborts,
     TimerExpires, OutOfMemory, DiffEnds, serverVars
<1>3. CASE EvaluatorNext(s)
  BY <1>3 DEF EvaluatorNext, EvaluatorForks, TracerWaits, TracerTimesOut, TracerReads,
     TracerStarts, TracerBans, TracerAllows, TracerSeesExit, TracerSeesDeath, DiffReaped,
     serverVars
<1> QED  BY <1>1, <1>2, <1>3 DEF Acts

LEMMA NextKeeps ==
  ASSUME IInv, [Next]_vars PROVE IInv'
<1>1. ASSUME NEW s \in Session, Acts(s) PROVE IInv'
  <2>1. TypeOK' /\ Inductive(s)' /\ MainMoves
    BY <1>1, ActsKeep, ActsMoveMain DEF MainMoves
  <2>2. ASSUME NEW x \in Session, x # s PROVE Inductive(x)'
    BY <1>1, <2>1, <2>2, Frame, UntouchedKeeps DEF IInv
  <2> QED  BY <2>1, <2>2 DEF IInv
<1>2. CASE StopServing \/ LoopEnds \/ UNCHANGED vars
  <2>1. /\ serving' \in BOOLEAN /\ MainMoves
        /\ UNCHANGED <<watching, compiler, evaluator, waited, inited, overflow, diff, report>>
        /\ UNCHANGED <<holder, target, status, output, ran, seen>>
    BY <1>2 DEF StopServing, LoopEnds, LoopIdle, vars, serverVars, tracerVars, targetVars,
       IInv, TypeOK, MainMoves
  <2>2. TypeOK'
    BY <2>1 DEF IInv, TypeOK, MainMoves
  <2>3. ASSUME NEW x \in Session PROVE Inductive(x)'
    BY <2>1, UntouchedKeeps DEF Untouched, IInv
  <2> QED  BY <2>2, <2>3 DEF IInv
<1> QED  BY <1>1, <1>2, NextActs

THEOREM Invariance == Spec => []IInv
<1>1. Init => IInv
  BY InitEstablishes
<1>2. IInv /\ [Next]_vars => IInv'
  BY NextKeeps
<1> QED  BY <1>1, <1>2, PTL DEF Spec

\* Every variable keeps its type, whatever the constants.
THEOREM TypeCorrect == Spec => []TypeOK
<1>1. IInv => TypeOK
  BY DEF IInv
<1> QED  BY <1>1, Invariance, PTL

\* No verdict is written without its cause, whichever faults the environment
\* shows, whatever signals a program raises, wherever a kill falls between two
\* calls of the tracer, and however the processes of all submissions interleave.
THEOREM VerdictsSound == Spec => []VerdictSound
<1>1. IInv => VerdictSound
  BY DEF IInv, Inductive, ReportSound, VerdictSound
<1> QED  BY <1>1, Invariance, PTL

\* Under the tracer no program makes a call whose number's name is off its
\* whitelist.
THEOREM TracedConfined == Spec => []Confined
<1>1. IInv => Confined
  BY DEF IInv, Inductive, TargetStory, Confined
<1> QED  BY <1>1, Invariance, PTL

\* Only the time limit makes an evaluator leave a live program behind.
THEOREM OrphansTimedOut == Spec => []OrphanedOnlyByTimeout
<1>1. IInv => OrphanedOnlyByTimeout
  BY DEF IInv, Inductive, EvaluatorStage, OrphanedOnlyByTimeout
<1> QED  BY <1>1, Invariance, PTL

\* The server does not leave a submission behind when its loop ends: each has
\* an evaluator that was really forked, or a report, or fork failed for it.
THEOREM NothingLost == Spec => []ExitLosesNothing
<1>1. IInv => ExitLosesNothing
  BY DEF IInv, TypeOK, Inductive, ServerStage, ExitLosesNothing, Submitted
<1> QED  BY <1>1, Invariance, PTL
-----------------------------------------------------------------------------
(***************************************************************************)
(* A step that writes a verdict writes the first one of its submission.    *)
(***************************************************************************)
First(s, v) ==
  /\ report[s] = "none" /\ report' = [report EXCEPT ![s] = v]
  /\ holder' = [holder EXCEPT ![Outfile[s]] = s]
  /\ main' = main /\ compiler' = compiler
  /\ s \in Submitted /\ Submitted' = Submitted
  /\ v = "CE" => s \in Compiled /\ main = "up"

LEMMA WritesOnce ==
  ASSUME IInv, [Next]_vars
  PROVE  \/ UNCHANGED <<report, holder>>
         \/ \E s \in Session, v \in Service!Verdict : First(s, v)
<1>1. ASSUME NEW s \in Session, CompilerReaped(s)
      PROVE  UNCHANGED <<report, holder>> \/ First(s, "CE")
  <2>1. s \in watching /\ s \in Compiled /\ compiler[s] # "none" /\ report[s] = "none"
    BY <1>1 DEF CompilerReaped, IInv, TypeOK, Inductive, ServerStage
  <2>2. \/ UNCHANGED <<report, holder>>
        \/ /\ report' = [report EXCEPT ![s] = "CE"]
           /\ holder' = [holder EXCEPT ![Outfile[s]] = s]
           /\ main' = main /\ main = "up" /\ compiler' = compiler /\ evaluator' = evaluator
    BY <1>1 DEF CompilerReaped, WriteStatus
  <2> QED  BY <2>1, <2>2 DEF Submitted, First
<1>2. ASSUME NEW s \in Session, NEW v \in {"AC", "WA", "TLE", "MLE", "RE"},
             Conclude(s, v), evaluator[s] \in {"tracing", "diffing"},
             UNCHANGED serverVars
      PROVE  UNCHANGED <<report, holder>> \/ First(s, v)
  <2>1. report[s] = "none"
    BY <1>2 DEF IInv, Inductive, EvaluatorStage
  <2>2. Concluded(s, v) \/ UNCHANGED <<report, holder>>
    BY <1>2, Concludes DEF Erred
  <2>3. CASE Concluded(s, v)
    <3>1. s \in Submitted /\ Submitted' = Submitted /\ main' = main /\ compiler' = compiler
      BY <1>2, <2>3 DEF Concluded, Submitted, IInv, TypeOK, serverVars
    <3> QED  BY <1>2, <2>1, <2>3, <3>1 DEF Concluded, First
  <2> QED  BY <2>2, <2>3
<1>3. ASSUME NEW s \in Session, EvaluatorNext(s)
      PROVE  \/ UNCHANGED <<report, holder>>
             \/ \E v \in {"AC", "WA", "TLE", "MLE", "RE"} :
                  Conclude(s, v) /\ evaluator[s] \in {"tracing", "diffing"} /\ UNCHANGED serverVars
  <2>1. CASE TracerTimesOut(s)
    BY <2>1 DEF TracerTimesOut, serverVars
  <2>2. CASE DiffReaped(s)
    BY <2>2 DEF DiffReaped, DiffVerdict, serverVars
  <2>3. CASE TracerSeesDeath(s)
    BY <2>3 DEF TracerSeesDeath, WIFSIGNALED, Waited, SignalVerdict, serverVars
  <2>4. CASE EvaluatorForks(s) \/ TracerWaits(s) \/ TracerReads(s)
    BY <2>4 DEF EvaluatorForks, TracerWaits, TracerReads
  <2>5. CASE TracerStarts(s) \/ TracerBans(s) \/ TracerAllows(s) \/ TracerSeesExit(s)
    BY <2>5 DEF TracerStarts, TracerBans, TracerAllows, TracerSeesExit
  <2> QED  BY <1>3, <2>1, <2>2, <2>3, <2>4, <2>5 DEF EvaluatorNext
<1>4. ASSUME NEW s \in Session, TargetNext(s) PROVE UNCHANGED <<report, holder>>
  BY <1>4 DEF TargetNext, CompilerEnds, TargetExecs, TargetFaults, TargetAborts,
     TargetCalls, TimerExpires, OutOfMemory, DiffEnds, tracerVars
<1>5. ASSUME NEW s \in Session, JudgeCompiled(s) \/ JudgeInterpreted(s)
      PROVE  UNCHANGED <<report, holder>>
  BY <1>5 DEF JudgeCompiled, JudgeInterpreted, tracerVars
<1>6. CASE StopServing \/ LoopEnds \/ UNCHANGED vars
  BY <1>6 DEF StopServing, LoopEnds, vars, tracerVars
<1>7. {"AC", "WA", "TLE", "MLE", "RE", "CE"} \subseteq Service!Verdict
  OBVIOUS
<1>8. ASSUME NEW s \in Session, EvaluatorNext(s)
      PROVE  \/ UNCHANGED <<report, holder>>
             \/ \E v \in Service!Verdict : First(s, v)
  BY <1>2, <1>3, <1>7, <1>8
<1> QED  BY <1>1, <1>4, <1>5, <1>6, <1>7, <1>8 DEF Next, ServerNext

\* VerdictFinal, for one submission.
Final(s) ==
  report[s] # "none" =>
    /\ report'[s] = report[s]
    /\ holder'[Outfile[s]] # holder[Outfile[s]] =>
         \E other \in Session :
           /\ Outfile[other] = Outfile[s] /\ holder'[Outfile[s]] = other
           /\ report[other] = "none" /\ report'[other] # "none"

LEMMA StepFinal ==
  ASSUME IInv, [Next]_vars, NEW x \in Session PROVE Final(x)
<1>1. /\ report \in [Session -> Service!Verdict \cup {"none"}]
      /\ holder \in [File -> Session \cup {"none"}]
      /\ \A s \in Session : Outfile[s] \in File
  BY DEF IInv, TypeOK, File
<1>2. ASSUME NEW s \in Session, NEW v \in Service!Verdict, First(s, v) PROVE Final(x)
  <2>1. report'[s] = v /\ v # "none" /\ (x # s => report'[x] = report[x])
    BY <1>1, <1>2 DEF First
  <2>2. holder'[Outfile[x]] = IF Outfile[x] = Outfile[s] THEN s ELSE holder[Outfile[x]]
    BY <1>1, <1>2 DEF First
  <2> QED  BY <1>2, <2>1, <2>2 DEF First, Final
<1>3. CASE UNCHANGED <<report, holder>>
  BY <1>3 DEF Final
<1> QED  BY <1>2, <1>3, WritesOnce

\* A verdict that has been written is never written again, and the report
\* file that holds one loses it only to the first verdict of another
\* submission that names the same file.
THEOREM VerdictsFinal == Spec => VerdictFinal
<1>1. IInv /\ [Next]_vars => [\A s \in Session : Final(s)]_vars
  BY StepFinal
<1> QED  BY <1>1, Invariance, PTL DEF Spec, VerdictFinal, Final

\* What a reader of a report file finds: the file that a submission with a
\* verdict names holds the verdict of a submission that names it, its own one
\* if no other submission does.
ReportFound ==
  \A s \in Session :
    report[s] # "none" =>
      \E t \in Session :
        /\ holder[Outfile[s]] = t /\ Outfile[t] = Outfile[s] /\ report[t] # "none"
        /\ (\A other \in Session : Outfile[other] = Outfile[s] => other = s) => t = s

\* ReportFound holds whatever the report files that the submissions share.
THEOREM ReportsKept == Spec => []ReportFound
<1>1. Init => FilesKept
  BY DEF Init, FilesKept
<1>2. IInv /\ FilesKept /\ [Next]_vars => FilesKept'
  <2> SUFFICES ASSUME IInv, FilesKept, [Next]_vars PROVE FilesKept'
    OBVIOUS
  <2>1. /\ report \in [Session -> Service!Verdict \cup {"none"}]
        /\ holder \in [File -> Session \cup {"none"}]
        /\ \A s \in Session : Outfile[s] \in File
    BY DEF IInv, TypeOK, File
  <2>2. CASE UNCHANGED <<report, holder>>
    BY <2>2 DEF FilesKept
  <2>3. ASSUME NEW s \in Session, NEW v \in Service!Verdict, First(s, v) PROVE FilesKept'
    <3>1. report'[s] # "none" /\ \A x \in Session \ {s} : report'[x] = report[x]
      BY <2>1, <2>3 DEF First
    <3>2. /\ holder'[Outfile[s]] = s /\ s # "none"
          /\ \A f \in File \ {Outfile[s]} : holder'[f] = holder[f]
      BY <2>1, <2>3, JudgeAssumption DEF First
    <3>3. ASSUME NEW f \in File, holder'[f] # "none"
          PROVE  Outfile[holder'[f]] = f /\ report'[holder'[f]] # "none"
      BY <2>1, <3>1, <3>2, <3>3 DEF FilesKept
    <3>4. ASSUME NEW x \in Session, report'[x] # "none" PROVE holder'[Outfile[x]] # "none"
      BY <2>1, <3>1, <3>2, <3>4 DEF FilesKept
    <3> QED  BY <3>3, <3>4 DEF FilesKept
  <2> QED  BY <2>2, <2>3, WritesOnce
<1>3. IInv /\ FilesKept => ReportFound
  <2> SUFFICES ASSUME IInv, FilesKept, NEW s \in Session, report[s] # "none"
               PROVE  /\ holder[Outfile[s]] \in Session
                      /\ Outfile[holder[Outfile[s]]] = Outfile[s]
                      /\ report[holder[Outfile[s]]] # "none"
    BY DEF ReportFound
  <2>1. Outfile[s] \in File
    BY DEF File
  <2> QED  BY <2>1 DEF IInv, TypeOK, FilesKept
<1> QED  BY <1>1, <1>2, <1>3, Invariance, PTL DEF Spec
(***************************************************************************)
(* Each step of the pipeline is one of JudgeService, or none.              *)
(***************************************************************************)
LEMMA EvaluatorMoves ==
  ASSUME NEW s \in Session, EvaluatorNext(s)
  PROVE  /\ UNCHANGED serverVars /\ evaluator[s] \in {"forked", "tracing", "diffing"}
         /\ \/ evaluator' = evaluator
            \/ \E e \in {"tracing", "diffing", "dead", "failed", "astray"} :
                 evaluator' = [evaluator EXCEPT ![s] = e]
<1>1. UNCHANGED serverVars /\ evaluator[s] \in {"forked", "tracing", "diffing"}
  BY DEF EvaluatorNext, EvaluatorForks, TracerWaits, TracerTimesOut, TracerReads,
     TracerStarts, TracerBans, TracerAllows, TracerSeesExit, TracerSeesDeath, DiffReaped,
     Decides, WIFSTOPPED, WIFEXITED, WIFSIGNALED, Waited
<1>2. \/ evaluator' = evaluator
      \/ \E e \in {"tracing", "diffing", "dead", "failed", "astray"} :
           evaluator' = [evaluator EXCEPT ![s] = e]
  BY Concludes DEF EvaluatorNext, EvaluatorForks, ForkDiff, TracerWaits, TracerTimesOut,
     TracerReads, TracerStarts, TracerBans, TracerAllows, TracerSeesExit, TracerSeesDeath,
     DiffReaped, Concluded, Erred, EvaluatorDies
<1> QED  BY <1>1, <1>2

LEMMA ActsServe ==
  ASSUME IInv, NEW s \in Session, Acts(s), UNCHANGED <<report, holder>>
  PROVE  Service!Next \/ UNCHANGED Service!serviceVars
<1>1. ASSUME Submitted' = Submitted, main' = main PROVE UNCHANGED Service!serviceVars
  BY <1>1 DEF Service!serviceVars
<1>2. CASE TargetNext(s)
  <2>1. main' = main /\ evaluator' = evaluator
    BY <1>2 DEF TargetNext, CompilerEnds, TargetExecs, TargetFaults, TargetAborts,
       TargetCalls, TimerExpires, OutOfMemory, DiffEnds, serverVars, tracerVars
  <2>2. CASE CompilerEnds(s)
    BY <1>1, <2>1, <2>2 DEF CompilerEnds, Submitted, IInv, TypeOK
  <2>3. CASE ~CompilerEnds(s)
    <3>1. compiler' = compiler
      BY <1>2, <2>3 DEF TargetNext, TargetExecs, TargetFaults, TargetAborts,
         TargetCalls, TimerExpires, OutOfMemory, DiffEnds, serverVars
    <3> QED  BY <1>1, <2>1, <3>1 DEF Submitted
  <2> QED  BY <2>2, <2>3
<1>3. CASE EvaluatorNext(s)
  <2>1. UNCHANGED <<main, compiler>> /\ Submitted' = Submitted
    BY <1>3, EvaluatorMoves DEF serverVars, Submitted, IInv, TypeOK
  <2> QED  BY <1>1, <2>1
<1>4. CASE JudgeCompiled(s) \/ JudgeInterpreted(s)
  <2>1. main = "up" /\ main' = main
    BY <1>4 DEF JudgeCompiled, JudgeInterpreted, serverVars
  <2>2. s \notin Submitted /\ Submitted' = Submitted \cup {s}
    BY <1>4 DEF JudgeCompiled, JudgeInterpreted, ForkEvaluator, Submitted, IInv,
       TypeOK, Inductive, ServerStage, serverVars, tracerVars
  <2> QED  BY <2>1, <2>2 DEF Service!Submit, Service!Next
<1>5. CASE CompilerReaped(s)
  <2>1. compiler' = compiler /\ compiler[s] # "none" /\ main = "up"
        /\ (main' = main \/ main' = "crashed")
    BY <1>5 DEF CompilerReaped
  <2>2. \A x \in Session : x # s => evaluator'[x] = evaluator[x]
    BY <1>5 DEF CompilerReaped, ForkEvaluator, IInv, TypeOK
  <2>3. Submitted' = Submitted
    BY <2>1, <2>2 DEF Submitted
  <2> QED  BY <2>1, <2>3 DEF Service!Next, Service!Stop, Service!serviceVars
<1> QED  BY <1>2, <1>3, <1>4, <1>5 DEF Acts

LEMMA StepServes ==
  ASSUME IInv, [Next]_vars
  PROVE  Service!Next \/ UNCHANGED Service!serviceVars
<1>1. ASSUME NEW s \in Session, NEW v \in Service!Verdict, First(s, v)
      PROVE  Service!Report(s, v)
  BY <1>1 DEF First, Service!Report, Service!NoVerdict
<1>2. CASE StopServing \/ LoopEnds \/ UNCHANGED vars
  BY <1>2 DEF StopServing, LoopEnds, vars, serverVars, tracerVars, Service!Next, Service!Stop,
     Service!serviceVars, Submitted
<1>3. ASSUME UNCHANGED <<report, holder>>, NEW s \in Session, Acts(s)
      PROVE  Service!Next \/ UNCHANGED Service!serviceVars
  BY <1>3, ActsServe
<1> QED  BY <1>1, <1>2, <1>3, WritesOnce, NextActs DEF Service!Next

\* The pipeline implements JudgeService.
THEOREM Refinement == Spec => ImplementsService
<1>1. Init => Service!Init
  BY DEF Init, File, Service!Init, Service!NoVerdict, Submitted
<1>2. IInv /\ [Next]_vars => [Service!Next]_(Service!serviceVars)
  BY StepServes
<1> QED  BY <1>1, <1>2, Invariance, PTL DEF Spec, ImplementsService, Service!Spec
-----------------------------------------------------------------------------
(***************************************************************************)
(* If fork and diff work, an accepted program exited with the right output.*)
(* The findings show that both hypotheses are needed.                      *)
(***************************************************************************)
Compared(s) ==
  /\ evaluator[s] = "diffing" => target[s] = "exited"
  /\ diff[s] = "nothing" => target[s] = "exited" /\ output[s] = "right"
  /\ report[s] = "AC" => diff[s] = "nothing"

LEMMA ComparedKept ==
  ASSUME Fault \cap {"fork", "diff"} = {}, IInv, NEW s \in Session, Compared(s), Acts(s)
  PROVE  Compared(s)'
<1>0. Succeeds("fork") = {TRUE} /\ Succeeds("diff") = {TRUE}
  BY DEF Succeeds
<1>1. ASSUME UNCHANGED diff, report'[s] # "AC" \/ report' = report,
             evaluator'[s] # "diffing" \/ evaluator' = evaluator,
             target[s] = "exited" => UNCHANGED <<target, output>>
      PROVE  Compared(s)'
  BY <1>1 DEF Compared
<1>2. ASSUME NEW v, Conclude(s, v), v # "AC", UNCHANGED diff,
             target[s] = "exited" => UNCHANGED <<target, output>>
      PROVE  Compared(s)'
  BY <1>1, <1>2, Concludes DEF Concluded, Erred, IInv, TypeOK
<1>3. CASE TargetNext(s)
  <2>1. CASE DiffEnds(s)
    <3>1. /\ UNCHANGED <<evaluator, report, target, output>>
          /\ \/ diff' = [diff EXCEPT ![s] = "differences"] /\ output[s] = "wrong"
             \/ diff' = [diff EXCEPT ![s] = "nothing"] /\ output[s] # "wrong"
      BY <1>0, <2>1 DEF DiffEnds, targetVars
    <3>2. target[s] = "exited" /\ output[s] \in {"right", "wrong"} /\ diff[s] = "running"
      BY <2>1 DEF DiffEnds, IInv, TypeOK, Inductive, EvaluatorStage, Compared
    <3> QED  BY <3>1, <3>2 DEF Compared, IInv, TypeOK
  <2>2. CASE CompilerEnds(s) \/ TargetExecs(s) \/ TargetFaults(s) \/ TargetAborts(s)
    BY <1>1, <2>2 DEF CompilerEnds, TargetExecs, TargetFaults, TargetAborts, tracerVars, targetVars
  <2>3. CASE \/ \E call \in Call : TargetCalls(s, call)
             \/ TimerExpires(s) \/ OutOfMemory(s)
    BY <1>1, <2>3 DEF TargetCalls, TimerExpires, OutOfMemory, Alive, tracerVars
  <2> QED  BY <1>3, <2>1, <2>2, <2>3 DEF TargetNext
<1>4. CASE EvaluatorNext(s)
  <2>1. CASE EvaluatorForks(s)
    <3>1. /\ evaluator' = [evaluator EXCEPT ![s] = "tracing"]
          /\ target[s] = "none" /\ UNCHANGED <<diff, report>>
      BY <1>0, <2>1 DEF EvaluatorForks, IInv, Inductive, EvaluatorStage
    <3> QED  BY <1>1, <3>1 DEF IInv, TypeOK
  <2>2. CASE TracerTimesOut(s)
    <3>1. target[s] # "exited" /\ UNCHANGED diff /\ Conclude(s, "TLE")
      BY <2>2 DEF TracerTimesOut, IInv, Inductive, TracerStage
    <3> QED  BY <1>2, <3>1
  <2>3. CASE TracerWaits(s) \/ TracerReads(s) \/ TracerStarts(s) \/ TracerBans(s) \/ TracerAllows(s)
    <3>1. UNCHANGED <<evaluator, diff, report>>
      BY <2>3 DEF TracerWaits, TracerReads, TracerStarts, TracerBans, TracerAllows
    <3>2. target[s] = "exited" => UNCHANGED <<target, output>>
      BY <2>3, JudgeAssumption DEF TracerWaits, TracerReads, TracerStarts, TracerBans,
         TracerAllows, Decides, IInv, Inductive, TracerStage, targetVars
    <3> QED  BY <1>1, <3>1, <3>2
  <2>4. CASE TracerSeesExit(s)
    <3>1. /\ target[s] = "exited" /\ UNCHANGED <<report, target, output>>
          /\ diff' = [diff EXCEPT ![s] = "running"] /\ report[s] = "none"
      BY <1>0, <2>4 DEF TracerSeesExit, WIFEXITED, Waited, ForkDiff, targetVars, IInv, Inductive,
         EvaluatorStage
    <3> QED  BY <3>1 DEF Compared, IInv, TypeOK
  <2>5. CASE TracerSeesDeath(s)
    <3> DEFINE verdict == SignalVerdict(status[s], overflow[s])
    <3>1. UNCHANGED <<diff, target, output>>
      BY <2>5 DEF TracerSeesDeath, targetVars
    <3>2. verdict # "AC"
      BY DEF SignalVerdict
    <3>3. CASE verdict = "none"
      BY <1>1, <2>5, <3>1, <3>3 DEF TracerSeesDeath, EvaluatorDies, IInv, TypeOK
    <3>4. CASE verdict # "none"
      BY <1>2, <2>5, <3>1, <3>2, <3>4 DEF TracerSeesDeath
    <3> QED  BY <3>3, <3>4
  <2>6. CASE DiffReaped(s)
    <3>1. /\ diff[s] \in {"nothing", "differences"} /\ UNCHANGED <<diff, target, output>>
          /\ Conclude(s, DiffVerdict(diff[s]))
      BY <2>6 DEF DiffReaped, targetVars
    <3>2. CASE diff[s] = "nothing"
      BY <3>1, <3>2, Concludes DEF Concluded, Erred, Compared, IInv, TypeOK
    <3>3. CASE diff[s] = "differences"
      BY <1>2, <3>1, <3>3 DEF DiffVerdict
    <3> QED  BY <3>1, <3>2, <3>3
  <2> QED  BY <1>4, <2>1, <2>2, <2>3, <2>4, <2>5, <2>6 DEF EvaluatorNext
<1>5. CASE JudgeCompiled(s) \/ JudgeInterpreted(s) \/ CompilerReaped(s)
  <2>1. /\ UNCHANGED <<diff, target, output>>
        /\ evaluator' = evaluator \/ evaluator' = [evaluator EXCEPT ![s] = "forked"]
        /\ report' = report \/ report' = [report EXCEPT ![s] = "CE"]
    BY <1>0, <1>5 DEF JudgeCompiled, JudgeInterpreted, CompilerReaped, ForkEvaluator,
       WriteStatus, tracerVars, targetVars
  <2> QED  BY <1>1, <2>1 DEF IInv, TypeOK
<1> QED  BY <1>3, <1>4, <1>5 DEF Acts

LEMMA AllCompared ==
  ASSUME Fault \cap {"fork", "diff"} = {}, IInv, [Next]_vars, NEW x \in Session, Compared(x)
  PROVE  Compared(x)'
<1>1. CASE StopServing \/ LoopEnds \/ UNCHANGED vars
  BY <1>1 DEF StopServing, LoopEnds, vars, tracerVars, targetVars, Compared
<1>2. ASSUME NEW s \in Session, Acts(s), s # x PROVE Compared(x)'
  BY <1>2, Frame DEF Untouched, Compared
<1> QED  BY <1>1, <1>2, ComparedKept, NextActs

\* AC means that the program exited and its output was right, provided that
\* neither fork nor diff fails.
THEOREM AcceptedIsCorrect ==
  ASSUME Fault \cap {"fork", "diff"} = {}
  PROVE  Spec => []AcceptedCorrect
<1> DEFINE Inv == IInv /\ \A x \in Session : Compared(x)
<1>1. Init => Inv
  BY InitEstablishes DEF Init, Compared
<1>2. Inv /\ [Next]_vars => Inv'
  BY NextKeeps, AllCompared
<1>3. Inv => AcceptedCorrect
  BY DEF Compared, AcceptedCorrect
<1> HIDE DEF Inv
<1> QED  BY <1>1, <1>2, <1>3, PTL DEF Spec
-----------------------------------------------------------------------------
(***************************************************************************)
(* What an accepted program has called.                                    *)
(***************************************************************************)
Within(s) ==
  /\ target[s] = "exited" => "exit_group" \in ran[s]
  /\ Linux /\ report[s] = "AC" => \A call \in ran[s] : OnList(s, call)

LEMMA WithinKept ==
  ASSUME IInv, NEW s \in Session, Compared(s), Within(s), Acts(s)
  PROVE  Within(s)'
<1>1. ASSUME UNCHANGED ran, report'[s] # "AC" \/ report' = report,
             target'[s] # "exited" \/ target'[s] = target[s]
      PROVE  Within(s)'
  BY <1>1 DEF Within, OnList
<1>2. ASSUME NEW v, Conclude(s, v), v # "AC", UNCHANGED ran,
             target'[s] # "exited" \/ target'[s] = target[s]
      PROVE  Within(s)'
  BY <1>1, <1>2, Concludes DEF Concluded, Erred, IInv, TypeOK
<1>3. ASSUME NEW call \in Call, Execute(s, call), UNCHANGED report,
             target[s] \in {"running", "stopped"}
      PROVE  Within(s)'
  <2>1. Effects(s, call)
    BY <1>3, Executes DEF IInv
  <2>2. report'[s] # "AC"
    BY <1>3 DEF Compared
  <2> QED  BY <2>1, <2>2 DEF Effects, Within
<1>4. CASE JudgeCompiled(s) \/ JudgeInterpreted(s) \/ CompilerEnds(s) \/ DiffEnds(s)
  BY <1>1, <1>4 DEF JudgeCompiled, JudgeInterpreted, CompilerEnds, DiffEnds, tracerVars, targetVars
<1>5. CASE CompilerReaped(s)
  BY <1>1, <1>5 DEF CompilerReaped, WriteStatus, targetVars, IInv, TypeOK
<1>6. CASE \/ TargetExecs(s) \/ TargetFaults(s) \/ TargetAborts(s)
           \/ TimerExpires(s) \/ OutOfMemory(s)
  BY <1>1, <1>6 DEF TargetExecs, TargetFaults, TargetAborts, TimerExpires, OutOfMemory,
     Stops, Killed, tracerVars, IInv, TypeOK
<1>7. ASSUME NEW call \in Call, TargetCalls(s, call) PROVE Within(s)'
  <2>1. CASE Traced(s) /\ Stops(s, call)
    BY <1>1, <1>7, <2>1 DEF TargetCalls, Execute, Stops, tracerVars, IInv, TypeOK
  <2>2. CASE ~Traced(s)
    BY <1>3, <1>7, <2>2 DEF TargetCalls, tracerVars
  <2> QED  BY <1>7, <2>1, <2>2 DEF TargetCalls
<1>8. CASE EvaluatorForks(s) \/ TracerWaits(s) \/ TracerReads(s) \/ TracerStarts(s) \/ TracerBans(s)
  BY <1>1, <1>8 DEF EvaluatorForks, ForkDiff, TracerWaits, TracerReads, TracerStarts, TracerBans,
     Resumes, Killed, targetVars, IInv, TypeOK
<1>9. CASE TracerTimesOut(s)
  BY <1>2, <1>9 DEF TracerTimesOut, Resumes, IInv, TypeOK
<1>10. CASE TracerAllows(s)
  <2>1. UNCHANGED report /\ (target[s] # "stopped" => UNCHANGED targetVars)
    BY <1>10 DEF TracerAllows
  <2>2. CASE target[s] = "stopped"
    <3>1. waited[s] # "nocall" /\ Read(s)
      BY <1>10, JudgeAssumption DEF TracerAllows, Decides, Allowed, SyscallName, Read
    <3>2. status[s] \in Call
      BY <2>2, <3>1 DEF IInv, Inductive, TracerStage
    <3>3. Execute(s, status[s])
      BY <1>10, <2>2 DEF TracerAllows
    <3> QED  BY <1>3, <2>1, <2>2, <3>2, <3>3
  <2>3. CASE target[s] # "stopped"
    BY <1>1, <2>1, <2>3 DEF targetVars
  <2> QED  BY <2>2, <2>3
<1>11. CASE TracerSeesExit(s)
  BY <1>1, <1>11 DEF TracerSeesExit, targetVars
<1>12. CASE TracerSeesDeath(s)
  <2> DEFINE verdict == SignalVerdict(status[s], overflow[s])
  <2>1. UNCHANGED <<ran, target>> /\ verdict # "AC"
    BY <1>12 DEF TracerSeesDeath, targetVars, SignalVerdict
  <2>2. CASE verdict = "none"
    BY <1>1, <1>12, <2>1, <2>2 DEF TracerSeesDeath
  <2>3. CASE verdict # "none"
    BY <1>2, <1>12, <2>1, <2>3 DEF TracerSeesDeath
  <2> QED  BY <2>2, <2>3
<1>13. CASE DiffReaped(s)
  <2>1. UNCHANGED <<ran, target>> /\ (Linux => \A call \in ran[s] : OnList(s, call))
    BY <1>13 DEF DiffReaped, targetVars, IInv, Inductive, TargetStory, Ended
  <2> QED  BY <2>1 DEF Within, OnList
<1> QED
  BY <1>4, <1>5, <1>6, <1>7, <1>8, <1>9, <1>10, <1>11, <1>12, <1>13
     DEF Acts, TargetNext, EvaluatorNext

\* Under the tracer a program is accepted only for calls whose numbers' names
\* its whitelist has, the one that ended it among them: where the list has no
\* name that a number to exit with goes by, a submission is never accepted,
\* however right its output.
AcceptedWithinWhitelist ==
  Linux => \A s \in Session :
             report[s] = "AC" => /\ "exit_group" \in ran[s]
                                 /\ \A call \in ran[s] : OnList(s, call)

\* AcceptedWithinWhitelist holds if fork and diff work.
THEOREM AcceptedAllowed ==
  ASSUME Fault \cap {"fork", "diff"} = {}
  PROVE  Spec => []AcceptedWithinWhitelist
<1> DEFINE Inv == IInv /\ \A x \in Session : Compared(x) /\ Within(x)
<1>1. Init => Inv
  BY InitEstablishes DEF Init, Compared, Within
<1>2. Inv /\ [Next]_vars => Inv'
  <2> SUFFICES ASSUME Inv, [Next]_vars PROVE Inv'
    OBVIOUS
  <2>1. IInv' /\ \A x \in Session : Compared(x)'
    BY NextKeeps, AllCompared
  <2>2. ASSUME NEW x \in Session PROVE Within(x)'
    <3>1. CASE StopServing \/ LoopEnds \/ UNCHANGED vars
      BY <3>1 DEF StopServing, LoopEnds, vars, tracerVars, targetVars, Within, OnList
    <3>2. ASSUME NEW s \in Session, Acts(s), s # x PROVE Within(x)'
      BY <3>2, Frame DEF Untouched, Within, OnList
    <3> QED  BY <3>1, <3>2, WithinKept, NextActs
  <2> QED  BY <2>1, <2>2
<1>3. Inv => AcceptedWithinWhitelist
  BY DEF Compared, Within, AcceptedWithinWhitelist
<1> HIDE DEF Inv
<1> QED  BY <1>1, <1>2, <1>3, PTL DEF Spec
-----------------------------------------------------------------------------
(***************************************************************************)
(* What Judge takes for granted of its parameters, proved of the code that *)
(* makes them (Submission).                                                *)
(***************************************************************************)
\* What a submission gives is kept, and what it leaves out is the default's
\* (config_parse.parse).
LEMMA ParseFills ==
  ASSUME NEW src, NEW defaults
  PROVE  /\ DOMAIN Parse(src, defaults) = DOMAIN src \cup DOMAIN defaults
         /\ \A i \in DOMAIN src : Parse(src, defaults)[i] = src[i]
         /\ \A i \in DOMAIN defaults \ DOMAIN src : Parse(src, defaults)[i] = defaults[i]
  BY DEF Parse

\* The time limit that evaluate_child_setup hands to setitimer is the
\* submission's to the microsecond, and it arms the timer if and only if it
\* is positive: Judge's Timed are the submissions with time > 0.
THEOREM TimeLimitExact ==
  ASSUME NEW time \in Int
  PROVE  /\ 1000000 * ItimerValue(time).tv_sec + ItimerValue(time).tv_usec = 1000 * time
         /\ Arms(ItimerValue(time)) <=> time > 0
<1> DEFINE sec == time \div 1000
           rest == time % 1000
<1>1. sec \in Int /\ rest \in 0..999 /\ time = 1000 * sec + rest
  BY SMT
<1>2. ItimerValue(time).tv_sec = sec /\ ItimerValue(time).tv_usec = rest * 1000
  BY DEF ItimerValue
<1> HIDE DEF sec, rest
<1>3. 1000000 * sec + (rest * 1000) = 1000 * time
  BY <1>1, SMT
<1>4. 0 <= rest * 1000 /\ rest * 1000 < 1000000 /\ (rest * 1000 > 0 <=> rest > 0)
  BY <1>1, SMT
<1>5. time > 0 <=> sec >= 0 /\ (sec > 0 \/ rest > 0)
  BY <1>1, SMT
<1>6. Arms(ItimerValue(time)) <=> sec >= 0 /\ (sec > 0 \/ rest > 0)
  BY <1>1, <1>2, <1>4, SMT DEF Arms
<1> QED  BY <1>2, <1>3, <1>5, <1>6, SMT

\* A submission without a whitelist of its own may call exit_group if it is
\* in C, C++ or Python, and nothing at all otherwise: the tables of
\* caster.lua have empty lists for the other languages.  With
\* AcceptedAllowed: on Linux no program in Java, JavaScript or Lua is ever
\* accepted by default.
THEOREM DefaultCalls ==
  ASSUME NEW linux \in BOOLEAN, NEW src, "syscall_whitelist" \notin DOMAIN src,
         Args(src, linux).language \in Language
  PROVE  IF Args(src, linux).language \in {languages.C, languages.CXX, languages.Python}
         THEN "exit_group" \in Args(src, linux).syscall_whitelist
         ELSE Args(src, linux).syscall_whitelist = {}
<1> DEFINE args == Parse(src, DefaultArgs(linux))
           table == [syscall_whitelist |-> syscall_whitelist[args.language]]
           l == Args(src, linux).language
<1>1. DOMAIN args = DOMAIN src \cup DOMAIN DefaultArgs(linux)
  BY ParseFills
<1>2. "language" \in DOMAIN DefaultArgs(linux)
      /\ "syscall_whitelist" \notin DOMAIN DefaultArgs(linux)
  BY DEF DefaultArgs
<1>3. "language" \in DOMAIN args /\ "syscall_whitelist" \notin DOMAIN args
  BY <1>1, <1>2
<1>4. Args(src, linux) = Parse(args, table)
  BY DEF Args
<1>5. DOMAIN table = {"syscall_whitelist"}
      /\ table.syscall_whitelist = syscall_whitelist[args.language]
  OBVIOUS
<1> HIDE DEF args, table
<1>6. l = args.language /\ Args(src, linux).syscall_whitelist = syscall_whitelist[l]
  <2>0. /\ \A i \in DOMAIN args : Parse(args, table)[i] = args[i]
        /\ \A i \in DOMAIN table \ DOMAIN args : Parse(args, table)[i] = table[i]
    BY ParseFills, Zenon
  <2>1. Args(src, linux)["language"] = args["language"]
    BY <1>3, <1>4, <2>0
  <2>2. Args(src, linux)["syscall_whitelist"] = table["syscall_whitelist"]
    BY <1>3, <1>4, <1>5, <2>0
  <2> QED  BY <1>5, <2>1, <2>2
<1>7. "exit_group" \in CompiledCalls /\ "exit_group" \in PythonCalls
  BY DEF CompiledCalls, PythonCalls
<1>8. \A i \in Language :
        IF i \in {languages.C, languages.CXX, languages.Python}
        THEN "exit_group" \in syscall_whitelist[i] ELSE syscall_whitelist[i] = {}
  BY <1>7 DEF syscall_whitelist, languages, Language
<1> QED  BY <1>6, <1>8
=============================================================================
