---------------------------- MODULE JudgeService ----------------------------
(***************************************************************************)
(* What the judge promises a client: while the server is up submissions    *)
(* are taken; each gets at most one verdict, written into the report file  *)
(* that it names over whatever that file held, the verdict of another      *)
(* submission included.  A compilation error is reported by the server     *)
(* itself, so only for a language that is compiled and only while the      *)
(* server is up; every other verdict is reported by a process that         *)
(* outlives the server.                                                    *)
(***************************************************************************)
CONSTANTS Session,   \* the submissions
          Compiled,  \* those in a language that needs a compiler
          Outfile    \* the report file that each of them names

VARIABLES up,        \* the server's event loop is running
          submitted, \* the submissions taken
          verdict,   \* the verdict reported of each submission
          holder     \* the submission whose verdict each report file holds

serviceVars == <<up, submitted, verdict, holder>>

StatusCode == {"UNKNOWN", "AC", "WA", "TLE", "MLE", "RE", "CE"}

\* UNKNOWN has a code, and nothing ever reports it.
Verdict == StatusCode \ {"UNKNOWN"}
NoVerdict == "none"

Init ==
  /\ up = TRUE /\ submitted = {} /\ verdict = [s \in Session |-> NoVerdict]
  /\ holder = [f \in {Outfile[s] : s \in Session} |-> "none"]

Submit(s) ==
  /\ up /\ s \notin submitted
  /\ submitted' = submitted \cup {s}
  /\ UNCHANGED <<up, verdict, holder>>

Report(s, v) ==
  /\ s \in submitted /\ verdict[s] = NoVerdict
  /\ v = "CE" => s \in Compiled /\ up
  /\ verdict' = [verdict EXCEPT ![s] = v]
  /\ holder' = [holder EXCEPT ![Outfile[s]] = s]
  /\ UNCHANGED <<up, submitted>>

Stop ==
  /\ up /\ up' = FALSE
  /\ UNCHANGED <<submitted, verdict, holder>>

Next ==
  \/ \E s \in Session : Submit(s) \/ \E v \in Verdict : Report(s, v)
  \/ Stop

Spec == Init /\ [][Next]_serviceVars
=============================================================================
