------------------------------ MODULE MCJudge ------------------------------
(***************************************************************************)
(* Judge for TLC, with the parameters that `judge` makes of four requests  *)
(* (module Submission): one with default arguments only, which is C++; one *)
(* in C with a whitelist of its own; and two that are interpreted, one of  *)
(* them under the empty whitelist, so that neither exit_group nor the      *)
(* number that zeroed registers show is on its list.  All of them name the *)
(* default report file.                                                    *)
(***************************************************************************)
EXTENDS Judge

Submissions == INSTANCE Submission

\* "new" is a number that the table of names does not know; "kill32" sends a
\* signal by int 0x80 with 37, which is alarm in the table.
MCCall == {"kill32", "new", "exit_group"}
MCRaising == {"kill32"}
MCOrigRax == [call \in MCCall |-> IF call = "kill32" THEN "alarm" ELSE call]
MCNumber == {"read", "open", "alarm", "new", "exit_group"}
MCNamed == MCNumber \ {"new"}

OwnList == {"read", "alarm", "new", "exit_group"}

Request ==
  [default |-> <<>>,
   c       |-> [language |-> 0, time |-> 700, syscall_whitelist |-> OwnList],
   python  |-> [language |-> 2, time |-> 1000],
   lua     |-> [language |-> 5]]

MCWhitelist ==
  [s \in Session |-> CASE s = "c" -> OwnList [] s = "lua" -> {}
                       [] OTHER -> {"read", "open", "exit_group"}]

MCOutfile == [s \in Session |-> "out.txt"]

\* The parameters are those that `judge` makes of the requests.
ASSUME Parameters ==
  \A s \in Session :
    LET args == Submissions!Args(Request[s], Linux)
    IN  /\ s \in Compiled <=> Submissions!needscompile(args.language)
        /\ s \in Timed <=> Submissions!Arms(Submissions!ItimerValue(args.time))
        /\ Outfile[s] = args.outfile
        /\ Whitelist[s] = args.syscall_whitelist \cap Number

\* What Judge's Runnable takes for granted: by default a submission that is
\* compiled has its executable run, and one that is not has its source run
\* by an interpreter.  Only Java has no compiler by default: its compiler
\* never succeeds.
ASSUME DefaultPrograms ==
  \A l \in Submissions!Language, linux \in BOOLEAN :
    LET args == Submissions!Args([language |-> l], linux)
    IN  IF Submissions!needscompile(l)
        THEN /\ Submissions!Executed(args) = <<"a.out">>
             /\ Submissions!Compiler(args) = "" <=> l = Submissions!languages.Java
        ELSE Submissions!Executed(args)[2] = args.source
=============================================================================
