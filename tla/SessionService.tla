--------------------------- MODULE SessionService ---------------------------
(***************************************************************************)
(* What the command protocol of oj/iojxd.lua promises its clients: each    *)
(* has a session of its own, a request is executed in a session that has   *)
(* authenticated and in no other, a session that is over stays over, and   *)
(* after EXIT no session begins.  While it accepts clients or serves one,  *)
(* the server may crash; otherwise only a client or an EXIT of its own     *)
(* ends a session.                                                         *)
(***************************************************************************)
CONSTANT Client

VARIABLES
  session,     \* "none", "open", "authed", "over"
  executed,    \* the clients a request was executed for
  server       \* "starting", "accepting", "closed" (after EXIT or a crash)

vars == <<session, executed, server>>

Init ==
  /\ session = [k \in Client |-> "none"]
  /\ executed = {} /\ server = "starting"

InSession(k) == session[k] \in {"open", "authed"}

Start ==
  /\ server = "starting" /\ server' = "accepting"
  /\ UNCHANGED <<session, executed>>

Open(k) ==
  /\ server = "accepting" /\ session[k] = "none"
  /\ session' = [session EXCEPT ![k] = "open"]
  /\ UNCHANGED <<executed, server>>

Authenticate(k) ==
  /\ InSession(k)
  /\ session' = [session EXCEPT ![k] = "authed"]
  /\ UNCHANGED <<executed, server>>

Execute(k) ==
  /\ session[k] = "authed"
  /\ executed' = executed \cup {k}
  /\ UNCHANGED <<session, server>>

\* The client leaves, or a request of its is refused.
End(k) ==
  /\ InSession(k)
  /\ session' = [session EXCEPT ![k] = "over"]
  /\ UNCHANGED <<executed, server>>

\* EXIT ends the session it comes from, and those that have not begun.
Exit(k) ==
  /\ InSession(k)
  /\ \E cut \in SUBSET {j \in Client : session[j] = "none"} :
       session' = [j \in Client |-> IF j \in cut \cup {k} THEN "over" ELSE session[j]]
  /\ server' = "closed"
  /\ UNCHANGED executed

Crash ==
  /\ server # "closed" \/ \E k \in Client : InSession(k)
  /\ server' = "closed"
  /\ \E cut \in SUBSET {j \in Client : session[j] = "none"} :
       session' = [j \in Client |-> IF j \in cut \/ InSession(j) THEN "over" ELSE session[j]]
  /\ UNCHANGED executed

Next ==
  \/ Start \/ Crash
  \/ \E k \in Client : Open(k) \/ Authenticate(k) \/ Execute(k) \/ End(k) \/ Exit(k)

Spec == Init /\ [][Next]_vars
=============================================================================
