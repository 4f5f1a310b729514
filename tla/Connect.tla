------------------------------ MODULE Connect ------------------------------
(***************************************************************************)
(* Connecting sockets: iojx.sock.tcp.connect (ixlb_sock_connect over       *)
(* ixfd_commonsock_tcp_createnconnect), its callbacks, and the connection  *)
(* that comes of it until its peer ends it.                                *)
(*                                                                         *)
(* Each attempt has a watcher and arguments of its own; the socket object  *)
(* points to the latest.  A socket that failed to connect may be given     *)
(* another attempt, also by the callback that is told of the failure,      *)
(* which runs before the old watcher is stopped and its arguments freed.   *)
(*                                                                         *)
(* Scripts connect a socket only while no attempt of it is under way, and  *)
(* free it only when none is and its connection is closed: nothing in      *)
(* sock.cxx checks either.                                                 *)
(***************************************************************************)
EXTENDS Integers

CONSTANTS
  Sock,        \* places for socket objects (struct ixfd_sock)
  Attempt,     \* attempts to connect, with their watchers and arguments
  Fd           \* descriptors that are free at the start

ASSUME ConnectAssumption == Attempt \cap {"none", "free"} = {} /\ Fd \subseteq Nat \ {0}

VARIABLES
  live,        \* socket objects that are allocated
  connected,   \* those with type = IXFD_SOCK_TCP
  sfd,         \* the objects' fd: 0 at first, -1 if socket(2) failed
  context,     \* default_ctx: "none", "open" (active, watched), "closed"
  sockOf,      \* an attempt's arguments: the socket object
  started,     \* attempts that were made
  active,      \* attempts whose connect watcher is active
  args,        \* attempts whose arguments are allocated
  told,        \* history: how often an attempt's script was called back
  file,        \* per descriptor: the attempt whose socket is behind it
  answer       \* per attempt: what the network says of its connection

objectVars == <<live, connected, sfd, context>>
attemptVars == <<sockOf, started, active, args, told>>
vars == <<objectVars, attemptVars, file, answer>>

Init ==
  /\ live = {} /\ connected = {}
  /\ sfd = [s \in Sock |-> 0] /\ context = [s \in Sock |-> "none"]
  /\ sockOf = [a \in Attempt |-> "none"]
  /\ started = {} /\ active = {} /\ args = {}
  /\ told = [a \in Attempt |-> 0]
  /\ file = [f \in Fd |-> "free"]
  /\ answer = [a \in Attempt |-> "none"]

Connecting(s) == \E a \in active : sockOf[a] = s
-----------------------------------------------------------------------------
(* What a script calls.                                                    *)

\* ixlb_sock_create
Create(s) ==
  /\ s \notin live
  /\ live' = live \cup {s} /\ connected' = connected \ {s}
  /\ sfd' = [sfd EXCEPT ![s] = 0] /\ context' = [context EXCEPT ![s] = "none"]
  /\ UNCHANGED <<attemptVars, file, answer>>

\* socket(2): a free descriptor, or none when all are in use.
OpenSocket(a, s, f) ==
  /\ f \in IF \E g \in Fd : file[g] = "free" THEN {g \in Fd : file[g] = "free"} ELSE {-1}
  /\ file' = [g \in Fd |-> IF g = f THEN a ELSE file[g]]
  /\ sfd' = [sfd EXCEPT ![s] = f]

\* The attempt is under way: connect(2) gave 0 or EINPROGRESS.
Begins(a, s) ==
  /\ a \notin started
  /\ \E f \in Fd : OpenSocket(a, s, f)
  /\ started' = started \cup {a} /\ args' = args \cup {a}
  /\ sockOf' = [sockOf EXCEPT ![a] = s]

\* Mutant: a connection in progress is not waited for.
StartConnect_Not(a) == active

\* ev_io_start
StartConnect(a) == active \cup {a}

TryConnect(s, a) ==
  /\ s \in live \ connected /\ ~Connecting(s)
  /\ Begins(a, s)
  /\ active' = StartConnect(a)
  /\ UNCHANGED <<live, connected, context, told, answer>>

\* connect(2) failed at once, as it does without a descriptor: the script is
\* told before createnconnect returns.  Its arguments are never freed.
FailAtOnce(s, a) ==
  /\ s \in live \ connected /\ ~Connecting(s) /\ a \notin started
  /\ \E f \in Fd \cup {-1} : OpenSocket(a, s, f)
  /\ started' = started \cup {a} /\ args' = args \cup {a}
  /\ sockOf' = [sockOf EXCEPT ![a] = s]
  /\ told' = [told EXCEPT ![a] = @ + 1]
  /\ UNCHANGED <<live, connected, context, active, answer>>

\* ixfd_commonsock_free
Free(s) ==
  /\ s \in live /\ ~Connecting(s) /\ context[s] # "open"
  /\ \E a \in started : sockOf[a] = s
  /\ live' = live \ {s}
  /\ UNCHANGED <<connected, sfd, context, attemptVars, file, answer>>
-----------------------------------------------------------------------------
(* The network, and the loop.                                              *)

Answer(a) ==
  /\ a \in active /\ answer[a] = "none"
  /\ \E r \in {"accepted", "refused"} : answer' = [answer EXCEPT ![a] = r]
  /\ UNCHANGED <<objectVars, attemptVars, file>>

\* Mutant: sock->event_connect is stopped instead of w_.
Stopped_Latest(w, latest) == latest

\* ev_io_stop(loop, w_): the watcher that was called, not the socket's latest.
Stopped(w, latest) == w

\* Mutant: the descriptor is left open.
CloseFile_Not(f) == file

CloseFile(f) == [file EXCEPT ![f] = "free"]

\* SO_ERROR of the socket behind sock->fd
SocketError(s) == answer[file[sfd[s]]] = "refused"

\* Mutant: the result of getsockopt is not looked at.
Succeeds_Always(s) == TRUE

Succeeds(s) == ~SocketError(s)

\* Mutant: active is not set.
NewContext_Inactive == "inactive"

NewContext == "open"

\* ixfd_commonsock_connect_cb when the connection stands.
ConnectSucceeds(a) ==
  /\ a \in active /\ answer[a] # "none" /\ Succeeds(sockOf[a])
  /\ context' = [context EXCEPT ![sockOf[a]] = NewContext]
  /\ connected' = connected \cup {sockOf[a]}
  /\ told' = [told EXCEPT ![a] = @ + 1]
  /\ args' = args \ {a} /\ active' = active \ {Stopped(a, a)}
  /\ UNCHANGED <<live, sfd, sockOf, started, file, answer>>

\* ixfd_commonsock_connect_cb when it does not, and the script lets it be.
ConnectFails(a) ==
  /\ a \in active /\ answer[a] # "none" /\ ~Succeeds(sockOf[a])
  /\ told' = [told EXCEPT ![a] = @ + 1]
  /\ args' = args \ {a} /\ active' = active \ {Stopped(a, a)}
  /\ UNCHANGED <<objectVars, sockOf, started, file, answer>>

\* The same, with a script that tries again from the callback: the watcher
\* that is stopped and the arguments that are freed are still the old ones.
\* (When the new attempt fails at once, FailAtOnce may as well come after.)
FailsAndRetries(a, b) ==
  /\ a \in active /\ answer[a] # "none" /\ ~Succeeds(sockOf[a]) /\ b \notin started
  /\ told' = [told EXCEPT ![a] = @ + 1]
  /\ \E f \in Fd : OpenSocket(b, sockOf[a], f)
  /\ started' = started \cup {b} /\ args' = (args \cup {b}) \ {a}
  /\ sockOf' = [sockOf EXCEPT ![b] = sockOf[a]]
  /\ active' = (active \cup {b}) \ {Stopped(a, b)}
  /\ UNCHANGED <<live, connected, context, answer>>

\* ixfd_commonsock_read_cb at the end of file, and ixfd_commonsock_close.
PeerEnds(s) ==
  /\ s \in live /\ context[s] = "open"
  /\ context' = [context EXCEPT ![s] = "closed"]
  /\ file' = CloseFile(sfd[s])
  /\ UNCHANGED <<live, connected, sfd, attemptVars, answer>>

ConnectCb(a) ==
  ConnectSucceeds(a) \/ ConnectFails(a) \/ (\E b \in Attempt : FailsAndRetries(a, b))

Next ==
  \/ \E s \in Sock :
       \/ Create(s) \/ Free(s) \/ PeerEnds(s)
       \/ \E a \in Attempt : TryConnect(s, a) \/ FailAtOnce(s, a)
  \/ \E a \in Attempt : Answer(a) \/ ConnectCb(a)

Spec == Init /\ [][Next]_vars

\* Every attempt to connect is answered, be it by the kernel's own timeout,
\* and the loop calls the watchers that are ready.
Fairness == \A a \in Attempt : WF_vars(Answer(a)) /\ WF_vars(ConnectCb(a))

FairSpec == Spec /\ Fairness
-----------------------------------------------------------------------------
(* Properties.                                                             *)

\* Types of the socket objects and of the attempts (struct ixfd_connect_args).
TypeOK ==
  /\ live \subseteq Sock /\ connected \subseteq Sock
  /\ sfd \in [Sock -> Fd \cup {0, -1}] /\ context \in [Sock -> {"none", "open", "closed"}]
  /\ sockOf \in [Attempt -> Sock \cup {"none"}]
  /\ started \subseteq Attempt /\ active \subseteq started /\ args \subseteq started
  /\ told \in [Attempt -> Nat]
  /\ file \in [Fd -> Attempt \cup {"free"}]
  /\ answer \in [Attempt -> {"none", "accepted", "refused"}]

\* A watcher that may be called back has its arguments, its socket object,
\* whose descriptor is the attempt's own, and a script that was not told yet
\* (args and sock in ixfd_commonsock_connect_cb, and the ixlb_connect_data
\* that either callback of ixlb_sock_connect frees).
CallbackSound ==
  \A a \in active :
    /\ a \in args /\ told[a] = 0
    /\ sockOf[a] \in live /\ sfd[sockOf[a]] \in Fd /\ file[sfd[sockOf[a]]] = a

\* An open connection is one that the peer accepted, behind the descriptor
\* that the context reads from.
OpenIsAccepted ==
  \A s \in live :
    context[s] = "open" => /\ sfd[s] \in Fd /\ file[sfd[s]] \in Attempt
                           /\ answer[file[sfd[s]]] = "accepted"

\* Only an attempt that failed leaves its descriptor open: those of the
\* others are closed with their connection.
OnlyFailuresLeak ==
  \A f \in Fd :
    \/ file[f] = "free" \/ file[f] \in active
    \/ answer[file[f]] # "accepted"
    \/ context[sockOf[file[f]]] = "open" /\ sfd[sockOf[file[f]]] = f

\* Every attempt's script is told how it went, also when it tries again from
\* the callback.
AttemptTold == \A a \in Attempt : (a \in started) ~> (told[a] = 1)
=============================================================================
