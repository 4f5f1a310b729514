-------------------------------- MODULE Conn --------------------------------
(***************************************************************************)
(* The connections of the server: sock.cxx under the reference-counted     *)
(* binding of luafoundx.cxx, driven by the handlers that oj/iojxd.lua      *)
(* installs (on_accept, on_read with execute_cmd, on_close).               *)
(*                                                                         *)
(* A connection is a context in memory (a Slot), which libev's read        *)
(* watcher points to, and a descriptor the kernel keeps a socket behind.   *)
(* Both are reused.  A context lives while it holds a reference to itself  *)
(* (m_this_ref) or a Lua userdata refers to it; the garbage collector may  *)
(* finalize the userdata between any two events.                           *)
(*                                                                         *)
(* A client may wait for each answer, as test/client_demo.py does, or not: *)
(* messages that arrive together are read as one, and a client may be gone *)
(* when its answer is written.  Messages are shorter than the read buffer, *)
(* and answers are a few bytes, which fit the window of the client; what   *)
(* happens when they do not is in module SockWrite.                        *)
(***************************************************************************)
EXTENDS Naturals

CONSTANTS
  Client,      \* clients, each connecting once
  Slot,        \* places malloc can give to a context
  Fd,          \* descriptors the server may have open, numbers
  ListenFd     \* the listening socket's

ASSUME ConnAssumption ==
  /\ Fd \subseteq Nat /\ ListenFd \in Fd
  /\ {"free", "listener"} \cap Client = {}

VARIABLES
  main,        \* "starting", "up", "exited", or a Death
  phase,       \* per client: "new", "backlog", "accepted", "over"
  gone,        \* clients that have closed their end
  inbox,       \* per client: what it sent that is not read yet, or "none"
  unread,      \* clients with an answer in their window
  reset,       \* clients whose end has reset the connection
  socket,      \* per descriptor: what is open behind it, or "free"
  listening,   \* the accept watcher is active
  live,        \* slots that hold an allocated context
  fd,          \* a context's descriptor
  reading,     \* contexts whose read watcher is active
  self,        \* contexts that refer to themselves (m_this_ref)
  held,        \* contexts that a Lua userdata refers to
  authed,      \* contexts whose data says authed = true
  timers,      \* delayed_gc timers that run
  proved,      \* history: clients whose AUTH was read
  executed,    \* history: clients a request was executed for
  careless     \* history: a client did not wait, or sent no command there is

kernelVars == <<phase, socket>>
clientVars == <<gone, inbox, unread, reset, careless>>
contextVars == <<live, fd, reading, self, held, authed>>
historyVars == <<proved, executed>>
vars == <<main, kernelVars, clientVars, listening, contextVars, timers, historyVars>>

\* What a read can find: two of the commands, another text that begins with
\* '$', or any other text.
Message == {"AUTH", "EXIT", "unknown", "request"}

\* How the process can die: an assertion about the socket that it could not
\* bind, about a client that was gone when it was accepted, or about the
\* descriptor there was not; a signal or an exception that nothing handles.
Death == {"unbound", "aborted", "starved", "killed"}

\* A message that arrives before the last one is read: the text of the two
\* begins like the first, and is no command.
Joined(old, new) ==
  IF old = "none" THEN new ELSE IF old = "request" THEN "request" ELSE "unknown"

Init ==
  /\ main = "starting"
  /\ phase = [k \in Client |-> "new"]
  /\ gone = {} /\ inbox = [k \in Client |-> "none"]
  /\ unread = {} /\ reset = {} /\ careless = FALSE
  /\ socket = [f \in Fd |-> "free"] /\ listening = FALSE
  /\ live = {} /\ fd = [s \in Slot |-> ListenFd]
  /\ reading = {} /\ self = {} /\ held = {} /\ authed = {}
  /\ timers = 0
  /\ proved = {} /\ executed = {}
-----------------------------------------------------------------------------
(* The clients.                                                            *)

Connect(k) ==
  /\ phase[k] = "new" /\ socket[ListenFd] = "listener"
  /\ phase' = [phase EXCEPT ![k] = "backlog"]
  /\ UNCHANGED <<main, socket, clientVars, listening, contextVars, timers, historyVars>>

\* The client waits for its answer and sends a command there is, or a request.
Careful(k, m) == inbox[k] = "none" /\ k \notin unread /\ m # "unknown"

Send(k, m) ==
  /\ phase[k] \in {"backlog", "accepted"} /\ k \notin gone
  /\ inbox' = [inbox EXCEPT ![k] = Joined(@, m)]
  /\ careless' = (careless \/ ~Careful(k, m))
  /\ UNCHANGED <<main, kernelVars, gone, unread, reset>>
  /\ UNCHANGED <<listening, contextVars, timers, historyVars>>

Receive(k) ==
  /\ k \in unread /\ phase[k] = "accepted"
  /\ unread' = unread \ {k}
  /\ UNCHANGED <<main, kernelVars, gone, inbox, reset, careless>>
  /\ UNCHANGED <<listening, contextVars, timers, historyVars>>

\* The kernel resets a connection that is closed with data in its window.  A
\* client that leaves the backlog has not waited to be accepted.
Leave(k) ==
  /\ phase[k] \in {"backlog", "accepted"} /\ k \notin gone
  /\ gone' = gone \cup {k}
  /\ reset' = IF k \in unread THEN reset \cup {k} ELSE reset
  /\ unread' = unread \ {k}
  /\ careless' = (careless \/ phase[k] = "backlog")
  /\ UNCHANGED <<main, kernelVars, inbox>>
  /\ UNCHANGED <<listening, contextVars, timers, historyVars>>
-----------------------------------------------------------------------------
(* Contexts: ixfd_commonsock_create_ctx, _close, _freectx.                 *)

\* The kernel gives the lowest descriptor that is free.
LowestFree(f) ==
  /\ socket[f] = "free"
  /\ \A g \in Fd : socket[g] = "free" => f <= g

\* Mutant: the new wrapper keeps the data that the slot held before.
NewData_Kept(s) == authed

\* LuaRef data of a new wrapper is nil.
NewData(s) == authed \ {s}


\* ev_io_start
StartReading(s) == reading \cup {s}

\* Mutant: the watcher is left to the loop.
StopReading_Left(s) == reading

\* ev_io_stop
StopReading(s) == reading \ {s}

\* Mutant: closing does not give up the wrapper's reference to itself.
UnRef_Kept(s) == self

UnRef(s) == self \ {s}

\* The descriptors are closed, whatever is behind them; what was is over.
\* Closing the listening socket resets the clients that nobody accepted.
CloseFds(fs) ==
  /\ socket' = [f \in Fd |-> IF f \in fs THEN "free" ELSE socket[f]]
  /\ phase' = [k \in Client |->
       IF \/ \E f \in fs : socket[f] = k
          \/ phase[k] = "backlog" /\ \E f \in fs : socket[f] = "listener"
       THEN "over" ELSE phase[k]]

\* ixfd_commonsock_close and un_ref, in either order: the userdata that the
\* handler was called with keeps the context alive until it returns.
CloseContext(s) ==
  /\ reading' = StopReading(s)
  /\ self' = UnRef(s)

\* The process is gone with its memory and descriptors.
Dies(how) ==
  /\ main' = how /\ listening' = FALSE
  /\ reading' = {} /\ self' = {} /\ held' = {} /\ live' = {} /\ timers' = 0
  /\ CloseFds(Fd)
  /\ UNCHANGED <<clientVars, fd, authed, historyVars>>

\* Userdata is finalized: what nothing refers to any more is freed.
Finalized(ss) == live \ (ss \ self)
-----------------------------------------------------------------------------
(* The script, which makes the server listen.                              *)

\* ixlbx_tcp_base::start: ixfd_commonsock_tcp_createnbind and _listen.
Start ==
  /\ main = "starting"
  /\ main' = "up" /\ listening' = TRUE
  /\ socket' = [socket EXCEPT ![ListenFd] = "listener"]
  /\ UNCHANGED <<phase, clientVars, contextVars, timers, historyVars>>

\* bind(2) fails, type stays IXFD_SOCK_UNKNOWN, and ixfd_commonsock_tcp_listen
\* asserts that it is not.
StartFails == main = "starting" /\ Dies("unbound")

-----------------------------------------------------------------------------
(* The event loop.                                                         *)

\* Mutant: the context keeps the zero of its memset.
AcceptedFd_Zero(f) == 0

\* ctx->fd = fd
AcceptedFd(f) == f

\* ixfd_commonsock_accept_cb: one connection per call.
Accept(k) ==
  /\ main = "up" /\ listening /\ phase[k] = "backlog"
  /\ \E f \in Fd, s \in Slot \ live :
       /\ LowestFree(f)
       /\ socket' = [socket EXCEPT ![f] = k]
       /\ fd' = [fd EXCEPT ![s] = AcceptedFd(f)]
       /\ live' = live \cup {s}
       /\ reading' = StartReading(s)
       /\ self' = self \cup {s}
       /\ held' = held \cup {s}
       /\ authed' = NewData(s)
  /\ phase' = [phase EXCEPT ![k] = "accepted"]
  /\ UNCHANGED <<main, clientVars, listening, timers, historyVars>>

\* accept(2) gives -1, because the client has gone or no descriptor is left.
\* A context is made for that, and ev_io_start asserts that it is not negative.
AcceptFails(k) ==
  /\ main = "up" /\ listening /\ phase[k] = "backlog"
  /\ \/ k \in gone /\ Dies("aborted")
     \/ (\A f \in Fd : socket[f] # "free") /\ Dies("starved")

\* The client behind a context's descriptor, as the kernel has it.
Behind(s) == socket[fd[s]]

\* Every handler of a message writes one answer.  A peer that has gone answers
\* it with a reset.
Answers(k) ==
  IF k \in gone THEN reset' = reset \cup {k} /\ UNCHANGED unread
                ELSE unread' = unread \cup {k} /\ UNCHANGED reset

\* ixfd_commonsock_read_cb has read message m for context s: the callback is
\* called with a new userdata.
Reads(s, m) ==
  /\ main = "up" /\ s \in reading /\ Behind(s) \in Client
  /\ inbox[Behind(s)] = m
  /\ inbox' = [inbox EXCEPT ![Behind(s)] = "none"]
  /\ held' = held \cup {s}
  /\ Answers(Behind(s)) /\ UNCHANGED careless

\* commands.AUTH
ReadAuth(s) ==
  /\ Reads(s, "AUTH")
  /\ authed' = authed \cup {s}
  /\ proved' = proved \cup {Behind(s)}
  /\ UNCHANGED <<main, kernelVars, gone, listening, live, fd, reading, self, timers, executed>>

\* Mutant: whoever is connected may have requests executed.
MayExecute_Anyone(s) == s \in reading

\* ctx.data ~= nil and ctx.data.authed == true
MayExecute(s) == s \in authed

\* A text that does not load is answered and not executed.
ReadRequest(s) ==
  /\ Reads(s, "request") /\ MayExecute(s)
  /\ \E loads \in BOOLEAN :
       executed' = IF loads THEN executed \cup {Behind(s)} ELSE executed
  /\ UNCHANGED <<main, kernelVars, gone, listening, live, fd, reading, self, authed, timers, proved>>

ReadRefused(s) ==
  /\ Reads(s, "request") /\ ~MayExecute(s)
  /\ timers' = timers + 1
  /\ CloseContext(s) /\ CloseFds({fd[s]})
  /\ UNCHANGED <<main, gone, listening, live, fd, authed, historyVars>>

\* commands[cmd] is nil: calling it is an error, and the exception that
\* LuaBridge makes of it leaves the handler, the loop and main.
ReadUnknown(s) ==
  /\ main = "up" /\ s \in reading /\ Behind(s) \in Client
  /\ inbox[Behind(s)] = "unknown"
  /\ Dies("killed")

\* Mutant: an answer is written in two pieces.
WriteBroken_InPieces(s) == Behind(s) \in gone

\* What write(2) finds: the peer has reset the connection.
WriteBroken(s) == Behind(s) \in reset

\* SIGPIPE, which nothing ignores, as any of the handlers answers.  (A reset
\* that is only noticed by a write gives an error, -1, which
\* ixfd_commonsock_write takes for success: the other handlers.)
ReadBroken(s) ==
  /\ main = "up" /\ s \in reading /\ Behind(s) \in Client
  /\ inbox[Behind(s)] \in Message \ {"unknown"} /\ WriteBroken(s)
  /\ Dies("killed")

\* Mutant: EXIT stops the accept watcher and leaves the socket open.
ExitFds_Own(s) == {fd[s]}

\* commands.EXIT closes the connection and the listening socket, once more if
\* another EXIT came before.
ExitFds(s) == {fd[s], ListenFd}

ReadExit(s) ==
  /\ Reads(s, "EXIT")
  /\ CloseContext(s) /\ CloseFds(ExitFds(s))
  /\ listening' = FALSE
  /\ UNCHANGED <<main, gone, live, fd, authed, timers, historyVars>>

\* Mutant: on_close schedules no collection.
TimersAfterClose_None == timers

\* delayed_gc, from on_close
TimersAfterClose == timers + 1

\* read returned 0: on_close, un_ref, ixfd_commonsock_close.
ReadEof(s) ==
  /\ main = "up" /\ s \in reading /\ Behind(s) \in Client
  /\ Behind(s) \in gone /\ inbox[Behind(s)] = "none"
  /\ held' = held \cup {s}
  /\ timers' = TimersAfterClose
  /\ CloseContext(s) /\ CloseFds({fd[s]})
  /\ UNCHANGED <<main, clientVars, listening, live, fd, authed, historyVars>>

\* The callback of delayed_gc's timer: a full collection.
CollectDelayed ==
  /\ main = "up" /\ timers > 0
  /\ timers' = timers - 1
  /\ live' = Finalized(held) /\ held' = {}
  /\ UNCHANGED <<main, kernelVars, clientVars, listening, fd, reading, self, authed, historyVars>>

\* The collector by itself, as Lua code allocates.
CollectSome ==
  /\ main = "up"
  /\ \E s \in held : live' = Finalized({s}) /\ held' = held \ {s}
  /\ UNCHANGED <<main, kernelVars, clientVars, listening, fd, reading, self, authed, timers, historyVars>>

\* ev_run returns when no watcher is active.
LoopIdle == ~listening /\ reading = {} /\ timers = 0

\* ixc_destroy_context finalizes every userdata; the kernel closes the rest.
LoopEnds ==
  /\ main = "up" /\ LoopIdle
  /\ main' = "exited"
  /\ live' = Finalized(held) /\ held' = {}
  /\ CloseFds(Fd)
  /\ UNCHANGED <<clientVars, listening, fd, reading, self, authed, timers, historyVars>>

ReadAny(s) ==
  \/ ReadAuth(s) \/ ReadRequest(s) \/ ReadRefused(s) \/ ReadExit(s) \/ ReadEof(s)
  \/ ReadUnknown(s) \/ ReadBroken(s)

Next ==
  \/ Start \/ StartFails
  \/ \E k \in Client : Connect(k) \/ (\E m \in Message : Send(k, m)) \/ Receive(k) \/ Leave(k)
  \/ \E k \in Client : Accept(k) \/ AcceptFails(k)
  \/ \E s \in Slot : ReadAny(s)
  \/ CollectDelayed \/ CollectSome \/ LoopEnds

Spec == Init /\ [][Next]_vars

\* ev_run calls the watchers whose events have happened, round by round, and
\* returns when there are none.  Nothing is asked of the clients, nor of the
\* collector when no timer calls it.
Fairness ==
  /\ \A k \in Client : WF_vars(Accept(k) \/ AcceptFails(k))
  /\ \A s \in Slot : WF_vars(ReadAny(s))
  /\ WF_vars(CollectDelayed) /\ WF_vars(LoopEnds)

FairSpec == Spec /\ Fairness
-----------------------------------------------------------------------------
(* Type.                                                                   *)

\* Types of the connection state (struct ixfd_conn_ctx, struct ixfd_sock).
TypeOK ==
  /\ main \in {"starting", "up", "exited"} \cup Death
  /\ phase \in [Client -> {"new", "backlog", "accepted", "over"}]
  /\ gone \subseteq Client /\ inbox \in [Client -> Message \cup {"none"}]
  /\ socket \in [Fd -> Client \cup {"free", "listener"}]
  /\ unread \subseteq Client /\ reset \subseteq Client /\ careless \in BOOLEAN
  /\ listening \in BOOLEAN
  /\ live \subseteq Slot /\ fd \in [Slot -> Fd]
  /\ reading \subseteq Slot /\ self \subseteq Slot /\ held \subseteq Slot
  /\ authed \subseteq Slot
  /\ timers \in Nat
  /\ proved \subseteq Client /\ executed \subseteq Client

(***************************************************************************)
(* Safety.                                                                 *)
(***************************************************************************)

\* A watcher of the loop points into an allocated context, and its
\* descriptor is open and belongs to that connection alone (event_read->data
\* and ctx->fd in ixfd_commonsock_read_cb).
WatchersSound ==
  /\ reading \subseteq live
  /\ \A s \in reading : Behind(s) \in Client /\ phase[Behind(s)] = "accepted"
  /\ \A s, t \in reading : fd[s] = fd[t] => s = t

\* A socket the server has open has a context that will read its end: no
\* descriptor is lost (accept_cb, commonsock_close, commonsock_unbind).
NoFdLost ==
  \A f \in Fd :
    \/ socket[f] = "free"
    \/ socket[f] = "listener" /\ f = ListenFd /\ listening
    \/ \E s \in reading : fd[s] = f

\* Every context is freed by the time the server ends, and none that the
\* loop or a script still uses is freed before (freectx in the destructor).
FreedInTheEnd ==
  /\ held \subseteq live /\ self \subseteq live
  /\ main = "exited" => live = {}

\* A request is executed for clients that authenticated themselves, on the
\* connection they still have, however contexts and descriptors are reused.
ExecutedProved == executed \subseteq proved

\* As long as every client waits until it is accepted, sends what the server
\* knows and waits for each answer before it sends again, none takes the
\* server down, however soon it leaves then: only the first answer to a peer
\* that has gone can be written, and there is no second.  What is left are a
\* port that is in use and a server out of descriptors.
CarelessKill == main \in {"killed", "aborted"} => careless

(***************************************************************************)
(* Liveness, under Fairness.                                               *)
(***************************************************************************)


\* The context of a client that leaves does not stay in memory for the life
\* of the server (delayed_gc); after an EXIT nothing asks for a collection.
ClosedIsFreed ==
  \A s \in Slot :
    (s \in reading /\ Behind(s) \in gone /\ inbox[Behind(s)] # "EXIT") ~> (s \notin live)

(***************************************************************************)
(* Refinement: sessions (SessionService).                                  *)
(***************************************************************************)

\* A client's session, as the context that reads from its socket has it.
SessionOf(k) ==
  IF phase[k] \in {"new", "backlog"} THEN "none"
  ELSE IF \E s \in reading : Behind(s) = k /\ s \in authed THEN "authed"
  ELSE IF \E s \in reading : Behind(s) = k THEN "open"
  ELSE "over"

ServerState ==
  IF main = "starting" THEN "starting" ELSE IF listening THEN "accepting" ELSE "closed"

Service == INSTANCE SessionService
  WITH session <- [k \in Client |-> SessionOf(k)], server <- ServerState

\* The connections implement one session per client.
ImplementsSessions == Service!Spec
=============================================================================
