----------------------------- MODULE ConnProof -----------------------------
(***************************************************************************)
(* The connections, for any number of clients, contexts and descriptors.   *)
(* The inductive invariant ties together the four views of a connection:   *)
(* malloc's (live), the references' (self, held), libev's (reading) and    *)
(* the kernel's (socket, phase).                                           *)
(***************************************************************************)
EXTENDS Conn, TLAPS

\* Who keeps a context: its own reference, given up when it is closed, or
\* userdata.  What neither keeps has been freed.
References == reading = self /\ live = self \cup held

\* A context that is read from owns a descriptor with a client behind it, and
\* each client's socket is behind one descriptor of one such context.
Descriptors ==
  /\ \A s \in reading : socket[fd[s]] \in Client
  /\ \A s, t \in reading : fd[s] = fd[t] => s = t
  /\ \A f \in Fd : socket[f] \in Client =>
       (\E s \in reading : fd[s] = f) /\ phase[socket[f]] = "accepted"
  /\ \A f, g \in Fd : socket[f] = socket[g] /\ socket[f] \in Client => f = g

\* The listening socket's descriptor is never given to a connection.
Listener ==
  /\ listening <=> socket[ListenFd] = "listener"
  /\ \A f \in Fd : socket[f] = "listener" => f = ListenFd
  /\ socket[ListenFd] \notin Client

\* A context says authed only of the client that it reads from.
Authentication ==
  /\ \A s \in reading \cap authed : socket[fd[s]] \in proved
  /\ executed \subseteq proved

Ended == main # "up" => reading = {} /\ held = {} /\ ~listening

IInv ==
  TypeOK /\ References /\ Descriptors /\ Listener /\ Authentication /\ Ended

USE DEF kernelVars, clientVars, contextVars, historyVars, Message, Behind, Death
-----------------------------------------------------------------------------
LEMMA InitEstablishes == Init => IInv
<1> SUFFICES ASSUME Init  PROVE IInv
  OBVIOUS
<1>1. \A f \in Fd : socket[f] = "free"
  BY DEF Init
<1>2. TypeOK
  BY ConnAssumption DEF Init, TypeOK
<1>3. Descriptors /\ Listener
  BY <1>1, ConnAssumption DEF Init, Descriptors, Listener
<1> QED  BY <1>2, <1>3 DEF Init, IInv, References, Authentication, Ended

\* The listening socket is the first that is open.
LEMMA StartKeeps ==
  ASSUME IInv, Start  PROVE IInv'
<1>1. /\ main' = "up" /\ listening' = TRUE /\ reading = {}
      /\ socket' = [socket EXCEPT ![ListenFd] = "listener"]
      /\ UNCHANGED <<phase, clientVars, live, fd, reading, self, held, authed>>
      /\ UNCHANGED <<timers, proved, executed>>
  BY DEF Start, IInv, Ended
<1>2. \A f \in Fd : socket[f] = "free"
  BY <1>1, ConnAssumption DEF Start, IInv, TypeOK, Descriptors, Listener, Ended
<1>3. TypeOK' /\ References'
  BY <1>1 DEF IInv, TypeOK, References
<1>4. Descriptors' /\ Listener'
  BY <1>1, <1>2, ConnAssumption DEF IInv, TypeOK, Descriptors, Listener
<1> QED  BY <1>1, <1>3, <1>4 DEF IInv, Authentication, Ended

\* Nothing of a process is left when an assertion fails or a signal ends it.
LEMMA DeathKeeps ==
  ASSUME IInv, NEW how \in Death, Dies(how)  PROVE IInv'
<1>1. /\ main' \in Death /\ listening' = FALSE /\ timers' = 0
      /\ reading' = {} /\ self' = {} /\ held' = {} /\ live' = {}
      /\ UNCHANGED <<gone, inbox, unread, reset, careless, fd, authed, proved, executed>>
      /\ \A f \in Fd : socket'[f] = "free"
  BY DEF Dies, CloseFds
<1>2. /\ socket' \in [Fd -> Client \cup {"free", "listener"}]
      /\ phase' \in [Client -> {"new", "backlog", "accepted", "over"}]
  BY DEF Dies, CloseFds, IInv, TypeOK
<1>3. TypeOK'
  BY <1>1, <1>2 DEF IInv, TypeOK
<1> QED
  BY <1>1, <1>3, ConnAssumption DEF IInv, References, Descriptors, Listener, Authentication, Ended

\* The clients' steps change what they sent and whether they are there.
LEMMA ClientKeeps ==
  ASSUME IInv, NEW k \in Client, NEW m \in Message,
         Connect(k) \/ Send(k, m) \/ Receive(k) \/ Leave(k)
  PROVE  IInv'
<1>1. /\ UNCHANGED <<main, socket, listening, live, fd, reading, self, held, authed>>
      /\ UNCHANGED <<timers, proved, executed>>
  BY DEF Connect, Send, Receive, Leave
<1>2. \A j \in Client : phase[j] = "accepted" => phase'[j] = "accepted"
  BY DEF Connect, Send, Receive, Leave, IInv, TypeOK
<1>3. TypeOK'
  BY DEF Connect, Send, Joined, Receive, Leave, IInv, TypeOK
<1>4. Descriptors'
  BY <1>1, <1>2 DEF IInv, Descriptors, TypeOK
<1> QED  BY <1>1, <1>3, <1>4 DEF IInv, References, Listener, Authentication, Ended

\* ixfd_commonsock_accept_cb: the new descriptor was free, so it is nobody's,
\* and the new context was not allocated, so nothing read from it.
LEMMA AcceptKeeps ==
  ASSUME IInv, NEW k \in Client, Accept(k) PROVE IInv'
<1>1. PICK f \in Fd, s \in Slot \ live :
        /\ socket[f] = "free"
        /\ socket' = [socket EXCEPT ![f] = k]
        /\ fd' = [fd EXCEPT ![s] = f]
        /\ live' = live \cup {s} /\ reading' = reading \cup {s}
        /\ self' = self \cup {s} /\ held' = held \cup {s}
        /\ authed' = authed \ {s}
  BY DEF Accept, LowestFree, AcceptedFd, StartReading, NewData
<1>2. /\ main = "up" /\ phase[k] = "backlog" /\ phase' = [phase EXCEPT ![k] = "accepted"]
      /\ UNCHANGED <<main, clientVars, listening, timers, proved, executed>>
  BY DEF Accept
<1>3. s \notin reading /\ s \notin self /\ s \notin held
  BY <1>1 DEF IInv, References
<1>4. \A g \in Fd : socket[g] # k
  BY <1>2 DEF IInv, Descriptors, TypeOK
<1>5. TypeOK'
  BY <1>1, <1>2 DEF IInv, TypeOK
<1>6. References'
  BY <1>1 DEF IInv, References
<1>7. \A t \in reading : fd'[t] = fd[t] /\ fd[t] # f /\ socket'[fd[t]] = socket[fd[t]]
  BY <1>1, <1>3, ConnAssumption DEF IInv, TypeOK, Descriptors
<1>8. fd'[s] = f /\ socket'[f] = k
  BY <1>1 DEF IInv, TypeOK
<1>9. Descriptors'
  <2>1. \A t \in reading' : socket'[fd'[t]] \in Client
    BY <1>1, <1>7, <1>8 DEF IInv, Descriptors
  <2>2. \A t, u \in reading' : fd'[t] = fd'[u] => t = u
    BY <1>1, <1>7, <1>8 DEF IInv, Descriptors
  <2>3. ASSUME NEW g \in Fd, socket'[g] \in Client
        PROVE  (\E t \in reading' : fd'[t] = g) /\ phase'[socket'[g]] = "accepted"
    <3>1. CASE g = f
      BY <3>1, <1>1, <1>2, <1>8 DEF IInv, TypeOK
    <3>2. CASE g # f
      BY <2>3, <3>2, <1>1, <1>2, <1>7 DEF IInv, TypeOK, Descriptors
    <3> QED  BY <3>1, <3>2
  <2>4. ASSUME NEW g \in Fd, NEW h \in Fd, socket'[g] = socket'[h], socket'[g] \in Client
        PROVE  g = h
    BY <2>4, <1>1, <1>4, <1>8 DEF IInv, TypeOK, Descriptors
  <2> QED  BY <2>1, <2>2, <2>3, <2>4 DEF Descriptors
<1>10. Listener'
  <2>1. f # ListenFd
    BY <1>1, ConnAssumption DEF Accept, IInv, Listener
  <2> QED  BY <2>1, <1>1, <1>2, ConnAssumption DEF IInv, Listener, TypeOK
<1>11. Authentication'
  BY <1>1, <1>2, <1>7 DEF IInv, Authentication
<1> QED
  BY <1>2, <1>5, <1>6, <1>9, <1>10, <1>11 DEF IInv, Ended

\* Closing a context and its descriptor, alone or with the listening socket,
\* leaves every other connection what it was.
LEMMA ClosingKeeps ==
  ASSUME IInv, NEW s \in reading, NEW fs \in SUBSET Fd,
         fs = {fd[s]} \/ fs = {fd[s], ListenFd},
         reading' = reading \ {s}, fd' = fd, CloseFds(fs),
         listening' = (listening /\ ListenFd \notin fs)
  PROVE  Descriptors' /\ Listener'
<1>1. /\ \A f \in Fd : socket'[f] = IF f \in fs THEN "free" ELSE socket[f]
      /\ fd \in [Slot -> Fd] /\ s \in Slot /\ reading \subseteq Slot
  BY DEF CloseFds, IInv, TypeOK
<1>2. \A t \in reading : t # s => fd[t] \in Fd /\ fd[t] \notin fs
  BY <1>1 DEF IInv, Descriptors, Listener
<1>3. \A f \in Fd : socket[f] \in Client /\ f \notin fs => phase'[socket[f]] = "accepted"
  BY DEF CloseFds, IInv, Descriptors
<1>4. Descriptors'
  <2>1. \A t \in reading' : socket'[fd'[t]] \in Client
    BY <1>1, <1>2 DEF IInv, Descriptors
  <2>2. \A t, u \in reading' : fd'[t] = fd'[u] => t = u
    BY DEF IInv, Descriptors
  <2>3. ASSUME NEW g \in Fd, socket'[g] \in Client
        PROVE  (\E t \in reading' : fd'[t] = g) /\ phase'[socket'[g]] = "accepted"
    <3>1. g \notin fs /\ socket'[g] = socket[g]
      BY <2>3, <1>1, ConnAssumption
    <3>2. PICK t \in reading : fd[t] = g
      BY <2>3, <3>1 DEF IInv, Descriptors
    <3>3. t # s
      BY <3>1, <3>2
    <3> QED  BY <2>3, <3>1, <3>2, <3>3, <1>3
  <2>4. \A g, h \in Fd : socket'[g] = socket'[h] /\ socket'[g] \in Client => g = h
    BY <1>1, ConnAssumption DEF IInv, Descriptors
  <2> QED  BY <2>1, <2>2, <2>3, <2>4 DEF Descriptors
<1>5. Listener'
  <2>1. ListenFd \in fs <=> fs = {fd[s], ListenFd}
    BY <1>1 DEF IInv, Descriptors, Listener
  <2> QED  BY <2>1, <1>1, ConnAssumption DEF IInv, Listener
<1> QED  BY <1>4, <1>5
-----------------------------------------------------------------------------
(***************************************************************************)
(* The read handlers.                                                      *)
(***************************************************************************)

\* A handler runs with a context that the loop reads from.
LEMMA ReadersLive ==
  ASSUME IInv, NEW s \in reading PROVE s \in Slot /\ s \in live /\ s \in self
  BY DEF IInv, TypeOK, References

\* commands.AUTH, and a request that may be executed.
LEMMA ReadOnKeeps ==
  ASSUME IInv, NEW s \in Slot, ReadAuth(s) \/ ReadRequest(s) PROVE IInv'
<1>1. /\ s \in reading /\ socket[fd[s]] \in Client /\ held' = held \cup {s}
      /\ UNCHANGED <<main, phase, socket, listening, live, fd, reading, self, timers>>
  BY DEF ReadAuth, ReadRequest, Reads
<1>2. s \in live
  BY <1>1, ReadersLive
<1>3. TypeOK'
  BY <1>1 DEF ReadAuth, ReadRequest, Reads, Answers, IInv, TypeOK
<1>4. References' /\ Descriptors' /\ Listener'
  BY <1>1, <1>2 DEF IInv, References, Descriptors, Listener
<1>5. Authentication'
  BY <1>1 DEF ReadAuth, ReadRequest, MayExecute, IInv, Authentication
<1>6. Ended'
  BY <1>1 DEF ReadAuth, ReadRequest, Reads, IInv, Ended
<1> QED  BY <1>3, <1>4, <1>5, <1>6 DEF IInv

\* A refusal, an end of file, an EXIT.
LEMMA ReadEndKeeps ==
  ASSUME IInv, NEW s \in Slot, ReadRefused(s) \/ ReadEof(s) \/ ReadExit(s) PROVE IInv'
<1>1. /\ main = "up" /\ s \in reading /\ socket[fd[s]] \in Client
      /\ held' = held \cup {s} /\ reading' = reading \ {s} /\ self' = self \ {s}
      /\ UNCHANGED <<main, live, fd, authed, proved, executed>>
  BY DEF ReadRefused, ReadEof, ReadExit, Reads, CloseContext, StopReading, UnRef
<1>2. \/ CloseFds({fd[s]}) /\ listening' = listening
      \/ CloseFds({fd[s], ListenFd}) /\ listening' = FALSE
  BY DEF ReadRefused, ReadEof, ReadExit, ExitFds
<1>3. fd[s] \in Fd /\ s \in live /\ fd[s] # ListenFd
  BY <1>1, ReadersLive DEF IInv, TypeOK, Listener
<1>4. PICK cs \in SUBSET Fd :
        /\ cs = {fd[s]} \/ cs = {fd[s], ListenFd}
        /\ CloseFds(cs) /\ listening' = (listening /\ ListenFd \notin cs)
  <2>1. CASE CloseFds({fd[s]}) /\ listening' = listening
    BY <2>1, <1>3 DEF IInv, TypeOK
  <2>2. CASE CloseFds({fd[s], ListenFd}) /\ listening' = FALSE
    <3>1. {fd[s], ListenFd} \in SUBSET Fd
      BY <1>3, ConnAssumption
    <3>2. ListenFd \in {fd[s], ListenFd}
      OBVIOUS
    <3> QED  BY <2>2, <3>1, <3>2
  <2> QED  BY <1>2, <2>1, <2>2
<1>5. Descriptors' /\ Listener'
  BY <1>1, <1>4, ClosingKeeps
<1>6. TypeOK'
  <2>1. socket' \in [Fd -> Client \cup {"free", "listener"}]
        /\ phase' \in [Client -> {"new", "backlog", "accepted", "over"}]
    BY <1>4 DEF CloseFds, IInv, TypeOK
  <2>2. /\ gone' \subseteq Client /\ inbox' \in [Client -> Message \cup {"none"}]
        /\ unread' \subseteq Client /\ reset' \subseteq Client /\ careless' \in BOOLEAN
        /\ timers' \in Nat
    BY DEF ReadRefused, ReadEof, ReadExit, Reads, Answers, TimersAfterClose, IInv, TypeOK
  <2> QED  BY <2>1, <2>2, <1>1, <1>4 DEF IInv, TypeOK
<1>7. References'
  BY <1>1, <1>3 DEF IInv, References
<1>8. Authentication'
  <2>1. \A t \in reading' : socket'[fd[t]] = socket[fd[t]]
    <3>1. ASSUME NEW t \in reading' PROVE socket'[fd[t]] = socket[fd[t]]
      BY <1>1, <1>4, ConnAssumption DEF CloseFds, IInv, TypeOK, Descriptors, Listener
    <3> QED  BY <3>1
  <2> QED  BY <2>1, <1>1 DEF IInv, Authentication
<1> QED  BY <1>1, <1>5, <1>6, <1>7, <1>8 DEF IInv, Ended
-----------------------------------------------------------------------------
(***************************************************************************)
(* The collector, and the end of the server.                               *)
(***************************************************************************)
LEMMA CollectKeeps ==
  ASSUME IInv, CollectDelayed \/ CollectSome PROVE IInv'
<1>1. PICK ss \in SUBSET held : live' = live \ (ss \ self) /\ held' = held \ ss
  BY DEF CollectDelayed, CollectSome, Finalized
<1>2. /\ main = "up"
      /\ UNCHANGED <<main, phase, socket, clientVars, listening, fd, reading, self, authed>>
      /\ UNCHANGED <<proved, executed>>
  BY DEF CollectDelayed, CollectSome
<1>3. timers' \in Nat
  BY DEF CollectDelayed, CollectSome, IInv, TypeOK
<1>4. TypeOK'
  BY <1>1, <1>2, <1>3 DEF IInv, TypeOK
<1>5. References'
  BY <1>1, <1>2 DEF IInv, References
<1> QED  BY <1>2, <1>4, <1>5 DEF IInv, Descriptors, Listener, Authentication, Ended

LEMMA LoopEndsKeeps ==
  ASSUME IInv, LoopEnds PROVE IInv'
<1>1. /\ main' = "exited" /\ reading = {} /\ ~listening /\ live' = live \ (held \ self) /\ held' = {}
      /\ UNCHANGED <<clientVars, listening, fd, reading, self, authed, timers, proved, executed>>
  BY DEF LoopEnds, LoopIdle, Finalized
<1>2. \A f \in Fd : socket'[f] = "free"
  BY DEF LoopEnds, CloseFds
<1>3. TypeOK'
  BY <1>1 DEF LoopEnds, CloseFds, IInv, TypeOK
<1>4. References'
  BY <1>1 DEF IInv, References
<1>5. Descriptors' /\ Listener'
  BY <1>1, <1>2, ConnAssumption DEF Descriptors, Listener
<1> QED  BY <1>1, <1>3, <1>4, <1>5 DEF IInv, Authentication, Ended

LEMMA NextKeeps == IInv /\ [Next]_vars => IInv'
<1> SUFFICES ASSUME IInv, [Next]_vars PROVE IInv'
  OBVIOUS
<1>1. ASSUME NEW k \in Client,
             Connect(k) \/ (\E m \in Message : Send(k, m)) \/ Receive(k) \/ Leave(k)
      PROVE  IInv'
  <2>1. \E m \in Message : Connect(k) \/ Send(k, m) \/ Receive(k) \/ Leave(k)
    BY <1>1 DEF Message
  <2> QED  BY <2>1, ClientKeeps
<1>2. ASSUME NEW k \in Client, Accept(k) PROVE IInv'
  BY <1>2, AcceptKeeps
<1>3. ASSUME NEW s \in Slot, ReadAny(s) PROVE IInv'
  BY <1>3, ReadOnKeeps, ReadEndKeeps, DeathKeeps DEF ReadAny, ReadUnknown, ReadBroken
<1>4. CASE CollectDelayed \/ CollectSome
  BY <1>4, CollectKeeps
<1>5. CASE LoopEnds
  BY <1>5, LoopEndsKeeps
<1>6. CASE Start
  BY <1>6, StartKeeps
<1>7. CASE StartFails \/ \E k \in Client : AcceptFails(k)
  BY <1>7, DeathKeeps DEF StartFails, AcceptFails
<1>8. CASE UNCHANGED vars
  BY <1>8 DEF vars, IInv, TypeOK, References, Descriptors, Listener, Authentication, Ended
<1> QED  BY <1>1, <1>2, <1>3, <1>4, <1>5, <1>6, <1>7, <1>8 DEF Next

\* The views of every connection stay in agreement (the whole of sock.cxx and
\* luafoundx.cxx as iojxd.lua uses them).
THEOREM Invariance == Spec => []IInv
<1>1. Init => IInv
  BY InitEstablishes
<1>2. IInv /\ [Next]_vars => IInv'
  BY NextKeeps
<1> QED  BY <1>1, <1>2, PTL DEF Spec

\* The read watchers always point into live contexts, with a descriptor that
\* is theirs alone (event_read->data and ctx->fd in ixfd_commonsock_read_cb).
THEOREM WatchersAlwaysSound == Spec => []WatchersSound
<1>1. IInv => WatchersSound
  BY DEF IInv, TypeOK, References, Descriptors, WatchersSound
<1> QED  BY <1>1, Invariance, PTL

\* Types of ixfd_conn_ctx, ixlbx_socket_context and the kernel's tables.
THEOREM TypeCorrect == Spec => []TypeOK
<1>1. IInv => TypeOK
  BY DEF IInv
<1> QED  BY <1>1, Invariance, PTL

\* No open descriptor is without somebody who will close it (accept_cb,
\* commonsock_close and commonsock_unbind).
THEOREM NoFdEverLost == Spec => []NoFdLost
<1>1. IInv => NoFdLost
  BY DEF IInv, TypeOK, Descriptors, Listener, NoFdLost
<1> QED  BY <1>1, Invariance, PTL

\* Contexts are neither freed in use nor left at the end (un_ref and the
\* destructor of ixlbx_socket_context).
THEOREM AllFreedInTheEnd == Spec => []FreedInTheEnd
<1>1. IInv => FreedInTheEnd
  BY DEF IInv, References, Ended, FreedInTheEnd
<1> QED  BY <1>1, Invariance, PTL

\* Nobody's request is executed on somebody else's AUTH (ctx.data.authed).
THEOREM OnlyProvedExecute == Spec => []ExecutedProved
<1>1. IInv => ExecutedProved
  BY DEF IInv, Authentication, ExecutedProved
<1> QED  BY <1>1, Invariance, PTL

\* Only a client that did not wait is gone from the backlog, or has two
\* messages, one unread answer and a message, or a text that is no command,
\* on its connection.
CareInv ==
  ~careless => /\ \A k \in gone : phase[k] \in {"accepted", "over"}
               /\ \A k \in unread \cup reset : inbox[k] = "none"
               /\ reset \subseteq gone
               /\ \A k \in Client : inbox[k] # "unknown"
               /\ main \notin {"killed", "aborted"}

\* Closing a connection takes nobody back into the backlog.
Forward == \A k \in Client : phase'[k] \in {phase[k], "over"}

LEMMA ClosingForward ==
  ASSUME NEW fs, CloseFds(fs) \/ UNCHANGED kernelVars PROVE Forward
BY DEF CloseFds, Forward

\* A read takes the message before its answer can be reset.
LEMMA AnswerKeepsCare ==
  ASSUME TypeOK, CareInv, NEW s \in Slot, NEW m \in Message, Reads(s, m), Forward,
         main' = main, gone' = gone
  PROVE  CareInv'
<1>1. ~careless => \A k \in gone : phase'[k] \in {"accepted", "over"}
  BY DEF CareInv, Forward, TypeOK
<1> QED  BY <1>1 DEF Reads, Answers, TypeOK, CareInv

LEMMA DeathKeepsCare ==
  ASSUME TypeOK, CareInv, \/ StartFails
                          \/ \E k \in Client : AcceptFails(k)
                          \/ \E s \in Slot : ReadUnknown(s) \/ ReadBroken(s)
  PROVE  CareInv'
<1>1. /\ UNCHANGED clientVars
      /\ \A k \in Client : phase'[k] \in {phase[k], "over"}
  BY DEF StartFails, AcceptFails, ReadUnknown, ReadBroken, Dies, CloseFds
<1>2. main' \in {"killed", "aborted"} => careless
  BY DEF StartFails, AcceptFails, ReadUnknown, ReadBroken, Dies, WriteBroken, CareInv
<1> QED  BY <1>1, <1>2 DEF TypeOK, CareInv

LEMMA ClientKeepsCare ==
  ASSUME TypeOK, CareInv, NEW k \in Client, NEW m \in Message, Send(k, m) \/ Receive(k) \/ Leave(k)
  PROVE  CareInv'
<1>1. CASE Send(k, m)
  BY <1>1 DEF Send, Careful, Joined, TypeOK, CareInv
<1>2. CASE Receive(k)
  BY <1>2 DEF Receive, TypeOK, CareInv
<1>3. CASE Leave(k)
  BY <1>3 DEF Leave, TypeOK, CareInv
<1> QED  BY <1>1, <1>2, <1>3

LEMMA NextKeepsCare == TypeOK /\ CareInv /\ [Next]_vars => CareInv'
<1> SUFFICES ASSUME TypeOK, CareInv, [Next]_vars  PROVE CareInv'
  OBVIOUS
<1>1. CASE \E k \in Client : (\E m \in Message : Send(k, m)) \/ Receive(k) \/ Leave(k)
  BY <1>1, ClientKeepsCare
<1>2. CASE \/ StartFails \/ \E k \in Client : AcceptFails(k)
           \/ \E s \in Slot : ReadUnknown(s) \/ ReadBroken(s)
  BY <1>2, DeathKeepsCare
<1>3. CASE \E s \in Slot : ReadAuth(s) \/ ReadRequest(s) \/ ReadRefused(s) \/ ReadExit(s)
  <2>1. PICK s \in Slot, m \in Message : Reads(s, m) /\ main' = main /\ gone' = gone /\ Forward
    BY <1>3, ClosingForward DEF ReadAuth, ReadRequest, ReadRefused, ReadExit
  <2> QED  BY <2>1, AnswerKeepsCare
<1>4. CASE \/ Start \/ CollectDelayed \/ CollectSome \/ LoopEnds \/ UNCHANGED vars
           \/ \E k \in Client : Connect(k) \/ Accept(k)
           \/ \E s \in Slot : ReadEof(s)
  <2>1. UNCHANGED clientVars /\ (main' = main \/ main' \in {"up", "exited"})
    BY <1>4 DEF Start, CollectDelayed, CollectSome, LoopEnds, vars, Connect, Accept, ReadEof
  <2>2. \/ Forward
        \/ \E k \in Client : phase[k] = "new" /\ phase' = [phase EXCEPT ![k] = "backlog"]
        \/ \E k \in Client : phase' = [phase EXCEPT ![k] = "accepted"]
    BY <1>4, ClosingForward DEF Start, CollectDelayed, CollectSome, LoopEnds, vars, Connect, Accept,
       ReadEof, Forward
  <2> QED  BY <2>1, <2>2 DEF CareInv, Forward, TypeOK
<1> QED  BY <1>1, <1>2, <1>3, <1>4 DEF Next, ReadAny

\* Clients that wait until they are accepted and for their answers, and send
\* commands there are, cannot take the server down by leaving
\* (ixfd_commonsock_accept_cb and _write, commands of iojxd.lua).
THEOREM OnlyTheCarelessKill == Spec => []CarelessKill
<1>1. Init => CareInv
  BY DEF Init, CareInv
<1>2. IInv => TypeOK
  BY DEF IInv
<1>3. CareInv => CarelessKill
  BY DEF CareInv, CarelessKill
<1> QED  BY <1>1, <1>2, <1>3, NextKeepsCare, Invariance, PTL DEF Spec
-----------------------------------------------------------------------------
(***************************************************************************)
(* The connections implement SessionService.                               *)
(***************************************************************************)
\* The session of the client behind a context, before a step and after it.
LEMMA SessionOfReader ==
  ASSUME IInv, NEW s \in reading
  PROVE  /\ socket[fd[s]] \in Client /\ phase[socket[fd[s]]] = "accepted"
         /\ SessionOf(socket[fd[s]]) = IF s \in authed THEN "authed" ELSE "open"
<1>1. /\ socket[fd[s]] \in Client /\ phase[socket[fd[s]]] = "accepted"
      /\ \A t \in reading : socket[fd[t]] = socket[fd[s]] => t = s
  BY DEF IInv, TypeOK, Descriptors
<1> QED  BY <1>1 DEF SessionOf

LEMMA SessionOfReaderNext ==
  ASSUME IInv', NEW s \in reading'
  PROVE  /\ socket'[fd'[s]] \in Client /\ phase'[socket'[fd'[s]]] = "accepted"
         /\ \A k \in Client : k = socket'[fd'[s]] =>
              SessionOf(k)' = IF s \in authed' THEN "authed" ELSE "open"
<1>1. /\ socket'[fd'[s]] \in Client /\ phase'[socket'[fd'[s]]] = "accepted"
      /\ \A t \in reading' : socket'[fd'[t]] = socket'[fd'[s]] => t = s
  BY DEF IInv, TypeOK, Descriptors
<1> QED  BY <1>1 DEF SessionOf

\* A step that leaves a client's socket and its reader alone, and what the
\* reader has authenticated, leaves its session.
LEMMA SessionKept ==
  ASSUME NEW k \in Client,
         \/ phase'[k] = phase[k]
         \/ phase'[k] \in {"new", "backlog"} /\ phase[k] \in {"new", "backlog"},
         \A s : s \in reading' /\ socket'[fd'[s]] = k <=> s \in reading /\ socket[fd[s]] = k,
         \A s \in reading : socket[fd[s]] = k => (s \in authed' <=> s \in authed)
  PROVE  SessionOf(k)' = SessionOf(k)
<1>1. (\E s \in reading' : socket'[fd'[s]] = k /\ s \in authed')
        <=> (\E s \in reading : socket[fd[s]] = k /\ s \in authed)
  OBVIOUS
<1>2. (\E s \in reading' : socket'[fd'[s]] = k) <=> (\E s \in reading : socket[fd[s]] = k)
  OBVIOUS
<1> QED  BY <1>1, <1>2 DEF SessionOf

Sessions == [k \in Client |-> SessionOf(k)]

\* What the server's state is to the service, in a step of the loop.
LEMMA ServerUp ==
  ASSUME main = "up", main' = "up"
  PROVE  /\ ServerState = IF listening THEN "accepting" ELSE "closed"
         /\ ServerState' = IF listening' THEN "accepting" ELSE "closed"
  BY DEF ServerState

\* ixfd_commonsock_accept_cb opens a session.
LEMMA AcceptOpens ==
  ASSUME IInv, IInv', NEW k \in Client, Accept(k)
  PROVE  Service!Open(k)
<1>1. PICK f \in Fd, s \in Slot \ live :
        /\ socket[f] = "free" /\ socket' = [socket EXCEPT ![f] = k]
        /\ fd' = [fd EXCEPT ![s] = f]
        /\ reading' = reading \cup {s} /\ authed' = authed \ {s}
  BY DEF Accept, LowestFree, AcceptedFd, StartReading, NewData
<1>2. /\ listening /\ phase[k] = "backlog" /\ phase' = [phase EXCEPT ![k] = "accepted"]
      /\ main = "up" /\ UNCHANGED <<main, listening, executed>>
  BY DEF Accept
<1>3. s \notin reading
  BY <1>1 DEF IInv, References
<1>4. fd'[s] = f /\ socket'[f] = k /\ s \in reading' /\ s \notin authed'
  BY <1>1 DEF IInv, TypeOK
<1>5. SessionOf(k) = "none" /\ SessionOf(k)' = "open"
  BY <1>2, <1>4, SessionOfReaderNext DEF SessionOf
<1>6. ASSUME NEW j \in Client \ {k}  PROVE SessionOf(j)' = SessionOf(j)
  <2>1. phase'[j] = phase[j]
    BY <1>2 DEF IInv, TypeOK
  <2>2. \A t \in reading : /\ fd'[t] = fd[t] /\ fd[t] # f /\ fd[t] \in Fd /\ t # s
                            /\ socket'[fd'[t]] = socket[fd[t]]
    BY <1>1, <1>3, ConnAssumption DEF IInv, TypeOK, Descriptors
  <2>3. \A t : t \in reading' /\ socket'[fd'[t]] = j <=> t \in reading /\ socket[fd[t]] = j
    BY <1>1, <1>4, <2>2
  <2> QED  BY <1>1, <2>1, <2>2, <2>3, SessionKept
<1>7. Sessions' = [Sessions EXCEPT ![k] = "open"]
  BY <1>5, <1>6 DEF Sessions
<1> QED  BY <1>2, <1>5, <1>7, ServerUp DEF Service!Open, Sessions

\* commands.AUTH and a request, in the session they come from.
LEMMA ReadsInSession ==
  ASSUME IInv, IInv', NEW s \in Slot, ReadAuth(s) \/ ReadRequest(s)
  PROVE  \/ \E k \in Client : Service!Authenticate(k) \/ Service!Execute(k)
         \/ UNCHANGED <<Sessions, executed, ServerState>>
<1> DEFINE k == socket[fd[s]]
<1>1. /\ s \in reading /\ k \in Client
      /\ UNCHANGED <<main, phase, socket, fd, reading, listening>> /\ UNCHANGED ServerState
  BY DEF ReadAuth, ReadRequest, Reads, ServerState
<1>2. SessionOf(k) = IF s \in authed THEN "authed" ELSE "open"
  BY <1>1, SessionOfReader
<1>3. CASE ReadAuth(s)
  <2>1. authed' = authed \cup {s} /\ UNCHANGED executed
    BY <1>3 DEF ReadAuth
  <2>2. SessionOf(k)' = "authed"
    BY <1>1, <2>1, SessionOfReaderNext
  <2>3. ASSUME NEW j \in Client \ {k}  PROVE SessionOf(j)' = SessionOf(j)
    BY <1>1, <2>1, SessionKept
  <2>4. Sessions' = [Sessions EXCEPT ![k] = "authed"]
    BY <1>1, <2>2, <2>3 DEF Sessions
  <2> QED
    BY <1>1, <1>2, <2>1, <2>4 DEF Service!Authenticate, Service!InSession, Sessions
<1>4. CASE ReadRequest(s)
  <2>1. /\ s \in authed /\ UNCHANGED authed
        /\ executed' = executed \cup {k} \/ UNCHANGED executed
    BY <1>4 DEF ReadRequest, MayExecute
  <2>2. \A j \in Client : SessionOf(j)' = SessionOf(j)
    BY <1>1, <2>1, SessionKept
  <2>3. UNCHANGED Sessions
    BY <2>2 DEF Sessions
  <2> QED  BY <1>1, <1>2, <2>1, <2>3 DEF Service!Execute, Sessions
<1> QED  BY <1>3, <1>4

\* What closing does to the sessions: its own ends, and with the listening
\* socket those that wait in its backlog.
LEMMA ClosingEnds ==
  ASSUME IInv, IInv', NEW s \in reading, NEW fs \in SUBSET Fd,
         fs = {fd[s]} \/ fs = {fd[s], ListenFd}, NEW k \in Client, k = socket[fd[s]],
         reading' = reading \ {s}, fd' = fd, authed' = authed, CloseFds(fs)
  PROVE  /\ SessionOf(k)' = "over"
         /\ \A j \in Client \ {k} :
              IF phase[j] = "backlog" /\ (\E f \in fs : socket[f] = "listener")
              THEN SessionOf(j) = "none" /\ SessionOf(j)' = "over"
              ELSE SessionOf(j)' = SessionOf(j)
<1>1. /\ s \in Slot /\ reading \subseteq Slot /\ fd \in [Slot -> Fd]
      /\ phase \in [Client -> {"new", "backlog", "accepted", "over"}]
  BY SessionOfReader DEF IInv, TypeOK
<1>2. \A j \in Client : phase'[j] =
        IF \/ \E f \in fs : socket[f] = j
           \/ phase[j] = "backlog" /\ \E f \in fs : socket[f] = "listener"
        THEN "over" ELSE phase[j]
  BY DEF CloseFds
<1>3. \A t \in reading' : fd[t] \in Fd /\ socket'[fd[t]] = socket[fd[t]] /\ socket[fd[t]] # k
  <2>1. ASSUME NEW t \in reading'
        PROVE  fd[t] \in Fd /\ fd[t] \notin fs /\ socket[fd[t]] # k
    BY <1>1 DEF IInv, Descriptors, Listener
  <2> QED  BY <2>1 DEF CloseFds
<1>4. SessionOf(k)' = "over"
  <2>1. phase'[k] = "over"
    BY <1>1, <1>2
  <2>2. \A t \in reading' : socket'[fd'[t]] # k
    BY <1>3
  <2> QED  BY <2>1, <2>2 DEF SessionOf
<1>5. ASSUME NEW j \in Client \ {k}
      PROVE  IF phase[j] = "backlog" /\ (\E f \in fs : socket[f] = "listener")
             THEN SessionOf(j) = "none" /\ SessionOf(j)' = "over"
             ELSE SessionOf(j)' = SessionOf(j)
  <2>1. \A f \in fs : socket[f] # j
    BY <1>1, ConnAssumption DEF IInv, Listener
  <2>2. CASE phase[j] = "backlog" /\ (\E f \in fs : socket[f] = "listener")
    <3>1. phase'[j] = "over"
      BY <1>2, <2>2
    <3>2. \A t \in reading' : socket'[fd'[t]] # j
      BY <3>1, SessionOfReaderNext
    <3> QED  BY <2>2, <3>1, <3>2 DEF SessionOf
  <2>3. CASE ~(phase[j] = "backlog" /\ (\E f \in fs : socket[f] = "listener"))
    <3>1. phase'[j] = phase[j]
      BY <1>2, <2>1, <2>3
    <3>2. \A t : t \in reading' /\ socket'[fd'[t]] = j <=> t \in reading /\ socket[fd[t]] = j
      BY <1>3
    <3>3. SessionOf(j)' = SessionOf(j)
      BY <3>1, <3>2, SessionKept
    <3> QED  BY <2>3, <3>3
  <2> QED  BY <2>2, <2>3
<1> QED  BY <1>4, <1>5

\* A refusal or the end of file ends a session.
LEMMA ReadEndsSession ==
  ASSUME IInv, IInv', NEW s \in Slot, ReadRefused(s) \/ ReadEof(s)
  PROVE  \E k \in Client : Service!End(k)
<1>1. /\ s \in reading /\ reading' = reading \ {s} /\ CloseFds({fd[s]})
      /\ UNCHANGED <<fd, authed, executed>> /\ UNCHANGED ServerState
  BY DEF ReadRefused, ReadEof, Reads, CloseContext, StopReading, ServerState
<1>2. PICK k \in Client : /\ k = socket[fd[s]] /\ {fd[s]} \in SUBSET Fd
                          /\ SessionOf(k) = IF s \in authed THEN "authed" ELSE "open"
  BY <1>1, SessionOfReader DEF IInv, TypeOK
<1>3. \A f \in {fd[s]} : socket[f] # "listener"
  BY <1>2, ConnAssumption
<1>4. SessionOf(k)' = "over" /\ \A j \in Client \ {k} : SessionOf(j)' = SessionOf(j)
  BY <1>1, <1>2, <1>3, ClosingEnds
<1>5. Sessions' = [Sessions EXCEPT ![k] = "over"]
  BY <1>2, <1>4 DEF Sessions
<1>6. Service!End(k)
  BY <1>1, <1>2, <1>5 DEF Service!End, Service!InSession, Sessions
<1> QED  BY <1>2, <1>6

\* commands.EXIT ends the session and those that have not begun.
LEMMA ReadExits ==
  ASSUME IInv, IInv', NEW s \in Slot, ReadExit(s)
  PROVE  \E k \in Client : Service!Exit(k)
<1> DEFINE fs == {fd[s], ListenFd}
<1>1. /\ s \in reading /\ reading' = reading \ {s} /\ CloseFds(fs) /\ listening' = FALSE
      /\ main = "up" /\ UNCHANGED <<main, fd, authed, executed>>
  BY DEF ReadExit, Reads, CloseContext, StopReading, ExitFds
<1>2. PICK k \in Client : /\ k = socket[fd[s]]
                          /\ SessionOf(k) = IF s \in authed THEN "authed" ELSE "open"
  BY <1>1, SessionOfReader
<1> DEFINE cut == {j \in Client \ {k} : phase[j] = "backlog" /\ \E f \in fs : socket[f] = "listener"}
<1>3. fs \in SUBSET Fd
  BY ConnAssumption DEF IInv, TypeOK
<1>4. /\ SessionOf(k)' = "over"
      /\ \A j \in Client \ {k} : IF j \in cut THEN SessionOf(j) = "none" /\ SessionOf(j)' = "over"
                                  ELSE SessionOf(j)' = SessionOf(j)
  <2>1. /\ SessionOf(k)' = "over"
        /\ \A j \in Client \ {k} :
             IF phase[j] = "backlog" /\ (\E f \in fs : socket[f] = "listener")
             THEN SessionOf(j) = "none" /\ SessionOf(j)' = "over"
             ELSE SessionOf(j)' = SessionOf(j)
    <3> HIDE DEF cut
    <3> QED  BY <1>1, <1>2, <1>3, ClosingEnds
  <2> QED  BY <2>1
<1>5. cut \in SUBSET {j \in Client : Sessions[j] = "none"}
  BY <1>4 DEF Sessions
<1>6. Sessions' = [j \in Client |-> IF j \in cut \cup {k} THEN "over" ELSE Sessions[j]]
  BY <1>2, <1>4 DEF Sessions
<1>7. Service!Exit(k)
  <2> HIDE DEF cut
  <2> QED  BY <1>1, <1>2, <1>5, <1>6, ServerUp DEF Service!Exit, Service!InSession, Sessions
<1> QED  BY <1>2, <1>7

\* Every other step is none of the sessions'.
LEMMA OthersKeepSessions ==
  ASSUME IInv, IInv',
         \/ \E k \in Client : Connect(k) \/ (\E m \in Message : Send(k, m)) \/ Receive(k) \/ Leave(k)
         \/ CollectDelayed \/ CollectSome \/ LoopEnds \/ UNCHANGED vars
  PROVE  UNCHANGED <<Sessions, executed, ServerState>>
<1>1. UNCHANGED <<fd, reading, authed, executed>> /\ UNCHANGED ServerState
  BY DEF Connect, Send, Receive, Leave, CollectDelayed, CollectSome, LoopEnds, vars, ServerState
<1>2. CASE LoopEnds
  <2>1. \A f \in Fd : socket[f] # "listener" /\ socket[f] \notin Client
    BY <1>2, ConnAssumption DEF LoopEnds, LoopIdle, IInv, Descriptors, Listener
  <2>2. \A k \in Client : phase'[k] = phase[k]
    BY <1>2, <2>1 DEF LoopEnds, CloseFds
  <2>3. reading = {}
    BY <1>2 DEF LoopEnds, LoopIdle
  <2> QED  BY <1>1, <2>2, <2>3, SessionKept DEF Sessions
<1>3. CASE ~LoopEnds
  <2>1. /\ socket' = socket
        /\ \A k \in Client : \/ phase'[k] = phase[k]
                             \/ phase'[k] = "backlog" /\ phase[k] = "new"
    BY <1>3 DEF Connect, Send, Receive, Leave, CollectDelayed, CollectSome, vars, IInv, TypeOK
  <2> QED  BY <1>1, <2>1, SessionKept DEF Sessions
<1> QED  BY <1>2, <1>3

\* The server's start begins no session.
LEMMA StartStarts ==
  ASSUME IInv, Start  PROVE Service!Start
<1>1. /\ main = "starting" /\ main' = "up" /\ listening' = TRUE
      /\ UNCHANGED <<phase, reading, authed, executed>> /\ reading = {}
  BY DEF Start, IInv, Ended
<1>2. \A k \in Client : SessionOf(k)' = SessionOf(k)
  BY <1>1 DEF SessionOf
<1>3. ServerState = "starting" /\ ServerState' = "accepting"
  BY <1>1 DEF ServerState
<1> QED  BY <1>1, <1>2, <1>3 DEF Service!Start, Sessions

\* A death of the process ends every session, and the backlog.
LEMMA DeathCrashes ==
  ASSUME IInv, NEW how \in Death, Dies(how),
         main = "starting" \/ (main = "up" /\ listening) \/ \E s \in Slot : s \in reading
  PROVE  Service!Crash
<1>1. /\ main' \in Death /\ listening' = FALSE /\ reading' = {} /\ UNCHANGED executed
      /\ \A k \in Client : phase'[k] =
           IF (\E f \in Fd : socket[f] = k) \/ (phase[k] = "backlog" /\ \E f \in Fd : socket[f] = "listener")
           THEN "over" ELSE phase[k]
  BY DEF Dies, CloseFds
<1>2. /\ ServerState' = "closed"
      /\ ServerState # "closed" \/ \E k \in Client : Sessions[k] \in {"open", "authed"}
  <2>1. ServerState' = "closed"
    BY <1>1 DEF ServerState
  <2>2. CASE main = "starting" \/ (main = "up" /\ listening)
    BY <2>1, <2>2 DEF ServerState
  <2>3. CASE \E s \in Slot : s \in reading
    BY <2>1, <2>3, SessionOfReader DEF Sessions
  <2> QED  BY <2>2, <2>3
<1>3. ASSUME NEW k \in Client
      PROVE  \/ SessionOf(k) \in {"open", "authed"} /\ SessionOf(k)' = "over"
             \/ SessionOf(k) = "over" /\ SessionOf(k)' = "over"
             \/ SessionOf(k) = "none" /\ SessionOf(k)' \in {"none", "over"}
  <2>1. SessionOf(k)' = IF phase'[k] \in {"new", "backlog"} THEN "none" ELSE "over"
    BY <1>1 DEF SessionOf
  <2>2. CASE phase[k] \in {"new", "backlog"}
    BY <2>1, <2>2 DEF SessionOf
  <2>3. CASE phase[k] \notin {"new", "backlog"}
    BY <1>1, <2>1, <2>3 DEF SessionOf
  <2> QED  BY <2>2, <2>3
<1> DEFINE cut == {j \in Client : SessionOf(j) = "none" /\ SessionOf(j)' = "over"}
<1>4. cut \in SUBSET {j \in Client : Sessions[j] = "none"}
  BY DEF Sessions
<1>5. Sessions' = [j \in Client |-> IF j \in cut \/ Sessions[j] \in {"open", "authed"}
                                    THEN "over" ELSE Sessions[j]]
  BY <1>3 DEF Sessions
<1> HIDE DEF cut
<1> QED  BY <1>1, <1>2, <1>4, <1>5 DEF Service!Crash, Service!InSession, Sessions

\* Each client has one session with the server, whatever contexts, descriptors
\* and the collector do (the command protocol of oj/iojxd.lua).
THEOREM Refinement == Spec => ImplementsSessions
<1>1. Init => Service!Init
  BY DEF Init, Service!Init, SessionOf, ServerState
<1>2. IInv /\ IInv' /\ [Next]_vars => [Service!Next]_(Service!vars)
  <2> SUFFICES ASSUME IInv, IInv', [Next]_vars
               PROVE  Service!Next \/ UNCHANGED Service!vars
    OBVIOUS
  <2>1. CASE \E k \in Client : Accept(k)
    BY <2>1, AcceptOpens DEF Service!Next
  <2>2. ASSUME NEW s \in Slot, ReadAny(s)  PROVE Service!Next \/ UNCHANGED Service!vars
    <3>1. CASE ReadUnknown(s) \/ ReadBroken(s)
      <4>1. Dies("killed") /\ s \in reading
        BY <3>1 DEF ReadUnknown, ReadBroken
      <4>2. Service!Crash
        BY <4>1, DeathCrashes
      <4> QED  BY <4>2 DEF Service!Next
    <3>2. CASE ReadAuth(s) \/ ReadRequest(s)
      BY <3>2, ReadsInSession DEF Service!Next, Service!vars, Sessions
    <3>3. CASE ReadRefused(s) \/ ReadEof(s) \/ ReadExit(s)
      BY <3>3, ReadEndsSession, ReadExits DEF Service!Next
    <3> QED  BY <2>2, <3>1, <3>2, <3>3 DEF ReadAny
  <2>3. CASE \E s \in Slot : ReadAny(s)
    BY <2>2, <2>3
  <2>4. CASE \/ \E k \in Client : Connect(k) \/ (\E m \in Message : Send(k, m)) \/ Receive(k) \/ Leave(k)
             \/ CollectDelayed \/ CollectSome \/ LoopEnds \/ UNCHANGED vars
    BY <2>4, OthersKeepSessions DEF Service!vars, Sessions
  <2>5. CASE Start
    BY <2>5, StartStarts DEF Service!Next
  <2>6. CASE StartFails \/ \E k \in Client : AcceptFails(k)
    <3>1. PICK how \in Death : Dies(how) /\ (main = "starting" \/ (main = "up" /\ listening))
      BY <2>6, Zenon DEF StartFails, AcceptFails, Death
    <3>2. Service!Crash
      BY <3>1, DeathCrashes
    <3> QED  BY <3>2, Zenon DEF Service!Next
  <2>7. CASE Next
    <3>1. CASE \E k \in Client : Accept(k) \/ AcceptFails(k)
      BY <2>1, <2>6, <3>1
    <3> QED  BY <2>3, <2>4, <2>5, <2>6, <2>7, <3>1, Zenon DEF Next
  <2> QED  BY <2>4, <2>7, Zenon
<1> QED  BY <1>1, <1>2, Invariance, PTL DEF Spec, Service!Spec, ImplementsSessions
-----------------------------------------------------------------------------
(***************************************************************************)
(* That nobody waits for nothing: what there is of Answered and of         *)
(* ClosedIsFreed without the fairness of the loop.                         *)
(***************************************************************************)

\* A client whose connection has not ended has somebody in the loop who will
\* take it: the accept watcher, then the read watcher of one context.
Attended ==
  \A k \in Client :
    /\ phase[k] = "new" => inbox[k] = "none"
    /\ phase[k] = "backlog" => main = "up" /\ listening
    /\ phase[k] = "accepted" => main = "up" /\ \E s \in reading : Behind(s) = k

\* Until an EXIT, a context that is closed and not freed has a timer running
\* that will ask for a collection.
GarbageAwaited == \A s \in live \ reading : timers > 0 \/ ~listening

\* When all descriptors are closed, all connections are over.
LEMMA AllOver ==
  ASSUME IInv, Attended, CloseFds(Fd)
  PROVE  \A k \in Client : phase'[k] \in {"new", "over"} /\ (phase'[k] = "new" => phase[k] = "new")
<1> SUFFICES ASSUME NEW k \in Client
             PROVE  phase'[k] \in {"new", "over"} /\ (phase'[k] = "new" => phase[k] = "new")
  OBVIOUS
<1>1. phase'[k] = IF \/ \E f \in Fd : socket[f] = k
                     \/ phase[k] = "backlog" /\ \E f \in Fd : socket[f] = "listener"
                  THEN "over" ELSE phase[k]
  BY DEF CloseFds
<1>2. phase[k] \in {"new", "backlog", "accepted", "over"}
  BY DEF IInv, TypeOK
<1>3. CASE phase[k] = "backlog"
  <2>1. socket[ListenFd] = "listener" /\ ListenFd \in Fd
    BY <1>3, ConnAssumption DEF Attended, IInv, Listener
  <2> QED  BY <2>1, <1>1, <1>3
<1>4. CASE phase[k] = "accepted"
  <2>1. PICK s \in reading : socket[fd[s]] = k
    BY <1>4 DEF Attended
  <2>2. fd[s] \in Fd
    BY DEF IInv, TypeOK
  <2> QED  BY <2>1, <2>2, <1>1
<1> QED  BY <1>1, <1>2, <1>3, <1>4

LEMMA DeathKeepsAttended ==
  ASSUME IInv, Attended, NEW how, Dies(how)  PROVE (Attended /\ GarbageAwaited)'
<1>1. CloseFds(Fd) /\ inbox' = inbox /\ live' = {}
  BY DEF Dies
<1> QED  BY <1>1, AllOver DEF Attended, GarbageAwaited

LEMMA ClientKeepsAttended ==
  ASSUME IInv, Attended, GarbageAwaited, NEW k \in Client, NEW m \in Message,
         Connect(k) \/ Send(k, m) \/ Receive(k) \/ Leave(k)
  PROVE  (Attended /\ GarbageAwaited)'
<1>1. UNCHANGED <<main, socket, listening, live, fd, reading, timers>>
  BY DEF Connect, Send, Receive, Leave
<1>2. GarbageAwaited'
  BY <1>1 DEF GarbageAwaited
<1>3. CASE Connect(k)
  <2>1. main = "up" /\ listening
    BY <1>3, ConnAssumption DEF Connect, IInv, Listener, Ended
  <2>2. phase' = [phase EXCEPT ![k] = "backlog"] /\ phase[k] = "new" /\ inbox' = inbox
    BY <1>3 DEF Connect
  <2> QED  BY <1>1, <1>2, <2>1, <2>2 DEF IInv, TypeOK, Attended
<1>4. CASE Send(k, m)
  <2>1. phase' = phase /\ phase[k] # "new" /\ \A j \in Client \ {k} : inbox'[j] = inbox[j]
    BY <1>4 DEF Send, IInv, TypeOK
  <2> QED  BY <1>1, <1>2, <2>1 DEF Attended
<1>5. CASE Receive(k) \/ Leave(k)
  <2>1. phase' = phase /\ inbox' = inbox
    BY <1>5 DEF Receive, Leave
  <2> QED  BY <1>1, <1>2, <2>1 DEF Attended
<1> QED  BY <1>3, <1>4, <1>5

LEMMA AcceptKeepsAttended ==
  ASSUME IInv, Attended, GarbageAwaited, NEW k \in Client, Accept(k)
  PROVE  (Attended /\ GarbageAwaited)'
<1>1. PICK f \in Fd, s \in Slot \ live :
        /\ socket[f] = "free" /\ socket' = [socket EXCEPT ![f] = k]
        /\ fd' = [fd EXCEPT ![s] = f]
        /\ live' = live \cup {s} /\ reading' = reading \cup {s}
  BY DEF Accept, LowestFree, AcceptedFd, StartReading
<1>2. /\ main = "up" /\ phase[k] = "backlog" /\ phase' = [phase EXCEPT ![k] = "accepted"]
      /\ UNCHANGED <<main, inbox, listening, timers>>
  BY DEF Accept
<1>3. GarbageAwaited'
  BY <1>1, <1>2 DEF GarbageAwaited
<1>4. fd'[s] = f /\ socket'[f] = k
  BY <1>1 DEF IInv, TypeOK
<1>5. \A t \in reading : socket[fd[t]] \in Client => socket'[fd'[t]] = socket[fd[t]]
  BY <1>1, ConnAssumption DEF IInv, TypeOK, References
<1>6. \A j \in Client \ {k} : phase'[j] = phase[j]
  BY <1>2 DEF IInv, TypeOK
<1>7. ASSUME NEW j \in Client, phase'[j] = "accepted"
      PROVE  \E t \in reading' : socket'[fd'[t]] = j
  <2>1. CASE j = k
    BY <2>1, <1>1, <1>4
  <2>2. CASE j # k
    BY <2>2, <1>1, <1>5, <1>6, <1>7 DEF Attended
  <2> QED  BY <2>1, <2>2
<1>8. \A j \in Client : phase'[j] \in {"new", "backlog"} => phase'[j] = phase[j]
  BY <1>2, <1>6 DEF IInv, TypeOK
<1> QED  BY <1>2, <1>3, <1>7, <1>8 DEF Attended

\* A handler that ends a connection leaves no client of another without its
\* reader, and a collection to come unless it is EXIT's.
LEMMA ReadKeepsAttended ==
  ASSUME IInv, Attended, GarbageAwaited, NEW s \in Slot,
         ReadAuth(s) \/ ReadRequest(s) \/ ReadRefused(s) \/ ReadEof(s) \/ ReadExit(s)
  PROVE  (Attended /\ GarbageAwaited)'
<1>1. /\ main = "up" /\ s \in reading /\ UNCHANGED <<main, live, fd>>
      /\ \A k \in Client : inbox[k] = "none" => inbox'[k] = "none"
  BY DEF ReadAuth, ReadRequest, ReadRefused, ReadEof, ReadExit, Reads, IInv, TypeOK
<1>2. CASE ReadAuth(s) \/ ReadRequest(s)
  <2>1. UNCHANGED <<phase, socket, listening, reading, timers>>
    BY <1>2 DEF ReadAuth, ReadRequest
  <2> QED  BY <1>1, <2>1 DEF Attended, GarbageAwaited
<1>3. CASE ReadRefused(s) \/ ReadEof(s) \/ ReadExit(s)
  <2>1. reading' = reading \ {s}
    BY <1>3 DEF ReadRefused, ReadEof, ReadExit, CloseContext, StopReading
  <2>2. \/ CloseFds({fd[s]}) /\ listening' = listening /\ timers' = timers + 1
        \/ CloseFds({fd[s], ListenFd}) /\ listening' = FALSE
    BY <1>3 DEF ReadRefused, ReadEof, TimersAfterClose, ReadExit, ExitFds
  <2>3. PICK fs :
          /\ fd[s] \in fs /\ CloseFds(fs)
          /\ listening' = listening \/ (listening' = FALSE /\ ListenFd \in fs)
    BY <2>2
  <2>4. GarbageAwaited'
    <3>1. listening' = FALSE \/ timers' > 0
      BY <2>2 DEF IInv, TypeOK
    <3> QED  BY <3>1 DEF GarbageAwaited
  <2>5. \A k \in Client :
          /\ phase'[k] = "over" \/ phase'[k] = phase[k]
          /\ phase'[k] # "over" => \A f \in fs : socket[f] # k
          /\ phase'[k] # "over" /\ phase[k] = "backlog" => \A f \in fs : socket[f] # "listener"
    BY <2>3 DEF CloseFds
  <2>6. ASSUME NEW k \in Client, phase'[k] = "accepted"
        PROVE  \E t \in reading' : socket'[fd'[t]] = k
    <3>1. phase[k] = "accepted" /\ \A f \in fs : socket[f] # k
      BY <2>5, <2>6
    <3>2. PICK t \in reading : socket[fd[t]] = k
      BY <3>1 DEF Attended
    <3>3. fd[t] \notin fs /\ t # s /\ fd[t] \in Fd
      BY <2>3, <3>1, <3>2 DEF IInv, TypeOK
    <3>4. socket'[fd[t]] = k
      BY <2>3, <3>2, <3>3 DEF CloseFds
    <3> QED  BY <3>2, <3>3, <3>4, <2>1, <1>1
  <2>7. ASSUME NEW k \in Client, phase'[k] = "backlog"
        PROVE  main' = "up" /\ listening'
    <3>1. phase[k] = "backlog" /\ \A f \in fs : socket[f] # "listener"
      BY <2>5, <2>7
    <3>2. listening /\ socket[ListenFd] = "listener"
      BY <3>1 DEF Attended, IInv, Listener
    <3> QED  BY <3>1, <3>2, <2>3, <1>1
  <2>8. \A k \in Client : phase'[k] = "new" => inbox'[k] = "none"
    BY <2>5, <1>1 DEF Attended
  <2> QED  BY <2>4, <2>6, <2>7, <2>8, <1>1 DEF Attended
<1> QED  BY <1>2, <1>3

LEMMA NextKeepsAttended ==
  IInv /\ Attended /\ GarbageAwaited /\ [Next]_vars => (Attended /\ GarbageAwaited)'
<1> SUFFICES ASSUME IInv, Attended, GarbageAwaited, [Next]_vars
             PROVE  (Attended /\ GarbageAwaited)'
  OBVIOUS
<1>1. ASSUME NEW k \in Client,
             Connect(k) \/ (\E m \in Message : Send(k, m)) \/ Receive(k) \/ Leave(k)
      PROVE  (Attended /\ GarbageAwaited)'
  <2>1. \E m \in Message : Connect(k) \/ Send(k, m) \/ Receive(k) \/ Leave(k)
    BY <1>1 DEF Message
  <2> QED  BY <2>1, ClientKeepsAttended
<1>2. ASSUME NEW k \in Client, Accept(k) PROVE (Attended /\ GarbageAwaited)'
  BY <1>2, AcceptKeepsAttended
<1>3. ASSUME NEW s \in Slot, ReadAny(s) PROVE (Attended /\ GarbageAwaited)'
  BY <1>3, ReadKeepsAttended, DeathKeepsAttended DEF ReadAny, ReadUnknown, ReadBroken
<1>4. CASE CollectDelayed
  <2>1. live' = live \ (held \ self) /\ UNCHANGED <<main, phase, socket, inbox, listening, fd, reading>>
    BY <1>4 DEF CollectDelayed, Finalized
  <2>2. live' = reading'
    BY <2>1 DEF IInv, References
  <2> QED  BY <2>1, <2>2 DEF Attended, GarbageAwaited
<1>5. CASE CollectSome
  <2>1. live' \subseteq live
        /\ UNCHANGED <<main, phase, socket, inbox, listening, fd, reading, timers>>
    BY <1>5 DEF CollectSome, Finalized
  <2> QED  BY <2>1 DEF Attended, GarbageAwaited
<1>6. CASE LoopEnds
  <2>1. CloseFds(Fd) /\ inbox' = inbox /\ listening' = listening /\ ~listening
    BY <1>6 DEF LoopEnds, LoopIdle
  <2> QED  BY <2>1, AllOver DEF Attended, GarbageAwaited
<1>7. CASE Start
  <2>1. /\ main # "up" /\ reading = {} /\ live = {} /\ main' = "up" /\ listening' = TRUE
        /\ UNCHANGED <<phase, inbox, live>>
    BY <1>7 DEF Start, IInv, Ended, References
  <2> QED  BY <2>1 DEF Attended, GarbageAwaited
<1>8. CASE StartFails \/ \E k \in Client : AcceptFails(k)
  BY <1>8, DeathKeepsAttended DEF StartFails, AcceptFails
<1>9. CASE UNCHANGED vars
  BY <1>9 DEF vars, Attended, GarbageAwaited
<1> QED  BY <1>1, <1>2, <1>3, <1>4, <1>5, <1>6, <1>7, <1>8, <1>9 DEF Next

\* No client waits where nobody looks, in whatever order clients come, send and
\* leave and contexts are reused (ev_io_start in ixfd_commonsock_accept_cb and
\* what stops the two watchers); no closed context waits for a collection that
\* nobody has asked for, except after an EXIT (delayed_gc).
THEOREM NobodyWaitsInVain == Spec => [](Attended /\ GarbageAwaited)
<1>1. Init => Attended /\ GarbageAwaited
  BY DEF Init, Attended, GarbageAwaited
<1> QED  BY <1>1, NextKeepsAttended, Invariance, PTL DEF Spec
=============================================================================
