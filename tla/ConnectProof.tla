---------------------------- MODULE ConnectProof ----------------------------
(***************************************************************************)
(* Connecting sockets, for any number of sockets, attempts and             *)
(* descriptors: callbacks are sound, open connections are accepted ones,   *)
(* and only failures leak.                                                 *)
(***************************************************************************)
EXTENDS Connect, TLAPS

\* A descriptor is open for an attempt that was made, and for one only; only
\* attempts that were made are answered.
Files ==
  /\ \A f \in Fd : file[f] # "free" => file[f] \in started
  /\ \A f, g \in Fd : file[f] = file[g] /\ file[f] # "free" => f = g
  /\ \A a \in Attempt : answer[a] # "none" => a \in started

\* A socket object has one attempt under way, and none once it is connected.
OneAttempt ==
  /\ \A a, b \in active : sockOf[a] = sockOf[b] => a = b
  /\ \A a \in active : sockOf[a] \notin connected

\* An open connection is its socket object's, of an attempt that is over.
OpenIsOwn ==
  \A s \in Sock :
    context[s] = "open" =>
      /\ s \in live \cap connected /\ sfd[s] \in Fd
      /\ file[sfd[s]] \in started \ active /\ sockOf[file[sfd[s]]] = s

\* An attempt that was made is a socket object's; no script is told of another.
Made ==
  /\ \A a \in started : sockOf[a] \in Sock
  /\ \A a \in Attempt \ started : told[a] = 0

IInv ==
  /\ TypeOK /\ Files /\ Made /\ OneAttempt /\ OpenIsOwn
  /\ CallbackSound /\ OpenIsAccepted /\ OnlyFailuresLeak

USE DEF objectVars, attemptVars
-----------------------------------------------------------------------------
LEMMA InitEstablishes == Init => IInv
  BY DEF Init, IInv, TypeOK, Files, Made, OneAttempt, OpenIsOwn, CallbackSound,
     OpenIsAccepted, OnlyFailuresLeak

\* The attempts, and the strings that no attempt is.
LEMMA Names == "free" \notin Attempt /\ "none" \notin Attempt /\ -1 \notin Fd
  BY ConnectAssumption

LEMMA CreateKeeps ==
  ASSUME IInv, NEW s \in Sock, Create(s)  PROVE IInv'
<1>1. /\ s \notin live /\ live' = live \cup {s} /\ connected' = connected \ {s}
      /\ sfd' = [sfd EXCEPT ![s] = 0] /\ context' = [context EXCEPT ![s] = "none"]
      /\ UNCHANGED <<sockOf, started, active, args, told, file, answer>>
  BY DEF Create
<1>2. context[s] # "open" /\ \A a \in active : sockOf[a] # s
  BY <1>1 DEF IInv, OpenIsOwn, CallbackSound
<1>3. TypeOK'
  BY <1>1 DEF IInv, TypeOK
<1>4. Files' /\ Made' /\ OneAttempt' /\ OpenIsOwn'
  BY <1>1, <1>2 DEF IInv, TypeOK, Files, Made, OneAttempt, OpenIsOwn
<1>5. CallbackSound' /\ OpenIsAccepted'
  BY <1>1, <1>2 DEF IInv, TypeOK, CallbackSound, OpenIsAccepted
<1>6. OnlyFailuresLeak'
  BY <1>1, <1>2 DEF IInv, TypeOK, Files, OnlyFailuresLeak
<1> QED  BY <1>3, <1>4, <1>5, <1>6 DEF IInv

LEMMA FreeKeeps ==
  ASSUME IInv, NEW s \in Sock, Free(s)  PROVE IInv'
<1>1. /\ live' = live \ {s} /\ context[s] # "open" /\ \A a \in active : sockOf[a] # s
      /\ UNCHANGED <<connected, sfd, context, sockOf, started, active, args, told, file, answer>>
  BY DEF Free, Connecting
<1> QED
  BY <1>1 DEF IInv, TypeOK, Files, Made, OneAttempt, OpenIsOwn, CallbackSound, OpenIsAccepted,
     OnlyFailuresLeak

\* ixfd_commonsock_close: the descriptor is the connection's own.
LEMMA PeerEndsKeeps ==
  ASSUME IInv, NEW s \in Sock, PeerEnds(s)  PROVE IInv'
<1>1. /\ context[s] = "open" /\ context' = [context EXCEPT ![s] = "closed"]
      /\ file' = [file EXCEPT ![sfd[s]] = "free"]
      /\ UNCHANGED <<live, connected, sfd, sockOf, started, active, args, told, answer>>
  BY DEF PeerEnds, CloseFile
<1>2. /\ sfd[s] \in Fd /\ file[sfd[s]] \in started \ active /\ sockOf[file[sfd[s]]] = s
      /\ file[sfd[s]] \in Attempt
  BY <1>1 DEF IInv, OpenIsOwn, TypeOK
<1>3. \A a \in active : sfd[sockOf[a]] # sfd[s]
  BY <1>2 DEF IInv, CallbackSound
<1>4. \A t \in Sock \ {s} : context[t] = "open" => sfd[t] # sfd[s]
  BY <1>2 DEF IInv, OpenIsOwn
<1>5. TypeOK'
  BY <1>1, <1>2 DEF IInv, TypeOK
<1>6. Files' /\ Made' /\ OneAttempt'
  BY <1>1, <1>2, Names DEF IInv, TypeOK, Files, Made, OneAttempt
<1>7. OpenIsOwn' /\ CallbackSound' /\ OpenIsAccepted'
  BY <1>1, <1>2, <1>3, <1>4 DEF IInv, TypeOK, OpenIsOwn, CallbackSound, OpenIsAccepted
<1>8. OnlyFailuresLeak'
  BY <1>1, <1>2, <1>4 DEF IInv, TypeOK, Files, OnlyFailuresLeak
<1> QED  BY <1>5, <1>6, <1>7, <1>8 DEF IInv

LEMMA AnswerKeeps ==
  ASSUME IInv, NEW a \in Attempt, Answer(a)  PROVE IInv'
<1>1. PICK r \in {"accepted", "refused"} : answer' = [answer EXCEPT ![a] = r]
  BY DEF Answer
<1>2. /\ a \in active /\ answer[a] = "none"
      /\ UNCHANGED <<live, connected, sfd, context, sockOf, started, active, args, told, file>>
  BY DEF Answer
<1>3. TypeOK' /\ Files' /\ Made' /\ OneAttempt' /\ OpenIsOwn' /\ CallbackSound'
  BY <1>1, <1>2 DEF IInv, TypeOK, Files, Made, OneAttempt, OpenIsOwn, CallbackSound
<1>4. OpenIsAccepted' /\ OnlyFailuresLeak'
  BY <1>1, <1>2 DEF IInv, TypeOK, OpenIsAccepted, OnlyFailuresLeak
<1> QED  BY <1>3, <1>4 DEF IInv

\* socket(2) for an attempt b of socket s, which was not made before.
LEMMA OpenSocketGives ==
  ASSUME IInv, NEW b \in Attempt, NEW s \in Sock, NEW f \in Fd \cup {-1}, b \notin started,
         OpenSocket(b, s, f)
  PROVE  /\ file' \in [Fd -> Attempt \cup {"free"}] /\ sfd' \in [Sock -> Fd \cup {0, -1}]
         /\ sfd'[s] = f /\ \A t \in Sock \ {s} : sfd'[t] = sfd[t]
         /\ \A g \in Fd : IF g = f THEN file[g] = "free" /\ file'[g] = b
                                   ELSE file'[g] = file[g] /\ file[g] # b
<1>1. /\ file' = [g \in Fd |-> IF g = f THEN b ELSE file[g]] /\ sfd' = [sfd EXCEPT ![s] = f]
      /\ f \in Fd => file[f] = "free"
  BY Names DEF OpenSocket
<1>2. \A g \in Fd : file[g] # b
  BY Names DEF IInv, Files
<1> QED  BY <1>1, <1>2 DEF IInv, TypeOK

\* What every beginning of an attempt b leaves alone: open connections, the
\* attempts of other sockets, and what is leaked.
LEMMA OthersKept ==
  ASSUME IInv, NEW b \in Attempt, NEW s \in Sock, NEW f \in Fd \cup {-1}, b \notin started,
         OpenSocket(b, s, f), s \notin connected,
         started' = started \cup {b}, active' \subseteq active \cup {b},
         active \ active' \subseteq {a \in active : answer[a] # "accepted"},
         sockOf' = [sockOf EXCEPT ![b] = s],
         UNCHANGED <<live, connected, context, answer>>
  PROVE  /\ OpenIsOwn' /\ OpenIsAccepted' /\ OnlyFailuresLeak'
         /\ \A a \in active : sockOf[a] # s => sockOf'[a] = sockOf[a] /\ sockOf[a] \in live
                              /\ sfd'[sockOf[a]] \in Fd /\ file'[sfd'[sockOf[a]]] = a
<1>1. /\ file' \in [Fd -> Attempt \cup {"free"}] /\ sfd' \in [Sock -> Fd \cup {0, -1}]
      /\ sfd'[s] = f /\ \A t \in Sock \ {s} : sfd'[t] = sfd[t]
      /\ \A g \in Fd : IF g = f THEN file[g] = "free" /\ file'[g] = b
                                ELSE file'[g] = file[g] /\ file[g] # b
  BY OpenSocketGives
<1>2. b \notin active /\ answer[b] = "none" /\ context[s] # "open"
  BY DEF IInv, TypeOK, Files, OpenIsOwn
<1>3. OpenIsOwn'
  <2> SUFFICES ASSUME NEW t \in Sock, context[t] = "open"
               PROVE  /\ t \in live \cap connected /\ sfd'[t] \in Fd
                      /\ file'[sfd'[t]] \in started' \ active' /\ sockOf'[file'[sfd'[t]]] = t
    BY DEF OpenIsOwn
  <2>1. /\ t \in live \cap connected /\ sfd[t] \in Fd
        /\ file[sfd[t]] \in started \ active /\ sockOf[file[sfd[t]]] = t
        /\ file[sfd[t]] \in Attempt
    BY DEF IInv, TypeOK, OpenIsOwn
  <2>2. sfd'[t] = sfd[t] /\ file'[sfd[t]] = file[sfd[t]] /\ file[sfd[t]] # b
    BY <1>1, <1>2, <2>1, Names
  <2> QED  BY <2>1, <2>2 DEF IInv, TypeOK
<1>4. OpenIsAccepted'
  <2> SUFFICES ASSUME NEW t \in live, context[t] = "open"
               PROVE  /\ sfd'[t] \in Fd /\ file'[sfd'[t]] \in Attempt
                      /\ answer[file'[sfd'[t]]] = "accepted"
    BY DEF OpenIsAccepted
  <2>1. /\ t \in Sock \ {s} /\ sfd[t] \in Fd /\ file[sfd[t]] \in Attempt
        /\ answer[file[sfd[t]]] = "accepted"
    BY <1>2 DEF IInv, TypeOK, OpenIsAccepted
  <2> QED  BY <1>1, <2>1, Names
<1>5. OnlyFailuresLeak'
  <2> SUFFICES ASSUME NEW g \in Fd, file'[g] # "free", file'[g] \notin active',
                      answer[file'[g]] = "accepted"
               PROVE  context[sockOf'[file'[g]]] = "open" /\ sfd'[sockOf'[file'[g]]] = g
    BY DEF OnlyFailuresLeak
  <2>1. file'[g] = file[g] /\ file[g] # b /\ sockOf'[file[g]] = sockOf[file[g]]
    BY <1>1, <1>2 DEF IInv, TypeOK
  <2>2. context[sockOf[file[g]]] = "open" /\ sfd[sockOf[file[g]]] = g
    BY <2>1 DEF IInv, TypeOK, OnlyFailuresLeak
  <2>3. sockOf[file[g]] \in Sock
    BY <2>1, <2>2 DEF IInv, Files, Made
  <2> QED  BY <1>1, <1>2, <2>1, <2>2, <2>3
<1>6. ASSUME NEW a \in active, sockOf[a] # s
      PROVE  /\ sockOf'[a] = sockOf[a] /\ sockOf[a] \in live
             /\ sfd'[sockOf[a]] \in Fd /\ file'[sfd'[sockOf[a]]] = a
  <2>1. /\ a \in Attempt /\ a # b /\ sockOf[a] \in live /\ sockOf[a] \in Sock
        /\ sfd[sockOf[a]] \in Fd /\ file[sfd[sockOf[a]]] = a
    BY <1>2 DEF IInv, TypeOK, CallbackSound
  <2>2. sfd'[sockOf[a]] = sfd[sockOf[a]] /\ file'[sfd[sockOf[a]]] = a
    BY <1>1, <1>6, <2>1, Names
  <2> QED  BY <2>1, <2>2 DEF IInv, TypeOK
<1> QED  BY <1>3, <1>4, <1>5, <1>6

LEMMA TryConnectKeeps ==
  ASSUME IInv, NEW s \in Sock, NEW b \in Attempt, TryConnect(s, b)  PROVE IInv'
<1>1. PICK f \in Fd : OpenSocket(b, s, f)
  BY DEF TryConnect, Begins
<1>2. /\ s \in live \ connected /\ b \notin started /\ \A a \in active : sockOf[a] # s
      /\ started' = started \cup {b} /\ args' = args \cup {b} /\ active' = active \cup {b}
      /\ sockOf' = [sockOf EXCEPT ![b] = s]
      /\ UNCHANGED <<live, connected, context, told, answer>>
  BY DEF TryConnect, Begins, Connecting, StartConnect
<1>3. /\ file' \in [Fd -> Attempt \cup {"free"}] /\ sfd' \in [Sock -> Fd \cup {0, -1}]
      /\ sfd'[s] = f
      /\ \A g \in Fd : IF g = f THEN file[g] = "free" /\ file'[g] = b
                                ELSE file'[g] = file[g] /\ file[g] # b
  BY <1>1, <1>2, OpenSocketGives
<1>4. /\ OpenIsOwn' /\ OpenIsAccepted' /\ OnlyFailuresLeak'
      /\ \A a \in active : /\ sockOf'[a] = sockOf[a] /\ sockOf[a] \in live
                           /\ sfd'[sockOf[a]] \in Fd /\ file'[sfd'[sockOf[a]]] = a
  BY <1>1, <1>2, OthersKept
<1>5. answer[b] = "none" /\ told[b] = 0
  BY <1>2 DEF IInv, Files, Made
<1>6. TypeOK'
  BY <1>2, <1>3 DEF IInv, TypeOK
<1>7. Files' /\ Made' /\ OneAttempt'
  BY <1>2, <1>3, <1>5 DEF IInv, TypeOK, Files, Made, OneAttempt
<1>8. CallbackSound'
  BY <1>2, <1>3, <1>4, <1>5 DEF IInv, TypeOK, CallbackSound
<1> QED  BY <1>4, <1>6, <1>7, <1>8 DEF IInv

\* The same without a descriptor as well; nothing waits for the attempt.
LEMMA FailAtOnceKeeps ==
  ASSUME IInv, NEW s \in Sock, NEW b \in Attempt, FailAtOnce(s, b)  PROVE IInv'
<1>1. PICK f \in Fd \cup {-1} : OpenSocket(b, s, f)
  BY DEF FailAtOnce
<1>2. /\ s \in live \ connected /\ b \notin started /\ \A a \in active : sockOf[a] # s
      /\ started' = started \cup {b} /\ args' = args \cup {b}
      /\ sockOf' = [sockOf EXCEPT ![b] = s] /\ told' = [told EXCEPT ![b] = @ + 1]
      /\ UNCHANGED <<live, connected, context, active, answer>>
  BY DEF FailAtOnce, Connecting
<1>3. /\ file' \in [Fd -> Attempt \cup {"free"}] /\ sfd' \in [Sock -> Fd \cup {0, -1}]
      /\ \A g \in Fd : IF g = f THEN file[g] = "free" /\ file'[g] = b
                                ELSE file'[g] = file[g] /\ file[g] # b
  BY <1>1, <1>2, OpenSocketGives
<1>4. /\ OpenIsOwn' /\ OpenIsAccepted' /\ OnlyFailuresLeak'
      /\ \A a \in active : /\ sockOf'[a] = sockOf[a] /\ sockOf[a] \in live
                           /\ sfd'[sockOf[a]] \in Fd /\ file'[sfd'[sockOf[a]]] = a
  BY <1>1, <1>2, OthersKept
<1>5. /\ told' \in [Attempt -> Nat] /\ \A a \in Attempt \ {b} : told'[a] = told[a]
      /\ answer[b] = "none" /\ b \notin active
  BY <1>2 DEF IInv, TypeOK, Files
<1>6. TypeOK'
  BY <1>2, <1>3, <1>5 DEF IInv, TypeOK
<1>7. Files' /\ Made' /\ OneAttempt'
  BY <1>2, <1>3, <1>5 DEF IInv, TypeOK, Files, Made, OneAttempt
<1>8. CallbackSound'
  BY <1>2, <1>4, <1>5 DEF IInv, TypeOK, CallbackSound
<1> QED  BY <1>4, <1>6, <1>7, <1>8 DEF IInv

\* The connection behind the descriptor is the attempt's own: SO_ERROR of it
\* is what the peer answered to this attempt.
LEMMA ConnectSucceedsKeeps ==
  ASSUME IInv, NEW a \in Attempt, ConnectSucceeds(a)  PROVE IInv'
<1> DEFINE s == sockOf[a]
<1>1. /\ a \in active /\ answer[a] # "none" /\ answer[file[sfd[s]]] # "refused"
      /\ context' = [context EXCEPT ![s] = "open"] /\ connected' = connected \cup {s}
      /\ told' = [told EXCEPT ![a] = @ + 1]
      /\ args' = args \ {a} /\ active' = active \ {a}
      /\ UNCHANGED <<live, sfd, sockOf, started, file, answer>>
  BY DEF ConnectSucceeds, Succeeds, SocketError, NewContext, Stopped
<1>2. /\ s \in Sock /\ s \in live /\ sfd[s] \in Fd /\ file[sfd[s]] = a
      /\ answer[a] = "accepted" /\ a \in started
      /\ \A b \in active' : b # a /\ sockOf[b] # s
  BY <1>1 DEF IInv, TypeOK, CallbackSound, OneAttempt
<1>3. told' \in [Attempt -> Nat] /\ \A b \in Attempt \ {a} : told'[b] = told[b]
  BY <1>1 DEF IInv, TypeOK
<1> HIDE DEF s
<1>4. TypeOK'
  BY <1>1, <1>2, <1>3 DEF IInv, TypeOK
<1>5. Files' /\ Made'
  BY <1>1, <1>2, <1>3 DEF IInv, TypeOK, Files, Made
<1>6. OneAttempt' /\ CallbackSound'
  BY <1>1, <1>2, <1>3 DEF IInv, TypeOK, OneAttempt, CallbackSound
<1>7. OpenIsOwn' /\ OpenIsAccepted'
  BY <1>1, <1>2 DEF IInv, TypeOK, OpenIsOwn, OpenIsAccepted, s
<1>8. OnlyFailuresLeak'
  BY <1>1, <1>2 DEF IInv, TypeOK, Files, OnlyFailuresLeak, s
<1> QED  BY <1>4, <1>5, <1>6, <1>7, <1>8 DEF IInv

\* The descriptor of a refused attempt is left open.
LEMMA ConnectFailsKeeps ==
  ASSUME IInv, NEW a \in Attempt, ConnectFails(a)  PROVE IInv'
<1>1. /\ a \in active /\ answer[file[sfd[sockOf[a]]]] = "refused"
      /\ told' = [told EXCEPT ![a] = @ + 1]
      /\ args' = args \ {a} /\ active' = active \ {a}
      /\ UNCHANGED <<live, connected, sfd, context, sockOf, started, file, answer>>
  BY DEF ConnectFails, Succeeds, SocketError, Stopped
<1>2. answer[a] = "refused" /\ a \in started
  BY <1>1 DEF IInv, TypeOK, CallbackSound
<1>3. told' \in [Attempt -> Nat] /\ \A b \in Attempt \ {a} : told'[b] = told[b]
  BY <1>1 DEF IInv, TypeOK
<1>4. TypeOK' /\ Files' /\ Made'
  BY <1>1, <1>2, <1>3 DEF IInv, TypeOK, Files, Made
<1>5. OneAttempt' /\ OpenIsOwn' /\ CallbackSound'
  BY <1>1, <1>3 DEF IInv, TypeOK, OneAttempt, OpenIsOwn, CallbackSound
<1>6. OpenIsAccepted' /\ OnlyFailuresLeak'
  BY <1>1, <1>2 DEF IInv, TypeOK, Files, OpenIsAccepted, OnlyFailuresLeak
<1> QED  BY <1>4, <1>5, <1>6 DEF IInv

\* The callback's new attempt takes the socket object over; what is stopped
\* and freed after it belongs to the old one.
LEMMA FailsAndRetriesKeeps ==
  ASSUME IInv, NEW a \in Attempt, NEW b \in Attempt, FailsAndRetries(a, b)  PROVE IInv'
<1> DEFINE s == sockOf[a]
<1>1. PICK f \in Fd : OpenSocket(b, s, f)
  BY DEF FailsAndRetries
<1>2. /\ a \in active /\ answer[file[sfd[s]]] = "refused" /\ b \notin started
      /\ told' = [told EXCEPT ![a] = @ + 1]
      /\ started' = started \cup {b} /\ args' = (args \cup {b}) \ {a}
      /\ sockOf' = [sockOf EXCEPT ![b] = s] /\ active' = (active \cup {b}) \ {a}
      /\ UNCHANGED <<live, connected, context, answer>>
  BY DEF FailsAndRetries, Succeeds, SocketError, Stopped
<1>3. /\ s \in Sock /\ s \in live /\ s \notin connected /\ a \in started /\ a # b
      /\ answer[a] = "refused" /\ \A c \in active \ {a} : sockOf[c] # s
  BY <1>2 DEF IInv, TypeOK, CallbackSound, OneAttempt
<1> HIDE DEF s
<1>4. /\ file' \in [Fd -> Attempt \cup {"free"}] /\ sfd' \in [Sock -> Fd \cup {0, -1}]
      /\ sfd'[s] = f
      /\ \A g \in Fd : IF g = f THEN file[g] = "free" /\ file'[g] = b
                                ELSE file'[g] = file[g] /\ file[g] # b
  BY <1>1, <1>2, <1>3, OpenSocketGives
<1>5. /\ active' \subseteq active \cup {b}
      /\ active \ active' \subseteq {c \in active : answer[c] # "accepted"}
  BY <1>2, <1>3
<1>6. /\ OpenIsOwn' /\ OpenIsAccepted' /\ OnlyFailuresLeak'
      /\ \A c \in active \ {a} : /\ sockOf'[c] = sockOf[c] /\ sockOf[c] \in live
                                 /\ sfd'[sockOf[c]] \in Fd /\ file'[sfd'[sockOf[c]]] = c
  <2>1. /\ OpenIsOwn' /\ OpenIsAccepted' /\ OnlyFailuresLeak'
        /\ \A c \in active : sockOf[c] # s => sockOf'[c] = sockOf[c] /\ sockOf[c] \in live
                              /\ sfd'[sockOf[c]] \in Fd /\ file'[sfd'[sockOf[c]]] = c
    BY <1>1, <1>2, <1>3, <1>5, OthersKept
  <2> QED  BY <1>3, <2>1
<1>7. /\ told' \in [Attempt -> Nat] /\ \A c \in Attempt \ {a} : told'[c] = told[c]
      /\ answer[b] = "none" /\ told[b] = 0
  BY <1>2 DEF IInv, TypeOK, Files, Made
<1>8. TypeOK'
  BY <1>2, <1>3, <1>4, <1>7 DEF IInv, TypeOK
<1>9. Files' /\ Made' /\ OneAttempt'
  BY <1>2, <1>3, <1>4, <1>7 DEF IInv, TypeOK, Files, Made, OneAttempt
<1>10. CallbackSound'
  BY <1>2, <1>3, <1>4, <1>6, <1>7 DEF IInv, TypeOK, CallbackSound
<1> QED  BY <1>6, <1>8, <1>9, <1>10 DEF IInv

LEMMA StepKeeps == IInv /\ [Next]_vars => IInv'
<1> SUFFICES ASSUME IInv, [Next]_vars  PROVE IInv'
  OBVIOUS
<1>1. ASSUME NEW s \in Sock, Create(s) \/ Free(s) \/ PeerEnds(s)  PROVE IInv'
  BY <1>1, CreateKeeps, FreeKeeps, PeerEndsKeeps
<1>2. ASSUME NEW s \in Sock, NEW a \in Attempt, TryConnect(s, a) \/ FailAtOnce(s, a)  PROVE IInv'
  BY <1>2, TryConnectKeeps, FailAtOnceKeeps
<1>3. ASSUME NEW a \in Attempt, Answer(a) \/ ConnectCb(a)  PROVE IInv'
  BY <1>3, AnswerKeeps, ConnectSucceedsKeeps, ConnectFailsKeeps, FailsAndRetriesKeeps DEF ConnectCb
<1>4. CASE UNCHANGED vars
  BY <1>4 DEF vars, IInv, TypeOK, Files, Made, OneAttempt, OpenIsOwn, CallbackSound,
     OpenIsAccepted, OnlyFailuresLeak
<1> QED  BY <1>1, <1>2, <1>3, <1>4 DEF Next
-----------------------------------------------------------------------------
\* The inductive invariant holds whatever scripts, network and loop do, for
\* any number of sockets, attempts and descriptors.
THEOREM Invariance == Spec => []IInv
  BY InitEstablishes, StepKeeps, PTL DEF Spec

\* Types of ixfd_sock, its context and ixfd_connect_args.
THEOREM TypeCorrect == Spec => []TypeOK
<1>1. IInv => TypeOK
  BY DEF IInv
<1> QED  BY <1>1, Invariance, PTL

\* ixfd_commonsock_connect_cb finds its arguments, its socket and its own
\* descriptor, and tells a script that was not told before.
THEOREM CallbacksAlwaysSound == Spec => []CallbackSound
<1>1. IInv => CallbackSound
  BY DEF IInv
<1> QED  BY <1>1, Invariance, PTL

\* The context that ixfd_commonsock_connect_cb activates reads from a
\* connection that the peer accepted.
THEOREM OpenAlwaysAccepted == Spec => []OpenIsAccepted
<1>1. IInv => OpenIsAccepted
  BY DEF IInv
<1> QED  BY <1>1, Invariance, PTL

\* A descriptor that nothing waits on or reads from is a failed attempt's.
THEOREM NothingElseLeaks == Spec => []OnlyFailuresLeak
<1>1. IInv => OnlyFailuresLeak
  BY DEF IInv
<1> QED  BY <1>1, Invariance, PTL
-----------------------------------------------------------------------------
(***************************************************************************)
(* The safety half of AttemptTold, and what becomes of the arguments.      *)
(***************************************************************************)

\* A script is told of its attempt once, when its watcher leaves the loop:
\* never twice, not before, and not of an attempt it did not make.
ToldOnce == \A a \in Attempt : told[a] = IF a \in started \ active THEN 1 ELSE 0

\* The arguments that nobody will free are those of an attempt that failed at
\* once (createnconnect): the network never answered it.
OnlyAtOnceLeaks == \A a \in args \ active : answer[a] = "none"

Ends(a) ==
  /\ a \in active /\ answer[a] # "none" /\ told' = [told EXCEPT ![a] = @ + 1]
  /\ UNCHANGED answer
  /\ \E new \in SUBSET (Attempt \ started) :
       /\ started' = started \cup new
       /\ active' = (active \cup new) \ {a} /\ args' = (args \cup new) \ {a}

LEMMA ConnectCbEnds ==
  ASSUME IInv, NEW a \in Attempt, ConnectCb(a) PROVE Ends(a)
<1>1. CASE ConnectSucceeds(a) \/ ConnectFails(a)
  <2>1. /\ a \in active /\ answer[a] # "none" /\ told' = [told EXCEPT ![a] = @ + 1]
        /\ args' = args \ {a} /\ active' = active \ {a} /\ UNCHANGED <<started, answer>>
    BY <1>1 DEF ConnectSucceeds, ConnectFails, Stopped
  <2>2. {} \in SUBSET (Attempt \ started)
    OBVIOUS
  <2> QED  BY <2>1, <2>2 DEF Ends
<1>2. ASSUME NEW b \in Attempt, FailsAndRetries(a, b) PROVE Ends(a)
  <2>1. /\ a \in active /\ answer[a] # "none" /\ told' = [told EXCEPT ![a] = @ + 1]
        /\ b \notin started /\ started' = started \cup {b} /\ args' = (args \cup {b}) \ {a}
        /\ active' = (active \cup {b}) \ {a} /\ UNCHANGED answer
    BY <1>2 DEF FailsAndRetries, Stopped
  <2>2. {b} \in SUBSET (Attempt \ started)
    BY <2>1
  <2> QED  BY <2>1, <2>2 DEF Ends
<1> QED  BY <1>1, <1>2 DEF ConnectCb

LEMMA ToldOnceKept ==
  ASSUME IInv, ToldOnce, OnlyAtOnceLeaks, [Next]_vars PROVE ToldOnce' /\ OnlyAtOnceLeaks'
<1>1. /\ started \subseteq Attempt /\ active \subseteq started /\ args \subseteq started
      /\ told \in [Attempt -> Nat]
      /\ \A a \in Attempt \ started : answer[a] = "none"
  BY DEF IInv, TypeOK, Files
<1>2. CASE UNCHANGED <<started, active, args, told, answer>>
  BY <1>2 DEF ToldOnce, OnlyAtOnceLeaks
<1>3. ASSUME NEW s \in Sock, Create(s) \/ Free(s) \/ PeerEnds(s)
      PROVE  UNCHANGED <<started, active, args, told, answer>>
  BY <1>3 DEF Create, Free, PeerEnds
<1>4. ASSUME NEW s \in Sock, NEW a \in Attempt, TryConnect(s, a)
      PROVE  ToldOnce' /\ OnlyAtOnceLeaks'
  <2>1. /\ a \notin started /\ started' = started \cup {a} /\ args' = args \cup {a}
        /\ active' = active \cup {a} /\ UNCHANGED <<told, answer>>
    BY <1>4 DEF TryConnect, Begins, StartConnect
  <2> QED  BY <1>1, <2>1 DEF ToldOnce, OnlyAtOnceLeaks
<1>5. ASSUME NEW s \in Sock, NEW a \in Attempt, FailAtOnce(s, a)
      PROVE  ToldOnce' /\ OnlyAtOnceLeaks'
  <2>1. /\ a \notin started /\ started' = started \cup {a} /\ args' = args \cup {a}
        /\ told' = [told EXCEPT ![a] = @ + 1] /\ UNCHANGED <<active, answer>>
    BY <1>5 DEF FailAtOnce
  <2> QED  BY <1>1, <2>1 DEF ToldOnce, OnlyAtOnceLeaks
<1>6. ASSUME NEW a \in Attempt, Answer(a) PROVE ToldOnce' /\ OnlyAtOnceLeaks'
  <2>1. /\ a \in active /\ UNCHANGED <<started, active, args, told>>
        /\ \A b \in Attempt \ {a} : answer'[b] = answer[b]
    BY <1>6 DEF Answer, IInv, TypeOK
  <2> QED  BY <1>1, <2>1 DEF ToldOnce, OnlyAtOnceLeaks
<1>7. ASSUME NEW a \in Attempt, Ends(a) PROVE ToldOnce' /\ OnlyAtOnceLeaks'
  <2>1. PICK new \in SUBSET (Attempt \ started) :
          /\ started' = started \cup new
          /\ active' = (active \cup new) \ {a} /\ args' = (args \cup new) \ {a}
    BY <1>7 DEF Ends
  <2>2. a \in active /\ told' = [told EXCEPT ![a] = @ + 1] /\ UNCHANGED answer
    BY <1>7 DEF Ends
  <2> QED  BY <1>1, <2>1, <2>2 DEF ToldOnce, OnlyAtOnceLeaks
<1> QED  BY <1>2, <1>3, <1>4, <1>5, <1>6, <1>7, ConnectCbEnds DEF Next, vars

LEMMA OnceInvariance == Spec => [](ToldOnce /\ OnlyAtOnceLeaks)
<1>1. Init => ToldOnce /\ OnlyAtOnceLeaks
  BY DEF Init, ToldOnce, OnlyAtOnceLeaks
<1>2. IInv /\ (ToldOnce /\ OnlyAtOnceLeaks) /\ [Next]_vars => (ToldOnce /\ OnlyAtOnceLeaks)'
  BY ToldOnceKept
<1> QED  BY <1>1, <1>2, Invariance, PTL DEF Spec

\* An attempt's script is told exactly once, when its watcher leaves the loop;
\* that it leaves the loop needs the loop's fairness (AttemptTold).
THEOREM EachToldOnce == Spec => []ToldOnce
  BY OnceInvariance, PTL

\* No arguments but those of attempts that failed at once are left behind
\* (ixfd_connect_args).
THEOREM OnlyFailAtOnceLeaks == Spec => []OnlyAtOnceLeaks
  BY OnceInvariance, PTL
=============================================================================
