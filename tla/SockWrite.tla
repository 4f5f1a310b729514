----------------------------- MODULE SockWrite -----------------------------
(***************************************************************************)
(* The output of one connection: ixfd_commonsock_write, the queue of what  *)
(* the kernel did not take, and ixfd_commonsock_write_cb.  The caller      *)
(* writes what it likes when it likes, as the echo servers of test/ do;    *)
(* the peer reads at its own pace, so that the kernel's send buffer fills. *)
(*                                                                         *)
(* A byte is <<m, i>>: the i-th of message m.  The queue is the abstract   *)
(* one of module Fifo, which CycQueue implements.                          *)
(***************************************************************************)
EXTENDS Naturals, Sequences

CONSTANTS
  Messages,    \* how many messages are written, a bound of the model
  Length,      \* bytes in a message
  Buffer       \* bytes the kernel's send buffer holds

ASSUME SockWriteAssumption ==
  /\ Messages \in Nat /\ Length \in Nat \ {0} /\ Buffer \in Nat \ {0}

VARIABLES
  written,     \* messages handed to ixfd_commonsock_write so far
  room,        \* free bytes in the kernel's send buffer
  stream,      \* history: the bytes the kernel has taken, in order
  queue,       \* buf_write: per entry the bytes that remain
  launched,    \* ctx->write_launched
  watching,    \* event_write is active
  looping,     \* control is in the loop of ixfd_commonsock_write_cb
  completed,   \* history: messages whose completion was reported
  undefined    \* behaviour is undefined from here on

vars == <<written, room, stream, queue, launched, watching, looping, completed, undefined>>

Bytes(m) == [i \in 1..Length |-> <<m, i>>]

Init ==
  /\ written = 0 /\ room = Buffer /\ stream = <<>>
  /\ queue = <<>> /\ launched = FALSE /\ watching = FALSE /\ looping = FALSE
  /\ completed = {} /\ undefined = FALSE
-----------------------------------------------------------------------------
(* write(2) on a socket that does not block takes what there is room for,  *)
(* and answers -1 when there is none.                                      *)

Least(a, b) == IF a < b THEN a ELSE b

Taken(data) == Least(room, Len(data))

KernelTakes(data) ==
  /\ stream' = stream \o SubSeq(data, 1, Taken(data))
  /\ room' = room - Taken(data)

\* n >= len with n a size_t: -1 is larger than every length.
WroteAll(data) == room = 0 \/ Taken(data) = Len(data)

\* Mutant: data and len are not moved past what the kernel took.
Remaining_All(data) == data

\* Mutant: one byte too far.
Remaining_Skips(data) == SubSeq(data, Taken(data) + 2, Len(data))

\* data + n, len - n
Remaining(data) == SubSeq(data, Taken(data) + 1, Len(data))

\* Mutant: write_launched is set and the watcher is not started.
Launch_Flag ==
  /\ launched' = TRUE
  /\ UNCHANGED watching

\* The watcher is started unless write_launched says it has been.
Launch ==
  /\ launched' = TRUE
  /\ watching' = (watching \/ ~launched)

\* ixfd_commonsock_write.  It tries the kernel first, whatever is queued.
Write ==
  /\ ~undefined /\ ~looping /\ written < Messages
  /\ written' = written + 1
  /\ LET data == Bytes(written + 1) IN
       /\ KernelTakes(data)
       /\ \/ /\ WroteAll(data)
             /\ completed' = completed \cup {written + 1}
             /\ UNCHANGED <<queue, launched, watching>>
          \/ /\ ~WroteAll(data)
             /\ queue' = Append(queue, Remaining(data))
             /\ Launch
             /\ UNCHANGED completed
  /\ UNCHANGED <<looping, undefined>>

\* The peer reads a byte.
PeerReads ==
  /\ room < Buffer
  /\ room' = room + 1
  /\ UNCHANGED <<written, stream, queue, launched, watching, looping, completed, undefined>>

\* The socket has become writable: the loop calls ixfd_commonsock_write_cb.
WriteReady ==
  /\ ~undefined /\ watching /\ ~looping /\ room > 0
  /\ looping' = TRUE
  /\ UNCHANGED <<written, room, stream, queue, launched, watching, completed, undefined>>

\* One round of its loop.  An entry that is done calls back with cb_args,
\* which nothing has set, and frees the connection's context instead of the
\* entry; the loop then reads the queue of the freed context.
WriteRound ==
  /\ ~undefined /\ looping /\ queue # <<>>
  /\ KernelTakes(Head(queue))
  /\ \/ /\ WroteAll(Head(queue))
        /\ queue' = Tail(queue)
        /\ completed' = completed \cup {Head(queue)[1][1]}
        /\ undefined' = TRUE
     \/ /\ ~WroteAll(Head(queue))
        /\ queue' = [queue EXCEPT ![1] = Remaining(Head(queue))]
        /\ UNCHANGED <<completed, undefined>>
  /\ UNCHANGED <<written, launched, watching, looping>>

Next == Write \/ PeerReads \/ WriteReady \/ WriteRound

Spec == Init /\ [][Next]_vars
-----------------------------------------------------------------------------
(* Safety.                                                                 *)

AllBytes == UNION {{<<m, i>> : i \in 1..Length} : m \in 1..Messages}

\* Types of the write path (struct ixfd_sock_write_ctx).
TypeOK ==
  /\ written \in 0..Messages /\ room \in 0..Buffer
  /\ \A i \in 1..Len(stream) : stream[i] \in AllBytes
  /\ \A i \in 1..Len(queue) : Len(queue[i]) \in 1..Length
  /\ {launched, watching, looping, undefined} \subseteq BOOLEAN
  /\ completed \subseteq 1..Messages

\* What is queued has a watcher that will send it (write_launched guards the
\* start of event_write in ixfd_commonsock_write).
QueuedIsWatched == queue # <<>> => launched /\ watching

Queued == UNION {{queue[i][j] : j \in 1..Len(queue[i])} : i \in 1..Len(queue)}

\* No byte is sent twice, nor sent and still queued (the pointer and length
\* arithmetic after a short write, in both functions).
SentOnce ==
  /\ \A i, j \in 1..Len(stream) : stream[i] = stream[j] => i = j
  /\ \A i \in 1..Len(stream) : stream[i] \notin Queued

\* What the peer gets is what was written, in order and without gaps.
Echoed ==
  \A i \in 1..Len(stream) :
    stream[i] = <<((i - 1) \div Length) + 1, ((i - 1) % Length) + 1>>
=============================================================================
