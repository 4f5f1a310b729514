------------------------------ MODULE CycQueue ------------------------------
(***************************************************************************)
(* The circular queue of util.cxx: the write queue of every socket context *)
(* (sock.cxx).  The queue is one `entry` node whose next points at the     *)
(* LAST node of a ring; the last node's next is a placeholder node, and    *)
(* the placeholder's next is the first queued node.  The heap is explicit: *)
(* malloc returns any node that is not allocated, so an address freed by   *)
(* dequeue may come back from the next enqueue, and freed nodes keep the   *)
(* pointers they held.                                                     *)
(*                                                                         *)
(* `ring` is a history variable: the nodes from the placeholder to the     *)
(* last one in the order in which they were linked.  No action reads it.   *)
(***************************************************************************)
EXTENDS Naturals, Sequences, Functions

CONSTANTS Node,     \* the heap cells malloc can return (the model's bound)
          Data,     \* values enqueued
          NoData,   \* no value
          Null      \* the NULL pointer

ASSUME NullAssumption == Null \notin Node /\ NoData \notin Data

VARIABLES alive,    \* the allocated nodes
          next,     \* the next field of every node
          data,     \* the data field of every node
          entry,    \* the pointer the caller holds, Null before the first create
          phase,    \* "absent", "ready", or "freeing" inside ixut_cycqueue_free
          ret,      \* what the last operation returned
          ring      \* history: placeholder, then the queued nodes in order

vars == <<alive, next, data, entry, phase, ret, ring>>

Last == next[entry]                   \* entry->next
Placeholder == next[Last]             \* entry->next->next
First == next[Placeholder]            \* entry->next->next->next

IsEmpty == Last = Placeholder         \* ixut_cycqueue_empty

\* The ring without its first queued node.
Unlinked(r) == [i \in 1..(Len(r) - 1) |-> IF i = 1 THEN r[1] ELSE r[i + 1]]

Init ==
  /\ alive = {} /\ entry = Null /\ phase = "absent" /\ ret = NoData
  /\ next = [n \in Node |-> Null] /\ data = [n \in Node |-> NoData]
  /\ ring = <<>>

\* ixut_cycqueue_create: the placeholder points at itself.
Create ==
  /\ phase = "absent"
  /\ \E e, p \in Node \ alive :
       /\ e # p
       /\ alive' = alive \cup {e, p}
       /\ next' = [next EXCEPT ![e] = p, ![p] = p]
       /\ data' = [data EXCEPT ![e] = NoData, ![p] = NoData]
       /\ entry' = e
       /\ ring' = <<p>>
  /\ phase' = "ready" /\ ret' = NoData

\* Mutant: enqueue forgets to move entry->next to the new node.
LinkLast_EntryNotMoved(new) == [next EXCEPT ![new] = Placeholder, ![Last] = new]

\* Mutant: new_node->next is not written.
LinkLast_NextUnset(new) == [next EXCEPT ![Last] = new, ![entry] = new]

\* The three pointer writes of ixut_cycqueue_enqueue, in its order.
LinkLast(new) ==
  [next EXCEPT ![new] = Placeholder, ![Last] = new, ![entry] = new]

Enqueue(d) ==
  /\ phase = "ready"
  /\ \E new \in Node \ alive :
       /\ alive' = alive \cup {new}
       /\ data' = [data EXCEPT ![new] = d]
       /\ next' = LinkLast(new)
       /\ ring' = Append(ring, new)
  /\ ret' = NoData /\ UNCHANGED <<entry, phase>>

\* Mutant: dequeue forgets that the node may have been the last one.
Unlink_LastNotMoved == [next EXCEPT ![Placeholder] = next[First]]

\* The pointer writes of ixut_cycqueue_dequeue: the placeholder skips the
\* first node, and if that node was the last one the placeholder becomes last.
Unlink ==
  [next EXCEPT ![Placeholder] = next[First],
               ![entry] = IF First = Last THEN next[First] ELSE Last]

\* Mutant: dequeue returns the data and forgets free(ret_node).
Freed_Nothing(n) == alive

Freed(n) == alive \ {n}               \* free(n)

\* Every caller of dequeue has seen that the queue is not empty.
Dequeue ==
  /\ phase = "ready" /\ ~IsEmpty
  /\ next' = Unlink /\ alive' = Freed(First) /\ ret' = data[First]
  /\ ring' = Unlinked(ring)
  /\ UNCHANGED <<data, entry, phase>>

Front ==
  /\ phase = "ready" /\ ~IsEmpty
  /\ ret' = data[First]
  /\ UNCHANGED <<alive, next, data, entry, phase, ring>>

\* ixut_cycqueue_free: a dequeue per round, then the placeholder and the entry.
FreeBegin ==
  /\ phase = "ready"
  /\ phase' = "freeing" /\ ret' = NoData
  /\ UNCHANGED <<alive, next, data, entry, ring>>

FreeRound ==
  /\ phase = "freeing" /\ ~IsEmpty
  /\ next' = Unlink /\ alive' = Freed(First)
  /\ ring' = Unlinked(ring)
  /\ UNCHANGED <<data, entry, phase, ret>>

\* The caller's pointer is left as it is, to nothing.
FreeEnd ==
  /\ phase = "freeing" /\ IsEmpty
  /\ alive' = alive \ {Last, entry}
  /\ phase' = "absent" /\ ring' = <<>>
  /\ UNCHANGED <<next, data, ret, entry>>

Next ==
  \/ Create \/ (\E d \in Data : Enqueue(d)) \/ Dequeue \/ Front
  \/ FreeBegin \/ FreeRound \/ FreeEnd

Spec == Init /\ [][Next]_vars
-----------------------------------------------------------------------------
Typed ==
  /\ alive \subseteq Node
  /\ next \in [Node -> Node \cup {Null}]
  /\ data \in [Node -> Data \cup {NoData}]
  /\ entry \in Node \cup {Null} /\ (phase # "absent" => entry # Null)
  /\ phase \in {"absent", "ready", "freeing"}
  /\ ret \in Data \cup {NoData}
  /\ ring \in Seq(Node)

\* Every variable has its type, and the pointers that the operations assert
\* not to be NULL are not.
TypeOK == Typed /\ \A n \in alive : next[n] # Null

\* The allocated nodes are exactly the entry and the ring: no operation
\* follows a pointer to a freed node, links a node twice, or leaks one, and
\* ixut_cycqueue_free gives everything back.
NodesAccounted ==
  /\ phase = "absent" => alive = {}
  /\ phase # "absent" => /\ entry \notin Range(ring)
                         /\ alive = {entry} \cup Range(ring)
                         /\ IsInjective(ring)

\* While the queue exists its pointers close the ring: entry->next is the
\* last node, whose next is the placeholder, and each other node leads to
\* the one linked after it.
RingClosed ==
  phase # "absent" =>
    /\ ring # <<>>
    /\ Last = ring[Len(ring)]
    /\ next[ring[Len(ring)]] = ring[1]
    /\ \A i \in 1..(Len(ring) - 1) : next[ring[i]] = ring[i + 1]

\* The values in the queue, oldest first.
Contents ==
  IF phase = "ready" THEN [i \in 1..(Len(ring) - 1) |-> data[ring[i + 1]]]
                     ELSE <<>>

Queue == INSTANCE Fifo WITH live <- phase = "ready", q <- Contents

\* The ring implements a first-in first-out queue: dequeue and front return
\* what was enqueued first, whatever addresses malloc reuses, and free is one
\* step that empties it.
ImplementsFifo == Queue!Spec
=============================================================================
