--------------------------- MODULE CycQueueProof ---------------------------
(***************************************************************************)
(* The pointers of the circular queue are sound for every heap and every   *)
(* set of values, and the ring implements a first-in first-out queue.      *)
(* Typed, NodesAccounted and RingClosed are inductive together: the        *)
(* history variable `ring` names the nodes that the pointers must reach.   *)
(***************************************************************************)
EXTENDS CycQueue, SequenceTheorems, TLAPS

Inv == Typed /\ NodesAccounted /\ RingClosed

(***************************************************************************)
(* Removing the first queued node from the ring keeps the placeholder and  *)
(* every later node, in order.                                             *)
(***************************************************************************)
LEMMA UnlinkedRing ==
  ASSUME NEW r \in Seq(Node), IsInjective(r), Len(r) >= 2
  PROVE  /\ Unlinked(r) \in Seq(Node)
         /\ Len(Unlinked(r)) = Len(r) - 1
         /\ Range(Unlinked(r)) = Range(r) \ {r[2]}
         /\ IsInjective(Unlinked(r))
<1> DEFINE u == Unlinked(r)
<1>1. /\ Len(r) \in Nat /\ DOMAIN r = 1..Len(r)
      /\ \A i \in 1..Len(r) : r[i] \in Node
  OBVIOUS
<1>2. u = [i \in 1..(Len(r) - 1) |-> IF i = 1 THEN r[1] ELSE r[i + 1]]
  BY DEF Unlinked
<1>3. u \in Seq(Node) /\ Len(u) = Len(r) - 1 /\ DOMAIN u = 1..(Len(r) - 1)
  BY <1>1, <1>2
<1>4. \A i \in 1..(Len(r) - 1) : u[i] = IF i = 1 THEN r[1] ELSE r[i + 1]
  BY <1>2
<1> HIDE DEF u
<1>5. \A i \in 1..(Len(r) - 1) : u[i] \in Range(r) \ {r[2]}
  BY <1>1, <1>4 DEF IsInjective, Range
<1>6. \A i \in 1..Len(r) : r[i] # r[2] => r[i] \in Range(u)
  <2> SUFFICES ASSUME NEW i \in 1..Len(r), r[i] # r[2]
               PROVE  \E j \in 1..(Len(r) - 1) : u[j] = r[i]
    BY <1>3 DEF Range
  <2>1. CASE i = 1
    BY <2>1, <1>1, <1>4
  <2>2. CASE i > 2
    <3>1. (i - 1) \in 1..(Len(r) - 1) /\ u[i - 1] = r[i]
      BY <2>2, <1>1, <1>4
    <3> QED  BY <3>1
  <2> QED  BY <2>1, <2>2, <1>1
<1>7. Range(u) = Range(r) \ {r[2]}
  BY <1>1, <1>3, <1>5, <1>6 DEF Range
<1>8. IsInjective(u)
  BY <1>1, <1>3, <1>4 DEF IsInjective
<1> QED  BY <1>3, <1>7, <1>8 DEF u

(***************************************************************************)
(* What entry->next, ->next->next and ->next->next->next are in a state of *)
(* the invariant, and what the test for emptiness means there.             *)
(***************************************************************************)
LEMMA Pointers ==
  ASSUME Inv, phase # "absent"
  PROVE  /\ Len(ring) \in Nat \ {0} /\ entry \in Node
         /\ DOMAIN ring = 1..Len(ring)
         /\ \A i \in 1..Len(ring) : ring[i] \in Node /\ ring[i] # entry
         /\ Last = ring[Len(ring)] /\ Placeholder = ring[1]
         /\ IsEmpty <=> Len(ring) = 1
         /\ ~IsEmpty => Len(ring) >= 2 /\ First = ring[2]
<1>1. /\ Len(ring) \in Nat \ {0} /\ DOMAIN ring = 1..Len(ring)
      /\ \A i \in 1..Len(ring) : ring[i] \in Node
  BY DEF Inv, Typed, RingClosed
<1>2. Last = ring[Len(ring)] /\ Placeholder = ring[1]
  BY DEF Inv, RingClosed, Placeholder
<1>3. entry \in Node /\ \A i \in 1..Len(ring) : ring[i] # entry
  BY <1>1, NullAssumption DEF Inv, Typed, NodesAccounted, Range
<1>4. IsEmpty <=> Len(ring) = 1
  BY <1>1, <1>2 DEF Inv, NodesAccounted, IsInjective, IsEmpty
<1>5. ~IsEmpty => Len(ring) >= 2 /\ First = ring[2]
  BY <1>1, <1>2, <1>4 DEF Inv, RingClosed, First
<1> QED  BY <1>1, <1>2, <1>3, <1>4, <1>5

(***************************************************************************)
(* The two operations that remove the first node (dequeue, and each round  *)
(* of free) share their effect on the heap and on the ring.                *)
(***************************************************************************)
RemoveFirst ==
  /\ phase # "absent" /\ ~IsEmpty
  /\ next' = Unlink /\ alive' = Freed(First) /\ ring' = Unlinked(ring)
  /\ UNCHANGED <<data, entry, phase>>

LEMMA RemoveFirstKeepsRing ==
  ASSUME Inv, RemoveFirst
  PROVE  NodesAccounted' /\ RingClosed' /\ next' \in [Node -> Node \cup {Null}]
         /\ alive' \subseteq Node /\ ring' \in Seq(Node) /\ Len(ring') = Len(ring) - 1
<1>1. phase # "absent" /\ phase' = phase /\ entry' = entry
  BY DEF RemoveFirst
<1>2. /\ Len(ring) \in Nat \ {0} /\ entry \in Node
      /\ DOMAIN ring = 1..Len(ring)
      /\ \A i \in 1..Len(ring) : ring[i] \in Node /\ ring[i] # entry
      /\ Last = ring[Len(ring)] /\ Placeholder = ring[1]
      /\ Len(ring) >= 2 /\ First = ring[2]
  BY <1>1, Pointers DEF RemoveFirst
<1>3. ring \in Seq(Node) /\ IsInjective(ring)
  BY <1>1 DEF Inv, Typed, NodesAccounted
<1>4. /\ ring' \in Seq(Node) /\ Len(ring') = Len(ring) - 1
      /\ Range(ring') = Range(ring) \ {ring[2]} /\ IsInjective(ring')
  BY <1>2, <1>3, UnlinkedRing DEF RemoveFirst
<1>5. \A i \in 1..(Len(ring) - 1) :
         ring'[i] = IF i = 1 THEN ring[1] ELSE ring[i + 1]
  BY <1>2 DEF RemoveFirst, Unlinked
<1>6. alive' \subseteq Node
  BY DEF RemoveFirst, Freed, Inv, Typed
<1>7. NodesAccounted'
  <2>1. alive = {entry} \cup Range(ring) /\ entry \notin Range(ring)
    BY <1>1 DEF Inv, NodesAccounted
  <2>2. alive' = {entry} \cup Range(ring')
    BY <2>1, <1>2, <1>4 DEF RemoveFirst, Freed
  <2> QED  BY <2>1, <2>2, <1>1, <1>4 DEF NodesAccounted
<1>8. \A i, j \in 1..Len(ring) : ring[i] = ring[j] => i = j
  BY <1>2, <1>3 DEF IsInjective
<1>9. /\ \A i \in 1..(Len(ring) - 1) : next[ring[i]] = ring[i + 1]
      /\ next[ring[Len(ring)]] = ring[1]
      /\ next[entry] = ring[Len(ring)]
      /\ next \in [Node -> Node \cup {Null}]
  BY <1>1, <1>2 DEF Inv, Typed, RingClosed, Last
<1>10. next' = [next EXCEPT ![ring[1]] = next[ring[2]],
                            ![entry] = IF ring[2] = ring[Len(ring)]
                                         THEN next[ring[2]] ELSE ring[Len(ring)]]
  BY <1>2 DEF RemoveFirst, Unlink
<1>11. CASE Len(ring) = 2
  <2>1. next' = [next EXCEPT ![ring[1]] = ring[1], ![entry] = ring[1]]
    BY <1>2, <1>9, <1>10, <1>11
  <2>2. Len(ring') = 1 /\ ring'[1] = ring[1] /\ ring' # <<>>
    BY <1>2, <1>4, <1>5, <1>11
  <2>3. next'[entry] = ring[1] /\ next'[ring[1]] = ring[1]
    BY <2>1, <1>2, <1>9
  <2>4. next' \in [Node -> Node \cup {Null}]
    BY <2>1, <1>2, <1>9
  <2>5. RingClosed'
    BY <2>2, <2>3, <1>1 DEF RingClosed, Last
  <2> QED  BY <2>4, <2>5, <1>4, <1>6, <1>7
<1>12. CASE Len(ring) >= 3
  <2>1. ring[2] # ring[Len(ring)] /\ next[ring[2]] = ring[3]
    BY <1>2, <1>8, <1>9, <1>12
  <2>2. next' = [next EXCEPT ![ring[1]] = ring[3], ![entry] = ring[Len(ring)]]
    BY <2>1, <1>10
  <2>3. next' \in [Node -> Node \cup {Null}]
    BY <2>2, <1>2, <1>9, <1>12
  <2>4. /\ next'[entry] = ring[Len(ring)] /\ next'[ring[1]] = ring[3]
        /\ \A i \in 2..Len(ring) : next'[ring[i]] = next[ring[i]]
    BY <2>2, <1>2, <1>8, <1>9
  <2>5. /\ ring'[1] = ring[1] /\ ring'[Len(ring')] = ring[Len(ring)]
        /\ ring' # <<>>
    BY <1>2, <1>4, <1>5, <1>12
  <2>6. \A i \in 1..(Len(ring') - 1) : next'[ring'[i]] = ring'[i + 1]
    <3> SUFFICES ASSUME NEW i \in 1..(Len(ring') - 1)
                 PROVE  next'[ring'[i]] = ring'[i + 1]
      OBVIOUS
    <3>1. i \in 1..(Len(ring) - 2) /\ i + 1 \in 2..(Len(ring) - 1)
      BY <1>2, <1>4
    <3>2. ring'[i + 1] = ring[i + 2]
      BY <3>1, <1>2, <1>5
    <3>3. CASE i = 1
      BY <3>2, <3>3, <2>4, <2>5
    <3>4. CASE i # 1
      <4>1. ring'[i] = ring[i + 1] /\ i + 1 \in 2..Len(ring)
        BY <3>1, <3>4, <1>2, <1>5
      <4>2. next[ring[i + 1]] = ring[i + 2]
        BY <3>1, <1>2, <1>9
      <4> QED  BY <4>1, <4>2, <3>2, <2>4
    <3> QED  BY <3>3, <3>4
  <2>7. next'[ring[Len(ring)]] = ring[1]
    BY <2>4, <1>2, <1>9
  <2>8. RingClosed'
    BY <2>4, <2>5, <2>6, <2>7, <1>1 DEF RingClosed, Last
  <2> QED  BY <2>3, <2>8, <1>4, <1>6, <1>7
<1>13. Len(ring) = 2 \/ Len(ring) >= 3
  BY <1>2
<1> QED  BY <1>11, <1>12, <1>13

(***************************************************************************)
(* Linking a new node keeps the ring closed.                               *)
(***************************************************************************)
LEMMA EnqueueKeepsRing ==
  ASSUME Inv, NEW d \in Data, Enqueue(d)
  PROVE  Inv'
<1>1. phase = "ready" /\ phase' = phase /\ entry' = entry
  BY DEF Enqueue
<1>2. /\ Len(ring) \in Nat \ {0} /\ entry \in Node
      /\ DOMAIN ring = 1..Len(ring)
      /\ \A i \in 1..Len(ring) : ring[i] \in Node /\ ring[i] # entry
      /\ Last = ring[Len(ring)] /\ Placeholder = ring[1]
  BY <1>1, Pointers
<1>3. PICK new \in Node \ alive :
        /\ alive' = alive \cup {new}
        /\ data' = [data EXCEPT ![new] = d]
        /\ next' = LinkLast(new)
        /\ ring' = Append(ring, new)
  BY DEF Enqueue
<1>4. /\ ring \in Seq(Node) /\ IsInjective(ring)
      /\ alive = {entry} \cup Range(ring) /\ entry \notin Range(ring)
      /\ \A i \in 1..(Len(ring) - 1) : next[ring[i]] = ring[i + 1]
      /\ next \in [Node -> Node \cup {Null}]
  BY <1>1 DEF Inv, Typed, NodesAccounted, RingClosed
<1>5. new # entry /\ \A i \in 1..Len(ring) : new # ring[i]
  BY <1>2, <1>3, <1>4 DEF Range
<1>6. /\ ring' \in Seq(Node) /\ Len(ring') = Len(ring) + 1
      /\ DOMAIN ring' = 1..(Len(ring) + 1)
      /\ \A i \in 1..Len(ring) : ring'[i] = ring[i]
      /\ ring'[Len(ring) + 1] = new
  BY <1>2, <1>3, <1>4
<1>7. \A i, j \in 1..Len(ring) : ring[i] = ring[j] => i = j
  BY <1>2, <1>4 DEF IsInjective
<1>8. next' = [next EXCEPT ![new] = ring[1], ![ring[Len(ring)]] = new, ![entry] = new]
  BY <1>2, <1>3 DEF LinkLast
<1>9. /\ next' \in [Node -> Node \cup {Null}]
      /\ next'[entry] = new /\ next'[new] = ring[1] /\ next'[ring[Len(ring)]] = new
      /\ \A i \in 1..(Len(ring) - 1) : next'[ring[i]] = next[ring[i]]
  BY <1>8, <1>2, <1>3, <1>4, <1>5, <1>7
<1>10. RingClosed'
  <2>1. ring' # <<>> /\ Last' = ring'[Len(ring')] /\ next'[ring'[Len(ring')]] = ring'[1]
    BY <1>1, <1>2, <1>6, <1>9 DEF Last
  <2>2. \A i \in 1..(Len(ring') - 1) : next'[ring'[i]] = ring'[i + 1]
    BY <1>2, <1>4, <1>6, <1>9
  <2> QED  BY <2>1, <2>2 DEF RingClosed
<1>11. NodesAccounted'
  <2>1. IsInjective(ring')
    BY <1>2, <1>5, <1>6, <1>7 DEF IsInjective
  <2>2. Range(ring') = Range(ring) \cup {new}
    BY <1>2, <1>6 DEF Range
  <2> QED  BY <2>1, <2>2, <1>1, <1>3, <1>4, <1>5 DEF NodesAccounted
<1>12. Typed'
  <2>1. ret' \in Data \cup {NoData} /\ alive' \subseteq Node
    BY <1>3 DEF Enqueue, Inv, Typed
  <2>2. data' \in [Node -> Data \cup {NoData}]
    BY <1>3 DEF Inv, Typed
  <2> QED  BY <2>1, <2>2, <1>1, <1>6, <1>9 DEF Typed, Inv
<1> QED  BY <1>10, <1>11, <1>12 DEF Inv

LEMMA CreateMakesRing ==
  ASSUME Inv, Create
  PROVE  Inv'
<1>1. PICK e \in Node \ alive, p \in Node \ alive :
        /\ e # p
        /\ alive' = alive \cup {e, p}
        /\ next' = [next EXCEPT ![e] = p, ![p] = p]
        /\ data' = [data EXCEPT ![e] = NoData, ![p] = NoData]
        /\ entry' = e
        /\ ring' = <<p>>
  BY DEF Create
<1>2. phase = "absent" /\ phase' = "ready" /\ ret' = NoData /\ alive = {}
  BY DEF Create, Inv, NodesAccounted
<1>3. /\ ring' \in Seq(Node) /\ Len(ring') = 1 /\ ring'[1] = p
      /\ ring' # <<>> /\ DOMAIN ring' = 1..1
  BY <1>1
<1>4. next' \in [Node -> Node \cup {Null}] /\ next'[e] = p /\ next'[p] = p
  BY <1>1 DEF Inv, Typed
<1>5. data' \in [Node -> Data \cup {NoData}]
  BY <1>1 DEF Inv, Typed
<1>6. Typed'
  BY <1>1, <1>2, <1>3, <1>4, <1>5, NullAssumption DEF Typed
<1>7. NodesAccounted'
  BY <1>1, <1>2, <1>3 DEF NodesAccounted, Range, IsInjective
<1>8. RingClosed'
  BY <1>1, <1>2, <1>3, <1>4 DEF RingClosed, Last
<1> QED  BY <1>6, <1>7, <1>8 DEF Inv

LEMMA FreeEndReturnsAll ==
  ASSUME Inv, FreeEnd
  PROVE  Inv'
<1>1. phase = "freeing" /\ IsEmpty /\ phase' = "absent"
      /\ alive' = alive \ {Last, entry} /\ ring' = <<>>
      /\ UNCHANGED <<next, data, ret, entry>>
  BY DEF FreeEnd
<1>2. Len(ring) = 1 /\ Last = ring[1] /\ DOMAIN ring = 1..1
  BY <1>1, Pointers
<1>3. alive' = {}
  BY <1>1, <1>2 DEF Inv, NodesAccounted, Range
<1>4. Typed'
  BY <1>1, <1>3 DEF Inv, Typed
<1> QED  BY <1>1, <1>3, <1>4 DEF Inv, NodesAccounted, RingClosed

(***************************************************************************)
(* Typed, NodesAccounted and RingClosed hold in every reachable state:     *)
(* create, enqueue, dequeue, front and free only ever follow pointers to   *)
(* allocated nodes, and free returns every node.                           *)
(***************************************************************************)
THEOREM Invariance == Spec => []Inv
<1>1. Init => Inv
  BY DEF Init, Inv, Typed, NodesAccounted, RingClosed
<1>2. Inv /\ [Next]_vars => Inv'
  <2> SUFFICES ASSUME Inv, [Next]_vars PROVE Inv'
    OBVIOUS
  <2>1. CASE Create
    BY <2>1, CreateMakesRing
  <2>2. ASSUME NEW d \in Data, Enqueue(d) PROVE Inv'
    BY <2>2, EnqueueKeepsRing
  <2>3. CASE Dequeue
    <3>1. RemoveFirst
      BY <2>3 DEF Dequeue, RemoveFirst
    <3>2. First \in Node
      BY <2>3, Pointers DEF Dequeue
    <3>3. ret' \in Data \cup {NoData}
      BY <2>3, <3>2 DEF Dequeue, Inv, Typed
    <3> QED  BY <2>3, <3>1, <3>3, RemoveFirstKeepsRing DEF Dequeue, Inv, Typed
  <2>4. CASE Front
    <3>1. First \in Node
      BY <2>4, Pointers DEF Front
    <3> QED  BY <2>4, <3>1 DEF Front, Inv, Typed, NodesAccounted, RingClosed, Last
  <2>5. CASE FreeBegin
    BY <2>5 DEF FreeBegin, Inv, Typed, NodesAccounted, RingClosed, Last
  <2>6. CASE FreeRound
    <3>1. RemoveFirst
      BY <2>6 DEF FreeRound, RemoveFirst
    <3> QED  BY <2>6, <3>1, RemoveFirstKeepsRing DEF FreeRound, Inv, Typed
  <2>7. CASE FreeEnd
    BY <2>7, FreeEndReturnsAll
  <2>8. CASE UNCHANGED vars
    BY <2>8 DEF vars, Inv, Typed, NodesAccounted, RingClosed, Last
  <2> QED  BY <2>1, <2>2, <2>3, <2>4, <2>5, <2>6, <2>7, <2>8 DEF Next
<1> QED  BY <1>1, <1>2, PTL DEF Spec

\* Types of struct ixut_cycqueue and of its nodes: no operation meets the
\* NULL that its assertions look for (util.cxx:33-34, 44-45, 56-57).
THEOREM TypeCorrect == Spec => []TypeOK
<1>1. Inv => TypeOK
  <2> SUFFICES ASSUME Inv, NEW n \in alive  PROVE next[n] # Null
    BY DEF Inv, TypeOK
  <2>1. phase # "absent" /\ alive = {entry} \cup Range(ring)
    BY DEF Inv, NodesAccounted
  <2>2. CASE n = entry
    BY <2>1, <2>2, Pointers, NullAssumption DEF Last
  <2>3. CASE n \in Range(ring)
    <3>1. PICK i \in 1..Len(ring) : n = ring[i]
      BY <2>1, <2>3, Pointers DEF Range
    <3>2. CASE i = Len(ring)
      BY <2>1, <3>1, <3>2, Pointers, NullAssumption DEF Placeholder
    <3>3. CASE i # Len(ring)
      <4>0. Len(ring) \in Nat /\ i \in 1..Len(ring)
        BY <2>1, Pointers
      <4>1. i \in 1..(Len(ring) - 1) /\ i + 1 \in 1..Len(ring)
        BY <3>3, <4>0
      <4>2. next[ring[i]] = ring[i + 1]
        BY <2>1, <4>1 DEF Inv, RingClosed
      <4> QED  BY <2>1, <3>1, <4>1, <4>2, Pointers, NullAssumption
    <3> QED  BY <3>2, <3>3
  <2> QED  BY <2>1, <2>2, <2>3
<1> QED  BY <1>1, Invariance, PTL

\* The ring of an existing queue stays closed, with the placeholder between
\* its last node and its first (dequeue moves the entry back, util.cxx:62).
THEOREM AlwaysClosed == Spec => []RingClosed
<1>1. Inv => RingClosed
  BY DEF Inv
<1> QED  BY <1>1, Invariance, PTL

\* While the queue exists, no allocated node is lost and none is linked twice.
THEOREM NodesAlwaysAccounted == Spec => []NodesAccounted
<1>1. Inv => NodesAccounted
  BY DEF Inv
<1> QED  BY <1>1, Invariance, PTL

(***************************************************************************)
(* The ring implements the first-in first-out queue: each step of the      *)
(* pointers is a step of Fifo or leaves the abstract queue unchanged (the  *)
(* rounds of ixut_cycqueue_free after the first).                          *)
(***************************************************************************)
LEMMA FunctionIsSeq ==
  ASSUME NEW S, NEW n \in Nat, NEW f \in [1..n -> S]
  PROVE  f \in Seq(S) /\ Len(f) = n
OBVIOUS

LEMMA ContentsSeq ==
  ASSUME Inv, phase = "ready"
  PROVE  /\ Contents \in Seq(Data \cup {NoData}) /\ Len(Contents) = Len(ring) - 1
         /\ \A i \in 1..(Len(ring) - 1) : Contents[i] = data[ring[i + 1]]
         /\ Contents = <<>> <=> IsEmpty
<1>1. Len(ring) \in Nat \ {0} /\ \A i \in 1..Len(ring) : ring[i] \in Node
  BY Pointers
<1>2. \A i \in 1..(Len(ring) - 1) : data[ring[i + 1]] \in Data \cup {NoData}
  BY <1>1 DEF Inv, Typed
<1>3. Contents = [i \in 1..(Len(ring) - 1) |-> data[ring[i + 1]]]
  BY DEF Contents
<1>4. IsEmpty <=> Len(ring) = 1
  BY Pointers
<1>5. Contents \in [1..(Len(ring) - 1) -> Data \cup {NoData}]
  BY <1>2, <1>3
<1>6. Contents \in Seq(Data \cup {NoData}) /\ Len(Contents) = Len(ring) - 1
  BY <1>1, <1>5, FunctionIsSeq
<1>7. Contents = <<>> <=> Len(Contents) = 0
  <2>1. Contents # <<>> => Len(Contents) \in Nat \ {0}
    BY <1>6, EmptySeq
  <2>2. Len(<<>>) = 0
    BY EmptySeq
  <2> QED  BY <2>1, <2>2
<1>8. \A i \in 1..(Len(ring) - 1) : Contents[i] = data[ring[i + 1]]
  BY <1>3
<1>9. Contents = <<>> <=> IsEmpty
  BY <1>1, <1>4, <1>6, <1>7
<1> QED  BY <1>6, <1>8, <1>9

THEOREM Refinement == Spec => ImplementsFifo
<1>1. Init => Queue!Init
  BY DEF Init, Queue!Init, Contents
<1>2. Inv /\ Inv' /\ [Next]_vars => [Queue!Next]_(Queue!fifoVars)
  <2> SUFFICES ASSUME Inv, Inv', [Next]_vars
               PROVE  Queue!Next \/ UNCHANGED Queue!fifoVars
    OBVIOUS
  <2>1. CASE Create
    <3>1. phase = "absent" /\ phase' = "ready" /\ ret' = NoData /\ Len(ring') = 1
      BY <2>1 DEF Create
    <3>2. Contents' = <<>>
      BY <3>1 DEF Contents
    <3> QED  BY <3>1, <3>2 DEF Queue!Next, Queue!Create
  <2>2. ASSUME NEW d \in Data, Enqueue(d) PROVE Queue!Enqueue(d)
    <3>1. /\ phase = "ready" /\ phase' = "ready" /\ ret' = NoData
          /\ Len(ring) \in Nat \ {0} /\ DOMAIN ring = 1..Len(ring)
      BY <2>2, Pointers DEF Enqueue
    <3>2. PICK new \in Node \ alive :
            data' = [data EXCEPT ![new] = d] /\ ring' = Append(ring, new)
      BY <2>2 DEF Enqueue
    <3>3. \A i \in 1..Len(ring) : ring[i] # new
      BY <3>1, <3>2 DEF Inv, NodesAccounted, Range
    <3>4. /\ Len(ring') = Len(ring) + 1 /\ ring'[Len(ring) + 1] = new
          /\ \A i \in 1..Len(ring) : ring'[i] = ring[i]
      BY <3>1, <3>2 DEF Inv, Typed
    <3>5. /\ data'[new] = d
          /\ \A i \in 1..Len(ring) : data'[ring[i]] = data[ring[i]]
      BY <3>1, <3>2, <3>3, Pointers DEF Inv, Typed
    <3>6. Contents' = [i \in 1..Len(ring) |-> data'[ring'[i + 1]]]
      BY <3>1, <3>4 DEF Contents
    <3>7. Contents \in Seq(Data \cup {NoData}) /\ Len(Contents) = Len(ring) - 1
      BY <3>1, ContentsSeq
    <3>8. Contents' = Append(Contents, d)
      <4>1. \A i \in 1..(Len(ring) - 1) : data'[ring'[i + 1]] = Contents[i]
        BY <3>1, <3>4, <3>5, ContentsSeq
      <4>2. data'[ring'[Len(ring) + 1]] = d
        BY <3>4, <3>5
      <4>3. /\ Append(Contents, d) \in Seq(Data \cup {NoData})
            /\ Len(Append(Contents, d)) = Len(ring)
            /\ \A i \in 1..(Len(ring) - 1) : Append(Contents, d)[i] = Contents[i]
            /\ Append(Contents, d)[Len(ring)] = d
        <5> DEFINE c == Contents
                   V == Data \cup {NoData}
        <5>1. c \in Seq(V) /\ d \in V /\ Len(c) = Len(ring) - 1
          BY <3>7
        <5> HIDE DEF c, V
        <5>2. /\ Append(c, d) \in Seq(V) /\ Len(Append(c, d)) = Len(c) + 1
              /\ \A i \in 1..Len(c) : Append(c, d)[i] = c[i]
              /\ Append(c, d)[Len(c) + 1] = d
          BY <5>1, AppendProperties
        <5>3. Len(c) + 1 = Len(ring) /\ 1..Len(c) = 1..(Len(ring) - 1)
          BY <5>1, <3>1
        <5> QED  BY <5>2, <5>3 DEF c, V
      <4>4. \A i \in 1..Len(ring) : Contents'[i] = Append(Contents, d)[i]
        BY <4>1, <4>2, <4>3, <3>1, <3>6
      <4>5. Contents' \in [1..Len(ring) -> Data \cup {NoData}]
        BY <4>3, <4>4, <3>1, <3>6, ElementOfSeq
      <4>6. Contents' \in Seq(Data \cup {NoData}) /\ Len(Contents') = Len(ring)
        BY <4>5, <3>1, FunctionIsSeq
      <4> QED  BY <4>3, <4>4, <4>6, SeqEqual
    <3> QED  BY <3>1, <3>8 DEF Queue!Enqueue
  <2>3. CASE Dequeue
    <3>1. /\ phase = "ready" /\ phase' = "ready" /\ ~IsEmpty
          /\ ret' = data[First] /\ data' = data /\ ring' = Unlinked(ring)
      BY <2>3 DEF Dequeue
    <3>2. Len(ring) \in Nat /\ Len(ring) >= 2 /\ First = ring[2]
      BY <3>1, Pointers
    <3>3. /\ Len(ring') = Len(ring) - 1
          /\ \A i \in 2..(Len(ring) - 1) : ring'[i] = ring[i + 1]
      BY <3>1, <3>2 DEF Unlinked
    <3>4. /\ Contents \in Seq(Data \cup {NoData}) /\ Len(Contents) = Len(ring) - 1
          /\ Contents # <<>>
          /\ \A i \in 1..(Len(ring) - 1) : Contents[i] = data[ring[i + 1]]
      BY <3>1, ContentsSeq
    <3>5. Contents' = [i \in 1..(Len(ring) - 2) |-> data[ring'[i + 1]]]
      BY <3>1, <3>2, <3>3 DEF Contents
    <3>6. \A i \in 1..(Len(ring) - 2) : data[ring'[i + 1]] = Contents[i + 1]
      BY <3>2, <3>3, <3>4
    <3>7. Contents' = Tail(Contents)
      <4>1. /\ Tail(Contents) \in Seq(Data \cup {NoData})
            /\ Len(Tail(Contents)) = Len(ring) - 2
            /\ \A i \in 1..(Len(ring) - 2) : Tail(Contents)[i] = Contents[i + 1]
        BY <3>2, <3>4, HeadTailProperties
      <4>2. \A i \in 1..(Len(ring) - 2) : Contents'[i] = Tail(Contents)[i]
        BY <4>1, <3>5, <3>6
      <4>3. Contents' \in [1..(Len(ring) - 2) -> Data \cup {NoData}]
        BY <4>1, <4>2, <3>2, <3>5, ElementOfSeq
      <4>4. Contents' \in Seq(Data \cup {NoData}) /\ Len(Contents') = Len(ring) - 2
        BY <4>3, <3>2, FunctionIsSeq
      <4> QED  BY <4>1, <4>2, <4>4, SeqEqual
    <3>8. ret' = Head(Contents)
      BY <3>1, <3>2, <3>4
    <3> QED  BY <3>1, <3>4, <3>7, <3>8 DEF Queue!Next, Queue!Dequeue
  <2>4. CASE Front
    <3>1. /\ phase = "ready" /\ phase' = "ready" /\ ~IsEmpty
          /\ ret' = data[First] /\ data' = data /\ ring' = ring
      BY <2>4 DEF Front
    <3>2. Len(ring) \in Nat /\ Len(ring) >= 2 /\ First = ring[2]
      BY <3>1, Pointers
    <3>3. Contents # <<>> /\ Head(Contents) = data[ring[2]]
      BY <3>1, <3>2, ContentsSeq
    <3>4. Contents' = Contents
      BY <3>1 DEF Contents
    <3> QED  BY <3>1, <3>2, <3>3, <3>4 DEF Queue!Next, Queue!Front
  <2>5. CASE FreeBegin
    BY <2>5 DEF FreeBegin, Contents, Queue!Next, Queue!Free
  <2>6. CASE FreeRound
    BY <2>6 DEF FreeRound, Contents, Queue!fifoVars
  <2>7. CASE FreeEnd
    BY <2>7 DEF FreeEnd, Contents, Queue!fifoVars
  <2>8. CASE UNCHANGED vars
    BY <2>8 DEF vars, Contents, Queue!fifoVars
  <2> QED
    BY <2>1, <2>2, <2>3, <2>4, <2>5, <2>6, <2>7, <2>8 DEF Next, Queue!Next
<1> QED  BY <1>1, <1>2, Invariance, PTL DEF Spec, ImplementsFifo, Queue!Spec
=============================================================================
