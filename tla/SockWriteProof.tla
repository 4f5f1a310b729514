--------------------------- MODULE SockWriteProof ---------------------------
(***************************************************************************)
(* The write path, for messages and buffers of every size: what is queued  *)
(* is watched, and no byte is sent twice or sent while it is queued.       *)
(***************************************************************************)
EXTENDS SockWrite, TLAPS

Injective(s) == \A i, j \in 1..Len(s) : s[i] = s[j] => i = j

Disjoint(s, t) == \A i \in 1..Len(s), j \in 1..Len(t) : s[i] # t[j]

\* Bytes are taken from messages that have been written, each in one place.
OnePlace ==
  /\ Injective(stream)
  /\ \A i \in 1..Len(stream) : stream[i][1] <= written
  /\ \A i \in 1..Len(queue) :
       /\ Injective(queue[i]) /\ Disjoint(stream, queue[i])
       /\ \A j \in 1..Len(queue[i]) : queue[i][j][1] <= written
  /\ \A i, j \in 1..Len(queue) : i # j => Disjoint(queue[i], queue[j])

\* The watcher runs from the first short write on.
Watched == (launched => watching) /\ (queue # <<>> => launched)

IInv ==
  /\ stream \in Seq(AllBytes) /\ queue \in Seq(Seq(AllBytes))
  /\ TypeOK /\ OnePlace /\ Watched
-----------------------------------------------------------------------------
LEMMA BytesAre ==
  /\ AllBytes = (1..Messages) \X (1..Length)
  /\ \A b \in AllBytes : b[1] \in 1..Messages /\ b[2] \in 1..Length
BY DEF AllBytes

\* write(2) takes a prefix, and data + n, len - n is the rest.
LEMMA Takes ==
  ASSUME stream \in Seq(AllBytes), room \in Nat, NEW data \in Seq(AllBytes),
         Injective(data), Injective(stream), Disjoint(stream, data), KernelTakes(data)
  PROVE  /\ Taken(data) \in 0..Len(data) /\ room' \in Nat /\ room' <= room
         /\ stream' \in Seq(AllBytes) /\ Injective(stream')
         /\ \A i \in 1..Len(stream') :
              \/ \E j \in 1..Len(stream) : stream'[i] = stream[j]
              \/ \E j \in 1..Len(data) : stream'[i] = data[j]
         /\ Remaining(data) \in Seq(AllBytes)
         /\ Len(Remaining(data)) = Len(data) - Taken(data)
         /\ Injective(Remaining(data)) /\ Disjoint(stream', Remaining(data))
         /\ \A i \in 1..Len(Remaining(data)) : \E j \in 1..Len(data) : Remaining(data)[i] = data[j]
<1>1. Taken(data) \in 0..Len(data) /\ Taken(data) <= room
  BY DEF Taken, Least
<1>2. /\ room' = room - Taken(data)
      /\ stream' = stream \o SubSeq(data, 1, Taken(data))
  BY DEF KernelTakes
<1>3. /\ SubSeq(data, 1, Taken(data)) \in Seq(AllBytes)
      /\ Len(SubSeq(data, 1, Taken(data))) = Taken(data)
      /\ \A i \in 1..Taken(data) : SubSeq(data, 1, Taken(data))[i] = data[i]
  BY <1>1
<1>4. /\ stream' \in Seq(AllBytes) /\ Len(stream') = Len(stream) + Taken(data)
      /\ \A i \in 1..Len(stream) : stream'[i] = stream[i]
      /\ \A i \in (Len(stream) + 1)..Len(stream') :
           i - Len(stream) \in 1..Taken(data) /\ stream'[i] = data[i - Len(stream)]
  <2>1. PICK s \in Seq(AllBytes) : s = SubSeq(data, 1, Taken(data))
    BY <1>3
  <2>2. /\ stream \o s \in Seq(AllBytes) /\ Len(stream \o s) = Len(stream) + Len(s)
        /\ \A i \in 1..Len(stream) : (stream \o s)[i] = stream[i]
    OBVIOUS
  <2>3. ASSUME NEW i \in (Len(stream) + 1)..(Len(stream) + Len(s))
        PROVE  i - Len(stream) \in 1..Len(s) /\ (stream \o s)[i] = s[i - Len(stream)]
    OBVIOUS
  <2>4. stream' = stream \o s /\ Len(s) = Taken(data) /\ \A i \in 1..Taken(data) : s[i] = data[i]
    BY <1>2, <1>3, <2>1
  <2> QED  BY <2>2, <2>3, <2>4
<1>5. /\ Remaining(data) \in Seq(AllBytes)
      /\ Len(Remaining(data)) = Len(data) - Taken(data)
      /\ \A i \in 1..Len(Remaining(data)) :
           i + Taken(data) \in 1..Len(data) /\ Remaining(data)[i] = data[i + Taken(data)]
  <2>1. PICK n \in 0..Len(data) : n = Taken(data)
    BY <1>1
  <2>2. /\ SubSeq(data, n + 1, Len(data)) \in Seq(AllBytes)
        /\ Len(SubSeq(data, n + 1, Len(data))) = Len(data) - n
    OBVIOUS
  <2>3. \A i \in 1..(Len(data) - n) : SubSeq(data, n + 1, Len(data))[i] = data[i + n]
    BY <2>2
  <2> QED  BY <2>1, <2>2, <2>3 DEF Remaining
<1>6. \A i \in 1..Len(stream') :
        \/ i \in 1..Len(stream)
        \/ i \in (Len(stream) + 1)..Len(stream') /\ i - Len(stream) \in 1..Len(data)
  BY <1>1, <1>4
<1>7. Injective(stream')
  <2> SUFFICES ASSUME NEW i \in 1..Len(stream'), NEW j \in 1..Len(stream'), stream'[i] = stream'[j]
               PROVE  i = j
    BY DEF Injective
  <2>1. CASE i \in 1..Len(stream) /\ j \in 1..Len(stream)
    BY <2>1, <1>4 DEF Injective
  <2>2. CASE i \notin 1..Len(stream) /\ j \notin 1..Len(stream)
    <3>1. /\ i - Len(stream) \in 1..Len(data) /\ stream'[i] = data[i - Len(stream)]
          /\ j - Len(stream) \in 1..Len(data) /\ stream'[j] = data[j - Len(stream)]
      BY <2>2, <1>4, <1>6
    <3>2. i - Len(stream) = j - Len(stream)
      BY <3>1 DEF Injective
    <3> QED  BY <3>2
  <2>3. CASE i \in 1..Len(stream) /\ j \notin 1..Len(stream)
    BY <2>3, <1>4, <1>6 DEF Disjoint
  <2>4. CASE i \notin 1..Len(stream) /\ j \in 1..Len(stream)
    BY <2>4, <1>4, <1>6 DEF Disjoint
  <2> QED  BY <2>1, <2>2, <2>3, <2>4
<1>8. Injective(Remaining(data))
  <2> SUFFICES ASSUME NEW i \in 1..Len(Remaining(data)), NEW j \in 1..Len(Remaining(data)),
                      Remaining(data)[i] = Remaining(data)[j]
               PROVE  i = j
    BY DEF Injective
  <2>1. i + Taken(data) = j + Taken(data)
    BY <1>5 DEF Injective
  <2> QED  BY <2>1, <1>1
<1>9. Disjoint(stream', Remaining(data))
  <2> SUFFICES ASSUME NEW i \in 1..Len(stream'), NEW j \in 1..Len(Remaining(data)),
                      stream'[i] = Remaining(data)[j]
               PROVE  FALSE
    BY DEF Disjoint
  <2>1. j + Taken(data) \in 1..Len(data) /\ Remaining(data)[j] = data[j + Taken(data)]
    BY <1>5
  <2>2. CASE i \in 1..Len(stream)
    BY <2>1, <2>2, <1>4 DEF Disjoint
  <2>3. CASE i \in (Len(stream) + 1)..Len(stream')
    BY <2>1, <2>3, <1>1, <1>4, <1>6 DEF Injective
  <2> QED  BY <2>2, <2>3, <1>6
<1>10. \A i \in 1..Len(stream') :
         \/ \E j \in 1..Len(stream) : stream'[i] = stream[j]
         \/ \E j \in 1..Len(data) : stream'[i] = data[j]
  BY <1>4, <1>6
<1>11. \A i \in 1..Len(Remaining(data)) : \E j \in 1..Len(data) : Remaining(data)[i] = data[j]
  BY <1>5
<1>12. room' \in Nat /\ room' <= room
  BY <1>1, <1>2
<1> QED  BY <1>1, <1>4, <1>5, <1>7, <1>8, <1>9, <1>10, <1>11, <1>12

LEMMA InitEstablishes == Init => IInv
<1> SUFFICES ASSUME Init PROVE IInv
  OBVIOUS
<1>1. Len(queue) = 0 /\ Len(stream) = 0 /\ stream \in Seq(AllBytes) /\ queue \in Seq(Seq(AllBytes))
  BY DEF Init
<1>2. TypeOK
  <2>1. {launched, watching, looping, undefined} \subseteq BOOLEAN
    BY Zenon DEF Init
  <2> QED  BY <2>1, <1>1, SockWriteAssumption DEF Init, TypeOK
<1>3. OnePlace /\ Watched
  BY <1>1 DEF Init, OnePlace, Injective, Watched
<1> QED  BY <1>1, <1>2, <1>3 DEF IInv

LEMMA BytesOfNext ==
  ASSUME IInv, written < Messages
  PROVE  LET data == Bytes(written + 1) IN
         /\ data \in Seq(AllBytes) /\ Len(data) = Length /\ Injective(data)
         /\ Disjoint(stream, data)
         /\ \A i \in 1..Len(queue) : Disjoint(queue[i], data)
         /\ \A i \in 1..Len(data) : data[i][1] = written + 1
<1> DEFINE data == Bytes(written + 1)
<1>1. written \in Nat /\ written + 1 \in 1..Messages
  BY SockWriteAssumption DEF IInv, TypeOK
<1>2. \A i \in 1..Length : <<written + 1, i>> \in AllBytes
  BY <1>1, BytesAre
<1>3. data \in Seq(AllBytes) /\ Len(data) = Length /\ \A i \in 1..Length : data[i] = <<written + 1, i>>
  BY <1>2, SockWriteAssumption DEF Bytes
<1> HIDE DEF data
<1>4. Injective(data) /\ \A i \in 1..Len(data) : data[i][1] = written + 1
  BY <1>3 DEF Injective
<1>5. Disjoint(stream, data)
  <2>1. \A i \in 1..Len(stream) : stream[i] \in AllBytes /\ stream[i][1] <= written
    BY DEF IInv, OnePlace
  <2> QED  BY <1>1, <1>4, <2>1, BytesAre DEF Disjoint
<1>6. ASSUME NEW i \in 1..Len(queue)  PROVE Disjoint(queue[i], data)
  <2>1. queue[i] \in Seq(AllBytes) /\ \A j \in 1..Len(queue[i]) : queue[i][j][1] <= written
    BY DEF IInv, OnePlace
  <2>2. \A j \in 1..Len(queue[i]) : queue[i][j][1] \in Nat
    BY <2>1, BytesAre
  <2> QED  BY <1>1, <1>4, <2>1, <2>2 DEF Disjoint
<1> QED  BY <1>3, <1>4, <1>5, <1>6 DEF data

\* What is disjoint from the stream and from what is sent stays disjoint.
LEMMA StreamGrows ==
  ASSUME NEW data, NEW q, Disjoint(stream, q), Disjoint(q, data),
         \A i \in 1..Len(stream') :
           \/ \E j \in 1..Len(stream) : stream'[i] = stream[j]
           \/ \E j \in 1..Len(data) : stream'[i] = data[j]
  PROVE  Disjoint(stream', q)
BY DEF Disjoint

LEMMA WriteKeeps ==
  ASSUME IInv, Write  PROVE IInv'
<1> DEFINE data == Bytes(written + 1)
<1>1. /\ written < Messages /\ written' = written + 1 /\ KernelTakes(data)
      /\ UNCHANGED <<looping, undefined>>
  BY DEF Write
<1>2. /\ data \in Seq(AllBytes) /\ Len(data) = Length /\ Injective(data)
      /\ Disjoint(stream, data)
      /\ \A i \in 1..Len(queue) : Disjoint(queue[i], data)
      /\ \A i \in 1..Len(data) : data[i][1] = written + 1
  BY <1>1, BytesOfNext
<1>3. \/ /\ WroteAll(data) /\ completed' = completed \cup {written + 1}
         /\ UNCHANGED <<queue, launched, watching>>
      \/ /\ ~WroteAll(data) /\ queue' = Append(queue, Remaining(data))
         /\ Launch /\ UNCHANGED completed
  BY DEF Write
<1> HIDE DEF data
<1>4. /\ written \in Nat /\ written' \in 0..Messages /\ written + 1 \in 1..Messages
      /\ room \in Nat /\ room <= Buffer
      /\ stream \in Seq(AllBytes) /\ queue \in Seq(Seq(AllBytes))
      /\ Injective(stream)
  BY <1>1, SockWriteAssumption DEF IInv, TypeOK, OnePlace
<1>5. /\ Taken(data) \in 0..Len(data) /\ room' \in Nat /\ room' <= room
      /\ stream' \in Seq(AllBytes) /\ Injective(stream')
      /\ \A i \in 1..Len(stream') :
           \/ \E j \in 1..Len(stream) : stream'[i] = stream[j]
           \/ \E j \in 1..Len(data) : stream'[i] = data[j]
      /\ Remaining(data) \in Seq(AllBytes)
      /\ Len(Remaining(data)) = Len(data) - Taken(data)
      /\ Injective(Remaining(data)) /\ Disjoint(stream', Remaining(data))
      /\ \A i \in 1..Len(Remaining(data)) : \E j \in 1..Len(data) : Remaining(data)[i] = data[j]
  BY <1>1, <1>2, <1>4, Takes
<1>6. \A i \in 1..Len(stream') : stream'[i] \in AllBytes /\ stream'[i][1] <= written'
  <2> SUFFICES ASSUME NEW i \in 1..Len(stream')
               PROVE  stream'[i] \in AllBytes /\ stream'[i][1] <= written'
    OBVIOUS
  <2>1. stream'[i] \in AllBytes
    BY <1>5
  <2>2. ASSUME NEW j \in 1..Len(stream), stream'[i] = stream[j]
        PROVE  stream'[i][1] <= written'
    <3>1. stream[j][1] <= written /\ stream[j][1] \in 1..Messages
      BY <2>1, <2>2, BytesAre DEF IInv, OnePlace
    <3> QED  BY <3>1, <2>2, <1>1, <1>4
  <2>3. ASSUME NEW j \in 1..Len(data), stream'[i] = data[j]
        PROVE  stream'[i][1] <= written'
    BY <2>3, <1>1, <1>2, <1>4
  <2> QED  BY <2>1, <2>2, <2>3, <1>5
<1>7. \A i \in 1..Len(queue) :
        /\ Injective(queue[i]) /\ Disjoint(stream', queue[i])
        /\ \A j \in 1..Len(queue[i]) : queue[i][j][1] <= written'
  <2>1. ASSUME NEW i \in 1..Len(queue)
        PROVE  Disjoint(stream', queue[i])
    BY <1>2, <1>5, StreamGrows DEF IInv, OnePlace
  <2>2. ASSUME NEW i \in 1..Len(queue), NEW j \in 1..Len(queue[i])
        PROVE  queue[i][j][1] <= written'
    <3>1. queue[i] \in Seq(AllBytes)
      BY <1>4
    <3>2. queue[i][j][1] \in 1..Messages
      BY <3>1, BytesAre
    <3>3. queue[i][j][1] <= written
      BY DEF IInv, OnePlace
    <3> QED  BY <3>2, <3>3, <1>1, <1>4
  <2>3. \A i \in 1..Len(queue) : Injective(queue[i])
    BY DEF IInv, OnePlace
  <2> QED  BY <2>1, <2>2, <2>3
<1>8. {launched', watching', looping', undefined'} \subseteq BOOLEAN
  BY <1>1, <1>3, Zenon DEF IInv, TypeOK, Launch
<1>9. /\ room' \in 0..Buffer /\ completed' \subseteq 1..Messages
      /\ \A i \in 1..Len(stream') : stream'[i] \in AllBytes
  <2>1. room' \in 0..Buffer
    BY <1>4, <1>5, SockWriteAssumption
  <2>2. completed' \subseteq 1..Messages
    BY <1>3, <1>4 DEF IInv, TypeOK
  <2> QED  BY <2>1, <2>2, <1>6
<1>10. CASE WroteAll(data)
  <2>1. completed' = completed \cup {written + 1} /\ UNCHANGED <<queue, launched, watching>>
    BY <1>3, <1>10
  <2>2. TypeOK'
    <3>1. \A i \in 1..Len(queue') : Len(queue'[i]) \in 1..Length
      BY <2>1 DEF IInv, TypeOK
    <3> QED  BY <3>1, <1>4, <1>8, <1>9, Zenon DEF TypeOK
  <2>3. OnePlace' /\ Watched'
    BY <2>1, <1>5, <1>6, <1>7 DEF IInv, OnePlace, Watched
  <2> QED  BY <2>1, <2>2, <2>3, <1>4, <1>5 DEF IInv
<1>11. CASE ~WroteAll(data)
  <2>1. queue' = Append(queue, Remaining(data)) /\ Launch /\ UNCHANGED completed
    BY <1>3, <1>11
  <2>2. /\ queue' \in Seq(Seq(AllBytes)) /\ Len(queue') = Len(queue) + 1
        /\ queue'[Len(queue')] = Remaining(data)
        /\ \A i \in 1..Len(queue) : queue'[i] = queue[i]
        /\ \A i \in 1..Len(queue') : i \in 1..Len(queue) \/ i = Len(queue')
    <3>1. PICK rest \in Seq(AllBytes) : rest = Remaining(data)
      BY <1>5
    <3>2. queue' = Append(queue, rest)
      BY <2>1, <3>1
    <3> QED  BY <3>1, <3>2, <1>4
  <2>3. Len(Remaining(data)) \in 1..Length
    BY <1>2, <1>5, <1>11, SockWriteAssumption DEF WroteAll
  <2>4. TypeOK'
    <3>1. \A i \in 1..Len(queue') : Len(queue'[i]) \in 1..Length
      BY <2>2, <2>3 DEF IInv, TypeOK
    <3> QED  BY <3>1, <1>4, <1>8, <1>9, Zenon DEF TypeOK
  <2>5. /\ \A j \in 1..Len(Remaining(data)) : Remaining(data)[j][1] <= written'
        /\ \A i \in 1..Len(queue) :
             Disjoint(queue[i], Remaining(data)) /\ Disjoint(Remaining(data), queue[i])
    <3>1. \A j \in 1..Len(Remaining(data)) : Remaining(data)[j][1] = written + 1
      BY <1>2, <1>5
    <3>2. \A i \in 1..Len(queue) : Disjoint(queue[i], Remaining(data))
      BY <1>2, <1>5 DEF Disjoint
    <3> QED  BY <3>1, <3>2, <1>1, <1>4 DEF Disjoint
  <2>6. \A i \in 1..Len(queue') :
          /\ Injective(queue'[i]) /\ Disjoint(stream', queue'[i])
          /\ \A j \in 1..Len(queue'[i]) : queue'[i][j][1] <= written'
    BY <2>2, <2>5, <1>5, <1>7
  <2>7. \A i, j \in 1..Len(queue') : i # j => Disjoint(queue'[i], queue'[j])
    BY <2>2, <2>5 DEF IInv, OnePlace
  <2>8. Watched'
    BY <2>1 DEF IInv, Watched, Launch
  <2> QED  BY <2>2, <2>4, <2>6, <2>7, <2>8, <1>5, <1>6 DEF IInv, OnePlace
<1> QED  BY <1>10, <1>11

\* A round of ixfd_commonsock_write_cb: the first entry goes on, or is done.
LEMMA WriteRoundKeeps ==
  ASSUME IInv, WriteRound  PROVE IInv'
<1>1. /\ queue # <<>> /\ KernelTakes(Head(queue))
      /\ UNCHANGED <<written, launched, watching, looping>>
  BY DEF WriteRound
<1>2. /\ Len(queue) \in Nat \ {0} /\ Head(queue) = queue[1] /\ queue[1] \in Seq(AllBytes)
      /\ queue \in Seq(Seq(AllBytes)) /\ stream \in Seq(AllBytes)
      /\ Len(queue[1]) \in 1..Length /\ written \in 0..Messages
      /\ room \in Nat /\ room <= Buffer
  <2>1. queue \in Seq(Seq(AllBytes)) /\ Len(queue) \in Nat \ {0} /\ Head(queue) = queue[1]
    BY <1>1 DEF IInv
  <2> QED  BY <2>1, SockWriteAssumption DEF IInv, TypeOK
<1> DEFINE data == queue[1]
<1>3. \/ /\ WroteAll(data) /\ queue' = Tail(queue)
         /\ completed' = completed \cup {data[1][1]} /\ undefined' = TRUE
      \/ /\ ~WroteAll(data) /\ queue' = [queue EXCEPT ![1] = Remaining(data)]
         /\ UNCHANGED <<completed, undefined>>
  BY <1>2 DEF WriteRound
<1>4. /\ Injective(data) /\ Injective(stream) /\ Disjoint(stream, data)
      /\ \A j \in 1..Len(data) : data[j][1] <= written /\ data[j][1] \in 1..Messages
      /\ \A i \in 2..Len(queue) : Disjoint(queue[i], data) /\ Disjoint(data, queue[i])
  <2>1. /\ Injective(data) /\ Injective(stream) /\ Disjoint(stream, data)
        /\ \A j \in 1..Len(data) : data[j][1] <= written
    BY <1>2 DEF IInv, OnePlace
  <2>2. \A j \in 1..Len(data) : data[j][1] \in 1..Messages
    BY <1>2, BytesAre
  <2>3. \A i \in 2..Len(queue) : Disjoint(queue[i], data) /\ Disjoint(data, queue[i])
    BY <1>2 DEF IInv, OnePlace
  <2> QED  BY <2>1, <2>2, <2>3
<1> HIDE DEF data
<1>5. /\ Taken(data) \in 0..Len(data) /\ room' \in Nat /\ room' <= room
      /\ stream' \in Seq(AllBytes) /\ Injective(stream')
      /\ \A i \in 1..Len(stream') :
           \/ \E j \in 1..Len(stream) : stream'[i] = stream[j]
           \/ \E j \in 1..Len(data) : stream'[i] = data[j]
      /\ Remaining(data) \in Seq(AllBytes)
      /\ Len(Remaining(data)) = Len(data) - Taken(data)
      /\ Injective(Remaining(data)) /\ Disjoint(stream', Remaining(data))
      /\ \A i \in 1..Len(Remaining(data)) : \E j \in 1..Len(data) : Remaining(data)[i] = data[j]
  BY <1>1, <1>2, <1>4, Takes DEF data
<1>6. \A i \in 1..Len(stream') : stream'[i] \in AllBytes /\ stream'[i][1] <= written'
  <2> SUFFICES ASSUME NEW i \in 1..Len(stream')
               PROVE  stream'[i] \in AllBytes /\ stream'[i][1] <= written'
    OBVIOUS
  <2>1. stream'[i] \in AllBytes
    BY <1>5
  <2>2. ASSUME NEW j \in 1..Len(stream), stream'[i] = stream[j]
        PROVE  stream'[i][1] <= written'
    BY <2>2, <1>1 DEF IInv, OnePlace
  <2>3. ASSUME NEW j \in 1..Len(data), stream'[i] = data[j]
        PROVE  stream'[i][1] <= written'
    BY <2>3, <1>1, <1>4
  <2> QED  BY <2>1, <2>2, <2>3, <1>5
<1>7. \A i \in 2..Len(queue) :
        /\ Injective(queue[i]) /\ Disjoint(stream', queue[i])
        /\ \A j \in 1..Len(queue[i]) : queue[i][j][1] <= written'
  <2>1. ASSUME NEW i \in 2..Len(queue)
        PROVE  i \in 1..Len(queue) /\ Disjoint(stream', queue[i])
    <3>1. i \in 1..Len(queue)
      BY <1>2
    <3> QED  BY <3>1, <1>4, <1>5, StreamGrows DEF IInv, OnePlace
  <2> QED  BY <2>1, <1>1 DEF IInv, OnePlace
<1>8. {launched', watching', looping', undefined'} \subseteq BOOLEAN
  BY <1>1, <1>3, Zenon DEF IInv, TypeOK
<1>9. /\ written' \in 0..Messages /\ room' \in 0..Buffer /\ completed' \subseteq 1..Messages
      /\ \A i \in 1..Len(stream') : stream'[i] \in AllBytes
  <2>1. room' \in 0..Buffer
    BY <1>2, <1>5, SockWriteAssumption
  <2>2. completed' \subseteq 1..Messages
    <3>1. 1 \in 1..Len(data)
      BY <1>2, SockWriteAssumption DEF data
    <3>2. data[1][1] \in 1..Messages /\ completed \subseteq 1..Messages
      BY <3>1, <1>4 DEF IInv, TypeOK
    <3> QED  BY <3>2, <1>3
  <2> QED  BY <2>1, <2>2, <1>1, <1>2, <1>6
<1>10. CASE WroteAll(data)
  <2>1. queue' = Tail(queue)
    BY <1>3, <1>10
  <2>2. /\ queue' \in Seq(Seq(AllBytes)) /\ Len(queue') = Len(queue) - 1
        /\ \A i \in 1..Len(queue') : i + 1 \in 2..Len(queue) /\ queue'[i] = queue[i + 1]
    BY <2>1, <1>2
  <2>3. TypeOK'
    <3>1. \A i \in 1..Len(queue') : Len(queue'[i]) \in 1..Length
      <4>1. \A i \in 2..Len(queue) : Len(queue[i]) \in 1..Length
        BY <1>2 DEF IInv, TypeOK
      <4> QED  BY <4>1, <2>2
    <3> QED  BY <3>1, <1>8, <1>9, Zenon DEF TypeOK
  <2>4. \A i, j \in 1..Len(queue') : i # j => Disjoint(queue'[i], queue'[j])
    <3> SUFFICES ASSUME NEW i \in 1..Len(queue'), NEW j \in 1..Len(queue'), i # j
                 PROVE  Disjoint(queue'[i], queue'[j])
      OBVIOUS
    <3>1. /\ i + 1 \in 1..Len(queue) /\ j + 1 \in 1..Len(queue) /\ i + 1 # j + 1
          /\ queue'[i] = queue[i + 1] /\ queue'[j] = queue[j + 1]
      BY <2>2, <1>2
    <3> QED  BY <3>1 DEF IInv, OnePlace
  <2>5. OnePlace'
    BY <2>2, <2>4, <1>5, <1>6, <1>7 DEF OnePlace
  <2>6. Watched'
    BY <1>1 DEF IInv, Watched
  <2> QED  BY <2>2, <2>3, <2>5, <2>6, <1>5 DEF IInv
<1>11. CASE ~WroteAll(data)
  <2>1. queue' = [queue EXCEPT ![1] = Remaining(data)]
    BY <1>3, <1>11
  <2>2. /\ queue' \in Seq(Seq(AllBytes)) /\ Len(queue') = Len(queue)
        /\ queue'[1] = Remaining(data)
        /\ \A i \in 2..Len(queue) : queue'[i] = queue[i]
        /\ \A i \in 1..Len(queue') : i = 1 \/ i \in 2..Len(queue)
    <3>1. PICK rest \in Seq(AllBytes) : rest = Remaining(data)
      BY <1>5
    <3>2. queue' = [queue EXCEPT ![1] = rest]
      BY <2>1, <3>1
    <3> QED  BY <3>1, <3>2, <1>2
  <2>3. Len(Remaining(data)) \in 1..Length
    BY <1>2, <1>5, <1>11, SockWriteAssumption DEF WroteAll, data
  <2>4. TypeOK'
    <3>1. \A i \in 1..Len(queue') : Len(queue'[i]) \in 1..Length
      BY <2>2, <2>3 DEF IInv, TypeOK
    <3> QED  BY <3>1, <1>8, <1>9, Zenon DEF TypeOK
  <2>5. /\ \A j \in 1..Len(Remaining(data)) : Remaining(data)[j][1] <= written'
        /\ \A i \in 2..Len(queue) :
             Disjoint(queue[i], Remaining(data)) /\ Disjoint(Remaining(data), queue[i])
    <3>1. \A j \in 1..Len(Remaining(data)) : Remaining(data)[j][1] <= written
      BY <1>4, <1>5
    <3>2. ASSUME NEW i \in 2..Len(queue)
          PROVE  Disjoint(queue[i], Remaining(data)) /\ Disjoint(Remaining(data), queue[i])
      <4>1. Disjoint(queue[i], data)
        BY <1>4
      <4> QED  BY <4>1, <1>5 DEF Disjoint
    <3> QED  BY <3>1, <3>2, <1>1
  <2>6. \A i \in 1..Len(queue') :
          /\ Injective(queue'[i]) /\ Disjoint(stream', queue'[i])
          /\ \A j \in 1..Len(queue'[i]) : queue'[i][j][1] <= written'
    BY <2>2, <2>5, <1>5, <1>7
  <2>7. \A i, j \in 1..Len(queue') : i # j => Disjoint(queue'[i], queue'[j])
    <3>1. \A i, j \in 2..Len(queue) : i # j => Disjoint(queue[i], queue[j])
      BY <1>2 DEF IInv, OnePlace
    <3> QED  BY <3>1, <2>2, <2>5
  <2>8. Watched'
    BY <1>1 DEF IInv, Watched
  <2> QED  BY <2>2, <2>4, <2>6, <2>7, <2>8, <1>5, <1>6 DEF IInv, OnePlace
<1> QED  BY <1>10, <1>11

LEMMA StepKeeps == IInv /\ [Next]_vars => IInv'
<1> SUFFICES ASSUME IInv, PeerReads \/ WriteReady \/ UNCHANGED vars  PROVE IInv'
  BY WriteKeeps, WriteRoundKeeps DEF Next
<1>1. /\ UNCHANGED <<written, stream, queue, launched, watching, completed, undefined>>
      /\ looping' = TRUE \/ looping' = looping
  BY Zenon DEF PeerReads, WriteReady, vars
<1>2. {launched', watching', looping', undefined'} \subseteq BOOLEAN
  BY <1>1, Zenon DEF IInv, TypeOK
<1>3. room' \in 0..Buffer
  BY SockWriteAssumption DEF PeerReads, WriteReady, vars, IInv, TypeOK
<1>4. TypeOK'
  BY <1>1, <1>2, <1>3, Zenon DEF IInv, TypeOK, AllBytes
<1> QED  BY <1>1, <1>4 DEF IInv, OnePlace, Injective, Disjoint, Watched
-----------------------------------------------------------------------------
\* Every byte is in one place, and the watcher runs from the first short write
\* on: the inductive invariant.
THEOREM Invariance == Spec => []IInv
  BY InitEstablishes, StepKeeps, PTL DEF Spec

\* Types of the write path's state (ixfd_sock_write_ctx).
THEOREM TypeCorrect == Spec => []TypeOK
<1>1. IInv => TypeOK
  BY DEF IInv
<1> QED  BY <1>1, Invariance, PTL

\* What a short write leaves is never left without a watcher (write_launched
\* in ixfd_commonsock_write).
THEOREM AlwaysWatched == Spec => []QueuedIsWatched
<1>1. IInv => QueuedIsWatched
  BY DEF IInv, Watched, QueuedIsWatched
<1> QED  BY <1>1, Invariance, PTL

\* No byte is sent twice, nor sent and queued, whatever the kernel takes of
\* each write (data + n and len - n in both functions).
THEOREM AlwaysSentOnce == Spec => []SentOnce
<1>1. IInv => SentOnce
  <2> SUFFICES ASSUME IInv, NEW i \in 1..Len(stream)  PROVE stream[i] \notin Queued
    BY DEF IInv, OnePlace, Injective, SentOnce
  <2> QED  BY DEF IInv, OnePlace, Disjoint, Queued
<1> QED  BY <1>1, Invariance, PTL
-----------------------------------------------------------------------------
(***************************************************************************)
(* What the peer gets of each message.  Messages may overtake one another, *)
(* and one that meets a full buffer is reported written and dropped        *)
(* (ixfd_commonsock_write tries the kernel first, and takes its -1 for a   *)
(* large count); but of no message does the peer get a byte before the     *)
(* bytes ahead of it, and none is dropped in part.                         *)
(***************************************************************************)
Received(s, b) == \E p \in 1..Len(s) : s[p] = b

Waiting(q, b) == \E k \in 1..Len(q) : \E j \in 1..Len(q[k]) : q[k][j] = b

\* No byte comes before the ones ahead of it in its message.
PrefixesIn(s) ==
  \A p \in 1..Len(s) : \A j \in 1..(s[p][2] - 1) :
    \E q \in 1..(p - 1) : s[q] = <<s[p][1], j>>

PrefixesOnly == PrefixesIn(stream)

\* A message is under way or sent as a whole, or dropped as a whole.
DroppedWhole ==
  ~undefined => \A m \in 1..written :
    \/ \A i \in 1..Length : Received(stream, <<m, i>>) \/ Waiting(queue, <<m, i>>)
    \/ \A i \in 1..Length : ~Received(stream, <<m, i>>) /\ ~Waiting(queue, <<m, i>>)

\* A message is reported written if and only if no entry holds it.
ReportedWhenGone ==
  ~undefined => \A m \in 1..written :
    m \in completed <=> \A k \in 1..Len(queue) : queue[k][1][1] # m

\* An entry is the rest of its message: from byte s + 1 on, ...
RestOf(q, m, s) == Len(q) = Length - s /\ \A j \in 1..Len(q) : q[j] = <<m, s + j>>

\* ... of one of the first w messages, and the s bytes before are in st.
IsRest(q, w, st) ==
  \E m \in 1..w, s \in 0..(Length - 1) :
    RestOf(q, m, s) /\ \A j \in 1..s : Received(st, <<m, j>>)

JInv ==
  /\ \A k \in 1..Len(queue) : IsRest(queue[k], written, stream)
  /\ PrefixesOnly /\ DroppedWhole /\ ReportedWhenGone /\ completed \subseteq 1..written
-----------------------------------------------------------------------------
\* write(2) on the rest of a message continues it where it stopped.
LEMMA Continues ==
  ASSUME stream \in Seq(AllBytes), room \in Nat, PrefixesOnly,
         NEW data \in Seq(AllBytes), NEW m \in Nat, NEW s \in 0..Length, RestOf(data, m, s),
         \A j \in 1..s : Received(stream, <<m, j>>), KernelTakes(data)
  PROVE  \E n \in 0..Len(data) :
           /\ n = Taken(data) /\ PrefixesIn(stream')
           /\ \A b : Received(stream, b) => Received(stream', b)
           /\ \A b : Received(stream', b) => Received(stream, b) \/ \E j \in 1..n : b = data[j]
           /\ \A j \in 1..(s + n) : Received(stream', <<m, j>>)
           /\ Remaining(data) \in Seq(AllBytes) /\ RestOf(Remaining(data), m, s + n)
<1>1. PICK n \in 0..Len(data) : n = Taken(data)
  BY DEF Taken, Least
<1>2. stream' = stream \o SubSeq(data, 1, n)
  BY <1>1 DEF KernelTakes
<1>3. /\ SubSeq(data, 1, n) \in Seq(AllBytes) /\ Len(SubSeq(data, 1, n)) = n
      /\ \A i \in 1..n : SubSeq(data, 1, n)[i] = data[i]
  OBVIOUS
<1>4. /\ Len(stream) \in Nat /\ stream' \in Seq(AllBytes) /\ Len(stream') = Len(stream) + n
      /\ \A i \in 1..Len(stream) : stream'[i] = stream[i]
      /\ \A i \in 1..n : stream'[Len(stream) + i] = data[i]
  BY <1>2, <1>3
<1>5. \A p \in 1..Len(stream') :
        p \in 1..Len(stream) \/ \E i \in 1..n : p = Len(stream) + i
  <2> SUFFICES ASSUME NEW p \in 1..Len(stream'), p \notin 1..Len(stream)
               PROVE  \E i \in 1..n : p = Len(stream) + i
    OBVIOUS
  <2>1. p - Len(stream) \in 1..n /\ p = Len(stream) + (p - Len(stream))
    BY <1>4
  <2> QED  BY <2>1
<1>6. /\ \A j \in 1..Len(data) : data[j] = <<m, s + j>>
      /\ \A j \in 1..n : stream'[Len(stream) + j] = <<m, s + j>>
  <2>1. \A j \in 1..Len(data) : data[j] = <<m, s + j>>
    BY DEF RestOf
  <2>2. \A j \in 1..n : j \in 1..Len(data)
    OBVIOUS
  <2> QED  BY <2>1, <2>2, <1>4
<1>7. \A b : Received(stream, b) => Received(stream', b)
  BY <1>4 DEF Received
<1>8. \A b : Received(stream', b) => Received(stream, b) \/ \E j \in 1..n : b = data[j]
  BY <1>4, <1>5 DEF Received
<1>9. \A j \in 1..(s + n) : Received(stream', <<m, j>>)
  <2> SUFFICES ASSUME NEW j \in 1..(s + n)  PROVE Received(stream', <<m, j>>)
    OBVIOUS
  <2>1. CASE j \in 1..s
    BY <2>1, <1>7
  <2>2. CASE j \notin 1..s
    <3>1. j - s \in 1..n /\ j - s \in 1..Len(data) /\ s + (j - s) = j
      BY <2>2
    <3>2. stream'[Len(stream) + (j - s)] = <<m, j>>
      BY <3>1, <1>6
    <3>3. Len(stream) + (j - s) \in 1..Len(stream')
      BY <3>1, <1>4
    <3> QED  BY <3>2, <3>3 DEF Received
  <2> QED  BY <2>1, <2>2
<1>10. PrefixesIn(stream')
  <2> SUFFICES ASSUME NEW p \in 1..Len(stream'), NEW j \in 1..(stream'[p][2] - 1)
               PROVE  \E q \in 1..(p - 1) : stream'[q] = <<stream'[p][1], j>>
    BY DEF PrefixesIn
  <2>1. CASE p \in 1..Len(stream)
    <3>1. stream'[p] = stream[p]
      BY <2>1, <1>4
    <3>2. PICK q \in 1..(p - 1) : stream[q] = <<stream[p][1], j>>
      BY <2>1, <3>1 DEF PrefixesOnly, PrefixesIn
    <3>3. q \in 1..Len(stream)
      <4>1. \A l \in Nat : p \in 1..l /\ q \in 1..(p - 1) => q \in 1..l
        OBVIOUS
      <4> QED  BY <4>1, <2>1, <1>4
    <3> QED  BY <3>1, <3>2, <3>3, <1>4
  <2>2. ASSUME NEW i \in 1..n, p = Len(stream) + i
        PROVE  \E q \in 1..(p - 1) : stream'[q] = <<stream'[p][1], j>>
    <3>1. stream'[p] = <<m, s + i>>
      BY <2>2, <1>6
    <3>2. j \in 1..(s + i - 1)
      BY <3>1
    <3>3. CASE j \in 1..s
      <4>1. PICK q \in 1..Len(stream) : stream[q] = <<m, j>>
        BY <3>3 DEF Received
      <4>2. q \in 1..(p - 1) /\ stream'[q] = <<m, j>>
        BY <4>1, <2>2, <1>4
      <4> QED  BY <4>2, <3>1
    <3>4. CASE j \notin 1..s
      <4>1. j - s \in 1..n /\ s + (j - s) = j /\ j - s < i
        BY <3>2, <3>4
      <4>2. stream'[Len(stream) + (j - s)] = <<m, j>>
        BY <4>1, <1>6
      <4>3. Len(stream) + (j - s) \in 1..(p - 1)
        BY <4>1, <2>2, <1>4
      <4> QED  BY <4>2, <4>3, <3>1
    <3> QED  BY <3>3, <3>4
  <2> QED  BY <2>1, <2>2, <1>5
<1>11. /\ Remaining(data) \in Seq(AllBytes) /\ RestOf(Remaining(data), m, s + n)
  <2>1. /\ SubSeq(data, n + 1, Len(data)) \in Seq(AllBytes)
        /\ Len(SubSeq(data, n + 1, Len(data))) = Len(data) - n
    OBVIOUS
  <2>2. \A i \in 1..(Len(data) - n) : SubSeq(data, n + 1, Len(data))[i] = data[i + n]
    BY <2>1
  <2>3. \A i \in 1..(Len(data) - n) : data[i + n] = <<m, s + n + i>>
    BY <1>6
  <2>4. Remaining(data) = SubSeq(data, n + 1, Len(data))
    BY <1>1 DEF Remaining
  <2>5. Len(data) - n = Length - (s + n)
    BY SockWriteAssumption DEF RestOf
  <2> QED  BY <2>1, <2>2, <2>3, <2>4, <2>5 DEF RestOf
<1> QED  BY <1>1, <1>7, <1>8, <1>9, <1>10, <1>11

\* An entry stays one while messages are written and bytes sent.
LEMMA StaysRest ==
  ASSUME written \in Nat, written' \in Nat, written <= written', NEW q,
         IsRest(q, written, stream), \A b : Received(stream, b) => Received(stream', b)
  PROVE  IsRest(q, written', stream')
<1>1. PICK m \in 1..written, s \in 0..(Length - 1) :
        RestOf(q, m, s) /\ \A j \in 1..s : Received(stream, <<m, j>>)
  BY DEF IsRest
<1>2. m \in 1..written' /\ \A j \in 1..s : Received(stream', <<m, j>>)
  BY <1>1
<1> QED  BY <1>1, <1>2 DEF IsRest

\* The first byte of an entry names its message; the entry is not empty.
LEMMA RestFacts ==
  ASSUME IInv, NEW q, IsRest(q, written, stream)
  PROVE  \E m \in 1..written, s \in 0..(Length - 1) :
           /\ RestOf(q, m, s) /\ q[1][1] = m /\ Len(q) \in 1..Length
           /\ \A j \in 1..s : Received(stream, <<m, j>>)
           /\ \A i \in 1..Length : i \in 1..s \/ (i - s \in 1..Len(q) /\ q[i - s] = <<m, i>>)
<1>1. PICK m \in 1..written, s \in 0..(Length - 1) :
        RestOf(q, m, s) /\ \A j \in 1..s : Received(stream, <<m, j>>)
  BY DEF IsRest
<1>2. Len(q) = Length - s /\ \A j \in 1..Len(q) : q[j] = <<m, s + j>>
  BY <1>1 DEF RestOf
<1>3. Len(q) \in 1..Length
  BY <1>2, SockWriteAssumption
<1>4. q[1][1] = m
  <2>1. 1 \in 1..Len(q)
    BY <1>3
  <2>2. q[1] = <<m, s + 1>>
    BY <2>1, <1>2
  <2> QED  BY <2>2
<1>5. ASSUME NEW i \in 1..Length, i \notin 1..s
      PROVE  i - s \in 1..Len(q) /\ q[i - s] = <<m, i>>
  <2>1. i - s \in 1..Len(q) /\ s + (i - s) = i
    BY <1>2, <1>5, SockWriteAssumption
  <2> QED  BY <2>1, <1>2
<1> QED  BY <1>1, <1>3, <1>4, <1>5

LEMMA WriteKeepsRests ==
  ASSUME IInv, JInv, Write  PROVE JInv'
<1> DEFINE data == Bytes(written + 1)
<1> DEFINE m == written + 1
<1>1. /\ written < Messages /\ written' = m /\ KernelTakes(data) /\ undefined' = undefined
      /\ ~undefined
  BY DEF Write
<1>2. \/ /\ WroteAll(data) /\ completed' = completed \cup {m}
         /\ queue' = queue
      \/ /\ ~WroteAll(data) /\ queue' = Append(queue, Remaining(data))
         /\ completed' = completed
  BY DEF Write
<1>3. /\ written \in Nat /\ m \in Nat /\ room \in Nat /\ stream \in Seq(AllBytes)
      /\ queue \in Seq(Seq(AllBytes)) /\ PrefixesOnly
  BY DEF IInv, TypeOK, JInv
<1>4. data \in Seq(AllBytes) /\ Len(data) = Length
  BY <1>1, BytesOfNext
<1>5. RestOf(data, m, 0)
  <2>1. \A j \in 1..Length : data[j] = <<m, 0 + j>>
    BY DEF Bytes
  <2>2. Length = Length - 0
    BY SockWriteAssumption
  <2> QED  BY <1>4, <2>1, <2>2 DEF RestOf
<1> HIDE DEF data
<1>6. PICK n \in 0..Len(data) :
        /\ n = Taken(data) /\ PrefixesIn(stream')
        /\ \A b : Received(stream, b) => Received(stream', b)
        /\ \A b : Received(stream', b) => Received(stream, b) \/ \E j \in 1..n : b = data[j]
        /\ \A j \in 1..(0 + n) : Received(stream', <<m, j>>)
        /\ Remaining(data) \in Seq(AllBytes) /\ RestOf(Remaining(data), m, 0 + n)
  <2>1. 0 \in 0..Length /\ \A j \in 1..0 : Received(stream, <<m, j>>)
    BY SockWriteAssumption
  <2> QED  BY <1>1, <1>3, <1>4, <1>5, <2>1, Continues
<1>7. /\ \A j \in 1..n : Received(stream', <<m, j>>)
      /\ Len(Remaining(data)) = Length - n
      /\ \A j \in 1..Len(Remaining(data)) : Remaining(data)[j] = <<m, n + j>>
      /\ \A j \in 1..n : data[j] = <<m, j>>
  <2>1. 0 + n = n /\ \A j \in 1..n : j \in 1..Len(data) /\ 0 + j = j
    BY <1>4
  <2> QED  BY <1>5, <1>6, <2>1 DEF RestOf
\* The bytes of the earlier messages stay where they are.
<1>8. \A o \in 1..written, i \in 1..Length : Received(stream', <<o, i>>) <=> Received(stream, <<o, i>>)
  <2>1. \A o \in 1..written : o # m
    BY <1>3
  <2> QED  BY <2>1, <1>6, <1>7
<1>9. \A i \in 1..Length : ~Received(stream, <<m, i>>) /\ ~Waiting(queue, <<m, i>>)
  <2>1. /\ \A p \in 1..Len(stream) : stream[p][1] <= written
        /\ \A k \in 1..Len(queue) : \A j \in 1..Len(queue[k]) : queue[k][j][1] <= written
    BY DEF IInv, OnePlace
  <2>2. ~(m <= written)
    BY <1>3
  <2> HIDE DEF m
  <2>3. \A i : <<m, i>>[1] = m
    OBVIOUS
  <2> QED  BY <2>1, <2>2, <2>3, Zenon DEF Received, Waiting
<1>10. \A k \in 1..Len(queue) : IsRest(queue[k], written', stream')
  <2>1. written' \in Nat /\ written <= written'
    BY <1>1, <1>3
  <2> QED  BY <2>1, <1>3, <1>6, StaysRest DEF JInv
<1>11. \A k \in 1..Len(queue) : queue[k][1][1] \in 1..written
  BY RestFacts DEF JInv
<1>12. /\ \A o \in 1..m : o \in 1..written \/ o = m
       /\ \A o \in 1..written : o # m
       /\ m \in 1..m
  BY <1>3
<1>13. completed \subseteq 1..written /\ m \notin completed
  BY <1>3 DEF JInv
<1>14. CASE WroteAll(data)
  <2>1. completed' = completed \cup {m} /\ queue' = queue
    BY <1>2, <1>14
  <2>2. n = Length \/ n = 0
    BY <1>3, <1>4, <1>6, <1>14 DEF WroteAll, Taken, Least
  <2>3. DroppedWhole'
    <3>1. \A o \in 1..written :
            \/ \A i \in 1..Length : Received(stream', <<o, i>>) \/ Waiting(queue, <<o, i>>)
            \/ \A i \in 1..Length : ~Received(stream', <<o, i>>) /\ ~Waiting(queue, <<o, i>>)
      BY <1>1, <1>8 DEF JInv, DroppedWhole
    <3>2. CASE n = Length
      <4>1. \A i \in 1..Length : Received(stream', <<m, i>>)
        BY <3>2, <1>7
      <4> QED  BY <4>1, <3>1, <1>1, <1>12, <2>1 DEF DroppedWhole
    <3>3. CASE n = 0
      <4>1. \A i \in 1..Length : ~Received(stream', <<m, i>>)
        BY <3>3, <1>6, <1>9
      <4> QED  BY <4>1, <3>1, <1>1, <1>9, <1>12, <2>1 DEF DroppedWhole
    <3> QED  BY <2>2, <3>2, <3>3
  <2>4. ReportedWhenGone'
    <3>1. \A k \in 1..Len(queue) : queue[k][1][1] # m
      BY <1>11, <1>12
    <3>2. \A o \in 1..written :
            o \in completed <=> \A k \in 1..Len(queue) : queue[k][1][1] # o
      BY <1>1 DEF JInv, ReportedWhenGone
    <3> QED  BY <3>1, <3>2, <2>1, <1>1, <1>12 DEF ReportedWhenGone
  <2>5. completed' \subseteq 1..written'
    BY <2>1, <1>1, <1>3, <1>12, <1>13
  <2>6. PrefixesOnly' /\ \A k \in 1..Len(queue') : IsRest(queue'[k], written', stream')
    BY <2>1, <1>6, <1>10 DEF PrefixesOnly
  <2> QED  BY <2>3, <2>4, <2>5, <2>6, Zenon DEF JInv
<1>15. CASE ~WroteAll(data)
  <2>1. queue' = Append(queue, Remaining(data)) /\ completed' = completed
    BY <1>2, <1>15
  <2>2. n \in 0..(Length - 1)
    BY <1>4, <1>6, <1>15, SockWriteAssumption DEF WroteAll
  <2>3. /\ Len(queue') = Len(queue) + 1 /\ Len(queue) \in Nat
        /\ queue'[Len(queue) + 1] = Remaining(data)
        /\ \A k \in 1..Len(queue) : queue'[k] = queue[k] /\ k \in 1..Len(queue')
        /\ \A k \in 1..Len(queue') : k \in 1..Len(queue) \/ k = Len(queue) + 1
    <3>1. PICK rest \in Seq(AllBytes) : rest = Remaining(data)
      BY <1>6
    <3>2. queue' = Append(queue, rest)
      BY <2>1, <3>1
    <3> QED  BY <3>1, <3>2, <1>3
  <2>4. /\ IsRest(Remaining(data), written', stream')
        /\ Remaining(data)[1][1] = m
    <3>1. RestOf(Remaining(data), m, n)
      BY <1>7 DEF RestOf
    <3>2. 1 \in 1..Len(Remaining(data))
      BY <1>7, <2>2, SockWriteAssumption
    <3>3. Remaining(data)[1] = <<m, n + 1>>
      BY <3>2, <1>7
    <3>4. m \in 1..written'
      BY <1>1, <1>12
    <3>5. IsRest(Remaining(data), written', stream')
      BY <3>1, <3>4, <1>7, <2>2, Zenon DEF IsRest
    <3> QED  BY <3>3, <3>5
  <2>5. \A b : Waiting(queue', b) <=>
               Waiting(queue, b) \/ \E j \in 1..Len(Remaining(data)) : Remaining(data)[j] = b
    <3>1. Len(queue) + 1 \in 1..Len(queue')
      BY <2>3
    <3> QED  BY <3>1, <2>3, Zenon DEF Waiting
  <2>6. \A o \in 1..written, i \in 1..Length : Waiting(queue', <<o, i>>) <=> Waiting(queue, <<o, i>>)
    BY <2>5, <1>7, <1>12
  <2>7. \A i \in 1..Length : Received(stream', <<m, i>>) \/ Waiting(queue', <<m, i>>)
    <3> SUFFICES ASSUME NEW i \in 1..Length, i \notin 1..n  PROVE Waiting(queue', <<m, i>>)
      BY <1>7
    <3>1. i - n \in 1..Len(Remaining(data)) /\ n + (i - n) = i
      BY <1>7, <2>2, SockWriteAssumption
    <3>2. Remaining(data)[i - n] = <<m, i>>
      BY <3>1, <1>7
    <3> QED  BY <3>1, <3>2, <2>5
  <2>8. DroppedWhole'
    <3>1. \A o \in 1..written :
            \/ \A i \in 1..Length : Received(stream', <<o, i>>) \/ Waiting(queue', <<o, i>>)
            \/ \A i \in 1..Length : ~Received(stream', <<o, i>>) /\ ~Waiting(queue', <<o, i>>)
      BY <1>1, <1>8, <2>6 DEF JInv, DroppedWhole
    <3> QED  BY <3>1, <2>7, <1>1, <1>12 DEF DroppedWhole
  <2>9. ReportedWhenGone'
    <3>1. \A o \in 1..written :
            o \in completed <=> \A k \in 1..Len(queue) : queue[k][1][1] # o
      BY <1>1 DEF JInv, ReportedWhenGone
    <3>2. \A o \in 1..written :
            (\A k \in 1..Len(queue) : queue[k][1][1] # o)
            <=> (\A k \in 1..Len(queue') : queue'[k][1][1] # o)
      BY <2>3, <2>4, <1>12
    <3>3. ~(\A k \in 1..Len(queue') : queue'[k][1][1] # m)
      <4>1. Len(queue) + 1 \in 1..Len(queue')
        BY <2>3
      <4> QED  BY <4>1, <2>3, <2>4
    <3> QED  BY <3>1, <3>2, <3>3, <2>1, <1>1, <1>12, <1>13 DEF ReportedWhenGone
  <2>10. \A k \in 1..Len(queue') : IsRest(queue'[k], written', stream')
    BY <2>3, <2>4, <1>10
  <2>11. completed' \subseteq 1..written' /\ PrefixesOnly'
    BY <2>1, <1>1, <1>3, <1>6, <1>12, <1>13 DEF PrefixesOnly
  <2> QED  BY <2>8, <2>9, <2>10, <2>11, Zenon DEF JInv
<1> QED  BY <1>14, <1>15

\* The first entry goes on, or is given up with the connection.
LEMMA WriteRoundKeepsRests ==
  ASSUME IInv, JInv, WriteRound  PROVE JInv'
<1>1. /\ queue # <<>> /\ KernelTakes(Head(queue)) /\ written' = written /\ ~undefined
  BY DEF WriteRound
<1>2. /\ queue \in Seq(Seq(AllBytes)) /\ stream \in Seq(AllBytes) /\ room \in Nat
      /\ written \in Nat /\ PrefixesOnly
  BY DEF IInv, TypeOK, JInv
<1>3. /\ Len(queue) \in Nat \ {0} /\ 1 \in 1..Len(queue)
      /\ Head(queue) = queue[1] /\ queue[1] \in Seq(AllBytes)
  BY <1>1, <1>2
<1> DEFINE data == queue[1]
<1>4. \/ /\ WroteAll(data) /\ queue' = Tail(queue)
         /\ completed' = completed \cup {data[1][1]} /\ undefined' = TRUE
      \/ /\ ~WroteAll(data) /\ queue' = [queue EXCEPT ![1] = Remaining(data)]
         /\ completed' = completed /\ undefined' = undefined
  BY <1>3 DEF WriteRound
<1>5. data \in Seq(AllBytes) /\ KernelTakes(data) /\ IsRest(data, written, stream)
  BY <1>1, <1>3 DEF JInv
<1> HIDE DEF data
<1>6. PICK m \in 1..written, s \in 0..(Length - 1) :
        /\ RestOf(data, m, s) /\ data[1][1] = m /\ Len(data) \in 1..Length
        /\ \A j \in 1..s : Received(stream, <<m, j>>)
        /\ \A i \in 1..Length : i \in 1..s \/ (i - s \in 1..Len(data) /\ data[i - s] = <<m, i>>)
  BY <1>5, RestFacts
<1>7. PICK n \in 0..Len(data) :
        /\ n = Taken(data) /\ PrefixesIn(stream')
        /\ \A b : Received(stream, b) => Received(stream', b)
        /\ \A b : Received(stream', b) => Received(stream, b) \/ \E j \in 1..n : b = data[j]
        /\ \A j \in 1..(s + n) : Received(stream', <<m, j>>)
        /\ Remaining(data) \in Seq(AllBytes) /\ RestOf(Remaining(data), m, s + n)
  <2>1. m \in Nat /\ s \in 0..Length
    BY <1>2, SockWriteAssumption
  <2> QED  BY <1>2, <1>5, <1>6, <2>1, Continues
<1>8. \A k \in 1..Len(queue) : IsRest(queue[k], written', stream')
  <2>1. written' \in Nat /\ written <= written'
    BY <1>1, <1>2
  <2> QED  BY <2>1, <1>2, <1>7, StaysRest DEF JInv
<1>9. completed \subseteq 1..written
  BY DEF JInv
<1>10. CASE WroteAll(data)
  <2>1. queue' = Tail(queue) /\ completed' = completed \cup {m} /\ undefined'
    BY <1>4, <1>6, <1>10
  <2>2. \A k \in 1..Len(queue') : k + 1 \in 1..Len(queue) /\ queue'[k] = queue[k + 1]
    BY <2>1, <1>2, <1>3
  <2>3. \A k \in 1..Len(queue') : IsRest(queue'[k], written', stream')
    BY <2>2, <1>8
  <2>4. completed' \subseteq 1..written' /\ PrefixesOnly'
    BY <2>1, <1>1, <1>7, <1>9 DEF PrefixesOnly
  <2> QED  BY <2>1, <2>3, <2>4, Zenon DEF JInv, DroppedWhole, ReportedWhenGone
<1>11. CASE ~WroteAll(data)
  <2>1. /\ queue' = [queue EXCEPT ![1] = Remaining(data)]
        /\ completed' = completed /\ undefined' = undefined
    BY <1>4, <1>11
  <2>2. n \in 0..(Len(data) - 1)
    BY <1>6, <1>7, <1>11 DEF WroteAll
  <2>3. /\ Len(queue') = Len(queue) /\ queue'[1] = Remaining(data)
        /\ \A k \in 2..Len(queue) : queue'[k] = queue[k]
        /\ \A k \in 1..Len(queue) : k = 1 \/ k \in 2..Len(queue)
    <3>1. PICK rest \in Seq(AllBytes) : rest = Remaining(data)
      BY <1>7
    <3>2. queue' = [queue EXCEPT ![1] = rest]
      BY <2>1, <3>1
    <3> QED  BY <3>1, <3>2, <1>2, <1>3
  <2>4. s + n \in 0..(Length - 1) /\ Len(data) = Length - s
    BY <2>2, <1>6, SockWriteAssumption DEF RestOf
  <2>5. /\ Len(Remaining(data)) = Length - (s + n)
        /\ \A j \in 1..Len(Remaining(data)) : Remaining(data)[j] = <<m, s + n + j>>
    BY <1>7 DEF RestOf
  <2>6. IsRest(Remaining(data), written', stream')
    BY <1>1, <1>7, <2>4, Zenon DEF IsRest
  <2>7. Remaining(data)[1][1] = m
    <3>1. 1 \in 1..Len(Remaining(data))
      BY <2>4, <2>5, SockWriteAssumption
    <3>2. Remaining(data)[1] = <<m, s + n + 1>>
      BY <3>1, <2>5
    <3> QED  BY <3>2
  \* A byte that waited waits on, or has been taken.
  <2>8. ASSUME NEW b, Waiting(queue, b)  PROVE Received(stream', b) \/ Waiting(queue', b)
    <3>1. PICK k \in 1..Len(queue) : \E j \in 1..Len(queue[k]) : queue[k][j] = b
      BY <2>8 DEF Waiting
    <3>2. CASE k \in 2..Len(queue)
      BY <3>1, <3>2, <2>3 DEF Waiting
    <3>3. CASE k = 1
      <4>1. PICK j \in 1..Len(data) : data[j] = b /\ b = <<m, s + j>>
        BY <3>1, <3>3, <1>6 DEF data, RestOf
      <4>2. CASE j <= n
        <5>1. s + j \in 1..(s + n)
          BY <4>1, <4>2
        <5> QED  BY <5>1, <4>1, <1>7
      <4>3. CASE ~(j <= n)
        <5>1. j - n \in 1..Len(Remaining(data)) /\ s + n + (j - n) = s + j
          BY <4>1, <4>3, <2>4, <2>5, SockWriteAssumption
        <5>2. Remaining(data)[j - n] = b
          BY <5>1, <4>1, <2>5
        <5> QED  BY <5>1, <5>2, <2>3, <1>3 DEF Waiting
      <4> QED  BY <4>2, <4>3
    <3> QED  BY <3>1, <3>2, <3>3, <2>3
  \* Nothing new waits, and what is sent waited.
  <2>9. ASSUME NEW b, Waiting(queue', b)  PROVE Waiting(queue, b)
    <3>1. PICK k \in 1..Len(queue') : \E j \in 1..Len(queue'[k]) : queue'[k][j] = b
      BY <2>9 DEF Waiting
    <3>2. CASE k \in 2..Len(queue)
      <4>1. k \in 1..Len(queue) /\ queue'[k] = queue[k]
        BY <3>1, <3>2, <2>3
      <4> QED  BY <4>1, <3>1 DEF Waiting
    <3>3. CASE k = 1
      <4>1. PICK j \in 1..Len(Remaining(data)) : b = <<m, s + n + j>>
        BY <3>1, <3>3, <2>3, <2>5
      <4>2. n + j \in 1..Len(data) /\ s + (n + j) = s + n + j
        <5>1. Len(Remaining(data)) = Len(data) - n /\ Len(data) \in Nat /\ n \in Nat
          BY <1>6, <2>4, <2>5, SockWriteAssumption
        <5> QED  BY <5>1, <4>1
      <4>3. data[n + j] = b
        BY <4>1, <4>2, <1>6 DEF RestOf
      <4> QED  BY <4>2, <4>3, <1>3 DEF Waiting, data
    <3> QED  BY <3>1, <3>2, <3>3, <2>3
  <2>10. ASSUME NEW b, Received(stream', b)  PROVE Received(stream, b) \/ Waiting(queue, b)
    <3>1. ASSUME NEW j \in 1..n, b = data[j]  PROVE Waiting(queue, b)
      <4>1. j \in 1..Len(data)
        OBVIOUS
      <4> QED  BY <4>1, <3>1, <1>3 DEF Waiting, data
    <3> QED  BY <2>10, <3>1, <1>7
  <2>11. DroppedWhole'
    <3>1. \A o \in 1..written :
            \/ \A i \in 1..Length : Received(stream, <<o, i>>) \/ Waiting(queue, <<o, i>>)
            \/ \A i \in 1..Length : ~Received(stream, <<o, i>>) /\ ~Waiting(queue, <<o, i>>)
      BY <1>1 DEF JInv, DroppedWhole
    <3>2. ASSUME NEW o \in 1..written
          PROVE  \/ \A i \in 1..Length : Received(stream', <<o, i>>) \/ Waiting(queue', <<o, i>>)
                 \/ \A i \in 1..Length : ~Received(stream', <<o, i>>) /\ ~Waiting(queue', <<o, i>>)
      <4>1. CASE \A i \in 1..Length : Received(stream, <<o, i>>) \/ Waiting(queue, <<o, i>>)
        BY <4>1, <2>8, <1>7
      <4>2. CASE \A i \in 1..Length : ~Received(stream, <<o, i>>) /\ ~Waiting(queue, <<o, i>>)
        BY <4>2, <2>9, <2>10
      <4> QED  BY <4>1, <4>2, <3>1
    <3> QED  BY <3>2, <1>1 DEF DroppedWhole
  <2>12. ReportedWhenGone'
    <3>1. \A k \in 1..Len(queue) : queue'[k][1][1] = queue[k][1][1]
      BY <2>3, <2>7, <1>6 DEF data
    <3>2. \A o \in 1..written :
            o \in completed <=> \A k \in 1..Len(queue) : queue[k][1][1] # o
      BY <1>1 DEF JInv, ReportedWhenGone
    <3> QED  BY <3>1, <3>2, <2>1, <2>3, <1>1 DEF ReportedWhenGone
  <2>13. \A k \in 1..Len(queue') : IsRest(queue'[k], written', stream')
    BY <2>3, <2>6, <1>8
  <2>14. completed' \subseteq 1..written' /\ PrefixesOnly'
    BY <2>1, <1>1, <1>7, <1>9 DEF PrefixesOnly
  <2> QED  BY <2>11, <2>12, <2>13, <2>14, Zenon DEF JInv
<1> QED  BY <1>4, <1>10, <1>11

LEMMA RestsInvariance == Spec => []JInv
<1>1. Init => JInv
  <2> SUFFICES ASSUME Init PROVE JInv
    OBVIOUS
  <2>1. Len(queue) = 0 /\ Len(stream) = 0 /\ written = 0 /\ completed = {}
    BY DEF Init
  <2>2. 1..written = {} /\ 1..Len(queue) = {} /\ 1..Len(stream) = {}
    BY <2>1
  <2> QED  BY <2>1, <2>2 DEF JInv, PrefixesOnly, PrefixesIn, DroppedWhole, ReportedWhenGone
<1>2. IInv /\ JInv /\ [Next]_vars => JInv'
  <2> SUFFICES ASSUME IInv, JInv, PeerReads \/ WriteReady \/ UNCHANGED vars  PROVE JInv'
    BY WriteKeepsRests, WriteRoundKeepsRests DEF Next
  <2>1. UNCHANGED <<written, stream, queue, completed, undefined>>
    BY DEF PeerReads, WriteReady, vars
  <2> QED  BY <2>1 DEF JInv, PrefixesOnly, DroppedWhole, ReportedWhenGone
<1> QED  BY <1>1, <1>2, Invariance, PTL DEF Spec
-----------------------------------------------------------------------------
\* Of no message does the peer get a byte before the bytes ahead of it, however
\* the messages are interleaved (data + n and len - n after a short write).
THEOREM SentInPrefixes == Spec => []PrefixesOnly
<1>1. JInv => PrefixesOnly
  BY DEF JInv
<1> QED  BY <1>1, RestsInvariance, PTL

\* A message that meets a full buffer is dropped as a whole, and no other loses
\* a byte; a message is reported written exactly when no entry holds it, which
\* is also what is reported of a dropped one (`n >= len` with n = -1).
THEOREM DropsAreWhole == Spec => [](DroppedWhole /\ ReportedWhenGone)
<1>1. JInv => DroppedWhole /\ ReportedWhenGone
  BY DEF JInv
<1> QED  BY <1>1, RestsInvariance, PTL
=============================================================================
