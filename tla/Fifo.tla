-------------------------------- MODULE Fifo --------------------------------
(***************************************************************************)
(* What a queue of util.cxx promises its callers: between create and free  *)
(* it is a first-in first-out sequence of data pointers.  dequeue and      *)
(* front may only be called on a non-empty queue (the code checks neither  *)
(* in dequeue; its callers loop on `while (!ixut_cycqueue_empty(q))`).     *)
(***************************************************************************)
EXTENDS Sequences

CONSTANTS Data,     \* the values callers enqueue (void * in the code)
          NoData    \* "no value was returned"

VARIABLES live,     \* TRUE from create to free
          q,        \* the queued values, oldest first
          ret       \* what the last operation returned

fifoVars == <<live, q, ret>>

Init == live = FALSE /\ q = <<>> /\ ret = NoData

Create ==
  /\ ~live
  /\ live' = TRUE /\ q' = <<>> /\ ret' = NoData

Enqueue(d) ==
  /\ live
  /\ q' = Append(q, d)
  /\ ret' = NoData /\ UNCHANGED live

Dequeue ==
  /\ live /\ q # <<>>
  /\ q' = Tail(q) /\ ret' = Head(q)
  /\ UNCHANGED live

Front ==
  /\ live /\ q # <<>>
  /\ ret' = Head(q) /\ UNCHANGED <<live, q>>

Free ==
  /\ live
  /\ live' = FALSE /\ q' = <<>> /\ ret' = NoData

Next == Create \/ (\E d \in Data : Enqueue(d)) \/ Dequeue \/ Front \/ Free

Spec == Init /\ [][Next]_fifoVars
=============================================================================
