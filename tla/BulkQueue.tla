------------------------------ MODULE BulkQueue ------------------------------
(***************************************************************************)
(* What the bulk ring of usb_disp_udh_host.cpp promises to both cores: a   *)
(* bounded first-in first-out queue of bytes, of which a packet is always  *)
(* the oldest part.  A byte is its number in the order of acceptance.      *)
(* Bytes leave the queue in the packet that carried them, or all at once.  *)
(***************************************************************************)
EXTENDS Integers, Sequences

CONSTANTS Capacity, Mps

VARIABLES accepted, queue, packet

vars == <<accepted, queue, packet>>

Init == accepted = 0 /\ queue = <<>> /\ packet = <<>>

\* The producer appends the next n bytes.
Accept(n) ==
  /\ Len(queue) + n <= Capacity
  /\ accepted' = accepted + n
  /\ queue' = queue \o [i \in 1..n |-> accepted + i - 1]
  /\ UNCHANGED packet

\* The consumer takes a copy of the oldest n bytes.
Load(n) ==
  /\ packet = <<>> /\ n <= Len(queue)
  /\ packet' = SubSeq(queue, 1, n)
  /\ UNCHANGED <<accepted, queue>>

\* The copy was delivered: its bytes leave the queue.
Retire ==
  /\ packet # <<>>
  /\ queue' = SubSeq(queue, Len(packet) + 1, Len(queue))
  /\ packet' = <<>>
  /\ UNCHANGED accepted

\* The copy is thrown away, its bytes stay.
Unload == packet' = <<>> /\ UNCHANGED <<accepted, queue>>

\* Everything is thrown away.
Drop == queue' = <<>> /\ packet' = <<>> /\ UNCHANGED accepted

Next ==
  \/ \E n \in 1..Capacity : Accept(n)
  \/ \E n \in 1..Mps : Load(n)
  \/ Retire \/ Unload \/ Drop

Spec == Init /\ [][Next]_vars

=============================================================================
