------------------------------- MODULE Handoff -------------------------------
(***************************************************************************)
(* A place that holds one item: it is filled when empty and emptied when   *)
(* full, so that no item is overwritten before it is taken, or taken       *)
(* twice.  ShmTransfer implements it.                                      *)
(***************************************************************************)
EXTENDS Naturals, Sequences

CONSTANT Items      \* what may be handed over

VARIABLES put, taken    \* the items put and taken so far, in order

Init == put = <<>> /\ taken = <<>>

Put(v) ==
  /\ Len(put) = Len(taken)
  /\ put' = Append(put, v)
  /\ UNCHANGED taken

Take ==
  /\ Len(put) > Len(taken)
  /\ taken' = Append(taken, put[Len(taken) + 1])
  /\ UNCHANGED put

Next == (\E v \in Items : Put(v)) \/ Take

Spec == Init /\ [][Next]_<<put, taken>>
=============================================================================
