----------------------------- MODULE LossyQueue -----------------------------
(***************************************************************************)
(* What the path from the collect loop to the send loop promises: batches  *)
(* are numbered in the order they are put in, the ones still held are the  *)
(* consecutive numbers oldest..newest, never more than Capacity of them,   *)
(* and a batch leaves at the old end only, taken by the sender or lost to  *)
(* a newer one that found the queue full.                                  *)
(***************************************************************************)
EXTENDS Integers

CONSTANT Capacity

VARIABLES oldest, newest

Init == oldest = 1 /\ newest = 0

Put ==
  /\ newest' = newest + 1
  /\ oldest' = IF newest - oldest + 1 = Capacity THEN oldest + 1 ELSE oldest

Take ==
  /\ oldest <= newest
  /\ oldest' = oldest + 1
  /\ UNCHANGED newest

Next == Put \/ Take

Spec == Init /\ [][Next]_<<oldest, newest>>
=============================================================================
