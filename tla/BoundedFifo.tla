---------------------------- MODULE BoundedFifo ----------------------------
(***************************************************************************)
(* A first-in first-out buffer of at most Size items: what the feature     *)
(* queue promises of vectors and the DPA's rings of frames.  An item that  *)
(* finds it full is counted and lost, and never displaces one inside.      *)
(***************************************************************************)
EXTENDS Integers, Sequences

CONSTANTS Items, Size

VARIABLES buffer, lost

vars == <<buffer, lost>>

Init == buffer = <<>> /\ lost = 0

Put(x) == /\ Len(buffer) < Size
          /\ buffer' = Append(buffer, x)
          /\ UNCHANGED lost

Lose == /\ Len(buffer) = Size
        /\ lost' = lost + 1
        /\ UNCHANGED buffer

Get == /\ buffer # <<>>
       /\ buffer' = Tail(buffer)
       /\ UNCHANGED lost

Next == (\E x \in Items : Put(x)) \/ Lose \/ Get

Spec == Init /\ [][Next]_vars
=============================================================================
