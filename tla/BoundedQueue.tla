---------------------------- MODULE BoundedQueue ----------------------------
(***************************************************************************)
(* What QueueMemcpy promises its users: a first-in first-out queue of at   *)
(* most Total frames, in which nothing is lost, repeated or reordered.     *)
(***************************************************************************)
EXTENDS Naturals, Sequences

CONSTANTS Total, Frames

VARIABLE items

Init == items = <<>>

Put(f) == Len(items) < Total /\ items' = Append(items, f)

Take == items # <<>> /\ items' = Tail(items)

Next == Take \/ \E f \in Frames : Put(f)

Spec == Init /\ [][Next]_items
=============================================================================
