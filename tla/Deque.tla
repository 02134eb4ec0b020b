------------------------------- MODULE Deque --------------------------------
(***************************************************************************)
(* What the bounded containers promise: a sequence that takes items at     *)
(* both ends, gives them back from both ends and refuses what does not     *)
(* fit.  A queue is used at one end for each purpose, a stack at one end.  *)
(***************************************************************************)
EXTENDS Integers, Sequences

CONSTANTS
  Item,
  Capacity    \* how many items fit

VARIABLES
  items,      \* what is in it, the oldest first
  item,       \* what the last call has given out, if it could
  result      \* and whether it could: 0 or -1

vars == <<items, item, result>>

Init == items = <<>> /\ result = 0 /\ item \in Item

Full == Len(items) = Capacity

Refuse == result' = -1 /\ UNCHANGED <<items, item>>
Accept == result' = 0

PutLast(x) ==
  \/ Full /\ Refuse
  \/ ~Full /\ Accept /\ items' = Append(items, x) /\ UNCHANGED item

PutFirst(x) ==
  \/ Full /\ Refuse
  \/ ~Full /\ Accept /\ items' = <<x>> \o items /\ UNCHANGED item

TakeFirst ==
  \/ items = <<>> /\ Refuse
  \/ items # <<>> /\ Accept /\ item' = Head(items) /\ items' = Tail(items)

TakeLast ==
  \/ items = <<>> /\ Refuse
  \/ /\ items # <<>> /\ Accept
     /\ item' = items[Len(items)]
     /\ items' = SubSeq(items, 1, Len(items) - 1)

Look(i) ==
  \/ i \notin DOMAIN items /\ Refuse
  \/ i \in DOMAIN items /\ Accept /\ item' = items[i] /\ UNCHANGED items

Empty == items' = <<>> /\ UNCHANGED <<item, result>>

Next ==
  \/ \E x \in Item : PutLast(x) \/ PutFirst(x)
  \/ TakeFirst \/ TakeLast \/ Empty
  \/ \E i \in 1 .. Capacity : Look(i)

Spec == Init /\ [][Next]_vars
=============================================================================
