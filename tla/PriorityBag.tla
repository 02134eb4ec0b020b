---------------------------- MODULE PriorityBag ----------------------------
(***************************************************************************)
(* What a priority queue promises: an unordered collection that gives back *)
(* one of its most urgent members, a member for every node that was put    *)
(* into it and no other.  Smaller numbers are more urgent.  Nothing is     *)
(* said of the order among equals.                                         *)
(***************************************************************************)
EXTENDS Integers

CONSTANTS Item, Priority

Node == [data : Item, priority : Priority]

VARIABLE bag    \* how often each node is in the collection

Init == bag = [n \in Node |-> 0]

Put(n) == bag' = [bag EXCEPT ![n] = @ + 1]

Take(n) ==
  /\ bag[n] > 0
  /\ \A m \in Node : bag[m] > 0 => n.priority <= m.priority
  /\ bag' = [bag EXCEPT ![n] = @ - 1]

Next == \E n \in Node : Put(n) \/ Take(n)

Spec == Init /\ [][Next]_bag
=============================================================================
