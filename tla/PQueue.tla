------------------------------- MODULE PQueue -------------------------------
(***************************************************************************)
(* The binary heap of containers/pqueue.h, which the kernel uses as ready  *)
(* queue, the clock server as list of sleepers and the track as frontier   *)
(* of its path search.  heap[i] here is heap[i - 1] there, so that the     *)
(* parent of i is i \div 2.                                                *)
(***************************************************************************)
EXTENDS Integers, Sequences, FiniteSets

CONSTANTS
  Item,       \* what is queued
  Priority,   \* a set of numbers
  HEAP_SIZE   \* 100, also where the template parameter Capacity says otherwise

PQueueAssumption == Priority \subseteq Int /\ HEAP_SIZE \in Nat

Node == [data : Item, priority : Priority]

VARIABLE heap

-----------------------------------------------------------------------------
(* The algorithms.                                                         *)

Swap(h, i, j) == [h EXCEPT ![i] = h[j], ![j] = h[i]]

\* The two move from one node to the next, as long as there is one to swap it with.
Places == {at \in Seq(Node) \X Nat : at[2] \in DOMAIN at[1]}

heapifyUp[at \in Places] ==
  LET h == at[1]
      i == at[2]
      parent == i \div 2
  IN  IF i > 1 /\ h[i].priority < h[parent].priority
      THEN heapifyUp[<<Swap(h, i, parent), parent>>] ELSE h

\* Mutant: the right child is compared with the parent again.
HighestPriorityOfParent(h, i) ==
  LET left == 2 * i
      right == 2 * i + 1
  IN  IF right <= Len(h) /\ h[right].priority < h[i].priority THEN right
      ELSE IF left <= Len(h) /\ h[left].priority < h[i].priority THEN left ELSE i

\* The more urgent of i and its children, i before the left before the right.
HighestPriority(h, i) ==
  LET Beats(c, best) == IF c <= Len(h) /\ h[c].priority < h[best].priority THEN c ELSE best
  IN  Beats(2 * i + 1, Beats(2 * i, i))

heapifyDown[at \in Places] ==
  LET h == at[1]
      i == at[2]
      child == HighestPriority(h, i)
  IN  IF child = i THEN h ELSE heapifyDown[<<Swap(h, i, child), child>>]

Pushed(h, n) == heapifyUp[<<Append(h, n), Len(h) + 1>>]

\* Mutant: the last node is dropped and the first stays.
PoppedLast(h) == SubSeq(h, 1, Len(h) - 1)

\* The last node replaces the first and sinks.
Popped(h) ==
  LET rest == SubSeq(h, 1, Len(h) - 1) IN
  IF rest = <<>> THEN <<>> ELSE heapifyDown[<<[rest EXCEPT ![1] = h[Len(h)]], 1>>]

-----------------------------------------------------------------------------

Init == heap = <<>>

Push(n) == Len(heap) # HEAP_SIZE /\ heap' = Pushed(heap, n)

Pop == heap # <<>> /\ heap' = Popped(heap)

Next == (\E n \in Node : Push(n)) \/ Pop

Spec == Init /\ [][Next]_heap

-----------------------------------------------------------------------------

\* After every Push and Pop the most urgent node is at the front, where Pop and
\* Peek take it: the swaps on the way up and down miss no pair that matters.
FrontIsMostUrgent == \A i \in DOMAIN heap : heap[1].priority <= heap[i].priority

\* The heap is a collection that returns a most urgent member: it loses none,
\* and duplicates none, while it moves them about.
Bag == INSTANCE PriorityBag WITH
  bag <- [n \in Node |-> Cardinality({i \in DOMAIN heap : heap[i] = n})]

ImplementsBag == Bag!Spec
=============================================================================
