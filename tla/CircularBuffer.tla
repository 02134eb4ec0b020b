--------------------------- MODULE CircularBuffer ---------------------------
(***************************************************************************)
(* The containers of fixed size of containers/queue.h, ringbuffer.h and    *)
(* stack.h, each an array used in a circle.  The kernel keeps free tids,   *)
(* inboxes and event queues in them, the servers characters, commands and  *)
(* waiting tasks, the conductor paths and reservations.                    *)
(*                                                                         *)
(* A RingBuffer is a queue that is also read in the middle (Get).  A stack *)
(* has no tail; here it stays 0.                                           *)
(***************************************************************************)
EXTENDS Integers, Sequences

CONSTANTS Item, Capacity

CircularBufferAssumption == Capacity \in Nat \ {0}

VARIABLES
  kind,         \* "queue" or "stack"
  buffer, size, head, tail,
  item,         \* what the last call has written to its argument
  result        \* what it returned

places == <<buffer, size, head, tail>>
vars   == <<kind, places, item, result>>

\* The array is not initialised.
Init ==
  /\ kind \in {"queue", "stack"}
  /\ buffer \in [0 .. Capacity - 1 -> Item]
  /\ size = 0 /\ head = 0 /\ tail = 0
  /\ item \in Item /\ result = 0

Fail == result' = -1 /\ UNCHANGED <<places, item>>

Push(x) ==
  /\ UNCHANGED kind
  /\ \/ size = Capacity /\ Fail
     \/ /\ size # Capacity
        /\ buffer' = [buffer EXCEPT ![head] = x]
        /\ head' = (head + 1) % Capacity
        /\ size' = size + 1 /\ result' = 0
        /\ UNCHANGED <<tail, item>>

\* Mutant: the item is written before the index is moved.
PushFrontTooEarly(x) ==
  /\ UNCHANGED kind
  /\ kind = "queue"
  /\ \/ size = Capacity /\ Fail
     \/ /\ size # Capacity
        /\ tail' = (tail + Capacity - 1) % Capacity
        /\ buffer' = [buffer EXCEPT ![tail] = x]
        /\ size' = size + 1 /\ result' = 0
        /\ UNCHANGED <<head, item>>

PushFront(x) ==
  /\ UNCHANGED kind
  /\ kind = "queue"
  /\ \/ size = Capacity /\ Fail
     \/ /\ size # Capacity
        /\ tail' = (tail + Capacity - 1) % Capacity
        /\ buffer' = [buffer EXCEPT ![tail'] = x]
        /\ size' = size + 1 /\ result' = 0
        /\ UNCHANGED <<head, item>>

PopQueue ==
  /\ UNCHANGED kind
  /\ kind = "queue"
  /\ \/ size = 0 /\ Fail
     \/ /\ size # 0
        /\ item' = buffer[tail]
        /\ tail' = (tail + 1) % Capacity
        /\ size' = size - 1 /\ result' = 0
        /\ UNCHANGED <<buffer, head>>

PopStack ==
  /\ UNCHANGED kind
  /\ kind = "stack"
  /\ \/ size = 0 /\ Fail
     \/ /\ size # 0
        /\ head' = (head + Capacity - 1) % Capacity
        /\ item' = buffer[head']
        /\ size' = size - 1 /\ result' = 0
        /\ UNCHANGED <<buffer, tail>>

\* Peek is Get(0).
Get(index) ==
  /\ kind = "queue"
  /\ \/ index >= size /\ Fail
     \/ /\ index < size
        /\ item' = buffer[(tail + index) % Capacity]
        /\ result' = 0
        /\ UNCHANGED places
  /\ UNCHANGED kind

\* Everything is taken out; a queue begins at 0 again.
Clear ==
  /\ UNCHANGED kind
  /\ size' = 0
  /\ tail' = IF kind = "queue" THEN 0 ELSE tail
  /\ head' = IF kind = "queue" THEN 0 ELSE (head + Capacity - size) % Capacity
  /\ UNCHANGED <<buffer, item, result>>

\* A queue is printed by taking everything out and pushing it again, at the
\* places that come after it.  (A stack gets everything back at its old place.)
PrintQueue ==
  LET nth(p) == (p + Capacity - head) % Capacity    \* the one that goes to p
  IN  /\ kind = "queue"
      /\ buffer' = [p \in 0 .. Capacity - 1 |->
                      IF nth(p) < size THEN buffer[(tail + nth(p)) % Capacity] ELSE buffer[p]]
      /\ tail' = head
      /\ head' = (head + size) % Capacity
      /\ UNCHANGED <<kind, size, item, result>>

Next ==
  \/ \E x \in Item : Push(x) \/ PushFront(x)
  \/ PopQueue \/ PopStack \/ Clear \/ PrintQueue
  \/ \E index \in 0 .. Capacity - 1 : Get(index)

Spec == Init /\ [][Next]_vars

-----------------------------------------------------------------------------
(* Properties.                                                             *)

TypeOK ==
  /\ kind \in {"queue", "stack"}
  /\ buffer \in [0 .. Capacity - 1 -> Item]
  /\ size \in 0 .. Capacity
  /\ head \in 0 .. Capacity - 1 /\ tail \in 0 .. Capacity - 1
  /\ item \in Item /\ result \in {0, -1}

contents == [i \in 1 .. size |-> buffer[(tail + i - 1) % Capacity]]

Promise == INSTANCE Deque WITH items <- contents

\* Wherever in the circle it is, and however often it has gone round, the array
\* is the sequence that was put into it, and takes and gives at the right end.
ImplementsDeque == Promise!Spec
=============================================================================
