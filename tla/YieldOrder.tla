----------------------------- MODULE YieldOrder -----------------------------
(***************************************************************************)
(* The ready queue as the heap it is: tasks of one priority that do        *)
(* nothing but yield.  Kernel leaves the order among equals open; here it  *)
(* is the one that PQueue produces.  A timer interrupt puts the running    *)
(* task back in the same way as Yield does.                                *)
(***************************************************************************)
EXTENDS Integers, Sequences

CONSTANTS
  Task,      \* the tids of the tasks, created in increasing order
  NoTask

VARIABLES readyQueue, running

vars == <<readyQueue, running>>

PQ == INSTANCE PQueue WITH Item <- Task, Priority <- {0}, HEAP_SIZE <- 100, heap <- readyQueue

NodeOf(t) == [data |-> t, priority |-> 0]

Init ==
  /\ \E created \in [1 .. 3 -> Task] :
       /\ \A i, j \in 1 .. 3 : i < j => created[i] < created[j]
       /\ readyQueue = [i \in 1 .. 3 |-> NodeOf(created[i])]
  /\ running = NoTask

\* Kernel::Scheduler
Dispatch ==
  /\ running = NoTask
  /\ readyQueue # <<>>
  /\ running' = readyQueue[1].data
  /\ readyQueue' = PQ!Popped(readyQueue)

\* Kernel::Yield
Yield ==
  /\ running # NoTask
  /\ readyQueue' = PQ!Pushed(readyQueue, NodeOf(running))
  /\ running' = NoTask

Next == Dispatch \/ Yield

\* Every task keeps yielding and the kernel keeps dispatching.
Spec == Init /\ [][Next]_vars /\ WF_vars(Next)

\* "The task is moved to the end of its priority queue, and will resume
\* executing when next scheduled" (kernel.cpp 180): so tasks of one priority
\* take turns.
TasksTakeTurns == \A t \in Task : []<>(running = t)
=============================================================================
