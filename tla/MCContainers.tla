---------------------------- MODULE MCContainers ----------------------------
(***************************************************************************)
(* The containers of the kernel: a queue or stack in a circular array, or  *)
(* the heap, as the initial state picks.                                   *)
(***************************************************************************)
EXTENDS CircularBuffer

CONSTANTS Priority, HEAP_SIZE

VARIABLES setting, heap

Heap == INSTANCE PQueue

ASSUME SettingsAreLegal == CircularBufferAssumption /\ Heap!PQueueAssumption

\* With the heap the array does not matter, and is one of those that there are.
ContainersInit ==
  /\ Init /\ Heap!Init
  /\ \/ setting = "circle"
     \/ setting = "heap" /\ <<kind, buffer, item>> = CHOOSE c \in
          {"queue"} \X [0 .. Capacity - 1 -> Item] \X Item : TRUE

ContainersNext ==
  /\ UNCHANGED setting
  /\ \/ setting = "circle" /\ Next /\ UNCHANGED heap
     \/ setting = "heap" /\ Heap!Next /\ UNCHANGED vars

ContainersSpec == ContainersInit /\ [][ContainersNext]_<<setting, vars, heap>>

\* A most urgent entry is in front of the heap, and the circular array keeps its shape.
FrontIsMostUrgent == TypeOK /\ Heap!FrontIsMostUrgent

\* The heap loses no entry and gives none out twice.
ImplementsBag == Heap!ImplementsBag
=============================================================================
