----------------------------- MODULE MCFindPath -----------------------------
(***************************************************************************)
(* The search on the two tables of the program.  On track A every sensor   *)
(* the demonstration drives to is asked about with every other, on track B *)
(* the last ones of its lists.  The obstacles are what a second train      *)
(* makes: what it holds reserved when it stands on a sensor or has a       *)
(* stretch of the loop reserved.                                           *)
(***************************************************************************)
EXTENDS Integers, Sequences

LOCAL TA == INSTANCE TrackA
LOCAL TB == INSTANCE TrackB

\* SENSOR_IDS_0 to SENSOR_IDS_2 of user/src/conductor.cpp: B6, D2, A7, E3, D4,
\* D9; A14, A6, E7; A15, B5, C3, E16.
DemoSensors == {21, 49, 6, 66, 51, 56, 13, 5, 70, 14, 20, 34, 79}
EndSensors == {14, 34, 79}

\* Nothing; C9 and C10; the turnouts 153 to 156; E7 and E8 with D7 and D8.
ObstaclesOfA == {{}, {40, 41}, 116 .. 123, {70, 71, 54, 55}}
ObstaclesOfB == {{}, {40, 41}, 116 .. 123}

VARIABLES
  table,        \* "A" or "B"
  phase, start, dest, blocked, dist, prev, pq, start_iter, cur, prior, path, total_distance

OnA == INSTANCE FindPath WITH
  nodes <- TA!TrackANodes, TrackId <- "A", REVERSE_COST <- 300, PQ_SIZE <- 100,
  Starts <- DemoSensors, Dests <- DemoSensors, Obstacles <- ObstaclesOfA

OnB == INSTANCE FindPath WITH
  nodes <- TB!TrackBNodes, TrackId <- "B", REVERSE_COST <- 300, PQ_SIZE <- 100,
  Starts <- DemoSensors, Dests <- EndSensors, Obstacles <- ObstaclesOfB

ASSUME TablesAreLegal == /\ OnA!FindPathAssumption /\ OnA!TableAssumption
                         /\ OnB!FindPathAssumption /\ OnB!TableAssumption

vars == <<table, OnA!findVars>>

Init == \/ table = "A" /\ OnA!FindInit
        \/ table = "B" /\ OnB!FindInit

Next == /\ UNCHANGED table
        /\ \/ table = "A" /\ OnA!FindNext
           \/ table = "B" /\ OnB!FindNext

Spec == Init /\ [][Next]_vars /\ WF_vars(Next)

\* The properties are those of FindPath, on both tables.

\* The heap has room for every node that is put into it, the node the search finds by
\* its name and number is the one in the table, and the search keeps its shape.
NothingDropped ==
  /\ table = "A" => OnA!IndexIsPlace /\ OnA!FindTypeOK /\ OnA!NothingDropped
  /\ table = "B" => OnB!IndexIsPlace /\ OnB!FindTypeOK /\ OnB!NothingDropped

\* A path is found exactly when there is one, and none is cheaper.
ShortestIfThereIsOne ==
  (table = "A" => OnA!ShortestIfThereIsOne) /\ (table = "B" => OnB!ShortestIfThereIsOne)

\* A train can drive it without coming to a node twice, the conductor has room for
\* each stretch of it, and unless it turns at the start the total is its length.
PathCanBeDriven ==
  (table = "A" => OnA!PathCanBeDriven) /\ (table = "B" => OnB!PathCanBeDriven)

\* The search comes to an answer.
Answers == OnA!Answers
=============================================================================
