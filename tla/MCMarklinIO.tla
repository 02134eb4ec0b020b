---------------------------- MODULE MCMarklinIO ----------------------------
(***************************************************************************)
(* The Marklin server in five worlds, one of which the initial state       *)
(* picks: clients that leave a switch alone until its notifier waits again *)
(* and a line that is slower than the notifier; clients and a line without *)
(* such restraint; one train that is watched, one that is watched again    *)
(* and again, and two.                                                     *)
(***************************************************************************)
EXTENDS MarklinIO

MCTrains == <<54, 77>>

Calm(cmds, pairs, places) ==
  [commands |-> cmds, pairs |-> pairs, sensors |-> places, touched |-> places, slow |-> TRUE, spaced |-> TRUE]

Pairs(m, n) == [t \in {54, 77} |-> IF t = 54 THEN m ELSE n]

MCWorlds ==
  { Calm(2, Pairs(0, 0), {}),
    [Calm(2, Pairs(0, 0), {}) EXCEPT !.slow = FALSE, !.spaced = FALSE],
    [Calm(0, Pairs(0, 1), {0, 1}) EXCEPT !.touched = {0}],
    Calm(0, Pairs(0, 3), {1}),
    Calm(0, Pairs(1, 1), {1}) }
=============================================================================
