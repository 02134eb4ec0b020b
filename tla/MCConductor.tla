---------------------------- MODULE MCConductor ----------------------------
EXTENDS Conductor

LOCAL INSTANCE TrackTable
LOCAL TA == INSTANCE TrackA

(***************************************************************************)
(* The conductor on track A, and beside it on two sidings, W1 and W2, that *)
(* join into a single line to the east:                                    *)
(*                                                                         *)
(*   0/1 a ---\                                                            *)
(*             4/5 turnout 1 --- 6/7 c --- 8/9 d --- 10/11 e                *)
(*   2/3 b ---/                                                            *)
(*                                                                         *)
(* Even nodes face east.  12 to 17 are the ends of the three lines.  In    *)
(* the table these nodes follow those of track A.                          *)
(***************************************************************************)
Wye ==
  Numbered(<<
    <<"S", 0, 1, <<5, 0, 4, 200>>>>, <<"S", 0, 0, <<13, 0, 12, 50>>>>,
    <<"S", 0, 3, <<5, 1, 4, 220>>>>, <<"S", 0, 2, <<15, 0, 14, 50>>>>,
    <<"M", 1, 5, <<7, 0, 6, 100>>>>, <<"B", 1, 4, <<0, 0, 1, 200>>, <<2, 0, 3, 220>>>>,
    <<"S", 0, 7, <<9, 0, 8, 300>>>>, <<"S", 0, 6, <<4, 0, 5, 100>>>>,
    <<"S", 0, 9, <<11, 0, 10, 300>>>>, <<"S", 0, 8, <<6, 0, 7, 300>>>>,
    <<"S", 0, 11, <<17, 0, 16, 50>>>>, <<"S", 0, 10, <<8, 0, 9, 300>>>>,
    <<"X", 1, 13>>, <<"N", 1, 12, <<1, 0, 0, 50>>>>, <<"X", 2, 15>>, <<"N", 2, 14, <<3, 0, 2, 50>>>>,
    <<"X", 3, 17>>, <<"N", 3, 16, <<10, 0, 11, 50>>>> >>)

SizeOfA == 144
W(n) == SizeOfA + n

TrackAAndWye ==
  [i \in {W(n) : n \in DOMAIN Wye} |->
     [Wye[i - SizeOfA] EXCEPT !.reverse = W(@), !.edge = [d \in DOMAIN @ |-> [@[d] EXCEPT !.dest = W(@)]]]]
  @@ TA!TrackANodes

MCTrains == <<58, 77>>
-----------------------------------------------------------------------------
(* What surrounds the conductor: one train that is sent to and fro by a    *)
(* careful operator while sensors may fail to report; two trains that are, *)
(* from the sidings, from a siding and the single line, and on track A;    *)
(* one train and any two commands whatever; two trains sent anywhere at    *)
(* any time; and the demonstration of each of the three trains, in which   *)
(* two sensors may fail to report.  The trains of the demonstration are    *)
(* spawned at B7, B11 and B9 and drive to SENSOR_IDS_0, _1 and _2; the     *)
(* conductor knows them by their numbers only to find the list.            *)
(* Two trains may be ordered by the place of each other and to face each   *)
(* other on one edge.  Those of track A stand at E5 and E7, whose lines    *)
(* join before a turnout, and may be ordered to E10 and E12 on both sides  *)
(* of it and round to E7: what Careful rules out is in reach of them.      *)

Nowhere == (58 :> <<>>) @@ (77 :> <<>>)

One == [trains |-> {77}, home |-> (58 :> W(2)) @@ (77 :> W(0)), dests |-> {W(8), W(10), W(1), W(3)},
        demo |-> Nowhere, turnouts |-> {}, orders |-> {"GOTO"}, commands |-> 4, missed |-> 2, careful |-> TRUE]
Two == [One EXCEPT !.trains = {58, 77}, !.home = (58 :> W(0)) @@ (77 :> W(2)),
                   !.dests = {W(3), W(7), W(8), W(11)}, !.commands = 3, !.missed = 0]
Met == [Two EXCEPT !.home = (58 :> W(0)) @@ (77 :> W(8)), !.dests = {W(3), W(8), W(10), W(11)}]
OnA == [Two EXCEPT !.home = (58 :> 68) @@ (77 :> 70), !.dests = {73, 75, 70}, !.commands = 2]
AnyCommand == [One EXCEPT !.dests = {W(8), W(1), W(3)}, !.demo = (77 :> <<W(8), W(1), W(10), W(3)>>) @@ @,
                   !.turnouts = {W(5)}, !.commands = 2, !.missed = 0, !.careful = FALSE,
                   !.orders = {"GOTO", "SET_SWITCH", "ACCELERATE", "REVERSE", "STOP_ALL", "AUTO", "DEMO"}]
Hurry == [Two EXCEPT !.home = (58 :> W(0)) @@ (77 :> W(7)), !.dests = {W(1), W(3)}, !.commands = 3, !.careful = FALSE]

Demonstration(home, list) ==
  [One EXCEPT !.home = (77 :> home) @@ @, !.dests = {}, !.demo = (77 :> list) @@ @,
              !.orders = {"DEMO"}, !.commands = 1]

MCWorlds == {One, Two, Met, OnA, AnyCommand, Hurry,
             Demonstration(22, <<21, 49, 6, 66, 51, 56>>),
             Demonstration(26, <<13, 5, 13, 70>>),
             Demonstration(24, <<14, 20, 34, 79>>)}
=============================================================================
