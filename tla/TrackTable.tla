----------------------------- MODULE TrackTable -----------------------------
(***************************************************************************)
(* The entries of the array track: struct track_node and track_edge of     *)
(* user/include/track_node.h.  A node is named by its index in the array.  *)
(* An edge is left by the direction DIR_AHEAD = DIR_STRAIGHT = 0 or        *)
(* DIR_CURVED = 1.                                                         *)
(*                                                                         *)
(* A row of a table is <<kind, number, reverse, edge, ...>> with an edge   *)
(* for each direction, <<rn, rd, dest, mm>>, where rn and rd name the edge *)
(* of the other direction.  The number is that of the turnout, or the one  *)
(* in the name of an end of the track.                                     *)
(***************************************************************************)
EXTENDS Naturals, Sequences

Kind == [S |-> "SENSOR", B |-> "BRANCH", M |-> "MERGE", N |-> "ENTER", X |-> "EXIT"]

Edge(e) == [reverse |-> <<e[1], e[2]>>, dest |-> e[3], dist |-> e[4]]

\* A sensor is numbered by its index.  label is the number in the name of the node;
\* num is never set for the ends of the track, which leaves it 0.
Node(row, i) ==
  [type |-> Kind[row[1]],
   num |-> CASE row[1] = "S" -> i [] row[1] \in {"B", "M"} -> row[2] [] OTHER -> 0,
   label |-> IF row[1] = "S" THEN i ELSE row[2],
   reverse |-> row[3],
   edge |-> [d \in 0 .. Len(row) - 4 |-> Edge(row[d + 4])]]

Numbered(rows) == [i \in 0 .. Len(rows) - 1 |-> Node(rows[i + 1], i)]
=============================================================================
