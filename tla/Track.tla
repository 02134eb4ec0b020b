------------------------------- MODULE Track -------------------------------
(***************************************************************************)
(* The class Track of user/src/track_data.cpp: what is read off the table  *)
(* of nodes.  A node is named by its index in the array track.  The search *)
(* for a path is in FindPath; what it promises, in the terms of the        *)
(* railway and not of the search, is here: CostTo.                         *)
(***************************************************************************)
EXTENDS Integers, Sequences, FiniteSets, TLC

CONSTANTS
  nodes,          \* the table: TrackANodes, TrackBNodes or a small one
  TrackId,        \* "A" or "B"
  REVERSE_COST    \* what turning round at the start is taken to cost, in mm

DIR_AHEAD == 0
DIR_STRAIGHT == 0
DIR_CURVED == 1

STRAIGHT == 0
CURVED == 1
UNINITIALIZED == 2

Index == DOMAIN nodes

Type(n) == nodes[n].type
Reverse(n) == nodes[n].reverse
Dest(n, dir) == nodes[n].edge[dir].dest
Dist(n, dir) == nodes[n].edge[dir].dist

\* How many edges leave a node of this kind.
EdgesOf(type) == CASE type = "BRANCH" -> 2
                   [] type \in {"SENSOR", "MERGE", "ENTER"} -> 1
                   [] OTHER -> 0
num_edges(n) == EdgesOf(Type(n))
Dirs(n) == 0 .. num_edges(n) - 1
-----------------------------------------------------------------------------
(* From the name or the number of a node to its place in the array.        *)

Name(n) == <<Type(n), nodes[n].label>>

\* The first entry of that name; none is not met for the names in use.
get_node_by_name(name) ==
  CHOOSE n \in Index : Name(n) = name /\ \A m \in 0 .. n - 1 : Name(m) # name

get_track_b_node_index(k) == CASE k = 7 -> 6 [] k = 9 -> 7 [] k = 10 -> 8 [] OTHER -> k

\* Mutant: the last four turnouts are taken for one place further down.
TurnoutNumberShifted(num) == IF num <= 18 THEN num ELSE num - 135

\* The place of turnout num and of end number k, as the search computes it.
TurnoutNumber(num) == IF num <= 18 THEN num ELSE num - 134
EndNumber(k) == IF TrackId = "B" THEN get_track_b_node_index(k) ELSE k

get_node_index(n) ==
  CASE Type(n) = "SENSOR" -> nodes[n].num
    [] Type(n) = "BRANCH" -> 80 + (TurnoutNumber(nodes[n].num) - 1) * 2
    [] Type(n) = "MERGE"  -> 81 + (TurnoutNumber(nodes[n].num) - 1) * 2
    [] Type(n) = "ENTER"  -> 124 + (EndNumber(nodes[n].label) - 1) * 2
    [] Type(n) = "EXIT"   -> 125 + (EndNumber(nodes[n].label) - 1) * 2

\* The place of a turnout in switch_settings.
get_switch_index(num) == IF num < 19 THEN num - 1 ELSE num - 153 + 18
NUM_SWITCHES == 22

\* Every node has an edge for each of its directions, to a node; the other side of
\* the other side is the node itself; and every turnout has its place.
TrackAssumption ==
  /\ IsFiniteSet(Index) /\ Index = 0 .. Cardinality(Index) - 1
  /\ TrackId \in {"A", "B"}
  /\ REVERSE_COST \in Nat
  /\ \A n \in Index :
       /\ nodes[n].reverse \in Index /\ nodes[nodes[n].reverse].reverse = n
       /\ DOMAIN nodes[n].edge = Dirs(n)
       /\ \A d \in Dirs(n) : nodes[n].edge[d].dest \in Index /\ nodes[n].edge[d].dist \in Nat
       /\ Type(n) = "BRANCH" => get_switch_index(nodes[n].num) \in 0 .. NUM_SWITCHES - 1
-----------------------------------------------------------------------------
(* The settings of the turnouts: 1 to 18 and 0x99 to 0x9C, all straight    *)
(* when the track is constructed.                                          *)

switch_nums == [i \in 0 .. NUM_SWITCHES - 1 |-> IF i < 18 THEN i + 1 ELSE i - 18 + 153]
InitialSettings == [i \in 0 .. NUM_SWITCHES - 1 |-> STRAIGHT]

\* The first entry with that number is set; a number that is not there is
\* ignored.  Anything but 'S' is curved.
set_switch_state(settings, num, dir) ==
  [i \in DOMAIN settings |-> IF switch_nums[i] = num THEN dir ELSE settings[i]]

\* Where a train that leaves node n comes to next.
NextAlong(settings, n) ==
  Dest(n, IF Type(n) = "BRANCH" THEN settings[get_switch_index(nodes[n].num)] ELSE DIR_AHEAD)
-----------------------------------------------------------------------------
(* What a search for a path promises.  A step of a train goes along an     *)
(* edge; at the start, and only there, it may also turn round.  It may     *)
(* leave a node, and end at one, only when that is not blocked.            *)

INFINITY == 2147483647

MinOf(S) == CHOOSE x \in S : \A y \in S : x <= y

\* A node of a path, with the setting it needs if it is a branch.
PathNode(n, sw) == [node |-> n, switch_state |-> sw]
PathNodes == [node : Index, switch_state : {STRAIGHT, CURVED, UNINITIALIZED}]

\* Every way to leave a node, and those that lead to n.
DirOf(p) == IF p.switch_state = UNINITIALIZED THEN DIR_AHEAD ELSE p.switch_state
Leavings ==
  UNION {{PathNode(m, sw) : sw \in IF Type(m) = "BRANCH" THEN Dirs(m) ELSE {UNINITIALIZED}} :
           m \in {k \in Index : num_edges(k) > 0}}
into == [n \in Index |-> {p \in Leavings : Dest(p.node, DirOf(p)) = n}]

\* What the open nodes offer: <<m, k>> when from one of them one comes to m at cost k.
Offers(cost, open) ==
  UNION {{<<Dest(n, d), cost[n] + Dist(n, d)>> : d \in Dirs(n)} : n \in open}
\* One round of offers: a node whose cost comes down is open, if it may be left, and
\* offers more in the next round.
NextRound(s, blocked) ==
  LET taken == {o \in Offers(s.cost, s.open) : o[2] < s.cost[o[1]]}
      down  == {o[1] : o \in taken}
  IN  [cost |-> [m \in Index |-> IF m \in down THEN MinOf({o[2] : o \in {p \in taken : p[1] = m}})
                                 ELSE s.cost[m]],
       open |-> down \ blocked, rounds |-> s.rounds - 1]

\* The least cost of being at each node, after as many rounds as a way can have edges.
Cost(start, blocked) ==
  LET settle[s \in [cost : [Index -> Nat], open : SUBSET Index, rounds : Nat]] ==
        IF s.open = {} \/ s.rounds = 0 THEN s.cost ELSE settle[NextRound(s, blocked)]
  IN  settle[[cost |-> [n \in Index |-> CASE n = start -> 0
                                          [] n = Reverse(start) -> REVERSE_COST
                                          [] OTHER -> INFINITY],
              open |-> {start, Reverse(start)} \ blocked, rounds |-> Cardinality(Index)]]

\* The cost of going from start to dest, where c is what Cost says; for
\* dest = start, once round.
CostGiven(c, start, dest, blocked) ==
  LET before == {p \in into[dest] : p.node \notin blocked /\ c[p.node] < INFINITY}
  IN  CASE dest \in blocked -> INFINITY
        [] dest \notin blocked /\ dest # start -> c[dest]
        [] OTHER -> MinOf({INFINITY} \cup {c[p.node] + Dist(p.node, DirOf(p)) : p \in before})

CostTo(start, dest, blocked) == CostGiven(Cost(start, blocked), start, dest, blocked)

\* Every cheapest path from start to dest round what is blocked.
PathsGiven(c, start, dest, blocked) ==
  LET \* How the node n, come to at cost k, may have been come to.
      Before(n, k) ==
        {p \in into[n] : p.node \notin blocked /\ c[p.node] < INFINITY
                           /\ c[p.node] + Dist(p.node, DirOf(p)) = k}
        \cup (IF n = Reverse(start) /\ k = REVERSE_COST THEN {PathNode(start, UNINITIALIZED)} ELSE {})
      \* The cheapest ways from the start to the node of p, p included, of k steps at
      \* most; none comes by a node twice.
      ways[k \in 0 .. Cardinality(Index)] ==
        [p \in PathNodes |->
           IF p.node = start THEN {<<p>>}
           ELSE IF k = 0 THEN {}
           ELSE {Append(w, p) : w \in UNION {ways[k - 1][q] : q \in Before(p.node, c[p.node])}}]
      goal == PathNode(dest, UNINITIALIZED)
      cost == CostGiven(c, start, dest, blocked)
  IN  IF cost = INFINITY THEN {}
      ELSE {Append(w, goal) : w \in UNION {ways[Cardinality(Index)][q] : q \in Before(dest, cost)}}

ShortestPaths(start, dest, blocked) ==
  UNION {PathsGiven(c, start, dest, blocked) : c \in {Cost(start, blocked)}}
=============================================================================
