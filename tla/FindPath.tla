------------------------------ MODULE FindPath ------------------------------
(***************************************************************************)
(* Track::find_path of user/src/track_data.cpp: a shortest path first      *)
(* search over a heap, and the walk back from the destination that puts    *)
(* the path on a stack.  The conductor asks for a path of one train round  *)
(* what the other trains have reserved.                                    *)
(***************************************************************************)
EXTENDS Track

CONSTANTS
  Starts, Dests,    \* the sensors asked about
  Obstacles,        \* the sets of nodes that other trains may have reserved
  PQ_SIZE           \* how many entries the heap has room for: HEAP_SIZE

FindPathAssumption ==
  /\ TrackAssumption
  /\ Starts \subseteq Index /\ Dests \subseteq Index /\ Obstacles \subseteq SUBSET Index
  /\ \A s \in Starts : Type(s) = "SENSOR"
  /\ PQ_SIZE \in Nat \ {0}

\* The nodes that are no sensors and come right after one of S.
Beyond(S) == {m \in UNION {{Dest(n, d) : d \in Dirs(n)} : n \in S} : Type(m) # "SENSOR"}

\* What the search takes for granted of a table: an edge has a length, a branch leads to
\* two places, a sensor has another at its back and one edge at most that leads to it,
\* the next sensor is never more than 6 nodes away, and a way that comes by no node twice
\* is not too long for an int.
TableAssumption ==
  /\ \A n \in Index : \A d \in Dirs(n) :
       Dist(n, d) > 0 /\ (Cardinality(Index) + 1) * Dist(n, d) + REVERSE_COST < INFINITY
  /\ 0 < REVERSE_COST /\ REVERSE_COST < INFINITY
  /\ \A n \in Index : Type(n) = "BRANCH" => Dest(n, DIR_STRAIGHT) # Dest(n, DIR_CURVED)
  /\ \A n \in Index : Type(n) = "SENSOR" =>
       /\ Reverse(n) # n /\ Type(Reverse(n)) = "SENSOR"
       /\ \A p, q \in into[n] : p = q
  /\ \A n \in Index : Beyond(Beyond(Beyond(Beyond(Beyond(Beyond({n})))))) = {}

VARIABLES
  phase,            \* "search", "trace", "found" or "none"
  start, dest, blocked,   \* what was asked
  dist, prev, pq, start_iter,   \* the search; prev is -1 for none, pq in order of Push
  cur, prior, path, total_distance  \* the walk back; the head of path is the top of the stack

asked ==  <<start, dest, blocked>>
search == <<dist, prev, pq, start_iter>>
trace  == <<cur, prior, path, total_distance>>
findVars == <<phase, asked, search, trace>>

\* A full heap refuses an entry and nobody looks at the answer.
Pushed(q, n, priority) ==
  IF Len(q) = PQ_SIZE THEN q ELSE Append(q, [node |-> n, priority |-> priority])

\* The entries without the i-th.
Popped(q, i) == [j \in 1 .. Len(q) - 1 |-> IF j < i THEN q[j] ELSE q[j + 1]]

\* Mutant: the other side of the start does not know where it was come from.
InitForgetsTurn ==
  /\ phase = "search"
  /\ start \in Starts /\ dest \in Dests
  /\ blocked \in {o \in Obstacles : start \notin o}
  /\ LET s == get_node_index(start)
         r == get_node_index(Reverse(start))
     IN  /\ dist = [n \in Index |-> CASE n = s -> 0 [] n = r -> REVERSE_COST [] OTHER -> INFINITY]
         /\ prev = [n \in Index |-> -1]
         /\ pq = Pushed(Pushed(<<>>, s, 0), r, REVERSE_COST)
  /\ start_iter = TRUE
  /\ cur = -1 /\ prior = -1 /\ path = <<>> /\ total_distance = -1

\* The start and, at a price, the same place facing the other way.
FindInit ==
  /\ phase = "search"
  /\ start \in Starts /\ dest \in Dests
  /\ blocked \in {o \in Obstacles : start \notin o}
  /\ LET s == get_node_index(start)
         r == get_node_index(Reverse(start))
         d0 == [n \in Index |-> IF n = s THEN 0 ELSE INFINITY]
         q0 == Pushed(<<>>, s, 0)
     IN  IF d0[r] > REVERSE_COST
           THEN /\ dist = [d0 EXCEPT ![r] = REVERSE_COST]
                /\ prev = [n \in Index |-> IF n = r THEN s ELSE -1]
                /\ pq = Pushed(q0, r, REVERSE_COST)
           ELSE /\ dist = d0 /\ prev = [n \in Index |-> -1] /\ pq = q0
  /\ start_iter = TRUE
  /\ cur = -1 /\ prior = -1 /\ path = <<>> /\ total_distance = -1

\* Mutant: the edge back to the start is like any other.
RelaxedNoRoundTrip(s, n, dir) ==
  LET to == get_node_index(Dest(n, dir))
      d  == s.dist[n] + Dist(n, dir)
  IN  IF s.dist[to] > d
        THEN [dist |-> [s.dist EXCEPT ![to] = d], prev |-> [s.prev EXCEPT ![to] = n], pq |-> Pushed(s.pq, to, d)]
        ELSE s

\* Mutant: a node that was come to is not come to more cheaply.
RelaxedOnce(s, n, dir) ==
  LET to == get_node_index(Dest(n, dir))
      d  == s.dist[n] + Dist(n, dir)
  IN  IF s.dist[to] = INFINITY \/ (start = dest /\ Dest(n, dir) = start)
        THEN [dist |-> [s.dist EXCEPT ![to] = d], prev |-> [s.prev EXCEPT ![to] = n], pq |-> Pushed(s.pq, to, d)]
        ELSE s

\* One edge of the node taken from the heap.  An edge back to the start is
\* taken at any price when the start is also where the train is to go.
Relaxed(s, n, dir) ==
  LET to == get_node_index(Dest(n, dir))
      d  == s.dist[n] + Dist(n, dir)
  IN  IF s.dist[to] > d \/ (start = dest /\ Dest(n, dir) = start)
        THEN [dist |-> [s.dist EXCEPT ![to] = d],
              prev |-> [s.prev EXCEPT ![to] = n],
              pq   |-> Pushed(s.pq, to, d)]
        ELSE s

\* Mutant: a branch is put back into the heap with each of its edges.
AllRelaxedAgain(s, n) ==
  LET again == Relaxed(Relaxed(s, n, 0), n, 1) IN
  CASE num_edges(n) = 0 -> s
    [] num_edges(n) = 1 -> Relaxed(s, n, 0)
    [] num_edges(n) = 2 -> [again EXCEPT !.pq = Pushed(Pushed(@, n, s.dist[n]), n, s.dist[n])]

AllRelaxed(s, n) ==
  CASE num_edges(n) = 0 -> s
    [] num_edges(n) = 1 -> Relaxed(s, n, 0)
    [] num_edges(n) = 2 -> Relaxed(Relaxed(s, n, 0), n, 1)

\* What Pop may return: among equals the heap gives out any (PQueue implements PriorityBag).
Nearest == {i \in DOMAIN pq : \A j \in DOMAIN pq : pq[i].priority <= pq[j].priority}

\* Mutant: the entry of a node that another train has reserved is only looked at.
SkipWithoutPop(i) ==
  /\ pq[i].node \in blocked
  /\ UNCHANGED findVars

\* A node that another train has reserved is dropped.
Skip(i) ==
  /\ pq[i].node \in blocked
  /\ pq' = Popped(pq, i)
  /\ UNCHANGED <<phase, asked, dist, prev, start_iter, trace>>

Arrive(i) ==
  /\ pq[i].node \notin blocked /\ pq[i].node = dest /\ ~start_iter
  /\ pq' = Popped(pq, i)
  /\ phase' = "trace" /\ cur' = get_node_index(dest) /\ total_distance' = 0
  /\ UNCHANGED <<asked, dist, prev, start_iter, prior, path>>

Explore(i) ==
  /\ pq[i].node \notin blocked /\ (pq[i].node # dest \/ start_iter)
  /\ LET s == AllRelaxed([dist |-> dist, prev |-> prev, pq |-> Popped(pq, i)], pq[i].node)
     IN  dist' = s.dist /\ prev' = s.prev /\ pq' = s.pq
  /\ start_iter' = FALSE
  /\ UNCHANGED <<phase, asked, trace>>

Search == /\ phase = "search"
          /\ \E i \in Nearest : Skip(i) \/ Arrive(i) \/ Explore(i)

GiveUp == /\ phase = "search" /\ pq = <<>>
          /\ phase' = "none"
          /\ UNCHANGED <<asked, search, trace>>
-----------------------------------------------------------------------------
(* The walk back along prev.                                               *)

\* Mutant: every branch of a path is left straight on.
BranchDirStraight(n) == DIR_STRAIGHT

\* The direction in which a node of the path is left for the one after it.
BranchDir(n) == IF Dest(n, DIR_STRAIGHT) = prior THEN DIR_STRAIGHT ELSE DIR_CURVED

EdgeLength(n, dir) == IF dir \in Dirs(n) THEN Dist(n, dir) ELSE 0

\* The start of the path, which ends the walk.
TraceStart ==
  /\ phase = "trace" /\ cur = start /\ path # <<>>
  /\ path' = <<PathNode(cur, UNINITIALIZED)>> \o path
  /\ total_distance' = total_distance + EdgeLength(cur, DIR_AHEAD)
  /\ phase' = "found"
  /\ UNCHANGED <<asked, search, cur, prior>>

\* On to node n; where no node was come from the walk ends with the path it has.
WalkOn(n) == cur' = n /\ phase' = IF n >= 0 THEN "trace" ELSE "found"

\* Mutant: the length of a branch is that of its straight edge.
TraceBranchStraight ==
  /\ phase = "trace" /\ (cur # start \/ path = <<>>) /\ cur >= 0
  /\ Type(cur) = "BRANCH" /\ prior >= 0
  /\ path' = <<PathNode(cur, BranchDir(cur))>> \o path
  /\ total_distance' = total_distance + Dist(cur, DIR_STRAIGHT)
  /\ prior' = cur /\ WalkOn(prev[cur])
  /\ UNCHANGED <<asked, search>>

TraceBranch ==
  /\ phase = "trace" /\ (cur # start \/ path = <<>>) /\ cur >= 0
  /\ Type(cur) = "BRANCH" /\ prior >= 0
  /\ path' = <<PathNode(cur, BranchDir(cur))>> \o path
  /\ total_distance' = total_distance + Dist(cur, BranchDir(cur))
  /\ prior' = cur /\ WalkOn(prev[cur])
  /\ UNCHANGED <<asked, search>>

\* Mutant: the walk back does not end at the start.
TraceOtherOn ==
  /\ phase = "trace" /\ cur >= 0
  /\ Type(cur) # "BRANCH" \/ prior < 0
  /\ path' = <<PathNode(cur, UNINITIALIZED)>> \o path
  /\ total_distance' =
       total_distance + (IF path = <<>> THEN 0 ELSE EdgeLength(cur, DIR_AHEAD))
  /\ prior' = cur /\ WalkOn(prev[cur])
  /\ UNCHANGED <<asked, search>>

\* The last node of the path has nothing after it and counts no length.
TraceOther ==
  /\ phase = "trace" /\ (cur # start \/ path = <<>>) /\ cur >= 0
  /\ Type(cur) # "BRANCH" \/ prior < 0
  /\ path' = <<PathNode(cur, UNINITIALIZED)>> \o path
  /\ total_distance' =
       total_distance + (IF path = <<>> THEN 0 ELSE EdgeLength(cur, DIR_AHEAD))
  /\ prior' = cur /\ WalkOn(prev[cur])
  /\ UNCHANGED <<asked, search>>

FindNext == Search \/ GiveUp \/ TraceStart \/ TraceBranch \/ TraceOther

FindSpec == FindInit /\ [][FindNext]_findVars /\ WF_findVars(FindNext)
-----------------------------------------------------------------------------
(* Properties.                                                             *)

FindTypeOK ==
  /\ phase \in {"search", "trace", "found", "none"}
  /\ dist \in [Index -> Nat] /\ prev \in [Index -> Index \cup {-1}]
  /\ pq \in Seq([node : Index, priority : Nat])
  /\ start_iter \in BOOLEAN
  /\ cur \in Index \cup {-1} /\ prior \in Index \cup {-1}
  /\ path \in Seq(PathNodes)
  /\ total_distance \in Nat \cup {-1}
  /\ total_distance = -1 <=> phase \in {"search", "none"}

\* The heap is never full when a node is put into it (the result of Push is
\* ignored, so a node that does not fit would be lost, and with it the path).
NothingDropped == Len(pq) < PQ_SIZE

\* The place the search computes for a node is where the table has it: the
\* numbers of the turnouts 153 to 156 and, on track B, of the ends 7, 9 and 10
\* are bent so that this is so.
IndexIsPlace == \A n \in Index : get_node_index(n) = n

\* The search finds a path exactly when there is one round the nodes that
\* other trains have reserved.
FoundIfThereIsOne ==
  /\ phase = "found" => CostTo(start, dest, blocked) < INFINITY
  /\ phase = "none"  => CostTo(start, dest, blocked) = INFINITY

\* The path is one of the cheapest there are, counting REVERSE_COST for
\* turning round at the start.
PathIsShortest == phase = "found" => path \in ShortestPaths(start, dest, blocked)

\* A path is found exactly when there is one, and none is cheaper.
ShortestIfThereIsOne == FoundIfThereIsOne /\ PathIsShortest

\* How a train gets from the i-th node of the path to the next.
Follows(i) ==
  LET n == path[i].node  m == path[i + 1].node IN
    \/ Type(n) = "BRANCH" /\ path[i].switch_state \in Dirs(n) /\ Dest(n, path[i].switch_state) = m
    \/ Type(n) # "BRANCH" /\ DIR_AHEAD \in Dirs(n) /\ Dest(n, DIR_AHEAD) = m
    \/ i = 1 /\ m = Reverse(n)

\* A path that is found leads from the start to the destination along the
\* track, each branch with the setting that leads to the next node, and it
\* touches no node that another train has reserved.
LeadsToDest ==
  phase = "found" =>
    /\ path # <<>> /\ path[1].node = start /\ path[Len(path)].node = dest
    /\ \A i \in 1 .. Len(path) - 1 : Follows(i)
    /\ \A i \in 1 .. Len(path) : path[i].node \notin blocked

\* From one sensor of a path to the next, that one included, there are no more nodes
\* than the 6 for which Conductor::ReservePath has room.
StretchesAreShort ==
  phase = "found" =>
    \A i \in 1 .. Len(path) - 6 : \E j \in i + 1 .. i + 6 : Type(path[j].node) = "SENSOR"

\* No node comes onto the path twice, but for the start of a round trip: the
\* walk back along prev has no circle in it.
NoNodeTwice ==
  \A i, j \in 1 .. Len(path) :
     i < j /\ path[i].node = path[j].node => i = 1 /\ j = Len(path) /\ start = dest

StepLength(i) ==
  IF Type(path[i].node) = "BRANCH" THEN Dist(path[i].node, path[i].switch_state)
  ELSE EdgeLength(path[i].node, DIR_AHEAD)

TurnsRound == Len(path) > 1 /\ path[2].node = Reverse(start) /\ Dest(start, DIR_AHEAD) # Reverse(start)

\* How far it is to the end of the path from each of its nodes, and from the start of it.
ToTheEnd == LET left[i \in 1 .. Len(path)] ==
                  IF i = Len(path) THEN 0 ELSE StepLength(i) + left[i + 1]
            IN  left
Driven == ToTheEnd[1] - (IF TurnsRound THEN StepLength(1) ELSE 0)

\* Without a turn at the start the total is the distance from start to end.
TotalWithoutTurning == phase = "found" /\ ~TurnsRound => total_distance = Driven

\* A train can drive the path that is found without coming to a node twice, the conductor
\* has room for each stretch of it, and unless it turns at the start the total is its length.
PathCanBeDriven == LeadsToDest /\ StretchesAreShort /\ NoNodeTwice /\ TotalWithoutTurning

\* The search comes to an answer.
Answers == <>(phase \in {"found", "none"})
=============================================================================
