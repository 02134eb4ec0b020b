----------------------------- MODULE Conductor -----------------------------
(***************************************************************************)
(* The class Conductor of user/src/conductor.cpp, which sends trains along *)
(* the track and keeps them apart by reserving nodes, with what stands     *)
(* round it: per train the sensor messenger, the command messenger and the *)
(* go messenger, the watch kept at the Marklin server, and the train.      *)
(*                                                                         *)
(* The conductor is a server: a request is handled to its end before the   *)
(* next is received, so a handler is one action, and so is the round of    *)
(* DispatchCommand that ends it.  Speeds, distances and the display are    *)
(* left out.  A turnout is thrown when the conductor asks for it.          *)
(***************************************************************************)
EXTENDS Integers, Sequences, FiniteSets, TLC

CONSTANTS
  track,         \* the table of nodes
  TrackId, REVERSE_COST,   \* as in Track
  Trains,        \* the trains in the order of train_arr
  QUEUE,         \* room in train_commands, 5
  Worlds         \* what surrounds the conductor: the trains on the track and the operator

INSTANCE Track WITH nodes <- track

TrainSet == {Trains[i] : i \in DOMAIN Trains}
NoTrain == -1
None == -1

ASSUME ConductorAssumption ==
  /\ TrackAssumption
  /\ Trains \in Seq(Nat)
  /\ QUEUE \in Nat \ {0}
  /\ Worlds \subseteq
       [trains : SUBSET TrainSet,             \* the trains on the track
        home : [TrainSet -> Index],           \* the sensor each is spawned at
        dests : SUBSET Index,                 \* where the operator sends them
        demo : [TrainSet -> Seq(Index)],      \* the sensors of each train's demonstration
        turnouts : SUBSET Index,              \* the branches he throws by hand
        orders : SUBSET {"GOTO", "SET_SWITCH", "ACCELERATE", "REVERSE", "STOP_ALL", "AUTO", "DEMO"},
        commands : Nat,                       \* bound on the operator's commands
        missed : Nat,                         \* bound on the sensors that fail to report
        careful : BOOLEAN]      \* he sends trains as Careful says
  /\ \A w \in Worlds : \A t \in TrainSet : Type(w.home[t]) = "SENSOR"

VARIABLES
  world,        \* one of Worlds; it stays the same
  con,          \* the conductor: train_arr, who_reserved_me and switch_settings
  halted,     \* the conductor has run into undefined behaviour or does not return
  sensor_messenger,   \* per train: "none", "coming", "conductor" or "marklin"
  watch,      \* per train: the sensors the Marklin server waits for
  trigger,    \* per train: the sensor whose trigger is on its way, or None
  command_messenger,  \* per train: "none", "coming", "conductor" or the command it carries
  go_messenger,       \* per train: "none", "train", "delay" or "coming"
  pos,        \* per train: the edge it is on, from the node passed last to the next
  running,    \* per train: whether it moves
  orders, missed      \* counters that the bounds apply to

conductor == <<con, halted>>
messengers == <<sensor_messenger, watch, trigger, command_messenger, go_messenger>>
railway == <<pos, running>>
vars == <<world, conductor, messengers, railway, orders, missed>>
-----------------------------------------------------------------------------
(* The reservations.                                                       *)

releaseNode(who, n) == [who EXCEPT ![n] = NoTrain, ![Reverse(n)] = NoTrain]
reserveNode(who, n, t) == [who EXCEPT ![n] = t, ![Reverse(n)] = t]

NodesIn(s) == {s[i].node : i \in DOMAIN s}
Both(N) == N \cup {Reverse(n) : n \in N}

Marks(who, N, t) == [n \in Index |-> IF n \in N THEN t ELSE who[n]]
Release(who, N) == Marks(who, Both(N), NoTrain)
Take(who, N, t) == Marks(who, Both(N), t)

\* The least and the greatest of a set of places in a sequence, or 0.
Least(S) == IF S = {} THEN 0 ELSE MinOf(S)
Greatest(S) == IF S = {} THEN 0 ELSE CHOOSE i \in S : \A j \in S : j <= i

\* The first place from k on where a sensor is, or 0.
SensorFrom(s, k) == Least({i \in k .. Len(s) : Type(s[i].node) = "SENSOR"})

\* How many nodes the path has before the first that another train has.
Clear(s, t) ==
  LET path == s.train[t].path
      taken == {i \in DOMAIN path : s.who[path[i].node] \notin {NoTrain, t}}
  IN  IF taken = {} THEN Len(path) ELSE MinOf(taken) - 1

\* The path is not free to its end: what ReservePath returns, negated.
Blocked(s, t) == Clear(s, t) < Len(s.train[t].path)

\* Of the first last nodes of the path those that are not the train's already.
Fresh(s, t, last) ==
  LET path == s.train[t].path
      upto[i \in 0 .. last] ==
        IF i = 0 THEN <<>>
        ELSE IF s.who[path[i].node] = t THEN upto[i - 1]
        ELSE Append(upto[i - 1], path[i])
  IN  upto[last]

\* Reserves the path so far, in whole stretches from sensor to sensor.
ReservePath(s, t) ==
  LET path == s.train[t].path
      last == Greatest({i \in 1 .. Clear(s, t) : Type(path[i].node) = "SENSOR"})
      fresh == Fresh(s, t, last)
  IN  [s EXCEPT !.train[t].reserved_nodes = @ \o fresh,
                !.train[t].isTrainBlocked = Blocked(s, t),
                !.who = Take(@, NodesIn(fresh), t)]

\* Mutant: without isReverseInPath.
ReleaseSegmentBothSides(s, t) ==
  LET r == s.train[t].reserved_nodes
      at == {i \in DOMAIN r : r[i].node = s.train[t].last_sensor}
      passed == IF at = {} THEN Len(r) ELSE MinOf(at) - 1
  IN  [s EXCEPT !.train[t].reserved_nodes = SubSeq(r, passed + 1, Len(r)),
                !.who = Release(@, NodesIn(SubSeq(r, 1, passed)))]

\* Gives back what lies before the sensor just passed.  A node whose other
\* direction is still to be driven over is kept.
ReleaseSegment(s, t) ==
  LET r == s.train[t].reserved_nodes
      at == {i \in DOMAIN r : r[i].node = s.train[t].last_sensor}
      passed == IF at = {} THEN Len(r) ELSE MinOf(at) - 1
      gone == {i \in 1 .. passed : \A j \in i + 1 .. Len(r) : r[j].node # Reverse(r[i].node)}
  IN  [s EXCEPT !.train[t].reserved_nodes = SubSeq(r, passed + 1, Len(r)),
                !.who = Release(@, {r[i].node : i \in gone})]

\* Mutant: the destination is given back as well.
ReleasePathWhole(s, t) ==
  [s EXCEPT !.train[t].reserved_nodes = <<>>,
            !.who = Release(@, NodesIn(s.train[t].reserved_nodes))]

\* The place where the train stands stays its own.
ReleasePath(s, t) ==
  LET dest == s.train[t].destination_node IN
    [s EXCEPT !.train[t].reserved_nodes = <<PathNode(dest, UNINITIALIZED)>>,
              !.who = reserveNode(Release(@, NodesIn(s.train[t].reserved_nodes)), dest, t)]
-----------------------------------------------------------------------------
(* The path: a stack whose top is the next sensor to be passed.            *)

setSwitch(s, num, dir) == [s EXCEPT !.setting = set_switch_state(@, num, dir)]

\* From the node after the top of a path to the last one before the next sensor.
Stretch(path) ==
  LET next == SensorFrom(path, 2) IN SubSeq(path, 2, IF next = 0 THEN Len(path) ELSE next - 1)

\* The last node of a stretch for turnout num; how it is to lie for the node at k.
LastFor(num, stretch) ==
  Greatest({k \in DOMAIN stretch : Type(stretch[k].node) = "BRANCH" /\ track[stretch[k].node].num = num})
LiesFor(stretch, k, now) ==
  CASE k = 0 -> now
    [] k # 0 -> IF stretch[k].switch_state = STRAIGHT THEN STRAIGHT ELSE CURVED

\* Throws the branches of a stretch.
Throw(s, stretch) ==
  [s EXCEPT !.setting =
     [i \in DOMAIN @ |-> LiesFor(stretch, LastFor(switch_nums[i], stretch), @[i])]]

\* Throws the branches between the top and the next sensor.
SwitchNextSegment(s, t) == Throw(s, Stretch(s.train[t].path))

\* Drops the top up to the next sensor; the last node is never dropped.
PopSegment(s, t) ==
  LET path == s.train[t].path
      next == SensorFrom(path, 2)
  IN  [s EXCEPT !.train[t].path = SubSeq(@, IF next = 0 THEN Len(path) ELSE next, Len(path))]

\* A full queue drops the command, and nobody looks at what Push returns.
PushCommand(s, t, cmd) ==
  IF Len(s.train[t].train_commands) = QUEUE THEN [s EXCEPT !.dropped = TRUE]
  ELSE [s EXCEPT !.train[t].train_commands = Append(@, cmd)]
-----------------------------------------------------------------------------
(* GOTO.                                                                   *)

\* Mutant: the queue is emptied without giving the nodes back.
FreedKeepsMarks(s, t, dest) ==
  [s EXCEPT !.train[t].path = <<>>, !.train[t].reserved_nodes = <<>>,
            !.train[t].destination_node = dest]

\* The old path and its reservations are given up first.
Freed(s, t, dest) ==
  [s EXCEPT !.who = Release(@, NodesIn(s.train[t].reserved_nodes)),
            !.train[t].path = <<>>, !.train[t].reserved_nodes = <<>>,
            !.train[t].destination_node = dest]

\* A path round what the others have, or failing that any path.
GotoPaths(s, t, dest) ==
  LET start == s.train[t].last_sensor
      others == {n \in Index : s.who[n] \notin {NoTrain, t}}
      Paths(blocked) == ShortestPaths(start, dest, blocked)
  IN  UNION {IF free # {} THEN free ELSE Paths({}) : free \in {Paths(b) : b \in {others}}}

\* What a GOTO can lead to; nothing, if there is no path.  To begin by turning
\* round is a command for the train.
GotoOutcomesOf(paths, s, t, dest) ==
  LET reserved == {ReservePath([Freed(s, t, dest) EXCEPT !.train[t].path = p], t) : p \in paths}
      popped == {PopSegment(x, t) : x \in {SwitchNextSegment(r, t) : r \in reserved}}
      Turns(x) == x.train[t].last_sensor = Reverse(x.train[t].path[1].node)
  IN  {SwitchNextSegment(IF Turns(x) THEN PushCommand(x, t, "REVERSE") ELSE x, t) : x \in popped}

GotoOutcomes(s, t, dest) == GotoOutcomesOf(GotoPaths(s, t, dest), s, t, dest)

\* GenerateAndSendNewCommand: destinations are drawn until one has a path.
NewCommandOutcomes(s, t) == UNION {GotoOutcomes(s, t, d) : d \in world.dests}

\* Mutant: the list is taken to be one shorter.
DemoOutcomesShort(s, t) ==
  LET k == s.train[t].command_index IN
    IF k >= Len(world.demo[t]) THEN {s}
    ELSE {[o EXCEPT !.train[t].command_index = k + 1] : o \in GotoOutcomes(s, t, world.demo[t][k])}

\* GenerateAndSendDemoCommand: the next of the list.  Without a path the same
\* destination is tried again, and again.
DemoOutcomes(s, t) ==
  LET k == s.train[t].command_index IN
    IF k > Len(world.demo[t]) THEN {s}
    ELSE {[o EXCEPT !.train[t].command_index = k + 1] : o \in GotoOutcomes(s, t, world.demo[t][k])}

\* The next order of a train that gives itself orders.
OwnOutcomes(s, t) ==
  IF s.train[t].auto_mode THEN NewCommandOutcomes(s, t)
  ELSE IF s.train[t].demo_mode THEN DemoOutcomes(s, t)
  ELSE {s}

OrderedOutcomes(s, t, dest) ==
  UNION {IF paths # {} THEN GotoOutcomesOf(paths, s, t, dest) ELSE OwnOutcomes(Freed(s, t, dest), t) :
           paths \in {GotoPaths(s, t, dest)}}

\* AUTO and DEMO put every train into the mode and give it its first order.
InMode(s, t, demo) == [s EXCEPT !.train[t].auto_mode = ~demo, !.train[t].demo_mode = demo]

ModeOutcomes(s, demo) ==
  LET upto[i \in 0 .. Len(Trains)] ==
        IF i = 0 THEN {s}
        ELSE UNION {IF o.train[Trains[i]].spawned
                      THEN OwnOutcomes(InMode(o, Trains[i], demo), Trains[i]) ELSE {o} :
                    o \in upto[i - 1]}
  IN  upto[Len(Trains)]

StopAllTrains(s) ==
  LET upto[i \in 0 .. Len(Trains)] ==
        IF i = 0 THEN s
        ELSE LET o == upto[i - 1]  t == Trains[i] IN
               IF ~o.train[t].spawned THEN o
               ELSE PushCommand([o EXCEPT !.train[t].auto_mode = FALSE, !.train[t].demo_mode = FALSE,
                                          !.train[t].isMoving = FALSE], t, "STOP")
  IN  upto[Len(Trains)]
-----------------------------------------------------------------------------
(* DispatchCommand: what follows every request, for one train after the    *)
(* other.                                                                  *)

\* The next two sensors of what is reserved, after the one passed last.
SensorAt(r, i) == IF i = 0 THEN None ELSE r[i].node
TwoFrom(r, i) == [first |-> SensorAt(r, i), second |-> IF i = 0 THEN None ELSE SensorAt(r, SensorFrom(r, i + 1))]
Listen(s, t) == LET r == s.train[t].reserved_nodes IN TwoFrom(r, SensorFrom(r, 2))

Retry(s, t) == IF s.train[t].isTrainBlocked THEN ReservePath(s, t) ELSE s

\* The messenger goes to wait for what l names.
Sent(x, t, l) ==
  LET waits == [x.s EXCEPT !.train[t].last_sent_sensor = l.first,
                           !.train[t].last_sent_sensor_safety = l.second,
                           !.train[t].isMoving = TRUE]
  IN  [x EXCEPT !.s = IF x.s.train[t].isMoving THEN waits ELSE PushCommand(waits, t, "ACCELERATE"),
                !.sensor[t] = FALSE,
                !.watch[t] = {l.first, l.second} \ {None}]

\* Mutant: always waits for two sensors, at the destination too.
SensorStepForInPairs(x, t, l) ==
  IF l.second # None /\ l.first # x.s.train[t].last_sent_sensor THEN Sent(x, t, l) ELSE x

\* What is done about the sensors in l: they are waited for, or, with nothing
\* reserved ahead of it, the train is stopped.
SensorStepFor(x, t, l) ==
  LET tr == x.s.train[t]
      go == /\ l.first # None /\ l.first # tr.last_sent_sensor
            /\ l.second # None \/ l.first = tr.destination_node
      stop == l.second = None /\ l.first # tr.destination_node /\ tr.isMoving
  IN  IF go THEN Sent(x, t, l)
      ELSE IF stop THEN [x EXCEPT !.s = PushCommand([@ EXCEPT !.train[t].isMoving = FALSE], t, "STOP")]
      ELSE x

\* x.sensor tells of each messenger whether the conductor may answer it.
SensorStep(x, t) ==
  IF ~x.sensor[t] \/ x.s.train[t].path = <<>> THEN x ELSE SensorStepFor(x, t, Listen(x.s, t))

CommandStep(x, t) ==
  LET q == x.s.train[t].train_commands IN
    IF x.command[t] # "conductor" \/ q = <<>> THEN x
    ELSE [x EXCEPT !.s.train[t].train_commands = Tail(@), !.command[t] = Head(q)]

\* The one outcome, as a set.
DispatchCommand(x) ==
  LET after[i \in 0 .. Len(Trains)] ==
        IF i = 0 THEN {x}
        ELSE LET t == Trains[i] IN
               UNION {IF ~y.s.train[t].spawned THEN {y}
                      ELSE {CommandStep(z, t) : z \in {SensorStep([y EXCEPT !.s = Retry(@, t)], t)}} :
                        y \in after[i - 1]}
  IN  after[Len(Trains)]

\* The handler has left the conductor in s; the messengers are as given.
Handled(s, sensor, command) ==
  \E x \in DispatchCommand([s |-> s, sensor |-> [t \in TrainSet |-> sensor[t] = "conductor"],
                             watch |-> watch, command |-> command]) :
    /\ con' = x.s
    /\ sensor_messenger' = [t \in TrainSet |->
         IF sensor[t] = "conductor" /\ ~x.sensor[t] THEN "marklin" ELSE sensor[t]]
    /\ watch' = x.watch
    /\ command_messenger' = x.command

\* None of the outcomes: the handler does not return.
HandledOneOf(outcomes, sensor, command) ==
  \E all \in {outcomes} :
    \/ /\ all = {}
       /\ halted' = TRUE
       /\ UNCHANGED <<con, sensor_messenger, watch, command_messenger>>
    \/ \E s \in all : Handled(s, sensor, command) /\ UNCHANGED halted
-----------------------------------------------------------------------------
(* The requests.                                                           *)

NewTrain ==
  [spawned |-> FALSE, last_sensor |-> None, last_sent_sensor |-> None,
   last_sent_sensor_safety |-> None, destination_node |-> None,
   path |-> <<>>, reserved_nodes |-> <<>>, train_commands |-> <<>>,
   isMoving |-> FALSE, isTrainBlocked |-> FALSE,
   auto_mode |-> FALSE, demo_mode |-> FALSE, command_index |-> 1]

Init ==
  /\ world \in Worlds
  /\ con = [train |-> [t \in TrainSet |-> NewTrain], who |-> [n \in Index |-> NoTrain],
            setting |-> InitialSettings, dropped |-> FALSE]
  /\ halted = FALSE
  /\ sensor_messenger = [t \in TrainSet |-> "none"]
  /\ watch = [t \in TrainSet |-> {}] /\ trigger = [t \in TrainSet |-> None]
  /\ command_messenger = [t \in TrainSet |-> "none"]
  /\ go_messenger = [t \in TrainSet |-> "none"]
  /\ pos = [t \in TrainSet |-> <<world.home[t], NextAlong(InitialSettings, world.home[t])>>]
  /\ running = [t \in TrainSet |-> FALSE]
  /\ orders = 0 /\ missed = 0

Spawned == {t \in TrainSet : con.train[t].spawned}

\* Nothing is reserved for the place where the train stands.
SPAWN_TRAIN(t) ==
  /\ ~halted /\ t \in world.trains \ Spawned
  /\ Handled([con EXCEPT !.train[t].spawned = TRUE, !.train[t].last_sensor = world.home[t]],
             [sensor_messenger EXCEPT ![t] = "coming"], [command_messenger EXCEPT ![t] = "coming"])
  /\ go_messenger' = [go_messenger EXCEPT ![t] = "train"]
  /\ UNCHANGED <<world, halted, trigger, railway, orders, missed>>

\* The operator sees on the screen whether a train has a path.
AtRest(t) == con.train[t].path = <<>>

\* A command typed by the operator.
Order(name) ==
  /\ ~halted /\ name \in world.orders /\ orders < world.commands
  /\ orders' = orders + 1
  /\ UNCHANGED <<world, trigger, go_messenger, railway, missed>>

\* Where the operator knows a train to be; the sensor, if it is one, that faces n from
\* the other end of the edge after it.
LastSeen(t) == IF t \in Spawned THEN con.train[t].last_sensor ELSE world.home[t]
Facing(n) == Reverse(NextAlong(con.setting, n))

\* Some node is on both, a turnout, and is to lie differently.
Disagree(p, q) ==
  \E i \in DOMAIN p, j \in DOMAIN q : p[i].node = q[j].node /\ p[i].switch_state # q[j].switch_state

\* What the conductor leaves to the operator.  A train is sent when it is at rest,
\* somewhere else, and there is a way; not to face a place where another train is or is
\* sent; not by the place of one that has nothing reserved, as a train has not that was
\* put on the track and not yet sent; and not over a turnout that another has yet to
\* pass the other way.
Careful(t, dest) ==
  LET others == world.trains \ {t}
      Ahead(u) == con.train[u].reserved_nodes \o con.train[u].path
      Safe(p) == \A u \in others : /\ con.who[LastSeen(u)] = u \/ LastSeen(u) \notin Both(NodesIn(p))
                                   /\ ~Disagree(p, Ahead(u))
  IN  /\ AtRest(t) /\ dest # LastSeen(t)
      /\ \A u \in others : Facing(dest) \notin {LastSeen(u), con.train[u].destination_node}
      /\ \E paths \in {GotoPaths(con, t, dest)} : paths # {} /\ \A p \in paths : Safe(p)

GOTO(t, dest) ==
  /\ t \in Spawned /\ Order("GOTO")
  /\ world.careful => Careful(t, dest)
  /\ HandledOneOf(OrderedOutcomes(con, t, dest), sensor_messenger, command_messenger)

SET_SWITCH(num, dir) ==
  /\ Order("SET_SWITCH")
  /\ HandledOneOf({setSwitch(con, num, dir)}, sensor_messenger, command_messenger)

\* The train is taken to move, whatever the speed.
ACCELERATE_TRAIN(t) ==
  /\ t \in Spawned /\ Order("ACCELERATE")
  /\ HandledOneOf({[PushCommand(con, t, "ACCELERATE") EXCEPT !.train[t].isMoving = TRUE]},
                  sensor_messenger, command_messenger)

REVERSE_TRAIN(t) ==
  /\ t \in Spawned /\ Order("REVERSE")
  /\ HandledOneOf({PushCommand(con, t, "REVERSE")}, sensor_messenger, command_messenger)

\* The case has no break and goes on into AUTO.
STOP_ALL ==
  /\ Order("STOP_ALL")
  /\ HandledOneOf(ModeOutcomes(StopAllTrains(con), FALSE), sensor_messenger, command_messenger)

AUTO ==
  /\ Order("AUTO")
  /\ HandledOneOf(ModeOutcomes(con, FALSE), sensor_messenger, command_messenger)

DEMO ==
  /\ Order("DEMO")
  /\ HandledOneOf(ModeOutcomes(con, TRUE), sensor_messenger, command_messenger)

GO_AGAIN(t) ==
  /\ ~halted /\ go_messenger[t] = "coming"
  /\ go_messenger' = [go_messenger EXCEPT ![t] = "train"]
  /\ HandledOneOf(OwnOutcomes(con, t), sensor_messenger, command_messenger)
  /\ UNCHANGED <<world, trigger, railway, orders, missed>>

GET_CMD(t) ==
  /\ ~halted /\ command_messenger[t] = "coming"
  /\ Handled(con, sensor_messenger, [command_messenger EXCEPT ![t] = "conductor"])
  /\ UNCHANGED <<world, halted, trigger, go_messenger, railway, orders, missed>>

GET_SENSOR(t) ==
  /\ ~halted /\ sensor_messenger[t] = "coming"
  /\ Handled(con, [sensor_messenger EXCEPT ![t] = "conductor"], command_messenger)
  /\ UNCHANGED <<world, halted, trigger, go_messenger, railway, orders, missed>>

\* The top of the path is done with; the turnouts of what follows are thrown.
NextStretch(s, t) == {SwitchNextSegment(x, t) : x \in {PopSegment(s, t)}}

\* Mutant: isMoving is not reset at the destination.
ApproachedMoving(s, t) ==
  LET tr == s.train[t]
      slow == PushCommand([s EXCEPT !.train[t].isMoving = TRUE], t, "ACCELERATE")
      near == IF tr.path[1].node = tr.destination_node THEN slow ELSE s
      arrived == [ReleasePath(near, t) EXCEPT !.train[t].path = <<>>,
                    !.train[t].train_commands = <<IF tr.auto_mode \/ tr.demo_mode THEN "STOP_GO" ELSE "STOP">>]
  IN  IF near.train[t].isMoving /\ tr.last_sensor = tr.destination_node THEN arrived ELSE near

\* The last stretch is driven slowly; at the destination the train stops.
Approached(s, t) ==
  LET tr == s.train[t]
      slow == PushCommand([s EXCEPT !.train[t].isMoving = TRUE], t, "ACCELERATE")
      near == IF tr.path[1].node = tr.destination_node THEN slow ELSE s
      arrived == [ReleasePath(near, t) EXCEPT !.train[t].path = <<>>, !.train[t].isMoving = FALSE,
                    !.train[t].train_commands = <<IF tr.auto_mode \/ tr.demo_mode THEN "STOP_GO" ELSE "STOP">>]
  IN  IF near.train[t].isMoving /\ tr.last_sensor = tr.destination_node THEN arrived ELSE near

\* Mutant: a stretch is skipped whichever sensor it is.
ProcessSensorTriggerSkips(s, t, n) ==
  LET tr == s.train[t]
      there == {[x EXCEPT !.train[t].last_sensor = x.train[t].path[1].node] : x \in NextStretch(s, t)}
      advanced == {ReleaseSegment(x, t) : x \in UNION {NextStretch(y, t) : y \in there}}
  IN  IF n \notin {tr.last_sent_sensor, tr.last_sent_sensor_safety} THEN {s}
      ELSE IF tr.path = <<>> THEN {}
      ELSE {Approached(x, t) : x \in advanced}

\* Mutant: the second sensor is not expected.
ProcessSensorTriggerOne(s, t, n) ==
  LET tr == s.train[t]
      there == [s EXCEPT !.train[t].last_sensor = tr.path[1].node]
  IN  IF n # tr.last_sent_sensor THEN {s}
      ELSE IF tr.path = <<>> THEN {}
      ELSE {Approached(ReleaseSegment(x, t), t) : x \in NextStretch(there, t)}

\* The sensor that was expected, or the one after it: then a stretch is
\* skipped first.  With no path left the conductor reads what it never wrote.
ProcessSensorTrigger(s, t, n) ==
  LET tr == s.train[t]
      skipped == IF tr.last_sent_sensor_safety = n THEN NextStretch(s, t) ELSE {s}
      there == {[x EXCEPT !.train[t].last_sensor = x.train[t].path[1].node] : x \in skipped}
      advanced == {ReleaseSegment(x, t) : x \in UNION {NextStretch(y, t) : y \in there}}
  IN  IF n \notin {tr.last_sent_sensor, tr.last_sent_sensor_safety} THEN {s}
      ELSE IF tr.path = <<>> THEN {}
      ELSE {Approached(x, t) : x \in advanced}

SENSOR_TRIGGER(t) ==
  /\ ~halted /\ trigger[t] # None
  /\ trigger' = [trigger EXCEPT ![t] = None]
  /\ HandledOneOf(ProcessSensorTrigger(con, t, trigger[t]), sensor_messenger, command_messenger)
  /\ UNCHANGED <<world, go_messenger, railway, orders, missed>>
-----------------------------------------------------------------------------
(* The train tasks and the railway.                                        *)

Opposite(e) == <<Reverse(e[2]), Reverse(e[1])>>

Commands == {"ACCELERATE", "STOP", "STOP_GO", "REVERSE"}

\* The train task does as it is told.  To turn round it stops, waits, and goes
\* on at the old speed.
Execute(t) ==
  LET cmd == command_messenger[t] IN
    /\ cmd \in Commands
    /\ command_messenger' = [command_messenger EXCEPT ![t] = "coming"]
    /\ running' = [running EXCEPT ![t] = CASE cmd = "ACCELERATE" -> TRUE
                                            [] cmd = "REVERSE" -> @
                                            [] OTHER -> FALSE]
    /\ pos' = IF cmd = "REVERSE" THEN [pos EXCEPT ![t] = Opposite(@)] ELSE pos
    /\ go_messenger' = IF cmd = "STOP_GO" /\ go_messenger[t] = "train"
                         THEN [go_messenger EXCEPT ![t] = "delay"] ELSE go_messenger
    /\ UNCHANGED <<world, conductor, sensor_messenger, watch, trigger, orders, missed>>

\* The pause at a destination is over.
Rested(t) ==
  /\ go_messenger[t] = "delay"
  /\ go_messenger' = [go_messenger EXCEPT ![t] = "coming"]
  /\ UNCHANGED <<world, conductor, sensor_messenger, watch, trigger, command_messenger, railway, orders, missed>>

\* The software is quicker than a train is from one node to the next.
Quiet == \A t \in TrainSet : /\ trigger[t] = None
                             /\ sensor_messenger[t] # "coming"
                             /\ command_messenger[t] \in {"none", "conductor"}

CanMove(t) == running[t] /\ Quiet /\ ~halted /\ num_edges(pos[t][2]) > 0

\* Whoever waits for the sensor hears of it, whichever train it is.
Move(t) ==
  /\ CanMove(t)
  /\ LET n == pos[t][2]
         heard == {u \in TrainSet : n \in watch[u]}
     IN  /\ pos' = [pos EXCEPT ![t] = <<n, NextAlong(con.setting, n)>>]
         /\ trigger' = [u \in TrainSet |-> IF u \in heard THEN n ELSE trigger[u]]
         /\ watch' = [u \in TrainSet |-> IF u \in heard THEN {} ELSE watch[u]]
         /\ sensor_messenger' = [u \in TrainSet |-> IF u \in heard THEN "coming" ELSE sensor_messenger[u]]
  /\ UNCHANGED <<world, conductor, command_messenger, go_messenger, running, orders, missed>>

\* The sensor that is expected does not report; the one after it will.
Missed(t) ==
  /\ CanMove(t) /\ missed < world.missed
  /\ pos[t][2] = con.train[t].last_sent_sensor /\ watch[t] # {pos[t][2]}
  /\ pos' = [pos EXCEPT ![t] = <<@[2], NextAlong(con.setting, @[2])>>]
  /\ missed' = missed + 1
  /\ UNCHANGED <<world, conductor, messengers, running, orders>>

Software(t) ==
  \/ GO_AGAIN(t) \/ GET_CMD(t) \/ GET_SENSOR(t) \/ SENSOR_TRIGGER(t)
  \/ Execute(t) \/ Rested(t)

Next ==
  \/ \E t \in TrainSet : SPAWN_TRAIN(t) \/ Software(t) \/ Move(t) \/ Missed(t)
  \/ \E t \in TrainSet : (\E d \in world.dests : GOTO(t, d)) \/ ACCELERATE_TRAIN(t) \/ REVERSE_TRAIN(t)
  \/ \E n \in world.turnouts, dir \in {STRAIGHT, CURVED} : SET_SWITCH(track[n].num, dir)
  \/ STOP_ALL \/ AUTO \/ DEMO

\* Weak fairness of every step in Software, each of which is enabled by a value
\* that the step itself does away with: a request is received, a command obeyed
\* and a pause over at some time, unless the conductor does not go on.
SoftwareFairness(t) ==
  /\ []<>(halted \/ go_messenger[t] # "coming")
  /\ []<>(halted \/ command_messenger[t] # "coming")
  /\ []<>(halted \/ sensor_messenger[t] # "coming")
  /\ []<>(halted \/ trigger[t] = None)
  /\ []<>(command_messenger[t] \notin Commands)
  /\ []<>(go_messenger[t] # "delay")

Fairness == \A t \in TrainSet : SoftwareFairness(t) /\ WF_vars(Move(t))

Spec == Init /\ [][Next]_vars /\ Fairness
-----------------------------------------------------------------------------
(* Properties.                                                             *)

TrainRecords ==
  [spawned : BOOLEAN, last_sensor : Index \cup {None}, last_sent_sensor : Index \cup {None},
   last_sent_sensor_safety : Index \cup {None}, destination_node : Index \cup {None},
   path : Seq(PathNodes), reserved_nodes : Seq(PathNodes), train_commands : Seq(Commands),
   isMoving : BOOLEAN, isTrainBlocked : BOOLEAN,
   auto_mode : BOOLEAN, demo_mode : BOOLEAN, command_index : Nat \ {0}]

Conductors ==
  [train : [TrainSet -> TrainRecords], who : [Index -> TrainSet \cup {NoTrain}],
   setting : [0 .. NUM_SWITCHES - 1 -> {STRAIGHT, CURVED}], dropped : BOOLEAN]

TypeOK ==
  /\ world \in Worlds
  /\ con \in Conductors /\ halted \in BOOLEAN
  /\ \A t \in Spawned : con.train[t].last_sensor # None
  /\ \A t \in TrainSet : Len(con.train[t].train_commands) <= QUEUE
  /\ sensor_messenger \in [TrainSet -> {"none", "coming", "conductor", "marklin"}]
  /\ watch \in [TrainSet -> SUBSET Index] /\ trigger \in [TrainSet -> Index \cup {None}]
  /\ command_messenger \in [TrainSet -> Commands \cup {"none", "coming", "conductor"}]
  /\ go_messenger \in [TrainSet -> {"none", "train", "delay", "coming"}]
  /\ pos \in [TrainSet -> Index \X Index] /\ running \in [TrainSet -> BOOLEAN]

Marked(t) == {n \in Index : con.who[n] = t}
Queued(t) == Both(NodesIn(con.train[t].reserved_nodes))

\* A node that is marked with a train's number, or its other side, is in the queue of
\* what that train has reserved, whatever the operator does: out of no queue it
\* would never be given back, and be closed to all the others for ever.
MarksAreQueued == TypeOK /\ \A t \in TrainSet : Marked(t) \subseteq Queued(t)

\* What a train does that is told these commands while it runs, or stands.
After(q, runs) ==
  LET says == {i \in DOMAIN q : q[i] # "REVERSE"}
  IN  IF says = {} THEN runs ELSE q[CHOOSE i \in says : \A j \in says : j <= i] = "ACCELERATE"

\* What the commands still on their way will leave the train doing.
Carried(t) == IF command_messenger[t] \in Commands THEN <<command_messenger[t]>> ELSE <<>>
Eventually(t) == After(Carried(t) \o con.train[t].train_commands, running[t])

\* isMoving is what the train does once it has been told everything, unless a command
\* did not fit its queue: none is given without a note of it, and none is lost.
MovingIsKnown == ~con.dropped => \A t \in TrainSet : con.train[t].isMoving = Eventually(t)

\* As long as the operator is careful in each of the ways that Careful names, no two
\* trains are in one place, what a train has reserved is marked with its number, so that
\* no other is given it, and every command that it is to be stopped with fits the queue.
\* The conductor itself does not see to that care: a train just spawned has nothing
\* reserved, nobody reserves the edge on which a train comes to stand, a turnout is thrown
\* whoever is to pass it next, and a train sent to where it stands gives back a mark that
\* it still needs.
KeptApart ==
  world.careful =>
    /\ \A t, u \in world.trains : t # u => pos[t] \notin {pos[u], Opposite(pos[u])}
    /\ \A t \in TrainSet : Queued(t) \subseteq Marked(t)
    /\ ~con.dropped

\* A careful operator with one train, which waits for no other.
Alone(t) == world.careful /\ world.trains = {t}

\* When all is quiet a train that moves is watched for, or it would run on with nobody
\* to stop it, and one that has come to rest stands where the conductor believes
\* it to be.
WatchedAndKnown ==
  Quiet /\ ~halted => \A t \in Spawned : Alone(t) =>
     /\ con.train[t].isMoving => sensor_messenger[t] = "marklin"
     /\ AtRest(t) => pos[t][1] = con.train[t].last_sensor

DemoOver(t) == con.train[t].command_index > Len(world.demo[t]) /\ AtRest(t)

\* A train that has somewhere to go gets there; a demonstration is driven to its
\* end, one destination after the other.
Arrives ==
  \A t \in TrainSet :
    /\ Alone(t) /\ ~AtRest(t) ~> AtRest(t)
    /\ Alone(t) /\ con.train[t].demo_mode ~> DemoOver(t)
=============================================================================
