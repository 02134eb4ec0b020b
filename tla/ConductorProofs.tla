-------------------------- MODULE ConductorProofs --------------------------
(***************************************************************************)
(* Theorems about Conductor for every track that is a track, any trains,   *)
(* any room for their commands and any world round it.  They are about its *)
(* books: the marks on the nodes, what each train has reserved, and what   *)
(* it is told.  A request is answered in one step, but by many operations  *)
(* one after the other, for one train or for all: Fine is what each of     *)
(* them keeps of the conductor's state, InOrder what each turn of          *)
(* DispatchCommand keeps, and IndInv what is left between two requests.    *)
(***************************************************************************)
EXTENDS Conductor, FiniteSetTheorems, SequenceTheorems, WellFoundedInduction, TLAPS

-----------------------------------------------------------------------------
(* Nodes, trains and numbers.                                              *)

LEMMA OtherSide ==
  ASSUME NEW n \in Index
  PROVE  Reverse(n) \in Index /\ Reverse(Reverse(n)) = n
BY ConductorAssumption DEF ConductorAssumption, TrackAssumption, Reverse

LEMMA NodeNumbers == Cardinality(Index) \in Nat /\ Index \subseteq Nat /\ ~(None \in Index)
<1>1. IsFiniteSet(Index) /\ Index = 0 .. Cardinality(Index) - 1
  BY ConductorAssumption DEF ConductorAssumption, TrackAssumption
<1>2. Cardinality(Index) \in Nat
  BY <1>1, FS_CardinalityType
<1> QED
  BY <1>1, <1>2 DEF None

LEMMA TrainNumbers == TrainSet \subseteq Nat /\ ~(NoTrain \in TrainSet)
<1>1. Trains \in Seq(Nat)
  BY ConductorAssumption DEF ConductorAssumption
<1> QED
  BY <1>1 DEF TrainSet, NoTrain

LEMMA ALeast ==
  ASSUME NEW S \in SUBSET Nat, S # {}
  PROVE  \E k \in S : \A n \in S : k <= n
<1> DEFINE less == {p \in Nat \X Nat : p[1] < p[2]}
<1>1. PICK k \in S : \A n \in S : ~(<<n, k>> \in less)
  <2>1. IsWellFoundedOn(less, Nat)
    BY NatLessThanWellFounded, Zenon DEF OpToRel
  <2> HIDE DEF less
  <2> QED
    BY <2>1, WFMin, Zenon
<1>2. ASSUME NEW n \in S PROVE k <= n
  <2>1. ~(<<n, k>> \in less) /\ n \in Nat /\ k \in Nat
    BY <1>1
  <2> QED
    BY <2>1
<1> QED
  BY <1>2

LEMMA AGreatest ==
  ASSUME NEW m \in Nat, NEW S \in SUBSET (1 .. m), S # {}
  PROVE  \E k \in S : \A j \in S : j <= k
<1> DEFINE U == {k \in Nat : \A j \in S : j <= k}
<1>1. m \in U /\ U \in SUBSET Nat
  OBVIOUS
<1>2. PICK k \in U : \A n \in U : k <= n
  <2> HIDE DEF U
  <2> QED BY <1>1, ALeast
<1>3. k \in S
  <2>1. PICK e \in S : e \in 1 .. m
    OBVIOUS
  <2>2. SUFFICES ASSUME ~(k \in S) PROVE FALSE
    OBVIOUS
  <2>3. k \in Nat /\ (\A j \in S : j <= k /\ j # k /\ j \in 1 .. m)
    BY <1>2, <2>2
  <2>4. k - 1 \in U
    BY <2>1, <2>3
  <2> QED
    BY <1>2, <2>3, <2>4
<1> QED
  BY <1>2, <1>3

-----------------------------------------------------------------------------
(* What a train does that is told one command after the other.             *)

LEMMA AfterOne ==
  ASSUME NEW q \in Seq(Commands), NEW c \in Commands, NEW r \in BOOLEAN
  PROVE  /\ c = "REVERSE" => After(Append(q, c), r) = After(q, r)
         /\ c # "REVERSE" => (After(Append(q, c), r) <=> c = "ACCELERATE")
<1> DEFINE S(s) == {i \in DOMAIN s : s[i] # "REVERSE"}
<1> DEFINE s == Append(q, c)
<1>1. /\ s \in Seq(Commands) /\ Len(s) = Len(q) + 1 /\ Len(q) \in Nat /\ s[Len(q) + 1] = c
      /\ \A i \in 1 .. Len(q) : s[i] = q[i]
      /\ DOMAIN s = 1 .. Len(q) + 1 /\ DOMAIN q = 1 .. Len(q)
  OBVIOUS
<1>2. CASE c = "REVERSE"
  <2>1. S(s) = S(q)
    BY <1>1, <1>2
  <2>2. \A i \in S(q) : s[i] = q[i]
    BY <1>1
  <2>3. CASE S(q) = {}
    BY <1>2, <2>1, <2>3 DEF After
  <2>4. CASE S(q) # {}
    <3>1. PICK m \in S(q) : \A j \in S(q) : j <= m
      <4>1. S(q) \subseteq 1 .. Len(q)
        BY <1>1
      <4> HIDE DEF S
      <4> QED
        BY <4>1, <2>4, <1>1, AGreatest
    <3> DEFINE k == CHOOSE i \in S(q) : \A j \in S(q) : j <= i
    <3>2. k \in S(q)
      BY <3>1
    <3>3. After(q, r) = (q[k] = "ACCELERATE")
      BY <2>4 DEF After
    <3>4. After(s, r) = (s[k] = "ACCELERATE")
      BY <2>1, <2>4 DEF After
    <3> HIDE DEF k, S
    <3>5. s[k] = q[k]
      BY <2>2, <3>2
    <3>6. After(s, r) = After(q, r)
      BY <3>3, <3>4, <3>5
    <3> QED
      BY <1>2, <3>6
  <2> QED BY <2>3, <2>4
<1>3. CASE c # "REVERSE"
  <2>1. Len(q) + 1 \in S(s) /\ \A j \in S(s) : j <= Len(q) + 1
    BY <1>1, <1>3
  <2>2. (CHOOSE i \in S(s) : \A j \in S(s) : j <= i) = Len(q) + 1
    BY <2>1, <1>1
  <2> QED
    BY <1>1, <1>3, <2>1, <2>2 DEF After
<1> QED BY <1>2, <1>3

LEMMA AfterTyped ==
  ASSUME NEW q, NEW r \in BOOLEAN
  PROVE  After(q, r) \in BOOLEAN
BY DEF After

\* The last order that is not to turn round settles it.
LEMMA AfterTurn ==
  ASSUME NEW q \in Seq(Commands), NEW c \in Commands, NEW r \in BOOLEAN, c = "REVERSE"
  PROVE  After(Append(q, c), r) = After(q, r)
BY AfterOne

LEMMA AfterGo ==
  ASSUME NEW q \in Seq(Commands), NEW c \in Commands, NEW r \in BOOLEAN, c = "ACCELERATE"
  PROVE  After(Append(q, c), r) = TRUE
<1>1. After(Append(q, c), r)
  BY AfterOne
<1> QED
  BY <1>1, AfterTyped

LEMMA AfterStop ==
  ASSUME NEW q \in Seq(Commands), NEW c \in Commands, NEW r \in BOOLEAN, c \in {"STOP", "STOP_GO"}
  PROVE  After(Append(q, c), r) = FALSE
<1>1. ~After(Append(q, c), r)
  BY AfterOne
<1> QED
  BY <1>1, AfterTyped

LEMMA AfterFirst ==
  ASSUME NEW q \in Seq(Commands), NEW c \in Commands, NEW r \in BOOLEAN
  PROVE  After(<<c>> \o q, r) = After(q, CASE c = "ACCELERATE" -> TRUE [] c = "REVERSE" -> r [] OTHER -> FALSE)
<1> DEFINE S(s) == {i \in DOMAIN s : s[i] # "REVERSE"}
<1> DEFINE s == <<c>> \o q
<1> DEFINE G(T) == CHOOSE i \in T : \A j \in T : j <= i
<1>1. /\ s \in Seq(Commands) /\ Len(q) \in Nat
      /\ DOMAIN s = 1 .. Len(q) + 1 /\ DOMAIN q = 1 .. Len(q)
      /\ s[1] = c /\ \A i \in 1 .. Len(q) : s[i + 1] = q[i]
  OBVIOUS
<1>2. S(s) \subseteq 1 .. Len(q) + 1 /\ S(q) \subseteq 1 .. Len(q)
  BY <1>1
<1>3. ASSUME NEW i \in 1 .. Len(q)
      PROVE  i \in S(q) <=> i + 1 \in S(s)
  BY <1>1
<1>4. 1 \in S(s) <=> c # "REVERSE"
  BY <1>1
<1>5. CASE S(q) = {}
  <2>1. \A j \in S(s) : j = 1
    <3>1. ASSUME NEW j \in S(s), j # 1 PROVE FALSE
      <4>1. j - 1 \in 1 .. Len(q) /\ (j - 1) + 1 = j
        BY <1>1, <1>2, <3>1
      <4> QED BY <1>3, <1>5, <3>1, <4>1
    <3> QED BY <3>1
  <2>2. CASE c = "REVERSE"
    <3>1. S(s) = {}
      BY <1>4, <2>1, <2>2
    <3> QED BY <1>5, <2>2, <3>1 DEF After
  <2>3. CASE c # "REVERSE"
    <3>1. S(s) = {1}
      BY <1>4, <2>1, <2>3
    <3>2. G(S(s)) = 1
      BY <3>1
    <3>3. After(s, r) = (s[G(S(s))] = "ACCELERATE")
      BY <3>1 DEF After
    <3> QED BY <1>1, <1>5, <2>3, <3>2, <3>3 DEF After
  <2> QED BY <2>2, <2>3
<1>6. CASE S(q) # {}
  <2>1. PICK m \in S(q) : \A j \in S(q) : j <= m
    <3> HIDE DEF S
    <3> QED BY <1>1, <1>2, <1>6, AGreatest
  <2>2. m \in 1 .. Len(q) /\ m \in Nat
    BY <1>1, <1>2, <2>1
  <2>3. ASSUME NEW j \in S(s) PROVE j <= m + 1
    <3>1. j \in 1 .. Len(q) + 1
      BY <1>2
    <3>2. CASE j = 1
      BY <2>2, <3>2
    <3>3. CASE j # 1
      <4>1. j - 1 \in 1 .. Len(q) /\ (j - 1) + 1 = j
        BY <1>1, <3>1, <3>3
      <4>2. j - 1 \in S(q)
        BY <1>3, <4>1
      <4>3. j - 1 <= m
        BY <2>1, <4>2
      <4> QED BY <2>2, <3>1, <4>3
    <3> QED BY <3>2, <3>3
  <2>4. m + 1 \in S(s)
    BY <1>3, <2>1, <2>2
  <2>5. G(S(q)) = m
    <3>1. \A i \in S(q) : (\A j \in S(q) : j <= i) => i = m
      <4>1. \A i \in S(q) : i \in Nat
        BY <1>1, <1>2
      <4> HIDE DEF S
      <4> QED BY <2>1, <2>2, <4>1
    <3> HIDE DEF S
    <3> QED BY <2>1, <3>1
  <2>6. G(S(s)) = m + 1
    <3>1. \A i \in S(s) : (\A j \in S(s) : j <= i) => i = m + 1
      <4>1. \A i \in S(s) : i \in Nat
        BY <1>1, <1>2
      <4> HIDE DEF S
      <4> QED BY <2>2, <2>3, <2>4, <4>1
    <3> HIDE DEF S
    <3> QED BY <2>3, <2>4, <3>1
  <2>7. s[m + 1] = q[m]
    BY <1>1, <2>2
  <2>8. After(s, r) = (s[G(S(s))] = "ACCELERATE")
    BY <2>4 DEF After
  <2>9. \A x : After(q, x) = (q[G(S(q))] = "ACCELERATE")
    BY <1>6 DEF After
  <2> QED BY <2>5, <2>6, <2>7, <2>8, <2>9
<1> QED BY <1>5, <1>6
-----------------------------------------------------------------------------
(* What every step of the conductor keeps of its state s: S is the set of  *)
(* the trains it knows, p[t] is what the command messenger of t carries,   *)
(* and r[t] is whether t runs.                                             *)

\* moving is what comes of the commands in q for a train that runs, or not.
Known(moving, q, run) == moving = After(q, run)

\* moving follows was, when cmd is given.
Obeys(cmd, was, moving) ==
  /\ cmd = "REVERSE" => moving = was
  /\ cmd = "ACCELERATE" => moving = TRUE
  /\ cmd \in {"STOP", "STOP_GO"} => moving = FALSE

\* The record of one train: where it is is known from when it is spawned, and what it
\* is to be told fits the queue.
TrainFine(tr) ==
  /\ tr \in TrainRecords
  /\ tr.spawned => tr.last_sensor # None
  /\ Len(tr.train_commands) <= QUEUE

\* The conductor's books are in order: each mark has its place in a queue, and unless
\* a command was dropped each isMoving follows from what is carried and queued.
Fine(s, S, p, r) ==
  /\ s \in Conductors /\ p \in [TrainSet -> Seq(Commands)] /\ r \in [TrainSet -> BOOLEAN]
  /\ \A t \in TrainSet : TrainFine(s.train[t]) /\ (s.train[t].spawned <=> t \in S)
  /\ \A t \in TrainSet, n \in Index : s.who[n] = t => n \in Both(NodesIn(s.train[t].reserved_nodes))
  /\ ~s.dropped => \A t \in TrainSet : Known(s.train[t].isMoving, p[t] \o s.train[t].train_commands, r[t])

\* Nothing is changed but what concerns t.
Follows(o, s, t) ==
  /\ o \in Conductors
  /\ \A u \in TrainSet : u # t => o.train[u] = s.train[u]

\* Two records of a train agree on where it is and what it has, and on what it was told.
Stays(a, b) == a.spawned = b.spawned /\ a.last_sensor = b.last_sensor
Told(a, b) == a.train_commands = b.train_commands /\ a.isMoving = b.isMoving

LEMMA TrainFields ==
  ASSUME NEW tr \in TrainRecords
  PROVE  /\ tr.spawned \in BOOLEAN /\ tr.last_sensor \in Index \cup {None}
         /\ tr.last_sent_sensor \in Index \cup {None} /\ tr.last_sent_sensor_safety \in Index \cup {None}
         /\ tr.destination_node \in Index \cup {None}
         /\ tr.path \in Seq(PathNodes) /\ tr.reserved_nodes \in Seq(PathNodes)
         /\ tr.train_commands \in Seq(Commands) /\ tr.isMoving \in BOOLEAN /\ tr.isTrainBlocked \in BOOLEAN
         /\ tr.auto_mode \in BOOLEAN /\ tr.demo_mode \in BOOLEAN /\ tr.command_index \in Nat \ {0}
BY DEF TrainRecords

LEMMA ConductorFields ==
  ASSUME NEW s \in Conductors
  PROVE  /\ s.train \in [TrainSet -> TrainRecords]
         /\ s.who \in [Index -> TrainSet \cup {NoTrain}] /\ s.dropped \in BOOLEAN
         /\ s.setting \in [0 .. NUM_SWITCHES - 1 -> {STRAIGHT, CURVED}]
         /\ \A t \in TrainSet : s.train[t] \in TrainRecords
BY DEF Conductors

\* One field assigned.
TrainSetTo(s, t, tr) == [s EXCEPT !.train[t] = tr]
MarksSet(s, w) == [s EXCEPT !.who = w]
SettingSet(s, g) == [s EXCEPT !.setting = g]

LEMMA TrainPut ==
  ASSUME NEW s \in Conductors, NEW t \in TrainSet, NEW tr \in TrainRecords,
         NEW o, o = TrainSetTo(s, t, tr)
  PROVE  /\ Follows(o, s, t) /\ o.train[t] = tr
         /\ o.who = s.who /\ o.setting = s.setting /\ o.dropped = s.dropped
BY DEF Conductors, Follows, TrainSetTo

LEMMA MarksPut ==
  ASSUME NEW s \in Conductors, NEW t \in TrainSet, NEW w \in [Index -> TrainSet \cup {NoTrain}],
         NEW o, o = MarksSet(s, w)
  PROVE  /\ Follows(o, s, t) /\ o.train[t] = s.train[t]
           /\ o.who = w /\ o.setting = s.setting /\ o.dropped = s.dropped
BY DEF Conductors, Follows, MarksSet

LEMMA FollowsFollows ==
  ASSUME NEW s, NEW t \in TrainSet, NEW x, NEW o, Follows(x, s, t), Follows(o, x, t)
  PROVE  Follows(o, s, t)
BY DEF Follows

\* What t has and what it was told are in order again: so is everything.
LEMMA FineAfter ==
  ASSUME NEW s, NEW S, NEW p, NEW r, Fine(s, S, p, r),
         NEW t \in TrainSet, NEW o, Follows(o, s, t),
         TrainFine(o.train[t]), o.train[t].spawned = s.train[t].spawned,
         \A n \in Index : o.who[n] = t => n \in Both(NodesIn(o.train[t].reserved_nodes)),
         \A n \in Index : o.who[n] \in {t, NoTrain, s.who[n]},
         ~o.dropped => ~s.dropped,
         ~o.dropped => Known(o.train[t].isMoving, p[t] \o o.train[t].train_commands, r[t])
  PROVE  Fine(o, S, p, r)
<1>1. o \in Conductors
  BY DEF Follows
<1>2. \A u \in TrainSet : TrainFine(o.train[u]) /\ (o.train[u].spawned <=> u \in S)
  BY DEF Fine, Follows
<1>3. \A u \in TrainSet, n \in Index : o.who[n] = u => n \in Both(NodesIn(o.train[u].reserved_nodes))
  <2> TAKE u \in TrainSet, n \in Index
  <2>1. CASE u = t
    BY <2>1
  <2>2. CASE u # t
    <3>1. u # NoTrain
      BY TrainNumbers
    <3> QED BY <2>2, <3>1 DEF Fine, Follows
  <2> QED BY <2>1, <2>2
<1>4. ASSUME ~o.dropped, NEW u \in TrainSet
      PROVE  Known(o.train[u].isMoving, p[u] \o o.train[u].train_commands, r[u])
  <2>1. CASE u = t
    BY <1>4, <2>1
  <2>2. CASE u # t
    BY <1>4, <2>2 DEF Fine, Follows
  <2> QED BY <2>1, <2>2
<1> QED
  BY <1>1, <1>2, <1>3, <1>4 DEF Fine

\* The marks may have changed, but no command was given.
LEMMA FineMarked ==
  ASSUME NEW s, NEW S, NEW p, NEW r, Fine(s, S, p, r),
         NEW t \in TrainSet, NEW o, Follows(o, s, t), o.dropped = s.dropped,
         Stays(o.train[t], s.train[t]), Told(o.train[t], s.train[t]),
         \A n \in Index : o.who[n] = t => n \in Both(NodesIn(o.train[t].reserved_nodes)),
         \A n \in Index : o.who[n] \in {t, NoTrain, s.who[n]}
  PROVE  Fine(o, S, p, r)
<1>1. o.train[t] \in TrainRecords
  BY ConductorFields DEF Follows
<1>2. TrainFine(o.train[t])
  BY <1>1 DEF Fine, TrainFine, Stays, Told
<1>3. ~o.dropped => Known(o.train[t].isMoving, p[t] \o o.train[t].train_commands, r[t])
  BY DEF Fine, Told
<1> QED
  BY <1>2, <1>3, FineAfter DEF Stays

\* Neither the marks nor the queue have changed.
LEMMA FineKept ==
  ASSUME NEW s, NEW S, NEW p, NEW r, Fine(s, S, p, r),
         NEW t \in TrainSet, NEW o, Follows(o, s, t), o.dropped = s.dropped,
         Stays(o.train[t], s.train[t]), Told(o.train[t], s.train[t]),
         o.train[t].reserved_nodes = s.train[t].reserved_nodes, o.who = s.who
  PROVE  Fine(o, S, p, r)
<1>1. \A n \in Index : o.who[n] = t => n \in Both(NodesIn(o.train[t].reserved_nodes))
  BY DEF Fine
<1>2. \A n \in Index : o.who[n] \in {t, NoTrain, s.who[n]}
  OBVIOUS
<1> QED
  BY <1>1, <1>2, FineMarked
-----------------------------------------------------------------------------
(* Commands.                                                               *)

LEMMA AppendToConcat ==
  ASSUME NEW a \in Seq(Commands), NEW b \in Seq(Commands), NEW c \in Commands
  PROVE  a \o Append(b, c) = Append(a \o b, c) /\ a \o b \in Seq(Commands)
OBVIOUS

LEMMA Queueing ==
  ASSUME NEW tr \in TrainRecords, NEW q \in Seq(Commands)
  PROVE  LET y == [tr EXCEPT !.train_commands = q] IN
           /\ y \in TrainRecords /\ y.train_commands = q /\ y.isMoving = tr.isMoving
           /\ Stays(y, tr) /\ y.reserved_nodes = tr.reserved_nodes
           /\ y.destination_node = tr.destination_node /\ y.path = tr.path
BY DEF TrainRecords, Stays

LEMMA PushCases ==
  ASSUME NEW s \in Conductors, NEW t \in TrainSet, NEW cmd \in Commands
  PROVE  LET q == s.train[t].train_commands IN
           /\ Len(q) = QUEUE => PushCommand(s, t, cmd) = [s EXCEPT !.dropped = TRUE]
           /\ Len(q) # QUEUE => PushCommand(s, t, cmd) = [s EXCEPT !.train[t].train_commands = Append(q, cmd)]
BY DEF PushCommand

LEMMA DroppedSet ==
  ASSUME NEW s \in Conductors, NEW t \in TrainSet
  PROVE  LET o == [s EXCEPT !.dropped = TRUE] IN
           /\ Follows(o, s, t) /\ o.train[t] = s.train[t]
           /\ o.who = s.who /\ o.setting = s.setting /\ o.dropped = TRUE
BY DEF Conductors, Follows

\* What pushing cmd makes of s.
Pushes(o, s, t, cmd) ==
  /\ Follows(o, s, t) /\ o.who = s.who /\ o.setting = s.setting
  /\ Stays(o.train[t], s.train[t]) /\ o.train[t].isMoving = s.train[t].isMoving
  /\ o.train[t].reserved_nodes = s.train[t].reserved_nodes
  /\ o.train[t].destination_node = s.train[t].destination_node
  /\ o.train[t].path = s.train[t].path
  /\ Len(o.train[t].train_commands) <= QUEUE
  /\ ~o.dropped => ~s.dropped /\ o.train[t].train_commands = Append(s.train[t].train_commands, cmd)

LEMMA Pushed ==
  ASSUME NEW s \in Conductors, NEW t \in TrainSet, NEW cmd \in Commands,
         Len(s.train[t].train_commands) <= QUEUE,
         NEW o, o = PushCommand(s, t, cmd)
  PROVE  Pushes(o, s, t, cmd)
<1> DEFINE tr == s.train[t]
<1>1. tr \in TrainRecords /\ tr.train_commands \in Seq(Commands)
  BY ConductorFields, TrainFields
<1>2. QUEUE \in Nat
  BY ConductorAssumption DEF ConductorAssumption
<1>3. CASE Len(tr.train_commands) = QUEUE
  <2>1. o = [s EXCEPT !.dropped = TRUE]
    BY <1>3, PushCases
  <2>2. Follows(o, s, t) /\ o.train[t] = tr /\ o.who = s.who /\ o.setting = s.setting /\ o.dropped = TRUE
    BY <2>1, DroppedSet
  <2> QED
    BY <2>2 DEF Stays, Pushes
<1>4. CASE Len(tr.train_commands) # QUEUE
  <2> DEFINE q == Append(tr.train_commands, cmd)
             y == [tr EXCEPT !.train_commands = q]
  <2>1. q \in Seq(Commands) /\ Len(q) <= QUEUE
    BY <1>1, <1>2, <1>4
  <2>2. o = TrainSetTo(s, t, y)
    <3>1. o = [s EXCEPT !.train[t].train_commands = q]
      BY <1>4, PushCases
    <3> HIDE DEF q
    <3> QED BY <2>1, <3>1 DEF TrainSetTo
  <2>3. /\ y \in TrainRecords /\ y.train_commands = q /\ y.isMoving = tr.isMoving
        /\ Stays(y, tr) /\ y.reserved_nodes = tr.reserved_nodes
        /\ y.destination_node = tr.destination_node /\ y.path = tr.path
    <3> HIDE DEF q
    <3> QED BY <1>1, <2>1, Queueing
  <2> HIDE DEF y
  <2>4. Follows(o, s, t) /\ o.train[t] = y /\ o.who = s.who /\ o.setting = s.setting /\ o.dropped = s.dropped
    BY <2>2, <2>3, TrainPut
  <2> HIDE DEF q
  <2>5. ~o.dropped => o.train[t].train_commands = Append(s.train[t].train_commands, cmd)
    BY <2>3, <2>4 DEF q
  <2> QED
    BY <2>1, <2>3, <2>4, <2>5 DEF Pushes
<1> QED
  BY <1>3, <1>4

LEMMA MovesAsTold ==
  ASSUME NEW a \in Seq(Commands), NEW b \in Seq(Commands), NEW cmd \in Commands, NEW run \in BOOLEAN,
         NEW was, Known(was, a \o b, run), NEW m, Obeys(cmd, was, m)
  PROVE  Known(m, a \o Append(b, cmd), run)
<1>1. a \o b \in Seq(Commands) /\ a \o Append(b, cmd) = Append(a \o b, cmd)
  BY AppendToConcat
<1>2. CASE cmd = "REVERSE"
  <2>1. After(Append(a \o b, cmd), run) = After(a \o b, run)
    BY <1>1, <1>2, AfterTurn, Zenon
  <2>2. m = was
    BY <1>2 DEF Obeys
  <2>3. m = After(Append(a \o b, cmd), run)
    BY <2>1, <2>2, Zenon DEF Known
  <2> QED BY <1>1, <2>3 DEF Known
<1>3. CASE cmd = "ACCELERATE"
  <2>1. After(Append(a \o b, cmd), run) = TRUE
    BY <1>1, <1>3, AfterGo
  <2>2. m = TRUE
    BY <1>3 DEF Obeys
  <2> QED BY <1>1, <2>1, <2>2 DEF Known
<1>4. CASE cmd \in {"STOP", "STOP_GO"}
  <2>1. After(Append(a \o b, cmd), run) = FALSE
    BY <1>1, <1>4, AfterStop
  <2>2. m = FALSE
    BY <1>4 DEF Obeys
  <2> QED BY <1>1, <2>1, <2>2 DEF Known
<1>5. cmd = "REVERSE" \/ cmd = "ACCELERATE" \/ cmd \in {"STOP", "STOP_GO"}
  BY DEF Commands
<1> QED
  BY <1>2, <1>3, <1>4, <1>5

\* A command is queued for t and isMoving set as it will then be.
LEMMA FineTold ==
  ASSUME NEW s, NEW S, NEW p, NEW r, Fine(s, S, p, r),
         NEW t \in TrainSet, NEW x, Follows(x, s, t), NEW cmd \in Commands,
         Stays(x.train[t], s.train[t]), x.train[t].train_commands = s.train[t].train_commands,
         x.train[t].reserved_nodes = s.train[t].reserved_nodes, x.who = s.who, x.dropped = s.dropped,
         NEW o, Follows(o, x, t), o.who = x.who,
         Stays(o.train[t], x.train[t]), o.train[t].reserved_nodes = x.train[t].reserved_nodes,
         Len(o.train[t].train_commands) <= QUEUE,
         ~o.dropped => ~x.dropped /\ o.train[t].train_commands = Append(x.train[t].train_commands, cmd),
         Obeys(cmd, s.train[t].isMoving, o.train[t].isMoving)
  PROVE  Fine(o, S, p, r)
<1>1. Follows(o, s, t)
  BY FollowsFollows
<1>2. /\ o.train[t] \in TrainRecords /\ o.train[t].isMoving \in BOOLEAN
      /\ p[t] \in Seq(Commands) /\ r[t] \in BOOLEAN /\ s.train[t].train_commands \in Seq(Commands)
  BY ConductorFields, TrainFields DEF Follows, Fine
<1>3. TrainFine(o.train[t])
  BY <1>2 DEF Fine, TrainFine, Stays
<1>4. ASSUME ~o.dropped
      PROVE  Known(o.train[t].isMoving, p[t] \o o.train[t].train_commands, r[t])
  <2>1. Known(s.train[t].isMoving, p[t] \o s.train[t].train_commands, r[t])
    BY <1>4 DEF Fine
  <2>2. o.train[t].train_commands = Append(s.train[t].train_commands, cmd)
    BY <1>4
  <2>3. Known(o.train[t].isMoving, p[t] \o Append(s.train[t].train_commands, cmd), r[t])
    BY <1>2, <2>1, MovesAsTold
  <2> QED
    BY <2>2, <2>3
<1>5. \A n \in Index : o.who[n] = t => n \in Both(NodesIn(o.train[t].reserved_nodes))
  BY DEF Fine
<1>6. \A n \in Index : o.who[n] \in {t, NoTrain, s.who[n]}
  OBVIOUS
<1> QED
  BY <1>1, <1>3, <1>4, <1>5, <1>6, FineAfter DEF Stays


-----------------------------------------------------------------------------
(* What each assignment to the record of a train leaves as it was.         *)

ReservedSet(s, t, q, w) ==
  [s EXCEPT !.train[t].reserved_nodes = q, !.train[t].isTrainBlocked = Blocked(s, t), !.who = w]
QueueSet(s, t, q, w) == [s EXCEPT !.train[t].reserved_nodes = q, !.who = w]
PathSet(s, t, q) == [s EXCEPT !.train[t].path = q]
FreedSet(s, t, e, f, dest, w) ==
  [s EXCEPT !.who = w, !.train[t].path = e, !.train[t].reserved_nodes = f,
            !.train[t].destination_node = dest]
SensorSet(s, t, n) == [s EXCEPT !.train[t].last_sensor = n]
IndexSet(s, t, k) == [s EXCEPT !.train[t].command_index = k]
ModeSet(s, t, a, b) == [s EXCEPT !.train[t].auto_mode = a, !.train[t].demo_mode = b]
StillSet(s, t) ==
  [s EXCEPT !.train[t].auto_mode = FALSE, !.train[t].demo_mode = FALSE, !.train[t].isMoving = FALSE]
MovingSet(s, t) == [s EXCEPT !.train[t].isMoving = TRUE]
StandingSet(s, t) == [s EXCEPT !.train[t].isMoving = FALSE]
SentSet(s, t, m, n) ==
  [s EXCEPT !.train[t].last_sent_sensor = m, !.train[t].last_sent_sensor_safety = n,
            !.train[t].isMoving = TRUE]
ArrivedSet(s, t, e, q) ==
  [s EXCEPT !.train[t].path = e, !.train[t].isMoving = FALSE, !.train[t].train_commands = q]
CommandsSet(s, t, q) == [s EXCEPT !.train[t].train_commands = q]

LEMMA BlockedTyped ==
  ASSUME NEW s, NEW t
  PROVE  Blocked(s, t) \in BOOLEAN
BY DEF Blocked

LEMMA ReservedPut ==
  ASSUME NEW s \in Conductors, NEW t \in TrainSet,
         NEW q \in Seq(PathNodes), NEW w \in [Index -> TrainSet \cup {NoTrain}],
         NEW o, o = ReservedSet(s, t, q, w)
  PROVE  /\ Follows(o, s, t) /\ o.who = w /\ o.setting = s.setting /\ o.dropped = s.dropped
         /\ Stays(o.train[t], s.train[t]) /\ Told(o.train[t], s.train[t])
         /\ o.train[t].reserved_nodes = q
         /\ o.train[t].destination_node = s.train[t].destination_node
         /\ o.train[t].path = s.train[t].path
<1> DEFINE x == s.train[t]
           y == [x EXCEPT !.reserved_nodes = q, !.isTrainBlocked = Blocked(s, t)]
<1>1. x \in TrainRecords /\ Blocked(s, t) \in BOOLEAN
  BY ConductorFields, BlockedTyped
<1>2. /\ y \in TrainRecords /\ Stays(y, x) /\ Told(y, x) /\ y.reserved_nodes = q
      /\ y.destination_node = x.destination_node /\ y.path = x.path
  <2> HIDE DEF x
  <2> QED BY <1>1 DEF TrainRecords, Stays, Told
<1> DEFINE z == TrainSetTo(s, t, y)
<1>3. o = MarksSet(z, w)
  BY DEF ReservedSet, MarksSet, TrainSetTo, Conductors, TrainRecords
<1> HIDE DEF x, y
<1>4. /\ Follows(z, s, t) /\ z.train[t] = y
      /\ z.who = s.who /\ z.setting = s.setting /\ z.dropped = s.dropped
  BY <1>2, TrainPut
<1> HIDE DEF z
<1>5. /\ Follows(o, z, t) /\ o.train[t] = z.train[t]
      /\ o.who = w /\ o.setting = z.setting /\ o.dropped = z.dropped
  BY <1>3, <1>4, MarksPut DEF Follows
<1>6. Follows(o, s, t)
  BY <1>4, <1>5, FollowsFollows
<1> QED
  BY <1>2, <1>4, <1>5, <1>6 DEF x

LEMMA QueuePut ==
  ASSUME NEW s \in Conductors, NEW t \in TrainSet,
         NEW q \in Seq(PathNodes), NEW w \in [Index -> TrainSet \cup {NoTrain}],
         NEW o, o = QueueSet(s, t, q, w)
  PROVE  /\ Follows(o, s, t) /\ o.who = w /\ o.setting = s.setting /\ o.dropped = s.dropped
         /\ Stays(o.train[t], s.train[t]) /\ Told(o.train[t], s.train[t])
         /\ o.train[t].reserved_nodes = q
         /\ o.train[t].destination_node = s.train[t].destination_node
         /\ o.train[t].path = s.train[t].path
<1> DEFINE x == s.train[t]
           y == [x EXCEPT !.reserved_nodes = q]
<1>1. x \in TrainRecords
  BY ConductorFields
<1>2. /\ y \in TrainRecords /\ Stays(y, x) /\ Told(y, x) /\ y.reserved_nodes = q
      /\ y.destination_node = x.destination_node /\ y.path = x.path
  <2> HIDE DEF x
  <2> QED BY <1>1 DEF TrainRecords, Stays, Told
<1> DEFINE z == TrainSetTo(s, t, y)
<1>3. o = MarksSet(z, w)
  BY DEF QueueSet, MarksSet, TrainSetTo, Conductors, TrainRecords
<1> HIDE DEF x, y
<1>4. /\ Follows(z, s, t) /\ z.train[t] = y
      /\ z.who = s.who /\ z.setting = s.setting /\ z.dropped = s.dropped
  BY <1>2, TrainPut
<1> HIDE DEF z
<1>5. /\ Follows(o, z, t) /\ o.train[t] = z.train[t]
      /\ o.who = w /\ o.setting = z.setting /\ o.dropped = z.dropped
  BY <1>3, <1>4, MarksPut DEF Follows
<1>6. Follows(o, s, t)
  BY <1>4, <1>5, FollowsFollows
<1> QED
  BY <1>2, <1>4, <1>5, <1>6 DEF x

LEMMA PathPut ==
  ASSUME NEW s \in Conductors, NEW t \in TrainSet, NEW q \in Seq(PathNodes),
         NEW o, o = PathSet(s, t, q)
  PROVE  /\ Follows(o, s, t) /\ o.who = s.who /\ o.setting = s.setting /\ o.dropped = s.dropped
         /\ Stays(o.train[t], s.train[t]) /\ Told(o.train[t], s.train[t])
         /\ o.train[t].reserved_nodes = s.train[t].reserved_nodes
         /\ o.train[t].destination_node = s.train[t].destination_node /\ o.train[t].path = q
<1> DEFINE x == s.train[t]
           y == [x EXCEPT !.path = q]
<1>1. x \in TrainRecords
  BY ConductorFields
<1>2. /\ y \in TrainRecords /\ Stays(y, x) /\ Told(y, x) /\ y.reserved_nodes = x.reserved_nodes
      /\ y.destination_node = x.destination_node /\ y.path = q
  <2> HIDE DEF x
  <2> QED BY <1>1 DEF TrainRecords, Stays, Told
<1>3. o = TrainSetTo(s, t, y)
  BY DEF PathSet, TrainSetTo, Conductors, TrainRecords
<1> HIDE DEF x, y
<1>4. /\ Follows(o, s, t) /\ o.train[t] = y
      /\ o.who = s.who /\ o.setting = s.setting /\ o.dropped = s.dropped
  BY <1>2, <1>3, TrainPut
<1> QED
  BY <1>2, <1>4 DEF x

LEMMA FreedPut ==
  ASSUME NEW s \in Conductors, NEW t \in TrainSet,
         NEW e \in Seq(PathNodes), NEW f \in Seq(PathNodes), NEW dest \in Index \cup {None}, NEW w \in [Index -> TrainSet \cup {NoTrain}],
         NEW o, o = FreedSet(s, t, e, f, dest, w)
  PROVE  /\ Follows(o, s, t) /\ o.who = w /\ o.setting = s.setting /\ o.dropped = s.dropped
         /\ Stays(o.train[t], s.train[t]) /\ Told(o.train[t], s.train[t])
         /\ o.train[t].reserved_nodes = f /\ o.train[t].destination_node = dest
         /\ o.train[t].path = e
<1> DEFINE x == s.train[t]
           y == [x EXCEPT !.path = e, !.reserved_nodes = f, !.destination_node = dest]
<1>1. x \in TrainRecords
  BY ConductorFields
<1>2. /\ y \in TrainRecords /\ Stays(y, x) /\ Told(y, x) /\ y.reserved_nodes = f
      /\ y.destination_node = dest /\ y.path = e
  <2> HIDE DEF x
  <2> QED BY <1>1 DEF TrainRecords, Stays, Told
<1> DEFINE z == TrainSetTo(s, t, y)
<1>3. o = MarksSet(z, w)
  BY DEF FreedSet, MarksSet, TrainSetTo, Conductors, TrainRecords
<1> HIDE DEF x, y
<1>4. /\ Follows(z, s, t) /\ z.train[t] = y
      /\ z.who = s.who /\ z.setting = s.setting /\ z.dropped = s.dropped
  BY <1>2, TrainPut
<1> HIDE DEF z
<1>5. /\ Follows(o, z, t) /\ o.train[t] = z.train[t]
      /\ o.who = w /\ o.setting = z.setting /\ o.dropped = z.dropped
  BY <1>3, <1>4, MarksPut DEF Follows
<1>6. Follows(o, s, t)
  BY <1>4, <1>5, FollowsFollows
<1> QED
  BY <1>2, <1>4, <1>5, <1>6 DEF x

LEMMA SensorPut ==
  ASSUME NEW s \in Conductors, NEW t \in TrainSet, NEW n \in Index,
         NEW o, o = SensorSet(s, t, n)
  PROVE  /\ Follows(o, s, t) /\ o.who = s.who /\ o.setting = s.setting /\ o.dropped = s.dropped
         /\ Told(o.train[t], s.train[t]) /\ o.train[t].spawned = s.train[t].spawned
         /\ o.train[t].last_sensor = n /\ o.train[t].reserved_nodes = s.train[t].reserved_nodes
         /\ o.train[t].destination_node = s.train[t].destination_node
         /\ o.train[t].path = s.train[t].path
<1> DEFINE x == s.train[t]
           y == [x EXCEPT !.last_sensor = n]
<1>1. x \in TrainRecords
  BY ConductorFields
<1>2. /\ y \in TrainRecords /\ Told(y, x) /\ y.spawned = x.spawned /\ y.last_sensor = n
      /\ y.reserved_nodes = x.reserved_nodes /\ y.destination_node = x.destination_node
      /\ y.path = x.path
  <2> HIDE DEF x
  <2> QED BY <1>1 DEF TrainRecords, Stays, Told
<1>3. o = TrainSetTo(s, t, y)
  BY DEF SensorSet, TrainSetTo, Conductors, TrainRecords
<1> HIDE DEF x, y
<1>4. /\ Follows(o, s, t) /\ o.train[t] = y
      /\ o.who = s.who /\ o.setting = s.setting /\ o.dropped = s.dropped
  BY <1>2, <1>3, TrainPut
<1> QED
  BY <1>2, <1>4 DEF x

LEMMA IndexPut ==
  ASSUME NEW s \in Conductors, NEW t \in TrainSet, NEW k \in Nat \ {0},
         NEW o, o = IndexSet(s, t, k)
  PROVE  /\ Follows(o, s, t) /\ o.who = s.who /\ o.setting = s.setting /\ o.dropped = s.dropped
         /\ Stays(o.train[t], s.train[t]) /\ Told(o.train[t], s.train[t])
         /\ o.train[t].reserved_nodes = s.train[t].reserved_nodes
         /\ o.train[t].destination_node = s.train[t].destination_node
         /\ o.train[t].path = s.train[t].path
<1> DEFINE x == s.train[t]
           y == [x EXCEPT !.command_index = k]
<1>1. x \in TrainRecords
  BY ConductorFields
<1>2. /\ y \in TrainRecords /\ Stays(y, x) /\ Told(y, x) /\ y.reserved_nodes = x.reserved_nodes
      /\ y.destination_node = x.destination_node /\ y.path = x.path
  <2> HIDE DEF x
  <2> QED BY <1>1 DEF TrainRecords, Stays, Told
<1>3. o = TrainSetTo(s, t, y)
  BY DEF IndexSet, TrainSetTo, Conductors, TrainRecords
<1> HIDE DEF x, y
<1>4. /\ Follows(o, s, t) /\ o.train[t] = y
      /\ o.who = s.who /\ o.setting = s.setting /\ o.dropped = s.dropped
  BY <1>2, <1>3, TrainPut
<1> QED
  BY <1>2, <1>4 DEF x

LEMMA ModePut ==
  ASSUME NEW s \in Conductors, NEW t \in TrainSet, NEW a \in BOOLEAN, NEW b \in BOOLEAN,
         NEW o, o = ModeSet(s, t, a, b)
  PROVE  /\ Follows(o, s, t) /\ o.who = s.who /\ o.setting = s.setting /\ o.dropped = s.dropped
         /\ Stays(o.train[t], s.train[t]) /\ Told(o.train[t], s.train[t])
         /\ o.train[t].reserved_nodes = s.train[t].reserved_nodes
         /\ o.train[t].destination_node = s.train[t].destination_node
         /\ o.train[t].path = s.train[t].path
<1> DEFINE x == s.train[t]
           y == [x EXCEPT !.auto_mode = a, !.demo_mode = b]
<1>1. x \in TrainRecords
  BY ConductorFields
<1>2. /\ y \in TrainRecords /\ Stays(y, x) /\ Told(y, x) /\ y.reserved_nodes = x.reserved_nodes
      /\ y.destination_node = x.destination_node /\ y.path = x.path
  <2> HIDE DEF x
  <2> QED BY <1>1 DEF TrainRecords, Stays, Told
<1>3. o = TrainSetTo(s, t, y)
  BY DEF ModeSet, TrainSetTo, Conductors, TrainRecords
<1> HIDE DEF x, y
<1>4. /\ Follows(o, s, t) /\ o.train[t] = y
      /\ o.who = s.who /\ o.setting = s.setting /\ o.dropped = s.dropped
  BY <1>2, <1>3, TrainPut
<1> QED
  BY <1>2, <1>4 DEF x

\* o is s with the note that t moves, or that it does not.
Notes(o, s, t, moving) ==
  /\ Follows(o, s, t) /\ o.who = s.who /\ o.setting = s.setting /\ o.dropped = s.dropped
  /\ Stays(o.train[t], s.train[t]) /\ o.train[t].isMoving = moving
  /\ o.train[t].train_commands = s.train[t].train_commands
  /\ o.train[t].reserved_nodes = s.train[t].reserved_nodes
  /\ o.train[t].destination_node = s.train[t].destination_node
  /\ o.train[t].path = s.train[t].path

LEMMA StillPut ==
  ASSUME NEW s \in Conductors, NEW t \in TrainSet,
         NEW o, o = StillSet(s, t)
  PROVE  Notes(o, s, t, FALSE)
<1> DEFINE x == s.train[t]
           y == [x EXCEPT !.auto_mode = FALSE, !.demo_mode = FALSE, !.isMoving = FALSE]
<1>1. x \in TrainRecords
  BY ConductorFields
<1>2. /\ y \in TrainRecords /\ Stays(y, x) /\ y.train_commands = x.train_commands
      /\ y.isMoving = FALSE /\ y.reserved_nodes = x.reserved_nodes
      /\ y.destination_node = x.destination_node /\ y.path = x.path
  <2> HIDE DEF x
  <2> QED BY <1>1 DEF TrainRecords, Stays, Told
<1>3. o = TrainSetTo(s, t, y)
  BY DEF StillSet, TrainSetTo, Conductors, TrainRecords
<1> HIDE DEF x, y
<1>4. /\ Follows(o, s, t) /\ o.train[t] = y
      /\ o.who = s.who /\ o.setting = s.setting /\ o.dropped = s.dropped
  BY <1>2, <1>3, TrainPut
<1> QED
  BY <1>2, <1>4 DEF x, Notes

LEMMA MovingPut ==
  ASSUME NEW s \in Conductors, NEW t \in TrainSet,
         NEW o, o = MovingSet(s, t)
  PROVE  Notes(o, s, t, TRUE)
<1> DEFINE x == s.train[t]
           y == [x EXCEPT !.isMoving = TRUE]
<1>1. x \in TrainRecords
  BY ConductorFields
<1>2. /\ y \in TrainRecords /\ Stays(y, x) /\ y.train_commands = x.train_commands
      /\ y.isMoving = TRUE /\ y.reserved_nodes = x.reserved_nodes
      /\ y.destination_node = x.destination_node /\ y.path = x.path
  <2> HIDE DEF x
  <2> QED BY <1>1 DEF TrainRecords, Stays, Told
<1>3. o = TrainSetTo(s, t, y)
  BY DEF MovingSet, TrainSetTo, Conductors, TrainRecords
<1> HIDE DEF x, y
<1>4. /\ Follows(o, s, t) /\ o.train[t] = y
      /\ o.who = s.who /\ o.setting = s.setting /\ o.dropped = s.dropped
  BY <1>2, <1>3, TrainPut
<1> QED
  BY <1>2, <1>4 DEF x, Notes

LEMMA StandingPut ==
  ASSUME NEW s \in Conductors, NEW t \in TrainSet,
         NEW o, o = StandingSet(s, t)
  PROVE  Notes(o, s, t, FALSE)
<1> DEFINE x == s.train[t]
           y == [x EXCEPT !.isMoving = FALSE]
<1>1. x \in TrainRecords
  BY ConductorFields
<1>2. /\ y \in TrainRecords /\ Stays(y, x) /\ y.train_commands = x.train_commands
      /\ y.isMoving = FALSE /\ y.reserved_nodes = x.reserved_nodes
      /\ y.destination_node = x.destination_node /\ y.path = x.path
  <2> HIDE DEF x
  <2> QED BY <1>1 DEF TrainRecords, Stays, Told
<1>3. o = TrainSetTo(s, t, y)
  BY DEF StandingSet, TrainSetTo, Conductors, TrainRecords
<1> HIDE DEF x, y
<1>4. /\ Follows(o, s, t) /\ o.train[t] = y
      /\ o.who = s.who /\ o.setting = s.setting /\ o.dropped = s.dropped
  BY <1>2, <1>3, TrainPut
<1> QED
  BY <1>2, <1>4 DEF x, Notes

\* What may be waited for.
Awaited == Index \cup {None}

\* The train is taken to move.
SetsOff(o, s, t) ==
  /\ Follows(o, s, t) /\ o.who = s.who /\ o.setting = s.setting /\ o.dropped = s.dropped
  /\ Stays(o.train[t], s.train[t])
  /\ o.train[t].train_commands = s.train[t].train_commands /\ o.train[t].isMoving = TRUE
  /\ o.train[t].reserved_nodes = s.train[t].reserved_nodes
  /\ o.train[t].destination_node = s.train[t].destination_node
  /\ o.train[t].path = s.train[t].path

LEMMA SentPut ==
  ASSUME NEW s \in Conductors, NEW t \in TrainSet, NEW m \in Awaited, NEW n \in Awaited,
         NEW o, o = SentSet(s, t, m, n)
  PROVE  SetsOff(o, s, t)
<1> DEFINE x == s.train[t]
           y == [x EXCEPT !.last_sent_sensor = m, !.last_sent_sensor_safety = n, !.isMoving = TRUE]
<1>1. x \in TrainRecords
  BY ConductorFields
<1>2. /\ y \in TrainRecords /\ Stays(y, x) /\ y.train_commands = x.train_commands
      /\ y.isMoving = TRUE /\ y.reserved_nodes = x.reserved_nodes
      /\ y.destination_node = x.destination_node /\ y.path = x.path
  <2> HIDE DEF x
  <2> QED BY <1>1 DEF TrainRecords, Stays, Told, Awaited
<1>3. o = TrainSetTo(s, t, y)
  BY DEF SentSet, TrainSetTo, Conductors, TrainRecords
<1> HIDE DEF x, y
<1>4. /\ Follows(o, s, t) /\ o.train[t] = y
      /\ o.who = s.who /\ o.setting = s.setting /\ o.dropped = s.dropped
  BY <1>2, <1>3, TrainPut
<1> QED
  BY <1>2, <1>4 DEF x, SetsOff

\* The train is taken to stand, and has nothing to drive over and q to do.
SetsDown(o, s, t, e, q) ==
  /\ Follows(o, s, t) /\ o.who = s.who /\ o.setting = s.setting /\ o.dropped = s.dropped
  /\ Stays(o.train[t], s.train[t]) /\ o.train[t].train_commands = q
  /\ o.train[t].isMoving = FALSE
  /\ o.train[t].reserved_nodes = s.train[t].reserved_nodes
  /\ o.train[t].destination_node = s.train[t].destination_node /\ o.train[t].path = e

LEMMA ArrivedPut ==
  ASSUME NEW s \in Conductors, NEW t \in TrainSet,
         NEW e \in Seq(PathNodes), NEW q \in Seq(Commands),
         NEW o, o = ArrivedSet(s, t, e, q)
  PROVE  SetsDown(o, s, t, e, q)
<1> DEFINE x == s.train[t]
           y == [x EXCEPT !.path = e, !.isMoving = FALSE, !.train_commands = q]
<1>1. x \in TrainRecords
  BY ConductorFields
<1>2. /\ y \in TrainRecords /\ Stays(y, x) /\ y.train_commands = q /\ y.isMoving = FALSE
      /\ y.reserved_nodes = x.reserved_nodes /\ y.destination_node = x.destination_node
      /\ y.path = e
  <2> HIDE DEF x
  <2> QED BY <1>1 DEF TrainRecords, Stays, Told
<1>3. o = TrainSetTo(s, t, y)
  BY DEF ArrivedSet, TrainSetTo, Conductors, TrainRecords
<1> HIDE DEF x, y
<1>4. /\ Follows(o, s, t) /\ o.train[t] = y
      /\ o.who = s.who /\ o.setting = s.setting /\ o.dropped = s.dropped
  BY <1>2, <1>3, TrainPut
<1> QED
  BY <1>2, <1>4 DEF x, SetsDown

LEMMA CommandsPut ==
  ASSUME NEW s \in Conductors, NEW t \in TrainSet, NEW q \in Seq(Commands),
         NEW o, o = CommandsSet(s, t, q)
  PROVE  /\ Follows(o, s, t) /\ o.who = s.who /\ o.setting = s.setting /\ o.dropped = s.dropped
         /\ Stays(o.train[t], s.train[t]) /\ o.train[t].train_commands = q
         /\ o.train[t].isMoving = s.train[t].isMoving
         /\ o.train[t].reserved_nodes = s.train[t].reserved_nodes
         /\ o.train[t].destination_node = s.train[t].destination_node
         /\ o.train[t].path = s.train[t].path
<1> DEFINE x == s.train[t]
           y == [x EXCEPT !.train_commands = q]
<1>1. x \in TrainRecords
  BY ConductorFields
<1>2. /\ y \in TrainRecords /\ Stays(y, x) /\ y.train_commands = q /\ y.isMoving = x.isMoving
      /\ y.reserved_nodes = x.reserved_nodes /\ y.destination_node = x.destination_node
      /\ y.path = x.path
  <2> HIDE DEF x
  <2> QED BY <1>1 DEF TrainRecords, Stays, Told
<1>3. o = TrainSetTo(s, t, y)
  BY DEF CommandsSet, TrainSetTo, Conductors, TrainRecords
<1> HIDE DEF x, y
<1>4. /\ Follows(o, s, t) /\ o.train[t] = y
      /\ o.who = s.who /\ o.setting = s.setting /\ o.dropped = s.dropped
  BY <1>2, <1>3, TrainPut
<1> QED
  BY <1>2, <1>4 DEF x

-----------------------------------------------------------------------------
(* Marks and queues.                                                       *)

LEMMA NodesOf ==
  ASSUME NEW q \in Seq(PathNodes)
  PROVE  /\ NodesIn(q) \subseteq Index
         /\ \A i \in 1 .. Len(q) : q[i].node \in Index /\ q[i].switch_state \in {STRAIGHT, CURVED, UNINITIALIZED}
<1>1. \A i \in 1 .. Len(q) : q[i] \in PathNodes
  OBVIOUS
<1>2. \A x \in PathNodes : x.node \in Index /\ x.switch_state \in {STRAIGHT, CURVED, UNINITIALIZED}
  BY DEF PathNodes
<1>3. DOMAIN q = 1 .. Len(q)
  OBVIOUS
<1> QED
  BY <1>1, <1>2, <1>3 DEF NodesIn

LEMMA BothIn ==
  ASSUME NEW N \in SUBSET Index
  PROVE  Both(N) \in SUBSET Index
BY OtherSide DEF Both

LEMMA InBoth ==
  ASSUME NEW N \in SUBSET Index, NEW M \in SUBSET Index, N \subseteq M
  PROVE  Both(N) \subseteq Both(M)
BY DEF Both

LEMMA NodesOfTwo ==
  ASSUME NEW a \in Seq(PathNodes), NEW b \in Seq(PathNodes)
  PROVE  /\ a \o b \in Seq(PathNodes)
         /\ NodesIn(a) \subseteq NodesIn(a \o b) /\ NodesIn(b) \subseteq NodesIn(a \o b)
<1>1. a \o b \in Seq(PathNodes) /\ Len(a \o b) = Len(a) + Len(b) /\ Len(a) \in Nat /\ Len(b) \in Nat
  OBVIOUS
<1>2. DOMAIN a = 1 .. Len(a) /\ DOMAIN b = 1 .. Len(b) /\ DOMAIN (a \o b) = 1 .. Len(a) + Len(b)
  BY <1>1
<1>3. ASSUME NEW i \in 1 .. Len(a) PROVE a[i].node \in NodesIn(a \o b)
  <2>1. (a \o b)[i] = a[i] /\ i \in DOMAIN (a \o b)
    BY <1>1, <1>2
  <2> QED BY <2>1 DEF NodesIn
<1>4. ASSUME NEW i \in 1 .. Len(b) PROVE b[i].node \in NodesIn(a \o b)
  <2>1. (a \o b)[i + Len(a)] = b[i] /\ i + Len(a) \in DOMAIN (a \o b)
    BY <1>1, <1>2
  <2> QED BY <2>1 DEF NodesIn
<1> QED
  BY <1>1, <1>2, <1>3, <1>4 DEF NodesIn

LEMMA MarksOf ==
  ASSUME NEW w \in [Index -> TrainSet \cup {NoTrain}], NEW N \in SUBSET Index,
         NEW t \in TrainSet \cup {NoTrain}
  PROVE  /\ Marks(w, N, t) \in [Index -> TrainSet \cup {NoTrain}]
         /\ \A n \in Index : Marks(w, N, t)[n] = IF n \in N THEN t ELSE w[n]
BY DEF Marks

LEMMA Taken ==
  ASSUME NEW w \in [Index -> TrainSet \cup {NoTrain}], NEW N \in SUBSET Index, NEW t \in TrainSet
  PROVE  /\ Take(w, N, t) \in [Index -> TrainSet \cup {NoTrain}]
         /\ \A n \in Index : Take(w, N, t)[n] = IF n \in Both(N) THEN t ELSE w[n]
<1>1. Both(N) \in SUBSET Index
  BY BothIn
<1>2. t \in TrainSet \cup {NoTrain}
  OBVIOUS
<1> QED
  BY <1>1, <1>2, MarksOf DEF Take

LEMMA Released ==
  ASSUME NEW w \in [Index -> TrainSet \cup {NoTrain}], NEW N \in SUBSET Index
  PROVE  /\ Release(w, N) \in [Index -> TrainSet \cup {NoTrain}]
         /\ \A n \in Index : Release(w, N)[n] = IF n \in Both(N) THEN NoTrain ELSE w[n]
<1>1. Both(N) \in SUBSET Index
  BY BothIn
<1>2. NoTrain \in TrainSet \cup {NoTrain}
  OBVIOUS
<1> QED
  BY <1>1, <1>2, MarksOf DEF Release

-----------------------------------------------------------------------------
(* What is defined step by step over 0 .. n.                               *)

\* Every step stays in D, so every value is in D.
LEMMA StepsStay ==
  ASSUME NEW n \in Nat, NEW g, NEW D, g[0] \in D,
         \A i \in 1 .. n : g[i - 1] \in D => g[i] \in D
  PROVE  \A i \in 0 .. n : g[i] \in D
<1> DEFINE T == {i \in 0 .. n : g[i] \notin D}
<1>1. SUFFICES ASSUME T # {} PROVE FALSE
  OBVIOUS
<1>2. PICK k \in T : \A j \in T : k <= j
  <2>1. T \in SUBSET Nat
    OBVIOUS
  <2> HIDE DEF T
  <2> QED BY <1>1, <2>1, ALeast
<1>3. k \in 1 .. n /\ k - 1 \in 0 .. n /\ ~(k <= k - 1)
  OBVIOUS
<1>4. g[k - 1] \in D
  BY <1>2, <1>3
<1> QED
  BY <1>3, <1>4

\* g begins with b, and its i-th step is that of H.
InSteps(g, n, D, b, H) ==
  g \in [0 .. n -> D] /\ g[0] = b /\ \A i \in 1 .. n : g[i] = H[i][g[i - 1]]

\* Such a function exists: as far as it is said what each step makes of what is in D.
LEMMA StepsExist ==
  ASSUME NEW n \in Nat, NEW D, NEW b \in D, NEW H \in [1 .. n -> [D -> D]]
  PROVE  \E g : InSteps(g, n, D, b, H)
<1> DEFINE Counts(f, k) == f \in [0 .. k -> D] /\ f[0] = b /\ \A i \in 1 .. k : f[i] = H[i][f[i - 1]]
           T == {k \in 0 .. n : ~ \E f : Counts(f, k)}
<1>1. T = {}
  <2> SUFFICES ASSUME T # {} PROVE FALSE
    OBVIOUS
  <2>1. PICK k \in T : \A j \in T : k <= j
    <3>1. T \in SUBSET Nat
      OBVIOUS
    <3> HIDE DEF T
    <3> QED BY <3>1, ALeast
  <2>2. k \in 0 .. n /\ ~ \E f : Counts(f, k)
    OBVIOUS
  <2>3. CASE k = 0
    <3>1. Counts([i \in 0 .. 0 |-> b], 0)
      OBVIOUS
    <3> QED BY <2>2, <2>3, <3>1
  <2>4. CASE k # 0
    <3>0. k - 1 \in 0 .. n /\ ~(k <= k - 1) /\ k \in 1 .. n
      BY <2>2, <2>4
    <3>1. ~(k - 1 \in T)
      BY <2>1, <3>0, Zenon
    <3>2. PICK f : Counts(f, k - 1)
      BY <3>0, <3>1
    <3>3. f[k - 1] \in D /\ H[k][f[k - 1]] \in D
      BY <3>0, <3>2
    <3> DEFINE g == [i \in 0 .. k |-> IF i = k THEN H[k][f[k - 1]] ELSE f[i]]
    <3>4. g \in [0 .. k -> D] /\ g[0] = b
      BY <3>0, <3>2, <3>3
    <3>5. ASSUME NEW i \in 1 .. k PROVE g[i] = H[i][g[i - 1]]
      <4>1. CASE i = k
        <5>1. g[i] = H[k][f[k - 1]] /\ g[k - 1] = f[k - 1]
          BY <3>0, <4>1
        <5> HIDE DEF g
        <5> QED BY <4>1, <5>1
      <4>2. CASE i # k
        <5>1. i \in 1 .. k - 1 /\ g[i] = f[i] /\ g[i - 1] = f[i - 1]
          BY <3>0, <4>2
        <5> HIDE DEF g
        <5> QED BY <3>2, <5>1
      <4> QED BY <4>1, <4>2
    <3> HIDE DEF g
    <3>6. Counts(g, k)
      BY <3>4, <3>5
    <3> QED
      BY <2>2, <3>6
  <2> QED
    BY <2>3, <2>4
<1>2. n \in 0 .. n
  OBVIOUS
<1>3. PICK f : Counts(f, n)
  BY <1>1, <1>2
<1> QED
  BY <1>3 DEF InSteps

-----------------------------------------------------------------------------
(* The operations on what t has reserved.                                  *)

LEMMA LeastOf ==
  ASSUME NEW S \in SUBSET Nat
  PROVE  /\ S # {} => Least(S) \in S /\ MinOf(S) \in S /\ \A j \in S : MinOf(S) <= j
         /\ S = {} => Least(S) = 0
<1>1. ASSUME S # {} PROVE MinOf(S) \in S /\ \A j \in S : MinOf(S) <= j
  <2>1. PICK k \in S : \A j \in S : k <= j
    BY <1>1, ALeast
  <2> QED
    BY <2>1 DEF MinOf
<1> QED
  BY <1>1 DEF Least

LEMMA GreatestOf ==
  ASSUME NEW m \in Nat, NEW S \in SUBSET (1 .. m)
  PROVE  Greatest(S) \in 0 .. m /\ (S # {} => Greatest(S) \in S /\ \A j \in S : j <= Greatest(S))
<1>1. ASSUME S # {} PROVE Greatest(S) \in S /\ \A j \in S : j <= Greatest(S)
  <2>1. PICK k \in S : \A j \in S : j <= k
    BY <1>1, AGreatest
  <2> QED
    BY <1>1, <2>1 DEF Greatest
<1>2. S = {} => Greatest(S) = 0
  BY DEF Greatest
<1>3. CASE S = {}
  BY <1>2, <1>3
<1>4. CASE S # {}
  <2>1. Greatest(S) \in 1 .. m
    BY <1>1, <1>4
  <2> QED BY <1>1, <1>4, <2>1
<1> QED
  BY <1>3, <1>4

LEMMA FreshTyped ==
  ASSUME NEW s \in Conductors, NEW t \in TrainSet, NEW last \in 0 .. Len(s.train[t].path)
  PROVE  Fresh(s, t, last) \in Seq(PathNodes)
<1> DEFINE path == s.train[t].path
           D == Seq(PathNodes)
           E(f, i) == IF i = 0 THEN <<>>
                      ELSE IF s.who[path[i].node] = t THEN f[i - 1] ELSE Append(f[i - 1], path[i])
           H == [i \in 1 .. last |-> [x \in D |-> IF s.who[path[i].node] = t THEN x ELSE Append(x, path[i])]]
           upto == CHOOSE f : f = [i \in 0 .. last |-> E(f, i)]
<1>1. path \in D /\ Len(path) \in Nat /\ last \in Nat
  <2>1. path \in D
    BY ConductorFields, TrainFields
  <2> QED BY <2>1
<1>2. \A i \in 1 .. last : path[i] \in PathNodes
  <2>1. \A i \in 1 .. Len(path) : path[i] \in PathNodes
    BY <1>1
  <2> QED BY <1>1, <2>1
<1> HIDE DEF path
<1>3. \A q \in D, i \in 1 .. last : Append(q, path[i]) \in D
  BY <1>2
<1>4. \E g : g = [i \in 0 .. last |-> E(g, i)]
  <2>1. H \in [1 .. last -> [D -> D]]
    BY <1>3
  <2> DEFINE e == <<>>
  <2>2. e \in D
    OBVIOUS
  <2>3. \A x \in D, i \in 1 .. last : H[i][x] = IF s.who[path[i].node] = t THEN x ELSE Append(x, path[i])
    OBVIOUS
  <2> HIDE DEF H, D, e
  <2>4. PICK g : InSteps(g, last, D, e, H)
    BY <1>1, <2>1, <2>2, StepsExist
  <2>5. ASSUME NEW i \in 0 .. last PROVE g[i] = E(g, i)
    <3>1. CASE i = 0
      BY <2>4, <3>1 DEF e, InSteps
    <3>2. CASE i # 0
      <4>1. i \in 1 .. last /\ i - 1 \in 0 .. last
        BY <3>2
      <4>2. g[i - 1] \in D /\ g[i] = H[i][g[i - 1]]
        BY <2>4, <4>1 DEF InSteps
      <4> QED BY <2>3, <3>2, <4>1, <4>2
    <3> QED BY <3>1, <3>2
  <2>6. g = [i \in 0 .. last |-> E(g, i)]
    <3>1. g \in [0 .. last -> D]
      BY <2>4 DEF InSteps
    <3> HIDE DEF E
    <3> QED BY <2>5, <3>1
  <2> QED BY <2>6
<1>5. upto = [i \in 0 .. last |-> E(upto, i)]
  BY <1>4
<1>6. Fresh(s, t, last) = upto[last]
  BY DEF Fresh, path
<1> HIDE DEF upto
<1>7. \A i \in 0 .. last : upto[i] = E(upto, i)
  BY <1>5
<1>8. \A i \in 0 .. last : upto[i] \in D
  <2>0. <<>> \in D
    OBVIOUS
  <2> HIDE DEF D, H
  <2>1. upto[0] \in D
    <3>1. 0 \in 0 .. last
      BY <1>1
    <3> QED BY <1>7, <2>0, <3>1
  <2>2. ASSUME NEW i \in 1 .. last, upto[i - 1] \in D PROVE upto[i] \in D
    <3>1. i \in 0 .. last /\ i # 0
      OBVIOUS
    <3> QED BY <1>3, <1>7, <2>2, <3>1
  <2> QED
    BY <1>1, <2>1, <2>2, StepsStay
<1> QED
  BY <1>1, <1>6, <1>8

LEMMA ClearTyped ==
  ASSUME NEW s \in Conductors, NEW t \in TrainSet
  PROVE  Clear(s, t) \in 0 .. Len(s.train[t].path)
<1> DEFINE path == s.train[t].path
           taken == {i \in DOMAIN path : s.who[path[i].node] \notin {NoTrain, t}}
<1>1. path \in Seq(PathNodes)
  BY ConductorFields, TrainFields
<1>2. taken \in SUBSET Nat /\ taken \subseteq 1 .. Len(path) /\ Len(path) \in Nat
  BY <1>1
<1>3. Clear(s, t) = IF taken = {} THEN Len(path) ELSE MinOf(taken) - 1
  BY DEF Clear
<1>4. taken # {} => MinOf(taken) \in 1 .. Len(path)
  <2> HIDE DEF taken
  <2> QED BY <1>2, LeastOf
<1> HIDE DEF taken, path
<1> QED
  BY <1>2, <1>3, <1>4 DEF path

\* How what an operation on the reservations leaves in place relates to what was there.
Reserves(o, s, t) ==
  /\ Follows(o, s, t) /\ o.dropped = s.dropped
  /\ Stays(o.train[t], s.train[t]) /\ Told(o.train[t], s.train[t])
  /\ o.train[t].destination_node = s.train[t].destination_node
  /\ o.train[t].path = s.train[t].path

\* ReservePath marks what it queues.
LEMMA Reserved ==
  ASSUME NEW s, NEW S, NEW p, NEW r, Fine(s, S, p, r), NEW t \in TrainSet,
         NEW o, o = ReservePath(s, t)
  PROVE  Fine(o, S, p, r) /\ Reserves(o, s, t)
<1> DEFINE path == s.train[t].path
           q == s.train[t].reserved_nodes
           last == Greatest({i \in 1 .. Clear(s, t) : Type(path[i].node) = "SENSOR"})
           fresh == Fresh(s, t, last)
           w == Take(s.who, NodesIn(fresh), t)
<1>1. s \in Conductors /\ q \in Seq(PathNodes) /\ Len(path) \in Nat
  <2>1. s \in Conductors
    BY DEF Fine
  <2>2. q \in Seq(PathNodes) /\ path \in Seq(PathNodes)
    BY <2>1, ConductorFields, TrainFields
  <2> QED BY <2>1, <2>2
<1>2. Clear(s, t) \in 0 .. Len(path)
  BY <1>1, ClearTyped
<1>3. last \in 0 .. Len(path)
  <2>1. last \in 0 .. Clear(s, t)
    <3>1. Clear(s, t) \in Nat
      BY <1>1, <1>2
    <3> QED BY <3>1, GreatestOf
  <2> HIDE DEF last
  <2> QED BY <1>1, <1>2, <2>1
<1>4. fresh \in Seq(PathNodes)
  <2> HIDE DEF last
  <2> QED BY <1>1, <1>3, FreshTyped
<1>5. o = ReservedSet(s, t, q \o fresh, w)
  <2>1. o = [s EXCEPT !.train[t].reserved_nodes = @ \o fresh, !.train[t].isTrainBlocked = Blocked(s, t),
                      !.who = Take(@, NodesIn(fresh), t)]
    BY DEF ReservePath
  <2> HIDE DEF fresh
  <2> QED BY <1>1, <2>1 DEF ReservedSet, Conductors, TrainRecords
<1> HIDE DEF fresh
<1>6. /\ NodesIn(fresh) \in SUBSET Index /\ NodesIn(q) \in SUBSET Index
      /\ q \o fresh \in Seq(PathNodes) /\ NodesIn(q \o fresh) \in SUBSET Index
      /\ NodesIn(q) \subseteq NodesIn(q \o fresh) /\ NodesIn(fresh) \subseteq NodesIn(q \o fresh)
  <2>1. q \o fresh \in Seq(PathNodes)
    BY <1>1, <1>4
  <2> QED
    BY <1>1, <1>4, <2>1, NodesOf, NodesOfTwo
<1>7. s.who \in [Index -> TrainSet \cup {NoTrain}]
  BY <1>1, ConductorFields
<1>8. /\ w \in [Index -> TrainSet \cup {NoTrain}]
      /\ \A n \in Index : w[n] = IF n \in Both(NodesIn(fresh)) THEN t ELSE s.who[n]
  <2> DEFINE N == NodesIn(fresh)
  <2>1. N \in SUBSET Index /\ w = Take(s.who, N, t)
    BY <1>6
  <2> HIDE DEF N, w, path, q, last
  <2>2. /\ Take(s.who, N, t) \in [Index -> TrainSet \cup {NoTrain}]
        /\ \A n \in Index : Take(s.who, N, t)[n] = IF n \in Both(N) THEN t ELSE s.who[n]
    BY <1>7, <2>1, Taken, Zenon
  <2> QED
    BY <2>1, <2>2 DEF N
<1> DEFINE q2 == q \o fresh
<1>9. o = ReservedSet(s, t, q2, w) /\ q2 \in Seq(PathNodes)
  BY <1>5, <1>6
<1> HIDE DEF w, q2, q, path, last
<1>10. /\ Follows(o, s, t) /\ o.who = w /\ o.dropped = s.dropped
       /\ Stays(o.train[t], s.train[t]) /\ Told(o.train[t], s.train[t])
       /\ o.train[t].reserved_nodes = q2
       /\ o.train[t].destination_node = s.train[t].destination_node
       /\ o.train[t].path = s.train[t].path
  BY <1>1, <1>8, <1>9, ReservedPut
<1>11. \A n \in Index : o.who[n] = t => n \in Both(NodesIn(o.train[t].reserved_nodes))
  <2> TAKE n \in Index
  <2>1. Both(NodesIn(q)) \subseteq Both(NodesIn(q \o fresh)) /\ Both(NodesIn(fresh)) \subseteq Both(NodesIn(q \o fresh))
    BY <1>6, InBoth
  <2>2. s.who[n] = t => n \in Both(NodesIn(q))
    BY DEF Fine, q
  <2> QED
    BY <1>8, <1>10, <2>1, <2>2 DEF q2
<1>12. \A n \in Index : o.who[n] \in {t, NoTrain, s.who[n]}
  BY <1>8, <1>10
<1>13. Fine(o, S, p, r)
  BY <1>10, <1>11, <1>12, FineMarked
<1> QED
  BY <1>10, <1>13 DEF Reserves

LEMMA RestOf ==
  ASSUME NEW q \in Seq(PathNodes), NEW k \in 0 .. Len(q),
         NEW rest, rest = SubSeq(q, k + 1, Len(q))
  PROVE  /\ rest \in Seq(PathNodes) /\ Len(rest) = Len(q) - k
         /\ \A i \in k + 1 .. Len(q) : i - k \in DOMAIN rest /\ rest[i - k] = q[i]
<1>1. Len(q) \in Nat /\ \A i \in 1 .. Len(q) : q[i] \in PathNodes
  OBVIOUS
<1>2. rest \in Seq(PathNodes) /\ Len(rest) = Len(q) - k
  BY <1>1
<1>3. \A j \in 1 .. Len(q) - k : rest[j] = q[k + j]
  BY <1>1
<1>4. DOMAIN rest = 1 .. Len(q) - k
  BY <1>2
<1>5. ASSUME NEW i \in k + 1 .. Len(q) PROVE i - k \in DOMAIN rest /\ rest[i - k] = q[i]
  <2>1. i - k \in 1 .. Len(q) - k /\ k + (i - k) = i
    BY <1>1
  <2> QED BY <1>3, <1>4, <2>1
<1> QED
  BY <1>2, <1>5

\* ReleaseSegment takes out of the queue only what it gives back, or what is still in
\* the queue by its other side.
LEMMA SegmentReleased ==
  ASSUME NEW s, NEW S, NEW p, NEW r, Fine(s, S, p, r), NEW t \in TrainSet,
         NEW o, o = ReleaseSegment(s, t)
  PROVE  Fine(o, S, p, r) /\ Reserves(o, s, t)
<1> DEFINE q == s.train[t].reserved_nodes
           at == {i \in DOMAIN q : q[i].node = s.train[t].last_sensor}
           passed == IF at = {} THEN Len(q) ELSE MinOf(at) - 1
           gone == {i \in 1 .. passed : \A j \in i + 1 .. Len(q) : q[j].node # Reverse(q[i].node)}
           G == {q[i].node : i \in gone}
           rest == SubSeq(q, passed + 1, Len(q))
           w == Release(s.who, G)
<1>1. s \in Conductors /\ q \in Seq(PathNodes)
  <2>1. s \in Conductors
    BY DEF Fine
  <2> QED BY <2>1, ConductorFields, TrainFields
<1>2. /\ Len(q) \in Nat /\ DOMAIN q = 1 .. Len(q) /\ \A i \in 1 .. Len(q) : q[i].node \in Index
      /\ NodesIn(q) \subseteq Index
  <2> HIDE DEF q
  <2>1. Len(q) \in Nat /\ DOMAIN q = 1 .. Len(q)
    BY <1>1
  <2> QED BY <1>1, <2>1, NodesOf
<1>3. o = QueueSet(s, t, rest, w)
  BY DEF ReleaseSegment, QueueSet
<1> HIDE DEF q
<1>4. passed \in 0 .. Len(q)
  <2>1. at \in SUBSET Nat /\ at \subseteq 1 .. Len(q)
    BY <1>2
  <2>2. at # {} => MinOf(at) \in 1 .. Len(q)
    <3> HIDE DEF at
    <3> QED BY <2>1, LeastOf
  <2> HIDE DEF at
  <2> QED BY <1>2, <2>2
<1> HIDE DEF passed
<1>5. /\ rest \in Seq(PathNodes)
      /\ \A i \in passed + 1 .. Len(q) : i - passed \in DOMAIN rest /\ rest[i - passed] = q[i]
  <2> HIDE DEF rest
  <2>1. rest = SubSeq(q, passed + 1, Len(q))
    BY DEF rest
  <2> QED BY <1>1, <1>4, <2>1, RestOf
<1>6. G \in SUBSET Index /\ gone \subseteq 1 .. passed
  <2>1. \A i \in gone : i \in 1 .. Len(q)
    BY <1>2, <1>4
  <2> QED BY <1>2, <2>1
<1>7. /\ w \in [Index -> TrainSet \cup {NoTrain}]
      /\ \A n \in Index : w[n] = IF n \in Both(G) THEN NoTrain ELSE s.who[n]
  <2>1. s.who \in [Index -> TrainSet \cup {NoTrain}]
    BY <1>1, ConductorFields
  <2> HIDE DEF G
  <2> QED BY <1>6, <2>1, Released
<1> HIDE DEF w, rest
<1>8. /\ Follows(o, s, t) /\ o.who = w /\ o.dropped = s.dropped
      /\ Stays(o.train[t], s.train[t]) /\ Told(o.train[t], s.train[t])
      /\ o.train[t].reserved_nodes = rest
      /\ o.train[t].destination_node = s.train[t].destination_node
      /\ o.train[t].path = s.train[t].path
  BY <1>1, <1>3, <1>5, <1>7, QueuePut
<1>9. ASSUME NEW n \in Index, o.who[n] = t PROVE n \in Both(NodesIn(rest))
  <2>1. n \notin Both(G) /\ s.who[n] = t
    BY <1>7, <1>8, <1>9, TrainNumbers
  <2>2. n \in Both(NodesIn(q))
    BY <2>1 DEF Fine, q
  <2> DEFINE M == {i \in 1 .. Len(q) : q[i].node = n \/ Reverse(q[i].node) = n}
  <2>3. PICK m \in M : \A j \in M : j <= m
    <3>1. M # {}
      BY <1>2, <2>2 DEF Both, NodesIn
    <3>2. M \in SUBSET (1 .. Len(q))
      OBVIOUS
    <3> HIDE DEF M
    <3> QED BY <1>2, <3>1, <3>2, AGreatest
  <2>4. m \in 1 .. Len(q) /\ (q[m].node = n \/ Reverse(q[m].node) = n) /\ q[m].node \in Index
    BY <1>2
  <2>5. m > passed
    <3>1. SUFFICES ASSUME m \in 1 .. passed PROVE FALSE
      BY <1>2, <1>4, <2>4
    <3>2. ASSUME NEW j \in m + 1 .. Len(q) PROVE q[j].node # Reverse(q[m].node)
      <4>1. j \in 1 .. Len(q) /\ ~(j <= m) /\ q[j].node \in Index
        BY <1>2, <2>4
      <4>2. ~(j \in M)
        BY <2>3, <4>1
      <4>3. q[j].node # n /\ Reverse(q[j].node) # n
        BY <4>1, <4>2
      <4> QED BY <2>4, <4>3, OtherSide
    <3>3. m \in gone
      BY <3>1, <3>2
    <3>4. q[m].node \in G
      BY <3>3
    <3> HIDE DEF G
    <3> QED BY <2>1, <2>4, <3>4 DEF Both
  <2>6. m - passed \in DOMAIN rest /\ rest[m - passed] = q[m]
    <3>1. m \in passed + 1 .. Len(q)
      BY <1>2, <1>4, <2>4, <2>5
    <3> QED BY <1>5, <3>1
  <2>7. q[m].node \in NodesIn(rest)
    BY <2>6 DEF NodesIn
  <2> QED
    BY <2>4, <2>7 DEF Both
<1>10. \A n \in Index : o.who[n] \in {t, NoTrain, s.who[n]}
  BY <1>7, <1>8
<1>11. Fine(o, S, p, r)
  <2>1. \A n \in Index : o.who[n] = t => n \in Both(NodesIn(o.train[t].reserved_nodes))
    BY <1>8, <1>9
  <2> QED BY <1>8, <1>10, <2>1, FineMarked
<1> QED
  BY <1>8, <1>11 DEF Reserves

\* ReleasePath gives everything back and takes the destination.
LEMMA PathReleased ==
  ASSUME NEW s, NEW S, NEW p, NEW r, Fine(s, S, p, r), NEW t \in TrainSet,
         s.train[t].destination_node \in Index,
         NEW o, o = ReleasePath(s, t)
  PROVE  Fine(o, S, p, r) /\ Reserves(o, s, t)
<1> DEFINE q == s.train[t].reserved_nodes
           dest == s.train[t].destination_node
           here == <<PathNode(dest, UNINITIALIZED)>>
           v == Release(s.who, NodesIn(q))
           w == reserveNode(v, dest, t)
<1>1. s \in Conductors /\ q \in Seq(PathNodes) /\ dest \in Index
  <2>1. s \in Conductors
    BY DEF Fine
  <2> QED BY <2>1, ConductorFields, TrainFields
<1>2. o = QueueSet(s, t, here, w)
  BY DEF ReleasePath, QueueSet
<1> HIDE DEF q, dest
<1>3. here \in Seq(PathNodes) /\ dest \in NodesIn(here)
  <2>1. PathNode(dest, UNINITIALIZED) \in PathNodes /\ PathNode(dest, UNINITIALIZED).node = dest
    BY <1>1 DEF PathNode, PathNodes
  <2> QED BY <2>1 DEF NodesIn
<1>4. /\ v \in [Index -> TrainSet \cup {NoTrain}]
      /\ \A n \in Index : v[n] = IF n \in Both(NodesIn(q)) THEN NoTrain ELSE s.who[n]
  <2>1. s.who \in [Index -> TrainSet \cup {NoTrain}] /\ NodesIn(q) \in SUBSET Index
    BY <1>1, ConductorFields, NodesOf
  <2> QED BY <2>1, Released
<1> HIDE DEF v, here
<1>5. /\ w \in [Index -> TrainSet \cup {NoTrain}]
      /\ \A n \in Index : w[n] = IF n \in {dest, Reverse(dest)} THEN t ELSE v[n]
  BY <1>1, <1>4, OtherSide DEF reserveNode
<1> HIDE DEF w
<1>6. /\ Follows(o, s, t) /\ o.who = w /\ o.dropped = s.dropped
      /\ Stays(o.train[t], s.train[t]) /\ Told(o.train[t], s.train[t])
      /\ o.train[t].reserved_nodes = here
      /\ o.train[t].destination_node = s.train[t].destination_node
      /\ o.train[t].path = s.train[t].path
  BY <1>1, <1>2, <1>3, <1>5, QueuePut
<1>7. \A n \in Index : o.who[n] = t => n \in Both(NodesIn(o.train[t].reserved_nodes))
  <2> SUFFICES ASSUME NEW n \in Index, o.who[n] = t PROVE n \in Both(NodesIn(here))
    BY <1>6
  <2>1. CASE n \in {dest, Reverse(dest)}
    BY <1>3, <2>1 DEF Both
  <2>2. CASE n \notin {dest, Reverse(dest)}
    <3>1. v[n] = t
      BY <1>5, <1>6, <2>2
    <3>2. s.who[n] = t /\ n \notin Both(NodesIn(q))
      BY <1>4, <3>1, TrainNumbers
    <3> QED BY <3>2 DEF Fine, q
  <2> QED BY <2>1, <2>2
<1>8. \A n \in Index : o.who[n] \in {t, NoTrain, s.who[n]}
  BY <1>4, <1>5, <1>6
<1>9. Fine(o, S, p, r)
  BY <1>6, <1>7, <1>8, FineMarked
<1> QED
  BY <1>6, <1>9 DEF Reserves

\* A GOTO gives up all that was reserved.
LEMMA PathFreed ==
  ASSUME NEW s, NEW S, NEW p, NEW r, Fine(s, S, p, r), NEW t \in TrainSet, NEW dest \in Index,
         NEW o, o = Freed(s, t, dest)
  PROVE  /\ Fine(o, S, p, r) /\ Follows(o, s, t)
         /\ Stays(o.train[t], s.train[t]) /\ Told(o.train[t], s.train[t])
         /\ o.train[t].destination_node = dest
<1> DEFINE q == s.train[t].reserved_nodes
           e == <<>>
           w == Release(s.who, NodesIn(q))
<1>1. s \in Conductors /\ q \in Seq(PathNodes) /\ e \in Seq(PathNodes) /\ dest \in Index \cup {None}
  <2>1. s \in Conductors
    BY DEF Fine
  <2> QED BY <2>1, ConductorFields, TrainFields
<1>2. o = FreedSet(s, t, e, e, dest, w)
  BY DEF Freed, FreedSet
<1> HIDE DEF q
<1>3. /\ w \in [Index -> TrainSet \cup {NoTrain}]
      /\ \A n \in Index : w[n] = IF n \in Both(NodesIn(q)) THEN NoTrain ELSE s.who[n]
  <2>1. s.who \in [Index -> TrainSet \cup {NoTrain}] /\ NodesIn(q) \in SUBSET Index
    BY <1>1, ConductorFields, NodesOf
  <2> QED BY <2>1, Released
<1> HIDE DEF w, e
<1>4. /\ Follows(o, s, t) /\ o.who = w /\ o.dropped = s.dropped
      /\ Stays(o.train[t], s.train[t]) /\ Told(o.train[t], s.train[t])
      /\ o.train[t].destination_node = dest
  BY <1>1, <1>2, <1>3, FreedPut
<1>5. \A n \in Index : o.who[n] # t
  <2> TAKE n \in Index
  <2>1. s.who[n] = t => n \in Both(NodesIn(q))
    BY DEF Fine, q
  <2> QED BY <1>3, <1>4, <2>1, TrainNumbers
<1>6. \A n \in Index : o.who[n] \in {t, NoTrain, s.who[n]}
  BY <1>3, <1>4
<1>7. Fine(o, S, p, r)
  BY <1>4, <1>5, <1>6, FineMarked
<1> QED
  BY <1>4, <1>7

-----------------------------------------------------------------------------
(* The turnouts, the path and the mode.                                    *)

LEMMA SetAll ==
  ASSUME NEW s, NEW S, NEW p, NEW r, Fine(s, S, p, r),
         NEW g \in [0 .. NUM_SWITCHES - 1 -> {STRAIGHT, CURVED}],
         NEW o, o = SettingSet(s, g)
  PROVE  Fine(o, S, p, r) /\ o.train = s.train /\ \A t \in TrainSet : Reserves(o, s, t)
<1>1. s \in Conductors
  BY DEF Fine
<1>2. o \in Conductors /\ o.train = s.train /\ o.who = s.who /\ o.dropped = s.dropped
  BY <1>1 DEF SettingSet, Conductors
<1>3. Fine(o, S, p, r)
  BY <1>2 DEF Fine
<1> QED
  BY <1>2, <1>3 DEF Reserves, Follows, Stays, Told

LEMMA Thrown ==
  ASSUME NEW s, NEW S, NEW p, NEW r, Fine(s, S, p, r), NEW stretch,
         NEW o, o = Throw(s, stretch)
  PROVE  Fine(o, S, p, r) /\ o.train = s.train /\ \A t \in TrainSet : Reserves(o, s, t)
<1> DEFINE L(i) == LiesFor(stretch, LastFor(switch_nums[i], stretch), s.setting[i])
           g == [i \in DOMAIN s.setting |-> L(i)]
<1>1. s.setting \in [0 .. NUM_SWITCHES - 1 -> {STRAIGHT, CURVED}]
  BY ConductorFields DEF Fine
<1>2. ASSUME NEW i \in 0 .. NUM_SWITCHES - 1 PROVE L(i) \in {STRAIGHT, CURVED}
  <2> DEFINE k == LastFor(switch_nums[i], stretch)
  <2> HIDE DEF k
  <2>1. CASE k = 0
    BY <1>1, <2>1 DEF LiesFor, k
  <2>2. CASE k # 0
    BY <2>2 DEF LiesFor, k
  <2> QED BY <2>1, <2>2
<1>3. o = SettingSet(s, g)
  BY DEF Throw, SettingSet
<1> HIDE DEF L
<1>4. g \in [0 .. NUM_SWITCHES - 1 -> {STRAIGHT, CURVED}]
  BY <1>1, <1>2
<1> HIDE DEF g
<1> QED
  BY <1>3, <1>4, SetAll

LEMMA SwitchSet ==
  ASSUME NEW s, NEW S, NEW p, NEW r, Fine(s, S, p, r), NEW num, NEW dir \in {STRAIGHT, CURVED},
         NEW o, o = setSwitch(s, num, dir)
  PROVE  Fine(o, S, p, r)
<1> DEFINE g == set_switch_state(s.setting, num, dir)
<1>1. s.setting \in [0 .. NUM_SWITCHES - 1 -> {STRAIGHT, CURVED}]
  BY ConductorFields DEF Fine
<1>2. g \in [0 .. NUM_SWITCHES - 1 -> {STRAIGHT, CURVED}]
  BY <1>1 DEF set_switch_state
<1>3. o = SettingSet(s, g)
  BY DEF setSwitch, SettingSet
<1> HIDE DEF g
<1> QED
  BY <1>2, <1>3, SetAll

\* An operation on the path of t alone.
Drives(o, s, t) ==
  /\ Follows(o, s, t) /\ o.dropped = s.dropped
  /\ Stays(o.train[t], s.train[t]) /\ Told(o.train[t], s.train[t])
  /\ o.train[t].destination_node = s.train[t].destination_node

LEMMA PathGiven ==
  ASSUME NEW s, NEW S, NEW p, NEW r, Fine(s, S, p, r), NEW t \in TrainSet, NEW q \in Seq(PathNodes),
         NEW o, o = PathSet(s, t, q)
  PROVE  Fine(o, S, p, r) /\ Drives(o, s, t) /\ o.train[t].path = q
<1>1. s \in Conductors
  BY DEF Fine
<1>2. /\ Follows(o, s, t) /\ o.who = s.who /\ o.dropped = s.dropped
      /\ Stays(o.train[t], s.train[t]) /\ Told(o.train[t], s.train[t])
      /\ o.train[t].reserved_nodes = s.train[t].reserved_nodes
      /\ o.train[t].destination_node = s.train[t].destination_node /\ o.train[t].path = q
  BY <1>1, PathPut
<1>3. Fine(o, S, p, r)
  BY <1>2, FineKept
<1> QED
  BY <1>2, <1>3 DEF Drives

\* The last node of the path is never dropped.
LEMMA SegmentPopped ==
  ASSUME NEW s, NEW S, NEW p, NEW r, Fine(s, S, p, r), NEW t \in TrainSet, s.train[t].path # <<>>,
         NEW o, o = PopSegment(s, t)
  PROVE  Fine(o, S, p, r) /\ Drives(o, s, t) /\ o.train[t].path # <<>>
<1> DEFINE path == s.train[t].path
           ahead == {i \in 2 .. Len(path) : Type(path[i].node) = "SENSOR"}
           next == SensorFrom(path, 2)
           k == IF next = 0 THEN Len(path) - 1 ELSE next - 1
           rest == SubSeq(path, k + 1, Len(path))
<1>1. path \in Seq(PathNodes) /\ path # <<>>
  BY ConductorFields, TrainFields DEF Fine
<1>2. o = [s EXCEPT !.train[t].path = SubSeq(@, IF next = 0 THEN Len(path) ELSE next, Len(path))]
  BY DEF PopSegment
<1> HIDE DEF path
<1>3. Len(path) \in Nat /\ Len(path) > 0
  BY <1>1
<1>4. next = 0 \/ next \in 2 .. Len(path)
  <2>1. ahead \in SUBSET Nat /\ ahead \subseteq 2 .. Len(path) /\ next = Least(ahead)
    BY <1>3 DEF SensorFrom
  <2> HIDE DEF ahead, next
  <2> QED BY <2>1, LeastOf
<1> HIDE DEF next
<1>5. k \in 0 .. Len(path) /\ k < Len(path) /\ k + 1 = IF next = 0 THEN Len(path) ELSE next
  BY <1>3, <1>4
<1> HIDE DEF k
<1>6. rest \in Seq(PathNodes) /\ rest # <<>>
  <2> HIDE DEF rest
  <2>1. rest = SubSeq(path, k + 1, Len(path))
    BY DEF rest
  <2>2. rest \in Seq(PathNodes) /\ Len(rest) = Len(path) - k
    BY <1>1, <1>5, <2>1, RestOf
  <2> QED BY <1>3, <1>5, <2>2
<1>7. o = PathSet(s, t, rest)
  BY <1>2, <1>5 DEF PathSet, path
<1> HIDE DEF rest
<1> QED
  BY <1>6, <1>7, PathGiven

LEMMA ModeGiven ==
  ASSUME NEW s, NEW S, NEW p, NEW r, Fine(s, S, p, r), NEW t \in TrainSet, NEW demo \in BOOLEAN,
         NEW o, o = InMode(s, t, demo)
  PROVE  Fine(o, S, p, r) /\ Drives(o, s, t)
<1>1. s \in Conductors
  BY DEF Fine
<1>2. demo = TRUE \/ demo = FALSE
  OBVIOUS
<1>3. PICK a \in BOOLEAN, b \in BOOLEAN : o = ModeSet(s, t, a, b)
  <2>1. o = ModeSet(s, t, ~demo, demo)
    BY DEF InMode, ModeSet
  <2> QED BY <2>1
<1>4. /\ Follows(o, s, t) /\ o.who = s.who /\ o.dropped = s.dropped
      /\ Stays(o.train[t], s.train[t]) /\ Told(o.train[t], s.train[t])
      /\ o.train[t].reserved_nodes = s.train[t].reserved_nodes
      /\ o.train[t].destination_node = s.train[t].destination_node
  BY <1>1, <1>3, ModePut
<1>5. Fine(o, S, p, r)
  BY <1>4, FineKept
<1> QED
  BY <1>4, <1>5 DEF Drives

LEMMA IndexGiven ==
  ASSUME NEW s, NEW S, NEW p, NEW r, Fine(s, S, p, r), NEW t \in TrainSet, NEW k \in Nat \ {0},
         NEW o, o = IndexSet(s, t, k)
  PROVE  Fine(o, S, p, r)
<1>1. s \in Conductors
  BY DEF Fine
<1>2. /\ Follows(o, s, t) /\ o.who = s.who /\ o.dropped = s.dropped
      /\ Stays(o.train[t], s.train[t]) /\ Told(o.train[t], s.train[t])
      /\ o.train[t].reserved_nodes = s.train[t].reserved_nodes
  BY <1>1, IndexPut
<1> QED
  BY <1>2, FineKept

LEMMA SensorGiven ==
  ASSUME NEW s, NEW S, NEW p, NEW r, Fine(s, S, p, r), NEW t \in TrainSet, NEW n \in Index,
         NEW o, o = SensorSet(s, t, n)
  PROVE  /\ Fine(o, S, p, r) /\ Follows(o, s, t) /\ o.dropped = s.dropped
         /\ o.train[t].spawned = s.train[t].spawned /\ o.train[t].last_sensor = n
         /\ Told(o.train[t], s.train[t])
         /\ o.train[t].destination_node = s.train[t].destination_node
         /\ o.train[t].path = s.train[t].path
<1>1. s \in Conductors
  BY DEF Fine
<1>2. /\ Follows(o, s, t) /\ o.who = s.who /\ o.dropped = s.dropped
      /\ Told(o.train[t], s.train[t]) /\ o.train[t].spawned = s.train[t].spawned
      /\ o.train[t].last_sensor = n
      /\ o.train[t].reserved_nodes = s.train[t].reserved_nodes
      /\ o.train[t].destination_node = s.train[t].destination_node
      /\ o.train[t].path = s.train[t].path
  BY <1>1, SensorPut
<1>3. TrainFine(o.train[t])
  <2>1. o.train[t] \in TrainRecords
    BY <1>2, ConductorFields DEF Follows
  <2>2. n # None
    BY NodeNumbers
  <2> QED BY <1>2, <2>1, <2>2 DEF Fine, TrainFine, Told
<1>4. \A m \in Index : o.who[m] = t => m \in Both(NodesIn(o.train[t].reserved_nodes))
  BY <1>2 DEF Fine
<1>5. ~o.dropped => Known(o.train[t].isMoving, p[t] \o o.train[t].train_commands, r[t])
  BY <1>2 DEF Fine, Told
<1>6. \A m \in Index : o.who[m] \in {t, NoTrain, s.who[m]}
  BY <1>2
<1>7. Fine(o, S, p, r)
  BY <1>2, <1>3, <1>4, <1>5, <1>6, FineAfter
<1> QED
  BY <1>2, <1>7

-----------------------------------------------------------------------------
(* GOTO.                                                                   *)

LEMMA LeavingsTyped == Leavings \subseteq PathNodes
<1> SUFFICES ASSUME NEW x \in Leavings PROVE x \in PathNodes
  OBVIOUS
<1>1. PICK m \in Index : \E sw \in IF Type(m) = "BRANCH" THEN Dirs(m) ELSE {UNINITIALIZED} : x = PathNode(m, sw)
  BY DEF Leavings
<1>2. PICK sw \in IF Type(m) = "BRANCH" THEN Dirs(m) ELSE {UNINITIALIZED} : x = PathNode(m, sw)
  BY <1>1
<1>3. sw \in {STRAIGHT, CURVED, UNINITIALIZED}
  <2>1. CASE Type(m) = "BRANCH"
    <3>1. Dirs(m) = 0 .. 1
      BY <2>1 DEF Dirs, num_edges, EdgesOf
    <3> QED BY <1>2, <2>1, <3>1 DEF STRAIGHT, CURVED
  <2>2. CASE Type(m) # "BRANCH"
    BY <1>2, <2>2
  <2> QED BY <2>1, <2>2
<1> QED
  BY <1>2, <1>3 DEF PathNode, PathNodes

\* A path that is found is a sequence of nodes, and has a node.
LEMMA PathsTyped ==
  ASSUME NEW c, NEW start \in Index, NEW dest \in Index, NEW blocked,
         NEW path \in PathsGiven(c, start, dest, blocked)
  PROVE  path \in Seq(PathNodes) /\ path # <<>>
<1> DEFINE N == Cardinality(Index)
           Before(n, k) ==
             {x \in into[n] : x.node \notin blocked /\ c[x.node] < INFINITY
                                /\ c[x.node] + Dist(x.node, DirOf(x)) = k}
             \cup (IF n = Reverse(start) /\ k = REVERSE_COST THEN {PathNode(start, UNINITIALIZED)} ELSE {})
           D == [PathNodes -> SUBSET Seq(PathNodes)]
           More(f, x) == {Append(w, x) : w \in UNION {f[q] : q \in Before(x.node, c[x.node])}}
           E(f, k) == [x \in PathNodes |->
                         IF x.node = start THEN {<<x>>} ELSE IF k = 0 THEN {} ELSE More(f[k - 1], x)]
           b == [x \in PathNodes |-> IF x.node = start THEN {<<x>>} ELSE {}]
           H == [k \in 1 .. N |-> [f \in D |-> [x \in PathNodes |-> IF x.node = start THEN {<<x>>} ELSE More(f, x)]]]
           ways == CHOOSE f : f = [k \in 0 .. N |-> E(f, k)]
           goal == PathNode(dest, UNINITIALIZED)
           cost == CostGiven(c, start, dest, blocked)
<1>1. ASSUME NEW n \in Index, NEW k PROVE Before(n, k) \subseteq PathNodes
  <2>1. into[n] \subseteq Leavings
    BY DEF into
  <2>2. PathNode(start, UNINITIALIZED) \in PathNodes
    BY DEF PathNode, PathNodes
  <2> QED
    BY <2>1, <2>2, LeavingsTyped
<1>2. goal \in PathNodes /\ \A x \in PathNodes : x.node \in Index
  BY DEF PathNode, PathNodes
<1> HIDE DEF Before
<1>3. ASSUME NEW f \in D, NEW x \in PathNodes PROVE More(f, x) \in SUBSET Seq(PathNodes)
  <2>1. \A q \in Before(x.node, c[x.node]) : f[q] \subseteq Seq(PathNodes)
    BY <1>1, <1>2
  <2>2. \A w \in UNION {f[q] : q \in Before(x.node, c[x.node])} : w \in Seq(PathNodes)
    BY <2>1
  <2>3. \A w \in Seq(PathNodes) : Append(w, x) \in Seq(PathNodes)
    OBVIOUS
  <2> QED BY <2>2, <2>3
<1>4. \A x \in PathNodes : <<x>> \in Seq(PathNodes)
  OBVIOUS
<1> HIDE DEF More
<1>5. N \in Nat
  BY NodeNumbers
<1> HIDE DEF N
<1>6. b \in D /\ H \in [1 .. N -> [D -> D]]
  BY <1>3, <1>4
<1>7. \A f \in D, k \in 1 .. N : H[k][f] = [x \in PathNodes |-> IF x.node = start THEN {<<x>>} ELSE More(f, x)]
  OBVIOUS
<1>8. \E g : g = [k \in 0 .. N |-> E(g, k)]
  <2> HIDE DEF H, D, b
  <2>1. PICK g : InSteps(g, N, D, b, H)
    BY <1>5, <1>6, StepsExist
  <2>2. ASSUME NEW k \in 0 .. N PROVE g[k] = E(g, k)
    <3>1. CASE k = 0
      BY <2>1, <3>1 DEF b, InSteps
    <3>2. CASE k # 0
      <4>1. k \in 1 .. N /\ k - 1 \in 0 .. N
        BY <1>5, <3>2
      <4>2. g[k - 1] \in D /\ g[k] = H[k][g[k - 1]]
        BY <2>1, <4>1 DEF InSteps
      <4> QED BY <1>7, <3>2, <4>1, <4>2
    <3> QED BY <3>1, <3>2
  <2>3. g = [k \in 0 .. N |-> E(g, k)]
    <3>1. g \in [0 .. N -> D]
      BY <2>1 DEF InSteps
    <3> HIDE DEF E
    <3> QED BY <2>2, <3>1
  <2> QED BY <2>3
<1>9. ways = [k \in 0 .. N |-> E(ways, k)]
  <2> HIDE DEF E
  <2> QED BY <1>8
<1>10. path \in {Append(w, goal) : w \in UNION {ways[N][q] : q \in Before(dest, cost)}}
  <2>1. PathsGiven(c, start, dest, blocked) =
          IF cost = INFINITY THEN {}
          ELSE {Append(w, goal) : w \in UNION {ways[N][q] : q \in Before(dest, cost)}}
    BY DEF PathsGiven, N, Before, More
  <2> HIDE DEF ways, goal, cost
  <2> QED BY <2>1
<1> HIDE DEF ways, goal, cost
<1>11. \A k \in 0 .. N : ways[k] \in D
  <2>1. ways[0] \in D
    <3>1. ways[0] = b
      BY <1>5, <1>9
    <3> QED BY <1>6, <3>1
  <2>2. ASSUME NEW k \in 1 .. N, ways[k - 1] \in D PROVE ways[k] \in D
    <3>1. ways[k] = [x \in PathNodes |-> IF x.node = start THEN {<<x>>} ELSE More(ways[k - 1], x)]
      <4>1. k \in 0 .. N /\ k # 0
        BY <1>5
      <4>2. ways[k] = E(ways, k)
        <5> HIDE DEF E
        <5> QED BY <1>9, <4>1
      <4> QED BY <4>1, <4>2
    <3> QED BY <1>3, <1>4, <2>2, <3>1
  <2> HIDE DEF D
  <2> QED
    BY <1>5, <2>1, <2>2, StepsStay
<1>12. \A q \in PathNodes : ways[N][q] \subseteq Seq(PathNodes)
  BY <1>5, <1>11
<1>13. PICK w \in Seq(PathNodes) : path = Append(w, goal)
  <2>1. Before(dest, cost) \subseteq PathNodes
    BY <1>1
  <2> QED BY <1>10, <1>12, <2>1
<1> QED
  BY <1>2, <1>13

LEMMA GotoPathsTyped ==
  ASSUME NEW s \in Conductors, NEW t \in TrainSet, s.train[t].last_sensor \in Index, NEW dest \in Index,
         NEW path \in GotoPaths(s, t, dest)
  PROVE  path \in Seq(PathNodes) /\ path # <<>>
<1> DEFINE start == s.train[t].last_sensor
           others == {n \in Index : s.who[n] \notin {NoTrain, t}}
<1>1. path \in ShortestPaths(start, dest, others) \/ path \in ShortestPaths(start, dest, {})
  BY DEF GotoPaths
<1>2. \A b : ShortestPaths(start, dest, b) = PathsGiven(Cost(start, b), start, dest, b)
  BY DEF ShortestPaths
<1> QED
  BY <1>1, <1>2, PathsTyped

\* A command is given, after what it says has been noted in x.
LEMMA ToldNow ==
  ASSUME NEW s, NEW S, NEW p, NEW r, Fine(s, S, p, r), NEW t \in TrainSet, NEW cmd \in Commands,
         NEW x, Follows(x, s, t), Stays(x.train[t], s.train[t]),
         x.train[t].train_commands = s.train[t].train_commands,
         x.train[t].reserved_nodes = s.train[t].reserved_nodes, x.who = s.who, x.dropped = s.dropped,
         Obeys(cmd, s.train[t].isMoving, x.train[t].isMoving),
         NEW o, o = PushCommand(x, t, cmd)
  PROVE  /\ Fine(o, S, p, r) /\ Follows(o, s, t) /\ Stays(o.train[t], s.train[t])
         /\ o.train[t].destination_node = x.train[t].destination_node
         /\ o.train[t].path = x.train[t].path /\ o.train[t].isMoving = x.train[t].isMoving
         /\ o.train[t].reserved_nodes = s.train[t].reserved_nodes
<1>1. x \in Conductors /\ Len(x.train[t].train_commands) <= QUEUE
  BY DEF Fine, TrainFine, Follows
<1>2. /\ Follows(o, x, t) /\ o.who = x.who
      /\ Stays(o.train[t], x.train[t]) /\ o.train[t].isMoving = x.train[t].isMoving
      /\ o.train[t].reserved_nodes = x.train[t].reserved_nodes
      /\ o.train[t].destination_node = x.train[t].destination_node
      /\ o.train[t].path = x.train[t].path
      /\ Len(o.train[t].train_commands) <= QUEUE
      /\ ~o.dropped => ~x.dropped /\ o.train[t].train_commands = Append(x.train[t].train_commands, cmd)
  <2>1. Pushes(o, x, t, cmd)
    BY <1>1, Pushed
  <2> QED BY <2>1 DEF Pushes
<1>3. Obeys(cmd, s.train[t].isMoving, o.train[t].isMoving)
  BY <1>2
<1>4. Fine(o, S, p, r)
  BY <1>2, <1>3, FineTold
<1>5. Follows(o, s, t)
  BY <1>2, FollowsFollows
<1> QED
  BY <1>2, <1>4, <1>5 DEF Stays

LEMMA FollowsItself ==
  ASSUME NEW s, NEW S, NEW p, NEW r, Fine(s, S, p, r), NEW t
  PROVE  Follows(s, s, t) /\ Stays(s.train[t], s.train[t]) /\ Told(s.train[t], s.train[t])
BY DEF Follows, Stays, Told, Fine

LEMMA TurnQueued ==
  ASSUME NEW s, NEW S, NEW p, NEW r, Fine(s, S, p, r), NEW t \in TrainSet,
         NEW o, o = PushCommand(s, t, "REVERSE")
  PROVE  Fine(o, S, p, r)
<1> DEFINE cmd == "REVERSE"
<1>1. cmd \in Commands
  BY DEF Commands
<1>2. Obeys(cmd, s.train[t].isMoving, s.train[t].isMoving)
  BY DEF Obeys
<1> HIDE DEF cmd
<1>3. o = PushCommand(s, t, cmd)
  BY DEF cmd
<1> QED
  BY <1>1, <1>2, <1>3, FollowsItself, ToldNow

\* Nothing that a GOTO can lead to is out of order.
AllFine(A, S, p, r) == \A o \in A : Fine(o, S, p, r)
Drivable(paths) == \A q \in paths : q \in Seq(PathNodes) /\ q # <<>>

\* The steps of a GOTO, one after the other.
LEMMA SentOff ==
  ASSUME NEW s, NEW S, NEW p, NEW r, Fine(s, S, p, r), NEW t \in TrainSet, NEW dest \in Index,
         NEW paths, Drivable(paths), NEW o \in GotoOutcomesOf(paths, s, t, dest)
  PROVE  Fine(o, S, p, r)
<1> DEFINE f == Freed(s, t, dest)
           Turns(x) == x.train[t].last_sensor = Reverse(x.train[t].path[1].node)
           T(x) == IF Turns(x) THEN PushCommand(x, t, "REVERSE") ELSE x
<1>1. PICK q \in paths : o = SwitchNextSegment(T(PopSegment(SwitchNextSegment(
                               ReservePath([f EXCEPT !.train[t].path = q], t), t), t)), t)
  <2> HIDE DEF T, f
  <2>1. o \in {SwitchNextSegment(T(x), t) : x \in
                {PopSegment(x, t) : x \in {SwitchNextSegment(y, t) : y \in
                  {ReservePath([f EXCEPT !.train[t].path = q], t) : q \in paths}}}}
    BY DEF GotoOutcomesOf, T, f
  <2> QED BY <2>1
<1> DEFINE a == PathSet(f, t, q)
           b == ReservePath(a, t)
           c == SwitchNextSegment(b, t)
           d == PopSegment(c, t)
           e == T(d)
<1>2. q \in Seq(PathNodes) /\ q # <<>>
  BY DEF Drivable
<1>3. Fine(f, S, p, r)
  BY PathFreed
<1>4. Fine(a, S, p, r) /\ a.train[t].path = q
  <2> HIDE DEF f
  <2> QED BY <1>2, <1>3, PathGiven
<1>5. Fine(b, S, p, r) /\ b.train[t].path = q
  <2> HIDE DEF a
  <2> QED BY <1>4, Reserved DEF Reserves
<1>6. Fine(c, S, p, r) /\ c.train[t].path = q
  <2> HIDE DEF b
  <2>1. c = Throw(b, Stretch(b.train[t].path))
    BY DEF SwitchNextSegment
  <2> HIDE DEF c
  <2> QED BY <1>5, <2>1, Thrown
<1>7. Fine(d, S, p, r)
  <2> HIDE DEF c
  <2> QED BY <1>2, <1>6, SegmentPopped
<1>8. Fine(e, S, p, r)
  <2> HIDE DEF d
  <2> QED BY <1>7, TurnQueued
<1>9. o = SwitchNextSegment(e, t)
  <2>1. a = [f EXCEPT !.train[t].path = q]
    BY DEF PathSet
  <2> HIDE DEF a, f, T
  <2> QED BY <1>1, <2>1
<1>10. o = Throw(e, Stretch(e.train[t].path))
  <2> HIDE DEF e
  <2> QED BY <1>9 DEF SwitchNextSegment
<1> HIDE DEF e
<1> QED
  BY <1>8, <1>10, Thrown

LEMMA LastSensorOf ==
  ASSUME NEW s, NEW S, NEW p, NEW r, Fine(s, S, p, r), NEW t \in TrainSet, s.train[t].spawned
  PROVE  s \in Conductors /\ s.train[t].last_sensor \in Index
<1>1. s \in Conductors /\ TrainFine(s.train[t])
  BY DEF Fine
<1>2. s.train[t].last_sensor \in Index \cup {None}
  BY <1>1, ConductorFields, TrainFields
<1> QED
  BY <1>1, <1>2 DEF TrainFine

LEMMA WorldFields ==
  ASSUME world \in Worlds
  PROVE  /\ world.trains \subseteq TrainSet /\ world.home \in [TrainSet -> Index]
         /\ world.dests \subseteq Index /\ world.turnouts \subseteq Index
         /\ world.demo \in [TrainSet -> Seq(Index)]
         /\ \A t \in TrainSet : Type(world.home[t]) = "SENSOR"
BY ConductorAssumption DEF ConductorAssumption

LEMMA GotoFine ==
  ASSUME NEW s, NEW S, NEW p, NEW r, Fine(s, S, p, r), NEW t \in TrainSet, s.train[t].spawned,
         NEW dest \in Index
  PROVE  Drivable(GotoPaths(s, t, dest)) /\ AllFine(GotoOutcomes(s, t, dest), S, p, r)
<1>1. Drivable(GotoPaths(s, t, dest))
  BY LastSensorOf, GotoPathsTyped DEF Drivable
<1>2. \A o \in GotoOutcomesOf(GotoPaths(s, t, dest), s, t, dest) : Fine(o, S, p, r)
  <2> DEFINE P == GotoPaths(s, t, dest)
  <2>1. Drivable(P)
    BY <1>1
  <2> HIDE DEF P
  <2>2. \A o \in GotoOutcomesOf(P, s, t, dest) : Fine(o, S, p, r)
    BY <2>1, SentOff
  <2> QED BY <2>2 DEF P
<1> QED
  BY <1>1, <1>2 DEF AllFine, GotoOutcomes

LEMMA OwnFine ==
  ASSUME world \in Worlds, NEW s, NEW S, NEW p, NEW r, Fine(s, S, p, r), NEW t \in TrainSet, s.train[t].spawned
  PROVE  AllFine(OwnOutcomes(s, t), S, p, r)
<1>1. AllFine(NewCommandOutcomes(s, t), S, p, r)
  <2> SUFFICES ASSUME NEW o \in NewCommandOutcomes(s, t) PROVE Fine(o, S, p, r)
    BY DEF AllFine
  <2>1. PICK d \in world.dests : o \in GotoOutcomes(s, t, d)
    BY DEF NewCommandOutcomes
  <2>2. d \in Index
    BY WorldFields
  <2> QED BY <2>1, <2>2, GotoFine DEF AllFine
<1>2. AllFine(DemoOutcomes(s, t), S, p, r)
  <2> SUFFICES ASSUME NEW o \in DemoOutcomes(s, t) PROVE Fine(o, S, p, r)
    BY DEF AllFine
  <2> DEFINE k == s.train[t].command_index
             d == world.demo[t][k]
  <2>1. k \in Nat \ {0}
    BY ConductorFields, TrainFields DEF Fine
  <2>2. CASE k > Len(world.demo[t])
    BY <2>2 DEF DemoOutcomes
  <2>3. CASE ~(k > Len(world.demo[t]))
    <3>1. PICK x \in GotoOutcomes(s, t, d) : o = [x EXCEPT !.train[t].command_index = k + 1]
      BY <2>3 DEF DemoOutcomes
    <3>2. d \in Index
      <4>1. world.demo[t] \in Seq(Index)
        BY WorldFields
      <4> HIDE DEF k
      <4> QED BY <2>1, <2>3, <4>1
    <3>3. Fine(x, S, p, r)
      <4> HIDE DEF d
      <4> QED BY <3>1, <3>2, GotoFine DEF AllFine
    <3> HIDE DEF d, k
    <3>4. o = IndexSet(x, t, k + 1) /\ k + 1 \in Nat \ {0}
      BY <2>1, <3>1 DEF IndexSet
    <3> QED BY <3>3, <3>4, IndexGiven
  <2> QED BY <2>2, <2>3
<1> QED
  BY <1>1, <1>2 DEF OwnOutcomes, AllFine

LEMMA OrderedFine ==
  ASSUME world \in Worlds, NEW s, NEW S, NEW p, NEW r, Fine(s, S, p, r), NEW t \in TrainSet, s.train[t].spawned,
         NEW dest \in Index
  PROVE  AllFine(OrderedOutcomes(s, t, dest), S, p, r)
<1> DEFINE f == Freed(s, t, dest)
<1>1. Fine(f, S, p, r) /\ f.train[t].spawned
  BY PathFreed DEF Stays
<1> HIDE DEF f
<1>2. AllFine(OwnOutcomes(f, t), S, p, r)
  BY <1>1, OwnFine
<1>3. AllFine(GotoOutcomesOf(GotoPaths(s, t, dest), s, t, dest), S, p, r)
  BY GotoFine DEF GotoOutcomes
<1>4. \A o \in OrderedOutcomes(s, t, dest) :
        o \in GotoOutcomesOf(GotoPaths(s, t, dest), s, t, dest) \/ o \in OwnOutcomes(f, t)
  BY DEF OrderedOutcomes, f
<1> QED
  BY <1>2, <1>3, <1>4 DEF AllFine

LEMMA ModeFine ==
  ASSUME world \in Worlds, NEW s, NEW S, NEW p, NEW r, Fine(s, S, p, r), NEW demo \in BOOLEAN
  PROVE  AllFine(ModeOutcomes(s, demo), S, p, r)
<1> DEFINE N == Len(Trains)
           Good == {o \in Conductors : Fine(o, S, p, r)}
           D == SUBSET Good
           W(o, i) == IF o.train[Trains[i]].spawned
                        THEN OwnOutcomes(InMode(o, Trains[i], demo), Trains[i]) ELSE {o}
           E(f, i) == IF i = 0 THEN {s} ELSE UNION {W(o, i) : o \in f[i - 1]}
           b == {s}
           H == [i \in 1 .. N |-> [A \in D |-> UNION {W(o, i) : o \in A}]]
           upto == CHOOSE f : f = [i \in 0 .. N |-> E(f, i)]
<1>1. N \in Nat /\ \A i \in 1 .. N : Trains[i] \in TrainSet
  <2>1. Trains \in Seq(Nat)
    BY ConductorAssumption DEF ConductorAssumption
  <2> QED BY <2>1 DEF TrainSet
<1>2. s \in Good
  BY DEF Fine
<1>3. ASSUME NEW o \in Good, NEW i \in 1 .. N PROVE W(o, i) \in D
  <2> DEFINE t == Trains[i]
             m == InMode(o, t, demo)
  <2>1. t \in TrainSet
    BY <1>1
  <2>2. CASE ~o.train[t].spawned
    BY <2>2
  <2>3. CASE o.train[t].spawned
    <3> HIDE DEF t
    <3>1. Fine(m, S, p, r) /\ m.train[t].spawned = o.train[t].spawned
      BY <2>1, ModeGiven DEF Drives, Stays
    <3> HIDE DEF m
    <3>2. AllFine(OwnOutcomes(m, t), S, p, r)
      BY <2>1, <2>3, <3>1, OwnFine
    <3>3. OwnOutcomes(m, t) \subseteq Good
      BY <3>2 DEF AllFine, Fine
    <3>4. W(o, i) = OwnOutcomes(m, t)
      BY <2>3 DEF m, t
    <3> HIDE DEF W
    <3> QED BY <3>3, <3>4
  <2> QED BY <2>2, <2>3
<1> HIDE DEF Good, W, N
<1>4. b \in D /\ H \in [1 .. N -> [D -> D]] /\ \A A \in D, i \in 1 .. N : H[i][A] = UNION {W(o, i) : o \in A}
  BY <1>2, <1>3
<1>5. \E g : g = [i \in 0 .. N |-> E(g, i)]
  <2> HIDE DEF H, D, b
  <2>1. PICK g : InSteps(g, N, D, b, H)
    BY <1>1, <1>4, StepsExist
  <2>2. ASSUME NEW i \in 0 .. N PROVE g[i] = E(g, i)
    <3>1. CASE i = 0
      BY <2>1, <3>1 DEF b, InSteps
    <3>2. CASE i # 0
      <4>1. i \in 1 .. N /\ i - 1 \in 0 .. N
        BY <1>1, <3>2
      <4>2. g[i - 1] \in D /\ g[i] = H[i][g[i - 1]]
        BY <2>1, <4>1 DEF InSteps
      <4> QED BY <1>4, <3>2, <4>1, <4>2
    <3> QED BY <3>1, <3>2
  <2>3. g = [i \in 0 .. N |-> E(g, i)]
    <3>1. g \in [0 .. N -> D]
      BY <2>1 DEF InSteps
    <3> HIDE DEF E
    <3> QED BY <2>2, <3>1
  <2> QED BY <2>3
<1>6. upto = [i \in 0 .. N |-> E(upto, i)]
  <2> HIDE DEF E
  <2> QED BY <1>5
<1>7. ModeOutcomes(s, demo) = upto[N]
  BY DEF ModeOutcomes, W, N
<1> HIDE DEF upto
<1>8. \A i \in 0 .. N : upto[i] \in D
  <2>1. upto[0] \in D
    <3>1. upto[0] = b
      BY <1>1, <1>6
    <3> QED BY <1>4, <3>1
  <2>2. ASSUME NEW i \in 1 .. N, upto[i - 1] \in D PROVE upto[i] \in D
    <3>1. i \in 0 .. N /\ i # 0
      BY <1>1
    <3>2. upto[i] = UNION {W(o, i) : o \in upto[i - 1]}
      BY <1>6, <3>1
    <3> QED BY <1>3, <2>2, <3>2
  <2> HIDE DEF D
  <2> QED
    BY <1>1, <2>1, <2>2, StepsStay
<1> QED
  BY <1>1, <1>7, <1>8 DEF AllFine, Good

LEMMA OneStopped ==
  ASSUME NEW s, NEW S, NEW p, NEW r, Fine(s, S, p, r), NEW t \in TrainSet,
         NEW x, x = StillSet(s, t) \/ x = StandingSet(s, t),
         NEW o, o = PushCommand(x, t, "STOP")
  PROVE  Fine(o, S, p, r) /\ Follows(o, s, t) /\ Stays(o.train[t], s.train[t])
<1> DEFINE cmd == "STOP"
<1>1. s \in Conductors /\ cmd \in Commands
  BY DEF Fine, Commands
<1>2. Notes(x, s, t, FALSE)
  <2>1. CASE x = StillSet(s, t)
    BY <1>1, <2>1, StillPut
  <2>2. CASE x = StandingSet(s, t)
    BY <1>1, <2>2, StandingPut
  <2> QED BY <2>1, <2>2
<1>3. /\ Follows(x, s, t) /\ Stays(x.train[t], s.train[t])
      /\ x.train[t].train_commands = s.train[t].train_commands
      /\ x.train[t].reserved_nodes = s.train[t].reserved_nodes /\ x.who = s.who /\ x.dropped = s.dropped
      /\ x.train[t].isMoving = FALSE
  BY <1>2 DEF Notes
<1>4. Obeys(cmd, s.train[t].isMoving, x.train[t].isMoving)
  BY <1>3 DEF Obeys
<1>5. o = PushCommand(x, t, cmd)
  OBVIOUS
<1> HIDE DEF cmd
<1> QED
  BY <1>1, <1>3, <1>4, <1>5, ToldNow

LEMMA AllStopped ==
  ASSUME NEW s, NEW S, NEW p, NEW r, Fine(s, S, p, r)
  PROVE  Fine(StopAllTrains(s), S, p, r)
<1> DEFINE N == Len(Trains)
           D == {o \in Conductors : Fine(o, S, p, r)}
           W(o, i) == IF ~o.train[Trains[i]].spawned THEN o
                      ELSE PushCommand([o EXCEPT !.train[Trains[i]].auto_mode = FALSE,
                                                 !.train[Trains[i]].demo_mode = FALSE,
                                                 !.train[Trains[i]].isMoving = FALSE], Trains[i], "STOP")
           E(f, i) == IF i = 0 THEN s ELSE W(f[i - 1], i)
           H == [i \in 1 .. N |-> [o \in D |-> W(o, i)]]
           upto == CHOOSE f : f = [i \in 0 .. N |-> E(f, i)]
<1>1. N \in Nat /\ \A i \in 1 .. N : Trains[i] \in TrainSet
  <2>1. Trains \in Seq(Nat)
    BY ConductorAssumption DEF ConductorAssumption
  <2> QED BY <2>1 DEF TrainSet
<1>2. s \in D
  BY DEF Fine
<1>3. ASSUME NEW o \in D, NEW i \in 1 .. N PROVE W(o, i) \in D
  <2> DEFINE t == Trains[i]
             x == StillSet(o, t)
             y == PushCommand(x, t, "STOP")
  <2>1. t \in TrainSet
    BY <1>1
  <2>2. CASE ~o.train[t].spawned
    BY <2>2
  <2>3. CASE o.train[t].spawned
    <3>1. W(o, i) = y
      BY <2>3 DEF StillSet
    <3> HIDE DEF W, t, x
    <3>2. Fine(y, S, p, r)
      BY <2>1, OneStopped DEF x
    <3> HIDE DEF y
    <3> QED BY <3>1, <3>2 DEF Fine
  <2> QED BY <2>2, <2>3
<1> HIDE DEF D, W, N
<1>4. H \in [1 .. N -> [D -> D]] /\ \A o \in D, i \in 1 .. N : H[i][o] = W(o, i)
  BY <1>3
<1>5. \E g : g = [i \in 0 .. N |-> E(g, i)]
  <2> HIDE DEF H
  <2>1. PICK g : InSteps(g, N, D, s, H)
    BY <1>1, <1>2, <1>4, StepsExist
  <2>2. ASSUME NEW i \in 0 .. N PROVE g[i] = E(g, i)
    <3>1. CASE i = 0
      BY <2>1, <3>1 DEF InSteps
    <3>2. CASE i # 0
      <4>1. i \in 1 .. N /\ i - 1 \in 0 .. N
        BY <1>1, <3>2
      <4>2. g[i - 1] \in D /\ g[i] = H[i][g[i - 1]]
        BY <2>1, <4>1 DEF InSteps
      <4> QED BY <1>4, <3>2, <4>1, <4>2
    <3> QED BY <3>1, <3>2
  <2>3. g = [i \in 0 .. N |-> E(g, i)]
    <3>1. g \in [0 .. N -> D]
      BY <2>1 DEF InSteps
    <3> HIDE DEF E
    <3> QED BY <2>2, <3>1
  <2> QED BY <2>3
<1>6. upto = [i \in 0 .. N |-> E(upto, i)]
  <2> HIDE DEF E
  <2> QED BY <1>5
<1>7. StopAllTrains(s) = upto[N]
  BY DEF StopAllTrains, W, N
<1> HIDE DEF upto
<1>8. \A i \in 0 .. N : upto[i] \in D
  <2>1. upto[0] \in D
    BY <1>1, <1>2, <1>6
  <2>2. ASSUME NEW i \in 1 .. N, upto[i - 1] \in D PROVE upto[i] \in D
    <3>1. i \in 0 .. N /\ i # 0
      BY <1>1
    <3>2. upto[i] = W(upto[i - 1], i)
      BY <1>6, <3>1
    <3> QED BY <1>3, <2>2, <3>2
  <2> QED
    BY <1>1, <2>1, <2>2, StepsStay
<1> QED
  BY <1>1, <1>7, <1>8 DEF D

-----------------------------------------------------------------------------
(* DispatchCommand.                                                        *)

\* As FineAfter, where t may have been handed a command or have obeyed one.
LEMMA FineFor ==
  ASSUME NEW s, NEW S, NEW p, NEW r, Fine(s, S, p, r),
         NEW t \in TrainSet, NEW o, Follows(o, s, t), o.dropped = s.dropped, o.who = s.who,
         TrainFine(o.train[t]), o.train[t].spawned = s.train[t].spawned,
         o.train[t].reserved_nodes = s.train[t].reserved_nodes,
         NEW v \in [TrainSet -> Seq(Commands)], \A u \in TrainSet : u # t => v[u] = p[u],
         NEW z \in [TrainSet -> BOOLEAN], \A u \in TrainSet : u # t => z[u] = r[u],
         ~o.dropped => Known(o.train[t].isMoving, v[t] \o o.train[t].train_commands, z[t])
  PROVE  Fine(o, S, v, z)
<1>1. o \in Conductors
  BY DEF Follows
<1>2. \A u \in TrainSet : TrainFine(o.train[u]) /\ (o.train[u].spawned <=> u \in S)
  BY DEF Fine, Follows
<1>3. \A u \in TrainSet, n \in Index : o.who[n] = u => n \in Both(NodesIn(o.train[u].reserved_nodes))
  BY DEF Fine, Follows
<1>4. ASSUME ~o.dropped, NEW u \in TrainSet
      PROVE  Known(o.train[u].isMoving, v[u] \o o.train[u].train_commands, z[u])
  <2>1. CASE u = t
    BY <1>4, <2>1
  <2>2. CASE u # t
    <3>1. v[u] = p[u] /\ z[u] = r[u] /\ o.train[u] = s.train[u]
      BY <2>2 DEF Follows
    <3>2. Known(s.train[u].isMoving, p[u] \o s.train[u].train_commands, r[u])
      BY <1>4 DEF Fine
    <3> QED BY <3>1, <3>2, Zenon
  <2> QED BY <2>1, <2>2
<1> QED
  BY <1>1, <1>2, <1>3, <1>4 DEF Fine

\* The messengers' commands, as sequences.
Carry(c) == [t \in TrainSet |-> IF c[t] \in Commands THEN <<c[t]>> ELSE <<>>]

\* The states of DispatchCommand.
Rounds ==
  [s : Conductors, sensor : [TrainSet -> BOOLEAN], watch : [TrainSet -> SUBSET Index],
   command : [TrainSet -> Commands \cup {"none", "coming", "conductor"}]]

\* What every step of a round of DispatchCommand keeps.
InOrder(x, S, r) ==
  /\ x \in Rounds /\ Fine(x.s, S, Carry(x.command), r)
  /\ \A t \in TrainSet : t \notin S => x.command[t] \notin Commands

LEMMA RoundFields ==
  ASSUME NEW x \in Rounds
  PROVE  /\ x.s \in Conductors /\ x.sensor \in [TrainSet -> BOOLEAN]
         /\ x.watch \in [TrainSet -> SUBSET Index]
         /\ x.command \in [TrainSet -> Commands \cup {"none", "coming", "conductor"}]
BY DEF Rounds

\* Its assignments.
StateSet(x, a) == [x EXCEPT !.s = a]
WatchSet(x, t, a, w) == [x EXCEPT !.s = a, !.sensor[t] = FALSE, !.watch[t] = w]
GivenSet(x, t, a, c) == [x EXCEPT !.s = a, !.command[t] = c]

LEMMA StatePut ==
  ASSUME NEW x \in Rounds, NEW a \in Conductors, NEW y, y = StateSet(x, a)
  PROVE  y \in Rounds /\ y.s = a /\ y.sensor = x.sensor /\ y.watch = x.watch /\ y.command = x.command
BY DEF StateSet, Rounds

LEMMA WatchPut ==
  ASSUME NEW x \in Rounds, NEW t \in TrainSet, NEW a \in Conductors, NEW w \in SUBSET Index,
         NEW y, y = WatchSet(x, t, a, w)
  PROVE  y \in Rounds /\ y.s = a /\ y.command = x.command
BY DEF WatchSet, Rounds

LEMMA GivenPut ==
  ASSUME NEW x \in Rounds, NEW t \in TrainSet, NEW a \in Conductors, NEW c \in Commands,
         NEW y, y = GivenSet(x, t, a, c)
  PROVE  /\ y \in Rounds /\ y.s = a
         /\ y.command[t] = c /\ \A u \in TrainSet : u # t => y.command[u] = x.command[u]
BY DEF GivenSet, Rounds

LEMMA CarryTyped ==
  ASSUME NEW c
  PROVE  Carry(c) \in [TrainSet -> Seq(Commands)]
<1>1. ASSUME NEW d \in Commands PROVE <<d>> \in Seq(Commands)
  OBVIOUS
<1>2. <<>> \in Seq(Commands)
  OBVIOUS
<1> QED
  BY <1>1, <1>2 DEF Carry

LEMMA SensorsTyped ==
  ASSUME NEW q \in Seq(PathNodes), NEW k \in Nat
  PROVE  SensorFrom(q, k) = 0 \/ SensorFrom(q, k) \in k .. Len(q)
<1> DEFINE T == {i \in k .. Len(q) : Type(q[i].node) = "SENSOR"}
<1>1. Len(q) \in Nat
  OBVIOUS
<1>2. T \in SUBSET Nat /\ T \subseteq k .. Len(q) /\ SensorFrom(q, k) = Least(T)
  BY <1>1 DEF SensorFrom
<1> HIDE DEF T
<1> QED
  BY <1>2, LeastOf

LEMMA ListenTyped ==
  ASSUME NEW s \in Conductors, NEW t \in TrainSet, NEW l, l = Listen(s, t)
  PROVE  l.first \in Index \cup {None} /\ l.second \in Index \cup {None}
<1> DEFINE q == s.train[t].reserved_nodes
           i == SensorFrom(q, 2)
           j == SensorFrom(q, i + 1)
<1>1. q \in Seq(PathNodes)
  BY ConductorFields, TrainFields
<1>2. l = [first |-> SensorAt(q, i), second |-> IF i = 0 THEN None ELSE SensorAt(q, j)]
  BY DEF Listen, TwoFrom
<1> HIDE DEF q
<1>3. Len(q) \in Nat /\ \A k \in 1 .. Len(q) : q[k].node \in Index
  BY <1>1, NodesOf
<1>4. i = 0 \/ i \in 2 .. Len(q)
  <2>1. 2 \in Nat
    OBVIOUS
  <2> QED BY <1>1, <2>1, SensorsTyped
<1> HIDE DEF i
<1>5. j = 0 \/ j \in i + 1 .. Len(q)
  <2>1. i + 1 \in Nat
    BY <1>3, <1>4
  <2> QED BY <1>1, <2>1, SensorsTyped
<1> HIDE DEF j
<1>6. \A k : k = 0 \/ k \in 1 .. Len(q) => SensorAt(q, k) \in Index \cup {None}
  BY <1>3 DEF SensorAt
<1>7. (i = 0 \/ i \in 1 .. Len(q)) /\ (i # 0 => j = 0 \/ j \in 1 .. Len(q))
  BY <1>3, <1>4, <1>5
<1>8. l.first = SensorAt(q, i) /\ l.second = IF i = 0 THEN None ELSE SensorAt(q, j)
  BY <1>2
<1> QED
  BY <1>6, <1>7, <1>8

\* A train that is sent on is told to go, unless it moves.
LEMMA SentFine ==
  ASSUME NEW x, NEW S, NEW r, InOrder(x, S, r), NEW t \in TrainSet,
         NEW l, l.first \in Index \cup {None}, l.second \in Index \cup {None},
         NEW y, y = Sent(x, t, l)
  PROVE  InOrder(y, S, r)
<1> DEFINE s == x.s
           p == Carry(x.command)
           m == l.first
           n == l.second
           waits == SentSet(s, t, m, n)
           w == {m, n} \ {None}
           a == IF s.train[t].isMoving THEN waits ELSE PushCommand(waits, t, "ACCELERATE")
           cmd == "ACCELERATE"
<1>1. x \in Rounds /\ s \in Conductors /\ Fine(s, S, p, r) /\ w \in SUBSET Index
  BY RoundFields DEF InOrder
<1>2. y = WatchSet(x, t, a, w)
  BY DEF Sent, SentSet, WatchSet
<1>0. m \in Awaited /\ n \in Awaited
  BY DEF Awaited
<1>01. waits = SentSet(s, t, m, n)
  OBVIOUS
<1> HIDE DEF s, p, w, m, n, waits, a
<1>3. /\ Follows(waits, s, t) /\ waits.who = s.who /\ waits.dropped = s.dropped
      /\ Stays(waits.train[t], s.train[t])
      /\ waits.train[t].train_commands = s.train[t].train_commands
      /\ waits.train[t].reserved_nodes = s.train[t].reserved_nodes
      /\ waits.train[t].isMoving = TRUE
  <2>1. SetsOff(waits, s, t)
    BY <1>0, <1>01, <1>1, SentPut
  <2> QED BY <2>1 DEF SetsOff
<1>4. waits.train[t].isMoving = TRUE
  BY <1>3
<1>5. ASSUME s.train[t].isMoving PROVE Fine(a, S, p, r)
  <2>1. s.train[t].isMoving = TRUE
    <3>1. s.train[t].isMoving \in BOOLEAN
      BY <1>1, ConductorFields, TrainFields
    <3> QED BY <1>5, <3>1
  <2>2. Told(waits.train[t], s.train[t])
    BY <1>3, <1>4, <2>1 DEF Told
  <2>3. Fine(waits, S, p, r)
    BY <1>1, <1>3, <2>2, FineKept
  <2> QED BY <1>5, <2>3 DEF a
<1>6. ASSUME ~s.train[t].isMoving PROVE Fine(a, S, p, r)
  <2>1. cmd \in Commands
    BY DEF Commands
  <2>2. Obeys(cmd, s.train[t].isMoving, waits.train[t].isMoving)
    BY <1>4 DEF Obeys
  <2>3. a = PushCommand(waits, t, cmd)
    BY <1>6 DEF a
  <2> HIDE DEF cmd
  <2> QED BY <1>1, <1>3, <2>1, <2>2, <2>3, ToldNow
<1>7. Fine(a, S, p, r) /\ a \in Conductors
  <2>1. Fine(a, S, p, r)
    BY <1>5, <1>6
  <2> QED BY <2>1 DEF Fine
<1>8. y \in Rounds /\ y.s = a /\ y.command = x.command
  BY <1>1, <1>2, <1>7, WatchPut
<1> QED
  BY <1>7, <1>8 DEF InOrder, p

LEMMA StateFine ==
  ASSUME NEW x, NEW S, NEW r, InOrder(x, S, r),
         NEW a, Fine(a, S, Carry(x.command), r), NEW y, y = StateSet(x, a)
  PROVE  InOrder(y, S, r)
<1>1. x \in Rounds /\ a \in Conductors
  BY DEF InOrder, Fine
<1>2. y \in Rounds /\ y.s = a /\ y.command = x.command
  BY <1>1, StatePut
<1> QED
  BY <1>2 DEF InOrder

LEMMA SensorStepFine ==
  ASSUME NEW x, NEW S, NEW r, InOrder(x, S, r), NEW t \in TrainSet, NEW y, y = SensorStep(x, t)
  PROVE  InOrder(y, S, r)
<1> DEFINE l == Listen(x.s, t)
           b == StandingSet(x.s, t)
           a == PushCommand(b, t, "STOP")
<1>1. x.s \in Conductors /\ Fine(x.s, S, Carry(x.command), r)
  BY DEF InOrder, Fine
<1>2. l.first \in Index \cup {None} /\ l.second \in Index \cup {None}
  BY <1>1, ListenTyped
<1>3. y = x \/ y = Sent(x, t, l) \/ y = StateSet(x, a)
  BY DEF SensorStep, SensorStepFor, StateSet, StandingSet
<1> HIDE DEF l
<1>4. CASE y = Sent(x, t, l)
  BY <1>2, <1>4, SentFine
<1>5. CASE y = StateSet(x, a)
  <2>1. Fine(a, S, Carry(x.command), r)
    BY <1>1, OneStopped
  <2> HIDE DEF a
  <2> QED BY <1>5, <2>1, StateFine
<1> QED
  BY <1>3, <1>4, <1>5

LEMMA HeadAndTail ==
  ASSUME NEW q \in Seq(Commands), q # <<>>
  PROVE  /\ Head(q) \in Commands /\ Tail(q) \in Seq(Commands) /\ Len(Tail(q)) <= Len(q)
         /\ <<Head(q)>> \o Tail(q) = q /\ <<>> \o q = q
OBVIOUS

\* What goes out of the queue is carried to the train.
LEMMA CommandStepFine ==
  ASSUME NEW x, NEW S, NEW r, InOrder(x, S, r), NEW t \in TrainSet, t \in S,
         NEW y, y = CommandStep(x, t)
  PROVE  InOrder(y, S, r)
<1> DEFINE s == x.s
           q == s.train[t].train_commands
           p == Carry(x.command)
           a == CommandsSet(s, t, Tail(q))
           c == Head(q)
           v == Carry(y.command)
<1>1. x \in Rounds /\ s \in Conductors /\ Fine(s, S, p, r) /\ q \in Seq(Commands)
  <2>1. x \in Rounds /\ s \in Conductors /\ Fine(s, S, p, r)
    BY RoundFields DEF InOrder
  <2> HIDE DEF s
  <2> QED BY <2>1, ConductorFields, TrainFields
<1>2. CASE x.command[t] # "conductor" \/ q = <<>>
  BY <1>2 DEF CommandStep
<1>3. CASE x.command[t] = "conductor" /\ q # <<>>
  <2>1. y = [x EXCEPT !.s.train[t].train_commands = Tail(@), !.command[t] = Head(q)]
    BY <1>3 DEF CommandStep
  <2>2. y = GivenSet(x, t, a, c)
    BY <1>1, <2>1 DEF GivenSet, CommandsSet, Rounds, Conductors, TrainRecords
  <2> HIDE DEF s, p
  <2>4. c \in Commands /\ Tail(q) \in Seq(Commands) /\ Len(Tail(q)) <= Len(q) /\ <<c>> \o Tail(q) = q /\ <<>> \o q = q
    <3> HIDE DEF q
    <3> QED BY <1>1, <1>3, HeadAndTail
  <2>5. /\ Follows(a, s, t) /\ a.who = s.who /\ a.dropped = s.dropped
        /\ Stays(a.train[t], s.train[t]) /\ a.train[t].train_commands = Tail(q)
        /\ a.train[t].isMoving = s.train[t].isMoving
        /\ a.train[t].reserved_nodes = s.train[t].reserved_nodes
    <3> DEFINE e == Tail(q)
    <3>1. e \in Seq(Commands) /\ a = CommandsSet(s, t, e)
      BY <2>4
    <3> HIDE DEF a, e
    <3>2. /\ Follows(a, s, t) /\ a.who = s.who /\ a.dropped = s.dropped
          /\ Stays(a.train[t], s.train[t]) /\ a.train[t].train_commands = e
          /\ a.train[t].isMoving = s.train[t].isMoving
          /\ a.train[t].reserved_nodes = s.train[t].reserved_nodes
      BY <1>1, <3>1, CommandsPut
    <3> QED BY <3>2 DEF e
  <2> HIDE DEF a, c
  <2>6. a \in Conductors
    BY <2>5 DEF Follows
  <2>7. /\ y \in Rounds /\ y.s = a
        /\ y.command[t] = c /\ \A u \in TrainSet : u # t => y.command[u] = x.command[u]
    <3> HIDE DEF v, q
    <3>1. c \in Commands
      BY <2>4
    <3> QED BY <1>1, <2>2, <2>6, <3>1, GivenPut
  <2>8. /\ v[t] = <<c>> /\ \A u \in TrainSet : u # t => v[u] = p[u]
        /\ p[t] = <<>> /\ v \in [TrainSet -> Seq(Commands)]
    <3>1. v \in [TrainSet -> Seq(Commands)]
      BY CarryTyped
    <3>2. "conductor" \notin Commands
      BY DEF Commands
    <3> QED BY <1>3, <2>4, <2>7, <3>1, <3>2 DEF Carry, p
  <2> HIDE DEF v, q
  <2>9. TrainFine(a.train[t])
    <3>1. a.train[t] \in TrainRecords
      BY <2>6, ConductorFields
    <3>2. TrainFine(s.train[t]) /\ QUEUE \in Nat
      BY <1>1, ConductorAssumption DEF Fine, ConductorAssumption
    <3>3. Len(q) <= QUEUE /\ Len(q) \in Nat /\ Len(Tail(q)) \in Nat
      BY <1>1, <2>4, <3>2 DEF TrainFine, q
    <3>4. Len(a.train[t].train_commands) <= QUEUE
      BY <2>4, <2>5, <3>2, <3>3
    <3> QED BY <2>5, <3>1, <3>2, <3>4 DEF TrainFine, Stays
  <2>10. ~a.dropped => Known(a.train[t].isMoving, v[t] \o a.train[t].train_commands, r[t])
    <3>1. ~a.dropped => Known(s.train[t].isMoving, p[t] \o q, r[t])
      BY <1>1, <2>5 DEF Fine, q
    <3>2. p[t] \o q = v[t] \o a.train[t].train_commands
      BY <2>4, <2>5, <2>8
    <3> QED BY <2>5, <3>1, <3>2
  <2>11. Fine(a, S, v, r)
    <3>1. r \in [TrainSet -> BOOLEAN]
      BY <1>1 DEF Fine
    <3>2. a.train[t].spawned = s.train[t].spawned
      BY <2>5 DEF Stays
    <3> QED BY <1>1, <2>5, <2>8, <2>9, <2>10, <3>1, <3>2, FineFor
  <2> QED
    BY <2>7, <2>11 DEF InOrder, v
<1> QED
  BY <1>2, <1>3

LEMMA RetryFine ==
  ASSUME NEW x, NEW S, NEW r, InOrder(x, S, r), NEW t \in TrainSet,
         NEW y, y = [x EXCEPT !.s = Retry(@, t)]
  PROVE  InOrder(y, S, r)
<1> DEFINE a == Retry(x.s, t)
           b == ReservePath(x.s, t)
<1>1. Fine(x.s, S, Carry(x.command), r)
  BY DEF InOrder
<1>2. a = x.s \/ a = b
  BY DEF Retry
<1>3. Fine(b, S, Carry(x.command), r)
  BY <1>1, Reserved
<1>4. y = StateSet(x, a)
  BY DEF StateSet
<1> HIDE DEF a, b
<1>5. Fine(a, S, Carry(x.command), r)
  BY <1>1, <1>2, <1>3
<1> QED
  BY <1>4, <1>5, StateFine

\* One train's turn.
LEMMA TurnFine ==
  ASSUME NEW x, NEW S, NEW r, InOrder(x, S, r), NEW t \in TrainSet, x.s.train[t].spawned,
         NEW y, y \in {CommandStep(z, t) : z \in {SensorStep([x EXCEPT !.s = Retry(@, t)], t)}}
  PROVE  InOrder(y, S, r)
<1> DEFINE a == [x EXCEPT !.s = Retry(@, t)]
           b == SensorStep(a, t)
<1>1. t \in S
  BY DEF InOrder, Fine
<1>2. InOrder(a, S, r)
  BY RetryFine
<1>3. InOrder(b, S, r)
  <2> HIDE DEF a
  <2> QED BY <1>2, SensorStepFine
<1>4. y = CommandStep(b, t)
  OBVIOUS
<1> HIDE DEF b
<1> QED
  BY <1>1, <1>3, <1>4, CommandStepFine

\* Whatever the round that follows a request does, the books stay in order.
LEMMA DispatchFine ==
  ASSUME NEW x, NEW S, NEW r, InOrder(x, S, r)
  PROVE  \A y \in DispatchCommand(x) : InOrder(y, S, r)
<1> DEFINE N == Len(Trains)
           Good == {y \in Rounds : InOrder(y, S, r)}
           D == SUBSET Good
           W(y, i) == IF ~y.s.train[Trains[i]].spawned THEN {y}
                      ELSE {CommandStep(z, Trains[i]) : z \in
                             {SensorStep([y EXCEPT !.s = Retry(@, Trains[i])], Trains[i])}}
           E(f, i) == IF i = 0 THEN {x} ELSE UNION {W(y, i) : y \in f[i - 1]}
           b == {x}
           H == [i \in 1 .. N |-> [A \in D |-> UNION {W(y, i) : y \in A}]]
           after == CHOOSE f : f = [i \in 0 .. N |-> E(f, i)]
<1>1. N \in Nat /\ \A i \in 1 .. N : Trains[i] \in TrainSet
  <2>1. Trains \in Seq(Nat)
    BY ConductorAssumption DEF ConductorAssumption
  <2> QED BY <2>1 DEF TrainSet
<1>2. x \in Good
  BY DEF InOrder
<1>3. ASSUME NEW y \in Good, NEW i \in 1 .. N PROVE W(y, i) \in D
  <2> DEFINE t == Trains[i]
  <2>1. t \in TrainSet
    BY <1>1
  <2>2. CASE ~y.s.train[t].spawned
    BY <2>2
  <2>3. CASE y.s.train[t].spawned
    <3> DEFINE V == {CommandStep(z, t) : z \in {SensorStep([y EXCEPT !.s = Retry(@, t)], t)}}
    <3>1. W(y, i) = V
      BY <2>3
    <3> HIDE DEF W, t
    <3>2. \A v \in V : InOrder(v, S, r)
      BY <2>1, <2>3, TurnFine
    <3> HIDE DEF V
    <3> QED BY <3>1, <3>2 DEF InOrder
  <2> QED BY <2>2, <2>3
<1> HIDE DEF Good, W, N
<1>4. b \in D /\ H \in [1 .. N -> [D -> D]] /\ \A A \in D, i \in 1 .. N : H[i][A] = UNION {W(y, i) : y \in A}
  BY <1>2, <1>3
<1>5. \E g : g = [i \in 0 .. N |-> E(g, i)]
  <2> HIDE DEF H, D, b
  <2>1. PICK g : InSteps(g, N, D, b, H)
    BY <1>1, <1>4, StepsExist
  <2>2. ASSUME NEW i \in 0 .. N PROVE g[i] = E(g, i)
    <3>1. CASE i = 0
      BY <2>1, <3>1 DEF b, InSteps
    <3>2. CASE i # 0
      <4>1. i \in 1 .. N /\ i - 1 \in 0 .. N
        BY <1>1, <3>2
      <4>2. g[i - 1] \in D /\ g[i] = H[i][g[i - 1]]
        BY <2>1, <4>1 DEF InSteps
      <4> QED BY <1>4, <3>2, <4>1, <4>2
    <3> QED BY <3>1, <3>2
  <2>3. g = [i \in 0 .. N |-> E(g, i)]
    <3>1. g \in [0 .. N -> D]
      BY <2>1 DEF InSteps
    <3> HIDE DEF E
    <3> QED BY <2>2, <3>1
  <2> QED BY <2>3
<1>6. after = [i \in 0 .. N |-> E(after, i)]
  <2> HIDE DEF E
  <2> QED BY <1>5
<1>7. DispatchCommand(x) = after[N]
  BY DEF DispatchCommand, W, N
<1> HIDE DEF after
<1>8. \A i \in 0 .. N : after[i] \in D
  <2>1. after[0] \in D
    <3>1. after[0] = b
      BY <1>1, <1>6
    <3> QED BY <1>4, <3>1
  <2>2. ASSUME NEW i \in 1 .. N, after[i - 1] \in D PROVE after[i] \in D
    <3>1. i \in 0 .. N /\ i # 0
      BY <1>1
    <3>2. after[i] = UNION {W(y, i) : y \in after[i - 1]}
      BY <1>6, <3>1
    <3> QED BY <1>3, <2>2, <3>2
  <2> HIDE DEF D
  <2> QED
    BY <1>1, <2>1, <2>2, StepsStay
<1> QED
  BY <1>1, <1>7, <1>8 DEF Good

-----------------------------------------------------------------------------
(* ProcessSensorTrigger.                                                   *)

\* The next stretch begins at a node of the path.
LEMMA StretchFine ==
  ASSUME NEW s, NEW S, NEW p, NEW r, Fine(s, S, p, r), NEW t \in TrainSet, s.train[t].path # <<>>,
         NEW o, o \in NextStretch(s, t)
  PROVE  Fine(o, S, p, r) /\ Stays(o.train[t], s.train[t]) /\ o.train[t].path # <<>>
<1> DEFINE x == PopSegment(s, t)
<1>1. Fine(x, S, p, r) /\ Stays(x.train[t], s.train[t]) /\ x.train[t].path # <<>>
  <2>1. Fine(x, S, p, r) /\ Drives(x, s, t) /\ x.train[t].path # <<>>
    BY SegmentPopped
  <2> QED BY <2>1 DEF Drives
<1>2. o = Throw(x, Stretch(x.train[t].path))
  BY DEF NextStretch, SwitchNextSegment
<1> HIDE DEF x
<1>3. Fine(o, S, p, r) /\ o.train = x.train
  BY <1>1, <1>2, Thrown
<1> QED
  BY <1>1, <1>3

\* The queue holds c alone.
Sole(q, c) == q = <<c>>

\* At the destination: the queue holds nothing but the order to stop.
LEMMA ArrivedFine ==
  ASSUME NEW s, NEW S, NEW p, NEW r, Fine(s, S, p, r), NEW t \in TrainSet,
         NEW c \in {"STOP", "STOP_GO"}, NEW e \in Seq(PathNodes),
         NEW q \in Seq(Commands), Sole(q, c), NEW o, o = ArrivedSet(s, t, e, q)
  PROVE  Fine(o, S, p, r)
<1>1. s \in Conductors /\ p \in [TrainSet -> Seq(Commands)] /\ r \in [TrainSet -> BOOLEAN]
  BY DEF Fine
<1>2. /\ Follows(o, s, t) /\ o.who = s.who /\ o.dropped = s.dropped
      /\ Stays(o.train[t], s.train[t]) /\ o.train[t].train_commands = q
      /\ o.train[t].isMoving = FALSE
      /\ o.train[t].reserved_nodes = s.train[t].reserved_nodes
  <2>1. SetsDown(o, s, t, e, q)
    BY <1>1, ArrivedPut
  <2> QED BY <2>1 DEF SetsDown
<1>3. TrainFine(o.train[t])
  <2>1. o.train[t] \in TrainRecords
    BY <1>2, ConductorFields DEF Follows
  <2>2. Len(q) <= QUEUE
    <3>1. QUEUE \in Nat \ {0} /\ Len(q) = 1
      BY ConductorAssumption DEF ConductorAssumption, Sole
    <3> QED BY <3>1
  <2>3. TrainFine(s.train[t])
    BY DEF Fine
  <2>4. Len(o.train[t].train_commands) <= QUEUE
    BY <1>2, <2>2
  <2> QED BY <1>2, <2>1, <2>3, <2>4 DEF TrainFine, Stays
<1>4. Known(o.train[t].isMoving, p[t] \o o.train[t].train_commands, r[t])
  <2> DEFINE z == p[t]
             run == r[t]
  <2>1. z \in Seq(Commands) /\ run \in BOOLEAN /\ c \in Commands
    BY <1>1 DEF Commands
  <2> HIDE DEF z, run
  <2>2. z \o q = Append(z, c)
    BY <2>1 DEF Sole
  <2>3. After(Append(z, c), run) = FALSE
    BY <2>1, AfterStop
  <2> QED BY <1>2, <2>2, <2>3 DEF Known, z, run
<1>5. \A n \in Index : o.who[n] = t => n \in Both(NodesIn(o.train[t].reserved_nodes))
  BY <1>2 DEF Fine
<1>6. \A n \in Index : o.who[n] \in {t, NoTrain, s.who[n]}
  BY <1>2
<1>7. o.train[t].spawned = s.train[t].spawned
  BY <1>2 DEF Stays
<1> QED
  BY <1>2, <1>3, <1>4, <1>5, <1>6, <1>7, FineAfter

LEMMA SlowlyFine ==
  ASSUME NEW s, NEW S, NEW p, NEW r, Fine(s, S, p, r), NEW t \in TrainSet,
         NEW m, m = MovingSet(s, t), NEW o, o = PushCommand(m, t, "ACCELERATE")
  PROVE  Fine(o, S, p, r) /\ o.train[t].destination_node = s.train[t].destination_node
<1>1. s \in Conductors
  BY DEF Fine
<1>2. Notes(m, s, t, TRUE)
  BY <1>1, MovingPut
<1>3. Obeys("ACCELERATE", s.train[t].isMoving, m.train[t].isMoving)
  BY <1>2 DEF Obeys, Notes
<1>4. "ACCELERATE" \in Commands
  BY DEF Commands
<1>5. /\ Follows(m, s, t) /\ m.who = s.who /\ m.dropped = s.dropped /\ Stays(m.train[t], s.train[t])
      /\ m.train[t].train_commands = s.train[t].train_commands
      /\ m.train[t].reserved_nodes = s.train[t].reserved_nodes
      /\ m.train[t].destination_node = s.train[t].destination_node
  BY <1>2 DEF Notes
<1> QED
  BY <1>3, <1>4, <1>5, ToldNow

LEMMA ApproachedFine ==
  ASSUME NEW s, NEW S, NEW p, NEW r, Fine(s, S, p, r), NEW t \in TrainSet,
         s.train[t].last_sensor \in Index, NEW o, o = Approached(s, t)
  PROVE  Fine(o, S, p, r)
<1> DEFINE tr == s.train[t]
           m == MovingSet(s, t)
           cmd == "ACCELERATE"
           slow == PushCommand(m, t, cmd)
           near == IF tr.path[1].node = tr.destination_node THEN slow ELSE s
           g == ReleasePath(near, t)
           c == IF tr.auto_mode \/ tr.demo_mode THEN "STOP_GO" ELSE "STOP"
           e == <<>>
           q == <<c>>
           arrived == ArrivedSet(g, t, e, q)
<1>1. s \in Conductors /\ cmd \in Commands
  BY DEF Fine, Commands
<1>2. c \in {"STOP", "STOP_GO"} /\ e \in Seq(PathNodes) /\ q \in Seq(Commands)
  BY DEF Commands
<1>3. o = near \/ (o = arrived /\ tr.last_sensor = tr.destination_node)
  BY DEF Approached, MovingSet, ArrivedSet
<1> HIDE DEF c, e, q
<1>4. Fine(slow, S, p, r) /\ slow.train[t].destination_node = tr.destination_node
  <2>1. /\ m = MovingSet(s, t) /\ slow = PushCommand(m, t, "ACCELERATE")
        /\ tr.destination_node = s.train[t].destination_node
    OBVIOUS
  <2> HIDE DEF m, slow, near, g, arrived, tr, cmd
  <2> QED BY <2>1, SlowlyFine
<1> HIDE DEF slow
<1>5. Fine(near, S, p, r) /\ near.train[t].destination_node = tr.destination_node
  BY <1>4
<1> HIDE DEF near
<1>6. CASE o = near
  BY <1>5, <1>6
<1>7. CASE o = arrived /\ tr.last_sensor = tr.destination_node
  <2>1. Fine(g, S, p, r)
    <3>1. near.train[t].destination_node \in Index
      BY <1>5, <1>7
    <3> QED BY <1>5, <3>1, PathReleased
  <2> HIDE DEF g
  <2>2. Sole(q, c)
    BY DEF q, Sole
  <2> QED BY <1>2, <1>7, <2>1, <2>2, ArrivedFine
<1> QED
  BY <1>3, <1>6, <1>7

LEMMA TriggerFine ==
  ASSUME NEW s, NEW S, NEW p, NEW r, Fine(s, S, p, r), NEW t \in TrainSet, NEW n,
         NEW o, o \in ProcessSensorTrigger(s, t, n)
  PROVE  Fine(o, S, p, r)
<1> DEFINE tr == s.train[t]
           skipped == IF tr.last_sent_sensor_safety = n THEN NextStretch(s, t) ELSE {s}
           There(x) == [x EXCEPT !.train[t].last_sensor = x.train[t].path[1].node]
<1>1. o = s \/ (tr.path # <<>> /\ \E x \in skipped : \E z \in NextStretch(There(x), t) :
                                     o = Approached(ReleaseSegment(z, t), t))
  <2> DEFINE A(x) == Approached(ReleaseSegment(x, t), t)
             there == {There(x) : x \in skipped}
             advanced == {ReleaseSegment(x, t) : x \in UNION {NextStretch(y, t) : y \in there}}
             out == {Approached(x, t) : x \in advanced}
  <2>1. o \in IF n \notin {tr.last_sent_sensor, tr.last_sent_sensor_safety} THEN {s}
              ELSE IF tr.path = <<>> THEN {} ELSE out
    BY DEF ProcessSensorTrigger
  <2> HIDE DEF There, skipped
  <2>2. ASSUME o \in out
        PROVE  \E x \in skipped : \E z \in NextStretch(There(x), t) : o = A(z)
    BY <2>2
  <2> HIDE DEF out
  <2> QED BY <2>1, <2>2
<1>2. CASE o = s
  BY <1>2
<1>3. CASE tr.path # <<>> /\ \E x \in skipped : \E z \in NextStretch(There(x), t) :
                                     o = Approached(ReleaseSegment(z, t), t)
  <2>1. PICK x \in skipped : \E z \in NextStretch(There(x), t) : o = Approached(ReleaseSegment(z, t), t)
    BY <1>3
  <2>2. Fine(x, S, p, r) /\ x.train[t].path # <<>>
    <3> HIDE DEF There
    <3>1. CASE x = s
      BY <1>3, <3>1
    <3>2. CASE x \in NextStretch(s, t)
      BY <1>3, <3>2, StretchFine
    <3> QED BY <3>1, <3>2
  <2> DEFINE y == There(x)
             m == x.train[t].path[1].node
  <2>3. m \in Index
    <3> DEFINE path == x.train[t].path
    <3>1. path \in Seq(PathNodes) /\ path # <<>>
      BY <2>2, ConductorFields, TrainFields DEF Fine
    <3> HIDE DEF path
    <3>2. path[1].node \in Index
      BY <3>1, NodesOf
    <3> QED BY <3>2 DEF path
  <2>4. y = SensorSet(x, t, m)
    BY DEF SensorSet
  <2>5. PICK z \in NextStretch(y, t) : o = Approached(ReleaseSegment(z, t), t)
    BY <2>1
  <2> HIDE DEF y, m
  <2>6. Fine(y, S, p, r) /\ y.train[t].last_sensor = m /\ y.train[t].path # <<>>
    BY <2>2, <2>3, <2>4, SensorGiven
  <2>7. Fine(z, S, p, r) /\ z.train[t].last_sensor = m
    BY <2>6, StretchFine DEF Stays
  <2> DEFINE a == ReleaseSegment(z, t)
  <2>8. Fine(a, S, p, r) /\ a.train[t].last_sensor = m
    BY <2>7, SegmentReleased DEF Reserves, Stays
  <2>9. o = Approached(a, t)
    BY <2>5
  <2> HIDE DEF a
  <2> QED BY <2>3, <2>8, <2>9, ApproachedFine
<1> QED
  BY <1>1, <1>2, <1>3

-----------------------------------------------------------------------------
(* The inductive invariant.                                                *)

\* Where the sensor messenger and the command messenger of a train may be.
Messengers == {"none", "coming", "conductor", "marklin"}
Carriers == Commands \cup {"none", "coming", "conductor"}

\* What the trains and the messengers hold.
Outside ==
  /\ world \in Worlds /\ halted \in BOOLEAN
  /\ sensor_messenger \in [TrainSet -> Messengers]
  /\ watch \in [TrainSet -> SUBSET Index] /\ trigger \in [TrainSet -> Index \cup {None}]
  /\ command_messenger \in [TrainSet -> Carriers]
  /\ go_messenger \in [TrainSet -> {"none", "train", "delay", "coming"}]
  /\ pos \in [TrainSet -> Index \X Index]

\* A train that was never spawned has no messengers.
NoMessengers ==
  \A t \in TrainSet : t \notin Spawned => command_messenger[t] \notin Commands /\ go_messenger[t] = "none"

\* Fine, with what the command messengers carry and how the trains run.
Books == Fine(con, Spawned, Carry(command_messenger), running)

IndInv == Outside /\ NoMessengers /\ Books

LEMMA CarriedIs ==
  ASSUME NEW t \in TrainSet
  PROVE  Carried(t) = Carry(command_messenger)[t]
BY DEF Carried, Carry

\* What the inductive invariant is for.
LEMMA BooksShow == IndInv => TypeOK /\ MarksAreQueued /\ MovingIsKnown
<1> SUFFICES ASSUME IndInv PROVE TypeOK /\ MarksAreQueued /\ MovingIsKnown
  OBVIOUS
<1>1. con \in Conductors /\ running \in [TrainSet -> BOOLEAN] /\ \A t \in TrainSet : TrainFine(con.train[t])
  BY DEF IndInv, Books, Fine
<1>2. TypeOK
  <2>1. /\ \A t \in Spawned : con.train[t].last_sensor # None
        /\ \A t \in TrainSet : Len(con.train[t].train_commands) <= QUEUE
    BY <1>1 DEF Spawned, TrainFine
  <2>2. Outside
    BY DEF IndInv
  <2> QED BY <1>1, <2>1, <2>2 DEF TypeOK, Outside, Carriers, Messengers
<1>3. \A t \in TrainSet : Marked(t) \subseteq Queued(t)
  BY DEF IndInv, Books, Fine, Marked, Queued
<1>4. MovingIsKnown
  <2> SUFFICES ASSUME ~con.dropped, NEW t \in TrainSet
               PROVE  con.train[t].isMoving = Eventually(t)
    BY DEF MovingIsKnown
  <2>1. Known(con.train[t].isMoving, Carry(command_messenger)[t] \o con.train[t].train_commands, running[t])
    BY DEF IndInv, Books, Fine
  <2>2. Carried(t) = Carry(command_messenger)[t]
    BY CarriedIs
  <2> QED BY <2>1, <2>2 DEF Known, Eventually
<1> QED
  BY <1>2, <1>3, <1>4 DEF MarksAreQueued

-----------------------------------------------------------------------------
(* The end of a handler.                                                   *)

\* The round that the handler ends with, from its first train.
Starting(s, sensor, command) ==
  [s |-> s, sensor |-> [t \in TrainSet |-> sensor[t] = "conductor"], watch |-> watch, command |-> command]

\* How the books and the messengers are left.
Answered(S) ==
  /\ Fine(con', S, Carry(command_messenger'), running)
  /\ \A t \in TrainSet : t \notin S => command_messenger'[t] \notin Commands
  /\ sensor_messenger' \in [TrainSet -> Messengers]
  /\ watch' \in [TrainSet -> SUBSET Index]
  /\ command_messenger' \in [TrainSet -> Carriers]

\* A handler that leaves the conductor's state in order leaves everything in order.
LEMMA HandledFine ==
  ASSUME NEW s, NEW S, NEW sensor \in [TrainSet -> Messengers], NEW command \in [TrainSet -> Carriers],
         watch \in [TrainSet -> SUBSET Index],
         Fine(s, S, Carry(command), running),
         \A t \in TrainSet : t \notin S => command[t] \notin Commands,
         Handled(s, sensor, command)
  PROVE  Answered(S)
<1> DEFINE b == Starting(s, sensor, command)
           idle == [t \in TrainSet |-> sensor[t] = "conductor"]
<1>1. b \in Rounds /\ b.s = s /\ b.command = command
  <2>1. s \in Conductors /\ idle \in [TrainSet -> BOOLEAN]
    BY DEF Fine
  <2>2. b = [s |-> s, sensor |-> idle, watch |-> watch, command |-> command]
    BY DEF Starting
  <2> HIDE DEF b, idle
  <2> QED BY <2>1, <2>2 DEF Rounds, Carriers
<1>2. PICK x \in DispatchCommand(b) :
        /\ con' = x.s
        /\ sensor_messenger' = [t \in TrainSet |->
             IF sensor[t] = "conductor" /\ ~x.sensor[t] THEN "marklin" ELSE sensor[t]]
        /\ watch' = x.watch
        /\ command_messenger' = x.command
  BY DEF Handled, Starting
<1> HIDE DEF b
<1>3. InOrder(b, S, running)
  BY <1>1 DEF InOrder
<1>4. InOrder(x, S, running)
  BY <1>3, DispatchFine
<1>5. x \in Rounds /\ Fine(x.s, S, Carry(x.command), running) /\ \A t \in TrainSet : t \notin S => x.command[t] \notin Commands
  BY <1>4 DEF InOrder
<1>6. x.watch \in [TrainSet -> SUBSET Index] /\ x.command \in [TrainSet -> Carriers]
  BY <1>5, RoundFields DEF Carriers
<1>7. sensor_messenger' \in [TrainSet -> Messengers]
  BY <1>2 DEF Messengers
<1>8. Fine(con', S, Carry(command_messenger'), running)
  BY <1>2, <1>5
<1> QED
  BY <1>2, <1>5, <1>6, <1>7, <1>8 DEF Answered

\* The same, where the handler may leave one of several states, or none.
LEMMA OneOfFine ==
  ASSUME IndInv, NEW outcomes, AllFine(outcomes, Spawned, Carry(command_messenger), running),
         HandledOneOf(outcomes, sensor_messenger, command_messenger)
  PROVE  Answered(Spawned) /\ halted' \in BOOLEAN
<1>1. /\ sensor_messenger \in [TrainSet -> Messengers] /\ command_messenger \in [TrainSet -> Carriers]
      /\ watch \in [TrainSet -> SUBSET Index] /\ halted \in BOOLEAN
  BY DEF IndInv, Outside
<1>2. /\ Fine(con, Spawned, Carry(command_messenger), running)
      /\ \A t \in TrainSet : t \notin Spawned => command_messenger[t] \notin Commands
  BY DEF IndInv, Books, NoMessengers
<1>3. \/ halted' = TRUE /\ UNCHANGED <<con, sensor_messenger, watch, command_messenger>>
      \/ \E s \in outcomes : Handled(s, sensor_messenger, command_messenger) /\ UNCHANGED halted
  BY DEF HandledOneOf
<1>4. CASE halted' = TRUE /\ UNCHANGED <<con, sensor_messenger, watch, command_messenger>>
  BY <1>1, <1>2, <1>4 DEF Answered
<1>5. CASE \E s \in outcomes : Handled(s, sensor_messenger, command_messenger) /\ UNCHANGED halted
  <2>1. PICK s \in outcomes : Handled(s, sensor_messenger, command_messenger) /\ UNCHANGED halted
    BY <1>5
  <2>2. Fine(s, Spawned, Carry(command_messenger), running)
    BY DEF AllFine
  <2> DEFINE S == Spawned
             se == sensor_messenger
             co == command_messenger
  <2>3. /\ se \in [TrainSet -> Messengers] /\ co \in [TrainSet -> Carriers]
        /\ Fine(s, S, Carry(co), running) /\ \A t \in TrainSet : t \notin S => co[t] \notin Commands
        /\ Handled(s, se, co)
    BY <1>1, <1>2, <2>1, <2>2
  <2>4. Answered(S)
    <3> HIDE DEF S, se, co
    <3> QED BY <1>1, <2>3, HandledFine
  <2> QED BY <1>1, <2>1, <2>4
<1> QED
  BY <1>3, <1>4, <1>5

\* What holds after the step of a handler that adds no train to S.
LEMMA AnsweredIs ==
  ASSUME NEW S, S \subseteq TrainSet, Answered(S), running' = running
  PROVE  /\ Spawned' = S /\ Books' /\ \A t \in TrainSet : t \notin S => command_messenger'[t] \notin Commands
         /\ sensor_messenger' \in [TrainSet -> Messengers]
         /\ watch' \in [TrainSet -> SUBSET Index]
         /\ command_messenger' \in [TrainSet -> Carriers]
<1>1. Fine(con', S, Carry(command_messenger'), running)
  BY DEF Answered
<1>2. Spawned' = S
  BY <1>1 DEF Fine, Spawned
<1>3. Books'
  BY <1>1, <1>2 DEF Books
<1> QED
  BY <1>2, <1>3 DEF Answered

-----------------------------------------------------------------------------
(* One action after the other.                                             *)

\* A request that the conductor answers, where no train is spawned.
LEMMA RequestKeeps ==
  ASSUME IndInv, Answered(Spawned), halted' \in BOOLEAN,
         trigger' \in [TrainSet -> Index \cup {None}],
         go_messenger' \in [TrainSet -> {"none", "train", "delay", "coming"}],
         \A t \in TrainSet : t \notin Spawned => go_messenger'[t] = "none",
         UNCHANGED <<world, railway>>
  PROVE  IndInv'
<1> DEFINE S == Spawned
<1>1. S \subseteq TrainSet /\ Answered(S) /\ running' = running
  BY DEF Spawned, railway
<1>2. /\ Spawned' = S /\ Books' /\ \A t \in TrainSet : t \notin S => command_messenger'[t] \notin Commands
      /\ sensor_messenger' \in [TrainSet -> Messengers]
      /\ watch' \in [TrainSet -> SUBSET Index]
      /\ command_messenger' \in [TrainSet -> Carriers]
  <2> HIDE DEF S
  <2> QED BY <1>1, AnsweredIs
<1>3. world' \in Worlds /\ pos' \in [TrainSet -> Index \X Index]
  BY DEF IndInv, Outside, railway
<1>4. Outside'
  BY <1>2, <1>3 DEF Outside
<1>5. NoMessengers'
  BY <1>2 DEF NoMessengers
<1> QED
  BY <1>2, <1>4, <1>5 DEF IndInv

\* The same, where no pause begins or ends and no sensor is heard of.
LEMMA OrderKeeps ==
  ASSUME IndInv, NEW outcomes, AllFine(outcomes, Spawned, Carry(command_messenger), running),
         HandledOneOf(outcomes, sensor_messenger, command_messenger),
         UNCHANGED <<world, trigger, go_messenger, railway>>
  PROVE  IndInv'
<1>1. Answered(Spawned) /\ halted' \in BOOLEAN
  BY OneOfFine
<1>2. /\ trigger' \in [TrainSet -> Index \cup {None}]
      /\ go_messenger' \in [TrainSet -> {"none", "train", "delay", "coming"}]
      /\ \A t \in TrainSet : t \notin Spawned => go_messenger'[t] = "none"
  BY DEF IndInv, Outside, NoMessengers
<1> QED
  BY <1>1, <1>2, RequestKeeps

LEMMA InTheBooks ==
  ASSUME IndInv
  PROVE  /\ Fine(con, Spawned, Carry(command_messenger), running) /\ world \in Worlds
         /\ con \in Conductors /\ \A t \in Spawned : t \in TrainSet /\ con.train[t].spawned
BY DEF IndInv, Books, Outside, Fine, Spawned

LEMMA GotoKeeps ==
  ASSUME IndInv, NEW t \in TrainSet, NEW dest \in world.dests, GOTO(t, dest)
  PROVE  IndInv'
<1> DEFINE S == Spawned
           p == Carry(command_messenger)
           A == OrderedOutcomes(con, t, dest)
<1>1. Fine(con, S, p, running) /\ world \in Worlds /\ con.train[t].spawned /\ dest \in Index
  BY InTheBooks, WorldFields DEF GOTO
<1>2. AllFine(A, S, p, running)
  <2> HIDE DEF S, p
  <2> QED BY <1>1, OrderedFine
<1>3. HandledOneOf(A, sensor_messenger, command_messenger) /\ UNCHANGED <<world, trigger, go_messenger, railway>>
  BY DEF GOTO, Order
<1> HIDE DEF A
<1> QED
  BY <1>2, <1>3, OrderKeeps

LEMMA SwitchKeeps ==
  ASSUME IndInv, NEW num, NEW dir \in {STRAIGHT, CURVED}, SET_SWITCH(num, dir)
  PROVE  IndInv'
<1> DEFINE S == Spawned
           p == Carry(command_messenger)
           o == setSwitch(con, num, dir)
           A == {o}
<1>1. Fine(con, S, p, running)
  BY InTheBooks
<1>2. Fine(o, S, p, running)
  <2> HIDE DEF S, p
  <2> QED BY <1>1, SwitchSet
<1>3. AllFine(A, S, p, running)
  BY <1>2 DEF AllFine
<1>4. HandledOneOf(A, sensor_messenger, command_messenger) /\ UNCHANGED <<world, trigger, go_messenger, railway>>
  BY DEF SET_SWITCH, Order
<1> HIDE DEF A
<1> QED
  BY <1>3, <1>4, OrderKeeps

LEMMA ReverseKeeps ==
  ASSUME IndInv, NEW t \in TrainSet, REVERSE_TRAIN(t)
  PROVE  IndInv'
<1> DEFINE S == Spawned
           p == Carry(command_messenger)
           o == PushCommand(con, t, "REVERSE")
           A == {o}
<1>1. Fine(con, S, p, running)
  BY InTheBooks
<1>2. Fine(o, S, p, running)
  <2> HIDE DEF S, p
  <2> QED BY <1>1, TurnQueued
<1>3. AllFine(A, S, p, running)
  BY <1>2 DEF AllFine
<1>4. HandledOneOf(A, sensor_messenger, command_messenger) /\ UNCHANGED <<world, trigger, go_messenger, railway>>
  BY DEF REVERSE_TRAIN, Order
<1> HIDE DEF A
<1> QED
  BY <1>3, <1>4, OrderKeeps

\* The command is queued first and the note that the train moves is made after it.
LEMMA GoQueued ==
  ASSUME NEW s, NEW S, NEW p, NEW r, Fine(s, S, p, r), NEW t \in TrainSet,
         NEW o, o = MovingSet(PushCommand(s, t, "ACCELERATE"), t)
  PROVE  Fine(o, S, p, r)
<1> DEFINE cmd == "ACCELERATE"
           a == PushCommand(s, t, cmd)
<1>1. s \in Conductors /\ cmd \in Commands /\ TrainFine(s.train[t]) /\ p[t] \in Seq(Commands) /\ r[t] \in BOOLEAN
  BY DEF Fine, Commands
<1>2. Pushes(a, s, t, cmd)
  <2>1. Len(s.train[t].train_commands) <= QUEUE
    BY <1>1 DEF TrainFine
  <2> HIDE DEF cmd
  <2> QED BY <1>1, <2>1, Pushed
<1>3. o = MovingSet(a, t)
  OBVIOUS
<1> HIDE DEF a
<1>4. a \in Conductors
  BY <1>2 DEF Pushes, Follows
<1>5. SetsOff(o, a, t)
  <2>1. Notes(o, a, t, TRUE)
    BY <1>3, <1>4, MovingPut
  <2> QED BY <2>1 DEF SetsOff, Notes
<1>6. Follows(o, s, t)
  BY <1>2, <1>5, FollowsFollows DEF Pushes, SetsOff
<1>7. TrainFine(o.train[t]) /\ o.train[t].spawned = s.train[t].spawned
  <2>1. o.train[t] \in TrainRecords
    BY <1>6, ConductorFields DEF Follows
  <2>2. Stays(a.train[t], s.train[t]) /\ Len(a.train[t].train_commands) <= QUEUE
    BY <1>2 DEF Pushes
  <2>3. Stays(o.train[t], a.train[t]) /\ o.train[t].train_commands = a.train[t].train_commands
    BY <1>5 DEF SetsOff
  <2> QED BY <1>1, <2>1, <2>2, <2>3 DEF TrainFine, Stays
<1>8. /\ o.who = s.who /\ o.train[t].reserved_nodes = s.train[t].reserved_nodes
      /\ ~o.dropped => ~s.dropped
  BY <1>2, <1>5 DEF Pushes, SetsOff
<1>9. /\ \A n \in Index : o.who[n] = t => n \in Both(NodesIn(o.train[t].reserved_nodes))
      /\ \A n \in Index : o.who[n] \in {t, NoTrain, s.who[n]}
  BY <1>8 DEF Fine
<1>10. ASSUME ~o.dropped PROVE Known(o.train[t].isMoving, p[t] \o o.train[t].train_commands, r[t])
  <2> DEFINE z == p[t]
             q == s.train[t].train_commands
             run == r[t]
  <2>1. o.train[t].train_commands = Append(q, cmd)
    <3> HIDE DEF cmd
    <3> QED BY <1>2, <1>5, <1>10 DEF Pushes, SetsOff
  <2>2. o.train[t].isMoving = TRUE
    BY <1>5 DEF SetsOff
  <2>3. q \in Seq(Commands)
    BY <1>1, TrainFields DEF TrainFine
  <2> HIDE DEF q, z, run
  <2>4. z \in Seq(Commands) /\ run \in BOOLEAN
    BY <1>1 DEF z, run
  <2>5. z \o Append(q, cmd) = Append(z \o q, cmd) /\ z \o q \in Seq(Commands)
    <3> HIDE DEF cmd
    <3> QED BY <1>1, <2>3, <2>4, AppendToConcat
  <2> DEFINE zq == z \o q
  <2>6. After(Append(zq, cmd), run) = TRUE
    <3>1. zq \in Seq(Commands) /\ cmd \in Commands /\ cmd = "ACCELERATE"
      BY <1>1, <2>5
    <3> HIDE DEF zq, cmd
    <3> QED BY <2>4, <3>1, AfterGo
  <2> HIDE DEF cmd
  <2> QED BY <2>1, <2>2, <2>5, <2>6 DEF Known, z, run
<1> QED
  BY <1>6, <1>7, <1>8, <1>9, <1>10, FineAfter

LEMMA AccelerateKeeps ==
  ASSUME IndInv, NEW t \in TrainSet, ACCELERATE_TRAIN(t)
  PROVE  IndInv'
<1> DEFINE S == Spawned
           p == Carry(command_messenger)
           o == MovingSet(PushCommand(con, t, "ACCELERATE"), t)
           A == {o}
<1>1. Fine(con, S, p, running)
  BY InTheBooks
<1>2. Fine(o, S, p, running)
  <2> HIDE DEF S, p
  <2> QED BY <1>1, GoQueued
<1>3. AllFine(A, S, p, running)
  BY <1>2 DEF AllFine
<1>4. HandledOneOf(A, sensor_messenger, command_messenger) /\ UNCHANGED <<world, trigger, go_messenger, railway>>
  BY DEF ACCELERATE_TRAIN, Order, MovingSet
<1> HIDE DEF A
<1> QED
  BY <1>3, <1>4, OrderKeeps

LEMMA ModesKeep ==
  ASSUME IndInv, STOP_ALL \/ AUTO \/ DEMO
  PROVE  IndInv'
<1> DEFINE S == Spawned
           p == Carry(command_messenger)
           still == StopAllTrains(con)
<1>1. Fine(con, S, p, running) /\ world \in Worlds
  BY InTheBooks
<1>2. Fine(still, S, p, running)
  <2> HIDE DEF S, p
  <2> QED BY <1>1, AllStopped
<1>3. \A demo \in BOOLEAN : AllFine(ModeOutcomes(con, demo), S, p, running) /\ AllFine(ModeOutcomes(still, demo), S, p, running)
  <2> HIDE DEF S, p, still
  <2> QED BY <1>1, <1>2, ModeFine
<1>4. UNCHANGED <<world, trigger, go_messenger, railway>>
  BY DEF STOP_ALL, AUTO, DEMO, Order
<1>5. PICK A : AllFine(A, S, p, running) /\ HandledOneOf(A, sensor_messenger, command_messenger)
  <2>1. \/ HandledOneOf(ModeOutcomes(still, FALSE), sensor_messenger, command_messenger)
        \/ HandledOneOf(ModeOutcomes(con, FALSE), sensor_messenger, command_messenger)
        \/ HandledOneOf(ModeOutcomes(con, TRUE), sensor_messenger, command_messenger)
    BY DEF STOP_ALL, AUTO, DEMO
  <2> HIDE DEF S, p, still
  <2> QED BY <1>3, <2>1
<1> QED
  BY <1>4, <1>5, OrderKeeps

LEMMA GoAgainKeeps ==
  ASSUME IndInv, NEW t \in TrainSet, GO_AGAIN(t)
  PROVE  IndInv'
<1> DEFINE S == Spawned
           p == Carry(command_messenger)
           A == OwnOutcomes(con, t)
<1>1. t \in Spawned
  BY DEF GO_AGAIN, IndInv, NoMessengers
<1>2. Fine(con, S, p, running) /\ world \in Worlds /\ con.train[t].spawned
  BY <1>1, InTheBooks
<1>3. AllFine(A, S, p, running)
  <2> HIDE DEF S, p
  <2> QED BY <1>2, OwnFine
<1>4. HandledOneOf(A, sensor_messenger, command_messenger) /\ UNCHANGED <<world, trigger, railway>>
  BY DEF GO_AGAIN
<1> HIDE DEF A
<1>5. Answered(Spawned) /\ halted' \in BOOLEAN
  BY <1>3, <1>4, OneOfFine
<1>6. /\ trigger' \in [TrainSet -> Index \cup {None}]
      /\ go_messenger' \in [TrainSet -> {"none", "train", "delay", "coming"}]
      /\ \A u \in TrainSet : u \notin Spawned => go_messenger'[u] = "none"
  BY <1>1, <1>4 DEF IndInv, Outside, NoMessengers, GO_AGAIN
<1> QED
  BY <1>4, <1>5, <1>6, RequestKeeps

LEMMA TriggerKeeps ==
  ASSUME IndInv, NEW t \in TrainSet, SENSOR_TRIGGER(t)
  PROVE  IndInv'
<1> DEFINE S == Spawned
           p == Carry(command_messenger)
           n == trigger[t]
           A == ProcessSensorTrigger(con, t, n)
<1>1. Fine(con, S, p, running)
  BY InTheBooks
<1>2. AllFine(A, S, p, running)
  <2> HIDE DEF S, p, n
  <2>1. \A o \in A : Fine(o, S, p, running)
    BY <1>1, TriggerFine
  <2> QED BY <2>1 DEF AllFine
<1>3. HandledOneOf(A, sensor_messenger, command_messenger) /\ UNCHANGED <<world, go_messenger, railway>>
  BY DEF SENSOR_TRIGGER
<1> HIDE DEF A
<1>4. Answered(Spawned) /\ halted' \in BOOLEAN
  BY <1>2, <1>3, OneOfFine
<1>5. /\ trigger' \in [TrainSet -> Index \cup {None}]
      /\ go_messenger' \in [TrainSet -> {"none", "train", "delay", "coming"}]
      /\ \A u \in TrainSet : u \notin Spawned => go_messenger'[u] = "none"
  BY <1>3 DEF IndInv, Outside, NoMessengers, SENSOR_TRIGGER
<1> QED
  BY <1>3, <1>4, <1>5, RequestKeeps

LEMMA CommandAnswered ==
  ASSUME IndInv, NEW t \in TrainSet, GET_CMD(t)
  PROVE  IndInv'
<1> DEFINE S == Spawned
           p == Carry(command_messenger)
           c == [command_messenger EXCEPT ![t] = "conductor"]
           v == Carry(c)
<1>1. /\ sensor_messenger \in [TrainSet -> Messengers] /\ command_messenger \in [TrainSet -> Carriers]
      /\ watch \in [TrainSet -> SUBSET Index] /\ Fine(con, S, p, running)
      /\ \A u \in TrainSet : u \notin S => command_messenger[u] \notin Commands
  BY DEF IndInv, Outside, Books, NoMessengers
<1>2. command_messenger[t] = "coming" /\ "coming" \notin Commands /\ "conductor" \notin Commands
  BY DEF GET_CMD, Commands
<1>3. c \in [TrainSet -> Carriers] /\ \A u \in TrainSet : u \notin S => c[u] \notin Commands
  BY <1>1, <1>2 DEF Carriers
<1>4. v = p
  BY <1>1, <1>2 DEF Carry
<1>5. Handled(con, sensor_messenger, c) /\ UNCHANGED <<world, halted, trigger, go_messenger, railway>>
  BY DEF GET_CMD
<1>6. Answered(S)
  <2> DEFINE se == sensor_messenger
             st == con
  <2>1. /\ se \in [TrainSet -> Messengers] /\ Fine(st, S, Carry(c), running) /\ Handled(st, se, c)
    BY <1>1, <1>4, <1>5
  <2> HIDE DEF se, st, S, c
  <2> QED BY <1>1, <1>3, <2>1, HandledFine
<1>7. /\ trigger' \in [TrainSet -> Index \cup {None}] /\ halted' \in BOOLEAN
      /\ go_messenger' \in [TrainSet -> {"none", "train", "delay", "coming"}]
      /\ \A u \in TrainSet : u \notin Spawned => go_messenger'[u] = "none"
  BY <1>5 DEF IndInv, Outside, NoMessengers
<1> QED
  BY <1>5, <1>6, <1>7, RequestKeeps

LEMMA SensorAnswered ==
  ASSUME IndInv, NEW t \in TrainSet, GET_SENSOR(t)
  PROVE  IndInv'
<1> DEFINE S == Spawned
           c == command_messenger
           se == [sensor_messenger EXCEPT ![t] = "conductor"]
           st == con
<1>1. /\ se \in [TrainSet -> Messengers] /\ c \in [TrainSet -> Carriers]
      /\ watch \in [TrainSet -> SUBSET Index] /\ Fine(st, S, Carry(c), running)
      /\ \A u \in TrainSet : u \notin S => c[u] \notin Commands
  BY DEF IndInv, Outside, Books, NoMessengers, Messengers
<1>2. Handled(st, se, c) /\ UNCHANGED <<world, halted, trigger, go_messenger, railway>>
  BY DEF GET_SENSOR
<1>3. Answered(S)
  <2> HIDE DEF se, st, S, c
  <2> QED BY <1>1, <1>2, HandledFine
<1>4. /\ trigger' \in [TrainSet -> Index \cup {None}] /\ halted' \in BOOLEAN
      /\ go_messenger' \in [TrainSet -> {"none", "train", "delay", "coming"}]
      /\ \A u \in TrainSet : u \notin Spawned => go_messenger'[u] = "none"
  BY <1>2 DEF IndInv, Outside, NoMessengers
<1> QED
  BY <1>2, <1>3, <1>4, RequestKeeps

\* A train is spawned.
SpawnedSet(s, t, n) == [s EXCEPT !.train[t].spawned = TRUE, !.train[t].last_sensor = n]

LEMMA SpawnPut ==
  ASSUME NEW s \in Conductors, NEW t \in TrainSet, NEW n \in Index,
         NEW o, o = SpawnedSet(s, t, n)
  PROVE  /\ Follows(o, s, t) /\ o.who = s.who /\ o.setting = s.setting /\ o.dropped = s.dropped
         /\ o.train[t].spawned /\ o.train[t].last_sensor = n /\ Told(o.train[t], s.train[t])
         /\ o.train[t].reserved_nodes = s.train[t].reserved_nodes
<1> DEFINE x == s.train[t]
           y == [x EXCEPT !.spawned = TRUE, !.last_sensor = n]
<1>1. x \in TrainRecords
  BY ConductorFields
<1>2. /\ y \in TrainRecords /\ y.spawned /\ y.last_sensor = n /\ Told(y, x)
      /\ y.reserved_nodes = x.reserved_nodes
  <2> HIDE DEF x
  <2> QED BY <1>1 DEF TrainRecords, Told
<1>3. o = TrainSetTo(s, t, y)
  BY DEF SpawnedSet, TrainSetTo, Conductors, TrainRecords
<1> HIDE DEF x, y
<1>4. /\ Follows(o, s, t) /\ o.train[t] = y
      /\ o.who = s.who /\ o.setting = s.setting /\ o.dropped = s.dropped
  BY <1>2, <1>3, TrainPut
<1> QED
  BY <1>2, <1>4 DEF x

LEMMA SpawnFine ==
  ASSUME NEW s, NEW S, NEW p, NEW r, Fine(s, S, p, r), NEW t \in TrainSet, NEW n \in Index,
         NEW o, o = SpawnedSet(s, t, n)
  PROVE  Fine(o, S \cup {t}, p, r)
<1>1. s \in Conductors
  BY DEF Fine
<1>2. /\ Follows(o, s, t) /\ o.who = s.who /\ o.dropped = s.dropped
      /\ o.train[t].spawned /\ o.train[t].last_sensor = n /\ Told(o.train[t], s.train[t])
      /\ o.train[t].reserved_nodes = s.train[t].reserved_nodes
  BY <1>1, SpawnPut
<1>3. TrainFine(o.train[t])
  <2>1. o.train[t] \in TrainRecords
    BY <1>2, ConductorFields DEF Follows
  <2>2. n # None
    BY NodeNumbers
  <2>3. TrainFine(s.train[t])
    BY DEF Fine
  <2> QED BY <1>2, <2>1, <2>2, <2>3 DEF TrainFine, Told
<1>4. \A u \in TrainSet : TrainFine(o.train[u]) /\ (o.train[u].spawned <=> u \in S \cup {t})
  <2> TAKE u \in TrainSet
  <2>1. CASE u = t
    BY <1>2, <1>3, <2>1
  <2>2. CASE u # t
    BY <1>2, <2>2 DEF Fine, Follows
  <2> QED BY <2>1, <2>2
<1>5. \A u \in TrainSet : o.train[u].reserved_nodes = s.train[u].reserved_nodes /\ Told(o.train[u], s.train[u])
  <2> TAKE u \in TrainSet
  <2>1. CASE u = t
    BY <1>2, <2>1
  <2>2. CASE u # t
    BY <1>2, <2>2 DEF Follows, Told
  <2> QED BY <2>1, <2>2
<1>6. \A u \in TrainSet, m \in Index : o.who[m] = u => m \in Both(NodesIn(o.train[u].reserved_nodes))
  BY <1>2, <1>5 DEF Fine
<1>7. ~o.dropped => \A u \in TrainSet : Known(o.train[u].isMoving, p[u] \o o.train[u].train_commands, r[u])
  BY <1>2, <1>5 DEF Fine, Told
<1>8. o \in Conductors /\ p \in [TrainSet -> Seq(Commands)] /\ r \in [TrainSet -> BOOLEAN]
  BY <1>2 DEF Follows, Fine
<1> QED
  BY <1>4, <1>6, <1>7, <1>8 DEF Fine

LEMMA SpawnKeeps ==
  ASSUME IndInv, NEW t \in TrainSet, SPAWN_TRAIN(t)
  PROVE  IndInv'
<1> DEFINE S == Spawned
           T == Spawned \cup {t}
           p == Carry(command_messenger)
           c == [command_messenger EXCEPT ![t] = "coming"]
           se == [sensor_messenger EXCEPT ![t] = "coming"]
           n == world.home[t]
           st == SpawnedSet(con, t, n)
<1>1. /\ sensor_messenger \in [TrainSet -> Messengers] /\ command_messenger \in [TrainSet -> Carriers]
      /\ watch \in [TrainSet -> SUBSET Index] /\ Fine(con, S, p, running)
      /\ \A u \in TrainSet : u \notin S => command_messenger[u] \notin Commands
  BY DEF IndInv, Outside, Books, NoMessengers
<1>2. t \notin S /\ "coming" \notin Commands
  BY DEF SPAWN_TRAIN, Commands
<1>3. /\ c \in [TrainSet -> Carriers] /\ se \in [TrainSet -> Messengers]
      /\ \A u \in TrainSet : u \notin T => c[u] \notin Commands
  BY <1>1, <1>2 DEF Carriers, Messengers
<1>4. Carry(c) = p
  BY <1>1, <1>2 DEF Carry
<1>5. Handled(st, se, c) /\ UNCHANGED <<world, halted, trigger, railway>>
  BY DEF SPAWN_TRAIN, SpawnedSet
<1>6. n \in Index
  BY WorldFields DEF IndInv, Outside
<1>7. Fine(st, T, p, running)
  <2> HIDE DEF S, p, n
  <2>1. Fine(st, S \cup {t}, p, running)
    BY <1>1, <1>6, SpawnFine
  <2> QED BY <2>1 DEF S
<1>8. Answered(T)
  <2>1. Fine(st, T, Carry(c), running)
    BY <1>4, <1>7
  <2> HIDE DEF se, st, T, c
  <2> QED BY <1>1, <1>3, <1>5, <2>1, HandledFine
<1>9. T \subseteq TrainSet /\ running' = running
  BY <1>5 DEF Spawned, railway
<1>10. /\ Spawned' = T /\ Books' /\ \A u \in TrainSet : u \notin T => command_messenger'[u] \notin Commands
       /\ sensor_messenger' \in [TrainSet -> Messengers]
       /\ watch' \in [TrainSet -> SUBSET Index]
       /\ command_messenger' \in [TrainSet -> Carriers]
  <2> HIDE DEF T
  <2> QED BY <1>8, <1>9, AnsweredIs
<1>11. /\ trigger' \in [TrainSet -> Index \cup {None}] /\ halted' \in BOOLEAN /\ world' \in Worlds
       /\ pos' \in [TrainSet -> Index \X Index]
  BY <1>5 DEF IndInv, Outside, railway
<1>12. /\ go_messenger' \in [TrainSet -> {"none", "train", "delay", "coming"}]
       /\ \A u \in TrainSet : u \notin T => go_messenger'[u] = "none"
  BY DEF IndInv, Outside, NoMessengers, SPAWN_TRAIN
<1> QED
  BY <1>10, <1>11, <1>12 DEF IndInv, Outside, NoMessengers

-----------------------------------------------------------------------------
(* The trains.                                                             *)

\* The conductor's state is as it was, and t has obeyed.
Obeyed(s, p, r, t, v, z) ==
  /\ v \in [TrainSet -> Seq(Commands)] /\ \A u \in TrainSet : u # t => v[u] = p[u]
  /\ z \in [TrainSet -> BOOLEAN] /\ \A u \in TrainSet : u # t => z[u] = r[u]
  /\ ~s.dropped => Known(s.train[t].isMoving, v[t] \o s.train[t].train_commands, z[t])

LEMMA ObeyedFine ==
  ASSUME NEW s, NEW S, NEW p, NEW r, Fine(s, S, p, r), NEW t \in TrainSet,
         NEW v, NEW z, Obeyed(s, p, r, t, v, z)
  PROVE  Fine(s, S, v, z)
<1>1. ASSUME ~s.dropped, NEW u \in TrainSet
      PROVE  Known(s.train[u].isMoving, v[u] \o s.train[u].train_commands, z[u])
  <2>1. CASE u = t
    BY <1>1, <2>1 DEF Obeyed
  <2>2. CASE u # t
    <3>1. v[u] = p[u] /\ z[u] = r[u]
      BY <2>2 DEF Obeyed
    <3>2. Known(s.train[u].isMoving, p[u] \o s.train[u].train_commands, r[u])
      BY <1>1 DEF Fine
    <3> QED BY <3>1, <3>2, Zenon
  <2> QED BY <2>1, <2>2
<1> QED
  BY <1>1 DEF Fine, Obeyed

\* The train does what the messenger carried.
LEMMA ExecuteKeeps ==
  ASSUME IndInv, NEW t \in TrainSet, Execute(t)
  PROVE  IndInv'
<1> DEFINE S == Spawned
           p == Carry(command_messenger)
           c == command_messenger[t]
           v == Carry(command_messenger')
           q == con.train[t].train_commands
           run == CASE c = "ACCELERATE" -> TRUE [] c = "REVERSE" -> running[t] [] OTHER -> FALSE
<1>1. /\ command_messenger \in [TrainSet -> Carriers] /\ Fine(con, S, p, running) /\ con \in Conductors
      /\ t \in S /\ c \in Commands
      /\ \A u \in TrainSet : u \notin S => command_messenger[u] \notin Commands
  BY DEF IndInv, Outside, Books, NoMessengers, Execute, Fine
<1>2. /\ command_messenger' = [command_messenger EXCEPT ![t] = "coming"] /\ "coming" \notin Commands
      /\ UNCHANGED <<world, con, halted, sensor_messenger, watch, trigger>>
  BY DEF Execute, Commands, conductor
<1>3. running \in [TrainSet -> BOOLEAN] /\ p \in [TrainSet -> Seq(Commands)]
  BY <1>1 DEF Fine
<1>4. running' = [running EXCEPT ![t] = run]
  BY <1>3 DEF Execute
<1>5. run \in BOOLEAN
  BY <1>3
<1>6. /\ p[t] = <<c>> /\ v[t] = <<>> /\ v \in [TrainSet -> Seq(Commands)]
      /\ \A u \in TrainSet : u # t => v[u] = p[u]
  <2>1. v \in [TrainSet -> Seq(Commands)]
    BY CarryTyped
  <2> QED BY <1>1, <1>2, <2>1 DEF Carry
<1>7. Known(con.train[t].isMoving, p[t] \o q, running[t]) \/ con.dropped
  BY <1>1 DEF Fine
<1>8. After(p[t] \o q, running[t]) = After(v[t] \o q, run)
  <2> DEFINE now == running[t]
  <2>1. q \in Seq(Commands) /\ now \in BOOLEAN
    BY <1>1, <1>3, ConductorFields, TrainFields
  <2>2. run = CASE c = "ACCELERATE" -> TRUE [] c = "REVERSE" -> now [] OTHER -> FALSE
    OBVIOUS
  <2> HIDE DEF q, now, run, c
  <2>3. After(<<c>> \o q, now) = After(q, run)
    BY <1>1, <2>1, <2>2, AfterFirst
  <2>4. <<>> \o q = q
    BY <2>1
  <2> QED BY <1>6, <2>3, <2>4 DEF now
<1> HIDE DEF S, p, c, v, run
<1>9. Fine(con, S, v, running')
  <2> DEFINE s == con
             z == running'
             r == running
  <2>1. /\ s \in Conductors /\ Fine(s, S, p, r) /\ z \in [TrainSet -> BOOLEAN]
        /\ \A u \in TrainSet : u # t => z[u] = r[u]
    BY <1>1, <1>3, <1>4, <1>5
  <2>3. ~s.dropped => Known(s.train[t].isMoving, v[t] \o s.train[t].train_commands, z[t])
    BY <1>3, <1>4, <1>7, <1>8 DEF Known
  <2>4. Obeyed(s, p, r, t, v, z)
    BY <1>6, <2>1, <2>3 DEF Obeyed
  <2> HIDE DEF s, z, r
  <2>5. Fine(s, S, v, z)
    BY <2>1, <2>4, ObeyedFine
  <2> QED BY <2>5 DEF s, z
<1>10. Spawned' = S /\ Books'
  <2>1. Spawned' = S
    BY <1>2 DEF Spawned, S
  <2> QED BY <1>2, <1>9, <2>1 DEF Books, v
<1>11. pos' \in [TrainSet -> Index \X Index]
  <2> DEFINE e == pos[t]
  <2>1. pos \in [TrainSet -> Index \X Index]
    BY DEF IndInv, Outside
  <2>2. e \in Index \X Index
    BY <2>1
  <2>3. Opposite(e) \in Index \X Index
    <3> HIDE DEF e
    <3>1. e[1] \in Index /\ e[2] \in Index
      BY <2>2
    <3> QED BY <3>1, OtherSide DEF Opposite
  <2>4. pos' = pos \/ pos' = [pos EXCEPT ![t] = Opposite(e)]
    BY DEF Execute
  <2> HIDE DEF e
  <2> QED BY <2>1, <2>3, <2>4
<1>12. go_messenger' \in [TrainSet -> {"none", "train", "delay", "coming"}]
  BY DEF IndInv, Outside, Execute
<1>13. \A u \in TrainSet : u \notin S => go_messenger'[u] = "none"
  BY <1>1 DEF IndInv, Outside, NoMessengers, Execute, S
<1>14. command_messenger' \in [TrainSet -> Carriers] /\ \A u \in TrainSet : u \notin S => command_messenger'[u] \notin Commands
  BY <1>1, <1>2 DEF Carriers
<1>15. Outside'
  BY <1>2, <1>11, <1>12, <1>14 DEF IndInv, Outside
<1> QED
  BY <1>10, <1>13, <1>14, <1>15 DEF IndInv, NoMessengers

LEMMA RestedKeeps ==
  ASSUME IndInv, NEW t \in TrainSet, Rested(t)
  PROVE  IndInv'
<1>1. /\ go_messenger[t] = "delay" /\ go_messenger' = [go_messenger EXCEPT ![t] = "coming"]
      /\ UNCHANGED <<world, con, halted, sensor_messenger, watch, trigger, command_messenger, pos, running>>
  BY DEF Rested, conductor, railway
<1>2. Spawned' = Spawned /\ Books'
  BY <1>1 DEF Spawned, IndInv, Books
<1>3. Outside'
  BY <1>1 DEF IndInv, Outside
<1>4. NoMessengers'
  BY <1>1, <1>2 DEF IndInv, Outside, NoMessengers
<1> QED
  BY <1>2, <1>3, <1>4 DEF IndInv

\* A train that leaves a node comes to one.
LEMMA NextAlongTyped ==
  ASSUME NEW g \in [0 .. NUM_SWITCHES - 1 -> {STRAIGHT, CURVED}], NEW n \in Index, num_edges(n) > 0
  PROVE  NextAlong(g, n) \in Index
<1> DEFINE d == IF Type(n) = "BRANCH" THEN g[get_switch_index(track[n].num)] ELSE DIR_AHEAD
<1>1. /\ \A k \in Dirs(n) : track[n].edge[k].dest \in Index
      /\ Type(n) = "BRANCH" => get_switch_index(track[n].num) \in 0 .. NUM_SWITCHES - 1
  BY ConductorAssumption DEF ConductorAssumption, TrackAssumption
<1>2. d \in Dirs(n)
  <2>1. CASE Type(n) = "BRANCH"
    <3>1. d \in {STRAIGHT, CURVED}
      BY <1>1, <2>1
    <3> HIDE DEF d
    <3> QED BY <2>1, <3>1 DEF Dirs, num_edges, EdgesOf, STRAIGHT, CURVED
  <2>2. CASE Type(n) # "BRANCH"
    <3>1. d = 0
      BY <2>2 DEF DIR_AHEAD
    <3>2. num_edges(n) \in Nat
      BY DEF num_edges, EdgesOf
    <3> HIDE DEF d
    <3> QED BY <3>1, <3>2 DEF Dirs
  <2> QED BY <2>1, <2>2
<1>3. NextAlong(g, n) = track[n].edge[d].dest
  BY DEF NextAlong, Dest
<1> HIDE DEF d
<1> QED
  BY <1>1, <1>2, <1>3

LEMMA EdgeAhead ==
  ASSUME IndInv, NEW t \in TrainSet, CanMove(t)
  PROVE  /\ pos \in [TrainSet -> Index \X Index] /\ pos[t][2] \in Index
         /\ NextAlong(con.setting, pos[t][2]) \in Index
<1>1. pos \in [TrainSet -> Index \X Index]
  BY DEF IndInv, Outside
<1>2. pos[t][2] \in Index /\ num_edges(pos[t][2]) > 0
  BY <1>1 DEF CanMove
<1>3. con.setting \in [0 .. NUM_SWITCHES - 1 -> {STRAIGHT, CURVED}]
  BY InTheBooks, ConductorFields
<1> QED
  BY <1>1, <1>2, <1>3, NextAlongTyped

LEMMA MoveKeeps ==
  ASSUME IndInv, NEW t \in TrainSet, Move(t)
  PROVE  IndInv'
<1> DEFINE n == pos[t][2]
           m == NextAlong(con.setting, n)
           heard == {u \in TrainSet : n \in watch[u]}
<1>1. pos \in [TrainSet -> Index \X Index] /\ n \in Index /\ m \in Index
  BY EdgeAhead DEF Move
<1>2. /\ pos' = [pos EXCEPT ![t] = <<n, m>>]
      /\ trigger' = [u \in TrainSet |-> IF u \in heard THEN n ELSE trigger[u]]
      /\ watch' = [u \in TrainSet |-> IF u \in heard THEN {} ELSE watch[u]]
      /\ sensor_messenger' = [u \in TrainSet |-> IF u \in heard THEN "coming" ELSE sensor_messenger[u]]
      /\ UNCHANGED <<world, con, halted, command_messenger, go_messenger, running>>
  BY DEF Move, conductor
<1> HIDE DEF n, m, heard
<1>3. pos' \in [TrainSet -> Index \X Index]
  BY <1>1, <1>2
<1>4. /\ trigger' \in [TrainSet -> Index \cup {None}] /\ watch' \in [TrainSet -> SUBSET Index]
      /\ sensor_messenger' \in [TrainSet -> Messengers]
  BY <1>1, <1>2 DEF IndInv, Outside, Messengers
<1>5. Spawned' = Spawned /\ Books' /\ NoMessengers'
  BY <1>2 DEF Spawned, IndInv, Books, NoMessengers
<1>6. Outside'
  BY <1>2, <1>3, <1>4 DEF IndInv, Outside
<1> QED
  BY <1>5, <1>6 DEF IndInv

LEMMA MissedKeeps ==
  ASSUME IndInv, NEW t \in TrainSet, Missed(t)
  PROVE  IndInv'
<1> DEFINE n == pos[t][2]
           m == NextAlong(con.setting, n)
<1>1. pos \in [TrainSet -> Index \X Index] /\ n \in Index /\ m \in Index
  BY EdgeAhead DEF Missed
<1>2. /\ pos' = [pos EXCEPT ![t] = <<n, m>>]
      /\ UNCHANGED <<world, con, halted, sensor_messenger, watch, trigger, command_messenger, go_messenger, running>>
  BY <1>1 DEF Missed, conductor, messengers
<1> HIDE DEF n, m
<1>3. pos' \in [TrainSet -> Index \X Index]
  BY <1>1, <1>2
<1>4. Spawned' = Spawned /\ Books' /\ NoMessengers'
  BY <1>2 DEF Spawned, IndInv, Books, NoMessengers
<1>5. Outside'
  BY <1>2, <1>3 DEF IndInv, Outside
<1> QED
  BY <1>4, <1>5 DEF IndInv

LEMMA StutterKeeps ==
  ASSUME IndInv, UNCHANGED vars
  PROVE  IndInv'
BY DEF IndInv, Outside, Books, NoMessengers, Spawned, vars, conductor, messengers, railway

-----------------------------------------------------------------------------
(* The theorems.                                                           *)

\* At the start nothing is marked, queued or told, and each train stands at a sensor,
\* which has an edge ahead.
LEMMA BooksOpened == Init => IndInv
<1> SUFFICES ASSUME Init PROVE IndInv
  OBVIOUS
<1> DEFINE e == <<>>
<1>1. e \in Seq(PathNodes) /\ e \in Seq(Commands) /\ Len(e) = 0 /\ DOMAIN e = {}
  OBVIOUS
<1>2. QUEUE \in Nat /\ NewTrain = [spawned |-> FALSE, last_sensor |-> None, last_sent_sensor |-> None,
         last_sent_sensor_safety |-> None, destination_node |-> None,
         path |-> e, reserved_nodes |-> e, train_commands |-> e,
         isMoving |-> FALSE, isTrainBlocked |-> FALSE,
         auto_mode |-> FALSE, demo_mode |-> FALSE, command_index |-> 1]
  BY ConductorAssumption DEF NewTrain, ConductorAssumption
<1> DEFINE trains == [t \in TrainSet |-> NewTrain]
           who == [n \in Index |-> NoTrain]
           g == InitialSettings
           s == [train |-> trains, who |-> who, setting |-> g, dropped |-> FALSE]
           p == Carry(command_messenger)
<1>3. TrainFine(NewTrain) /\ NewTrain.spawned = FALSE /\ NewTrain.isMoving = FALSE /\ NewTrain.train_commands = e
  <2> HIDE DEF e
  <2> QED BY <1>1, <1>2 DEF TrainFine, TrainRecords
<1>4. g \in [0 .. NUM_SWITCHES - 1 -> {STRAIGHT, CURVED}]
  BY DEF InitialSettings
<1>5. /\ con = s /\ command_messenger = [t \in TrainSet |-> "none"]
      /\ running = [t \in TrainSet |-> FALSE]
  BY DEF Init
<1>6. s \in Conductors
  <2>1. trains \in [TrainSet -> TrainRecords] /\ who \in [Index -> TrainSet \cup {NoTrain}]
    BY <1>3 DEF TrainFine
  <2> HIDE DEF trains, who, g
  <2> QED BY <1>4, <2>1 DEF Conductors
<1>7. Spawned = {}
  BY <1>3, <1>5 DEF Spawned
<1>8. /\ "none" \notin Commands /\ p \in [TrainSet -> Seq(Commands)] /\ \A t \in TrainSet : p[t] = e
  BY <1>5, CarryTyped DEF Carry, Commands
<1>9. After(e \o e, FALSE) = FALSE
  <2>1. e \o e = e
    OBVIOUS
  <2>2. {i \in DOMAIN e : e[i] # "REVERSE"} = {}
    BY <1>1
  <2> HIDE DEF e
  <2>3. After(e, FALSE) = FALSE
    BY <2>2 DEF After
  <2> QED BY <2>1, <2>3
<1>10. Books
  <2>1. \A t \in TrainSet, n \in Index : con.who[n] # t
    <3>1. con.who = who
      BY <1>5
    <3> QED BY <3>1, TrainNumbers
  <2>2. \A t \in TrainSet : con.train[t] = NewTrain
    BY <1>5
  <2>3. \A t \in TrainSet : Known(con.train[t].isMoving, p[t] \o con.train[t].train_commands, running[t])
    <3> HIDE DEF e, p
    <3> QED BY <1>3, <1>5, <1>8, <1>9, <2>2 DEF Known
  <2>4. con \in Conductors
    BY <1>5, <1>6
  <2>5. running \in [TrainSet -> BOOLEAN]
    BY <1>5
  <2> HIDE DEF s, p
  <2> QED BY <1>3, <1>7, <1>8, <2>1, <2>2, <2>3, <2>4, <2>5 DEF Books, Fine, p
<1>11. Outside
  <2>1. world \in Worlds /\ world.home \in [TrainSet -> Index] /\ \A t \in TrainSet : Type(world.home[t]) = "SENSOR"
    BY WorldFields DEF Init
  <2>2. ASSUME NEW t \in TrainSet PROVE NextAlong(g, world.home[t]) \in Index
    <3> DEFINE n == world.home[t]
    <3>1. n \in Index /\ num_edges(n) > 0
      BY <2>1 DEF num_edges, EdgesOf
    <3> HIDE DEF n, g
    <3>2. NextAlong(g, n) \in Index
      BY <1>4, <3>1, NextAlongTyped
    <3> QED BY <3>2 DEF n
  <2>3. pos \in [TrainSet -> Index \X Index]
    <3>1. pos = [t \in TrainSet |-> <<world.home[t], NextAlong(g, world.home[t])>>]
      BY DEF Init
    <3> HIDE DEF g
    <3> QED BY <2>1, <2>2, <3>1
  <2> QED BY <2>1, <2>3 DEF Init, Outside, Messengers, Carriers
<1>12. NoMessengers
  BY <1>8 DEF Init, NoMessengers
<1> QED
  BY <1>10, <1>11, <1>12 DEF IndInv

\* Every step keeps the books in order.
LEMMA BooksKept == IndInv /\ [Next]_vars => IndInv'
<1> SUFFICES ASSUME IndInv, [Next]_vars PROVE IndInv'
  OBVIOUS
<1>1. CASE \E t \in TrainSet : SPAWN_TRAIN(t) \/ Software(t) \/ Move(t) \/ Missed(t)
  <2>1. PICK t \in TrainSet : SPAWN_TRAIN(t) \/ Software(t) \/ Move(t) \/ Missed(t)
    BY <1>1
  <2>2. CASE SPAWN_TRAIN(t)
    BY <2>2, SpawnKeeps
  <2>3. CASE GO_AGAIN(t)
    BY <2>3, GoAgainKeeps
  <2>4. CASE GET_CMD(t)
    BY <2>4, CommandAnswered
  <2>5. CASE GET_SENSOR(t)
    BY <2>5, SensorAnswered
  <2>6. CASE SENSOR_TRIGGER(t)
    BY <2>6, TriggerKeeps
  <2>7. CASE Execute(t)
    BY <2>7, ExecuteKeeps
  <2>8. CASE Rested(t)
    BY <2>8, RestedKeeps
  <2>9. CASE Move(t)
    BY <2>9, MoveKeeps
  <2>10. CASE Missed(t)
    BY <2>10, MissedKeeps
  <2> QED BY <2>1, <2>2, <2>3, <2>4, <2>5, <2>6, <2>7, <2>8, <2>9, <2>10 DEF Software
<1>2. CASE \E t \in TrainSet : (\E d \in world.dests : GOTO(t, d)) \/ ACCELERATE_TRAIN(t) \/ REVERSE_TRAIN(t)
  <2>1. PICK t \in TrainSet : (\E d \in world.dests : GOTO(t, d)) \/ ACCELERATE_TRAIN(t) \/ REVERSE_TRAIN(t)
    BY <1>2
  <2>2. CASE \E d \in world.dests : GOTO(t, d)
    BY <2>2, GotoKeeps
  <2>3. CASE ACCELERATE_TRAIN(t)
    BY <2>3, AccelerateKeeps
  <2>4. CASE REVERSE_TRAIN(t)
    BY <2>4, ReverseKeeps
  <2> QED BY <2>1, <2>2, <2>3, <2>4
<1>3. CASE \E n \in world.turnouts, dir \in {STRAIGHT, CURVED} : SET_SWITCH(track[n].num, dir)
  <2>1. PICK n \in world.turnouts, dir \in {STRAIGHT, CURVED} : SET_SWITCH(track[n].num, dir)
    BY <1>3
  <2> QED BY <2>1, SwitchKeeps
<1>4. CASE STOP_ALL \/ AUTO \/ DEMO
  BY <1>4, ModesKeep
<1>5. CASE UNCHANGED vars
  BY <1>5, StutterKeeps
<1> QED
  BY <1>1, <1>2, <1>3, <1>4, <1>5 DEF Next

\* In every reachable state the conductor's books are in order.
THEOREM BooksInOrder == Spec => []IndInv
BY BooksOpened, BooksKept, PTL DEF Spec

\* Every node that the conductor holds for a train, in who_reserved_me, is in the
\* queue of what that train has reserved, or its other side is: whatever the
\* operator does and whatever the trains do, no mark is left behind to close a
\* node for ever.
THEOREM MarksQueued == Spec => []MarksAreQueued
BY BooksInOrder, BooksShow, PTL

\* isMoving is what the train does when it has obeyed every command on its way to
\* it, as long as no command was dropped by a full queue.
THEOREM MovingKnown == Spec => []MovingIsKnown
BY BooksInOrder, BooksShow, PTL

=============================================================================
