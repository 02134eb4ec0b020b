-------------------------- MODULE TrainTaskProofs --------------------------
(***************************************************************************)
(* The train task for any speeds, any delays and any room in the           *)
(* conductor's queue: a train is turned at speed zero, obeys every command *)
(* in order, and is never stranded by a patient conductor.                 *)
(***************************************************************************)
EXTENDS TrainTask, SequenceTheorems, TLAPS

GoMessage == [type |-> "GO_MESSENGER"]
CommandMessage(cmd) == [type |-> "TRAIN_COMMAND", cmd |-> cmd]

\* Each messenger has at most one message in the inbox, while it waits there.
CommandComes == command_messenger = "train" /\ train = "receive"
GoComes == go_messenger = "coming"

InboxKnown ==
  /\ train # "receive" => command_messenger = "train"
  /\ ~CommandComes /\ ~GoComes => inbox = <<>>
  /\ ~CommandComes /\ GoComes => inbox = <<GoMessage>>
  /\ CommandComes /\ ~GoComes => \E cmd \in Commands : inbox = <<CommandMessage(cmd)>>
  /\ CommandComes /\ GoComes =>
       \E cmd \in Commands : \/ inbox = <<GoMessage, CommandMessage(cmd)>>
                             \/ inbox = <<CommandMessage(cmd), GoMessage>>

\* The task knows what the railway does.
RailKnown ==
  /\ rail = [speed |-> train_speed, reversed |-> isReversed]
  /\ train = "turning" => train_speed = 0

\* Under a patient conductor the go messenger is answered when it waits: the only
\* delay is the one it is in, and while a STOP_GO is under way nothing is behind it,
\* and the go messenger's message, if it has not been received, is before it.
RestKnown ==
  patient =>
    /\ train # "stranded" /\ clock
    /\ go_messenger # "delay" => delays = <<>>
    /\ go_messenger = "delay" => \E d \in 0 .. PAUSE : delays = <<d>>
    /\ \A i \in DOMAIN train_commands : train_commands[i] = StopGo =>
         i = Len(train_commands) /\ go_messenger \in {"coming", "train"}
    /\ \A i \in DOMAIN inbox : inbox[i] = CommandMessage(StopGo) =>
         /\ train_commands = <<>> /\ go_messenger \in {"coming", "train"}
         /\ go_messenger = "coming" => i = 2

\* What speed and direction come to with the command that the task has or is sent.
ComesTo(state) ==
  /\ train = "turning" => state = [speed |-> initial_speed, reversed |-> ~rail.reversed]
  /\ train # "turning" /\ ~CommandComes => state = rail
  /\ \A i \in DOMAIN inbox :
       inbox[i].type = "TRAIN_COMMAND" => state = After(rail, inbox[i].cmd)

\* From there the commands in the queue lead to what is meant, one by one.
MeantKnown ==
  \E f \in [0 .. Len(train_commands) -> States] :
    /\ ComesTo(f[0])
    /\ \A i \in 1 .. Len(train_commands) : f[i] = After(f[i - 1], train_commands[i])
    /\ f[Len(train_commands)] = meant

TaskInv == TypeOK /\ InboxKnown /\ RailKnown /\ RestKnown /\ MeantKnown
-----------------------------------------------------------------------------
(* Commands, messages and sequences of them.                               *)

LEMMA CommandFacts ==
  /\ \A cmd \in Commands : cmd.command \in {"ACCELERATE", "REVERSE", "STOP", "STOP_GO"}
  /\ \A cmd \in Commands : cmd.command = "ACCELERATE" => cmd.speed \in Speeds
  /\ \A cmd \in Commands : cmd.command = "STOP_GO" => cmd = StopGo
  /\ StopGo \in Commands /\ StopGo.command = "STOP_GO"
  BY DEF Commands, Accelerate, Reverse, Stop, StopGo

LEMMA AfterFacts ==
  ASSUME NEW state \in States, NEW cmd \in Commands
  PROVE  /\ After(state, cmd) \in States
         /\ cmd.command = "ACCELERATE" =>
              After(state, cmd) = [speed |-> cmd.speed, reversed |-> state.reversed]
         /\ cmd.command = "REVERSE" =>
              After(state, cmd) = [speed |-> state.speed, reversed |-> ~state.reversed]
         /\ cmd.command \in {"STOP", "STOP_GO"} =>
              After(state, cmd) = [speed |-> 0, reversed |-> state.reversed]
<1>1. cmd.command \in {"ACCELERATE", "REVERSE", "STOP", "STOP_GO"}
  BY CommandFacts
<1>2. CASE cmd.command = "ACCELERATE"
  BY <1>2, CommandFacts DEF After, States
<1>3. CASE cmd.command = "REVERSE"
  BY <1>3 DEF After, States
<1>4. CASE cmd.command \in {"STOP", "STOP_GO"}
  BY <1>4 DEF After, States
<1> QED
  BY <1>1, <1>2, <1>3, <1>4

LEMMA MessageFacts ==
  /\ GoMessage \in Messages /\ GoMessage.type = "GO_MESSENGER"
  /\ \A cmd \in Commands : /\ CommandMessage(cmd) \in Messages
                           /\ CommandMessage(cmd).type = "TRAIN_COMMAND"
                           /\ CommandMessage(cmd).cmd = cmd
                           /\ CommandMessage(cmd) # GoMessage
<1>1. GoMessage.type = "GO_MESSENGER"
  BY DEF GoMessage
<1>2. ASSUME NEW cmd \in Commands
      PROVE  /\ CommandMessage(cmd) \in Messages /\ CommandMessage(cmd).type = "TRAIN_COMMAND"
             /\ CommandMessage(cmd).cmd = cmd
  BY DEF CommandMessage, Messages
<1> QED
  BY <1>1, <1>2 DEF Messages, GoMessage

LEMMA ShortSequences ==
  ASSUME NEW x, NEW y
  PROVE  /\ Append(<<>>, x) = <<x>> /\ Append(<<x>>, y) = <<x, y>>
         /\ Head(<<x>>) = x /\ Tail(<<x>>) = <<>>
         /\ Head(<<x, y>>) = x /\ Tail(<<x, y>>) = <<y>>
         /\ <<x>> # <<>> /\ <<x, y>> # <<>>
         /\ DOMAIN <<x>> = {1} /\ DOMAIN <<x, y>> = {1, 2}
         /\ <<x>>[1] = x /\ <<x, y>>[1] = x /\ <<x, y>>[2] = y
<1>1. Append(<<>>, x) = <<x>>
  OBVIOUS
<1>2. Append(<<x>>, y) = <<x, y>>
  <2>1. <<x>> \in Seq({x, y}) /\ <<x, y>> \in Seq({x, y}) /\ Len(<<x, y>>) = 2
    OBVIOUS
  <2>2. /\ Append(<<x>>, y) \in Seq({x, y}) /\ Len(Append(<<x>>, y)) = 2
        /\ Append(<<x>>, y)[1] = x /\ Append(<<x>>, y)[2] = y
    BY <2>1
  <2>3. \A i \in 1 .. 2 : Append(<<x>>, y)[i] = <<x, y>>[i]
    BY <2>2
  <2> QED
    BY <2>1, <2>2, <2>3, SeqEqual
<1>3. Head(<<x>>) = x
  OBVIOUS
<1>4. Tail(<<x>>) = <<>>
  OBVIOUS
<1>5. Head(<<x, y>>) = x
  OBVIOUS
<1>6. Tail(<<x, y>>) = <<y>>
  OBVIOUS
<1>7. <<x>> # <<>>
  OBVIOUS
<1>8. <<x, y>> # <<>>
  OBVIOUS
<1>9. DOMAIN <<x>> = {1}
  OBVIOUS
<1>10. DOMAIN <<x, y>> = {1, 2}
  OBVIOUS
<1>11. <<x>>[1] = x /\ <<x, y>>[1] = x /\ <<x, y>>[2] = y
  OBVIOUS
<1> QED
  BY <1>1, <1>2, <1>3, <1>4, <1>5, <1>6, <1>7, <1>8, <1>9, <1>10, <1>11

LEMMA DelaysGrow ==
  ASSUME NEW q \in Seq(0 .. PAUSE)
  PROVE  /\ Append(q, 0) \in Seq(0 .. PAUSE)
         /\ q # <<>> => Tail(q) \in Seq(0 .. PAUSE)
<1> DEFINE Times == 0 .. PAUSE
<1>1. 0 \in Times /\ q \in Seq(Times)
  BY TrainTaskAssumption
<1> HIDE DEF Times
<1>2. Append(q, 0) \in Seq(Times) /\ (q # <<>> => Tail(q) \in Seq(Times))
  BY <1>1
<1> QED
  BY <1>2 DEF Times

LEMMA DelaysPass ==
  ASSUME NEW q \in Seq(0 .. PAUSE), NEW r,
         r = [i \in DOMAIN q |-> IF q[i] < PAUSE THEN q[i] + 1 ELSE PAUSE]
  PROVE  /\ r \in Seq(0 .. PAUSE)
         /\ q = <<>> => r = <<>>
         /\ (\E d \in 0 .. PAUSE : q = <<d>>) => \E d \in 0 .. PAUSE : r = <<d>>
<1> DEFINE Times == 0 .. PAUSE
           Later(d) == IF d < PAUSE THEN d + 1 ELSE PAUSE
<1>1. \A d \in Times : Later(d) \in Times
  BY TrainTaskAssumption
<1>2. q \in Seq(Times) /\ r = [i \in DOMAIN q |-> Later(q[i])]
  OBVIOUS
<1> HIDE DEF Times, Later
<1>3. PICK k \in Nat : Len(q) = k /\ DOMAIN q = 1 .. k /\ \A i \in 1 .. k : q[i] \in Times
  BY <1>2
<1>4. r \in [1 .. k -> Times]
  BY <1>1, <1>2, <1>3
<1>5. r \in Seq(Times) /\ Len(r) = k
  BY <1>4
<1>6. q = <<>> => r = <<>>
  BY <1>3, <1>5, EmptySeq
<1>7. ASSUME NEW d \in Times, q = <<d>>
      PROVE  \E e \in Times : r = <<e>>
  <2>1. k = 1
    BY <1>3, <1>7
  <2>2. r[1] \in Times /\ r = <<r[1]>>
    BY <1>5, <2>1
  <2> QED
    BY <2>2
<1> QED
  BY <1>5, <1>6, <1>7 DEF Times

LEMMA QueueFacts ==
  ASSUME NEW q \in Seq(Commands)
  PROVE  /\ Len(q) \in Nat /\ DOMAIN q = 1 .. Len(q) /\ (q = <<>> <=> Len(q) = 0)
         /\ \A i \in 1 .. Len(q) : q[i] \in Commands
         /\ \A cmd \in Commands :
              /\ Append(q, cmd) \in Seq(Commands) /\ Len(Append(q, cmd)) = Len(q) + 1
              /\ \A i \in 1 .. Len(q) : Append(q, cmd)[i] = q[i]
              /\ Append(q, cmd)[Len(q) + 1] = cmd
         /\ q # <<>> =>
              /\ Head(q) = q[1] /\ Head(q) \in Commands
              /\ Tail(q) \in Seq(Commands) /\ Len(Tail(q)) = Len(q) - 1
              /\ \A i \in 1 .. Len(q) - 1 : Tail(q)[i] = q[i + 1]
<1> HIDE DEF Commands
<1> QED
  OBVIOUS
-----------------------------------------------------------------------------
(* The inbox.                                                              *)

\* What the inbox is after one of the messengers has put its message there.
LEMMA CommandArrives ==
  ASSUME TypeOK, InboxKnown, command_messenger = "conductor", NEW cmd \in Commands,
         command_messenger' = "train", inbox' = Append(inbox, CommandMessage(cmd)),
         UNCHANGED <<go_messenger, train>>
  PROVE  /\ InboxKnown' /\ inbox' \in Seq(Messages) /\ train = "receive"
         /\ inbox' = IF go_messenger = "coming" THEN <<GoMessage, CommandMessage(cmd)>>
                                               ELSE <<CommandMessage(cmd)>>
<1>1. train = "receive" /\ ~CommandComes /\ CommandComes' /\ (GoComes' <=> GoComes)
  BY DEF TypeOK, InboxKnown, CommandComes, GoComes
<1>2. inbox = IF GoComes THEN <<GoMessage>> ELSE <<>>
  BY <1>1 DEF InboxKnown
<1>3. inbox' = IF GoComes THEN <<GoMessage, CommandMessage(cmd)>> ELSE <<CommandMessage(cmd)>>
  BY <1>2, ShortSequences
<1>4. inbox' \in Seq(Messages)
  <2>1. GoMessage \in Messages /\ CommandMessage(cmd) \in Messages
    BY MessageFacts
  <2> HIDE DEF Messages, GoMessage, CommandMessage
  <2> QED
    BY <1>3, <2>1
<1> QED
  BY <1>1, <1>3, <1>4 DEF InboxKnown, GoComes

LEMMA GoArrives ==
  ASSUME TypeOK, InboxKnown, go_messenger \in {"starting", "telling"},
         go_messenger' = "coming", inbox' = Append(inbox, GoMessage),
         UNCHANGED <<command_messenger, train>>
  PROVE  /\ InboxKnown' /\ inbox' \in Seq(Messages)
         /\ \A i \in DOMAIN inbox' : inbox'[i].type = "TRAIN_COMMAND" =>
              i \in DOMAIN inbox /\ inbox[i] = inbox'[i]
<1>1. ~GoComes /\ GoComes' /\ (CommandComes' <=> CommandComes)
  BY DEF CommandComes, GoComes
<1>2. CASE ~CommandComes
  <2>1. inbox = <<>> /\ inbox' = <<GoMessage>>
    BY <1>1, <1>2, ShortSequences DEF InboxKnown
  <2>2. inbox' \in Seq(Messages)
    BY <2>1, MessageFacts
  <2> QED
    BY <1>1, <1>2, <2>1, <2>2, MessageFacts, ShortSequences DEF InboxKnown
<1>3. CASE CommandComes
  <2>1. PICK cmd \in Commands : inbox = <<CommandMessage(cmd)>>
    BY <1>1, <1>3 DEF InboxKnown
  <2>2. inbox' = <<CommandMessage(cmd), GoMessage>>
    BY <2>1, ShortSequences, ZenonT(40)
  <2>3. inbox' \in Seq(Messages)
    BY <2>2, MessageFacts
  <2>4. DOMAIN inbox = {1} /\ DOMAIN inbox' = {1, 2} /\ inbox'[2] = GoMessage /\ inbox'[1] = inbox[1]
    BY <2>1, <2>2, ShortSequences
  <2>5. \A i \in DOMAIN inbox' : inbox'[i].type = "TRAIN_COMMAND" =>
          i \in DOMAIN inbox /\ inbox[i] = inbox'[i]
    BY <2>4, MessageFacts
  <2>6. InboxKnown'
    BY <1>1, <1>3, <2>2 DEF InboxKnown, CommandComes
  <2> QED
    BY <2>3, <2>5, <2>6
<1> QED
  BY <1>2, <1>3

\* A command is taken: the messenger that brought it waits, nothing else changes.
LEMMA CommandTaken ==
  ASSUME TypeOK, InboxKnown, NEW name, Command(name)
  PROVE  \E cmd \in Commands :
           /\ Head(inbox) = CommandMessage(cmd) /\ cmd.command = name
           /\ \E i \in DOMAIN inbox : inbox[i] = CommandMessage(cmd)
           /\ CommandComes /\ inbox' \in Seq(Messages)
           /\ inbox' = IF GoComes THEN <<GoMessage>> ELSE <<>>
           /\ GoComes => \E i \in DOMAIN inbox : i = 1 /\ inbox[i] = CommandMessage(cmd)
<1>1. /\ train = "receive" /\ clock /\ inbox # <<>> /\ inbox' = Tail(inbox)
      /\ Head(inbox).type = "TRAIN_COMMAND" /\ Head(inbox).cmd.command = name
  BY DEF Command, Receive
<1>2. Head(inbox) # GoMessage
  BY <1>1, MessageFacts
<1>3. CASE ~GoComes
  <2>1. CommandComes
    BY <1>1, <1>3 DEF InboxKnown
  <2>2. PICK cmd \in Commands : inbox = <<CommandMessage(cmd)>>
    BY <1>3, <2>1 DEF InboxKnown
  <2>3. Head(inbox) = CommandMessage(cmd) /\ inbox' = <<>> /\ inbox[1] = CommandMessage(cmd)
        /\ DOMAIN inbox = {1}
    BY <1>1, <2>2, ShortSequences
  <2>4. inbox' \in Seq(Messages)
    BY <2>3
  <2>5. cmd.command = name
    BY <1>1, <2>3, MessageFacts
  <2> QED
    BY <1>3, <2>1, <2>3, <2>4, <2>5
<1>4. CASE GoComes
  <2>1. CommandComes
    BY <1>1, <1>2, <1>4, ShortSequences DEF InboxKnown
  <2>2. PICK cmd \in Commands : inbox = <<CommandMessage(cmd), GoMessage>>
    BY <1>2, <1>4, <2>1, ShortSequences DEF InboxKnown
  <2>3. Head(inbox) = CommandMessage(cmd) /\ inbox' = <<GoMessage>> /\ inbox[1] = CommandMessage(cmd)
        /\ DOMAIN inbox = {1, 2}
    BY <1>1, <2>2, ShortSequences
  <2>4. inbox' \in Seq(Messages)
    BY <2>3, MessageFacts
  <2>5. cmd.command = name
    BY <1>1, <2>3, MessageFacts
  <2> QED
    BY <1>4, <2>1, <2>3, <2>4, <2>5
<1> QED
  BY <1>3, <1>4

LEMMA GoTaken ==
  ASSUME TypeOK, InboxKnown, Receive("GO_MESSENGER")
  PROVE  /\ GoComes /\ inbox' \in Seq(Messages)
         /\ ~CommandComes => inbox' = <<>>
         /\ CommandComes => \E cmd \in Commands :
              inbox' = <<CommandMessage(cmd)>> /\ inbox = <<GoMessage, CommandMessage(cmd)>>
<1>1. /\ inbox # <<>> /\ inbox' = Tail(inbox) /\ Head(inbox).type = "GO_MESSENGER"
  BY DEF Receive
<1>2. \A cmd \in Commands : Head(inbox) # CommandMessage(cmd)
  BY <1>1, MessageFacts
<1>3. GoComes
  BY <1>1, <1>2, ShortSequences DEF InboxKnown
<1>4. CASE ~CommandComes
  <2>1. inbox = <<GoMessage>>
    BY <1>3, <1>4 DEF InboxKnown
  <2>2. inbox' = <<>>
    BY <1>1, <2>1, ShortSequences
  <2>3. inbox' \in Seq(Messages)
    BY <2>2
  <2> QED
    BY <1>3, <1>4, <2>2, <2>3
<1>5. CASE CommandComes
  <2>1. PICK cmd \in Commands : inbox = <<GoMessage, CommandMessage(cmd)>>
    BY <1>2, <1>3, <1>5, ShortSequences DEF InboxKnown
  <2>2. inbox' = <<CommandMessage(cmd)>>
    BY <1>1, <2>1, ShortSequences
  <2>3. inbox' \in Seq(Messages)
    BY <2>2, MessageFacts
  <2> QED
    BY <1>3, <1>5, <2>1, <2>2, <2>3
<1> QED
  BY <1>3, <1>4, <1>5
-----------------------------------------------------------------------------
(* What is meant.                                                          *)

\* As long as the queue is left alone, it is enough that the task goes on to where
\* it was going.
LEMMA StillMeant ==
  ASSUME MeantKnown, UNCHANGED <<train_commands, meant>>,
         ASSUME NEW state \in States, ComesTo(state) PROVE ComesTo(state)'
  PROVE  MeantKnown'
<1>1. PICK f \in [0 .. Len(train_commands) -> States] :
        /\ ComesTo(f[0])
        /\ \A i \in 1 .. Len(train_commands) : f[i] = After(f[i - 1], train_commands[i])
        /\ f[Len(train_commands)] = meant
  BY DEF MeantKnown
<1> DEFINE n == Len(train_commands)
<1>2. f \in [0 .. n' -> States] /\ ComesTo(f[0])'
  BY <1>1
<1>3. /\ \A i \in 1 .. n' : f[i] = After(f[i - 1], train_commands'[i])
      /\ f[n'] = meant'
  BY <1>1
<1> QED
  BY <1>2, <1>3 DEF MeantKnown

\* A command that is done with leaves an inbox without one, and the railway where
\* the command leads.
LEMMA CommandDone ==
  ASSUME TaskInv, NEW name, Command(name), Answered, train' = "receive",
         go_messenger' = "coming" <=> go_messenger = "coming",
         UNCHANGED <<train_commands, meant>>,
         \A cmd \in Commands : cmd.command = name /\ Head(inbox) = CommandMessage(cmd) =>
                                 rail' = After(rail, cmd)
  PROVE  /\ InboxKnown' /\ inbox' \in Seq(Messages) /\ MeantKnown'
         /\ \A i \in DOMAIN inbox' : inbox'[i].type # "TRAIN_COMMAND"
<1>1. PICK cmd \in Commands :
        /\ Head(inbox) = CommandMessage(cmd) /\ cmd.command = name
        /\ \E i \in DOMAIN inbox : inbox[i] = CommandMessage(cmd)
        /\ CommandComes /\ inbox' \in Seq(Messages)
        /\ inbox' = IF GoComes THEN <<GoMessage>> ELSE <<>>
  BY CommandTaken DEF TaskInv
<1>2. ~CommandComes' /\ (GoComes' <=> GoComes) /\ train' = "receive"
  BY DEF CommandComes, GoComes, Answered
<1>3. InboxKnown'
  BY <1>1, <1>2 DEF InboxKnown
<1>4. \A i \in DOMAIN inbox' : inbox'[i].type # "TRAIN_COMMAND"
  BY <1>1, MessageFacts, ShortSequences
<1>5. ASSUME NEW state \in States, ComesTo(state)
      PROVE  ComesTo(state)'
  <2>1. state = After(rail, cmd)
    BY <1>1, <1>5, MessageFacts DEF ComesTo
  <2>2. state = rail'
    BY <1>1, <2>1
  <2> QED
    BY <1>2, <1>4, <2>2 DEF ComesTo
<1>6. MeantKnown'
  BY <1>5, StillMeant DEF TaskInv
<1> QED
  BY <1>1, <1>3, <1>4, <1>6
-----------------------------------------------------------------------------
(* The steps of the train task.                                            *)

LEMMA RestStaysKnown ==
  ASSUME RestKnown, UNCHANGED <<patient, train_commands, go_messenger, delays, clock>>,
         patient => train' # "stranded",
         \A i \in DOMAIN inbox' : inbox'[i].type # "TRAIN_COMMAND"
  PROVE  RestKnown'
  BY DEF RestKnown, CommandMessage

LEMMA ACCELERATEKeeps ==
  ASSUME TaskInv, ACCELERATE
  PROVE  TaskInv'
<1>1. Command("ACCELERATE")
  BY DEF ACCELERATE
<1>2. PICK cmd \in Commands : Head(inbox) = CommandMessage(cmd) /\ cmd.command = "ACCELERATE"
  BY <1>1, CommandTaken DEF TaskInv
<1>3. cmd.speed \in Speeds /\ Head(inbox).cmd = cmd
  BY <1>2, CommandFacts, MessageFacts
<1>4. /\ train_speed' = cmd.speed /\ rail' = [speed |-> cmd.speed, reversed |-> rail.reversed]
      /\ Answered /\ train' = train
      /\ UNCHANGED <<train_commands, go_messenger, initial_speed, isReversed, turned, delays,
                     clock, patient, meant, given, stops, goes>>
  BY <1>3 DEF ACCELERATE, Tell, ghosts
<1>5. train = "receive"
  BY <1>1 DEF Command, Receive
<1>6. \A c \in Commands : c.command = "ACCELERATE" /\ Head(inbox) = CommandMessage(c) =>
                             rail' = After(rail, c)
  <2> SUFFICES ASSUME NEW c \in Commands, Head(inbox) = CommandMessage(c)
               PROVE  rail' = After(rail, c)
    OBVIOUS
  <2>1. c = cmd
    BY <1>2, MessageFacts
  <2> QED
    BY <1>2, <1>4, <2>1, AfterFacts DEF TaskInv, TypeOK
<1>7. /\ InboxKnown' /\ inbox' \in Seq(Messages) /\ MeantKnown'
      /\ \A i \in DOMAIN inbox' : inbox'[i].type # "TRAIN_COMMAND"
  BY <1>1, <1>4, <1>5, <1>6, CommandDone
<1>8. TypeOK'
  BY <1>3, <1>4, <1>7 DEF TaskInv, TypeOK, States, Answered
<1>9. RailKnown'
  BY <1>4, <1>5 DEF TaskInv, RailKnown
<1>10. RestKnown'
  BY <1>4, <1>5, <1>7, RestStaysKnown DEF TaskInv
<1> QED
  BY <1>7, <1>8, <1>9, <1>10 DEF TaskInv

LEMMA STOPKeeps ==
  ASSUME TaskInv, STOP
  PROVE  TaskInv'
<1>1. Command("STOP")
  BY DEF STOP
<1>2. /\ train_speed' = 0 /\ rail' = [speed |-> 0, reversed |-> rail.reversed]
      /\ Answered /\ train' = train
      /\ UNCHANGED <<train_commands, go_messenger, initial_speed, isReversed, turned, delays,
                     clock, patient, meant, given, stops, goes>>
  BY DEF STOP, Tell, ghosts
<1>3. train = "receive"
  BY <1>1 DEF Command, Receive
<1>4. \A c \in Commands : c.command = "STOP" => rail' = After(rail, c)
  BY <1>2, AfterFacts DEF TaskInv, TypeOK
<1>5. /\ InboxKnown' /\ inbox' \in Seq(Messages) /\ MeantKnown'
      /\ \A i \in DOMAIN inbox' : inbox'[i].type # "TRAIN_COMMAND"
  BY <1>1, <1>2, <1>3, <1>4, CommandDone
<1>6. TypeOK'
  BY <1>2, <1>5 DEF TaskInv, TypeOK, States, Answered
<1>7. RailKnown'
  BY <1>2, <1>3 DEF TaskInv, RailKnown
<1>8. RestKnown'
  BY <1>2, <1>3, <1>5, RestStaysKnown DEF TaskInv
<1> QED
  BY <1>5, <1>6, <1>7, <1>8 DEF TaskInv

\* A patient conductor's STOP_GO finds the go messenger waiting.
LEMMA STOP_GOKeeps ==
  ASSUME TaskInv, STOP_GO
  PROVE  TaskInv'
<1>1. Command("STOP_GO")
  BY DEF STOP_GO
<1>2. PICK cmd \in Commands :
        /\ Head(inbox) = CommandMessage(cmd) /\ cmd.command = "STOP_GO"
        /\ \E i \in DOMAIN inbox : inbox[i] = CommandMessage(cmd)
        /\ CommandComes /\ inbox' \in Seq(Messages)
        /\ inbox' = IF GoComes THEN <<GoMessage>> ELSE <<>>
        /\ GoComes => \E i \in DOMAIN inbox : i = 1 /\ inbox[i] = CommandMessage(cmd)
  BY <1>1, CommandTaken DEF TaskInv
<1>3. cmd = StopGo
  BY <1>2, CommandFacts
<1>4. /\ train_speed' = 0 /\ rail' = [speed |-> 0, reversed |-> rail.reversed]
      /\ stops' = stops + 1
      /\ UNCHANGED <<train_commands, initial_speed, isReversed, turned,
                     clock, patient, meant, given, goes>>
  BY DEF STOP_GO, Tell
<1>5. train = "receive" /\ command_messenger = "train"
  BY <1>2 DEF CommandComes
<1>6. \A c \in Commands : c.command = "STOP_GO" => rail' = After(rail, c)
  BY <1>4, AfterFacts DEF TaskInv, TypeOK
<1>7. patient => go_messenger = "train" /\ delays = <<>> /\ clock /\ train_commands = <<>>
  BY <1>2, <1>3 DEF TaskInv, RestKnown, GoComes
<1>8. CASE Answered /\ UNCHANGED train
  <2>1. \/ go_messenger = "train" /\ go_messenger' = "delay" /\ delays' = Append(delays, 0)
        \/ go_messenger = "delay" /\ go_messenger' = "telling" /\ delays' = delays
    BY <1>5, <1>8 DEF STOP_GO
  <2>2. /\ InboxKnown' /\ inbox' \in Seq(Messages) /\ MeantKnown'
        /\ \A i \in DOMAIN inbox' : inbox'[i].type # "TRAIN_COMMAND"
    BY <1>1, <1>4, <1>5, <1>6, <1>8, <2>1, CommandDone
  <2>3. delays' \in Seq(0 .. PAUSE)
    BY <2>1, DelaysGrow DEF TaskInv, TypeOK
  <2>4. TypeOK'
    BY <1>4, <1>8, <2>1, <2>2, <2>3 DEF TaskInv, TypeOK, States, Answered
  <2>5. RailKnown'
    BY <1>4, <1>5, <1>8 DEF TaskInv, RailKnown
  <2>6. patient => delays' = <<0>>
    BY <1>7, <2>1, ShortSequences
  <2>7. RestKnown'
    BY <1>4, <1>5, <1>7, <1>8, <2>1, <2>2, <2>6, TrainTaskAssumption DEF RestKnown, CommandMessage
  <2> QED
    BY <2>2, <2>4, <2>5, <2>7 DEF TaskInv
<1>9. CASE /\ go_messenger \in {"coming", "telling"} /\ train' = "stranded"
           /\ UNCHANGED <<go_messenger, command_messenger, delays>>
  <2>1. ~patient
    BY <1>7, <1>9
  <2>2. ~CommandComes' /\ (GoComes' <=> GoComes)
    BY <1>9 DEF CommandComes, GoComes
  <2>3. InboxKnown'
    BY <1>2, <1>5, <1>9, <2>2 DEF InboxKnown
  <2>4. \A i \in DOMAIN inbox' : inbox'[i].type # "TRAIN_COMMAND"
    BY <1>2, MessageFacts, ShortSequences
  <2>5. ASSUME NEW state \in States, ComesTo(state)
        PROVE  ComesTo(state)'
    BY <1>2, <1>6, <1>9, <2>2, <2>4, <2>5, MessageFacts DEF ComesTo
  <2>6. MeantKnown'
    BY <1>4, <2>5, StillMeant DEF TaskInv
  <2>7. TypeOK'
    BY <1>2, <1>4, <1>9 DEF TaskInv, TypeOK, States
  <2>8. RailKnown'
    BY <1>4, <1>9 DEF TaskInv, RailKnown
  <2>9. RestKnown'
    BY <1>4, <2>1 DEF RestKnown
  <2> QED
    BY <2>3, <2>6, <2>7, <2>8, <2>9 DEF TaskInv
<1> QED
  BY <1>8, <1>9 DEF STOP_GO

LEMMA REVERSEKeeps ==
  ASSUME TaskInv, REVERSE
  PROVE  TaskInv'
<1>1. Command("REVERSE")
  BY DEF REVERSE
<1>2. PICK cmd \in Commands :
        /\ Head(inbox) = CommandMessage(cmd) /\ cmd.command = "REVERSE"
        /\ \E i \in DOMAIN inbox : inbox[i] = CommandMessage(cmd)
        /\ CommandComes /\ inbox' \in Seq(Messages)
        /\ inbox' = IF GoComes THEN <<GoMessage>> ELSE <<>>
  BY <1>1, CommandTaken DEF TaskInv
<1>3. /\ initial_speed' = train_speed
      /\ UNCHANGED <<train_commands, go_messenger, delays, clock, patient, meant, given, stops, goes>>
  BY DEF REVERSE, ghosts
<1>4. train = "receive" /\ command_messenger = "train"
  BY <1>2 DEF CommandComes
<1>5. \A i \in DOMAIN inbox' : inbox'[i].type # "TRAIN_COMMAND"
  BY <1>2, MessageFacts, ShortSequences
<1>6. CASE train_speed > 0
  <2>1. /\ train_speed' = 0 /\ rail' = [speed |-> 0, reversed |-> rail.reversed]
        /\ train' = "turning" /\ turned' = 0 /\ UNCHANGED <<isReversed, command_messenger>>
    BY <1>6 DEF REVERSE, Tell
  <2>2. ~CommandComes' /\ (GoComes' <=> GoComes)
    BY <1>3, <2>1 DEF CommandComes, GoComes
  <2>3. InboxKnown'
    BY <1>2, <1>4, <2>1, <2>2 DEF InboxKnown
  <2>4. ASSUME NEW state \in States, ComesTo(state)
        PROVE  ComesTo(state)'
    <3>1. state = After(rail, cmd)
      BY <1>2, <2>4, MessageFacts DEF ComesTo
    <3>2. state = [speed |-> train_speed, reversed |-> ~rail.reversed]
      BY <1>2, <3>1, AfterFacts DEF TaskInv, TypeOK, RailKnown
    <3>3. state = [speed |-> initial_speed', reversed |-> ~rail'.reversed]
      BY <1>3, <2>1, <3>2
    <3> QED
      BY <1>5, <2>1, <3>3 DEF ComesTo
  <2>5. MeantKnown'
    BY <1>3, <2>4, StillMeant DEF TaskInv
  <2>6. TypeOK'
    BY <1>2, <1>3, <2>1, TrainTaskAssumption DEF TaskInv, TypeOK, States
  <2>7. RailKnown'
    BY <2>1 DEF TaskInv, RailKnown
  <2>8. RestKnown'
    BY <1>3, <1>5, <2>1, RestStaysKnown DEF TaskInv
  <2> QED
    BY <2>3, <2>5, <2>6, <2>7, <2>8 DEF TaskInv
<1>7. CASE ~(train_speed > 0)
  <2>1. /\ isReversed' = ~isReversed /\ rail' = [speed |-> rail.speed, reversed |-> ~rail.reversed]
        /\ Answered /\ UNCHANGED <<train_speed, train, turned>>
    BY <1>7 DEF REVERSE, Tell
  <2>2. \A c \in Commands : c.command = "REVERSE" => rail' = After(rail, c)
    BY <2>1, AfterFacts DEF TaskInv, TypeOK
  <2>3. InboxKnown' /\ MeantKnown'
    BY <1>1, <1>3, <1>4, <2>1, <2>2, CommandDone
  <2>4. TypeOK'
    BY <1>2, <1>3, <2>1 DEF TaskInv, TypeOK, States, Answered
  <2>5. RailKnown'
    BY <1>4, <2>1 DEF TaskInv, RailKnown
  <2>6. RestKnown'
    BY <1>3, <1>4, <1>5, <2>1, RestStaysKnown DEF TaskInv
  <2> QED
    BY <2>3, <2>4, <2>5, <2>6 DEF TaskInv
<1> QED
  BY <1>6, <1>7

LEMMA ReverseTrainKeeps ==
  ASSUME TaskInv, ReverseTrain
  PROVE  TaskInv'
<1>1. /\ train = "turning" /\ train' = "receive" /\ Answered
      /\ isReversed' = ~isReversed
      /\ train_speed' = initial_speed
      /\ rail' = [speed |-> initial_speed, reversed |-> ~rail.reversed]
      /\ UNCHANGED <<train_commands, go_messenger, inbox, initial_speed, turned, delays, clock,
                     patient, meant, given, stops, goes>>
  BY DEF ReverseTrain, Tell, ghosts
<1>2. ~CommandComes /\ ~CommandComes' /\ (GoComes' <=> GoComes)
  BY <1>1 DEF CommandComes, GoComes, Answered
<1>3. inbox' = IF GoComes THEN <<GoMessage>> ELSE <<>>
  BY <1>1, <1>2 DEF TaskInv, InboxKnown
<1>4. \A i \in DOMAIN inbox' : inbox'[i].type # "TRAIN_COMMAND"
  BY <1>3, MessageFacts, ShortSequences
<1>5. InboxKnown'
  BY <1>1, <1>2, <1>3 DEF InboxKnown
<1>6. ASSUME NEW state \in States, ComesTo(state)
      PROVE  ComesTo(state)'
  BY <1>1, <1>2, <1>4, <1>6 DEF ComesTo
<1>7. MeantKnown'
  BY <1>1, <1>6, StillMeant DEF TaskInv
<1>8. TypeOK'
  BY <1>1 DEF TaskInv, TypeOK, States, Answered
<1>9. RailKnown'
  BY <1>1 DEF TaskInv, RailKnown
<1>10. RestKnown'
  BY <1>1, <1>4, RestStaysKnown DEF TaskInv
<1> QED
  BY <1>5, <1>7, <1>8, <1>9, <1>10 DEF TaskInv

LEMMA GO_MESSENGERKeeps ==
  ASSUME TaskInv, GO_MESSENGER
  PROVE  TaskInv'
<1>1. /\ Receive("GO_MESSENGER") /\ go_messenger' = "train"
      /\ UNCHANGED <<train_commands, command_messenger, train, train_speed, initial_speed, isReversed,
                     rail, turned, delays, clock, patient, meant, given, stops, goes>>
  BY DEF GO_MESSENGER, task, ghosts
<1>2. /\ GoComes /\ inbox' \in Seq(Messages)
      /\ ~CommandComes => inbox' = <<>>
      /\ CommandComes => \E cmd \in Commands :
           inbox' = <<CommandMessage(cmd)>> /\ inbox = <<GoMessage, CommandMessage(cmd)>>
  BY <1>1, GoTaken DEF TaskInv
<1>3. ~GoComes' /\ (CommandComes' <=> CommandComes)
  BY <1>1 DEF CommandComes, GoComes
<1>4. \A i \in DOMAIN inbox' : i = 1 /\ 2 \in DOMAIN inbox /\ inbox'[1] = inbox[2]
  BY <1>2, ShortSequences
<1>5. InboxKnown'
  BY <1>1, <1>2, <1>3 DEF TaskInv, InboxKnown
<1>6. ASSUME NEW state \in States, ComesTo(state)
      PROVE  ComesTo(state)'
  BY <1>1, <1>3, <1>4, <1>6 DEF ComesTo
<1>7. MeantKnown'
  BY <1>1, <1>6, StillMeant DEF TaskInv
<1>8. TypeOK'
  BY <1>1, <1>2 DEF TaskInv, TypeOK
<1>9. RailKnown'
  BY <1>1 DEF TaskInv, RailKnown
<1>10. RestKnown'
  BY <1>1, <1>2, <1>4 DEF TaskInv, RestKnown, GoComes
<1> QED
  BY <1>5, <1>7, <1>8, <1>9, <1>10 DEF TaskInv
-----------------------------------------------------------------------------
(* The steps of the others.                                                *)

\* A command that the conductor accepts goes behind the others, and what is meant
\* moves on with it.
LEMMA AcceptedIsMeant ==
  ASSUME TypeOK, MeantKnown, NEW cmd \in Commands,
         train_commands' = Append(train_commands, cmd), meant' = After(meant, cmd),
         UNCHANGED <<command_messenger, inbox, train, initial_speed, rail>>
  PROVE  MeantKnown'
<1>n. PICK n \in Nat : n = Len(train_commands)
  BY QueueFacts DEF TypeOK
<1>1. PICK f \in [0 .. n -> States] :
        /\ ComesTo(f[0])
        /\ \A i \in 1 .. n : f[i] = After(f[i - 1], train_commands[i])
        /\ f[n] = meant
  BY <1>n DEF MeantKnown
<1>2. /\ n \in Nat /\ Len(train_commands') = n + 1
      /\ \A i \in 1 .. n : train_commands'[i] = train_commands[i]
      /\ train_commands'[n + 1] = cmd
  BY <1>n, QueueFacts DEF TypeOK
<1>3. After(meant, cmd) \in States
  BY AfterFacts DEF TypeOK
<1>g. PICK g : g = [i \in 0 .. n + 1 |-> IF i <= n THEN f[i] ELSE After(meant, cmd)]
  OBVIOUS
<1>4. g \in [0 .. n + 1 -> States] /\ g[0] = f[0]
  BY <1>2, <1>3, <1>g
<1>5. \A i \in 1 .. n + 1 : g[i] = After(g[i - 1], train_commands'[i])
  <2> SUFFICES ASSUME NEW i \in 1 .. n + 1
               PROVE  g[i] = After(g[i - 1], train_commands'[i])
    OBVIOUS
  <2>1. i - 1 \in 0 .. n /\ g[i - 1] = f[i - 1]
    BY <1>2, <1>g
  <2>2. CASE i <= n
    <3>1. i \in 1 .. n /\ g[i] = f[i]
      BY <1>2, <1>g, <2>2
    <3> QED
      BY <1>1, <1>2, <2>1, <3>1
  <2>3. CASE i = n + 1
    <3>1. g[i] = After(meant, cmd) /\ g[i - 1] = meant
      BY <1>1, <1>2, <1>g, <2>1, <2>3
    <3> QED
      BY <1>2, <2>3, <3>1
  <2> QED
    BY <1>2, <2>2, <2>3
<1>6. g[n + 1] = meant'
  BY <1>2, <1>g
<1>7. ComesTo(g[0])'
  <2>1. ComesTo(f[0])'
    BY <1>1 DEF ComesTo, CommandComes
  <2> QED
    BY <1>4, <2>1
<1> QED
  BY <1>2, <1>4, <1>5, <1>6, <1>7 DEF MeantKnown

LEMMA GiveKeeps ==
  ASSUME TaskInv, NEW cmd \in Commands, Give(cmd)
  PROVE  TaskInv'
<1>1. /\ given' = given + 1
      /\ UNCHANGED <<command_messenger, go_messenger, inbox, train, train_speed, initial_speed,
                     isReversed, rail, turned, delays, clock, patient, stops, goes>>
      /\ cmd = StopGo => go_messenger # "starting"
      /\ patient => ~Resting
  BY DEF Give, task
<1>2. InboxKnown' /\ RailKnown'
  BY <1>1 DEF TaskInv, InboxKnown, RailKnown, CommandComes, GoComes
<1>3. CASE UNCHANGED <<train_commands, meant>>
  <2>1. TypeOK' /\ RestKnown'
    BY <1>1, <1>3 DEF TaskInv, TypeOK, RestKnown
  <2>2. \A state \in States : ComesTo(state) => ComesTo(state)'
    BY <1>1 DEF ComesTo, CommandComes
  <2> QED
    BY <1>2, <1>3, <2>1, <2>2, StillMeant DEF TaskInv
<1>4. CASE /\ Len(train_commands) < QUEUE
           /\ train_commands' = Append(train_commands, cmd) /\ meant' = After(meant, cmd)
  <2> DEFINE n == Len(train_commands)
  <2>1. /\ n \in Nat /\ DOMAIN train_commands = 1 .. n
        /\ train_commands' \in Seq(Commands) /\ Len(train_commands') = n + 1
        /\ DOMAIN train_commands' = 1 .. n + 1
        /\ \A i \in 1 .. n : train_commands'[i] = train_commands[i]
        /\ train_commands'[n + 1] = cmd
    BY <1>4, QueueFacts DEF TaskInv, TypeOK
  <2>2. TypeOK'
    BY <1>1, <1>4, <2>1, AfterFacts, TrainTaskAssumption, SMTT(30) DEF TaskInv, TypeOK
  <2>3. MeantKnown'
    BY <1>1, <1>4, AcceptedIsMeant DEF TaskInv
  <2>4. ASSUME patient PROVE /\ \A i \in DOMAIN train_commands : train_commands[i] # StopGo
                             /\ \A i \in DOMAIN inbox : inbox[i] # CommandMessage(StopGo)
                             /\ go_messenger \in {"starting", "coming", "train"}
    BY <1>1, <2>4 DEF Resting, CommandMessage, TaskInv, TypeOK
  <2> HIDE DEF n
  <2>5. ASSUME patient, NEW i \in DOMAIN train_commands', train_commands'[i] = StopGo
        PROVE  i = n + 1 /\ go_messenger \in {"coming", "train"}
    <3>1. i = n + 1
      BY <2>1, <2>4, <2>5
    <3> QED
      BY <1>1, <2>1, <2>4, <2>5, <3>1
  <2>6. RestKnown'
    BY <1>1, <2>1, <2>4, <2>5 DEF TaskInv, RestKnown
  <2> QED
    BY <1>2, <2>2, <2>3, <2>6 DEF TaskInv
<1> QED
  BY <1>3, <1>4 DEF Give

LEMMA RelayKeeps ==
  ASSUME TaskInv, Relay
  PROVE  TaskInv'
<1>n. PICK n \in Nat, cmd \in Commands : n = Len(train_commands) /\ cmd = Head(train_commands)
  BY QueueFacts DEF TaskInv, TypeOK, Relay
<1>1. /\ command_messenger = "conductor" /\ train_commands # <<>>
      /\ train_commands' = Tail(train_commands) /\ command_messenger' = "train"
      /\ inbox' = Append(inbox, CommandMessage(cmd))
      /\ UNCHANGED <<go_messenger, train, train_speed, initial_speed, isReversed, rail, turned,
                     delays, clock, patient, meant, given, stops, goes>>
  BY <1>n DEF Relay, CommandMessage, task, ghosts
<1>2. /\ n \in Nat /\ n >= 1 /\ DOMAIN train_commands = 1 .. n
      /\ cmd \in Commands /\ cmd = train_commands[1]
      /\ train_commands' \in Seq(Commands) /\ Len(train_commands') = n - 1
      /\ DOMAIN train_commands' = 1 .. n - 1
      /\ \A i \in 1 .. n - 1 : train_commands'[i] = train_commands[i + 1]
      /\ n = 1 => train_commands' = <<>>
  <2>1. /\ n \in Nat /\ n # 0 /\ DOMAIN train_commands = 1 .. n
        /\ cmd \in Commands /\ cmd = train_commands[1]
        /\ train_commands' \in Seq(Commands) /\ Len(train_commands') = n - 1
        /\ \A i \in 1 .. n - 1 : train_commands'[i] = train_commands[i + 1]
    BY <1>1, <1>n, QueueFacts DEF TaskInv, TypeOK
  <2>2. DOMAIN train_commands' = 1 .. n - 1 /\ (n = 1 => train_commands' = <<>>)
    BY <2>1, QueueFacts
  <2> QED
    BY <2>1, <2>2
<1>3. /\ InboxKnown' /\ inbox' \in Seq(Messages) /\ train = "receive"
      /\ inbox' = IF go_messenger = "coming" THEN <<GoMessage, CommandMessage(cmd)>>
                                            ELSE <<CommandMessage(cmd)>>
  BY <1>1, <1>2, CommandArrives DEF TaskInv
<1>4. ASSUME NEW i \in DOMAIN inbox', inbox'[i].type = "TRAIN_COMMAND"
      PROVE  inbox'[i] = CommandMessage(cmd) /\ (go_messenger = "coming" => i = 2)
  BY <1>3, <1>4, MessageFacts, ShortSequences
<1>5. TypeOK'
  BY <1>1, <1>2, <1>3, <1>n, TrainTaskAssumption DEF TaskInv, TypeOK
<1>6. RailKnown'
  BY <1>1 DEF TaskInv, RailKnown
<1>7. MeantKnown'
  <2>1. PICK f \in [0 .. n -> States] :
          /\ ComesTo(f[0])
          /\ \A i \in 1 .. n : f[i] = After(f[i - 1], train_commands[i])
          /\ f[n] = meant
    BY <1>n DEF TaskInv, MeantKnown
  <2>2. f[0] = rail
    BY <1>1, <1>3, <2>1 DEF ComesTo, CommandComes
  <2>3. f[1] = After(rail, cmd)
    <3>1. 1 \in 1 .. n /\ 1 - 1 = 0
      BY <1>2
    <3>2. f[1] = After(f[0], train_commands[1])
      BY <2>1, <3>1
    <3> QED
      BY <1>2, <2>2, <3>2
  <2>4. ComesTo(f[1])'
    BY <1>1, <1>3, <1>4, <2>3, MessageFacts, <1>2 DEF ComesTo, CommandComes
  <2>g. PICK g : g = [i \in 0 .. n - 1 |-> f[i + 1]]
    OBVIOUS
  <2>5. g \in [0 .. n - 1 -> States] /\ g[0] = f[1] /\ g[n - 1] = meant'
    BY <1>1, <1>2, <2>1, <2>g
  <2>6. \A i \in 1 .. n - 1 : g[i] = After(g[i - 1], train_commands'[i])
    <3> SUFFICES ASSUME NEW i \in 1 .. n - 1
                 PROVE  g[i] = After(g[i - 1], train_commands'[i])
      OBVIOUS
    <3>1. i + 1 \in 1 .. n /\ i - 1 \in 0 .. n - 1 /\ i \in 0 .. n - 1 /\ (i + 1) - 1 = i
          /\ (i - 1) + 1 = i
      BY <1>2
    <3>2. f[i + 1] = After(f[i], train_commands[i + 1])
      BY <2>1, <3>1
    <3>3. g[i] = f[i + 1] /\ g[i - 1] = f[i] /\ train_commands'[i] = train_commands[i + 1]
      BY <1>2, <2>g, <3>1
    <3> QED
      BY <3>2, <3>3
  <2>7. ComesTo(g[0])'
    BY <2>4, <2>5
  <2> QED
    BY <1>2, <2>5, <2>6, <2>7 DEF MeantKnown
<1>8. RestKnown'
  <2> SUFFICES ASSUME patient
               PROVE  RestKnown'
    BY <1>1 DEF RestKnown
  <2>1. /\ train # "stranded" /\ clock
        /\ go_messenger # "delay" => delays = <<>>
        /\ go_messenger = "delay" => \E d \in 0 .. PAUSE : delays = <<d>>
        /\ \A i \in 1 .. n : train_commands[i] = StopGo =>
             i = n /\ go_messenger \in {"coming", "train"}
    BY <1>2, <1>n DEF TaskInv, RestKnown
  <2>2. ASSUME NEW i \in DOMAIN train_commands', train_commands'[i] = StopGo
        PROVE  i = n - 1 /\ go_messenger \in {"coming", "train"}
    <3>1. i + 1 \in 1 .. n /\ train_commands[i + 1] = StopGo
      BY <1>2, <2>2
    <3> QED
      BY <1>2, <2>1, <3>1
  <2>3. ASSUME NEW i \in DOMAIN inbox', inbox'[i] = CommandMessage(StopGo)
        PROVE  /\ train_commands' = <<>> /\ go_messenger \in {"coming", "train"}
               /\ go_messenger = "coming" => i = 2
    <3>1. inbox'[i] = CommandMessage(cmd) /\ (go_messenger = "coming" => i = 2)
      BY <1>4, <2>3, MessageFacts, CommandFacts
    <3>2. CommandMessage(cmd) = CommandMessage(StopGo)
      BY <2>3, <3>1
    <3>3. cmd = StopGo
      BY <3>2 DEF CommandMessage
    <3>4. 1 \in 1 .. n /\ train_commands[1] = StopGo
      BY <1>2, <3>3
    <3>5. 1 = n /\ go_messenger \in {"coming", "train"}
      BY <2>1, <3>4
    <3> QED
      BY <1>2, <3>1, <3>5
  <2> QED
    BY <1>1, <1>2, <2>1, <2>2, <2>3 DEF RestKnown
<1> QED
  BY <1>3, <1>5, <1>6, <1>7, <1>8 DEF TaskInv

LEMMA CommandMessengerStartsKeeps ==
  ASSUME TaskInv, CommandMessengerStarts
  PROVE  TaskInv'
<1>1. /\ command_messenger = "starting" /\ command_messenger' = "conductor"
      /\ UNCHANGED <<train_commands, go_messenger, inbox, train, train_speed, initial_speed, isReversed,
                     rail, turned, delays, clock, patient, meant, given, stops, goes>>
  BY DEF CommandMessengerStarts, task, ghosts
<1>2. ~CommandComes /\ ~CommandComes' /\ (GoComes' <=> GoComes)
  BY <1>1 DEF CommandComes, GoComes
<1>3. InboxKnown'
  BY <1>1, <1>2 DEF TaskInv, InboxKnown
<1>4. \A state \in States : ComesTo(state) => ComesTo(state)'
  BY <1>1, <1>2 DEF ComesTo
<1>5. MeantKnown'
  BY <1>1, <1>4, StillMeant DEF TaskInv
<1>6. TypeOK' /\ RailKnown' /\ RestKnown'
  BY <1>1 DEF TaskInv, TypeOK, RailKnown, RestKnown
<1> QED
  BY <1>3, <1>5, <1>6 DEF TaskInv

LEMMA GoMessengerReportsKeeps ==
  ASSUME TaskInv, GoMessengerReports
  PROVE  TaskInv'
<1>1. /\ go_messenger \in {"starting", "telling"} /\ go_messenger' = "coming"
      /\ goes' \in {goes, goes + 1} /\ inbox' = Append(inbox, GoMessage)
      /\ UNCHANGED <<train_commands, command_messenger, train, train_speed, initial_speed, isReversed,
                     rail, turned, delays, clock, patient, meant, given, stops>>
  BY DEF GoMessengerReports, GoMessage, task
<1>2. /\ InboxKnown' /\ inbox' \in Seq(Messages)
      /\ \A i \in DOMAIN inbox' : inbox'[i].type = "TRAIN_COMMAND" =>
           i \in DOMAIN inbox /\ inbox[i] = inbox'[i]
  BY <1>1, GoArrives DEF TaskInv
<1>3. ASSUME NEW state \in States, ComesTo(state) PROVE ComesTo(state)'
  BY <1>1, <1>2, <1>3 DEF ComesTo, CommandComes
<1>4. MeantKnown'
  BY <1>1, <1>3, StillMeant DEF TaskInv
<1>5. TypeOK' /\ RailKnown'
  BY <1>1, <1>2 DEF TaskInv, TypeOK, RailKnown
<1>6. RestKnown'
  <2>1. ASSUME patient PROVE \A i \in DOMAIN inbox' : inbox'[i] # CommandMessage(StopGo)
    BY <1>1, <1>2, <2>1, MessageFacts, CommandFacts DEF TaskInv, RestKnown
  <2> QED
    BY <1>1, <2>1 DEF TaskInv, RestKnown
<1> QED
  BY <1>2, <1>4, <1>5, <1>6 DEF TaskInv

\* Nothing that concerns commands is touched by the clock.
LEMMA OnlyTime ==
  ASSUME TaskInv, UNCHANGED <<train_commands, command_messenger, inbox, train, train_speed,
                              initial_speed, isReversed, rail, meant>>,
         go_messenger' = "coming" <=> go_messenger = "coming"
  PROVE  InboxKnown' /\ RailKnown' /\ MeantKnown'
<1>1. InboxKnown' /\ RailKnown'
  BY DEF TaskInv, InboxKnown, RailKnown, CommandComes, GoComes
<1>2. \A state \in States : ComesTo(state) => ComesTo(state)'
  BY DEF ComesTo, CommandComes
<1> QED
  BY <1>1, <1>2, StillMeant DEF TaskInv

LEMMA PauseOverKeeps ==
  ASSUME TaskInv, PauseOver
  PROVE  TaskInv'
<1>1. /\ clock /\ delays # <<>>
      /\ UNCHANGED <<train_commands, command_messenger, inbox, train, train_speed, initial_speed,
                     isReversed, rail, turned, patient, meant, given, stops, goes>>
  BY DEF PauseOver, task, ghosts
<1>2. \/ go_messenger = "delay" /\ go_messenger' = "telling"
         /\ delays' = Tail(delays) /\ UNCHANGED clock
      \/ go_messenger = "train" /\ go_messenger' = "delay"
         /\ delays' = Append(Tail(delays), 0) /\ UNCHANGED clock
      \/ go_messenger \in {"coming", "telling"} /\ clock' = FALSE
         /\ delays' = Tail(delays) /\ UNCHANGED go_messenger
  BY DEF PauseOver
<1>3. delays' \in Seq(0 .. PAUSE)
  BY <1>1, <1>2, DelaysGrow DEF TaskInv, TypeOK
<1>4. TypeOK'
  BY <1>1, <1>2, <1>3 DEF TaskInv, TypeOK
<1>5. InboxKnown' /\ RailKnown' /\ MeantKnown'
  BY <1>1, <1>2, OnlyTime
<1>6. RestKnown'
  <2> SUFFICES ASSUME patient PROVE RestKnown'
    BY <1>1 DEF RestKnown
  <2>1. go_messenger = "delay"
    BY <1>1 DEF TaskInv, RestKnown
  <2>2. PICK d \in 0 .. PAUSE : delays = <<d>>
    BY <2>1 DEF TaskInv, RestKnown
  <2>3. go_messenger' = "telling" /\ delays' = <<>> /\ UNCHANGED clock
    BY <1>2, <2>1, <2>2, ShortSequences
  <2>4. /\ \A i \in DOMAIN train_commands : train_commands[i] # StopGo
        /\ \A i \in DOMAIN inbox : inbox[i] # CommandMessage(StopGo)
    BY <2>1 DEF TaskInv, RestKnown
  <2> QED
    BY <1>1, <2>3, <2>4 DEF TaskInv, RestKnown
<1> QED
  BY <1>4, <1>5, <1>6 DEF TaskInv

LEMMA SecondKeeps ==
  ASSUME TaskInv, Second
  PROVE  TaskInv'
<1>1. /\ turned' = IF train = "turning" /\ turned < TURN THEN turned + 1 ELSE turned
      /\ delays' = [i \in DOMAIN delays |-> IF delays[i] < PAUSE THEN delays[i] + 1 ELSE PAUSE]
      /\ UNCHANGED <<train_commands, command_messenger, go_messenger, inbox, train, train_speed,
                     initial_speed, isReversed, rail, clock, patient, meant, given, stops, goes>>
  BY DEF Second, task, ghosts
<1>2. /\ delays' \in Seq(0 .. PAUSE)
      /\ delays = <<>> => delays' = <<>>
      /\ (\E d \in 0 .. PAUSE : delays = <<d>>) => \E d \in 0 .. PAUSE : delays' = <<d>>
  BY <1>1, DelaysPass DEF TaskInv, TypeOK
<1>3. turned' \in 0 .. TURN
  BY <1>1, TrainTaskAssumption DEF TaskInv, TypeOK
<1>4. TypeOK'
  BY <1>1, <1>2, <1>3 DEF TaskInv, TypeOK
<1>5. InboxKnown' /\ RailKnown' /\ MeantKnown'
  BY <1>1, OnlyTime
<1>6. RestKnown'
  BY <1>1, <1>2 DEF TaskInv, RestKnown
<1> QED
  BY <1>4, <1>5, <1>6 DEF TaskInv
-----------------------------------------------------------------------------
(* The theorems.                                                           *)

LEMMA InitTaskInv == Init => TaskInv
<1> SUFFICES ASSUME Init PROVE TaskInv
  OBVIOUS
<1>1. TypeOK
  <2>1. train_commands \in Seq(Commands) /\ Len(train_commands) <= QUEUE
    BY TrainTaskAssumption DEF Init
  <2>2. inbox \in Seq(Messages) /\ delays \in Seq(0 .. PAUSE)
    BY DEF Init
  <2>3. rail \in States /\ meant \in States
    BY DEF Init, States
  <2>4. patient \in BOOLEAN /\ clock \in BOOLEAN /\ isReversed \in BOOLEAN
    BY Zenon DEF Init
  <2>5. 0 \in 0 .. TURN
    BY TrainTaskAssumption
  <2>6. /\ command_messenger = "starting" /\ go_messenger = "starting" /\ train = "receive"
        /\ train_speed = 0 /\ initial_speed = 0 /\ turned = 0
        /\ given = 0 /\ stops = 0 /\ goes = 0
    BY Zenon DEF Init
  <2> QED
    BY <2>1, <2>2, <2>3, <2>4, <2>5, <2>6 DEF TypeOK
<1>2. InboxKnown /\ RailKnown
  BY DEF Init, InboxKnown, RailKnown, CommandComes, GoComes
<1>3. RestKnown
  <2>1. DOMAIN train_commands = {} /\ DOMAIN inbox = {}
    BY DEF Init
  <2> QED
    BY <2>1 DEF Init, RestKnown
<1>4. MeantKnown
  <2>1. Len(train_commands) = 0 /\ ComesTo(rail) /\ meant = rail /\ rail \in States
    BY <1>1 DEF Init, ComesTo, CommandComes, TypeOK
  <2>2. PICK f : f = [i \in 0 .. 0 |-> rail]
    OBVIOUS
  <2>3. /\ f \in [0 .. 0 -> States] /\ f[0] = rail
        /\ \A i \in 1 .. 0 : f[i] = After(f[i - 1], train_commands[i])
    BY <2>1, <2>2
  <2> QED
    BY <2>1, <2>3 DEF MeantKnown
<1> QED
  BY <1>1, <1>2, <1>3, <1>4 DEF TaskInv

LEMMA NextTaskInv == TaskInv /\ [Next]_vars => TaskInv'
<1> SUFFICES ASSUME TaskInv, [Next]_vars PROVE TaskInv'
  OBVIOUS
<1>1. CASE \E cmd \in Commands : Give(cmd)
  BY <1>1, GiveKeeps
<1>2. CASE Relay
  BY <1>2, RelayKeeps
<1>3. CASE Messengers
  BY <1>3, CommandMessengerStartsKeeps, GoMessengerReportsKeeps DEF Messengers
<1>4. CASE PauseOver
  BY <1>4, PauseOverKeeps
<1>5. CASE TrainLoop
  BY <1>5, ACCELERATEKeeps, REVERSEKeeps, ReverseTrainKeeps, STOPKeeps, STOP_GOKeeps,
     GO_MESSENGERKeeps DEF TrainLoop
<1>6. CASE Second
  BY <1>6, SecondKeeps
<1>7. CASE UNCHANGED vars
  <2>1. /\ TypeOK' /\ InboxKnown' /\ RailKnown' /\ RestKnown'
        /\ UNCHANGED <<train_commands, meant>>
    BY <1>7 DEF vars, task, ghosts, TaskInv, TypeOK, InboxKnown, RailKnown, RestKnown, CommandComes, GoComes
  <2>2. \A state \in States : ComesTo(state) => ComesTo(state)'
    BY <1>7 DEF vars, task, ghosts, ComesTo, CommandComes
  <2> QED
    BY <2>1, <2>2, StillMeant DEF TaskInv
<1> QED
  BY <1>1, <1>2, <1>3, <1>4, <1>5, <1>6, <1>7 DEF Next

THEOREM TaskInvariant == Spec => []TaskInv
<1> QED
  BY InitTaskInv, NextTaskInv, PTL DEF Spec

\* Whatever the speeds, the delays and the number of commands: a patient conductor
\* never has the train task answer a go messenger that does not wait for it, nor
\* the clock server.
THEOREM NobodyStranded == Spec => []NeverStranded
<1>1. TaskInv => NeverStranded
  BY DEF TaskInv, RestKnown, NeverStranded
<1> QED
  BY <1>1, TaskInvariant, PTL

\* When no command is under way the railway has the train where the accepted
\* commands lead, however they met the turning train.
THEOREM CommandsObeyed == Spec => []ObeysInOrder
<1>1. ASSUME TaskInv, Quiet PROVE rail = meant
  <2>1. ~CommandComes /\ train = "receive" /\ Len(train_commands) = 0
    <3>1. ASSUME CommandComes PROVE FALSE
      <4>1. \E i \in DOMAIN inbox, cmd \in Commands : inbox[i] = CommandMessage(cmd)
        BY <1>1, <3>1, ShortSequences DEF TaskInv, InboxKnown
      <4> QED
        BY <1>1, <4>1, MessageFacts DEF Quiet
    <3> QED
      BY <1>1, <3>1 DEF Quiet
  <2>2. \E f \in [0 .. 0 -> States] : ComesTo(f[0]) /\ f[0] = meant
    BY <1>1, <2>1 DEF TaskInv, MeantKnown
  <2> QED
    BY <2>1, <2>2 DEF ComesTo
<1>2. TaskInv => ObeysInOrder
  BY <1>1 DEF ObeysInOrder
<1> QED
  BY <1>2, TaskInvariant, PTL

\* The direction changes only at speed zero: the task knows the speed, and has it at
\* zero while it waits to turn.
THEOREM TurnsAtZero == Spec => TurnedAtZero
<1>1. ASSUME TaskInv, [Next]_vars, rail'.reversed # rail.reversed
      PROVE  rail.speed = 0
  <2>1. rail.speed = train_speed /\ (train = "turning" => train_speed = 0) /\ train_speed \in Nat
    BY <1>1, TrainTaskAssumption DEF TaskInv, RailKnown, TypeOK
  <2>2. CASE REVERSE
    BY <1>1, <2>1, <2>2 DEF REVERSE, Tell
  <2>3. CASE ReverseTrain
    BY <2>1, <2>3 DEF ReverseTrain
  <2>4. CASE ACCELERATE \/ STOP \/ STOP_GO
    BY <1>1, <2>4 DEF ACCELERATE, STOP, STOP_GO, Tell
  <2>5. CASE UNCHANGED rail
    BY <1>1, <2>5
  <2> QED
    BY <1>1, <2>2, <2>3, <2>4, <2>5 DEF Next, TrainLoop, Messengers, GO_MESSENGER, Give, Relay,
       CommandMessengerStarts, GoMessengerReports, PauseOver, Second, vars
<1>2. TaskInv /\ [Next]_vars => [rail'.reversed # rail.reversed => rail.speed = 0]_vars
  BY <1>1
<1> QED
  BY <1>2, TaskInvariant, PTL DEF Spec, TurnedAtZero

=============================================================================
