----------------------------- MODULE TrainTask -----------------------------
(***************************************************************************)
(* The task of one train, user/marklin/train.cpp, with its two messengers: *)
(* one carries the conductor's commands to it, the other has the conductor *)
(* send the train on when it has rested at a destination.                  *)
(*                                                                         *)
(* The conductor is what these tasks see of it: a queue of commands, and   *)
(* the server that GO_AGAIN is sent to.  A command to the Marklin server   *)
(* takes no time here; MarklinIO is about its way.  Time passes in seconds.*)
(***************************************************************************)
EXTENDS Integers, Sequences

CONSTANTS
  Speeds,       \* the speeds the conductor asks for
  QUEUE,        \* room in train_commands, 5
  PAUSE, TURN,  \* the two delays in seconds, 6 and 2
  MaxCommands   \* bound on the commands given

ASSUME TrainTaskAssumption ==
  /\ Speeds \subseteq Nat /\ QUEUE \in Nat \ {0} /\ PAUSE \in Nat \ {0} /\ TURN \in Nat \ {0}
  /\ MaxCommands \in Nat

\* "STOP_GO" is a STOP with a speed: the train is to be sent on later.
Accelerate(s) == [command |-> "ACCELERATE", speed |-> s]
Reverse == [command |-> "REVERSE", speed |-> 0]
Stop == [command |-> "STOP", speed |-> 0]
StopGo == [command |-> "STOP_GO", speed |-> 1]
Commands == {Accelerate(s) : s \in Speeds} \cup {Reverse, Stop, StopGo}

VARIABLES
  patient,            \* whether the conductor leaves a train at rest alone until it has
                      \* been sent on
  train_commands,     \* the conductor's queue
  command_messenger,  \* "starting", "conductor" while it waits there, or "train"
  go_messenger,       \* "starting", "coming" or waiting for the "train", in its "delay",
                      \* or "telling" the conductor
  inbox,              \* messages that wait for the train task
  train,              \* "receive", "turning" during its delay, or "stranded"
  train_speed, initial_speed, isReversed,
  rail,               \* what the railway was told last: speed and direction
  turned,             \* seconds the task has been in its delay
  delays,             \* the same of each delay that the clock server has yet to end
                      \* for the go messenger
  clock,              \* FALSE once the clock server is stranded
  meant,              \* what the accepted commands come to
  given, stops, goes  \* commands given, rests begun, GO_AGAIN sent

task == <<train, train_speed, initial_speed, isReversed>>
ghosts == <<patient, meant, given, stops, goes>>
vars == <<train_commands, command_messenger, go_messenger, inbox, task, rail, turned,
          delays, clock, ghosts>>

Init ==
  /\ patient \in BOOLEAN
  /\ train_commands = <<>> /\ inbox = <<>>
  /\ command_messenger = "starting" /\ go_messenger = "starting"
  /\ train = "receive" /\ train_speed = 0 /\ initial_speed = 0 /\ isReversed = FALSE
  /\ rail = [speed |-> 0, reversed |-> FALSE] /\ meant = rail
  /\ turned = 0 /\ delays = <<>> /\ clock = TRUE
  /\ given = 0 /\ stops = 0 /\ goes = 0
-----------------------------------------------------------------------------
(* The conductor.                                                          *)

\* What one command makes of speed and direction.
After(state, cmd) ==
  CASE cmd.command = "ACCELERATE" -> [state EXCEPT !.speed = cmd.speed]
    [] cmd.command = "REVERSE"    -> [state EXCEPT !.reversed = ~@]
    [] OTHER                      -> [state EXCEPT !.speed = 0]

Resting == \/ go_messenger \in {"delay", "telling"}
           \/ \E i \in DOMAIN train_commands : train_commands[i] = StopGo
           \/ \E i \in DOMAIN inbox : inbox[i] = [type |-> "TRAIN_COMMAND", cmd |-> StopGo]

\* A full queue drops the command.  No train arrives before its messengers run.
Give(cmd) ==
  /\ given < MaxCommands /\ given' = given + 1
  /\ cmd = StopGo => go_messenger # "starting"
  /\ patient => ~Resting
  /\ IF Len(train_commands) < QUEUE
       THEN train_commands' = Append(train_commands, cmd) /\ meant' = After(meant, cmd)
       ELSE UNCHANGED <<train_commands, meant>>
  /\ UNCHANGED <<command_messenger, go_messenger, inbox, task, rail, turned, delays, clock, patient, stops, goes>>

\* DispatchCommand answers the messenger, which goes straight on to the train.
Relay ==
  /\ command_messenger = "conductor" /\ train_commands # <<>>
  /\ train_commands' = Tail(train_commands)
  /\ command_messenger' = "train"
  /\ inbox' = Append(inbox, [type |-> "TRAIN_COMMAND", cmd |-> Head(train_commands)])
  /\ UNCHANGED <<go_messenger, task, rail, turned, delays, clock, ghosts>>
-----------------------------------------------------------------------------
(* The messengers.                                                         *)

CommandMessengerStarts ==
  /\ command_messenger = "starting" /\ command_messenger' = "conductor"
  /\ UNCHANGED <<train_commands, go_messenger, inbox, task, rail, turned, delays, clock, ghosts>>

\* Mutant: after the delay the conductor is not told.
GoMessengerReportsSilently ==
  /\ go_messenger \in {"starting", "telling"}
  /\ go_messenger' = "coming"
  /\ inbox' = Append(inbox, [type |-> "GO_MESSENGER"])
  /\ UNCHANGED <<train_commands, command_messenger, task, rail, turned, delays, clock, ghosts>>

\* The first time, and whenever the conductor has answered it.
GoMessengerReports ==
  /\ go_messenger \in {"starting", "telling"}
  /\ go_messenger' = "coming"
  /\ goes' = IF go_messenger = "telling" THEN goes + 1 ELSE goes
  /\ inbox' = Append(inbox, [type |-> "GO_MESSENGER"])
  /\ UNCHANGED <<train_commands, command_messenger, task, rail, turned, delays, clock, patient, meant, given, stops>>

\* The clock server answers when the pause is over.  By then the messenger may
\* have been woken by the train: if it waits for the train again it is woken once
\* more, too early, and if its message has not been received yet, or the
\* conductor has not, it cannot be answered.
PauseOver ==
  /\ clock /\ delays # <<>> /\ Head(delays) = PAUSE
  /\ \/ go_messenger = "delay" /\ go_messenger' = "telling"
        /\ delays' = Tail(delays) /\ UNCHANGED clock
     \/ go_messenger = "train" /\ go_messenger' = "delay"
        /\ delays' = Append(Tail(delays), 0) /\ UNCHANGED clock
     \/ go_messenger \in {"coming", "telling"} /\ clock' = FALSE
        /\ delays' = Tail(delays) /\ UNCHANGED go_messenger
  /\ UNCHANGED <<train_commands, command_messenger, inbox, task, rail, turned, ghosts>>
-----------------------------------------------------------------------------
(* The train task.                                                         *)

Tell(speed, reversed) == rail' = [speed |-> speed, reversed |-> reversed]

\* The clock server is asked for the time as soon as a message is there.
Receive(type) ==
  /\ train = "receive" /\ clock /\ inbox # <<>>
  /\ Head(inbox).type = type /\ inbox' = Tail(inbox)

Command(name) == Receive("TRAIN_COMMAND") /\ Head(inbox).cmd.command = name

Answered == command_messenger' = "conductor"

ACCELERATE ==
  /\ Command("ACCELERATE")
  /\ train_speed' = Head(inbox).cmd.speed /\ Tell(train_speed', rail.reversed)
  /\ Answered
  /\ UNCHANGED <<train_commands, go_messenger, train, initial_speed, isReversed, turned, delays, clock, ghosts>>

\* Mutant: the train is turned before it is stopped.
REVERSEFirst ==
  /\ Command("REVERSE")
  /\ initial_speed' = train_speed
  /\ isReversed' = ~isReversed /\ Tell(rail.speed, ~rail.reversed)
  /\ Answered
  /\ UNCHANGED <<train_commands, go_messenger, train_speed, train, turned, delays, clock, ghosts>>

\* A train that runs is stopped first, and the task waits.
REVERSE ==
  /\ Command("REVERSE")
  /\ initial_speed' = train_speed
  /\ IF train_speed > 0
       THEN /\ train_speed' = 0 /\ Tell(0, rail.reversed)
            /\ train' = "turning" /\ turned' = 0
            /\ UNCHANGED <<isReversed, command_messenger>>
       ELSE /\ isReversed' = ~isReversed /\ Tell(rail.speed, ~rail.reversed)
            /\ Answered /\ UNCHANGED <<train_speed, train, turned>>
  /\ UNCHANGED <<train_commands, go_messenger, delays, clock, ghosts>>

\* Mutant: the speed is read after it has been set to zero.
ReverseTrainStays ==
  /\ train = "turning" /\ turned = TURN /\ clock
  /\ isReversed' = ~isReversed
  /\ Tell(train_speed, ~rail.reversed)
  /\ train' = "receive" /\ Answered
  /\ UNCHANGED <<train_commands, go_messenger, inbox, train_speed, initial_speed, turned, delays, clock, ghosts>>

\* Mutant: the command messenger is not answered after the delay.
ReverseTrainNoReply ==
  /\ train = "turning" /\ turned = TURN /\ clock
  /\ isReversed' = ~isReversed
  /\ train_speed' = initial_speed /\ Tell(initial_speed, ~rail.reversed)
  /\ train' = "receive"
  /\ UNCHANGED <<train_commands, command_messenger, go_messenger, inbox, initial_speed, turned, delays, clock, ghosts>>

ReverseTrain ==
  /\ train = "turning" /\ turned = TURN /\ clock
  /\ isReversed' = ~isReversed
  /\ train_speed' = initial_speed /\ Tell(initial_speed, ~rail.reversed)
  /\ train' = "receive" /\ Answered
  /\ UNCHANGED <<train_commands, go_messenger, inbox, initial_speed, turned, delays, clock, ghosts>>

\* Mutant: the go messenger is answered at every stop.
STOPAlwaysGoes ==
  /\ Command("STOP")
  /\ train_speed' = 0 /\ Tell(0, rail.reversed)
  /\ \/ /\ go_messenger = "train" /\ go_messenger' = "delay" /\ delays' = Append(delays, 0)
        /\ Answered /\ UNCHANGED train
     \/ /\ go_messenger = "delay" /\ go_messenger' = "telling"
        /\ Answered /\ UNCHANGED <<train, delays>>
     \/ /\ go_messenger \in {"starting", "coming", "telling"}
        /\ train' = "stranded" /\ UNCHANGED <<go_messenger, command_messenger, delays>>
  /\ UNCHANGED <<train_commands, initial_speed, isReversed, turned, clock, ghosts>>

STOP ==
  /\ Command("STOP")
  /\ train_speed' = 0 /\ Tell(0, rail.reversed)
  /\ Answered
  /\ UNCHANGED <<train_commands, go_messenger, train, initial_speed, isReversed, turned, delays, clock, ghosts>>

\* The go messenger is answered, whatever it waits for.
STOP_GO ==
  /\ Command("STOP_GO")
  /\ train_speed' = 0 /\ Tell(0, rail.reversed)
  /\ stops' = stops + 1
  /\ \/ /\ go_messenger = "train" /\ go_messenger' = "delay"
        /\ delays' = Append(delays, 0)
        /\ Answered /\ UNCHANGED train
     \/ /\ go_messenger = "delay" /\ go_messenger' = "telling"
        /\ Answered /\ UNCHANGED <<train, delays>>
     \/ /\ go_messenger \in {"coming", "telling"}
        /\ train' = "stranded" /\ UNCHANGED <<go_messenger, command_messenger, delays>>
  /\ UNCHANGED <<train_commands, initial_speed, isReversed, turned, clock, patient, meant, given, goes>>

GO_MESSENGER ==
  /\ Receive("GO_MESSENGER") /\ go_messenger' = "train"
  /\ UNCHANGED <<train_commands, command_messenger, task, rail, turned, delays, clock, ghosts>>

Second ==
  /\ (train = "turning" /\ turned < TURN) \/ \E i \in DOMAIN delays : delays[i] < PAUSE
  /\ turned' = IF train = "turning" /\ turned < TURN THEN turned + 1 ELSE turned
  /\ delays' = [i \in DOMAIN delays |-> IF delays[i] < PAUSE THEN delays[i] + 1 ELSE PAUSE]
  /\ UNCHANGED <<train_commands, command_messenger, go_messenger, inbox, task, rail, clock, ghosts>>

TrainLoop == ACCELERATE \/ REVERSE \/ ReverseTrain \/ STOP \/ STOP_GO \/ GO_MESSENGER
Messengers == CommandMessengerStarts \/ GoMessengerReports

Next == \/ \E cmd \in Commands : Give(cmd)
        \/ Relay \/ Messengers \/ PauseOver \/ TrainLoop \/ Second

Spec == /\ Init /\ [][Next]_vars
        /\ WF_vars(Relay) /\ WF_vars(CommandMessengerStarts) /\ WF_vars(GoMessengerReports)
        /\ WF_vars(PauseOver) /\ WF_vars(TrainLoop) /\ WF_vars(Second)
-----------------------------------------------------------------------------
(* Properties.                                                             *)

States == [speed : Speeds \cup {0}, reversed : BOOLEAN]
Messages == {[type |-> "GO_MESSENGER"]} \cup [type : {"TRAIN_COMMAND"}, cmd : Commands]

TypeOK ==
  /\ patient \in BOOLEAN /\ clock \in BOOLEAN /\ isReversed \in BOOLEAN
  /\ command_messenger \in {"starting", "conductor", "train"}
  /\ go_messenger \in {"starting", "coming", "train", "delay", "telling"}
  /\ train \in {"receive", "turning", "stranded"}
  /\ train_commands \in Seq(Commands) /\ Len(train_commands) <= QUEUE
  /\ inbox \in Seq(Messages)
  /\ train_speed \in Speeds \cup {0} /\ initial_speed \in Speeds \cup {0}
  /\ rail \in States /\ meant \in States
  /\ turned \in 0 .. TURN /\ delays \in Seq(0 .. PAUSE)
  /\ given \in Nat /\ stops \in Nat /\ goes \in Nat

\* The task never answers a go messenger that does not wait, and neither does the
\* clock server, if the conductor is patient: the kernel would not let them run
\* again, and the train would not obey any more, or none of the trains would.
NeverStranded == TypeOK /\ (patient => train # "stranded" /\ clock)

\* The direction is changed only while the railway has the train at speed zero,
\* whatever the conductor sends before, after and meanwhile.
TurnedAtZero == [][rail'.reversed # rail.reversed => rail.speed = 0]_vars

Quiet == /\ train_commands = <<>> /\ train = "receive"
         /\ ~\E i \in DOMAIN inbox : inbox[i].type = "TRAIN_COMMAND"

\* When nothing is under way the railway has the train at the speed and in the
\* direction that the accepted commands come to, one after the other: none is
\* lost, repeated or overtaken, though turning round takes two seconds in which
\* others arrive.
ObeysInOrder == Quiet => rail = meant

\* A patient conductor hears of the end of a rest as often as there were rests, and
\* its commands are taken, so that the queue does not stay full.
EveryRestEnds ==
  patient => <>[]Quiet /\ \A n \in 1 .. MaxCommands : (stops >= n) ~> (goes >= n)
=============================================================================
