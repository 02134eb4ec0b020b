----------------------------- MODULE MarklinIO -----------------------------
(***************************************************************************)
(* The Marklin server of user/src/marklin_io.cpp with its notifiers and    *)
(* messengers and the railway at the other end of the line.                *)
(*                                                                         *)
(* Clients leave commands of two bytes; a transmit notifier tells when the *)
(* line is clear to send; when nothing is left to be sent the server asks  *)
(* for the state of the sensors, and sends nothing until the receive       *)
(* notifier has collected the answer.  Each answer is compared with the    *)
(* pairs of sensors that the conductor has named for its trains: the one a *)
(* train is to pass next and a second in case the first is missed.  A      *)
(* messenger per train, held by the server until then, carries a hit back. *)
(*                                                                         *)
(* The notifiers are more urgent than the server, which runs when they are *)
(* blocked.  The transmit register is empty by the time the line is clear  *)
(* again, so that the notifier never waits for UART_MARKLIN_TX.  No task   *)
(* sends GETC or PUTC.  The build is the one with interrupts.              *)
(***************************************************************************)
EXTENDS Integers, Sequences, FiniteSets

CONSTANTS
  SwitchAddrs, TrainAddrs,   \* what commands are for
  Trains,      \* the trains in the order of sensor_messenger
  Sensors,     \* indices of sensor_data; 0 is sensor A1
  BYTES,       \* bytes in an answer, 10
  TxRoom,      \* room in transmit_buffer, 100
  Worlds       \* what the clients, the conductor and the railway may be like

\* A byte is the first or the second of a command; the commands of one byte, and
\* an empty transmit register, are for addresses that do not exist.
Single(n) == <<[addr |-> -n, id |-> 0], 1>>
None == Single(1)
POLL == Single(2)    \* READ_ALL_SENSOR_BASE + NUM_BANKS
RESET == Single(3)   \* RESET_MODE_ON

Addrs == SwitchAddrs \cup TrainAddrs
TrainSet == {Trains[i] : i \in DOMAIN Trains}
NoSensor == -1

\* Whom the server answers at the end of a handler, if it is not a train's.
Nobody == 0
RxNotifier == -1

ASSUME MarklinAssumption ==
  /\ SwitchAddrs \subseteq Nat /\ TrainAddrs \subseteq Nat /\ Sensors \subseteq Nat
  /\ TrainSet \subseteq Nat \ {0} /\ Trains \in Seq(TrainSet)
  /\ BYTES \in Nat \ {0} /\ TxRoom \in Nat \ {0}
  /\ Worlds \subseteq
       [commands : Nat,               \* bound on the commands that clients give
        pairs : [TrainSet -> Nat],    \* bound on the pairs the conductor names for a train
        sensors : SUBSET Sensors,     \* those that are listened for
        touched : SUBSET Sensors,     \* those that trains come onto
        slow : BOOLEAN,      \* whether the line changes only when the notifier waits for it
        spaced : BOOLEAN]    \* whether a switch is given time between two commands

VARIABLES
  world,        \* one of Worlds; it stays the same
  inbox,        \* messages that wait for the server
  server,       \* "receive", "put" or "stranded"
  answering,    \* who is to be answered when the handler ends
  transmit_buffer, sequence_length_buffer, sequence_length, count,
  canTransmit, isReceiving,
  tx,           \* where the transmit notifier is
  rx,           \* bytes the receive notifier has, -1 while it waits for an answer
  switch_notifier,   \* per switch: "waiting", "delay" or "sending"
  owed,         \* per switch: answers the clock server still owes its notifier
  clock,        \* FALSE once the clock server is stranded
  sensor_messenger,  \* per train: the server's record
  isTriggered,  \* the sensors marked in sensor_data
  task,         \* per train, the server's messenger: "none", "starting", "coming",
                \* "waiting" for the server, "telling" the conductor
  told,         \* per train: the sensor it tells of
  carrier,      \* per train: whether the conductor's messenger is on its way
  cts, irq,     \* clear to send, and whether its change has yet to be noticed
  line,         \* the byte in the transmit register
  answer,       \* bytes still to come from the railway
  under,        \* the sensors that a train stands on
  latch,        \* the sensors that were touched since the last poll
  reading,      \* what the railway answered to it
  accepted,     \* the commands given so far
  dropped,      \* whether there was no room for a byte of one of them
  wire,         \* the bytes sent so far, without the polls
  asked, tells  \* per train: pairs named, triggers told

serverVars == <<server, answering, transmit_buffer, sequence_length_buffer, sequence_length,
                count, canTransmit, isReceiving>>
switches == <<switch_notifier, owed, clock>>
watching == <<sensor_messenger, isTriggered, task, told, carrier, tells>>
uart     == <<cts, irq, line, answer>>
sensors  == <<under, latch, reading>>
history  == <<world, accepted, dropped, wire, asked>>
vars == <<inbox, serverVars, tx, rx, switches, watching, uart, sensors, history>>

Init ==
  /\ world \in Worlds
  /\ inbox = <<>> /\ server = "receive" /\ answering = Nobody
  /\ transmit_buffer = <<RESET>> /\ sequence_length_buffer = <<1>>
  /\ sequence_length = 0 /\ count = 0
  /\ canTransmit = FALSE /\ isReceiving = FALSE
  /\ tx = "top" /\ rx = 0
  /\ switch_notifier = [a \in SwitchAddrs |-> "waiting"] /\ owed = [a \in SwitchAddrs |-> 0]
  /\ clock = TRUE
  /\ sensor_messenger = [t \in TrainSet |->
       [created |-> FALSE, sensor_idx |-> NoSensor, sensor_idx_safety |-> NoSensor, sent_reply |-> FALSE]]
  /\ isTriggered = {}
  /\ task = [t \in TrainSet |-> "none"] /\ told = [t \in TrainSet |-> NoSensor]
  /\ carrier = [t \in TrainSet |-> FALSE]
  /\ cts \in {0, 1} /\ irq = FALSE /\ line = None /\ answer = 0
  /\ under = {} /\ latch = {} /\ reading = {}
  /\ accepted = <<>> /\ dropped = FALSE /\ wire = <<>>
  /\ asked = [t \in TrainSet |-> 0] /\ tells = [t \in TrainSet |-> 0]

Push(q, b) == IF Len(q) < TxRoom THEN Append(q, b) ELSE q
-----------------------------------------------------------------------------
(* The transmit notifier.  Between looking at the line and waiting for it  *)
(* to change there is a moment: to_low, to_high and to_clear.              *)

Goes(from, to) == tx = from /\ tx' = to

\* Mutant: after a byte the notifier waits for the line to fall, and not for it to
\* rise again.
LookOnce ==
  /\ \/ Goes("top", "send")
     \/ cts = 0 /\ Goes("sent", "check_high")
     \/ cts # 0 /\ Goes("sent", "to_low")
     \/ Goes("check_high", "top")
  /\ UNCHANGED <<inbox, serverVars, rx, switches, watching, uart, sensors, history>>

Look ==
  /\ \/ cts = 1 /\ Goes("top", "send")
     \/ cts # 1 /\ Goes("top", "to_clear")
     \/ cts = 0 /\ Goes("sent", "check_high")
     \/ cts # 0 /\ Goes("sent", "to_low")
     \/ cts = 1 /\ Goes("check_high", "top")
     \/ cts # 1 /\ Goes("check_high", "to_high")
  /\ UNCHANGED <<inbox, serverVars, rx, switches, watching, uart, sensors, history>>

AWAITEVENT ==
  /\ Goes("to_clear", "clear") \/ Goes("to_low", "low") \/ Goes("to_high", "high")
  /\ UNCHANGED <<inbox, serverVars, rx, switches, watching, uart, sensors, history>>

TellServer ==
  /\ Goes("send", "server")
  /\ inbox' = Append(inbox, [type |-> "TX_NOTIFIER"])
  /\ UNCHANGED <<serverVars, rx, switches, watching, uart, sensors, history>>

TxBlocked == tx \in {"low", "high", "clear", "server"}

\* The interrupt handler wakes who waits for the level it finds.
CtsInterrupt ==
  /\ irq /\ irq' = FALSE
  /\ tx' = CASE cts = 1 /\ tx = "high" -> "top"
             [] cts = 1 /\ tx = "clear" -> "send"
             [] cts = 0 /\ tx = "low" -> "check_high"
             [] OTHER -> tx
  /\ UNCHANGED <<inbox, serverVars, rx, switches, watching, cts, line, answer, sensors, history>>
-----------------------------------------------------------------------------
(* The end of every handler: transmission, and the answer to the sender.   *)

\* Mutant: what is queued is sent without waiting for the answer to the poll.
TransmitsWhileReceiving(buffer, lengths, can, receiving) ==
  LET poll == buffer = <<>> /\ ~receiving
      transmits == can /\ (poll \/ buffer # <<>>)
  IN  /\ transmit_buffer' = IF transmits /\ poll THEN <<POLL>> ELSE buffer
      /\ sequence_length_buffer' = IF transmits /\ poll THEN Append(lengths, 1) ELSE lengths
      /\ isReceiving' = (receiving \/ (transmits /\ poll))
      /\ canTransmit' = can
      /\ server' = IF transmits THEN IF tx = "server" THEN "put" ELSE "stranded" ELSE "receive"
      /\ tx' = IF server' = "put" THEN "sent" ELSE tx
      /\ UNCHANGED <<sequence_length, count>>

\* The first half of handle_transmission: when there is nothing to send, a poll
\* is; the transmit notifier is answered before the byte is written.
Transmits(buffer, lengths, can, receiving) ==
  LET poll == buffer = <<>>
      transmits == can /\ ~receiving
  IN  /\ transmit_buffer' = IF transmits /\ poll THEN <<POLL>> ELSE buffer
      /\ sequence_length_buffer' = IF transmits /\ poll THEN Append(lengths, 1) ELSE lengths
      /\ isReceiving' = (receiving \/ (transmits /\ poll))
      /\ canTransmit' = can
      /\ server' = CASE ~transmits -> "receive"
                     [] transmits /\ tx = "server" -> "put"
                     [] OTHER -> "stranded"
      /\ tx' = IF transmits /\ tx = "server" THEN "sent" ELSE tx
      /\ UNCHANGED <<sequence_length, count>>

Freed(c, who) == IF who \in TrainSet THEN [c EXCEPT ![who] = FALSE] ELSE c

\* The sender is answered at once, or when the byte has been written.
Answers(who) ==
  /\ answering' = IF server' = "put" THEN who ELSE Nobody
  /\ rx' = IF server' = "receive" /\ who = RxNotifier THEN 0 ELSE rx
  /\ carrier' = IF server' = "receive" THEN Freed(carrier, who) ELSE carrier

Handled(who) ==
  /\ Transmits(transmit_buffer, sequence_length_buffer, canTransmit, isReceiving)
  /\ Answers(who)

\* The second half.  A second byte that is the number of a switch has its
\* notifier answered, be it waiting or not.
handle_transmission ==
  /\ server = "put" /\ TxBlocked
  /\ LET length == IF count = 0 /\ sequence_length_buffer # <<>>
                     THEN Head(sequence_length_buffer) ELSE sequence_length
         byte == Head(transmit_buffer)
         addr == byte[1].addr
         isSwitch == count = 1 /\ addr \in SwitchAddrs
     IN  /\ sequence_length' = length
         /\ sequence_length_buffer' = IF count = 0 /\ sequence_length_buffer # <<>>
                                        THEN Tail(sequence_length_buffer) ELSE sequence_length_buffer
         /\ transmit_buffer' = Tail(transmit_buffer)
         /\ line' = byte
         /\ wire' = IF byte = POLL THEN wire ELSE Append(wire, byte)
         /\ count' = IF count + 1 = length THEN 0 ELSE count + 1
         /\ CASE ~isSwitch -> UNCHANGED <<switches, inbox>> /\ server' = "receive"
              [] isSwitch /\ switch_notifier[addr] = "waiting" ->
                   /\ switch_notifier' = [switch_notifier EXCEPT ![addr] = "delay"]
                   /\ owed' = [owed EXCEPT ![addr] = @ + 1]
                   /\ server' = "receive" /\ UNCHANGED inbox
              [] isSwitch /\ switch_notifier[addr] = "delay" ->
                   /\ switch_notifier' = [switch_notifier EXCEPT ![addr] = "sending"]
                   /\ inbox' = Append(inbox, [type |-> "SWITCH_NOTIFIER", addr |-> addr])
                   /\ server' = "receive" /\ UNCHANGED owed
              [] OTHER -> UNCHANGED <<switches, inbox>> /\ server' = "stranded"
  /\ canTransmit' = FALSE
  /\ answering' = Nobody
  /\ rx' = IF answering = RxNotifier THEN 0 ELSE rx
  /\ carrier' = Freed(carrier, answering)
  /\ UNCHANGED <<isReceiving, clock, tx, sensor_messenger, isTriggered, task, told, tells,
                 cts, irq, answer, sensors, world, accepted, dropped, asked>>
-----------------------------------------------------------------------------
(* The handlers of the server.                                             *)

Receive(type) ==
  /\ server = "receive" /\ clock /\ TxBlocked /\ inbox # <<>>
  /\ Head(inbox).type = type
  /\ inbox' = Tail(inbox)

\* What the replies to the messengers change.
matching == [m |-> sensor_messenger, on |-> isTriggered, task |-> task, told |-> told,
             tells |-> tells, stranded |-> FALSE]

\* Mutant: the pair is not cleared, nor is it noted that the reply is out.
ReplySensorTriggerKeepsPair(st, t, idx) ==
  [st EXCEPT !.on = @ \ {idx},
             !.task = IF @[t] = "waiting" THEN [@ EXCEPT ![t] = "telling"] ELSE @,
             !.told[t] = idx, !.tells[t] = @ + 1, !.stranded = @ \/ st.task[t] # "waiting"]

\* Mutant: the pair is kept for the next reading.
ReplySensorTriggerAgain(st, t, idx) ==
  [st EXCEPT !.m[t].sent_reply = TRUE, !.on = @ \ {idx},
             !.task[t] = "telling", !.told[t] = idx, !.tells[t] = @ + 1]

\* Mutant: the sensor stays marked.
ReplySensorTriggerMarked(st, t, idx) ==
  [st EXCEPT !.m[t].sensor_idx = NoSensor, !.m[t].sensor_idx_safety = NoSensor,
             !.m[t].sent_reply = TRUE,
             !.task[t] = "telling", !.told[t] = idx, !.tells[t] = @ + 1]

ReplySensorTrigger(st, t, idx) ==
  [m     |-> [st.m EXCEPT ![t].sensor_idx = NoSensor, ![t].sensor_idx_safety = NoSensor,
                          ![t].sent_reply = TRUE],
   on    |-> st.on \ {idx},
   task  |-> IF st.task[t] = "waiting" THEN [st.task EXCEPT ![t] = "telling"] ELSE st.task,
   told  |-> [st.told EXCEPT ![t] = idx],
   tells |-> [st.tells EXCEPT ![t] = @ + 1],
   stranded |-> st.stranded \/ st.task[t] # "waiting"]

\* Mutant: the second sensor is not looked at.
CheckFirstOnly(st, t) ==
  LET m == st.m[t] IN
    IF m.created /\ ~m.sent_reply /\ m.sensor_idx > 0 /\ m.sensor_idx \in st.on
      THEN ReplySensorTrigger(st, t, m.sensor_idx) ELSE st

\* Whether a pair is looked at depends on its first sensor, which must not be A1.
Check(st, t) ==
  LET m == st.m[t]
      held == m.created /\ ~m.sent_reply /\ m.sensor_idx > 0
  IN  IF held /\ m.sensor_idx \in st.on THEN ReplySensorTrigger(st, t, m.sensor_idx)
      ELSE IF held /\ m.sensor_idx_safety \in st.on THEN ReplySensorTrigger(st, t, m.sensor_idx_safety)
      ELSE st

\* The loop over the trains, after the first n of them.
checked[n \in 0 .. Len(Trains)] == IF n = 0 THEN matching ELSE Check(checked[n - 1], Trains[n])

\* Mutant: the flag is not cleared when the answer is there.
RX_NOTIFIERStillReceiving ==
  /\ Receive("RX_NOTIFIER")
  /\ \E st \in {checked[Len(Trains)]} :
       /\ sensor_messenger' = st.m /\ isTriggered' = st.on /\ tells' = st.tells
       /\ task' = st.task /\ told' = st.told
       /\ Transmits(transmit_buffer, sequence_length_buffer, canTransmit, isReceiving)
  /\ Answers(RxNotifier)
  /\ UNCHANGED <<switches, uart, sensors, history>>

\* Mutant: the receive notifier is not answered when a byte is sent in the same turn.
RX_NOTIFIERNoAnswer ==
  /\ Receive("RX_NOTIFIER")
  /\ \E st \in {checked[Len(Trains)]} :
       /\ sensor_messenger' = st.m /\ isTriggered' = st.on /\ tells' = st.tells
       /\ task' = st.task /\ told' = st.told
       /\ Transmits(transmit_buffer, sequence_length_buffer, canTransmit, FALSE)
  /\ Answers(IF server' = "put" THEN Nobody ELSE RxNotifier)
  /\ UNCHANGED <<switches, uart, sensors, history>>

\* The answer to the poll is complete.
RX_NOTIFIER ==
  /\ Receive("RX_NOTIFIER")
  /\ \E st \in {checked[Len(Trains)]} :
       /\ sensor_messenger' = st.m /\ isTriggered' = st.on /\ tells' = st.tells
       /\ task' = st.task /\ told' = st.told
       /\ IF st.stranded
            THEN /\ server' = "stranded"
                 /\ UNCHANGED <<transmit_buffer, sequence_length_buffer, sequence_length, count,
                                canTransmit, isReceiving, tx>>
          ELSE Transmits(transmit_buffer, sequence_length_buffer, canTransmit, FALSE)
  /\ Answers(RxNotifier)
  /\ UNCHANGED <<switches, uart, sensors, history>>

\* A pair replaces the one before.  With the first, the train gets its messenger.
SENSOR_LISTENER ==
  /\ Receive("SENSOR_LISTENER")
  /\ LET req == Head(inbox)
         old == sensor_messenger[req.train]
     IN  /\ sensor_messenger' = [sensor_messenger EXCEPT ![req.train] =
              [created |-> TRUE, sensor_idx |-> req.first, sensor_idx_safety |-> req.second,
               sent_reply |-> IF old.created THEN old.sent_reply ELSE TRUE]]
         /\ task' = IF old.created THEN task ELSE [task EXCEPT ![req.train] = "starting"]
         /\ asked' = [asked EXCEPT ![req.train] = @ + 1]
         /\ Handled(req.train)
  /\ UNCHANGED <<isTriggered, told, tells, switches, uart, sensors, world, accepted, dropped, wire>>

\* It is not answered but held.
SENSOR_MESSENGER ==
  /\ Receive("SENSOR_MESSENGER")
  /\ sensor_messenger' = [sensor_messenger EXCEPT ![Head(inbox).train].sent_reply = FALSE]
  /\ task' = [task EXCEPT ![Head(inbox).train] = "waiting"]
  /\ Handled(Nobody)
  /\ UNCHANGED <<isTriggered, told, tells, switches, uart, sensors, history>>

TX_NOTIFIER ==
  /\ Receive("TX_NOTIFIER")
  /\ Transmits(transmit_buffer, sequence_length_buffer, TRUE, isReceiving)
  /\ Answers(Nobody)
  /\ UNCHANGED <<switches, sensor_messenger, isTriggered, task, told, tells, uart, sensors, history>>

\* Mutant: the address goes before the command.
SEND_CMDSwapped ==
  /\ Receive("SEND_CMD")
  /\ LET cmd == Head(inbox).cmd IN
       /\ Transmits(Push(Push(transmit_buffer, <<cmd, 2>>), <<cmd, 1>>),
                    Append(sequence_length_buffer, 2), canTransmit, isReceiving)
       /\ accepted' = Append(accepted, cmd)
       /\ dropped' = (dropped \/ Len(transmit_buffer) + 2 > TxRoom)
  /\ Answers(Nobody)
  /\ UNCHANGED <<switches, sensor_messenger, isTriggered, task, told, tells, uart, sensors,
                 world, wire, asked>>

\* The two bytes go in one by one, whether there is room or not.
SEND_CMD ==
  /\ Receive("SEND_CMD")
  /\ LET cmd == Head(inbox).cmd IN
       /\ Transmits(Push(Push(transmit_buffer, <<cmd, 1>>), <<cmd, 2>>),
                    Append(sequence_length_buffer, 2), canTransmit, isReceiving)
       /\ accepted' = Append(accepted, cmd)
       /\ dropped' = (dropped \/ Len(transmit_buffer) + 2 > TxRoom)
  /\ Answers(Nobody)
  /\ UNCHANGED <<switches, sensor_messenger, isTriggered, task, told, tells, uart, sensors,
                 world, wire, asked>>

\* There is no case for it: the notifier is left waiting.
SWITCH_NOTIFIER ==
  /\ Receive("SWITCH_NOTIFIER")
  /\ switch_notifier' = [switch_notifier EXCEPT ![Head(inbox).addr] = "waiting"]
  /\ Handled(Nobody)
  /\ UNCHANGED <<owed, clock, sensor_messenger, isTriggered, task, told, tells, uart, sensors, history>>
-----------------------------------------------------------------------------
(* The clients and the messengers.                                         *)

Pending(a) == \E i \in DOMAIN inbox : inbox[i].type = "SEND_CMD" /\ inbox[i].cmd.addr = a
Given == Len(accepted) + Cardinality({i \in DOMAIN inbox : inbox[i].type = "SEND_CMD"})

\* The answer to the client, which has nothing to say, is left out.
SendCmd(a) ==
  /\ Given < world.commands
  /\ world.spaced /\ a \in SwitchAddrs =>
       /\ switch_notifier[a] = "waiting" /\ owed[a] = 0 /\ ~Pending(a)
       /\ \A i \in DOMAIN transmit_buffer : transmit_buffer[i][1].addr # a
  /\ inbox' = Append(inbox, [type |-> "SEND_CMD", cmd |-> [addr |-> a, id |-> Given + 1]])
  /\ UNCHANGED <<serverVars, tx, rx, switches, watching, uart, sensors, history>>

\* The quarter of a second is over.  The clock server answers the notifier, even
\* when that was woken before and waits for the Marklin server by now: then it
\* starts over, or, not answerable, leaves the clock server stranded.
switchNotifier(a) ==
  /\ owed[a] > 0 /\ clock
  /\ \/ /\ switch_notifier[a] = "delay"
        /\ switch_notifier' = [switch_notifier EXCEPT ![a] = "sending"]
        /\ owed' = [owed EXCEPT ![a] = @ - 1]
        /\ inbox' = Append(inbox, [type |-> "SWITCH_NOTIFIER", addr |-> a])
        /\ UNCHANGED clock
     \/ /\ switch_notifier[a] = "waiting"
        /\ switch_notifier' = [switch_notifier EXCEPT ![a] = "delay"]
        /\ UNCHANGED <<inbox, owed, clock>>
     \/ /\ switch_notifier[a] = "sending"
        /\ clock' = FALSE /\ owed' = [owed EXCEPT ![a] = @ - 1]
        /\ UNCHANGED <<inbox, switch_notifier>>
  /\ UNCHANGED <<serverVars, tx, rx, watching, uart, sensors, history>>

\* The server's messenger, new or answered by the conductor.
start_sensor_messenger(t) ==
  /\ task[t] \in {"starting", "telling"}
  /\ task' = [task EXCEPT ![t] = "coming"]
  /\ told' = [told EXCEPT ![t] = NoSensor]
  /\ inbox' = Append(inbox, [type |-> "SENSOR_MESSENGER", train |-> t])
  /\ UNCHANGED <<serverVars, tx, rx, switches, sensor_messenger, isTriggered, carrier, tells,
                 uart, sensors, history>>

\* The conductor names a pair, be it before or after it answers a trigger.
Listen(t, first, second) ==
  /\ ~carrier[t] /\ asked[t] < world.pairs[t] /\ first # second
  /\ carrier' = [carrier EXCEPT ![t] = TRUE]
  /\ inbox' = Append(inbox, [type |-> "SENSOR_LISTENER", train |-> t, first |-> first, second |-> second])
  /\ UNCHANGED <<serverVars, tx, rx, switches, sensor_messenger, isTriggered, task, told, tells,
                 uart, sensors, history>>
-----------------------------------------------------------------------------
(* The railway and the receive notifier.                                   *)

\* The railway takes the byte off the line, and is busy with it for a while.  To
\* a poll it answers with the sensors that were touched since the last one.
Busy ==
  /\ line # None /\ cts = 1
  /\ world.slow => TxBlocked
  /\ cts' = 0 /\ irq' = TRUE /\ line' = None
  /\ IF line = POLL THEN answer' = BYTES /\ reading' = latch /\ latch' = under
                    ELSE UNCHANGED <<answer, reading, latch>>
  /\ UNCHANGED <<inbox, serverVars, tx, rx, switches, watching, under, history>>

ClearAgain ==
  /\ cts = 0
  /\ world.slow => TxBlocked /\ ~irq
  /\ cts' = 1 /\ irq' = TRUE
  /\ UNCHANGED <<inbox, serverVars, tx, rx, switches, watching, line, answer, sensors, history>>

Touch(s) ==
  /\ s \notin under
  /\ under' = under \cup {s} /\ latch' = latch \cup {s}
  /\ UNCHANGED <<inbox, serverVars, tx, rx, switches, watching, uart, reading, history>>

Leave(s) ==
  /\ s \in under /\ under' = under \ {s}
  /\ UNCHANGED <<inbox, serverVars, tx, rx, switches, watching, uart, latch, reading, history>>

\* Mutant: a bank that is all zero is skipped.
processSensorDataLatching(on, read) == IF read = {} THEN on ELSE read

\* A bank that is all zero is switched off, any other is compared bit by bit:
\* either way the marks become what was read.
processSensorData(on, read) == read

\* A byte of the answer; with the last one the sensors are marked and the server
\* is told.
notifier_rx ==
  /\ answer > 0 /\ rx \in Nat
  /\ answer' = answer - 1
  /\ \/ rx + 1 < BYTES /\ rx' = rx + 1 /\ UNCHANGED <<inbox, isTriggered>>
     \/ /\ rx + 1 = BYTES /\ rx' = -1
        /\ isTriggered' = processSensorData(isTriggered, reading)
        /\ inbox' = Append(inbox, [type |-> "RX_NOTIFIER"])
  /\ UNCHANGED <<serverVars, tx, switches, sensor_messenger, task, told, carrier, tells,
                 cts, irq, line, sensors, history>>

Notifier == Look \/ AWAITEVENT \/ TellServer
Server == \/ RX_NOTIFIER \/ SENSOR_LISTENER \/ SENSOR_MESSENGER \/ TX_NOTIFIER
          \/ SEND_CMD \/ SWITCH_NOTIFIER \/ handle_transmission
Railway == Busy \/ ClearAgain

Next ==
  \/ Notifier \/ CtsInterrupt \/ Server \/ Railway \/ notifier_rx
  \/ \E a \in Addrs : SendCmd(a)
  \/ \E a \in SwitchAddrs : switchNotifier(a)
  \/ \E t \in TrainSet : start_sensor_messenger(t)
  \/ \E t \in TrainSet, first \in world.sensors, second \in world.sensors \cup {NoSensor} :
       Listen(t, first, second)
  \/ \E s \in world.touched : Touch(s) \/ Leave(s)

Fairness ==
  /\ WF_vars(Notifier) /\ WF_vars(CtsInterrupt) /\ WF_vars(Server) /\ WF_vars(Railway)
  /\ WF_vars(notifier_rx) /\ \A a \in SwitchAddrs : WF_vars(switchNotifier(a))
  /\ \A t \in TrainSet : WF_vars(start_sensor_messenger(t))

Spec == Init /\ [][Next]_vars /\ Fairness
-----------------------------------------------------------------------------
(* Properties.                                                             *)

TypeOK ==
  /\ world \in Worlds
  /\ server \in {"receive", "put", "stranded"} /\ rx \in -1 .. BYTES - 1
  /\ answering \in TrainSet \cup {Nobody, RxNotifier}
  /\ tx \in {"top", "to_clear", "clear", "send", "server", "sent", "to_low", "low",
             "check_high", "to_high", "high"}
  /\ Len(transmit_buffer) <= TxRoom /\ answer \in 0 .. BYTES
  /\ canTransmit \in BOOLEAN /\ isReceiving \in BOOLEAN
  /\ switch_notifier \in [SwitchAddrs -> {"waiting", "delay", "sending"}]
  /\ owed \in [SwitchAddrs -> Nat] /\ clock \in BOOLEAN /\ cts \in {0, 1}
  /\ sensor_messenger \in [TrainSet -> [created : BOOLEAN, sensor_idx : Sensors \cup {NoSensor},
       sensor_idx_safety : Sensors \cup {NoSensor}, sent_reply : BOOLEAN]]
  /\ task \in [TrainSet -> {"none", "starting", "coming", "waiting", "telling"}]
  /\ told \in [TrainSet -> Sensors \cup {NoSensor}] /\ carrier \in [TrainSet -> BOOLEAN]
  /\ asked \in [TrainSet -> Nat] /\ tells \in [TrainSet -> Nat]
  /\ isTriggered \cup under \cup latch \cup reading \subseteq Sensors

\* Commands reach the railway whole and in the order they were given, after the
\* reset: what has been sent and what is still to be sent (without the poll) are
\* the accepted commands, byte for byte, as long as there was room for each.
CommandsInOrder ==
  LET bytes == wire \o IF transmit_buffer = <<POLL>> THEN <<>> ELSE transmit_buffer
  IN  ~dropped => /\ Len(bytes) = 2 * Len(accepted) + 1 /\ bytes[1] = RESET
                  /\ \A i \in DOMAIN accepted :
                       bytes[2 * i] = <<accepted[i], 1>> /\ bytes[2 * i + 1] = <<accepted[i], 2>>

\* A byte is written only while the line is clear, the last one has been taken and
\* no answer to a poll is awaited, and no poll between the two bytes of a command:
\* the railway would miss it, or be given two things to do at once.
WrittenWhenClear ==
  [][line' # line /\ line' # None =>
       /\ cts = 1 /\ line = None /\ answer = 0
       /\ line' = POLL /\ ~dropped =>
            wire # <<>> /\ (wire[Len(wire)] = RESET \/ wire[Len(wire)][2] = 2)]_vars

\* The server answers a notifier or a messenger only while that waits for it,
\* whatever order commands, pairs and readings come in, if a switch is given time;
\* so does the clock server.  The kernel would not let them run again, and no train
\* would be watched.
NeverStranded == TypeOK /\ (world.spaced /\ ~dropped => server # "stranded" /\ clock)

\* Whatever happens, answers to polls come to the server again and again, and every
\* command is sent, both bytes of it, where the line keeps still until it is waited
\* for and a switch is left alone until its notifier waits again.
KeepsPolling == []<><<rx' = -1>>_vars
EveryCommandSent ==
  world.slow /\ world.spaced =>
    KeepsPolling /\ []<>(dropped \/ Len(wire) = 2 * Len(accepted) + 1)

\* A sensor that is not in the last answer is never told of: a mark left over
\* from an earlier train would move a later one along its path.
TriggeredIsFresh == answer = 0 => isTriggered \subseteq reading

\* What an answer says of a sensor is told to one train, though several may
\* expect it: the sensor was touched by one.
TellsDiffer == \A t, u \in TrainSet :
  tells'[t] # tells[t] /\ tells'[u] # tells[u] /\ t # u => told'[t] # told'[u]

\* The conductor pops a stretch of the path per trigger, so that a train must not
\* have more triggers than it has been given pairs, however long it stands on a
\* sensor and however often that is read; nor one for an old mark, or for a sensor
\* that another train is told of.
OneTellPerPair ==
  /\ []((\A t \in TrainSet : tells[t] <= asked[t]) /\ TriggeredIsFresh)
  /\ [][TellsDiffer]_vars

Expects(t, s) == s \in {sensor_messenger[t].sensor_idx, sensor_messenger[t].sensor_idx_safety}

\* A train that stays on a sensor of its pair is noticed, unless it is given
\* another pair or the sensor it is expected at first is A1; where line and switches are
\* given time, as above.
HeardExceptA1 ==
  world.slow /\ world.spaced => \A t \in TrainSet, s \in Sensors :
    (Expects(t, s) /\ sensor_messenger[t].sensor_idx # 0 /\ s \in under)
      ~> (~Expects(t, s) \/ sensor_messenger[t].sensor_idx = 0 \/ s \notin under)
=============================================================================
