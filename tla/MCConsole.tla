----------------------------- MODULE MCConsole -----------------------------
(***************************************************************************)
(* The two servers of the console's tasks in four settings, one of which   *)
(* the initial state picks: the name server alone; the console server with *)
(* writers that print more than the UART takes; with as many readers as it *)
(* has places for; and with one more.                                      *)
(***************************************************************************)
EXTENDS NameServer

VARIABLES
  setting,
  requests, server, answering, transmit_buffer, receive_buffer, rx_waiting_tasks, awaiting_tx,
  tx, rx, blocked, calls, txFifo, rxFifo, typed, taken, shown, read, given

Printing == INSTANCE IOServer WITH
  Writers <- {"ui", "clock"}, Readers <- {"prompt"}, Texts <- {<<1, 2, 3>>, <<4>>}, Keys <- {7},
  inbox <- requests, RxNotifier <- "rx", TxNotifier <- "tx", MAX_QUEUE_SIZE <- 3, RECEIVE_SIZE <- 1,
  WAITING_SIZE <- 1, FIFO_SIZE <- 1, MaxTexts <- 3, MaxKeys <- 1

Reading == INSTANCE IOServer WITH
  Writers <- {"ui"}, Readers <- {"prompt", "game"}, Texts <- {<<1, 2>>}, Keys <- {7, 8},
  inbox <- requests, RxNotifier <- "rx", TxNotifier <- "tx", MAX_QUEUE_SIZE <- 2, RECEIVE_SIZE <- 2,
  WAITING_SIZE <- 2, FIFO_SIZE <- 2, MaxTexts <- 1, MaxKeys <- 3

Crowded == INSTANCE IOServer WITH
  Writers <- {}, Readers <- {"prompt", "game", "test"}, Texts <- {}, Keys <- {7, 8},
  inbox <- requests, RxNotifier <- "rx", TxNotifier <- "tx", MAX_QUEUE_SIZE <- 2, RECEIVE_SIZE <- 1,
  WAITING_SIZE <- 2, FIFO_SIZE <- 2, MaxTexts <- 0, MaxKeys <- 3

ASSUME SettingsAreLegal ==
  Printing!IOAssumption /\ Reading!IOAssumption /\ Crowded!IOAssumption

io == <<requests, server, answering, transmit_buffer, receive_buffer, rx_waiting_tasks, awaiting_tx,
        tx, rx, blocked, calls, txFifo, rxFifo, typed, taken, shown, read, given>>
consoleVars == <<setting, vars, io>>

ConsoleInit ==
  /\ setting \in {"names", "printing", "reading", "crowded"}
  /\ Init
  /\ Printing!Init

ConsoleNext ==
  /\ UNCHANGED setting
  /\ \/ setting = "names" /\ Next /\ UNCHANGED io
     \/ UNCHANGED vars
        /\ \/ setting = "printing" /\ Printing!Next
           \/ setting = "reading" /\ Reading!Next
           \/ setting = "crowded" /\ Crowded!Next

\* The same fairness in each setting.
NamesServed == setting = "names" /\ Server
Shift == \/ setting = "printing" /\ Printing!Shift
         \/ setting = "reading" /\ Reading!Shift
notifier_rxto == \/ setting = "printing" /\ Printing!notifier_rxto
                 \/ setting = "reading" /\ Reading!notifier_rxto
RequestsServed == \/ setting = "printing" /\ Printing!Serve
                  \/ setting = "reading" /\ Reading!Serve

ConsoleSpec ==
  /\ ConsoleInit /\ [][ConsoleNext]_consoleVars
  /\ WF_vars(NamesServed) /\ WF_io(Shift) /\ WF_io(notifier_rxto) /\ WF_io(RequestsServed)

\* The screen shows whole texts in the order of the calls, keys go to readers in
\* the order of typing, and no notifier strands the server; nor is a name in the
\* table twice.
TextsAndKeysInOrder ==
  /\ TypeOK /\ NamesDistinct /\ CallersWait
  /\ setting = "printing" => Printing!TypeOK
  /\ setting = "reading" => Reading!TypeOK
  /\ setting = "crowded" => Crowded!TypeOK
  /\ Printing!TextsInOrder /\ Printing!KeysInOrder /\ Printing!NeverStranded

\* Every call is answered: of the name server if the name is not too long, of the
\* console server if its readers are not too many.
EveryoneAnswered ==
  /\ EveryCallAnswered
  /\ setting = "printing" => Printing!EveryoneAnswered
  /\ setting = "reading" => Reading!EveryoneAnswered
=============================================================================
