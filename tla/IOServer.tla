------------------------------ MODULE IOServer ------------------------------
(***************************************************************************)
(* The console server of user/src/io_server.cpp with its two notifiers,    *)
(* the tasks that print and that wait for a key, and the UART.             *)
(*                                                                         *)
(* Send, Receive and Reply are those of Rendezvous.  Receive, each REPLY   *)
(* and each turn of the loop that writes is a step of its own.  A text is  *)
(* a sequence of characters, PUTC one of length one.  WHOIS, with which    *)
(* each call begins, always finds the server (NameServer): it registers    *)
(* before it creates anybody and its callers are created after it.         *)
(***************************************************************************)
EXTENDS Integers, Sequences, FiniteSets

CONSTANTS
  Writers,        \* the tasks that print
  Readers,        \* the tasks that wait for keys
  Texts,          \* what is printed
  Keys,           \* what is typed
  RxNotifier, TxNotifier,
  MAX_QUEUE_SIZE, \* places in transmit_buffer (1000)
  RECEIVE_SIZE,   \* places in receive_buffer (32)
  WAITING_SIZE,   \* places in rx_waiting_tasks (3)
  FIFO_SIZE,      \* places in the UART, for each direction (16)
  MaxTexts,       \* a bound: calls of the writers
  MaxKeys         \* a bound: keys that are typed

Nobody == "nobody"

IOAssumption ==
  /\ RxNotifier \notin Writers \cup Readers /\ TxNotifier \notin Writers \cup Readers
  /\ Writers \cap Readers = {} /\ RxNotifier # TxNotifier
  /\ Nobody \notin Writers \cup Readers \cup {RxNotifier}
  /\ Texts \subseteq Seq(Nat) /\ \A text \in Texts : Len(text) <= MAX_QUEUE_SIZE
  /\ Keys \subseteq Nat
  /\ {RECEIVE_SIZE, WAITING_SIZE, FIFO_SIZE} \subseteq Nat \ {0}
  /\ {MAX_QUEUE_SIZE, MaxTexts, MaxKeys} \subseteq Nat

VARIABLES
  inbox,              \* requests that have not been received, oldest first
  server,             \* "receiving", "writing" or "stranded"
  answering,          \* who is answered when the writing is done, or Nobody
  transmit_buffer, receive_buffer, rx_waiting_tasks, awaiting_tx,
  tx,                 \* the transmit notifier: "send_blocked", "reply_blocked" or "awaiting"
  rx,                 \* the receive notifier: the same states
  blocked,            \* the writers and readers that are in a call
  txFifo, rxFifo,     \* the UART
  calls,              \* how often Puts has been called
  taken,              \* the texts that were received, one after the other
  shown,              \* what has been written to the UART
  read,               \* the keys that were read and kept
  given,              \* the keys that readers were given, in order
  typed               \* how many keys have been typed

serverVars == <<server, answering, transmit_buffer, receive_buffer, rx_waiting_tasks, awaiting_tx>>
clientVars == <<blocked, calls>>
uart       == <<txFifo, rxFifo, typed>>
history    == <<taken, shown, read, given>>
vars       == <<inbox, serverVars, tx, rx, clientVars, uart, history>>

Request(c, type, str) == [sender |-> c, type |-> type, str |-> str]

\* The server has registered and created its notifiers, whose priority is above
\* its own: one awaits the UART, the other has sent its first request.
Init ==
  /\ inbox = <<Request(TxNotifier, "TX_NOTIFIER", <<>>)>>
  /\ server = "receiving"
  /\ answering = Nobody
  /\ transmit_buffer = <<>> /\ receive_buffer = <<>> /\ rx_waiting_tasks = <<>>
  /\ awaiting_tx = FALSE
  /\ tx = "send_blocked"
  /\ rx = "awaiting"
  /\ blocked = {}
  /\ calls = 0
  /\ txFifo = <<>> /\ rxFifo = <<>> /\ typed = 0
  /\ taken = <<>> /\ shown = <<>> /\ read = <<>> /\ given = <<>>

-----------------------------------------------------------------------------
(* The clients.                                                            *)

\* Puts, or Putc with one character.
Puts(w, text) ==
  /\ w \notin blocked
  /\ calls < MaxTexts
  /\ calls' = calls + 1
  /\ blocked' = blocked \cup {w}
  /\ inbox' = Append(inbox, Request(w, "PUTS", text))
  /\ UNCHANGED <<serverVars, tx, rx, uart, history>>

Getc(r) ==
  /\ r \notin blocked
  /\ blocked' = blocked \cup {r}
  /\ inbox' = Append(inbox, Request(r, "GETC", <<>>))
  /\ UNCHANGED <<serverVars, tx, rx, calls, uart, history>>

-----------------------------------------------------------------------------
(* The UART and the notifiers.                                             *)

\* The line takes a character.
Shift ==
  /\ txFifo # <<>>
  /\ txFifo' = Tail(txFifo)
  /\ UNCHANGED <<inbox, serverVars, tx, rx, clientVars, rxFifo, typed, history>>

\* A key is pressed while the UART has room for it.
Type(k) ==
  /\ typed < MaxKeys
  /\ Len(rxFifo) < FIFO_SIZE
  /\ rxFifo' = Append(rxFifo, k)
  /\ typed' = typed + 1
  /\ UNCHANGED <<inbox, serverVars, tx, rx, clientVars, txFifo, history>>

\* notifier_tx: the interrupt that it awaits comes when the UART is empty (the
\* kernel asserts that it is), and it sends.
notifier_tx ==
  /\ tx = "awaiting"
  /\ txFifo = <<>>
  /\ tx' = "send_blocked"
  /\ inbox' = Append(inbox, Request(TxNotifier, "TX_NOTIFIER", <<>>))
  /\ UNCHANGED <<serverVars, rx, clientVars, uart, history>>

\* notifier_rxto: keys lie in the UART and none has come for a while.
notifier_rxto ==
  /\ rx = "awaiting"
  /\ rxFifo # <<>>
  /\ rx' = "send_blocked"
  /\ inbox' = Append(inbox, Request(RxNotifier, "RTM_NOTIFIER", <<>>))
  /\ UNCHANGED <<serverVars, tx, clientVars, uart, history>>

-----------------------------------------------------------------------------
(* The server.                                                             *)

Receive(type) ==
  /\ server = "receiving"
  /\ inbox # <<>> /\ Head(inbox).type = type
  /\ inbox' = Tail(inbox)

\* The request is served up to the loop that writes; who is answered after it.
Served(who) == server' = "writing" /\ answering' = who

\* A queue of the given size; the result of Push is not looked at.
Push(q, size, x) == IF Len(q) = size THEN q ELSE Append(q, x)

\* A key is at hand: the answer waits until the writing is done.
GETC_Now ==
  /\ Receive("GETC")
  /\ receive_buffer # <<>>
  /\ receive_buffer' = Tail(receive_buffer)
  /\ given' = Append(given, Head(receive_buffer))
  /\ Served(Head(inbox).sender)
  /\ UNCHANGED <<transmit_buffer, rx_waiting_tasks, awaiting_tx, tx, rx, clientVars, uart,
                 taken, shown, read>>

GETC_Later ==
  /\ Receive("GETC")
  /\ receive_buffer = <<>>
  /\ rx_waiting_tasks' = Push(rx_waiting_tasks, WAITING_SIZE, Head(inbox).sender)
  /\ Served(Nobody)
  /\ UNCHANGED <<transmit_buffer, receive_buffer, awaiting_tx, tx, rx, clientVars, uart, history>>

\* The text is copied from the memory of the caller, who is held meanwhile.
PUTS ==
  /\ Receive("PUTS")
  /\ transmit_buffer' = transmit_buffer \o Head(inbox).str
  /\ taken' = taken \o Head(inbox).str
  /\ Served(Head(inbox).sender)
  /\ UNCHANGED <<receive_buffer, rx_waiting_tasks, awaiting_tx, tx, rx, clientVars, uart,
                 shown, read, given>>

TX_NOTIFIER ==
  /\ Receive("TX_NOTIFIER")
  /\ awaiting_tx' = FALSE
  /\ tx' = "reply_blocked"
  /\ Served(Nobody)
  /\ UNCHANGED <<transmit_buffer, receive_buffer, rx_waiting_tasks, rx, clientVars, uart, history>>

\* One key is read; it is lost if receive_buffer is full.
Kept == Push(receive_buffer, RECEIVE_SIZE, Head(rxFifo))

ReadsKey ==
  /\ Receive("RTM_NOTIFIER")
  /\ rx' = "reply_blocked"
  /\ rxFifo' = Tail(rxFifo)
  /\ read' = IF Len(receive_buffer) = RECEIVE_SIZE THEN read ELSE Append(read, Head(rxFifo))
  /\ Served(RxNotifier)

\* Mutant: the reader that has waited is answered with a copy of the key.
RTM_NOTIFIER_WaitedPeeks ==
  /\ ReadsKey
  /\ rx_waiting_tasks # <<>>
  /\ rx_waiting_tasks' = Tail(rx_waiting_tasks)
  /\ receive_buffer' = Kept
  /\ given' = Append(given, Head(Kept))
  /\ blocked' = blocked \ {Head(rx_waiting_tasks)}
  /\ UNCHANGED <<transmit_buffer, awaiting_tx, tx, calls, txFifo, typed, taken, shown>>

\* The reader that has waited longest is answered at once, with the oldest key.
RTM_NOTIFIER_Waited ==
  /\ ReadsKey
  /\ rx_waiting_tasks # <<>>
  /\ rx_waiting_tasks' = Tail(rx_waiting_tasks)
  /\ receive_buffer' = Tail(Kept)
  /\ given' = Append(given, Head(Kept))
  /\ blocked' = blocked \ {Head(rx_waiting_tasks)}
  /\ UNCHANGED <<transmit_buffer, awaiting_tx, tx, calls, txFifo, typed, taken, shown>>

RTM_NOTIFIER_Kept ==
  /\ ReadsKey
  /\ rx_waiting_tasks = <<>>
  /\ receive_buffer' = Kept
  /\ UNCHANGED <<transmit_buffer, rx_waiting_tasks, awaiting_tx, tx, clientVars, txFifo, typed,
                 taken, shown, given>>

\* Mutant: nobody asks whether the UART has room.
WriteUnasked ==
  /\ server = "writing"
  /\ transmit_buffer # <<>>
  /\ transmit_buffer' = Tail(transmit_buffer)
  /\ txFifo' = Push(txFifo, FIFO_SIZE, Head(transmit_buffer))
  /\ shown' = IF Len(txFifo) = FIFO_SIZE THEN shown ELSE Append(shown, Head(transmit_buffer))
  /\ UNCHANGED <<inbox, server, answering, receive_buffer, rx_waiting_tasks, awaiting_tx, tx, rx,
                 clientVars, rxFifo, typed, taken, read, given>>

\* A turn of the loop: a character goes into the UART.
Write ==
  /\ server = "writing"
  /\ transmit_buffer # <<>>
  /\ Len(txFifo) < FIFO_SIZE
  /\ transmit_buffer' = Tail(transmit_buffer)
  /\ txFifo' = Append(txFifo, Head(transmit_buffer))
  /\ shown' = Append(shown, Head(transmit_buffer))
  /\ UNCHANGED <<inbox, server, answering, receive_buffer, rx_waiting_tasks, awaiting_tx, tx, rx,
                 clientVars, rxFifo, typed, taken, read, given>>

\* Mutant: the notifier is let go at every turn at which the UART is full.
LetTxGoAgain ==
  /\ server = "writing"
  /\ transmit_buffer # <<>>
  /\ Len(txFifo) = FIFO_SIZE
  /\ awaiting_tx' = TRUE
  /\ IF tx = "reply_blocked"
     THEN tx' = "awaiting" /\ UNCHANGED server
     ELSE server' = "stranded" /\ UNCHANGED tx
  /\ UNCHANGED <<inbox, answering, transmit_buffer, receive_buffer, rx_waiting_tasks, rx,
                 clientVars, uart, history>>

\* Or the UART is full, and the notifier is let go.  A reply to a task that does
\* not wait for one would strand the server (Kernel).
LetTxGo ==
  /\ server = "writing"
  /\ transmit_buffer # <<>>
  /\ Len(txFifo) = FIFO_SIZE
  /\ ~awaiting_tx
  /\ awaiting_tx' = TRUE
  /\ IF tx = "reply_blocked"
     THEN tx' = "awaiting" /\ UNCHANGED server
     ELSE server' = "stranded" /\ UNCHANGED tx
  /\ UNCHANGED <<inbox, answering, transmit_buffer, receive_buffer, rx_waiting_tasks, rx,
                 clientVars, uart, history>>

\* Mutant: the notifier for keys is not answered.
AnswerClientsOnly ==
  /\ server = "writing"
  /\ transmit_buffer = <<>>
  /\ server' = "receiving"
  /\ answering' = Nobody
  /\ blocked' = blocked \ {answering}
  /\ UNCHANGED <<inbox, transmit_buffer, receive_buffer, rx_waiting_tasks, awaiting_tx, tx, rx,
                 calls, uart, history>>

\* All is written; the reply, if there is one.
Answer ==
  /\ server = "writing"
  /\ transmit_buffer = <<>>
  /\ server' = "receiving"
  /\ answering' = Nobody
  /\ rx' = IF answering = RxNotifier THEN "awaiting" ELSE rx
  /\ blocked' = blocked \ {answering}
  /\ UNCHANGED <<inbox, transmit_buffer, receive_buffer, rx_waiting_tasks, awaiting_tx, tx,
                 calls, uart, history>>

Serve ==
  \/ GETC_Now \/ GETC_Later \/ PUTS \/ TX_NOTIFIER
  \/ RTM_NOTIFIER_Waited \/ RTM_NOTIFIER_Kept
  \/ Write \/ LetTxGo \/ Answer

Next ==
  \/ \E w \in Writers, text \in Texts : Puts(w, text)
  \/ \E r \in Readers : Getc(r)
  \/ \E k \in Keys : Type(k)
  \/ Shift \/ notifier_tx \/ notifier_rxto \/ Serve

Spec == Init /\ [][Next]_vars

\* The line always takes the next character, interrupts come, and only tasks that
\* wait for most of the time have a higher priority than the server.
Fairness == WF_vars(Shift) /\ WF_vars(notifier_rxto) /\ WF_vars(Serve)

-----------------------------------------------------------------------------
(* Properties.                                                             *)

TypeOK ==
  /\ server \in {"receiving", "writing", "stranded"}
  /\ blocked \subseteq Writers \cup Readers
  /\ answering \in Writers \cup Readers \cup {RxNotifier, Nobody}
  /\ Len(transmit_buffer) <= MAX_QUEUE_SIZE
  /\ Len(receive_buffer) <= RECEIVE_SIZE
  /\ Len(rx_waiting_tasks) <= WAITING_SIZE
  /\ Len(txFifo) <= FIFO_SIZE /\ Len(rxFifo) <= FIFO_SIZE
  /\ tx \in {"send_blocked", "reply_blocked", "awaiting"}
  /\ rx \in {"send_blocked", "reply_blocked", "awaiting"}

\* The screen shows every text whole and in the order of the calls, whatever the
\* UART takes when; and a call to print returns when its text is in the UART.
TextsInOrder ==
  /\ shown \o transmit_buffer = taken
  /\ server = "receiving" => transmit_buffer = <<>>

\* Every key that is kept goes to one reader, in the order of typing, and no
\* reader waits while there is a key for it.
KeysInOrder ==
  /\ read = given \o receive_buffer
  /\ rx_waiting_tasks # <<>> => receive_buffer = <<>>

\* The server answers the transmit notifier only while it waits for an answer:
\* awaiting_tx, which the server sets and clears at other moments than the
\* notifier comes and goes, says so in time.
NeverStranded ==
  /\ server # "stranded"
  /\ ~awaiting_tx => tx # "awaiting"

Asking == blocked \cap Readers

\* A text is printed; and when the UART holds as many keys as readers wait, each
\* of them is given one.  rx_waiting_tasks has to have a place for each reader.
EveryoneAnswered ==
  /\ \A w \in Writers : w \in blocked ~> w \notin blocked
  /\ \A r \in Readers :
       (r \in blocked /\ Len(rxFifo) >= Cardinality(Asking)) ~> r \notin blocked
=============================================================================
