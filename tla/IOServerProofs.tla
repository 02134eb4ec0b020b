--------------------------- MODULE IOServerProofs ---------------------------
(***************************************************************************)
(* The console server for any number of writers and readers, any texts and *)
(* any sizes of its buffers and of the UART: texts and keys keep their     *)
(* order, and the server never answers a notifier that does not wait.      *)
(***************************************************************************)
EXTENDS IOServer, SequenceTheorems, TLAPS

Tasks == Writers \cup Readers \cup {RxNotifier, TxNotifier}

Messages == [sender : Tasks, type : {"PUTS", "GETC", "TX_NOTIFIER", "RTM_NOTIFIER"}, str : Seq(Nat)]

\* The types that TypeOK leaves out.
Shapes ==
  /\ inbox \in Seq(Messages)
  /\ transmit_buffer \in Seq(Nat) /\ shown \in Seq(Nat) /\ taken \in Seq(Nat)
  /\ receive_buffer \in Seq(Nat) /\ read \in Seq(Nat) /\ given \in Seq(Nat)
  /\ rx_waiting_tasks \in Seq(Readers)
  /\ txFifo \in Seq(Nat) /\ rxFifo \in Seq(Nat)
  /\ awaiting_tx \in BOOLEAN

Known(m) ==
  /\ m.type = "PUTS" => m.sender \in Writers
  /\ m.type = "GETC" => m.sender \in Readers
  /\ Len(m.str) <= MAX_QUEUE_SIZE

\* The notifier for keys has at most one request, while it is send blocked; and
\* then there is a key to read.
RequestsKnown ==
  /\ \A i \in DOMAIN inbox : Known(inbox[i])
  /\ \A i \in DOMAIN inbox : inbox[i].type = "RTM_NOTIFIER" => rx = "send_blocked"
  /\ \A i, j \in DOMAIN inbox :
       inbox[i].type = "RTM_NOTIFIER" /\ inbox[j].type = "RTM_NOTIFIER" => i = j
  /\ rx = "send_blocked" => rxFifo # <<>>
  /\ answering = RxNotifier => rx = "reply_blocked"

\* Until it is let go, the transmit notifier waits for an answer; its first
\* request is the first of all.
TxWaits ==
  /\ server # "stranded"
  /\ ~awaiting_tx =>
       \/ tx = "reply_blocked"
       \/ /\ tx = "send_blocked" /\ server = "receiving"
          /\ inbox # <<>> /\ Head(inbox).type = "TX_NOTIFIER"

IOInv == TypeOK /\ Shapes /\ RequestsKnown /\ TxWaits /\ TextsInOrder /\ KeysInOrder

-----------------------------------------------------------------------------
(* Sequences.                                                              *)

\* The first of q goes to the end of p.
LEMMA Moves ==
  ASSUME NEW S, NEW p \in Seq(S), NEW q \in Seq(S), q # <<>>
  PROVE  /\ Head(q) \in S /\ Tail(q) \in Seq(S) /\ Len(Tail(q)) = Len(q) - 1
         /\ Append(p, Head(q)) \in Seq(S)
         /\ Append(p, Head(q)) \o Tail(q) = p \o q
<1>1. /\ Head(q) \in S /\ Tail(q) \in Seq(S) /\ Len(Tail(q)) = Len(q) - 1
      /\ Append(p, Head(q)) \in Seq(S) /\ Len(q) \in Nat /\ Len(p) \in Nat /\ Len(q) > 0
  OBVIOUS
<1> DEFINE l == Append(p, Head(q)) \o Tail(q)
           r == p \o q
<1>2. l \in Seq(S) /\ r \in Seq(S) /\ Len(l) = Len(p) + Len(q) /\ Len(r) = Len(p) + Len(q)
  BY <1>1
<1>3. \A i \in 1 .. Len(p) + Len(q) : l[i] = r[i]
  <2> SUFFICES ASSUME NEW i \in 1 .. Len(p) + Len(q) PROVE l[i] = r[i]
    OBVIOUS
  <2>1. CASE i \in 1 .. Len(p)
    BY <1>1, <2>1
  <2>2. CASE i = Len(p) + 1
    BY <1>1, <2>2
  <2>3. CASE i \in Len(p) + 2 .. Len(p) + Len(q)
    BY <1>1, <2>3
  <2> QED
    BY <1>1, <2>1, <2>2, <2>3
<1> HIDE DEF l, r
<1>4. l = r
  BY <1>2, <1>3, SeqEqual
<1> QED
  BY <1>1, <1>4 DEF l, r

LEMMA Grows ==
  ASSUME NEW p \in Seq(Nat), NEW q \in Seq(Nat), NEW x \in Nat
  PROVE  Append(p \o q, x) = p \o Append(q, x)
<1>1. Append(q, x) \in Seq(Nat) /\ Len(Append(q, x)) = Len(q) + 1 /\ Append(q, x) # <<>>
  OBVIOUS
<1> DEFINE l == Append(p \o q, x)
           r == p \o Append(q, x)
<1>2. l \in Seq(Nat) /\ r \in Seq(Nat) /\ Len(l) = Len(p) + Len(q) + 1 /\ Len(r) = Len(p) + Len(q) + 1
  BY <1>1
<1>3. \A i \in 1 .. Len(p) + Len(q) + 1 : l[i] = r[i]
  <2> SUFFICES ASSUME NEW i \in 1 .. Len(p) + Len(q) + 1 PROVE l[i] = r[i]
    OBVIOUS
  <2>1. CASE i \in 1 .. Len(p)
    BY <1>1, <2>1
  <2>2. CASE i \in Len(p) + 1 .. Len(p) + Len(q)
    BY <1>1, <2>2
  <2>3. CASE i = Len(p) + Len(q) + 1
    BY <1>1, <2>3
  <2> QED
    BY <1>1, <2>1, <2>2, <2>3
<1> HIDE DEF l, r
<1>4. l = r
  BY <1>2, <1>3, SeqEqual
<1> QED
  BY <1>1, <1>4 DEF l, r

-----------------------------------------------------------------------------
(* The inbox.                                                              *)

LEMMA InboxGrows ==
  ASSUME IOInv, NEW m \in Messages, Known(m), inbox' = Append(inbox, m),
         UNCHANGED <<answering, rxFifo, server, awaiting_tx>>,
         m.type # "RTM_NOTIFIER" => rx' = rx,
         m.type = "RTM_NOTIFIER" => rx = "awaiting" /\ rx' = "send_blocked" /\ rxFifo # <<>>,
         tx' = tx \/ (awaiting_tx /\ tx' = "send_blocked")
  PROVE  inbox' \in Seq(Messages) /\ RequestsKnown' /\ TxWaits'
<1>1. inbox \in Seq(Messages) /\ Len(inbox) \in Nat /\ DOMAIN inbox = 1 .. Len(inbox)
  BY DEF IOInv, Shapes
<1> HIDE DEF Messages
<1>2. /\ inbox' \in Seq(Messages) /\ DOMAIN inbox' = 1 .. Len(inbox) + 1
      /\ \A i \in 1 .. Len(inbox) : inbox'[i] = inbox[i]
      /\ inbox'[Len(inbox) + 1] = m
      /\ inbox # <<>> => inbox' # <<>> /\ Head(inbox') = Head(inbox)
  BY <1>1
<1>3. \A i \in DOMAIN inbox' : (i \in DOMAIN inbox /\ inbox'[i] = inbox[i]) \/ (i = Len(inbox) + 1 /\ inbox'[i] = m)
  BY <1>1, <1>2
<1>4. \A i \in DOMAIN inbox' : Known(inbox'[i])
  BY <1>3 DEF IOInv, RequestsKnown
<1>5. m.type = "RTM_NOTIFIER" => \A i \in DOMAIN inbox : inbox[i].type # "RTM_NOTIFIER"
  BY DEF IOInv, RequestsKnown
<1>6. \A i \in DOMAIN inbox' : inbox'[i].type = "RTM_NOTIFIER" => rx' = "send_blocked"
  BY <1>3, <1>5 DEF IOInv, RequestsKnown
<1>7. \A i, j \in DOMAIN inbox' :
        inbox'[i].type = "RTM_NOTIFIER" /\ inbox'[j].type = "RTM_NOTIFIER" => i = j
  BY <1>3, <1>5 DEF IOInv, RequestsKnown
<1>8. (rx' = "send_blocked" => rxFifo # <<>>) /\ (answering = RxNotifier => rx' = "reply_blocked")
  BY DEF IOInv, RequestsKnown
<1>9. \A i \in DOMAIN inbox' : Known(inbox[i])' <=> Known(inbox'[i])
  BY DEF Known
<1>10. RequestsKnown'
  BY <1>4, <1>6, <1>7, <1>8, <1>9 DEF RequestsKnown
<1>11. TxWaits'
  BY <1>2 DEF IOInv, TxWaits
<1> QED
  BY <1>2, <1>10, <1>11

\* The oldest request is taken.
LEMMA InboxShrinks ==
  ASSUME IOInv, NEW type \in {"PUTS", "GETC", "TX_NOTIFIER", "RTM_NOTIFIER"}, Receive(type)
  PROVE  /\ inbox' \in Seq(Messages)
         /\ Head(inbox) \in Messages /\ Known(Head(inbox))
         /\ type = "RTM_NOTIFIER" => rx = "send_blocked" /\ rxFifo # <<>>
         /\ type # "TX_NOTIFIER" => awaiting_tx \/ tx = "reply_blocked"
         /\ \A i \in DOMAIN inbox' : Known(inbox'[i])
         /\ \A i \in DOMAIN inbox' : inbox'[i].type = "RTM_NOTIFIER" =>
              rx = "send_blocked" /\ type # "RTM_NOTIFIER"
         /\ \A i, j \in DOMAIN inbox' :
              inbox'[i].type = "RTM_NOTIFIER" /\ inbox'[j].type = "RTM_NOTIFIER" => i = j
<1>1. inbox \in Seq(Messages) /\ Len(inbox) \in Nat /\ DOMAIN inbox = 1 .. Len(inbox)
  BY DEF IOInv, Shapes
<1>2. inbox # <<>> /\ Head(inbox).type = type /\ inbox' = Tail(inbox)
  BY DEF Receive
<1> HIDE DEF Messages
<1>3. /\ inbox' \in Seq(Messages) /\ DOMAIN inbox' = 1 .. Len(inbox) - 1
      /\ \A i \in 1 .. Len(inbox) - 1 : inbox'[i] = inbox[i + 1]
      /\ 1 \in DOMAIN inbox /\ Head(inbox) = inbox[1] /\ Head(inbox) \in Messages
  BY <1>1, <1>2
<1>4. \A i \in DOMAIN inbox' : i \in Nat /\ i + 1 \in DOMAIN inbox /\ i + 1 # 1 /\ inbox'[i] = inbox[i + 1]
  BY <1>1, <1>3
<1>5. Known(Head(inbox)) /\ \A i \in DOMAIN inbox' : Known(inbox'[i])
  BY <1>3, <1>4 DEF IOInv, RequestsKnown
<1>6. type = "RTM_NOTIFIER" => rx = "send_blocked" /\ rxFifo # <<>>
  BY <1>2, <1>3 DEF IOInv, RequestsKnown
<1>7. type # "TX_NOTIFIER" => awaiting_tx \/ tx = "reply_blocked"
  BY <1>2 DEF IOInv, TxWaits
<1>8. \A i \in DOMAIN inbox' : inbox'[i].type = "RTM_NOTIFIER" =>
              rx = "send_blocked" /\ type # "RTM_NOTIFIER"
  BY <1>2, <1>3, <1>4 DEF IOInv, RequestsKnown
<1>9. \A i, j \in DOMAIN inbox' :
        inbox'[i].type = "RTM_NOTIFIER" /\ inbox'[j].type = "RTM_NOTIFIER" => i = j
  <2> SUFFICES ASSUME NEW i \in DOMAIN inbox', NEW j \in DOMAIN inbox',
                      inbox'[i].type = "RTM_NOTIFIER", inbox'[j].type = "RTM_NOTIFIER"
               PROVE  i = j
    OBVIOUS
  <2>1. i + 1 = j + 1
    BY <1>4 DEF IOInv, RequestsKnown
  <2> QED
    BY <1>4, <2>1
<1> QED
  BY <1>3, <1>5, <1>6, <1>7, <1>8, <1>9

\* The request of a task is served, and the invariant of the inbox is kept.
LEMMA Serving ==
  ASSUME IOInv, NEW type \in {"PUTS", "GETC", "TX_NOTIFIER", "RTM_NOTIFIER"}, Receive(type),
         IOAssumption, server' = "writing",
         type # "RTM_NOTIFIER" => /\ UNCHANGED <<rx, rxFifo>>
                                  /\ answering' \in {Nobody, Head(inbox).sender}
                                  /\ answering' \in Writers \cup Readers \cup {Nobody},
         type = "RTM_NOTIFIER" => rx' = "reply_blocked",
         \/ type # "TX_NOTIFIER" /\ UNCHANGED <<tx, awaiting_tx>>
         \/ tx' = "reply_blocked"
  PROVE  RequestsKnown' /\ TxWaits'
<1>1. /\ \A i \in DOMAIN inbox' : Known(inbox'[i])
      /\ type # "TX_NOTIFIER" => awaiting_tx \/ tx = "reply_blocked"
      /\ \A i \in DOMAIN inbox' : inbox'[i].type = "RTM_NOTIFIER" =>
           rx = "send_blocked" /\ type # "RTM_NOTIFIER"
      /\ \A i, j \in DOMAIN inbox' :
           inbox'[i].type = "RTM_NOTIFIER" /\ inbox'[j].type = "RTM_NOTIFIER" => i = j
  BY InboxShrinks
<1>2. \A i \in DOMAIN inbox' : inbox'[i].type = "RTM_NOTIFIER" => rx' = "send_blocked"
  BY <1>1
<1>3. rx' = "send_blocked" => rxFifo' # <<>>
  BY DEF IOInv, RequestsKnown
<1>4. answering' = RxNotifier => rx' = "reply_blocked"
  BY DEF IOAssumption
<1>5. \A i \in DOMAIN inbox' : Known(inbox[i])' <=> Known(inbox'[i])
  BY DEF Known
<1>6. RequestsKnown'
  BY <1>1, <1>2, <1>3, <1>4, <1>5 DEF RequestsKnown
<1>7. TxWaits'
  BY <1>1 DEF TxWaits
<1> QED
  BY <1>6, <1>7

-----------------------------------------------------------------------------
(* The clients, the UART and the notifiers.                                *)

LEMMA InvInit ==
  ASSUME IOAssumption, Init
  PROVE  IOInv
<1> DEFINE m == Request(TxNotifier, "TX_NOTIFIER", <<>>)
<1>1. m \in Messages /\ Known(m) /\ m.type = "TX_NOTIFIER"
  BY DEF Messages, Tasks, Request, Known, IOAssumption
<1>2. inbox = <<m>>
  BY DEF Init
<1> HIDE DEF m, Messages
<1>3. inbox \in Seq(Messages) /\ DOMAIN inbox = 1 .. 1 /\ inbox[1] = m /\ inbox # <<>> /\ Head(inbox) = m
  BY <1>1, <1>2
<1>4. RequestsKnown
  BY <1>1, <1>3 DEF Init, RequestsKnown, Nobody, IOAssumption
<1>5. TxWaits
  BY <1>1, <1>3 DEF Init, TxWaits
<1>6. TypeOK
  BY DEF Init, TypeOK, IOAssumption
<1>7. Shapes
  <2>1. <<>> \in Seq(Nat) /\ <<>> \in Seq(Readers)
    BY EmptySeq
  <2> QED
    BY <1>3, <2>1 DEF Init, Shapes
<1>8. <<>> \o <<>> = <<>>
  OBVIOUS
<1> QED
  BY <1>4, <1>5, <1>6, <1>7, <1>8 DEF IOInv, Init, TextsInOrder, KeysInOrder

LEMMA CallKeeps ==
  ASSUME IOInv, IOAssumption,
         NEW c \in Writers \cup Readers, NEW text,
         (c \in Writers /\ text \in Texts /\ Puts(c, text)) \/ (c \in Readers /\ Getc(c))
  PROVE  IOInv'
<1>1. PICK m \in Messages :
        Known(m) /\ inbox' = Append(inbox, m) /\ m.type # "RTM_NOTIFIER"
  <2>1. CASE c \in Writers /\ text \in Texts /\ Puts(c, text)
    <3>1. Request(c, "PUTS", text) \in Messages /\ Known(Request(c, "PUTS", text))
      BY <2>1 DEF Messages, Tasks, Request, Known, IOAssumption
    <3>2. Request(c, "PUTS", text).type # "RTM_NOTIFIER"
      BY DEF Request
    <3> QED
      BY <2>1, <3>1, <3>2 DEF Puts
  <2>2. CASE c \in Readers /\ Getc(c)
    <3>1. Request(c, "GETC", <<>>) \in Messages /\ Known(Request(c, "GETC", <<>>))
      BY <2>2 DEF Messages, Tasks, Request, Known, IOAssumption
    <3>2. Request(c, "GETC", <<>>).type # "RTM_NOTIFIER"
      BY DEF Request
    <3> QED
      BY <2>2, <3>1, <3>2 DEF Getc
  <2> QED
    BY <2>1, <2>2
<1>2. blocked' = blocked \cup {c} /\ UNCHANGED <<serverVars, tx, rx, uart, history>>
  BY DEF Puts, Getc
<1>3. inbox' \in Seq(Messages) /\ RequestsKnown' /\ TxWaits'
  BY <1>1, <1>2, InboxGrows DEF serverVars, uart
<1>4. TypeOK' /\ Shapes'
  BY <1>2, <1>3 DEF IOInv, TypeOK, Shapes, serverVars, uart, history
<1>5. TextsInOrder' /\ KeysInOrder'
  BY <1>2 DEF IOInv, TextsInOrder, KeysInOrder, serverVars, uart, history
<1> QED
  BY <1>3, <1>4, <1>5 DEF IOInv

LEMMA NotifierKeeps ==
  ASSUME IOInv, IOAssumption, notifier_tx \/ notifier_rxto
  PROVE  IOInv'
<1>1. PICK m \in Messages :
        /\ Known(m) /\ inbox' = Append(inbox, m)
        /\ \/ m.type = "TX_NOTIFIER" /\ notifier_tx
           \/ m.type = "RTM_NOTIFIER" /\ notifier_rxto
  <2>1. CASE notifier_tx
    <3> DEFINE n == Request(TxNotifier, "TX_NOTIFIER", <<>>)
    <3>1. n \in Messages /\ Known(n) /\ n.type = "TX_NOTIFIER"
      BY DEF Messages, Tasks, Request, Known, IOAssumption
    <3>2. inbox' = Append(inbox, n)
      BY <2>1 DEF notifier_tx
    <3> HIDE DEF n
    <3> QED
      BY <2>1, <3>1, <3>2
  <2>2. CASE notifier_rxto
    <3>1. /\ Request(RxNotifier, "RTM_NOTIFIER", <<>>) \in Messages
          /\ Known(Request(RxNotifier, "RTM_NOTIFIER", <<>>))
          /\ Request(RxNotifier, "RTM_NOTIFIER", <<>>).type = "RTM_NOTIFIER"
      BY DEF Messages, Tasks, Request, Known, IOAssumption
    <3> QED
      BY <2>2, <3>1 DEF notifier_rxto
  <2> QED
    BY <2>1, <2>2
<1>2. /\ UNCHANGED <<serverVars, clientVars, uart, history>>
      /\ tx' \in {tx, "send_blocked"} /\ rx' \in {rx, "send_blocked"}
      /\ tx' = tx \/ (tx = "awaiting" /\ tx' = "send_blocked")
  BY DEF notifier_tx, notifier_rxto
<1>3. tx = "awaiting" => awaiting_tx
  BY DEF IOInv, TxWaits
<1>4. /\ m.type # "RTM_NOTIFIER" => rx' = rx
      /\ m.type = "RTM_NOTIFIER" => rx = "awaiting" /\ rx' = "send_blocked" /\ rxFifo # <<>>
  BY <1>1 DEF notifier_tx, notifier_rxto
<1>5. inbox' \in Seq(Messages) /\ RequestsKnown' /\ TxWaits'
  BY <1>1, <1>2, <1>3, <1>4, InboxGrows DEF serverVars, uart
<1>6. TypeOK' /\ Shapes'
  BY <1>2, <1>5 DEF IOInv, TypeOK, Shapes, serverVars, clientVars, uart, history
<1>7. TextsInOrder' /\ KeysInOrder'
  BY <1>2 DEF IOInv, TextsInOrder, KeysInOrder, serverVars, uart, history
<1> QED
  BY <1>5, <1>6, <1>7 DEF IOInv

LEMMA UartKeeps ==
  ASSUME IOInv, IOAssumption, Shift \/ \E k \in Keys : Type(k)
  PROVE  IOInv'
<1>1. UNCHANGED <<inbox, serverVars, tx, rx, clientVars, history>>
  BY DEF Shift, Type
<1>2. /\ txFifo' \in Seq(Nat) /\ Len(txFifo') <= FIFO_SIZE
      /\ rxFifo' \in Seq(Nat) /\ Len(rxFifo') <= FIFO_SIZE
      /\ rxFifo # <<>> => rxFifo' # <<>>
  <2>1. CASE Shift
    <3>1. UNCHANGED rxFifo /\ txFifo' = Tail(txFifo) /\ txFifo # <<>> /\ txFifo \in Seq(Nat) /\ Len(txFifo) <= FIFO_SIZE
      BY <2>1 DEF Shift, IOInv, Shapes, TypeOK
    <3>2. txFifo' \in Seq(Nat) /\ Len(txFifo') = Len(txFifo) - 1 /\ Len(txFifo) \in Nat
      BY <3>1
    <3>3. FIFO_SIZE \in Nat
      BY DEF IOAssumption
    <3> QED
      BY <3>1, <3>2, <3>3 DEF IOInv, Shapes, TypeOK
  <2>2. ASSUME NEW k \in Keys, Type(k) 
        PROVE  /\ UNCHANGED txFifo
               /\ rxFifo' \in Seq(Nat) /\ Len(rxFifo') <= FIFO_SIZE /\ rxFifo' # <<>>
    <3>1. /\ UNCHANGED txFifo /\ rxFifo' = Append(rxFifo, k) /\ rxFifo \in Seq(Nat) /\ k \in Nat
          /\ Len(rxFifo) < FIFO_SIZE /\ FIFO_SIZE \in Nat
      BY <2>2 DEF Type, IOInv, Shapes, IOAssumption
    <3>2. rxFifo' \in Seq(Nat) /\ Len(rxFifo') = Len(rxFifo) + 1 /\ Len(rxFifo) \in Nat /\ rxFifo' # <<>>
      BY <3>1
    <3> QED
      BY <3>1, <3>2
  <2> QED
    BY <2>1, <2>2 DEF IOInv, Shapes, TypeOK
<1>3. RequestsKnown'
  <2>1. \A i \in DOMAIN inbox : Known(inbox[i])' <=> Known(inbox[i])
    BY <1>1 DEF Known
  <2> QED
    BY <1>1, <1>2, <2>1 DEF IOInv, RequestsKnown, serverVars
<1>4. TypeOK' /\ Shapes' /\ TxWaits'
  BY <1>1, <1>2 DEF IOInv, TypeOK, Shapes, TxWaits, serverVars, clientVars, history
<1>5. TextsInOrder' /\ KeysInOrder'
  BY <1>1 DEF IOInv, TextsInOrder, KeysInOrder, serverVars, history
<1> QED
  BY <1>3, <1>4, <1>5 DEF IOInv

-----------------------------------------------------------------------------
(* The server takes a request.                                             *)

LEMMA PushKeeps ==
  ASSUME NEW S, NEW q \in Seq(S), NEW size \in Nat \ {0}, Len(q) <= size, NEW x \in S
  PROVE  Push(q, size, x) \in Seq(S) /\ Len(Push(q, size, x)) <= size /\ Push(q, size, x) # <<>>
<1>1. Append(q, x) \in Seq(S) /\ Len(Append(q, x)) = Len(q) + 1 /\ Append(q, x) # <<>> /\ Len(q) \in Nat
  OBVIOUS
<1>2. CASE Len(q) = size
  <2>1. q # <<>>
    BY <1>2
  <2> QED
    BY <1>2, <2>1 DEF Push
<1>3. CASE Len(q) # size
  BY <1>1, <1>3 DEF Push
<1> QED
  BY <1>2, <1>3

LEMMA GetcNowKeeps ==
  ASSUME IOInv, IOAssumption, GETC_Now
  PROVE  IOInv'
<1> DEFINE s == Head(inbox).sender
<1>1. /\ Receive("GETC") /\ server = "receiving" /\ server' = "writing" /\ answering' = s
      /\ receive_buffer # <<>> /\ receive_buffer' = Tail(receive_buffer)
      /\ given' = Append(given, Head(receive_buffer))
      /\ UNCHANGED <<transmit_buffer, rx_waiting_tasks, awaiting_tx, tx, rx, clientVars, uart,
                     taken, shown, read>>
  BY DEF GETC_Now, Served, Receive
<1>2. inbox' \in Seq(Messages) /\ s \in Readers
  <2>1. inbox' \in Seq(Messages) /\ Known(Head(inbox)) /\ Head(inbox).type = "GETC"
    BY <1>1, InboxShrinks DEF Receive
  <2> QED
    BY <2>1 DEF Known
<1> HIDE DEF s
<1>3. RequestsKnown' /\ TxWaits'
  <2>1. answering' \in {Nobody, Head(inbox).sender} /\ answering' \in Writers \cup Readers \cup {Nobody}
    BY <1>1, <1>2 DEF s
  <2> QED
    BY <1>1, <2>1, Serving DEF uart
<1>4. /\ receive_buffer' \in Seq(Nat) /\ given' \in Seq(Nat)
      /\ Len(receive_buffer') = Len(receive_buffer) - 1
      /\ given' \o receive_buffer' = given \o receive_buffer
  <2>1. receive_buffer \in Seq(Nat) /\ given \in Seq(Nat)
    BY DEF IOInv, Shapes
  <2>2. /\ Tail(receive_buffer) \in Seq(Nat) /\ Len(Tail(receive_buffer)) = Len(receive_buffer) - 1
        /\ Append(given, Head(receive_buffer)) \in Seq(Nat)
        /\ Append(given, Head(receive_buffer)) \o Tail(receive_buffer) = given \o receive_buffer
    BY <1>1, <2>1, Moves, Zenon
  <2> QED
    BY <1>1, <2>2
<1>5. Len(receive_buffer') <= RECEIVE_SIZE
  <2>1. Len(receive_buffer) \in Nat /\ Len(receive_buffer) <= RECEIVE_SIZE /\ RECEIVE_SIZE \in Nat
    BY DEF IOInv, Shapes, TypeOK, IOAssumption
  <2> QED
    BY <1>4, <2>1
<1>6. TypeOK'
  BY <1>1, <1>2, <1>5 DEF IOInv, TypeOK, clientVars, uart
<1>7. Shapes'
  BY <1>1, <1>2, <1>4 DEF IOInv, Shapes, clientVars, uart
<1>8. KeysInOrder' /\ TextsInOrder'
  BY <1>1, <1>4 DEF IOInv, KeysInOrder, TextsInOrder
<1> QED
  BY <1>3, <1>6, <1>7, <1>8 DEF IOInv

LEMMA GetcLaterKeeps ==
  ASSUME IOInv, IOAssumption, GETC_Later
  PROVE  IOInv'
<1> DEFINE s == Head(inbox).sender
<1>1. /\ Receive("GETC") /\ server = "receiving" /\ server' = "writing" /\ answering' = Nobody
      /\ receive_buffer = <<>>
      /\ rx_waiting_tasks' = Push(rx_waiting_tasks, WAITING_SIZE, s)
      /\ UNCHANGED <<transmit_buffer, receive_buffer, awaiting_tx, tx, rx, clientVars, uart, history>>
  BY DEF GETC_Later, Served, Receive
<1>2. inbox' \in Seq(Messages) /\ s \in Readers
  <2>1. inbox' \in Seq(Messages) /\ Known(Head(inbox)) /\ Head(inbox).type = "GETC"
    BY <1>1, InboxShrinks DEF Receive
  <2> QED
    BY <2>1 DEF Known
<1> HIDE DEF s
<1>3. RequestsKnown' /\ TxWaits'
  BY <1>1, Serving DEF uart
<1>4. rx_waiting_tasks' \in Seq(Readers) /\ Len(rx_waiting_tasks') <= WAITING_SIZE
  <2>1. rx_waiting_tasks \in Seq(Readers) /\ Len(rx_waiting_tasks) <= WAITING_SIZE
        /\ WAITING_SIZE \in Nat \ {0}
    BY DEF IOInv, Shapes, TypeOK, IOAssumption
  <2> QED
    BY <1>1, <1>2, <2>1, PushKeeps
<1>5. TypeOK'
  BY <1>1, <1>4 DEF IOInv, TypeOK, clientVars, uart
<1>6. Shapes'
  BY <1>1, <1>2, <1>4 DEF IOInv, Shapes, clientVars, uart, history
<1>7. KeysInOrder' /\ TextsInOrder'
  BY <1>1 DEF IOInv, KeysInOrder, TextsInOrder, history
<1> QED
  BY <1>3, <1>5, <1>6, <1>7 DEF IOInv

LEMMA PutsKeeps ==
  ASSUME IOInv, IOAssumption, PUTS
  PROVE  IOInv'
<1> DEFINE s == Head(inbox).sender
           text == Head(inbox).str
<1>1. /\ Receive("PUTS") /\ server = "receiving" /\ server' = "writing" /\ answering' = s
      /\ transmit_buffer' = transmit_buffer \o text /\ taken' = taken \o text
      /\ UNCHANGED <<receive_buffer, rx_waiting_tasks, awaiting_tx, tx, rx, clientVars, uart,
                     shown, read, given>>
  BY DEF PUTS, Served, Receive
<1>2. inbox' \in Seq(Messages) /\ s \in Writers /\ text \in Seq(Nat) /\ Len(text) <= MAX_QUEUE_SIZE
  <2>1. /\ inbox' \in Seq(Messages) /\ Known(Head(inbox)) /\ Head(inbox).type = "PUTS"
        /\ Head(inbox) \in Messages
    BY <1>1, InboxShrinks DEF Receive
  <2> QED
    BY <2>1 DEF Known, Messages
<1>3. RequestsKnown' /\ TxWaits'
  <2>1. answering' \in {Nobody, Head(inbox).sender} /\ answering' \in Writers \cup Readers \cup {Nobody}
    BY <1>1, <1>2
  <2> HIDE DEF s, text
  <2> QED
    BY <1>1, <2>1, Serving DEF uart
<1> HIDE DEF s, text
<1>4. transmit_buffer = <<>> /\ shown = taken /\ shown \in Seq(Nat) /\ taken \in Seq(Nat)
  BY <1>1, ConcatEmptySeq DEF IOInv, TextsInOrder, Shapes
<1>5. /\ transmit_buffer' = text
      /\ taken' \in Seq(Nat) /\ shown' \o transmit_buffer' = taken'
  <2>1. <<>> \o text = text
    BY <1>2, ConcatEmptySeq
  <2>2. taken \o text \in Seq(Nat)
    BY <1>2, <1>4, ConcatProperties
  <2> QED
    BY <1>1, <1>4, <2>1, <2>2
<1>6. TypeOK'
  BY <1>1, <1>2, <1>5 DEF IOInv, TypeOK, clientVars, uart
<1>7. Shapes'
  BY <1>1, <1>2, <1>5 DEF IOInv, Shapes, clientVars, uart
<1>8. KeysInOrder' /\ TextsInOrder'
  BY <1>1, <1>5 DEF IOInv, KeysInOrder, TextsInOrder
<1> QED
  BY <1>3, <1>6, <1>7, <1>8 DEF IOInv

LEMMA TxNotifierKeeps ==
  ASSUME IOInv, IOAssumption, TX_NOTIFIER
  PROVE  IOInv'
<1>1. /\ Receive("TX_NOTIFIER") /\ server = "receiving" /\ server' = "writing" /\ answering' = Nobody
      /\ awaiting_tx' = FALSE /\ tx' = "reply_blocked"
      /\ UNCHANGED <<transmit_buffer, receive_buffer, rx_waiting_tasks, rx, clientVars, uart, history>>
  BY DEF TX_NOTIFIER, Served, Receive
<1>2. inbox' \in Seq(Messages)
  BY <1>1, InboxShrinks
<1>3. RequestsKnown' /\ TxWaits'
  BY <1>1, Serving DEF uart
<1>4. TypeOK' /\ Shapes'
  BY <1>1, <1>2 DEF IOInv, TypeOK, Shapes, clientVars, uart, history
<1>5. KeysInOrder' /\ TextsInOrder'
  BY <1>1 DEF IOInv, KeysInOrder, TextsInOrder, history
<1> QED
  BY <1>3, <1>4, <1>5 DEF IOInv

-----------------------------------------------------------------------------
(* The server takes the request of the notifier for keys.                  *)

LEMMA ReadsKeyKeeps ==
  ASSUME IOInv, IOAssumption, ReadsKey
  PROVE  /\ inbox' \in Seq(Messages) /\ server = "receiving"
         /\ Head(rxFifo) \in Nat
         /\ rxFifo' \in Seq(Nat) /\ Len(rxFifo') <= FIFO_SIZE
         /\ Kept \in Seq(Nat) /\ Len(Kept) <= RECEIVE_SIZE /\ Kept # <<>>
         /\ read' \in Seq(Nat) /\ read' = given \o Kept
         /\ UNCHANGED <<tx, awaiting_tx>> => RequestsKnown' /\ TxWaits'
<1> DEFINE k == Head(rxFifo)
<1>1. /\ Receive("RTM_NOTIFIER") /\ server = "receiving" /\ server' = "writing"
      /\ answering' = RxNotifier /\ rx' = "reply_blocked" /\ rxFifo' = Tail(rxFifo)
      /\ read' = IF Len(receive_buffer) = RECEIVE_SIZE THEN read ELSE Append(read, k)
  BY DEF ReadsKey, Served, Receive
<1>2. inbox' \in Seq(Messages) /\ rxFifo # <<>>
  BY <1>1, InboxShrinks
<1>3. /\ receive_buffer \in Seq(Nat) /\ given \in Seq(Nat) /\ read = given \o receive_buffer
      /\ Len(receive_buffer) <= RECEIVE_SIZE /\ RECEIVE_SIZE \in Nat \ {0}
      /\ rxFifo \in Seq(Nat) /\ Len(rxFifo) <= FIFO_SIZE /\ FIFO_SIZE \in Nat
      /\ read \in Seq(Nat)
  BY DEF IOInv, Shapes, TypeOK, KeysInOrder, IOAssumption
<1>4. k \in Nat /\ rxFifo' \in Seq(Nat) /\ Len(rxFifo') <= FIFO_SIZE
  <2>1. k \in Nat /\ Tail(rxFifo) \in Seq(Nat) /\ Len(Tail(rxFifo)) = Len(rxFifo) - 1 /\ Len(rxFifo) \in Nat
    BY <1>2, <1>3
  <2> QED
    BY <1>1, <1>3, <2>1
<1> HIDE DEF k
<1>5. Kept = Push(receive_buffer, RECEIVE_SIZE, k)
  BY DEF Kept, k
<1>6. Kept \in Seq(Nat) /\ Len(Kept) <= RECEIVE_SIZE /\ Kept # <<>>
  BY <1>3, <1>4, <1>5, PushKeeps
<1>7. read' \in Seq(Nat) /\ read' = given \o Kept
  <2>1. Append(given \o receive_buffer, k) = given \o Append(receive_buffer, k)
    <3>1. given \in Seq(Nat) /\ receive_buffer \in Seq(Nat) /\ k \in Nat
      BY <1>3, <1>4
    <3> QED
      BY <3>1, Grows, Zenon
  <2>2. Append(read, k) \in Seq(Nat)
    BY <1>3, <1>4
  <2> QED
    BY <1>1, <1>3, <1>5, <2>1, <2>2 DEF Push
<1>8. ASSUME UNCHANGED <<tx, awaiting_tx>> PROVE RequestsKnown' /\ TxWaits'
  BY <1>1, <1>8, Serving
<1> QED
  BY <1>1, <1>2, <1>4, <1>6, <1>7, <1>8 DEF k

LEMMA WaitedKeeps ==
  ASSUME IOInv, IOAssumption, RTM_NOTIFIER_Waited
  PROVE  IOInv'
<1>1. /\ ReadsKey /\ rx_waiting_tasks # <<>> /\ rx_waiting_tasks' = Tail(rx_waiting_tasks)
      /\ receive_buffer' = Tail(Kept) /\ given' = Append(given, Head(Kept))
      /\ blocked' = blocked \ {Head(rx_waiting_tasks)}
      /\ UNCHANGED <<transmit_buffer, awaiting_tx, tx, calls, txFifo, typed, taken, shown>>
  BY DEF RTM_NOTIFIER_Waited
<1>2. server' = "writing" /\ answering' = RxNotifier /\ rx' = "reply_blocked"
  BY <1>1 DEF ReadsKey, Served
<1>3. /\ inbox' \in Seq(Messages) /\ server = "receiving" /\ Head(rxFifo) \in Nat
      /\ rxFifo' \in Seq(Nat) /\ Len(rxFifo') <= FIFO_SIZE
      /\ Kept \in Seq(Nat) /\ Len(Kept) <= RECEIVE_SIZE /\ Kept # <<>>
      /\ read' \in Seq(Nat) /\ read' = given \o Kept
      /\ RequestsKnown' /\ TxWaits'
  BY <1>1, ReadsKeyKeeps
<1>4. given \in Seq(Nat) /\ receive_buffer = <<>> /\ RECEIVE_SIZE \in Nat \ {0}
  BY <1>1 DEF IOInv, Shapes, KeysInOrder, IOAssumption
<1>5. Kept = <<Head(rxFifo)>>
  BY <1>3, <1>4 DEF Kept, Push
<1>6. receive_buffer' = <<>> /\ given' \in Seq(Nat)
  BY <1>1, <1>3, <1>4, <1>5
<1>7. read' = given' \o receive_buffer'
  BY <1>1, <1>3, <1>4, Moves
<1>8. rx_waiting_tasks' \in Seq(Readers) /\ Len(rx_waiting_tasks') <= WAITING_SIZE
  <2>1. rx_waiting_tasks \in Seq(Readers) /\ Len(rx_waiting_tasks) <= WAITING_SIZE /\ WAITING_SIZE \in Nat
    BY DEF IOInv, Shapes, TypeOK, IOAssumption
  <2>2. /\ Tail(rx_waiting_tasks) \in Seq(Readers) /\ Len(rx_waiting_tasks) \in Nat
        /\ Len(Tail(rx_waiting_tasks)) = Len(rx_waiting_tasks) - 1
    BY <1>1, <2>1
  <2> QED
    BY <1>1, <2>1, <2>2
<1>9. Len(receive_buffer') <= RECEIVE_SIZE /\ receive_buffer' \in Seq(Nat)
  BY <1>4, <1>6
<1>10. TypeOK' /\ Shapes'
  BY <1>1, <1>2, <1>3, <1>6, <1>8, <1>9 DEF IOInv, TypeOK, Shapes
<1>11. TextsInOrder' /\ KeysInOrder'
  BY <1>1, <1>2, <1>3, <1>6, <1>7 DEF IOInv, TextsInOrder, KeysInOrder
<1> QED
  BY <1>3, <1>10, <1>11 DEF IOInv

LEMMA KeptKeeps ==
  ASSUME IOInv, IOAssumption, RTM_NOTIFIER_Kept
  PROVE  IOInv'
<1>1. /\ ReadsKey /\ rx_waiting_tasks = <<>> /\ receive_buffer' = Kept
      /\ UNCHANGED <<transmit_buffer, rx_waiting_tasks, awaiting_tx, tx, clientVars, txFifo, typed,
                     taken, shown, given>>
  BY DEF RTM_NOTIFIER_Kept
<1>2. server' = "writing" /\ answering' = RxNotifier /\ rx' = "reply_blocked"
  BY <1>1 DEF ReadsKey, Served
<1>3. /\ inbox' \in Seq(Messages) /\ server = "receiving"
      /\ rxFifo' \in Seq(Nat) /\ Len(rxFifo') <= FIFO_SIZE
      /\ Kept \in Seq(Nat) /\ Len(Kept) <= RECEIVE_SIZE /\ Kept # <<>>
      /\ read' \in Seq(Nat) /\ read' = given \o Kept
      /\ RequestsKnown' /\ TxWaits'
  BY <1>1, ReadsKeyKeeps
<1>4. TypeOK' /\ Shapes'
  BY <1>1, <1>2, <1>3 DEF IOInv, TypeOK, Shapes, clientVars
<1>5. TextsInOrder' /\ KeysInOrder'
  BY <1>1, <1>2, <1>3 DEF IOInv, TextsInOrder, KeysInOrder
<1> QED
  BY <1>3, <1>4, <1>5 DEF IOInv

-----------------------------------------------------------------------------
(* The loop that writes.                                                   *)

LEMMA WriteKeeps ==
  ASSUME IOInv, IOAssumption, Write
  PROVE  IOInv'
<1>1. /\ server = "writing" /\ transmit_buffer # <<>> /\ Len(txFifo) < FIFO_SIZE
      /\ transmit_buffer' = Tail(transmit_buffer)
      /\ txFifo' = Append(txFifo, Head(transmit_buffer))
      /\ shown' = Append(shown, Head(transmit_buffer))
      /\ UNCHANGED <<inbox, server, answering, receive_buffer, rx_waiting_tasks, awaiting_tx, tx, rx,
                     clientVars, rxFifo, typed, taken, read, given>>
  BY DEF Write
<1>2. /\ transmit_buffer \in Seq(Nat) /\ shown \in Seq(Nat) /\ txFifo \in Seq(Nat)
      /\ Len(transmit_buffer) <= MAX_QUEUE_SIZE /\ MAX_QUEUE_SIZE \in Nat /\ FIFO_SIZE \in Nat
  BY DEF IOInv, Shapes, TypeOK, IOAssumption
<1>3. /\ Head(transmit_buffer) \in Nat /\ Tail(transmit_buffer) \in Seq(Nat)
      /\ Len(Tail(transmit_buffer)) = Len(transmit_buffer) - 1
      /\ Append(shown, Head(transmit_buffer)) \in Seq(Nat)
      /\ Append(shown, Head(transmit_buffer)) \o Tail(transmit_buffer) = shown \o transmit_buffer
  BY <1>1, <1>2, Moves, Zenon
<1>4. /\ txFifo' \in Seq(Nat) /\ Len(txFifo') <= FIFO_SIZE
      /\ transmit_buffer' \in Seq(Nat) /\ Len(transmit_buffer') <= MAX_QUEUE_SIZE
      /\ shown' \in Seq(Nat)
  <2>1. Len(txFifo') = Len(txFifo) + 1 /\ txFifo' \in Seq(Nat) /\ Len(txFifo) \in Nat /\ Len(transmit_buffer) \in Nat
    BY <1>1, <1>2, <1>3
  <2> QED
    BY <1>1, <1>2, <1>3, <2>1
<1>5. RequestsKnown'
  <2>1. \A i \in DOMAIN inbox : Known(inbox[i])' <=> Known(inbox[i])
    BY <1>1 DEF Known
  <2> QED
    BY <1>1, <2>1 DEF IOInv, RequestsKnown
<1>6. TypeOK' /\ Shapes' /\ TxWaits'
  BY <1>1, <1>4 DEF IOInv, TypeOK, Shapes, TxWaits, clientVars
<1>7. TextsInOrder' /\ KeysInOrder'
  BY <1>1, <1>3 DEF IOInv, TextsInOrder, KeysInOrder
<1> QED
  BY <1>5, <1>6, <1>7 DEF IOInv

LEMMA LetTxGoKeeps ==
  ASSUME IOInv, IOAssumption, LetTxGo
  PROVE  IOInv'
<1>1. /\ server = "writing" /\ ~awaiting_tx /\ awaiting_tx' = TRUE
      /\ UNCHANGED <<inbox, answering, transmit_buffer, receive_buffer, rx_waiting_tasks, rx,
                     clientVars, uart, history>>
  BY DEF LetTxGo
<1>2. tx = "reply_blocked"
  BY <1>1 DEF IOInv, TxWaits
<1>3. tx' = "awaiting" /\ server' = server
  BY <1>2 DEF LetTxGo
<1>4. RequestsKnown'
  <2>1. \A i \in DOMAIN inbox : Known(inbox[i])' <=> Known(inbox[i])
    BY <1>1 DEF Known
  <2> QED
    BY <1>1, <2>1 DEF IOInv, RequestsKnown, uart
<1>5. TypeOK' /\ Shapes' /\ TxWaits'
  BY <1>1, <1>3 DEF IOInv, TypeOK, Shapes, TxWaits, clientVars, uart, history
<1>6. TextsInOrder' /\ KeysInOrder'
  BY <1>1, <1>3 DEF IOInv, TextsInOrder, KeysInOrder, history
<1> QED
  BY <1>4, <1>5, <1>6 DEF IOInv

LEMMA AnswerKeeps ==
  ASSUME IOInv, IOAssumption, Answer
  PROVE  IOInv'
<1>1. /\ server = "writing" /\ transmit_buffer = <<>> /\ server' = "receiving" /\ answering' = Nobody
      /\ rx' = IF answering = RxNotifier THEN "awaiting" ELSE rx
      /\ blocked' = blocked \ {answering}
      /\ UNCHANGED <<inbox, transmit_buffer, receive_buffer, rx_waiting_tasks, awaiting_tx, tx,
                     calls, uart, history>>
  BY DEF Answer
<1>2. Nobody # RxNotifier
  BY DEF IOAssumption
<1>3. RequestsKnown'
  <2>1. \A i \in DOMAIN inbox : Known(inbox[i])' <=> Known(inbox[i])
    BY <1>1 DEF Known
  <2>2. \A i \in DOMAIN inbox : inbox[i].type = "RTM_NOTIFIER" => rx' = "send_blocked"
    BY <1>1 DEF IOInv, RequestsKnown
  <2> QED
    BY <1>1, <1>2, <2>1, <2>2 DEF IOInv, RequestsKnown, uart
<1>4. TypeOK' /\ Shapes' /\ TxWaits'
  BY <1>1 DEF IOInv, TypeOK, Shapes, TxWaits, uart, history
<1>5. TextsInOrder' /\ KeysInOrder'
  BY <1>1 DEF IOInv, TextsInOrder, KeysInOrder, history
<1> QED
  BY <1>3, <1>4, <1>5 DEF IOInv

-----------------------------------------------------------------------------
(* The theorems.                                                           *)

LEMMA StepKeeps ==
  ASSUME IOAssumption, IOInv, [Next]_vars
  PROVE  IOInv'
<1>1. CASE UNCHANGED vars
  <2>1. \A i \in DOMAIN inbox : Known(inbox[i])' <=> Known(inbox[i])
    BY <1>1 DEF Known, vars
  <2>2. RequestsKnown'
    BY <1>1, <2>1 DEF IOInv, RequestsKnown, vars, serverVars, uart
  <2> QED
    BY <1>1, <2>2 DEF IOInv, TypeOK, Shapes, TxWaits, TextsInOrder, KeysInOrder,
       vars, serverVars, clientVars, uart, history
<1>2. ASSUME NEW w \in Writers, NEW text \in Texts, Puts(w, text) PROVE IOInv'
  BY <1>2, CallKeeps
<1>3. ASSUME NEW r \in Readers, Getc(r) PROVE IOInv'
  BY <1>3, CallKeeps
<1>4. CASE Serve
  BY <1>4, GetcNowKeeps, GetcLaterKeeps, PutsKeeps, TxNotifierKeeps, WaitedKeeps, KeptKeeps,
     WriteKeeps, LetTxGoKeeps, AnswerKeeps DEF Serve
<1> QED
  BY <1>1, <1>2, <1>3, <1>4, UartKeeps, NotifierKeeps DEF Next

\* The inductive invariant, for any numbers of tasks and any sizes of the buffers.
THEOREM ConsoleInvariant ==
  ASSUME IOAssumption
  PROVE  Spec => []IOInv
<1>1. Init => IOInv
  BY InvInit
<1>2. IOInv /\ [Next]_vars => IOInv'
  BY StepKeeps
<1> QED
  BY <1>1, <1>2, PTL DEF Spec

\* Texts are shown whole and in the order of the calls (the loop that writes
\* before a call is answered).
THEOREM TextsKeepOrder ==
  ASSUME IOAssumption
  PROVE  Spec => []TextsInOrder
<1>1. IOInv => TextsInOrder
  BY DEF IOInv
<1> QED
  BY <1>1, ConsoleInvariant, PTL

\* Keys go to readers in the order of typing, and no reader waits while a key is
\* kept.
THEOREM KeysKeepOrder ==
  ASSUME IOAssumption
  PROVE  Spec => []KeysInOrder
<1>1. IOInv => KeysInOrder
  BY DEF IOInv
<1> QED
  BY <1>1, ConsoleInvariant, PTL

\* The server never answers the transmit notifier while that awaits the UART.
THEOREM ServerNotStranded ==
  ASSUME IOAssumption
  PROVE  Spec => []NeverStranded
<1>1. IOInv => NeverStranded
  BY DEF IOInv, TxWaits, NeverStranded
<1> QED
  BY <1>1, ConsoleInvariant, PTL
=============================================================================
