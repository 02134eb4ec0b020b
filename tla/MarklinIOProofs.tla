-------------------------- MODULE MarklinIOProofs --------------------------
(***************************************************************************)
(* The Marklin server with any number of switches, trains and sensors, any *)
(* room in its buffer, and whatever the world around it is like.           *)
(***************************************************************************)
EXTENDS MarklinIO, SequenceTheorems, FiniteSetTheorems, WellFoundedInduction, TLAPS

-----------------------------------------------------------------------------
(* The invariant.                                                          *)

\* What waits for the server.
Commands == [addr : Addrs, id : Nat]

TxMsg == {[type |-> "TX_NOTIFIER"]}
RxMsg == {[type |-> "RX_NOTIFIER"]}
SwitchMsg(a) == {[type |-> "SWITCH_NOTIFIER", addr |-> a]}
CmdMsg(a) == {m \in [type : {"SEND_CMD"}, cmd : Commands] : m.cmd.addr = a}

Message ==
  TxMsg \cup RxMsg \cup (UNION {SwitchMsg(a) : a \in SwitchAddrs})
    \cup [type : {"SEND_CMD"}, cmd : Commands]
    \cup [type : {"SENSOR_MESSENGER"}, train : TrainSet]
    \cup [type : {"SENSOR_LISTENER"}, train : TrainSet, first : Sensors, second : Sensors \cup {NoSensor}]

Among(q, M) == \E i \in DOMAIN q : q[i] \in M
Once(q, M) == \A i, j \in DOMAIN q : q[i] \in M /\ q[j] \in M => i = j

\* The bytes, and what is still to be sent: only a poll that is about to be written
\* is in the buffer, alone.
Bytes == (Commands \X {1, 2}) \cup {RESET}

BytesKnown ==
  /\ inbox \in Seq(Message)
  /\ wire \in Seq(Bytes) /\ accepted \in Seq(Commands) /\ dropped \in BOOLEAN
  /\ line \in Bytes \cup {POLL, None}
  /\ \/ transmit_buffer \in Seq(Bytes)
     \/ transmit_buffer = <<POLL>> /\ isReceiving /\ server = "put"
  /\ server = "put" => transmit_buffer # <<>>

\* From the time the line is found clear until a byte is written on it the line
\* stays so; the notifier does not look again before that byte has been taken.
LineKnown ==
  /\ server = "put" => /\ tx \in {"sent", "to_low", "low"} /\ cts = 1 /\ line = None
  /\ tx \in {"sent", "to_low"} => server = "put"
  /\ line # None => tx = "low" /\ cts = 1
  /\ tx \in {"send", "server"} => cts = 1
  /\ server = "receive" /\ canTransmit => tx = "server" /\ ~Among(inbox, TxMsg)
  /\ Among(inbox, TxMsg) => tx = "server"
  /\ Once(inbox, TxMsg)

\* A poll is about to be written, on the line, being answered, or its answer waits
\* for the server: one of these, and only while the server knows.
AnswerKnown ==
  /\ ~isReceiving => answer = 0 /\ ~Among(inbox, RxMsg) /\ line # POLL
  /\ line = POLL => answer = 0 /\ ~Among(inbox, RxMsg) /\ transmit_buffer # <<POLL>> /\ rx = 0
  /\ answer > 0 => /\ ~Among(inbox, RxMsg) /\ transmit_buffer # <<POLL>>
                   /\ rx + answer = BYTES
  /\ Among(inbox, RxMsg) => rx = -1 /\ transmit_buffer # <<POLL>>
  /\ Once(inbox, RxMsg)
  /\ answering # Nobody => server = "put"
  /\ answering = RxNotifier => rx = -1 /\ ~Among(inbox, RxMsg)
  /\ server # "stranded" /\ ~isReceiving => rx = 0 \/ answering = RxNotifier
  /\ transmit_buffer = <<POLL>> => rx = 0 \/ answering = RxNotifier
  /\ server = "put" /\ isReceiving => transmit_buffer = <<POLL>>

\* What has been sent and is to be sent, and where in it a command begins, which
\* is for sequence_length_buffer and count to tell.
Unpolled(b) == IF b = <<POLL>> THEN <<>> ELSE b

InOrder(acc, bytes) ==
  /\ Len(bytes) = 2 * Len(acc) + 1 /\ bytes[1] = RESET
  /\ \A i \in DOMAIN acc : bytes[2 * i] = <<acc[i], 1>> /\ bytes[2 * i + 1] = <<acc[i], 2>>

Twos(l, n) == l \in Seq({1, 2}) /\ Len(l) = n /\ \A i \in DOMAIN l : l[i] = 2

Aligned(acc, w, b, l, c, length) ==
  \/ /\ b = <<POLL>> /\ Len(w) = 2 * Len(acc) + 1
     /\ c = 0 /\ l = <<1>>
  \/ /\ b # <<POLL>> /\ Len(w) = 0 /\ c = 0
     /\ l \in Seq({1, 2}) /\ Len(l) = Len(acc) + 1 /\ l[1] = 1 /\ Twos(Tail(l), Len(acc))
  \/ /\ b # <<POLL>> /\ c = 0
     /\ \E k \in 0 .. Len(acc) : Len(w) = 2 * k + 1 /\ Twos(l, Len(acc) - k)
  \/ /\ b # <<POLL>> /\ c = 1 /\ length = 2
     /\ \E k \in 1 .. Len(acc) : Len(w) = 2 * k /\ Twos(l, Len(acc) - k)

OrderKnown ==
  ~dropped => /\ InOrder(accepted, wire \o Unpolled(transmit_buffer))
              /\ Aligned(accepted, wire, transmit_buffer, sequence_length_buffer, count, sequence_length)

\* A switch has one thing going on at a time: a command that waits for the server,
\* one that has yet to be sent, its notifier's delay, its notifier's message.
Open(a, acc, w) == {i \in DOMAIN acc : acc[i].addr = a /\ 2 * i + 1 > Len(w)}

SwitchFree(a) ==
  /\ switch_notifier[a] = "waiting" => owed[a] = 0 /\ ~Among(inbox, SwitchMsg(a))
  /\ switch_notifier[a] = "delay" => owed[a] = 1 /\ ~Among(inbox, SwitchMsg(a))
  /\ switch_notifier[a] = "sending" => owed[a] = 0
  /\ switch_notifier[a] # "waiting" => ~Among(inbox, CmdMsg(a)) /\ Open(a, accepted, wire) = {}
  /\ Among(inbox, CmdMsg(a)) => Open(a, accepted, wire) = {}
  /\ Once(inbox, CmdMsg(a)) /\ Once(inbox, SwitchMsg(a))
  /\ \A i, j \in Open(a, accepted, wire) : i = j

SwitchesKnown ==
  world.spaced /\ ~dropped => clock /\ server # "stranded" /\ \A a \in SwitchAddrs : SwitchFree(a)

Messengers == [created : BOOLEAN, sensor_idx : Sensors \cup {NoSensor},
               sensor_idx_safety : Sensors \cup {NoSensor}, sent_reply : BOOLEAN]

\* A train whose messenger is held has been given one, and every trigger uses up a
\* pair.
Watched(m, tk, tl, ask) ==
  \A t \in TrainSet :
    /\ m[t].created /\ ~m[t].sent_reply => tk[t] = "waiting"
    /\ tl[t] + (IF m[t].sensor_idx # NoSensor THEN 1 ELSE 0) <= ask[t]

WatchKnown == Watched(sensor_messenger, task, tells, asked) /\ TriggeredIsFresh

IOInv ==
  TypeOK /\ BytesKnown /\ LineKnown /\ AnswerKnown /\ OrderKnown /\ SwitchesKnown /\ WatchKnown

-----------------------------------------------------------------------------
(* Bytes, messages and sequences.                                          *)

LEMMA ByteFacts ==
  /\ POLL \notin Bytes /\ None \notin Bytes /\ POLL # None /\ RESET \in Bytes
  /\ \A b \in Bytes : b # POLL /\ b # None
  /\ \A c \in Commands : <<c, 1>> \in Bytes /\ <<c, 2>> \in Bytes
  /\ \A c \in Commands : <<c, 2>> # RESET
<1>1. \A c \in Commands : c.addr \in Nat
  BY MarklinAssumption DEF Commands, Addrs
<1>2. POLL[1].addr = -2 /\ None[1].addr = -1 /\ RESET[1].addr = -3
  BY DEF POLL, None, RESET, Single
<1>3. \A b \in Bytes : b = RESET \/ b[1].addr \in Nat
  BY <1>1 DEF Bytes
<1>4. RESET \in Bytes /\ POLL # None /\ POLL # RESET /\ None # RESET
  BY <1>2 DEF Bytes
<1>5. \A b \in Bytes : b # POLL /\ b # None
  BY <1>2, <1>3, <1>4
<1>6. \A c \in Commands : <<c, 1>> \in Bytes /\ <<c, 2>> \in Bytes /\ <<c, 2>> # RESET
  BY <1>1, <1>2 DEF Bytes
<1> QED
  BY <1>4, <1>5, <1>6

LEMMA MessageFacts ==
  /\ \A m \in TxMsg : m.type = "TX_NOTIFIER"
  /\ \A m \in RxMsg : m.type = "RX_NOTIFIER"
  /\ \A a : \A m \in SwitchMsg(a) : m.type = "SWITCH_NOTIFIER" /\ m.addr = a
  /\ \A a : \A m \in CmdMsg(a) : m.type = "SEND_CMD" /\ m.cmd.addr = a
  BY DEF TxMsg, RxMsg, SwitchMsg, CmdMsg

\* The messages of each type.
LEMMA TypesOfMessages ==
  ASSUME NEW m \in Message
  PROVE  /\ m.type = "TX_NOTIFIER" => m \in TxMsg
         /\ m.type = "RX_NOTIFIER" => m \in RxMsg
         /\ m.type = "SWITCH_NOTIFIER" => m.addr \in SwitchAddrs /\ m \in SwitchMsg(m.addr)
         /\ m.type = "SEND_CMD" => m.cmd \in Commands /\ m \in CmdMsg(m.cmd.addr)
         /\ m.type = "SENSOR_MESSENGER" => m.train \in TrainSet
         /\ m.type = "SENSOR_LISTENER" => /\ m.train \in TrainSet /\ m.first \in Sensors
                                          /\ m.second \in Sensors \cup {NoSensor}
  BY DEF Message, TxMsg, RxMsg, SwitchMsg, CmdMsg

\* What joins the queue is among it, once if it was not before.
LEMMA AppendMail ==
  ASSUME NEW q \in Seq(Message), NEW m \in Message, NEW M
  PROVE  /\ Append(q, m) \in Seq(Message)
         /\ Among(Append(q, m), M) <=> Among(q, M) \/ m \in M
         /\ Once(q, M) /\ (m \in M => ~Among(q, M)) => Once(Append(q, m), M)
<1> HIDE DEF Message
<1>1. PICK p : p = Append(q, m)
  OBVIOUS
<1>2. /\ p \in Seq(Message) /\ Len(p) = Len(q) + 1 /\ Len(q) \in Nat
      /\ p[Len(q) + 1] = m /\ \A i \in 1 .. Len(q) : p[i] = q[i]
  BY <1>1
<1>3. DOMAIN p = 1 .. Len(q) + 1 /\ DOMAIN q = 1 .. Len(q)
  BY <1>2
<1>4. Among(p, M) <=> Among(q, M) \/ m \in M
  BY <1>2, <1>3 DEF Among
<1>5. ASSUME Once(q, M), m \in M => ~Among(q, M) PROVE Once(p, M)
  BY <1>2, <1>3, <1>5 DEF Among, Once
<1> QED
  BY <1>1, <1>2, <1>4, <1>5

\* What leaves it was its head.
LEMMA TailMail ==
  ASSUME NEW q \in Seq(Message), q # <<>>, NEW M
  PROVE  /\ Tail(q) \in Seq(Message) /\ Head(q) \in Message
         /\ Among(Tail(q), M) => Among(q, M)
         /\ Head(q) \in M => Among(q, M)
         /\ Head(q) \notin M => (Among(q, M) => Among(Tail(q), M))
         /\ Once(q, M) => Once(Tail(q), M) /\ (Head(q) \in M => ~Among(Tail(q), M))
<1> HIDE DEF Message
<1>1. PICK p : p = Tail(q)
  OBVIOUS
<1>2. /\ p \in Seq(Message) /\ Len(q) \in Nat \ {0} /\ Len(p) = Len(q) - 1
      /\ Head(q) = q[1] /\ \A i \in 1 .. Len(p) : p[i] = q[i + 1]
  BY <1>1
<1>3. DOMAIN p = 1 .. Len(q) - 1 /\ DOMAIN q = 1 .. Len(q) /\ q[1] \in Message
  BY <1>2
<1>4. Among(p, M) => Among(q, M)
  <2> SUFFICES ASSUME NEW i \in DOMAIN p, p[i] \in M PROVE Among(q, M)
    BY DEF Among
  <2>1. i + 1 \in DOMAIN q /\ q[i + 1] \in M
    BY <1>2, <1>3
  <2> QED
    BY <2>1 DEF Among
<1>5. q[1] \in M => Among(q, M)
  BY <1>2, <1>3 DEF Among
<1>6. q[1] \notin M /\ Among(q, M) => Among(p, M)
  <2> SUFFICES ASSUME q[1] \notin M, NEW i \in DOMAIN q, q[i] \in M PROVE Among(p, M)
    BY DEF Among
  <2>1. i - 1 \in DOMAIN p /\ p[i - 1] = q[i]
    BY <1>2, <1>3
  <2> QED
    BY <2>1 DEF Among
<1>7. ASSUME Once(q, M) PROVE Once(p, M) /\ (q[1] \in M => ~Among(p, M))
  <2>1. ASSUME NEW i \in DOMAIN p, NEW j \in DOMAIN p, p[i] \in M, p[j] \in M PROVE i = j
    <3>1. i + 1 \in DOMAIN q /\ j + 1 \in DOMAIN q /\ q[i + 1] \in M /\ q[j + 1] \in M
      BY <1>2, <1>3, <2>1
    <3>2. i + 1 = j + 1
      BY <1>7, <3>1 DEF Once
    <3> QED
      BY <1>2, <1>3, <3>2
  <2>2. ASSUME NEW i \in DOMAIN p, p[i] \in M, q[1] \in M PROVE FALSE
    <3>1. i + 1 \in DOMAIN q /\ q[i + 1] \in M /\ 1 \in DOMAIN q /\ i + 1 # 1
      BY <1>2, <1>3, <2>2
    <3> QED
      BY <1>7, <2>2, <3>1 DEF Once
  <2> QED
    BY <2>1, <2>2 DEF Once, Among
<1> QED
  BY <1>1, <1>2, <1>3, <1>4, <1>5, <1>6, <1>7

\* What two sequences are together, by place.
LEMMA Joined ==
  ASSUME NEW w \in Seq(Bytes), NEW b \in Seq(Bytes), NEW x, x = w \o b
  PROVE  /\ x \in Seq(Bytes) /\ Len(w) \in Nat /\ Len(b) \in Nat /\ Len(x) = Len(w) + Len(b)
         /\ \A i \in 1 .. Len(w) : x[i] = w[i]
         /\ \A i \in 1 .. Len(b) : x[Len(w) + i] = b[i]
<1> HIDE DEF Bytes
<1>1. Len(w) \in Nat /\ Len(b) \in Nat
  OBVIOUS
<1>2. /\ x \in Seq(Bytes) /\ Len(x) = Len(w) + Len(b)
      /\ \A i \in 1 .. Len(w) + Len(b) : x[i] = IF i <= Len(w) THEN w[i] ELSE b[i - Len(w)]
  BY ConcatProperties, Zenon
<1>3. \A i \in 1 .. Len(w) : x[i] = w[i]
  BY <1>1, <1>2
<1>4. ASSUME NEW i \in 1 .. Len(b) PROVE x[Len(w) + i] = b[i]
  <2>1. Len(w) + i \in 1 .. Len(w) + Len(b) /\ ~(Len(w) + i <= Len(w)) /\ (Len(w) + i) - Len(w) = i
    BY <1>1
  <2> QED
    BY <1>2, <2>1
<1> QED
  BY <1>1, <1>2, <1>3, <1>4

\* A byte that goes from one end to the other leaves the whole as it is.
LEMMA MoveByte ==
  ASSUME NEW w \in Seq(Bytes), NEW b \in Seq(Bytes), b # <<>>
  PROVE  /\ Append(w, Head(b)) \in Seq(Bytes) /\ Tail(b) \in Seq(Bytes) /\ Head(b) \in Bytes
         /\ Append(w, Head(b)) \o Tail(b) = w \o b
         /\ Head(b) = (w \o b)[Len(w) + 1] /\ Len(w \o b) = Len(w) + Len(b)
         /\ Len(Append(w, Head(b))) = Len(w) + 1 /\ Len(b) \in Nat \ {0} /\ Len(w) \in Nat
<1> HIDE DEF Bytes
<1>1. PICK v, c : v = Append(w, Head(b)) /\ c = Tail(b)
  OBVIOUS
<1>2. /\ v \in Seq(Bytes) /\ c \in Seq(Bytes) /\ Head(b) \in Bytes /\ Head(b) = b[1]
      /\ Len(v) = Len(w) + 1 /\ Len(c) = Len(b) - 1 /\ Len(b) \in Nat \ {0} /\ Len(w) \in Nat
      /\ \A i \in 1 .. Len(w) : v[i] = w[i]
      /\ v[Len(w) + 1] = b[1] /\ \A i \in 1 .. Len(c) : c[i] = b[i + 1]
  BY <1>1
<1>3. PICK x, y : x = v \o c /\ y = w \o b
  OBVIOUS
<1>4. /\ x \in Seq(Bytes) /\ Len(x) = Len(w) + Len(b)
      /\ \A i \in 1 .. Len(v) : x[i] = v[i]
      /\ \A i \in 1 .. Len(c) : x[Len(v) + i] = c[i]
  <2>1. v \in Seq(Bytes) /\ c \in Seq(Bytes) /\ x = v \o c
    BY <1>2, <1>3
  <2>2. /\ x \in Seq(Bytes) /\ Len(x) = Len(v) + Len(c)
        /\ \A i \in 1 .. Len(v) : x[i] = v[i]
        /\ \A i \in 1 .. Len(c) : x[Len(v) + i] = c[i]
    BY <2>1, Joined
  <2> QED
    BY <1>2, <2>2
<1>5. /\ y \in Seq(Bytes) /\ Len(y) = Len(w) + Len(b)
      /\ \A i \in 1 .. Len(w) : y[i] = w[i]
      /\ \A i \in 1 .. Len(b) : y[Len(w) + i] = b[i]
  BY <1>3, Joined
<1>6. ASSUME NEW i \in 1 .. Len(w) + Len(b) PROVE x[i] = y[i]
  <2>1. CASE i <= Len(w)
    BY <1>2, <1>4, <1>5, <2>1
  <2>2. CASE i = Len(w) + 1
    <3>1. i \in 1 .. Len(v) /\ 1 \in 1 .. Len(b)
      BY <1>2, <2>2
    <3> QED
      BY <1>2, <1>4, <1>5, <2>2, <3>1
  <2>3. CASE i > Len(w) + 1
    <3>1. PICK k \in 1 .. Len(c) : i = Len(v) + k
      <4>1. i - Len(v) \in 1 .. Len(c) /\ i = Len(v) + (i - Len(v))
        BY <1>2, <2>3
      <4> QED
        BY <4>1
    <3>2. k + 1 \in 1 .. Len(b) /\ i = Len(w) + (k + 1)
      BY <1>2, <3>1
    <3> QED
      BY <1>2, <1>4, <1>5, <3>1, <3>2, ZenonT(40)
  <2> QED
    BY <1>2, <2>1, <2>2, <2>3
<1>7. x = y
  BY <1>4, <1>5, <1>6, SeqEqual
<1>8. b[1] = y[Len(w) + 1]
  BY <1>2, <1>5
<1> QED
  BY <1>1, <1>2, <1>3, <1>5, <1>7, <1>8

\* A command adds two bytes at the end.
LEMMA TwoMore ==
  ASSUME NEW acc \in Seq(Commands), NEW w \in Seq(Bytes), NEW b \in Seq(Bytes), NEW cmd \in Commands,
         InOrder(acc, w \o b)
  PROVE  /\ Append(Append(b, <<cmd, 1>>), <<cmd, 2>>) \in Seq(Bytes)
         /\ InOrder(Append(acc, cmd), w \o Append(Append(b, <<cmd, 1>>), <<cmd, 2>>))
<1> HIDE DEF Bytes, Commands
<1>1. <<cmd, 1>> \in Bytes /\ <<cmd, 2>> \in Bytes
  BY ByteFacts
<1>2. PICK c : c = Append(Append(b, <<cmd, 1>>), <<cmd, 2>>)
  OBVIOUS
<1>3. /\ c \in Seq(Bytes) /\ Len(c) = Len(b) + 2 /\ Len(b) \in Nat /\ Len(w) \in Nat
      /\ c[Len(b) + 1] = <<cmd, 1>> /\ c[Len(b) + 2] = <<cmd, 2>>
      /\ \A i \in 1 .. Len(b) : c[i] = b[i]
  BY <1>1, <1>2
<1>4. PICK x, y : x = w \o b /\ y = w \o c
  OBVIOUS
<1>5. /\ Len(x) = Len(w) + Len(b)
      /\ \A i \in 1 .. Len(w) : x[i] = w[i]
      /\ \A i \in 1 .. Len(b) : x[Len(w) + i] = b[i]
  BY <1>4, Joined
<1>6. /\ Len(y) = Len(w) + Len(c)
      /\ \A i \in 1 .. Len(w) : y[i] = w[i]
      /\ \A i \in 1 .. Len(c) : y[Len(w) + i] = c[i]
  BY <1>3, <1>4, Joined
<1>7. ASSUME NEW i \in 1 .. Len(x) PROVE y[i] = x[i]
  <2>1. CASE i <= Len(w)
    BY <1>3, <1>5, <1>6, <2>1
  <2>2. CASE i > Len(w)
    <3>1. i - Len(w) \in 1 .. Len(b) /\ i = Len(w) + (i - Len(w))
      BY <1>3, <1>5, <2>2
    <3>2. PICK k \in 1 .. Len(b) : i = Len(w) + k
      BY <3>1
    <3>3. k \in 1 .. Len(c)
      BY <1>3, <3>2
    <3> QED
      BY <1>3, <1>5, <1>6, <3>2, <3>3
  <2> QED
    BY <1>3, <2>1, <2>2
<1>8. y[Len(x) + 1] = <<cmd, 1>> /\ y[Len(x) + 2] = <<cmd, 2>>
  <2>1. Len(x) + 1 = Len(w) + (Len(b) + 1) /\ Len(x) + 2 = Len(w) + (Len(b) + 2)
    BY <1>3, <1>5
  <2>2. Len(b) + 1 \in 1 .. Len(c) /\ Len(b) + 2 \in 1 .. Len(c)
    BY <1>3
  <2> QED
    BY <1>3, <1>6, <2>1, <2>2
<1>9. PICK ac : ac = Append(acc, cmd)
  OBVIOUS
<1>10. /\ Len(ac) = Len(acc) + 1 /\ Len(acc) \in Nat /\ ac[Len(acc) + 1] = cmd
       /\ \A i \in 1 .. Len(acc) : ac[i] = acc[i]
       /\ DOMAIN ac = 1 .. Len(acc) + 1 /\ DOMAIN acc = 1 .. Len(acc)
  BY <1>9
<1>11. /\ Len(x) = 2 * Len(acc) + 1 /\ x[1] = RESET
       /\ \A i \in 1 .. Len(acc) : x[2 * i] = <<acc[i], 1>> /\ x[2 * i + 1] = <<acc[i], 2>>
  BY <1>4, <1>10 DEF InOrder
<1>12. Len(y) = 2 * Len(ac) + 1 /\ y[1] = RESET
  <2>1. Len(y) = 2 * Len(ac) + 1
    BY <1>3, <1>5, <1>6, <1>10, <1>11
  <2>2. 1 \in 1 .. Len(x)
    BY <1>10, <1>11
  <2> QED
    BY <1>7, <1>11, <2>1, <2>2
<1>13. ASSUME NEW i \in DOMAIN ac PROVE y[2 * i] = <<ac[i], 1>> /\ y[2 * i + 1] = <<ac[i], 2>>
  <2>1. CASE i \in 1 .. Len(acc)
    <3>1. 2 * i \in 1 .. Len(x) /\ 2 * i + 1 \in 1 .. Len(x)
      BY <1>10, <1>11, <2>1
    <3> QED
      BY <1>7, <1>10, <1>11, <2>1, <3>1
  <2>2. CASE i = Len(acc) + 1
    <3>1. 2 * i = Len(x) + 1 /\ 2 * i + 1 = Len(x) + 2
      BY <1>10, <1>11, <2>2
    <3> QED
      BY <1>8, <1>10, <2>2, <3>1
  <2> QED
    BY <1>10, <2>1, <2>2
<1> QED
  BY <1>2, <1>3, <1>4, <1>9, <1>12, <1>13 DEF InOrder

-----------------------------------------------------------------------------
(* The end of a handler.                                                   *)

\* Nothing is sent, or a byte is about to be, or a poll.
Keeps(b, l, can, recv) ==
  /\ ~can \/ recv
  /\ server' = "receive" /\ tx' = tx
  /\ transmit_buffer' = b /\ sequence_length_buffer' = l /\ isReceiving' = recv /\ canTransmit' = can

Sends(b, l, can, recv) ==
  /\ can /\ ~recv /\ b # <<>>
  /\ server' = "put" /\ tx' = "sent"
  /\ transmit_buffer' = b /\ sequence_length_buffer' = l /\ isReceiving' = FALSE /\ canTransmit' = TRUE

Polls(b, l, can, recv) ==
  /\ can /\ ~recv /\ b = <<>>
  /\ server' = "put" /\ tx' = "sent"
  /\ transmit_buffer' = <<POLL>> /\ sequence_length_buffer' = Append(l, 1)
  /\ isReceiving' = TRUE /\ canTransmit' = TRUE

LEMMA TransmitsFacts ==
  ASSUME NEW b, NEW l, NEW can \in BOOLEAN, NEW recv \in BOOLEAN, can => tx = "server",
         Transmits(b, l, can, recv)
  PROVE  /\ Keeps(b, l, can, recv) \/ Sends(b, l, can, recv) \/ Polls(b, l, can, recv)
         /\ UNCHANGED <<sequence_length, count>>
<1>1. CASE ~can \/ recv
  BY <1>1 DEF Transmits, Keeps
<1>2. CASE can /\ ~recv /\ b # <<>>
  BY <1>2 DEF Transmits, Sends
<1>3. CASE can /\ ~recv /\ b = <<>>
  BY <1>3 DEF Transmits, Polls
<1> QED
  BY <1>1, <1>2, <1>3

\* Every handler ends alike.  What it has made of the buffer and of the two flags
\* is b, l, can and recv, and who is to be answered is who.
Ending(b, l, can, recv, who) ==
  /\ server = "receive" /\ inbox # <<>> /\ inbox' = Tail(inbox)
  /\ Transmits(b, l, can, recv) /\ Answers(who)
  /\ UNCHANGED <<uart, wire>>
  /\ b \in Seq(Bytes) /\ Len(b) <= TxRoom /\ can \in BOOLEAN /\ recv \in BOOLEAN
  /\ who \in TrainSet \cup {Nobody, RxNotifier}
  /\ can => tx = "server" /\ ~Among(inbox', TxMsg)
  /\ ~recv => answer = 0 /\ ~Among(inbox', RxMsg) /\ line # POLL /\ (rx = 0 \/ who = RxNotifier)
  /\ who = RxNotifier => rx = -1 /\ ~Among(inbox', RxMsg)
  /\ accepted' \in Seq(Commands) /\ dropped' \in BOOLEAN
  /\ ~dropped' => /\ InOrder(accepted', wire \o b)
                  /\ Aligned(accepted', wire, b, l, count, sequence_length)

\* Fewer messages change nothing.
LEMMA ReceiveFacts ==
  ASSUME BytesKnown, inbox # <<>>, inbox' = Tail(inbox), NEW M
  PROVE  /\ inbox' \in Seq(Message) /\ (Among(inbox', M) => Among(inbox, M))
         /\ Once(inbox, M) => Once(inbox', M) /\ (Head(inbox) \in M => ~Among(inbox', M))
         /\ Head(inbox) \in M => Among(inbox, M)
  BY TailMail DEF BytesKnown

LEMMA SeqOfBytes ==
  ASSUME NEW b \in Seq(Bytes)
  PROVE  b # <<POLL>> /\ Unpolled(b) = b
<1>1. \A i \in DOMAIN b : b[i] # POLL
  <2>1. \A i \in DOMAIN b : b[i] \in Bytes
    <3> HIDE DEF Bytes
    <3> QED
      OBVIOUS
  <2> QED
    BY <2>1, ByteFacts
<1>2. 1 \in DOMAIN <<POLL>> /\ <<POLL>>[1] = POLL
  OBVIOUS
<1>3. b # <<POLL>>
  BY <1>1, <1>2
<1> QED
  BY <1>3 DEF Unpolled

LEMMA EndsBytes ==
  ASSUME TypeOK, BytesKnown, NEW b, NEW l, NEW can, NEW recv, NEW who, Ending(b, l, can, recv, who)
  PROVE  /\ BytesKnown' /\ server' \in {"receive", "put"} /\ Len(transmit_buffer') <= TxRoom
         /\ canTransmit' \in BOOLEAN /\ isReceiving' \in BOOLEAN /\ rx' \in -1 .. BYTES - 1
         /\ tx' \in {tx, "sent"} /\ answering' \in TrainSet \cup {Nobody, RxNotifier}
         /\ carrier' \in [TrainSet -> BOOLEAN]
<1>1. /\ Keeps(b, l, can, recv) \/ Sends(b, l, can, recv) \/ Polls(b, l, can, recv)
      /\ can \in BOOLEAN /\ recv \in BOOLEAN
  BY TransmitsFacts DEF Ending
<1>2. inbox' \in Seq(Message)
  BY ReceiveFacts DEF Ending
<1>3. Len(transmit_buffer') <= TxRoom
  <2>1. CASE transmit_buffer' = b
    BY <2>1 DEF Ending
  <2>2. CASE transmit_buffer' = <<POLL>>
    BY <2>2, MarklinAssumption
  <2> QED
    BY <1>1, <2>1, <2>2 DEF Keeps, Sends, Polls
<1>4. b \in Seq(Bytes)
  BY DEF Ending
<1> HIDE DEF Bytes
<1>7. /\ \/ transmit_buffer' \in Seq(Bytes)
         \/ transmit_buffer' = <<POLL>> /\ isReceiving' /\ server' = "put"
      /\ server' = "put" => transmit_buffer' # <<>>
      /\ server' \in {"receive", "put"} /\ tx' \in {tx, "sent"}
  <2>1. CASE Keeps(b, l, can, recv)
    BY <1>4, <2>1 DEF Keeps
  <2>2. CASE Sends(b, l, can, recv)
    BY <1>4, <2>2 DEF Sends
  <2>3. CASE Polls(b, l, can, recv)
    BY <2>3 DEF Polls
  <2> QED
    BY <1>1, <2>1, <2>2, <2>3
<1>8. canTransmit' \in BOOLEAN /\ isReceiving' \in BOOLEAN
  BY <1>1, Zenon DEF Keeps, Sends, Polls
<1>5. /\ rx' \in -1 .. BYTES - 1 /\ answering' \in TrainSet \cup {Nobody, RxNotifier}
      /\ carrier' \in [TrainSet -> BOOLEAN]
  BY MarklinAssumption DEF Ending, Answers, Freed, TypeOK
<1>6. /\ wire' \in Seq(Bytes) /\ accepted' \in Seq(Commands) /\ dropped' \in BOOLEAN
      /\ line' \in Bytes \cup {POLL, None}
  BY DEF BytesKnown, Ending, uart
<1> HIDE DEF Message, Bytes, Commands
<1> QED
  BY <1>2, <1>3, <1>5, <1>6, <1>7, <1>8 DEF BytesKnown

LEMMA EndsLine ==
  ASSUME TypeOK, BytesKnown, LineKnown,
         NEW b, NEW l, NEW can, NEW recv, NEW who, Ending(b, l, can, recv, who)
  PROVE  LineKnown'
<1>1. /\ Keeps(b, l, can, recv) \/ Sends(b, l, can, recv) \/ Polls(b, l, can, recv)
      /\ can \in BOOLEAN /\ recv \in BOOLEAN /\ server = "receive"
      /\ cts' = cts /\ line' = line /\ (can => tx = "server" /\ ~Among(inbox', TxMsg))
  BY TransmitsFacts DEF Ending, uart
<1>2. (Among(inbox', TxMsg) => Among(inbox, TxMsg)) /\ Once(inbox', TxMsg)
  BY ReceiveFacts DEF Ending, LineKnown
<1>3. CASE Keeps(b, l, can, recv)
  BY <1>1, <1>2, <1>3 DEF LineKnown, Keeps
<1>4. CASE can /\ server' = "put" /\ tx' = "sent"
  <2>1. cts = 1 /\ line = None /\ ~Among(inbox', TxMsg)
    BY <1>1, <1>4 DEF LineKnown
  <2> QED
    BY <1>1, <1>2, <1>4, <2>1 DEF LineKnown
<1> QED
  BY <1>1, <1>3, <1>4 DEF Sends, Polls

LEMMA EndsAnswer ==
  ASSUME TypeOK, BytesKnown, AnswerKnown,
         NEW b, NEW l, NEW can, NEW recv, NEW who, Ending(b, l, can, recv, who)
  PROVE  AnswerKnown'
<1>1. /\ Keeps(b, l, can, recv) \/ Sends(b, l, can, recv) \/ Polls(b, l, can, recv)
      /\ can \in BOOLEAN /\ recv \in BOOLEAN /\ server = "receive"
      /\ answer' = answer /\ line' = line /\ answering = Nobody
      /\ ~recv => answer = 0 /\ ~Among(inbox', RxMsg) /\ line # POLL /\ (rx = 0 \/ who = RxNotifier)
      /\ who = RxNotifier => rx = -1 /\ ~Among(inbox', RxMsg)
  BY TransmitsFacts DEF Ending, uart, AnswerKnown
<1>2. (Among(inbox', RxMsg) => Among(inbox, RxMsg)) /\ Once(inbox', RxMsg)
  BY ReceiveFacts DEF Ending, AnswerKnown
<1>3. b # <<POLL>>
  BY SeqOfBytes DEF Ending
<1>4. /\ answering' = IF server' = "put" THEN who ELSE Nobody
      /\ rx' = IF server' = "receive" /\ who = RxNotifier THEN 0 ELSE rx
  BY DEF Ending, Answers
<1>5. CASE Keeps(b, l, can, recv)
  <2>1. answer \in 0 .. BYTES /\ BYTES \in Nat
    BY MarklinAssumption DEF TypeOK
  <2>2. answer > 0 => who # RxNotifier
    BY <1>1, <2>1 DEF AnswerKnown
  <2>3. server' = "receive" /\ transmit_buffer' = b /\ answering' = Nobody /\ (isReceiving' <=> recv)
    BY <1>1, <1>4, <1>5, Zenon DEF Keeps
  <2>4. rx' = IF who = RxNotifier THEN 0 ELSE rx
    BY <1>4, <2>3
  <2>5. isReceiving' \/ (answer' = 0 /\ ~Among(inbox', RxMsg) /\ line' # POLL /\ rx' = 0)
    BY <1>1, <2>3, <2>4
  <2>6. line' = POLL => answer' = 0 /\ ~Among(inbox', RxMsg) /\ rx' = 0
    BY <1>1, <1>2, <2>4 DEF AnswerKnown
  <2>7. answer' > 0 => ~Among(inbox', RxMsg) /\ rx' + answer' = BYTES
    BY <1>1, <1>2, <2>2, <2>4 DEF AnswerKnown
  <2>8. Among(inbox', RxMsg) => rx' = -1
    BY <1>1, <1>2, <2>4 DEF AnswerKnown
  <2> QED
    BY <1>2, <1>3, <2>3, <2>5, <2>6, <2>7, <2>8 DEF AnswerKnown, Nobody, RxNotifier
<1>6. CASE Sends(b, l, can, recv)
  BY <1>1, <1>2, <1>3, <1>4, <1>6 DEF AnswerKnown, Sends
<1>7. CASE Polls(b, l, can, recv)
  BY <1>1, <1>2, <1>3, <1>4, <1>7 DEF AnswerKnown, Polls
<1> QED
  BY <1>1, <1>5, <1>6, <1>7

LEMMA EndsOrder ==
  ASSUME TypeOK, BytesKnown, OrderKnown,
         NEW b, NEW l, NEW can, NEW recv, NEW who, Ending(b, l, can, recv, who)
  PROVE  OrderKnown'
<1> SUFFICES ASSUME ~dropped'
             PROVE  /\ InOrder(accepted', wire' \o Unpolled(transmit_buffer'))
                    /\ Aligned(accepted', wire', transmit_buffer', sequence_length_buffer', count', sequence_length')
  BY DEF OrderKnown
<1>1. /\ Keeps(b, l, can, recv) \/ Sends(b, l, can, recv) \/ Polls(b, l, can, recv)
      /\ sequence_length' = sequence_length /\ count' = count
  BY TransmitsFacts DEF Ending
<1>2. InOrder(accepted', wire \o b) /\ Aligned(accepted', wire, b, l, count, sequence_length)
  BY DEF Ending
<1>3. wire' = wire /\ b \in Seq(Bytes) /\ wire \in Seq(Bytes)
  BY DEF Ending, BytesKnown
<1>4. b # <<POLL>> /\ Unpolled(b) = b
  BY <1>3, SeqOfBytes
<1>5. CASE transmit_buffer' = b /\ sequence_length_buffer' = l
  BY <1>1, <1>2, <1>3, <1>4, <1>5
<1>6. CASE Polls(b, l, can, recv)
  <2>1. b = <<>> /\ transmit_buffer' = <<POLL>> /\ sequence_length_buffer' = Append(l, 1)
    BY <1>6 DEF Polls
  <2>2. Unpolled(<<POLL>>) = b
    BY <2>1 DEF Unpolled
  <2>3. Len(wire) = 2 * Len(accepted') + 1 /\ Len(wire) \in Nat /\ Len(accepted') \in Nat
    <3>1. Len(wire \o b) = Len(wire) + 0
      BY <1>3, <2>1, Joined
    <3>2. Len(accepted') \in Nat
      <4>1. accepted' \in Seq(Commands)
        BY DEF Ending
      <4> HIDE DEF Commands
      <4> QED
        BY <4>1
    <3> QED
      BY <1>2, <1>3, <3>1, <3>2 DEF InOrder
  <2>4. count = 0 /\ Twos(l, 0)
    <3>1. \A k \in Nat : 2 * k # 2 * Len(accepted') + 1
      BY <2>3
    <3>2. PICK k \in 0 .. Len(accepted') : Len(wire) = 2 * k + 1 /\ Twos(l, Len(accepted') - k) /\ count = 0
      BY <1>2, <1>4, <2>3, <3>1 DEF Aligned
    <3>3. k = Len(accepted')
      BY <2>3, <3>2
    <3> QED
      BY <2>3, <3>2, <3>3
  <2>5. Append(l, 1) = <<1>>
    <3>1. l = <<>>
      BY <2>4 DEF Twos
    <3> QED
      BY <3>1
  <2> QED
    BY <1>1, <1>2, <1>3, <2>1, <2>2, <2>3, <2>4, <2>5 DEF Aligned
<1> QED
  BY <1>1, <1>5, <1>6 DEF Keeps, Sends

LEMMA Ends ==
  ASSUME IOInv, NEW b, NEW l, NEW can, NEW recv, NEW who, Ending(b, l, can, recv, who)
  PROVE  /\ BytesKnown' /\ LineKnown' /\ AnswerKnown' /\ OrderKnown'
         /\ server' \in {"receive", "put"} /\ Len(transmit_buffer') <= TxRoom
         /\ canTransmit' \in BOOLEAN /\ isReceiving' \in BOOLEAN /\ rx' \in -1 .. BYTES - 1
         /\ tx' \in {tx, "sent"} /\ answering' \in TrainSet \cup {Nobody, RxNotifier}
         /\ carrier' \in [TrainSet -> BOOLEAN]
  BY EndsBytes, EndsLine, EndsAnswer, EndsOrder DEF IOInv

\* What is known when a handler begins.
LEMMA Begins ==
  ASSUME IOInv, NEW type, Receive(type)
  PROVE  /\ server = "receive" /\ inbox # <<>> /\ inbox' = Tail(inbox) /\ inbox' \in Seq(Message)
         /\ Head(inbox) \in Message /\ Head(inbox).type = type
         /\ transmit_buffer \in Seq(Bytes) /\ Len(transmit_buffer) <= TxRoom
         /\ canTransmit \in BOOLEAN /\ isReceiving \in BOOLEAN
         /\ canTransmit => tx = "server" /\ ~Among(inbox', TxMsg)
         /\ ~isReceiving => answer = 0 /\ ~Among(inbox', RxMsg) /\ line # POLL /\ rx = 0
         /\ accepted \in Seq(Commands) /\ dropped \in BOOLEAN
         /\ ~dropped => /\ InOrder(accepted, wire \o transmit_buffer)
                        /\ Aligned(accepted, wire, transmit_buffer, sequence_length_buffer, count, sequence_length)
<1>1. /\ server = "receive" /\ inbox # <<>> /\ inbox' = Tail(inbox) /\ Head(inbox).type = type
      /\ BytesKnown /\ LineKnown /\ AnswerKnown /\ OrderKnown /\ TypeOK
  BY DEF Receive, IOInv
<1>2. inbox' \in Seq(Message) /\ Head(inbox) \in Message
  BY <1>1, TailMail DEF BytesKnown
<1>3. Among(inbox', TxMsg) => Among(inbox, TxMsg)
  BY <1>1, ReceiveFacts
<1>4. Among(inbox', RxMsg) => Among(inbox, RxMsg)
  BY <1>1, ReceiveFacts
<1>5. transmit_buffer \in Seq(Bytes)
  BY <1>1 DEF BytesKnown
<1>6. canTransmit => tx = "server" /\ ~Among(inbox', TxMsg)
  BY <1>1, <1>3 DEF LineKnown
<1>7. ~isReceiving => answer = 0 /\ ~Among(inbox', RxMsg) /\ line # POLL /\ rx = 0
  <2>1. answering # RxNotifier
    BY <1>1 DEF AnswerKnown, Nobody, RxNotifier
  <2> QED
    BY <1>1, <1>4, <2>1 DEF AnswerKnown
<1>8. ~dropped => /\ InOrder(accepted, wire \o transmit_buffer)
                  /\ Aligned(accepted, wire, transmit_buffer, sequence_length_buffer, count, sequence_length)
  BY <1>1, <1>5, SeqOfBytes DEF OrderKnown
<1>9. /\ Len(transmit_buffer) <= TxRoom /\ canTransmit \in BOOLEAN /\ isReceiving \in BOOLEAN
      /\ accepted \in Seq(Commands) /\ dropped \in BOOLEAN
  BY <1>1 DEF TypeOK, BytesKnown
<1> QED
  BY <1>1, <1>2, <1>5, <1>6, <1>7, <1>8, <1>9

-----------------------------------------------------------------------------
(* Parts of the invariant that a step leaves alone.                        *)

LEMMA SwitchesFrame ==
  ASSUME SwitchesKnown, world' = world, dropped => dropped', UNCHANGED <<switches, accepted, wire>>,
         world.spaced /\ ~dropped' => server' # "stranded",
         \A a \in SwitchAddrs :
            /\ (Among(inbox', SwitchMsg(a)) => Among(inbox, SwitchMsg(a)))
            /\ (Among(inbox', CmdMsg(a)) => Among(inbox, CmdMsg(a)))
            /\ (Once(inbox, SwitchMsg(a)) => Once(inbox', SwitchMsg(a)))
            /\ (Once(inbox, CmdMsg(a)) => Once(inbox', CmdMsg(a)))
  PROVE  SwitchesKnown'
<1> SUFFICES ASSUME world.spaced, ~dropped'
             PROVE  clock' /\ server' # "stranded" /\ \A a \in SwitchAddrs : SwitchFree(a)'
  BY DEF SwitchesKnown
<1>1. clock /\ server' # "stranded" /\ \A a \in SwitchAddrs : SwitchFree(a)
  BY DEF SwitchesKnown
<1>2. switch_notifier' = switch_notifier /\ owed' = owed /\ clock' = clock /\ accepted' = accepted /\ wire' = wire
  BY DEF switches
<1>3. ASSUME NEW a \in SwitchAddrs PROVE SwitchFree(a)'
  BY <1>1, <1>2, <1>3 DEF SwitchFree
<1> QED
  BY <1>1, <1>2, <1>3

LEMMA WatchFrame ==
  ASSUME WatchKnown, UNCHANGED <<sensor_messenger, task, tells, asked, answer, isTriggered, reading>>
  PROVE  WatchKnown'
  BY DEF WatchKnown, TriggeredIsFresh

LEMMA OrderFrame ==
  ASSUME OrderKnown,
         UNCHANGED <<dropped, accepted, wire, transmit_buffer, sequence_length_buffer, count, sequence_length>>
  PROVE  OrderKnown'
  BY DEF OrderKnown

\* The queue without its head, for the switches.
LEMMA SwitchMail ==
  ASSUME BytesKnown, inbox # <<>>, inbox' = Tail(inbox)
  PROVE  \A a \in SwitchAddrs :
            /\ (Among(inbox', SwitchMsg(a)) => Among(inbox, SwitchMsg(a)))
            /\ (Among(inbox', CmdMsg(a)) => Among(inbox, CmdMsg(a)))
            /\ (Once(inbox, SwitchMsg(a)) => Once(inbox', SwitchMsg(a)))
            /\ (Once(inbox, CmdMsg(a)) => Once(inbox', CmdMsg(a)))
  BY ReceiveFacts

\* The records of the messengers when one is held.
LEMMA HeldFacts ==
  ASSUME NEW m \in [TrainSet -> Messengers], NEW t \in TrainSet, NEW n,
         n = [m EXCEPT ![t].sent_reply = FALSE]
  PROVE  /\ n \in [TrainSet -> Messengers]
         /\ n[t].created = m[t].created /\ n[t].sensor_idx = m[t].sensor_idx
         /\ \A u \in TrainSet : u # t => n[u] = m[u]
<1>1. n \in [TrainSet -> Messengers]
  BY Zenon DEF Messengers
<1>2. n[t] = [m[t] EXCEPT !.sent_reply = FALSE] /\ m[t] \in Messengers
  BY Zenon
<1>3. n[t].created = m[t].created /\ n[t].sensor_idx = m[t].sensor_idx
  BY <1>2, Zenon DEF Messengers
<1>4. \A u \in TrainSet : u # t => n[u] = m[u]
  BY Zenon
<1> QED
  BY <1>1, <1>3, <1>4

-----------------------------------------------------------------------------
(* The handlers.                                                           *)

LEMMA KeepsTX_NOTIFIER ==
  ASSUME IOInv, TX_NOTIFIER
  PROVE  IOInv'
<1>1. PICK b, l, recv : b = transmit_buffer /\ l = sequence_length_buffer /\ recv = isReceiving
  OBVIOUS
<1>2. Receive("TX_NOTIFIER")
  BY DEF TX_NOTIFIER
<1>3. tx = "server" /\ ~Among(inbox', TxMsg)
  <2>1. Head(inbox) \in TxMsg
    BY <1>2, Begins, TypesOfMessages
  <2>2. BytesKnown /\ LineKnown /\ inbox # <<>> /\ inbox' = Tail(inbox)
    BY <1>2, Begins DEF IOInv
  <2>3. Among(inbox, TxMsg) /\ ~Among(inbox', TxMsg)
    BY <2>1, <2>2, ReceiveFacts DEF LineKnown
  <2> QED
    BY <2>2, <2>3 DEF LineKnown
<1>4. /\ Transmits(b, l, TRUE, recv) /\ Answers(Nobody)
      /\ UNCHANGED <<switches, sensor_messenger, isTriggered, task, told, tells, uart, sensors, history>>
  BY <1>1 DEF TX_NOTIFIER
<1>5. Ending(b, l, TRUE, recv, Nobody)
  <2>1. /\ uart' = uart /\ wire' = wire /\ accepted' = accepted /\ dropped' = dropped
        /\ Nobody # RxNotifier
    BY <1>4 DEF history, Nobody, RxNotifier
  <2>2. /\ server = "receive" /\ inbox # <<>> /\ inbox' = Tail(inbox)
        /\ b \in Seq(Bytes) /\ Len(b) <= TxRoom /\ recv \in BOOLEAN
    BY <1>1, <1>2, Begins
  <2>3. ~recv => answer = 0 /\ ~Among(inbox', RxMsg) /\ line # POLL /\ rx = 0
    BY <1>1, <1>2, Begins
  <2>4. /\ accepted \in Seq(Commands) /\ dropped \in BOOLEAN
        /\ ~dropped => InOrder(accepted, wire \o b) /\ Aligned(accepted, wire, b, l, count, sequence_length)
    BY <1>1, <1>2, Begins
  <2> QED
    BY <1>3, <1>4, <2>1, <2>2, <2>3, <2>4 DEF Ending
<1>6. /\ BytesKnown' /\ LineKnown' /\ AnswerKnown' /\ OrderKnown'
      /\ server' \in {"receive", "put"} /\ Len(transmit_buffer') <= TxRoom
      /\ canTransmit' \in BOOLEAN /\ isReceiving' \in BOOLEAN /\ rx' \in -1 .. BYTES - 1
      /\ tx' \in {tx, "sent"} /\ answering' \in TrainSet \cup {Nobody, RxNotifier}
      /\ carrier' \in [TrainSet -> BOOLEAN]
  BY <1>5, Ends
<1>7. SwitchesKnown'
  BY <1>2, <1>4, <1>6, Begins, SwitchMail, SwitchesFrame DEF IOInv, history
<1>8. WatchKnown'
  BY <1>4, WatchFrame DEF IOInv, history, uart, sensors
<1>9. TypeOK'
  BY <1>4, <1>6 DEF IOInv, TypeOK, history, uart, sensors, switches
<1> QED
  BY <1>6, <1>7, <1>8, <1>9 DEF IOInv

LEMMA KeepsSENSOR_MESSENGER ==
  ASSUME IOInv, SENSOR_MESSENGER
  PROVE  IOInv'
<1>1. PICK b, l, can, recv :
        b = transmit_buffer /\ l = sequence_length_buffer /\ can = canTransmit /\ recv = isReceiving
  OBVIOUS
<1>2. Receive("SENSOR_MESSENGER")
  BY DEF SENSOR_MESSENGER
<1>3. PICK t \in TrainSet : t = Head(inbox).train
  BY <1>2, Begins, TypesOfMessages
<1>4. /\ Transmits(b, l, can, recv) /\ Answers(Nobody)
      /\ sensor_messenger' = [sensor_messenger EXCEPT ![t].sent_reply = FALSE]
      /\ task' = [task EXCEPT ![t] = "waiting"]
      /\ UNCHANGED <<isTriggered, told, tells, switches, uart, sensors, history>>
  BY <1>1, <1>3 DEF SENSOR_MESSENGER, Handled
<1>5. Ending(b, l, can, recv, Nobody)
  BY <1>1, <1>2, <1>4, Begins DEF Ending, history, Nobody, RxNotifier
<1>6. /\ BytesKnown' /\ LineKnown' /\ AnswerKnown' /\ OrderKnown'
      /\ server' \in {"receive", "put"} /\ Len(transmit_buffer') <= TxRoom
      /\ canTransmit' \in BOOLEAN /\ isReceiving' \in BOOLEAN /\ rx' \in -1 .. BYTES - 1
      /\ tx' \in {tx, "sent"} /\ answering' \in TrainSet \cup {Nobody, RxNotifier}
      /\ carrier' \in [TrainSet -> BOOLEAN]
  BY <1>5, Ends
<1>7. SwitchesKnown'
  BY <1>2, <1>4, <1>6, Begins, SwitchMail, SwitchesFrame DEF IOInv, history
<1>8. WatchKnown'
  <2>1. TriggeredIsFresh'
    BY <1>4 DEF IOInv, WatchKnown, TriggeredIsFresh, uart, sensors
  <2>2. Watched(sensor_messenger, task, tells, asked) /\ asked' = asked /\ tells' = tells
    BY <1>4 DEF IOInv, WatchKnown, history
  <2>3. TypeOK
    BY DEF IOInv
  <2>4. /\ sensor_messenger'[t].created = sensor_messenger[t].created
        /\ sensor_messenger'[t].sensor_idx = sensor_messenger[t].sensor_idx
        /\ \A u \in TrainSet : u # t => sensor_messenger'[u] = sensor_messenger[u]
    BY <1>4, <2>3, HeldFacts DEF TypeOK, Messengers
  <2>5. task'[t] = "waiting" /\ \A u \in TrainSet : u # t => task'[u] = task[u]
    BY <1>4, <2>3 DEF TypeOK
  <2>6. Watched(sensor_messenger', task', tells', asked')
    BY <2>2, <2>4, <2>5 DEF Watched
  <2> QED
    BY <2>1, <2>6 DEF WatchKnown
<1>9. TypeOK'
  <2>1. sensor_messenger \in [TrainSet -> Messengers]
    BY DEF IOInv, TypeOK, Messengers
  <2>2. sensor_messenger' \in [TrainSet -> Messengers]
    BY <1>4, <2>1, HeldFacts
  <2>3. task' \in [TrainSet -> {"none", "starting", "coming", "waiting", "telling"}]
    BY <1>4, Zenon DEF IOInv, TypeOK
  <2> QED
    BY <1>4, <1>6, <2>2, <2>3 DEF IOInv, TypeOK, Messengers, history, uart, sensors, switches
<1> QED
  BY <1>6, <1>7, <1>8, <1>9 DEF IOInv

LEMMA KeepsSENSOR_LISTENER ==
  ASSUME IOInv, SENSOR_LISTENER
  PROVE  IOInv'
<1>1. PICK b, l, can, recv :
        b = transmit_buffer /\ l = sequence_length_buffer /\ can = canTransmit /\ recv = isReceiving
  OBVIOUS
<1>2. Receive("SENSOR_LISTENER")
  BY DEF SENSOR_LISTENER
<1>3. PICK req : req = Head(inbox)
  OBVIOUS
<1>4. PICK t \in TrainSet : t = req.train
  BY <1>2, <1>3, Begins, TypesOfMessages
<1>5. /\ req.first \in Sensors /\ req.second \in Sensors \cup {NoSensor}
  BY <1>2, <1>3, Begins, TypesOfMessages
<1>6. /\ Transmits(b, l, can, recv) /\ Answers(t)
      /\ sensor_messenger' = [sensor_messenger EXCEPT ![t] =
           [created |-> TRUE, sensor_idx |-> req.first, sensor_idx_safety |-> req.second,
            sent_reply |-> IF sensor_messenger[t].created THEN sensor_messenger[t].sent_reply ELSE TRUE]]
      /\ task' = IF sensor_messenger[t].created THEN task ELSE [task EXCEPT ![t] = "starting"]
      /\ asked' = [asked EXCEPT ![t] = @ + 1]
      /\ UNCHANGED <<isTriggered, told, tells, switches, uart, sensors, world, accepted, dropped, wire>>
  BY <1>1, <1>3, <1>4 DEF SENSOR_LISTENER, Handled
<1>7. Ending(b, l, can, recv, t)
  <2>1. t # RxNotifier
    BY MarklinAssumption DEF RxNotifier
  <2> QED
    BY <1>1, <1>2, <1>6, <2>1, Begins DEF Ending
<1>8. /\ BytesKnown' /\ LineKnown' /\ AnswerKnown' /\ OrderKnown'
      /\ server' \in {"receive", "put"} /\ Len(transmit_buffer') <= TxRoom
      /\ canTransmit' \in BOOLEAN /\ isReceiving' \in BOOLEAN /\ rx' \in -1 .. BYTES - 1
      /\ tx' \in {tx, "sent"} /\ answering' \in TrainSet \cup {Nobody, RxNotifier}
      /\ carrier' \in [TrainSet -> BOOLEAN]
  BY <1>7, Ends
<1>9. SwitchesKnown'
  BY <1>2, <1>6, <1>8, Begins, SwitchMail, SwitchesFrame DEF IOInv
<1>10. /\ sensor_messenger' \in [TrainSet -> [created : BOOLEAN, sensor_idx : Sensors \cup {NoSensor},
             sensor_idx_safety : Sensors \cup {NoSensor}, sent_reply : BOOLEAN]]
       /\ task' \in [TrainSet -> {"none", "starting", "coming", "waiting", "telling"}]
       /\ asked' \in [TrainSet -> Nat]
  <2>1. /\ sensor_messenger \in [TrainSet -> [created : BOOLEAN, sensor_idx : Sensors \cup {NoSensor},
             sensor_idx_safety : Sensors \cup {NoSensor}, sent_reply : BOOLEAN]]
        /\ task \in [TrainSet -> {"none", "starting", "coming", "waiting", "telling"}]
        /\ asked \in [TrainSet -> Nat]
    BY DEF IOInv, TypeOK
  <2>2. sensor_messenger[t].sent_reply \in BOOLEAN
    BY <2>1
  <2>3. [created |-> TRUE, sensor_idx |-> req.first, sensor_idx_safety |-> req.second,
         sent_reply |-> IF sensor_messenger[t].created THEN sensor_messenger[t].sent_reply ELSE TRUE] \in
           [created : BOOLEAN, sensor_idx : Sensors \cup {NoSensor},
            sensor_idx_safety : Sensors \cup {NoSensor}, sent_reply : BOOLEAN]
    BY <1>5, <2>2
  <2>4. sensor_messenger' \in [TrainSet -> [created : BOOLEAN, sensor_idx : Sensors \cup {NoSensor},
             sensor_idx_safety : Sensors \cup {NoSensor}, sent_reply : BOOLEAN]]
    BY <1>6, <2>1, <2>3, Zenon
  <2>5. task' \in [TrainSet -> {"none", "starting", "coming", "waiting", "telling"}]
    BY <1>6, <2>1, Zenon
  <2>6. asked' \in [TrainSet -> Nat]
    BY <1>6, <2>1
  <2> QED
    BY <2>4, <2>5, <2>6
<1>11. WatchKnown'
  <2>1. TriggeredIsFresh'
    BY <1>6 DEF IOInv, WatchKnown, TriggeredIsFresh, uart, sensors
  <2>2. Watched(sensor_messenger, task, tells, asked) /\ tells' = tells /\ TypeOK
    BY <1>6 DEF IOInv, WatchKnown
  <2>3. ASSUME NEW u \in TrainSet
        PROVE  /\ sensor_messenger'[u].created /\ ~sensor_messenger'[u].sent_reply => task'[u] = "waiting"
               /\ tells[u] + (IF sensor_messenger'[u].sensor_idx # NoSensor THEN 1 ELSE 0) <= asked'[u]
    <3>1. /\ sensor_messenger[u].created /\ ~sensor_messenger[u].sent_reply => task[u] = "waiting"
          /\ tells[u] + (IF sensor_messenger[u].sensor_idx # NoSensor THEN 1 ELSE 0) <= asked[u]
          /\ tells[u] \in Nat /\ asked[u] \in Nat
      BY <2>2 DEF Watched, TypeOK
    <3>2. CASE u # t
      <4>1. sensor_messenger'[u] = sensor_messenger[u] /\ task'[u] = task[u] /\ asked'[u] = asked[u]
        BY <1>6, <2>2, <3>2 DEF TypeOK
      <4> QED
        BY <3>1, <4>1
    <3>3. CASE u = t
      <4>1. /\ sensor_messenger'[t].sent_reply =
                 IF sensor_messenger[t].created THEN sensor_messenger[t].sent_reply ELSE TRUE
            /\ asked'[t] = asked[t] + 1
            /\ sensor_messenger[t].created => task' = task
        BY <1>6, <2>2 DEF TypeOK
      <4> QED
        BY <3>1, <3>3, <4>1
    <3> QED
      BY <3>2, <3>3
  <2> QED
    BY <2>1, <2>2, <2>3 DEF WatchKnown, Watched
<1>12. TypeOK'
  BY <1>6, <1>8, <1>10 DEF IOInv, TypeOK, uart, sensors, switches
<1> QED
  BY <1>8, <1>9, <1>11, <1>12 DEF IOInv

\* What a command adds to the buffer, if there is room.
LEMMA PushFacts ==
  ASSUME NEW b \in Seq(Bytes), Len(b) <= TxRoom, NEW x \in Bytes, NEW y \in Bytes
  PROVE  /\ Push(Push(b, x), y) \in Seq(Bytes) /\ Len(Push(Push(b, x), y)) <= TxRoom
         /\ Len(b) + 2 <= TxRoom => Push(Push(b, x), y) = Append(Append(b, x), y)
<1> HIDE DEF Bytes
<1>1. PICK c : c = Push(b, x)
  OBVIOUS
<1>2. /\ c \in Seq(Bytes) /\ Len(c) <= TxRoom /\ Len(c) <= Len(b) + 1
      /\ Len(b) + 2 <= TxRoom => c = Append(b, x)
  BY <1>1, MarklinAssumption DEF Push
<1>3. /\ Push(c, y) \in Seq(Bytes) /\ Len(Push(c, y)) <= TxRoom
      /\ Len(b) + 2 <= TxRoom => Push(c, y) = Append(c, y)
  BY <1>2, MarklinAssumption DEF Push
<1> QED
  BY <1>1, <1>2, <1>3

LEMMA AlignedMore ==
  ASSUME NEW acc \in Seq(Commands), NEW w \in Seq(Bytes), NEW b \in Seq(Bytes), NEW c \in Seq(Bytes),
         NEW l, NEW n, NEW length, NEW cmd \in Commands, Aligned(acc, w, b, l, n, length)
  PROVE  Aligned(Append(acc, cmd), w, c, Append(l, 2), n, length)
<1> HIDE DEF Bytes, Commands
<1>1. b # <<POLL>> /\ c # <<POLL>>
  BY SeqOfBytes
<1>2. Len(acc) \in Nat /\ Len(Append(acc, cmd)) = Len(acc) + 1
  OBVIOUS
<1>3. ASSUME NEW k \in Nat, NEW t, Twos(t, k) PROVE Twos(Append(t, 2), k + 1)
  <2>1. PICK u : u = Append(t, 2)
    OBVIOUS
  <2>2. t \in Seq({1, 2}) /\ Len(t) = k /\ \A i \in 1 .. k : t[i] = 2
    <3>1. t \in Seq({1, 2}) /\ Len(t) = k /\ \A i \in DOMAIN t : t[i] = 2
      BY <1>3 DEF Twos
    <3>2. DOMAIN t = 1 .. k
      BY <3>1
    <3> QED
      BY <3>1, <3>2
  <2>3. /\ u \in Seq({1, 2}) /\ Len(u) = k + 1 /\ u[k + 1] = 2 /\ \A i \in 1 .. k : u[i] = t[i]
        /\ DOMAIN u = 1 .. k + 1
    BY <2>1, <2>2
  <2> QED
    BY <2>1, <2>2, <2>3 DEF Twos
<1>4. CASE /\ Len(w) = 0 /\ n = 0
           /\ l \in Seq({1, 2}) /\ Len(l) = Len(acc) + 1 /\ l[1] = 1 /\ Twos(Tail(l), Len(acc))
  <2>1. PICK u : u = Append(l, 2)
    OBVIOUS
  <2>2. /\ u \in Seq({1, 2}) /\ Len(u) = Len(acc) + 2 /\ u[1] = 1 /\ Tail(u) = Append(Tail(l), 2)
    <3>1. u \in Seq({1, 2}) /\ Len(u) = Len(acc) + 2 /\ u[1] = 1
      BY <1>2, <1>4, <2>1
    <3>2. l # <<>> /\ l \in Seq({1, 2}) /\ 2 \in {1, 2}
      BY <1>2, <1>4
    <3>3. Tail(u) = Append(Tail(l), 2)
      <4>1. PICK p, q : p = Tail(u) /\ q = Append(Tail(l), 2)
        OBVIOUS
      <4>2. /\ p \in Seq({1, 2}) /\ q \in Seq({1, 2}) /\ Len(p) = Len(acc) + 1 /\ Len(q) = Len(acc) + 1
            /\ \A i \in 1 .. Len(acc) + 1 : p[i] = q[i]
        BY <1>2, <1>4, <2>1, <4>1, SMTT(30)
      <4>3. Len(p) = Len(q) /\ \A i \in 1 .. Len(p) : p[i] = q[i]
        BY <4>2
      <4>4. p = q
        BY <4>2, <4>3, SeqEqual, Zenon
      <4> QED
        BY <4>1, <4>4
    <3> QED
      BY <3>1, <3>3
  <2>3. Twos(Tail(u), Len(acc) + 1)
    BY <1>2, <1>3, <1>4, <2>2
  <2> QED
    BY <1>1, <1>2, <1>4, <2>1, <2>2, <2>3 DEF Aligned
<1>5. CASE n = 0 /\ \E k \in 0 .. Len(acc) : Len(w) = 2 * k + 1 /\ Twos(l, Len(acc) - k)
  <2>1. PICK k \in 0 .. Len(acc) : Len(w) = 2 * k + 1 /\ Twos(l, Len(acc) - k)
    BY <1>5
  <2>2. k \in 0 .. Len(acc) + 1 /\ Twos(Append(l, 2), Len(acc) + 1 - k)
    <3>1. Len(acc) - k \in Nat /\ (Len(acc) - k) + 1 = Len(acc) + 1 - k
      BY <1>2
    <3> QED
      BY <1>2, <1>3, <2>1, <3>1
  <2> QED
    BY <1>1, <1>2, <1>5, <2>1, <2>2 DEF Aligned
<1>6. CASE n = 1 /\ length = 2 /\ \E k \in 1 .. Len(acc) : Len(w) = 2 * k /\ Twos(l, Len(acc) - k)
  <2>1. PICK k \in 1 .. Len(acc) : Len(w) = 2 * k /\ Twos(l, Len(acc) - k)
    BY <1>6
  <2>2. k \in 1 .. Len(acc) + 1 /\ Twos(Append(l, 2), Len(acc) + 1 - k)
    <3>1. Len(acc) - k \in Nat /\ (Len(acc) - k) + 1 = Len(acc) + 1 - k
      BY <1>2
    <3> QED
      BY <1>2, <1>3, <2>1, <3>1
  <2> QED
    BY <1>1, <1>2, <1>6, <2>1, <2>2 DEF Aligned
<1> QED
  BY <1>1, <1>4, <1>5, <1>6 DEF Aligned

\* A new command is the only one that has yet to be sent that was not before.
LEMMA OpenMore ==
  ASSUME NEW acc \in Seq(Commands), NEW w, NEW cmd \in Commands, NEW a
  PROVE  /\ cmd.addr # a => Open(a, Append(acc, cmd), w) = Open(a, acc, w)
         /\ \A i \in Open(a, Append(acc, cmd), w) : i \in Open(a, acc, w) \/ i = Len(acc) + 1
<1> HIDE DEF Commands
<1>1. PICK ac : ac = Append(acc, cmd)
  OBVIOUS
<1>2. /\ Len(acc) \in Nat /\ ac[Len(acc) + 1] = cmd /\ \A i \in 1 .. Len(acc) : ac[i] = acc[i]
      /\ DOMAIN ac = 1 .. Len(acc) + 1 /\ DOMAIN acc = 1 .. Len(acc)
  BY <1>1
<1>3. \A i \in Open(a, ac, w) : i \in Open(a, acc, w) \/ (i = Len(acc) + 1 /\ cmd.addr = a)
  BY <1>2 DEF Open
<1>4. \A i \in Open(a, acc, w) : i \in Open(a, ac, w)
  BY <1>2 DEF Open
<1> QED
  BY <1>1, <1>3, <1>4

LEMMA KeepsSEND_CMD ==
  ASSUME IOInv, SEND_CMD
  PROVE  IOInv'
<1>1. PICK b0, l0, can, recv, cmd :
        /\ b0 = transmit_buffer /\ l0 = sequence_length_buffer /\ can = canTransmit /\ recv = isReceiving
        /\ cmd = Head(inbox).cmd
  OBVIOUS
<1>2. PICK b, l : b = Push(Push(b0, <<cmd, 1>>), <<cmd, 2>>) /\ l = Append(l0, 2)
  OBVIOUS
<1>3. Receive("SEND_CMD")
  BY DEF SEND_CMD
<1>4. cmd \in Commands /\ Head(inbox) \in CmdMsg(cmd.addr)
  BY <1>1, <1>3, Begins, TypesOfMessages
<1>5. /\ Transmits(b, l, can, recv) /\ Answers(Nobody)
      /\ accepted' = Append(accepted, cmd) /\ dropped' = (dropped \/ Len(b0) + 2 > TxRoom)
      /\ UNCHANGED <<switches, sensor_messenger, isTriggered, task, told, tells, uart, sensors,
                     world, wire, asked>>
  BY <1>1, <1>2 DEF SEND_CMD
<1>6. /\ server = "receive" /\ inbox # <<>> /\ inbox' = Tail(inbox) /\ BytesKnown /\ SwitchesKnown
      /\ b0 \in Seq(Bytes) /\ Len(b0) <= TxRoom /\ can \in BOOLEAN /\ recv \in BOOLEAN
      /\ accepted \in Seq(Commands) /\ dropped \in BOOLEAN /\ wire \in Seq(Bytes)
  BY <1>1, <1>3, Begins DEF IOInv, BytesKnown
<1>7. /\ b \in Seq(Bytes) /\ Len(b) <= TxRoom
      /\ ~dropped' => b = Append(Append(b0, <<cmd, 1>>), <<cmd, 2>>)
  <2>1. <<cmd, 1>> \in Bytes /\ <<cmd, 2>> \in Bytes
    BY <1>4, ByteFacts
  <2>2. /\ b \in Seq(Bytes) /\ Len(b) <= TxRoom
        /\ Len(b0) + 2 <= TxRoom => b = Append(Append(b0, <<cmd, 1>>), <<cmd, 2>>)
    BY <1>2, <1>6, <2>1, PushFacts
  <2>3. ~dropped' => Len(b0) + 2 <= TxRoom
    <3>1. Len(b0) \in Nat /\ TxRoom \in Nat
      BY <1>6, MarklinAssumption
    <3>2. ~dropped' => ~(Len(b0) + 2 > TxRoom)
      BY <1>5, Zenon
    <3> QED
      BY <3>1, <3>2
  <2> QED
    BY <2>2, <2>3
<1>8. Ending(b, l, can, recv, Nobody)
  <2>1. uart' = uart /\ wire' = wire /\ Nobody # RxNotifier
    BY <1>5 DEF Nobody, RxNotifier
  <2>2. can => tx = "server" /\ ~Among(inbox', TxMsg)
    BY <1>1, <1>3, Begins
  <2>3. ~recv => answer = 0 /\ ~Among(inbox', RxMsg) /\ line # POLL /\ rx = 0
    BY <1>1, <1>3, Begins
  <2>4. accepted' \in Seq(Commands)
    <3> HIDE DEF Commands
    <3> QED
      BY <1>4, <1>5, <1>6
  <2>5. dropped' \in BOOLEAN
    BY <1>5
  <2>6. ASSUME ~dropped'
        PROVE  InOrder(accepted', wire \o b) /\ Aligned(accepted', wire, b, l, count, sequence_length)
    <3>1. InOrder(accepted, wire \o b0) /\ Aligned(accepted, wire, b0, l0, count, sequence_length)
      BY <1>1, <1>3, <1>5, <2>6, Begins
    <3>2. InOrder(accepted', wire \o b)
      BY <1>4, <1>5, <1>6, <1>7, <2>6, <3>1, TwoMore
    <3>3. Aligned(accepted', wire, b, l, count, sequence_length)
      BY <1>2, <1>4, <1>5, <1>6, <1>7, <3>1, AlignedMore
    <3> QED
      BY <3>2, <3>3
  <2> QED
    BY <1>5, <1>6, <1>7, <2>1, <2>2, <2>3, <2>4, <2>5, <2>6 DEF Ending
<1>9. /\ BytesKnown' /\ LineKnown' /\ AnswerKnown' /\ OrderKnown'
      /\ server' \in {"receive", "put"} /\ Len(transmit_buffer') <= TxRoom
      /\ canTransmit' \in BOOLEAN /\ isReceiving' \in BOOLEAN /\ rx' \in -1 .. BYTES - 1
      /\ tx' \in {tx, "sent"} /\ answering' \in TrainSet \cup {Nobody, RxNotifier}
      /\ carrier' \in [TrainSet -> BOOLEAN]
  BY <1>8, Ends
<1>10. SwitchesKnown'
  <2>0. clock' = clock /\ world' = world /\ server' # "stranded" /\ (~dropped' => ~dropped)
    BY <1>5, <1>9, Zenon DEF switches
  <2> SUFFICES ASSUME world.spaced, ~dropped' PROVE clock /\ \A a \in SwitchAddrs : SwitchFree(a)'
    BY <2>0 DEF SwitchesKnown
  <2>a. clock /\ \A a \in SwitchAddrs : SwitchFree(a)
    BY <1>6, <2>0 DEF SwitchesKnown
  <2> SUFFICES ASSUME NEW a \in SwitchAddrs PROVE SwitchFree(a)'
    BY <2>a
  <2>1. SwitchFree(a)
    BY <2>a
  <2>2. switch_notifier' = switch_notifier /\ owed' = owed /\ clock' = clock /\ wire' = wire
    BY <1>5 DEF switches
  <2>3. /\ (Among(inbox', SwitchMsg(a)) => Among(inbox, SwitchMsg(a)))
        /\ (Among(inbox', CmdMsg(a)) => Among(inbox, CmdMsg(a)))
        /\ Once(inbox', SwitchMsg(a)) /\ Once(inbox', CmdMsg(a))
    BY <1>6, <2>1, SwitchMail DEF SwitchFree
  <2>4. CASE cmd.addr # a
    <3>1. Open(a, accepted', wire') = Open(a, accepted, wire)
      <4>1. Open(a, Append(accepted, cmd), wire) = Open(a, accepted, wire)
        <5>1. PICK acc, w : acc = accepted /\ w = wire
          OBVIOUS
        <5>2. cmd \in Commands /\ acc \in Seq(Commands)
          BY <1>4, <1>6, <5>1
        <5>3. Open(a, Append(acc, cmd), w) = Open(a, acc, w)
          <6>1. cmd.addr # a
            BY <2>4
          <6>2. \A d : cmd.addr # d => Open(d, Append(acc, cmd), w) = Open(d, acc, w)
            BY <5>2, OpenMore
          <6> QED
            BY <6>1, <6>2
        <5> QED
          BY <5>1, <5>3
      <4> QED
        BY <1>5, <2>2, <4>1
    <3> QED
      BY <2>1, <2>2, <2>3, <3>1 DEF SwitchFree
  <2>5. CASE cmd.addr = a
    <3>1. Among(inbox, CmdMsg(a)) /\ ~Among(inbox', CmdMsg(a))
      BY <1>4, <1>6, <2>1, <2>5, ReceiveFacts DEF SwitchFree
    <3>2. switch_notifier[a] = "waiting" /\ Open(a, accepted, wire) = {}
      BY <2>1, <3>1 DEF SwitchFree
    <3>3. \A i \in Open(a, accepted', wire') : i = Len(accepted) + 1
      BY <1>4, <1>5, <1>6, <2>2, <3>2, OpenMore
    <3>4. \A i, j \in Open(a, accepted', wire') : i = j
      BY <3>3
    <3> QED
      BY <2>1, <2>2, <2>3, <3>1, <3>2, <3>4 DEF SwitchFree
  <2> QED
    BY <2>4, <2>5
<1>11. WatchKnown'
  BY <1>5, WatchFrame DEF IOInv, uart, sensors
<1>12. TypeOK'
  BY <1>5, <1>9 DEF IOInv, TypeOK, uart, sensors, switches
<1> QED
  BY <1>9, <1>10, <1>11, <1>12 DEF IOInv

LEMMA KeepsSWITCH_NOTIFIER ==
  ASSUME IOInv, SWITCH_NOTIFIER
  PROVE  IOInv'
<1>1. PICK b, l, can, recv, d :
        /\ b = transmit_buffer /\ l = sequence_length_buffer /\ can = canTransmit /\ recv = isReceiving
        /\ d = Head(inbox).addr
  OBVIOUS
<1>2. Receive("SWITCH_NOTIFIER")
  BY DEF SWITCH_NOTIFIER
<1>3. d \in SwitchAddrs /\ Head(inbox) \in SwitchMsg(d)
  BY <1>1, <1>2, Begins, TypesOfMessages
<1>4. /\ Transmits(b, l, can, recv) /\ Answers(Nobody)
      /\ switch_notifier' = [switch_notifier EXCEPT ![d] = "waiting"]
      /\ UNCHANGED <<owed, clock, sensor_messenger, isTriggered, task, told, tells, uart, sensors, history>>
  BY <1>1 DEF SWITCH_NOTIFIER, Handled
<1>5. Ending(b, l, can, recv, Nobody)
  BY <1>1, <1>2, <1>4, Begins DEF Ending, history, Nobody, RxNotifier
<1>6. /\ BytesKnown' /\ LineKnown' /\ AnswerKnown' /\ OrderKnown'
      /\ server' \in {"receive", "put"} /\ Len(transmit_buffer') <= TxRoom
      /\ canTransmit' \in BOOLEAN /\ isReceiving' \in BOOLEAN /\ rx' \in -1 .. BYTES - 1
      /\ tx' \in {tx, "sent"} /\ answering' \in TrainSet \cup {Nobody, RxNotifier}
      /\ carrier' \in [TrainSet -> BOOLEAN]
  BY <1>5, Ends
<1>7. /\ inbox # <<>> /\ inbox' = Tail(inbox) /\ BytesKnown /\ SwitchesKnown /\ TypeOK
      /\ world' = world /\ accepted' = accepted /\ wire' = wire /\ dropped' = dropped
  BY <1>2, <1>4, Begins DEF IOInv, history
<1>8. SwitchesKnown'
  <2>0. clock' = clock /\ server' # "stranded"
    BY <1>4, <1>6
  <2> SUFFICES ASSUME world.spaced, ~dropped' PROVE clock /\ \A a \in SwitchAddrs : SwitchFree(a)'
    BY <1>7, <2>0 DEF SwitchesKnown
  <2>a. clock /\ \A a \in SwitchAddrs : SwitchFree(a)
    BY <1>7 DEF SwitchesKnown
  <2> SUFFICES ASSUME NEW a \in SwitchAddrs PROVE SwitchFree(a)'
    BY <2>a
  <2>1. SwitchFree(a)
    BY <2>a
  <2>2. owed' = owed /\ clock' = clock /\ (a # d => switch_notifier'[a] = switch_notifier[a])
    BY <1>4, <1>7 DEF TypeOK
  <2>3. /\ (Among(inbox', SwitchMsg(a)) => Among(inbox, SwitchMsg(a)))
        /\ (Among(inbox', CmdMsg(a)) => Among(inbox, CmdMsg(a)))
        /\ Once(inbox', SwitchMsg(a)) /\ Once(inbox', CmdMsg(a))
    BY <1>7, <2>1, SwitchMail DEF SwitchFree
  <2>4. CASE a # d
    BY <1>7, <2>1, <2>2, <2>3, <2>4 DEF SwitchFree
  <2>5. CASE a = d
    <3>1. Among(inbox, SwitchMsg(a)) /\ ~Among(inbox', SwitchMsg(a))
      BY <1>3, <1>7, <2>1, <2>5, ReceiveFacts DEF SwitchFree
    <3>2. switch_notifier[a] = "sending"
      BY <1>7, <2>1, <3>1 DEF SwitchFree, TypeOK
    <3>3. switch_notifier'[a] = "waiting"
      BY <1>4, <1>7, <2>5 DEF TypeOK
    <3>4. owed[a] = 0 /\ ~Among(inbox, CmdMsg(a)) /\ Open(a, accepted, wire) = {}
      BY <2>1, <3>2 DEF SwitchFree
    <3> QED
      BY <1>7, <2>1, <2>2, <2>3, <3>1, <3>3, <3>4 DEF SwitchFree
  <2> QED
    BY <2>4, <2>5
<1>9. WatchKnown'
  BY <1>4, WatchFrame DEF IOInv, history, uart, sensors
<1>10. TypeOK'
  <2>1. switch_notifier' \in [SwitchAddrs -> {"waiting", "delay", "sending"}]
    BY <1>4, <1>7, Zenon DEF TypeOK
  <2> QED
    BY <1>4, <1>6, <1>7, <2>1 DEF TypeOK, history, uart, sensors
<1> QED
  BY <1>6, <1>8, <1>9, <1>10 DEF IOInv

\* A set of numbers that is not empty has a least member.
LEMMA Least ==
  ASSUME NEW T, T \subseteq Nat, T # {}
  PROVE  \E m \in T : \A n \in T : m <= n
<1> DEFINE less == {p \in Nat \X Nat : p[1] < p[2]}
<1>1. PICK m \in T : \A n \in T : ~(<<n, m>> \in less)
  <2>1. IsWellFoundedOn(less, Nat)
    BY NatLessThanWellFounded, Zenon DEF OpToRel
  <2> HIDE DEF less
  <2> QED
    BY <2>1, WFMin, Zenon
<1>2. ASSUME NEW n \in T PROVE m <= n
  <2>1. ~(<<n, m>> \in less) /\ n \in Nat /\ m \in Nat
    BY <1>1
  <2> QED
    BY <2>1
<1> QED
  BY <1>2

\* The function that goes through the trains one by one exists: if it did so only
\* up to some train, one more step would make it go further.
LEMMA CheckedUnfolds ==
  \A n \in 0 .. Len(Trains) :
    checked[n] = IF n = 0 THEN matching ELSE Check(checked[n - 1], Trains[n])
<1> DEFINE Counts(f, k) == \A n \in 0 .. k : f[n] = IF n = 0 THEN matching ELSE Check(f[n - 1], Trains[n])
           T == {k \in Nat : ~ \E f : Counts(f, k)}
<1>1. T = {}
  <2> SUFFICES ASSUME T # {} PROVE FALSE
    OBVIOUS
  <2>1. PICK k \in T : \A n \in T : k <= n
    <3>1. T \subseteq Nat
      OBVIOUS
    <3> HIDE DEF T
    <3> QED
      BY <3>1, Least
  <2>2. k \in Nat /\ ~ \E f : Counts(f, k)
    OBVIOUS
  <2>3. CASE k = 0
    <3>1. Counts([n \in 0 .. 0 |-> matching], 0)
      OBVIOUS
    <3> QED
      BY <2>2, <2>3, <3>1
  <2>4. CASE k # 0
    <3>0. k - 1 \in Nat /\ ~(k <= k - 1)
      BY <2>2, <2>4
    <3>1. k - 1 \in Nat /\ ~(k - 1 \in T)
      BY <2>1, <3>0, Zenon
    <3>2. PICK f : Counts(f, k - 1)
      BY <3>1
    <3> DEFINE g == [n \in 0 .. k |-> IF n = k THEN Check(f[k - 1], Trains[k]) ELSE f[n]]
    <3>3. ASSUME NEW n \in 0 .. k
          PROVE  g[n] = IF n = 0 THEN matching ELSE Check(g[n - 1], Trains[n])
      <4>1. CASE n = k
        <5>1. g[n] = Check(f[k - 1], Trains[k]) /\ g[k - 1] = f[k - 1]
          BY <2>2, <2>4, <4>1
        <5> QED
          BY <2>4, <4>1, <5>1
      <4>2. CASE n # k
        <5>1. n \in 0 .. k - 1 /\ g[n] = f[n] /\ (n # 0 => g[n - 1] = f[n - 1])
          BY <2>2, <4>2
        <5> QED
          BY <3>2, <5>1
      <4> QED
        BY <4>1, <4>2
    <3> QED
      BY <2>2, <3>3
  <2> QED
    BY <2>3, <2>4
<1>2. PICK f : Counts(f, Len(Trains))
  <2>1. Len(Trains) \in Nat
    BY MarklinAssumption
  <2> QED
    BY <1>1, <2>1
<1> DEFINE h == [n \in 0 .. Len(Trains) |-> f[n]]
<1>3. h = [n \in 0 .. Len(Trains) |-> IF n = 0 THEN matching ELSE Check(h[n - 1], Trains[n])]
  <2>1. Len(Trains) \in Nat
    BY MarklinAssumption
  <2>2. ASSUME NEW n \in 0 .. Len(Trains)
        PROVE  f[n] = IF n = 0 THEN matching ELSE Check(h[n - 1], Trains[n])
    <3>1. n # 0 => h[n - 1] = f[n - 1]
      BY <2>1
    <3> QED
      BY <1>2, <3>1
  <2> QED
    BY <2>2
<1> HIDE DEF h
<1>4. checked = [n \in 0 .. Len(Trains) |-> IF n = 0 THEN matching ELSE Check(checked[n - 1], Trains[n])]
  BY <1>3 DEF checked
<1> QED
  BY <1>4, Zenon

\* What is true after any number of trains: who is held waits, every trigger has
\* used up a pair, and what has been told is no longer marked.
Matched(st) ==
  /\ st.m \in [TrainSet -> Messengers] /\ st.on \subseteq isTriggered
  /\ st.task \in [TrainSet -> {"none", "starting", "coming", "waiting", "telling"}]
  /\ st.told \in [TrainSet -> Sensors \cup {NoSensor}] /\ st.tells \in [TrainSet -> Nat]
  /\ st.stranded = FALSE
  /\ Watched(st.m, st.task, st.tells, asked)
  /\ \A t \in TrainSet : st.tells[t] # tells[t] =>
       /\ st.told[t] \in isTriggered \ st.on
       /\ \A u \in TrainSet : st.tells[u] # tells[u] /\ u # t => st.told[u] # st.told[t]

LEMMA ReplyKeeps ==
  ASSUME TypeOK, NEW st, Matched(st), NEW t \in TrainSet, NEW idx \in st.on,
         st.m[t].created, ~st.m[t].sent_reply, st.m[t].sensor_idx # NoSensor
  PROVE  Matched(ReplySensorTrigger(st, t, idx))
<1>1. PICK m, on, tk, td, tl : m = st.m /\ on = st.on /\ tk = st.task /\ td = st.told /\ tl = st.tells
  OBVIOUS
<1>2. PICK m2 : m2 = [m EXCEPT ![t].sensor_idx = NoSensor, ![t].sensor_idx_safety = NoSensor,
                               ![t].sent_reply = TRUE]
  OBVIOUS
<1>3. PICK td2, tl2 : td2 = [td EXCEPT ![t] = idx] /\ tl2 = [tl EXCEPT ![t] = @ + 1]
  OBVIOUS
<1>4. PICK tk2 : tk2 = [tk EXCEPT ![t] = "telling"]
  OBVIOUS
<1>5. /\ m \in [TrainSet -> Messengers] /\ on \subseteq isTriggered /\ isTriggered \subseteq Sensors
      /\ tk \in [TrainSet -> {"none", "starting", "coming", "waiting", "telling"}]
      /\ td \in [TrainSet -> Sensors \cup {NoSensor}] /\ tl \in [TrainSet -> Nat]
      /\ st.stranded = FALSE /\ Watched(m, tk, tl, asked) /\ asked \in [TrainSet -> Nat]
      /\ \A u \in TrainSet : tl[u] # tells[u] => td[u] \in isTriggered \ on
      /\ \A u, v \in TrainSet : tl[u] # tells[u] /\ tl[v] # tells[v] /\ v # u => td[v] # td[u]
  BY <1>1 DEF Matched, TypeOK
<1>6. tk[t] = "waiting" /\ m[t].sensor_idx # NoSensor /\ idx \in on
  BY <1>1, <1>5 DEF Watched
<1>7. ReplySensorTrigger(st, t, idx) =
        [m |-> m2, on |-> on \ {idx}, task |-> tk2, told |-> td2, tells |-> tl2, stranded |-> FALSE]
  <2>1. ReplySensorTrigger(st, t, idx) =
          [m |-> m2, on |-> on \ {idx}, task |-> IF tk[t] = "waiting" THEN tk2 ELSE tk,
           told |-> td2, tells |-> tl2, stranded |-> st.stranded \/ tk[t] # "waiting"]
    BY <1>1, <1>2, <1>3, <1>4, Zenon DEF ReplySensorTrigger
  <2>2. (st.stranded \/ tk[t] # "waiting") = FALSE
    BY <1>5, <1>6
  <2>3. (IF tk[t] = "waiting" THEN tk2 ELSE tk) = tk2
    BY <1>6
  <2> QED
    BY <2>1, <2>2, <2>3
<1>8. /\ m2 \in [TrainSet -> Messengers] /\ m2[t].sent_reply = TRUE /\ m2[t].sensor_idx = NoSensor
      /\ \A u \in TrainSet : u # t => m2[u] = m[u]
  <2>1. m \in [TrainSet -> Messengers] /\ t \in TrainSet
    BY <1>5
  <2>2. m2 \in [TrainSet -> Messengers]
    BY <1>2, <2>1, Zenon DEF Messengers
  <2>3. /\ m[t] \in Messengers
        /\ m2[t] = [[[m[t] EXCEPT !.sensor_idx = NoSensor] EXCEPT !.sensor_idx_safety = NoSensor]
                    EXCEPT !.sent_reply = TRUE]
    BY <1>2, <2>1, Zenon
  <2>4. m2[t].sent_reply = TRUE /\ m2[t].sensor_idx = NoSensor
    BY <2>3, Zenon DEF Messengers
  <2>5. \A u \in TrainSet : u # t => m2[u] = m[u]
    BY <1>2, <2>1, Zenon
  <2> QED
    BY <2>2, <2>4, <2>5
<1>9. /\ tk2 \in [TrainSet -> {"none", "starting", "coming", "waiting", "telling"}]
      /\ td2 \in [TrainSet -> Sensors \cup {NoSensor}] /\ tl2 \in [TrainSet -> Nat]
      /\ tk2[t] = "telling" /\ td2[t] = idx /\ tl2[t] = tl[t] + 1
      /\ \A u \in TrainSet : u # t => tk2[u] = tk[u] /\ td2[u] = td[u] /\ tl2[u] = tl[u]
  BY <1>3, <1>4, <1>5, <1>6
<1>10. Watched(m2, tk2, tl2, asked)
  <2> SUFFICES ASSUME NEW u \in TrainSet
               PROVE  /\ m2[u].created /\ ~m2[u].sent_reply => tk2[u] = "waiting"
                      /\ tl2[u] + (IF m2[u].sensor_idx # NoSensor THEN 1 ELSE 0) <= asked[u]
    BY DEF Watched
  <2>1. /\ m[u].created /\ ~m[u].sent_reply => tk[u] = "waiting"
        /\ tl[u] + (IF m[u].sensor_idx # NoSensor THEN 1 ELSE 0) <= asked[u]
        /\ tl[u] \in Nat /\ asked[u] \in Nat
    BY <1>5 DEF Watched
  <2>2. CASE u = t
    BY <1>6, <1>8, <1>9, <2>1, <2>2
  <2>3. CASE u # t
    BY <1>8, <1>9, <2>1, <2>3
  <2> QED
    BY <2>2, <2>3
<1>11. ASSUME NEW u \in TrainSet, tl2[u] # tells[u] PROVE td2[u] \in isTriggered \ (on \ {idx})
  BY <1>5, <1>6, <1>9, <1>11
<1>12. ASSUME NEW u \in TrainSet, NEW v \in TrainSet, tl2[u] # tells[u], tl2[v] # tells[v], v # u
       PROVE  td2[v] # td2[u]
  BY <1>5, <1>6, <1>9, <1>12
<1> QED
  BY <1>5, <1>7, <1>8, <1>9, <1>10, <1>11, <1>12 DEF Matched

LEMMA CheckKeeps ==
  ASSUME TypeOK, NEW st, Matched(st), NEW t \in TrainSet
  PROVE  Matched(Check(st, t))
<1> DEFINE held == st.m[t].created /\ ~st.m[t].sent_reply /\ st.m[t].sensor_idx > 0
<1>1. CASE held /\ st.m[t].sensor_idx \in st.on
  <2>1. Check(st, t) = ReplySensorTrigger(st, t, st.m[t].sensor_idx)
    BY <1>1, Zenon DEF Check
  <2>2. st.m[t].sensor_idx # NoSensor
    BY <1>1 DEF NoSensor
  <2> QED
    BY <1>1, <2>1, <2>2, ReplyKeeps
<1>2. CASE held /\ ~(st.m[t].sensor_idx \in st.on) /\ st.m[t].sensor_idx_safety \in st.on
  <2>1. Check(st, t) = ReplySensorTrigger(st, t, st.m[t].sensor_idx_safety)
    BY <1>2, Zenon DEF Check
  <2>2. st.m[t].sensor_idx # NoSensor
    BY <1>2 DEF NoSensor
  <2> QED
    BY <1>2, <2>1, <2>2, ReplyKeeps
<1>3. CASE ~(held /\ st.m[t].sensor_idx \in st.on) /\ ~(held /\ st.m[t].sensor_idx_safety \in st.on)
  <2>1. Check(st, t) = st
    BY <1>3, Zenon DEF Check
  <2> QED
    BY <2>1
<1> QED
  BY <1>1, <1>2, <1>3

LEMMA AllMatched ==
  ASSUME TypeOK, WatchKnown
  PROVE  Matched(checked[Len(Trains)])
<1>1. Len(Trains) \in Nat /\ \A n \in 1 .. Len(Trains) : Trains[n] \in TrainSet
  BY MarklinAssumption
<1>2. Matched(matching)
  BY DEF TypeOK, WatchKnown, Matched, matching, Messengers
<1> DEFINE T == {n \in 0 .. Len(Trains) : ~Matched(checked[n])}
<1>3. T = {}
  <2> SUFFICES ASSUME T # {} PROVE FALSE
    OBVIOUS
  <2>1. PICK k \in T : \A n \in T : k <= n
    <3>1. T \subseteq Nat
      BY <1>1
    <3> HIDE DEF T
    <3> QED
      BY <3>1, Least
  <2>2. k \in 0 .. Len(Trains) /\ ~Matched(checked[k])
    OBVIOUS
  <2>3. k # 0
    <3>1. checked[0] = matching
      BY <1>1, CheckedUnfolds
    <3> QED
      BY <1>2, <2>2, <3>1
  <2>4. k - 1 \in 0 .. Len(Trains) /\ ~(k - 1 \in T) /\ k \in 1 .. Len(Trains)
    BY <1>1, <2>1, <2>2, <2>3
  <2>5. Matched(checked[k - 1])
    BY <2>4
  <2>6. checked[k] = Check(checked[k - 1], Trains[k])
    BY <2>2, <2>3, CheckedUnfolds
  <2>7. Trains[k] \in TrainSet
    BY <1>1, <2>4
  <2>8. PICK st, t : st = checked[k - 1] /\ t = Trains[k]
    OBVIOUS
  <2>9. Matched(Check(st, t))
    BY <2>5, <2>7, <2>8, CheckKeeps
  <2> QED
    BY <2>2, <2>6, <2>8, <2>9
<1> QED
  BY <1>1, <1>3

LEMMA KeepsRX_NOTIFIER ==
  ASSUME IOInv, RX_NOTIFIER
  PROVE  IOInv' /\ TellsDiffer
<1>1. PICK b, l, can :
        b = transmit_buffer /\ l = sequence_length_buffer /\ can = canTransmit
  OBVIOUS
<1>2. Receive("RX_NOTIFIER")
  BY DEF RX_NOTIFIER
<1>3. PICK st : st = checked[Len(Trains)]
  OBVIOUS
<1>4. TypeOK /\ BytesKnown /\ AnswerKnown /\ WatchKnown
  BY DEF IOInv
<1>5. Matched(st)
  BY <1>3, <1>4, AllMatched
<1>6. ~st.stranded
  BY <1>5 DEF Matched
<1>7. /\ sensor_messenger' = st.m /\ isTriggered' = st.on /\ tells' = st.tells
      /\ task' = st.task /\ told' = st.told
      /\ Transmits(b, l, can, FALSE) /\ Answers(RxNotifier)
      /\ UNCHANGED <<switches, uart, sensors, history>>
  BY <1>1, <1>3, <1>6 DEF RX_NOTIFIER
<1>8. rx = -1 /\ answer = 0 /\ line # POLL /\ ~Among(inbox', RxMsg)
  <2>1. Head(inbox) \in RxMsg
    BY <1>2, Begins, TypesOfMessages
  <2>2. inbox # <<>> /\ inbox' = Tail(inbox)
    BY <1>2, Begins
  <2>3. Among(inbox, RxMsg) /\ ~Among(inbox', RxMsg)
    BY <1>4, <2>1, <2>2, ReceiveFacts DEF AnswerKnown
  <2>4. answer \in 0 .. BYTES /\ BYTES \in Nat
    BY <1>4, MarklinAssumption DEF TypeOK
  <2> QED
    BY <1>4, <2>3, <2>4 DEF AnswerKnown
<1>9. Ending(b, l, can, FALSE, RxNotifier)
  <2>1. /\ uart' = uart /\ wire' = wire /\ accepted' = accepted /\ dropped' = dropped
    BY <1>7 DEF history
  <2>2. /\ server = "receive" /\ inbox # <<>> /\ inbox' = Tail(inbox)
        /\ b \in Seq(Bytes) /\ Len(b) <= TxRoom /\ can \in BOOLEAN
        /\ can => tx = "server" /\ ~Among(inbox', TxMsg)
    BY <1>1, <1>2, Begins
  <2>3. /\ accepted \in Seq(Commands) /\ dropped \in BOOLEAN
        /\ ~dropped => InOrder(accepted, wire \o b) /\ Aligned(accepted, wire, b, l, count, sequence_length)
    BY <1>1, <1>2, Begins
  <2> QED
    BY <1>7, <1>8, <2>1, <2>2, <2>3 DEF Ending
<1>10. /\ BytesKnown' /\ LineKnown' /\ AnswerKnown' /\ OrderKnown'
       /\ server' \in {"receive", "put"} /\ Len(transmit_buffer') <= TxRoom
       /\ canTransmit' \in BOOLEAN /\ isReceiving' \in BOOLEAN /\ rx' \in -1 .. BYTES - 1
       /\ tx' \in {tx, "sent"} /\ answering' \in TrainSet \cup {Nobody, RxNotifier}
       /\ carrier' \in [TrainSet -> BOOLEAN]
  BY <1>9, Ends
<1>11. SwitchesKnown'
  BY <1>2, <1>7, <1>10, Begins, SwitchMail, SwitchesFrame DEF IOInv, history
<1>12. st.on \subseteq isTriggered /\ Watched(st.m, st.task, st.tells, asked)
  BY <1>5 DEF Matched
<1>13. WatchKnown'
  <2>1. asked' = asked /\ reading' = reading /\ answer' = answer /\ TriggeredIsFresh
    BY <1>4, <1>7 DEF WatchKnown, history, sensors, uart
  <2>2. TriggeredIsFresh'
    BY <1>7, <1>8, <1>12, <2>1 DEF TriggeredIsFresh
  <2>3. Watched(sensor_messenger', task', tells', asked')
    BY <1>7, <1>12, <2>1
  <2> QED
    BY <2>2, <2>3 DEF WatchKnown
<1>14. TypeOK'
  <2>1. /\ sensor_messenger' \in [TrainSet -> Messengers]
        /\ task' \in [TrainSet -> {"none", "starting", "coming", "waiting", "telling"}]
        /\ told' \in [TrainSet -> Sensors \cup {NoSensor}] /\ tells' \in [TrainSet -> Nat]
    BY <1>5, <1>7 DEF Matched
  <2> QED
    BY <1>4, <1>7, <1>10, <1>12, <2>1 DEF TypeOK, Messengers, history, uart, sensors, switches
<1>15. TellsDiffer
  BY <1>5, <1>7 DEF TellsDiffer, Matched
<1> QED
  BY <1>10, <1>11, <1>13, <1>14, <1>15 DEF IOInv

-----------------------------------------------------------------------------
(* A byte is written.                                                      *)

\* What becomes of the byte at the head of b, with l, n and length for how much of
\* a command has been written.
Writes(b, l, byte, length) ==
  /\ length = IF count = 0 /\ l # <<>> THEN Head(l) ELSE sequence_length
  /\ byte = Head(b)
  /\ sequence_length' = length
  /\ sequence_length_buffer' = IF count = 0 /\ l # <<>> THEN Tail(l) ELSE l
  /\ transmit_buffer' = Tail(b)
  /\ line' = byte
  /\ wire' = IF byte = POLL THEN wire ELSE Append(wire, byte)
  /\ count' = IF count + 1 = length THEN 0 ELSE count + 1

\* A byte of a command, or a poll.
LEMMA HeadOfBuffer ==
  ASSUME BytesKnown, server = "put"
  PROVE  \/ transmit_buffer = <<POLL>> /\ isReceiving
         \/ transmit_buffer \in Seq(Bytes) /\ transmit_buffer # <<>>
  BY DEF BytesKnown

LEMMA WritesBytes ==
  ASSUME BytesKnown, server = "put", NEW b, NEW l, NEW byte, NEW length,
         b = transmit_buffer, Writes(b, l, byte, length)
  PROVE  /\ transmit_buffer' \in Seq(Bytes) /\ wire' \in Seq(Bytes)
         /\ Len(transmit_buffer') <= Len(b) /\ Len(b) \in Nat /\ Len(transmit_buffer') \in Nat
         /\ \/ b = <<POLL>> /\ byte = POLL /\ transmit_buffer' = <<>> /\ wire' = wire /\ isReceiving
            \/ /\ b \in Seq(Bytes) /\ b # <<>> /\ b # <<POLL>> /\ byte \in Bytes /\ byte # POLL
               /\ transmit_buffer' = Tail(b) /\ wire' = Append(wire, byte)
<1> HIDE DEF Bytes
<1>1. wire \in Seq(Bytes)
  BY DEF BytesKnown
<1>2. CASE b = <<POLL>> /\ isReceiving
  <2>1. byte = POLL /\ transmit_buffer' = <<>> /\ Len(b) = 1
    BY <1>2 DEF Writes
  <2> QED
    BY <1>1, <1>2, <2>1 DEF Writes
<1>3. CASE b \in Seq(Bytes) /\ b # <<>>
  <2>1. /\ byte \in Bytes /\ Tail(b) \in Seq(Bytes) /\ transmit_buffer' = Tail(b)
        /\ Len(Tail(b)) = Len(b) - 1 /\ Len(b) \in Nat \ {0}
    BY <1>3 DEF Writes
  <2>2. byte # POLL /\ b # <<POLL>>
    BY <1>3, <2>1, ByteFacts, SeqOfBytes
  <2>3. wire' = Append(wire, byte)
    BY <2>2 DEF Writes
  <2>4. wire' \in Seq(Bytes)
    BY <1>1, <2>1, <2>3
  <2> QED
    BY <1>3, <2>1, <2>2, <2>3, <2>4
<1> QED
  BY <1>2, <1>3, HeadOfBuffer

LEMMA WritesOrder ==
  ASSUME BytesKnown, OrderKnown, server = "put", NEW b, NEW l, NEW byte, NEW length,
         b = transmit_buffer, l = sequence_length_buffer, Writes(b, l, byte, length),
         dropped' = dropped, accepted' = accepted
  PROVE  OrderKnown'
<1> SUFFICES ASSUME ~dropped
             PROVE  /\ InOrder(accepted, wire' \o Unpolled(transmit_buffer'))
                    /\ Aligned(accepted, wire', transmit_buffer', sequence_length_buffer', count', sequence_length')
  BY DEF OrderKnown
<1>1. PICK w, acc, c, b2, w2, l2 :
        /\ w = wire /\ acc = accepted /\ c = count
        /\ b2 = transmit_buffer' /\ w2 = wire' /\ l2 = sequence_length_buffer'
  OBVIOUS
<1>2. /\ w \in Seq(Bytes) /\ acc \in Seq(Commands)
      /\ InOrder(acc, w \o Unpolled(b)) /\ Aligned(acc, w, b, l, c, sequence_length)
  BY <1>1 DEF BytesKnown, OrderKnown
<1>3. Len(acc) \in Nat /\ Len(w) \in Nat
  <2> HIDE DEF Bytes, Commands
  <2> QED
    BY <1>2
<1>4. /\ b2 \in Seq(Bytes) /\ w2 \in Seq(Bytes) /\ b2 # <<POLL>> /\ Unpolled(b2) = b2
  BY <1>1, WritesBytes, SeqOfBytes
<1>5. /\ l2 = IF c = 0 /\ l # <<>> THEN Tail(l) ELSE l
      /\ length = IF c = 0 /\ l # <<>> THEN Head(l) ELSE sequence_length
      /\ count' = IF c + 1 = length THEN 0 ELSE c + 1
      /\ sequence_length' = length
  BY <1>1 DEF Writes
<1>6. CASE b = <<POLL>> /\ b2 = <<>> /\ w2 = w
  <2>1. Len(w) = 2 * Len(acc) + 1 /\ c = 0 /\ l = <<1>>
    BY <1>2, <1>6 DEF Aligned
  <2>2. length = 1 /\ l2 = <<>> /\ count' = 0
    BY <1>5, <2>1
  <2>3. InOrder(acc, w2 \o b2)
    BY <1>2, <1>6 DEF Unpolled
  <2>4. Twos(l2, Len(acc) - Len(acc)) /\ Len(acc) \in 0 .. Len(acc)
    BY <1>3, <2>2 DEF Twos
  <2>5. Aligned(acc, w2, b2, l2, count', sequence_length')
    BY <1>4, <1>6, <2>1, <2>2, <2>4 DEF Aligned
  <2> QED
    BY <1>1, <1>4, <2>3, <2>5
<1>7. CASE b \in Seq(Bytes) /\ b # <<>> /\ b # <<POLL>> /\ b2 = Tail(b) /\ w2 = Append(w, Head(b))
  <2>1. /\ w2 \o b2 = w \o b /\ Len(w2) = Len(w) + 1 /\ Len(b) \in Nat \ {0}
        /\ Len(w \o b) = Len(w) + Len(b)
    BY <1>2, <1>7, MoveByte
  <2>2. Unpolled(b) = b
    BY <1>7 DEF Unpolled
  <2>3. InOrder(acc, w2 \o b2)
    BY <1>2, <2>1, <2>2
  <2>4. Len(w) + Len(b) = 2 * Len(acc) + 1
    BY <1>2, <2>1, <2>2 DEF InOrder
  <2>5. Aligned(acc, w2, b2, l2, count', sequence_length')
    <3>1. CASE /\ Len(w) = 0 /\ c = 0
               /\ l \in Seq({1, 2}) /\ Len(l) = Len(acc) + 1 /\ l[1] = 1 /\ Twos(Tail(l), Len(acc))
      <4>1. l # <<>> /\ Head(l) = 1
        BY <1>3, <3>1
      <4>2. length = 1 /\ l2 = Tail(l) /\ count' = 0
        BY <1>5, <3>1, <4>1
      <4>3. Len(w2) = 2 * 0 + 1 /\ Twos(l2, Len(acc) - 0) /\ 0 \in 0 .. Len(acc)
        <5>1. Len(w2) = 2 * 0 + 1 /\ Len(acc) - 0 = Len(acc) /\ 0 \in 0 .. Len(acc)
          <6>1. Len(w) = 0
            BY <3>1
          <6>2. Len(w2) = Len(w) + 1
            BY <2>1
          <6> QED
            BY <1>3, <6>1, <6>2
        <5>2. Twos(l2, Len(acc))
          BY <3>1, <4>2
        <5> QED
          BY <5>1, <5>2
      <4> QED
        BY <1>4, <4>2, <4>3 DEF Aligned
    <3>2. CASE c = 0 /\ \E k \in 0 .. Len(acc) : Len(w) = 2 * k + 1 /\ Twos(l, Len(acc) - k)
      <4>1. PICK k \in 0 .. Len(acc) : Len(w) = 2 * k + 1 /\ Twos(l, Len(acc) - k)
        BY <3>2
      <4>2. k < Len(acc)
        BY <1>3, <2>1, <2>4, <4>1
      <4>3. l \in Seq({1, 2}) /\ Len(l) = Len(acc) - k /\ \A i \in DOMAIN l : l[i] = 2
        BY <4>1 DEF Twos
      <4>4. l # <<>> /\ Head(l) = 2 /\ Twos(Tail(l), Len(acc) - (k + 1))
        <5>1. l # <<>> /\ 1 \in DOMAIN l /\ Head(l) = l[1] /\ DOMAIN l = 1 .. Len(l)
          BY <1>3, <4>2, <4>3
        <5>2. PICK t : t = Tail(l)
          OBVIOUS
        <5>3. /\ t \in Seq({1, 2}) /\ Len(t) = Len(acc) - (k + 1) /\ DOMAIN t = 1 .. Len(t)
              /\ \A i \in DOMAIN t : t[i] = l[i + 1] /\ i + 1 \in DOMAIN l
          BY <1>3, <4>2, <4>3, <5>1, <5>2
        <5> QED
          BY <4>3, <5>1, <5>2, <5>3 DEF Twos
      <4>5. length = 2 /\ l2 = Tail(l) /\ count' = 1
        BY <1>5, <3>2, <4>4
      <4>6. Len(w2) = 2 * (k + 1) /\ k + 1 \in 1 .. Len(acc)
        BY <1>3, <2>1, <4>1, <4>2
      <4> QED
        BY <1>4, <1>5, <4>4, <4>5, <4>6 DEF Aligned
    <3>3. CASE c = 1 /\ sequence_length = 2 /\ \E k \in 1 .. Len(acc) : Len(w) = 2 * k /\ Twos(l, Len(acc) - k)
      <4>1. PICK k \in 1 .. Len(acc) : Len(w) = 2 * k /\ Twos(l, Len(acc) - k)
        BY <3>3
      <4>2. length = 2 /\ l2 = l /\ count' = 0
        BY <1>5, <3>3
      <4>3. Len(w2) = 2 * k + 1 /\ k \in 0 .. Len(acc) /\ Twos(l2, Len(acc) - k)
        BY <1>3, <2>1, <4>1, <4>2
      <4> QED
        BY <1>4, <4>2, <4>3 DEF Aligned
    <3> QED
      BY <1>2, <1>7, <3>1, <3>2, <3>3 DEF Aligned
  <2> QED
    BY <1>1, <1>4, <2>3, <2>5
<1>8. \/ b = <<POLL>> /\ transmit_buffer' = <<>> /\ wire' = wire
      \/ /\ b \in Seq(Bytes) /\ b # <<>> /\ b # <<POLL>>
         /\ transmit_buffer' = Tail(b) /\ wire' = Append(wire, byte)
  <2> HIDE DEF Bytes
  <2> QED
    BY WritesBytes
<1>9. byte = Head(b)
  BY DEF Writes
<1>10. \/ b = <<POLL>> /\ b2 = <<>> /\ w2 = w
       \/ b \in Seq(Bytes) /\ b # <<>> /\ b # <<POLL>> /\ b2 = Tail(b) /\ w2 = Append(w, Head(b))
  BY <1>1, <1>8, <1>9, Zenon
<1> QED
  BY <1>6, <1>7, <1>10, Zenon

\* After one byte of a command the next is its second one, and that command has yet
\* to be sent.
LEMMA SecondByte ==
  ASSUME BytesKnown, OrderKnown, server = "put", ~dropped, count = 1, NEW byte, byte = Head(transmit_buffer)
  PROVE  \E k \in Open(byte[1].addr, accepted, wire) :
           Len(wire) = 2 * k /\ byte = <<accepted[k], 2>> /\ byte # POLL
<1>1. PICK b, w, acc : b = transmit_buffer /\ w = wire /\ acc = accepted
  OBVIOUS
<1>2. w \in Seq(Bytes) /\ acc \in Seq(Commands) /\ InOrder(acc, w \o Unpolled(b))
  BY <1>1 DEF BytesKnown, OrderKnown
<1>3. PICK k \in 1 .. Len(acc) : b # <<POLL>> /\ Len(w) = 2 * k
  BY <1>1 DEF OrderKnown, Aligned
<1>4. b \in Seq(Bytes) /\ b # <<>> /\ Unpolled(b) = b
  BY <1>1, <1>3, HeadOfBuffer, SeqOfBytes
<1>5. byte \in Bytes /\ byte = (w \o b)[Len(w) + 1]
  BY <1>1, <1>2, <1>4, MoveByte
<1>6. DOMAIN acc = 1 .. Len(acc) /\ Len(acc) \in Nat
  <2> HIDE DEF Commands
  <2> QED
    BY <1>2
<1>7. byte = <<acc[k], 2>> /\ byte # POLL
  BY <1>2, <1>3, <1>4, <1>5, <1>6, ByteFacts DEF InOrder
<1>8. 2 * k + 1 > Len(w) /\ byte[1].addr = acc[k].addr
  BY <1>3, <1>6, <1>7
<1>9. k \in Open(byte[1].addr, acc, w)
  BY <1>6, <1>8 DEF Open
<1> QED
  BY <1>1, <1>3, <1>7, <1>9

\* What goes on with the switches: nothing, the notifier's delay begins, or what
\* should not happen.
NoSwitch == server' = "receive" /\ UNCHANGED <<switches, inbox>>

Starts(a) ==
  /\ switch_notifier[a] = "waiting" /\ server' = "receive" /\ UNCHANGED <<clock, inbox>>
  /\ switch_notifier' = [switch_notifier EXCEPT ![a] = "delay"]
  /\ owed' = [owed EXCEPT ![a] = @ + 1]

Wakes(a) ==
  /\ switch_notifier[a] = "delay" /\ server' = "receive" /\ UNCHANGED <<clock, owed>>
  /\ switch_notifier' = [switch_notifier EXCEPT ![a] = "sending"]
  /\ inbox' = Append(inbox, [type |-> "SWITCH_NOTIFIER", addr |-> a])

Strands(a) ==
  switch_notifier[a] = "sending" /\ server' = "stranded" /\ UNCHANGED <<switches, inbox>>

Woken(byte) ==
  \/ ~(count = 1 /\ byte[1].addr \in SwitchAddrs) /\ NoSwitch
  \/ /\ count = 1 /\ byte[1].addr \in SwitchAddrs
     /\ Starts(byte[1].addr) \/ Wakes(byte[1].addr) \/ Strands(byte[1].addr)

LEMMA TransmissionFacts ==
  ASSUME IOInv, handle_transmission, NEW b, b = transmit_buffer,
         NEW l, l = sequence_length_buffer, NEW byte, byte = Head(b)
  PROVE  /\ server = "put" /\ tx = "low" /\ cts = 1 /\ line = None /\ answer = 0
         /\ \E length : Writes(b, l, byte, length)
         /\ Woken(byte)
         /\ canTransmit' = FALSE /\ answering' = Nobody
         /\ rx' = IF answering = RxNotifier THEN 0 ELSE rx
         /\ carrier' = Freed(carrier, answering)
         /\ UNCHANGED <<isReceiving, clock, tx, sensor_messenger, isTriggered, task, told, tells,
                        cts, irq, answer, sensors, world, accepted, dropped, asked>>
<1>1. TypeOK /\ LineKnown /\ AnswerKnown /\ BytesKnown
  BY DEF IOInv
<1>2. server = "put" /\ tx = "low" /\ cts = 1 /\ line = None
  <2>1. server = "put" /\ TxBlocked
    BY DEF handle_transmission
  <2> QED
    BY <1>1, <2>1 DEF LineKnown, TxBlocked
<1>3. answer = 0
  BY <1>1, <1>2, MarklinAssumption DEF AnswerKnown, TypeOK
<1>4. PICK length : length = IF count = 0 /\ l # <<>> THEN Head(l) ELSE sequence_length
  OBVIOUS
<1>5. Writes(b, l, byte, length)
  BY <1>4, Zenon DEF handle_transmission, Writes
<1>6. Woken(byte)
  <2>1. PICK a : a = byte[1].addr
    OBVIOUS
  <2>2. CASE ~(count = 1 /\ a \in SwitchAddrs)
    <3>1. NoSwitch
      BY <2>1, <2>2 DEF handle_transmission, NoSwitch
    <3> QED
      BY <2>1, <2>2, <3>1 DEF Woken
  <2>3. CASE count = 1 /\ a \in SwitchAddrs
    <3>1. switch_notifier[a] \in {"waiting", "delay", "sending"}
      BY <1>1, <2>3 DEF TypeOK
    <3>2. Starts(a) \/ Wakes(a) \/ Strands(a)
      <4>1. CASE switch_notifier[a] = "waiting"
        BY <2>1, <2>3, <4>1 DEF handle_transmission, Starts
      <4>2. CASE switch_notifier[a] = "delay"
        BY <2>1, <2>3, <4>2 DEF handle_transmission, Wakes
      <4>3. CASE switch_notifier[a] = "sending"
        BY <2>1, <2>3, <4>3 DEF handle_transmission, Strands
      <4> QED
        BY <3>1, <4>1, <4>2, <4>3
    <3> QED
      BY <2>1, <2>3, <3>2 DEF Woken
  <2> QED
    BY <2>2, <2>3
<1>7. /\ canTransmit' = FALSE /\ answering' = Nobody
      /\ rx' = IF answering = RxNotifier THEN 0 ELSE rx
      /\ carrier' = Freed(carrier, answering)
      /\ UNCHANGED <<isReceiving, clock, tx, sensor_messenger, isTriggered, task, told, tells,
                     cts, irq, answer, sensors, world, accepted, dropped, asked>>
  BY DEF handle_transmission
<1> QED
  BY <1>2, <1>3, <1>5, <1>6, <1>7

LEMMA KeepsHandleTransmission ==
  ASSUME IOInv, handle_transmission
  PROVE  IOInv'
<1>1. PICK b, l, byte : b = transmit_buffer /\ l = sequence_length_buffer /\ byte = Head(b)
  OBVIOUS
<1>2. /\ server = "put" /\ tx = "low" /\ cts = 1 /\ line = None /\ answer = 0
      /\ Woken(byte)
      /\ canTransmit' = FALSE /\ answering' = Nobody
      /\ rx' = IF answering = RxNotifier THEN 0 ELSE rx
      /\ carrier' = Freed(carrier, answering)
      /\ UNCHANGED <<isReceiving, clock, tx, sensor_messenger, isTriggered, task, told, tells,
                     cts, irq, answer, sensors, world, accepted, dropped, asked>>
  BY <1>1, TransmissionFacts
<1>3. PICK length : Writes(b, l, byte, length)
  BY <1>1, TransmissionFacts
<1>4. TypeOK /\ BytesKnown /\ LineKnown /\ AnswerKnown /\ OrderKnown /\ SwitchesKnown /\ WatchKnown
  BY DEF IOInv
<1>5. /\ transmit_buffer' \in Seq(Bytes) /\ wire' \in Seq(Bytes) /\ line' = byte
      /\ Len(transmit_buffer') <= Len(b) /\ Len(b) \in Nat /\ Len(transmit_buffer') \in Nat
      /\ \/ b = <<POLL>> /\ byte = POLL /\ wire' = wire /\ isReceiving
         \/ b # <<POLL>> /\ byte \in Bytes /\ byte # POLL /\ wire' = Append(wire, byte)
  <2>1. /\ transmit_buffer' \in Seq(Bytes) /\ wire' \in Seq(Bytes)
        /\ Len(transmit_buffer') <= Len(b) /\ Len(b) \in Nat /\ Len(transmit_buffer') \in Nat
        /\ \/ b = <<POLL>> /\ byte = POLL /\ transmit_buffer' = <<>> /\ wire' = wire /\ isReceiving
           \/ /\ b \in Seq(Bytes) /\ b # <<>> /\ b # <<POLL>> /\ byte \in Bytes /\ byte # POLL
              /\ transmit_buffer' = Tail(b) /\ wire' = Append(wire, byte)
    BY <1>1, <1>2, <1>3, <1>4, WritesBytes
  <2>2. line' = byte
    BY <1>3 DEF Writes
  <2> QED
    BY <2>1, <2>2, Zenon
<1>6. transmit_buffer' # <<POLL>>
  BY <1>5, SeqOfBytes
<1>7. server' \in {"receive", "stranded"}
  BY <1>2 DEF Woken, NoSwitch, Starts, Wakes, Strands
<1>8. inbox' = inbox \/ \E a \in SwitchAddrs : inbox' = Append(inbox, [type |-> "SWITCH_NOTIFIER", addr |-> a])
  BY <1>2 DEF Woken, NoSwitch, Starts, Wakes, Strands
<1>9. /\ inbox' \in Seq(Message)
      /\ Among(inbox', TxMsg) <=> Among(inbox, TxMsg)
      /\ Among(inbox', RxMsg) <=> Among(inbox, RxMsg)
      /\ (Once(inbox, TxMsg) => Once(inbox', TxMsg)) /\ (Once(inbox, RxMsg) => Once(inbox', RxMsg))
  <2>1. inbox \in Seq(Message)
    BY <1>4 DEF BytesKnown
  <2>2. CASE inbox' = inbox
    BY <2>1, <2>2
  <2>3. ASSUME NEW a \in SwitchAddrs, inbox' = Append(inbox, [type |-> "SWITCH_NOTIFIER", addr |-> a])
        PROVE  <1>9!:
    <3>1. PICK m : m = [type |-> "SWITCH_NOTIFIER", addr |-> a]
      OBVIOUS
    <3>2. m \in Message /\ m \notin TxMsg /\ m \notin RxMsg
      BY <3>1, MessageFacts DEF Message, SwitchMsg
    <3> HIDE DEF Message
    <3> QED
      BY <2>1, <2>3, <3>1, <3>2, AppendMail
  <2> QED
    BY <1>8, <2>2, <2>3
<1>10. BytesKnown'
  <2>1. /\ line' \in Bytes \cup {POLL, None} /\ accepted' \in Seq(Commands) /\ dropped' \in BOOLEAN
    BY <1>2, <1>4, <1>5 DEF BytesKnown
  <2>2. server' # "put"
    BY <1>7
  <2> HIDE DEF Bytes, Message, Commands
  <2> QED
    BY <1>5, <1>9, <2>1, <2>2 DEF BytesKnown
<1>11. LineKnown'
  BY <1>2, <1>4, <1>7, <1>9 DEF LineKnown
<1>12. AnswerKnown'
  <2>1. /\ isReceiving' = isReceiving /\ answer' = 0 /\ answering' = Nobody /\ server' # "put"
        /\ Nobody # RxNotifier /\ ~(answer' > 0)
    BY <1>2, <1>7 DEF Nobody, RxNotifier
  <2>2. ~isReceiving => ~Among(inbox', RxMsg) /\ line' # POLL /\ rx' = 0
    BY <1>2, <1>4, <1>5, <1>9 DEF AnswerKnown
  <2>3. line' = POLL => ~Among(inbox', RxMsg) /\ rx' = 0
    BY <1>1, <1>2, <1>4, <1>5, <1>9 DEF AnswerKnown
  <2>4. Among(inbox', RxMsg) => rx' = -1
    BY <1>2, <1>4, <1>9 DEF AnswerKnown
  <2>5. Once(inbox', RxMsg)
    BY <1>4, <1>9 DEF AnswerKnown
  <2> QED
    BY <1>6, <2>1, <2>2, <2>3, <2>4, <2>5 DEF AnswerKnown
<1>13. OrderKnown'
  BY <1>1, <1>2, <1>3, <1>4, WritesOrder
<1>14. SwitchesKnown'
  <2>1. dropped' = dropped /\ world' = world /\ accepted' = accepted /\ clock' = clock
    BY <1>2
  <2> SUFFICES ASSUME world.spaced, ~dropped
               PROVE  clock /\ server' # "stranded" /\ \A a \in SwitchAddrs : SwitchFree(a)'
    BY <2>1 DEF SwitchesKnown
  <2>2. clock /\ \A a \in SwitchAddrs : SwitchFree(a)
    BY <1>4 DEF SwitchesKnown
  <2>3. Len(wire) \in Nat /\ Len(wire') \in Nat /\ Len(wire) <= Len(wire') /\ (byte # POLL => Len(wire') = Len(wire) + 1)
    <3>1. wire \in Seq(Bytes)
      BY <1>4 DEF BytesKnown
    <3> HIDE DEF Bytes
    <3> QED
      BY <1>5, <3>1
  <2>4. \A a : Open(a, accepted, wire') \subseteq Open(a, accepted, wire)
    <3>1. \A i \in DOMAIN accepted : i \in Nat
      <4>1. accepted \in Seq(Commands)
        BY <1>4 DEF BytesKnown
      <4> HIDE DEF Commands
      <4> QED
        BY <4>1
    <3>2. \A i \in DOMAIN accepted : 2 * i + 1 > Len(wire') => 2 * i + 1 > Len(wire)
      BY <2>3, <3>1
    <3> QED
      BY <3>2 DEF Open
  <2>5. CASE NoSwitch
    <3>1. server' = "receive" /\ inbox' = inbox /\ switch_notifier' = switch_notifier /\ owed' = owed
      BY <2>5 DEF NoSwitch, switches
    <3>2. ASSUME NEW a \in SwitchAddrs PROVE SwitchFree(a)'
      <4>1. SwitchFree(a) /\ Open(a, accepted, wire') \subseteq Open(a, accepted, wire)
        BY <2>2, <2>4
      <4> QED
        BY <2>1, <3>1, <4>1 DEF SwitchFree
    <3> QED
      BY <2>2, <3>1, <3>2
  <2>6. CASE ~NoSwitch
    <3>1. PICK d : d = byte[1].addr
      OBVIOUS
    <3>2. count = 1 /\ d \in SwitchAddrs /\ (Starts(d) \/ Wakes(d) \/ Strands(d))
      BY <1>2, <2>6, <3>1 DEF Woken
    <3>3. PICK k \in Open(d, accepted, wire) : Len(wire) = 2 * k /\ byte # POLL
      BY <1>1, <1>2, <1>4, <3>1, <3>2, SecondByte
    <3>4. SwitchFree(d)
      BY <2>2, <3>2
    <3>5. switch_notifier[d] = "waiting" /\ owed[d] = 0 /\ ~Among(inbox, CmdMsg(d)) /\ ~Among(inbox, SwitchMsg(d))
      BY <3>3, <3>4 DEF SwitchFree
    <3>6. /\ server' = "receive" /\ inbox' = inbox
          /\ switch_notifier' = [switch_notifier EXCEPT ![d] = "delay"]
          /\ owed' = [owed EXCEPT ![d] = @ + 1]
      BY <3>2, <3>5 DEF Starts, Wakes, Strands
    <3>7. Open(d, accepted, wire') = {}
      <4>1. \A i \in Open(d, accepted, wire') : i = k
        BY <2>4, <3>3, <3>4 DEF SwitchFree
      <4>2. ~(2 * k + 1 > Len(wire'))
        BY <2>3, <3>3
      <4> QED
        BY <4>1, <4>2 DEF Open
    <3>8. ASSUME NEW a \in SwitchAddrs PROVE SwitchFree(a)'
      <4>1. SwitchFree(a) /\ Open(a, accepted, wire') \subseteq Open(a, accepted, wire)
        BY <2>2, <2>4
      <4>2. CASE a = d
        <5>1. switch_notifier'[d] = "delay" /\ owed'[d] = 1
          BY <1>4, <3>2, <3>5, <3>6 DEF TypeOK
        <5> QED
          BY <2>1, <3>5, <3>6, <3>7, <4>1, <4>2, <5>1 DEF SwitchFree
      <4>3. CASE a # d
        <5>1. switch_notifier'[a] = switch_notifier[a] /\ owed'[a] = owed[a]
          BY <1>4, <3>2, <3>6, <4>3 DEF TypeOK
        <5> QED
          BY <2>1, <3>6, <4>1, <5>1 DEF SwitchFree
      <4> QED
        BY <4>2, <4>3
    <3> QED
      BY <2>2, <3>6, <3>8
  <2> QED
    BY <2>5, <2>6
<1>15. WatchKnown'
  BY <1>2, <1>4, WatchFrame DEF sensors
<1>16. TypeOK'
  <2>1. /\ switch_notifier' \in [SwitchAddrs -> {"waiting", "delay", "sending"}]
        /\ owed' \in [SwitchAddrs -> Nat]
    <3>1. /\ switch_notifier \in [SwitchAddrs -> {"waiting", "delay", "sending"}]
          /\ owed \in [SwitchAddrs -> Nat]
      BY <1>4 DEF TypeOK
    <3>2. CASE NoSwitch
      BY <3>1, <3>2 DEF NoSwitch, switches
    <3>3. ASSUME NEW a \in SwitchAddrs, Starts(a) \/ Wakes(a) \/ Strands(a) PROVE <2>1!:
      BY <3>1, <3>3, SMTT(30) DEF Starts, Wakes, Strands, switches
    <3> QED
      BY <1>2, <3>2, <3>3 DEF Woken
  <2>2. carrier' \in [TrainSet -> BOOLEAN]
    BY <1>2, <1>4, Zenon DEF Freed, TypeOK
  <2>3. Len(transmit_buffer') <= TxRoom
    BY <1>1, <1>4, <1>5, MarklinAssumption DEF TypeOK
  <2>4. rx' \in -1 .. BYTES - 1
    BY <1>2, <1>4, MarklinAssumption DEF TypeOK
  <2>5. /\ server' \in {"receive", "put", "stranded"} /\ canTransmit' \in BOOLEAN /\ isReceiving' \in BOOLEAN
        /\ answering' \in TrainSet \cup {Nobody, RxNotifier}
    BY <1>2, <1>4, <1>7 DEF TypeOK
  <2> QED
    BY <1>2, <1>4, <2>1, <2>2, <2>3, <2>4, <2>5 DEF TypeOK, sensors
<1> QED
  BY <1>10, <1>11, <1>12, <1>13, <1>14, <1>15, <1>16 DEF IOInv

\* Nothing is on the line when a byte is written, nor is an answer awaited, and a
\* poll goes out between commands.
LEMMA WritesWhenClear ==
  ASSUME IOInv, handle_transmission
  PROVE  /\ cts = 1 /\ line = None /\ answer = 0
         /\ line' = POLL /\ ~dropped => wire # <<>> /\ (wire[Len(wire)] = RESET \/ wire[Len(wire)][2] = 2)
<1>1. PICK b, l, byte, w, acc :
        /\ b = transmit_buffer /\ l = sequence_length_buffer /\ byte = Head(b) /\ w = wire /\ acc = accepted
  OBVIOUS
<1>2. server = "put" /\ cts = 1 /\ line = None /\ answer = 0
  BY <1>1, TransmissionFacts
<1>3. PICK length : Writes(b, l, byte, length)
  BY <1>1, TransmissionFacts
<1>4. BytesKnown /\ OrderKnown
  BY DEF IOInv
<1>5. ASSUME line' = POLL, ~dropped PROVE w # <<>> /\ (w[Len(w)] = RESET \/ w[Len(w)][2] = 2)
  <2>1. byte = POLL /\ b = <<POLL>>
    <3>1. byte = POLL
      BY <1>3, <1>5 DEF Writes
    <3> QED
      BY <1>1, <1>2, <1>3, <1>4, <3>1, WritesBytes
  <2>2. w \in Seq(Bytes) /\ acc \in Seq(Commands) /\ InOrder(acc, w \o <<>>) /\ Len(w) = 2 * Len(acc) + 1
    BY <1>1, <1>4, <1>5, <2>1 DEF BytesKnown, OrderKnown, Unpolled, Aligned
  <2> HIDE DEF Bytes, Commands
  <2>3. w \o <<>> = w /\ w # <<>> /\ Len(acc) \in Nat /\ DOMAIN acc = 1 .. Len(acc)
    BY <2>2
  <2>4. CASE Len(acc) = 0
    BY <2>2, <2>3, <2>4 DEF InOrder
  <2>5. CASE Len(acc) # 0
    <3>1. Len(acc) \in DOMAIN acc
      BY <2>3, <2>5
    <3>2. w[2 * Len(acc) + 1] = <<acc[Len(acc)], 2>>
      BY <2>2, <2>3, <3>1 DEF InOrder
    <3> QED
      BY <2>2, <2>3, <3>2
  <2> QED
    BY <2>4, <2>5
<1> QED
  BY <1>1, <1>2, <1>5

-----------------------------------------------------------------------------
(* The other tasks and the railway leave the server as it is.              *)

\* The parts of the invariant that speak of the server, and of its queue.
LEMMA ServerFrame ==
  ASSUME BytesKnown, OrderKnown, UNCHANGED <<serverVars, accepted, dropped, wire>>,
         inbox' \in Seq(Message), line' \in {line, None}
  PROVE  BytesKnown' /\ OrderKnown'
<1> HIDE DEF Bytes, Message, Commands
<1>1. /\ server' = server /\ transmit_buffer' = transmit_buffer /\ isReceiving' = isReceiving
      /\ sequence_length_buffer' = sequence_length_buffer /\ sequence_length' = sequence_length
      /\ count' = count /\ accepted' = accepted /\ dropped' = dropped /\ wire' = wire
  BY DEF serverVars
<1>2. BytesKnown'
  BY <1>1 DEF BytesKnown
<1>3. OrderKnown'
  BY <1>1, OrderFrame
<1> QED
  BY <1>2, <1>3

LEMMA Joins ==
  ASSUME BytesKnown, NEW m \in Message, inbox' = Append(inbox, m), NEW M
  PROVE  /\ inbox' \in Seq(Message) /\ (Among(inbox', M) <=> Among(inbox, M) \/ m \in M)
         /\ Once(inbox, M) /\ (m \in M => ~Among(inbox, M)) => Once(inbox', M)
<1> HIDE DEF Message
<1>1. inbox \in Seq(Message)
  BY DEF BytesKnown
<1> QED
  BY <1>1, AppendMail

\* The sets of messages have none in common.
LEMMA MailApart ==
  ASSUME NEW m, NEW a
  PROVE  /\ m \in TxMsg => m \notin RxMsg /\ m \notin SwitchMsg(a) /\ m \notin CmdMsg(a)
         /\ m \in RxMsg => m \notin TxMsg /\ m \notin SwitchMsg(a) /\ m \notin CmdMsg(a)
         /\ m.type = "SWITCH_NOTIFIER" => m \notin TxMsg /\ m \notin RxMsg /\ m \notin CmdMsg(a)
         /\ m.type = "SEND_CMD" => m \notin TxMsg /\ m \notin RxMsg /\ m \notin SwitchMsg(a)
         /\ m.type \in {"SENSOR_MESSENGER", "SENSOR_LISTENER"} =>
              m \notin TxMsg /\ m \notin RxMsg /\ m \notin SwitchMsg(a) /\ m \notin CmdMsg(a)
  BY MessageFacts

\* A message that is of no concern to the notifiers and the switches.
LEMMA OtherMail ==
  ASSUME IOInv, NEW m \in Message, inbox' = Append(inbox, m),
         m.type \in {"SENSOR_MESSENGER", "SENSOR_LISTENER"},
         UNCHANGED <<serverVars, tx, rx, switches, uart, world, accepted, dropped, wire>>
  PROVE  BytesKnown' /\ LineKnown' /\ AnswerKnown' /\ OrderKnown' /\ SwitchesKnown'
<1>1. TypeOK /\ BytesKnown /\ LineKnown /\ AnswerKnown /\ OrderKnown /\ SwitchesKnown
  BY DEF IOInv
<1>2. inbox' \in Seq(Message) /\ line' = line /\ cts' = cts /\ answer' = answer
  BY <1>1, Joins DEF uart
<1>3. BytesKnown' /\ OrderKnown'
  BY <1>1, <1>2, ServerFrame
<1>4. (Among(inbox', TxMsg) <=> Among(inbox, TxMsg)) /\ (Once(inbox, TxMsg) => Once(inbox', TxMsg))
  BY <1>1, Joins, MailApart
<1>5. (Among(inbox', RxMsg) <=> Among(inbox, RxMsg)) /\ (Once(inbox, RxMsg) => Once(inbox', RxMsg))
  BY <1>1, Joins, MailApart
<1>6. ASSUME NEW a \in SwitchAddrs
      PROVE  /\ (Among(inbox', SwitchMsg(a)) => Among(inbox, SwitchMsg(a)))
             /\ (Among(inbox', CmdMsg(a)) => Among(inbox, CmdMsg(a)))
             /\ (Once(inbox, SwitchMsg(a)) => Once(inbox', SwitchMsg(a)))
             /\ (Once(inbox, CmdMsg(a)) => Once(inbox', CmdMsg(a)))
  BY <1>1, Joins, MailApart
<1>7. LineKnown'
  BY <1>1, <1>2, <1>4 DEF LineKnown, serverVars
<1>8. AnswerKnown'
  BY <1>1, <1>2, <1>5 DEF AnswerKnown, serverVars
<1>9. server' = server
  BY DEF serverVars
<1>10. SwitchesKnown'
  <2>1. world.spaced /\ ~dropped' => server' # "stranded"
    BY <1>1, <1>9 DEF SwitchesKnown
  <2> QED
    BY <1>1, <1>6, <2>1, SwitchesFrame
<1> QED
  BY <1>3, <1>7, <1>8, <1>10

\* A step that adds no message and does not concern the switches.
LEMMA NoMail ==
  ASSUME IOInv, inbox' = inbox, UNCHANGED <<serverVars, switches, world, accepted, dropped, wire>>,
         line' \in {line, None}
  PROVE  BytesKnown' /\ OrderKnown' /\ SwitchesKnown'
<1>1. BytesKnown /\ OrderKnown /\ SwitchesKnown /\ inbox \in Seq(Message) /\ server' = server
  BY DEF IOInv, BytesKnown, serverVars
<1>2. BytesKnown' /\ OrderKnown'
  BY <1>1, ServerFrame
<1>3. world.spaced /\ ~dropped' => server' # "stranded"
  BY <1>1 DEF SwitchesKnown
<1>4. SwitchesKnown'
  BY <1>1, <1>3, SwitchesFrame
<1> QED
  BY <1>2, <1>4

LEMMA KeepsLook ==
  ASSUME IOInv, Look \/ AWAITEVENT \/ CtsInterrupt
  PROVE  IOInv'
<1>1. TypeOK /\ LineKnown /\ AnswerKnown /\ WatchKnown
  BY DEF IOInv
<1>2. /\ inbox' = inbox /\ cts' = cts /\ line' = line /\ answer' = answer
      /\ UNCHANGED <<serverVars, rx, switches, watching, sensors, history>>
  BY DEF Look, AWAITEVENT, CtsInterrupt, uart
<1>3. tx' # tx =>
        \/ tx = "top" /\ ((cts = 1 /\ tx' = "send") \/ tx' = "to_clear")
        \/ tx = "sent" /\ ((cts = 0 /\ tx' = "check_high") \/ tx' = "to_low")
        \/ tx = "check_high" /\ tx' \in {"top", "to_high"}
        \/ tx = "to_clear" /\ tx' = "clear"
        \/ tx = "to_low" /\ tx' = "low"
        \/ tx = "to_high" /\ tx' = "high"
        \/ cts = 1 /\ tx = "high" /\ tx' = "top"
        \/ cts = 1 /\ tx = "clear" /\ tx' = "send"
        \/ cts = 0 /\ tx = "low" /\ tx' = "check_high"
  <2>1. CASE Look
    BY <2>1 DEF Look, Goes
  <2>2. CASE AWAITEVENT
    BY <2>2, Zenon DEF AWAITEVENT, Goes
  <2>3. CASE CtsInterrupt
    <3>1. tx' = CASE cts = 1 /\ tx = "high" -> "top"
                  [] cts = 1 /\ tx = "clear" -> "send"
                  [] cts = 0 /\ tx = "low" -> "check_high"
                  [] OTHER -> tx
      BY <2>3 DEF CtsInterrupt
    <3>2. cts = 1 /\ tx = "high" => tx' = "top"
      BY <3>1
    <3>3. cts = 1 /\ tx = "clear" => tx' = "send"
      BY <3>1
    <3>4. cts = 0 /\ tx = "low" => tx' = "check_high"
      BY <3>1
    <3>5. ~(cts = 1 /\ tx = "high") /\ ~(cts = 1 /\ tx = "clear") /\ ~(cts = 0 /\ tx = "low") => tx' = tx
      BY <3>1
    <3> QED
      BY <3>2, <3>3, <3>4, <3>5, Zenon
  <2> QED
    BY <2>1, <2>2, <2>3
<1>4. BytesKnown' /\ OrderKnown' /\ SwitchesKnown'
  BY <1>2, NoMail DEF history
<1>5. LineKnown'
  <2>1. server' = server /\ canTransmit' = canTransmit
    BY <1>2 DEF serverVars
  <2> QED
    BY <1>1, <1>2, <1>3, <2>1 DEF LineKnown
<1>6. AnswerKnown'
  BY <1>1, <1>2 DEF AnswerKnown, serverVars
<1>7. WatchKnown'
  BY <1>1, <1>2, WatchFrame DEF watching, sensors, history
<1>8. TypeOK'
  BY <1>1, <1>2, <1>3 DEF TypeOK, serverVars, switches, watching, sensors, history
<1> QED
  BY <1>4, <1>5, <1>6, <1>7, <1>8 DEF IOInv

LEMMA KeepsTellServer ==
  ASSUME IOInv, TellServer
  PROVE  IOInv'
<1>1. TypeOK /\ BytesKnown /\ LineKnown /\ AnswerKnown /\ OrderKnown /\ SwitchesKnown /\ WatchKnown
  BY DEF IOInv
<1>2. PICK m : m = [type |-> "TX_NOTIFIER"]
  OBVIOUS
<1>3. m \in TxMsg /\ m \in Message
  BY <1>2 DEF TxMsg, Message
<1>4. /\ tx = "send" /\ tx' = "server" /\ inbox' = Append(inbox, m)
      /\ UNCHANGED <<serverVars, rx, switches, watching, uart, sensors, history>>
  BY <1>2 DEF TellServer, Goes
<1>5. inbox' \in Seq(Message) /\ line' = line /\ cts' = cts /\ answer' = answer
  BY <1>1, <1>3, <1>4, Joins DEF uart
<1>6. BytesKnown' /\ OrderKnown'
  BY <1>1, <1>4, <1>5, ServerFrame DEF history
<1>7. ~Among(inbox, TxMsg) /\ cts = 1 /\ server # "put"
  BY <1>1, <1>4 DEF LineKnown
<1>8. Once(inbox', TxMsg)
  BY <1>1, <1>3, <1>4, <1>7, Joins DEF LineKnown
<1>9. (Among(inbox', RxMsg) <=> Among(inbox, RxMsg)) /\ (Once(inbox, RxMsg) => Once(inbox', RxMsg))
  BY <1>1, <1>3, <1>4, Joins, MailApart
<1>10. ASSUME NEW a \in SwitchAddrs
       PROVE  /\ (Among(inbox', SwitchMsg(a)) => Among(inbox, SwitchMsg(a)))
              /\ (Among(inbox', CmdMsg(a)) => Among(inbox, CmdMsg(a)))
              /\ (Once(inbox, SwitchMsg(a)) => Once(inbox', SwitchMsg(a)))
              /\ (Once(inbox, CmdMsg(a)) => Once(inbox', CmdMsg(a)))
  BY <1>1, <1>3, <1>4, Joins, MailApart
<1>11. server' = server /\ canTransmit' = canTransmit
  BY <1>4 DEF serverVars
<1>12. LineKnown'
  BY <1>1, <1>4, <1>5, <1>7, <1>8, <1>11 DEF LineKnown
<1>13. AnswerKnown'
  BY <1>1, <1>4, <1>5, <1>9 DEF AnswerKnown, serverVars
<1>14. SwitchesKnown'
  <2>1. world.spaced /\ ~dropped' => server' # "stranded"
    BY <1>1, <1>4, <1>11 DEF SwitchesKnown, history
  <2> QED
    BY <1>1, <1>4, <1>10, <2>1, SwitchesFrame DEF history
<1>15. WatchKnown'
  BY <1>1, <1>4, WatchFrame DEF watching, sensors, history, uart
<1>16. TypeOK'
  BY <1>1, <1>4 DEF TypeOK, serverVars, switches, watching, uart, sensors, history
<1> QED
  BY <1>6, <1>12, <1>13, <1>14, <1>15, <1>16 DEF IOInv

LEMMA KeepsStart ==
  ASSUME IOInv, NEW t \in TrainSet, start_sensor_messenger(t)
  PROVE  IOInv'
<1>1. TypeOK /\ WatchKnown
  BY DEF IOInv
<1>2. PICK m : m = [type |-> "SENSOR_MESSENGER", train |-> t]
  OBVIOUS
<1>3. m \in Message /\ m.type = "SENSOR_MESSENGER"
  BY <1>2 DEF Message
<1>4. /\ task[t] \in {"starting", "telling"} /\ inbox' = Append(inbox, m)
      /\ task' = [task EXCEPT ![t] = "coming"]
      /\ told' = [told EXCEPT ![t] = NoSensor]
      /\ UNCHANGED <<serverVars, tx, rx, switches, sensor_messenger, isTriggered, carrier, tells,
                     uart, sensors, history>>
  BY <1>2 DEF start_sensor_messenger
<1>5. BytesKnown' /\ LineKnown' /\ AnswerKnown' /\ OrderKnown' /\ SwitchesKnown'
  BY <1>3, <1>4, OtherMail DEF history
<1>6. WatchKnown'
  <2>1. TriggeredIsFresh'
    BY <1>1, <1>4 DEF WatchKnown, TriggeredIsFresh, uart, sensors
  <2>2. sensor_messenger' = sensor_messenger /\ tells' = tells /\ asked' = asked
    BY <1>4 DEF history
  <2>3. Watched(sensor_messenger, task', tells, asked)
    BY <1>1, <1>4 DEF WatchKnown, Watched, TypeOK
  <2> QED
    BY <2>1, <2>2, <2>3 DEF WatchKnown
<1>7. TypeOK'
  <2>1. /\ task' \in [TrainSet -> {"none", "starting", "coming", "waiting", "telling"}]
        /\ told' \in [TrainSet -> Sensors \cup {NoSensor}]
    BY <1>1, <1>4, Zenon DEF TypeOK
  <2> QED
    BY <1>1, <1>4, <2>1 DEF TypeOK, serverVars, switches, uart, sensors, history
<1> QED
  BY <1>5, <1>6, <1>7 DEF IOInv

LEMMA KeepsListen ==
  ASSUME IOInv, NEW t \in TrainSet, NEW first \in world.sensors, NEW second \in world.sensors \cup {NoSensor},
         Listen(t, first, second)
  PROVE  IOInv'
<1>1. TypeOK /\ WatchKnown
  BY DEF IOInv
<1>2. PICK m : m = [type |-> "SENSOR_LISTENER", train |-> t, first |-> first, second |-> second]
  OBVIOUS
<1>3. m \in Message /\ m.type = "SENSOR_LISTENER"
  <2>1. world.sensors \subseteq Sensors
    BY <1>1, MarklinAssumption DEF TypeOK
  <2> QED
    BY <1>2, <2>1 DEF Message
<1>4. /\ carrier' = [carrier EXCEPT ![t] = TRUE] /\ inbox' = Append(inbox, m)
      /\ UNCHANGED <<serverVars, tx, rx, switches, sensor_messenger, isTriggered, task, told, tells,
                     uart, sensors, history>>
  BY <1>2 DEF Listen
<1>5. BytesKnown' /\ LineKnown' /\ AnswerKnown' /\ OrderKnown' /\ SwitchesKnown'
  BY <1>3, <1>4, OtherMail DEF history
<1>6. WatchKnown'
  BY <1>1, <1>4, WatchFrame DEF sensors, history, uart
<1>7. TypeOK'
  <2>1. carrier' \in [TrainSet -> BOOLEAN]
    BY <1>1, <1>4, Zenon DEF TypeOK
  <2> QED
    BY <1>1, <1>4, <2>1 DEF TypeOK, serverVars, switches, uart, sensors, history
<1> QED
  BY <1>5, <1>6, <1>7 DEF IOInv

LEMMA KeepsRailway ==
  ASSUME IOInv, Railway
  PROVE  IOInv'
<1>1. TypeOK /\ BytesKnown /\ LineKnown /\ AnswerKnown /\ WatchKnown
  BY DEF IOInv
<1>2. /\ inbox' = inbox /\ line' \in {line, None}
      /\ UNCHANGED <<serverVars, tx, rx, switches, watching, under, history>>
  BY DEF Railway, Busy, ClearAgain, sensors
<1>3. BytesKnown' /\ OrderKnown' /\ SwitchesKnown'
  BY <1>2, NoMail DEF history
<1>4. /\ server' = server /\ canTransmit' = canTransmit /\ isReceiving' = isReceiving
      /\ transmit_buffer' = transmit_buffer /\ answering' = answering /\ rx' = rx /\ tx' = tx
  BY <1>2 DEF serverVars
<1>5. BYTES \in Nat /\ BYTES > 0
  BY MarklinAssumption
<1>6. CASE ClearAgain
  <2>1. cts = 0 /\ cts' = 1 /\ UNCHANGED <<line, answer, sensors>>
    BY <1>6 DEF ClearAgain
  <2>2. LineKnown'
    BY <1>1, <1>2, <1>4, <2>1 DEF LineKnown
  <2>3. AnswerKnown'
    BY <1>1, <1>2, <1>4, <2>1 DEF AnswerKnown
  <2>4. WatchKnown'
    BY <1>1, <1>2, <2>1, WatchFrame DEF watching, sensors, history
  <2>5. TypeOK'
    BY <1>1, <1>2, <2>1 DEF TypeOK, serverVars, switches, watching, sensors, history
  <2> QED
    BY <1>3, <2>2, <2>3, <2>4, <2>5 DEF IOInv
<1>7. CASE Busy
  <2>1. /\ line # None /\ cts = 1 /\ cts' = 0 /\ line' = None
        /\ \/ line = POLL /\ answer' = BYTES /\ reading' = latch /\ latch' = under
           \/ line # POLL /\ UNCHANGED <<answer, reading, latch>>
    BY <1>7 DEF Busy
  <2>2. LineKnown'
    BY <1>1, <1>2, <1>4, <2>1 DEF LineKnown
  <2>3. AnswerKnown'
    <3>1. line' # POLL
      BY <2>1, ByteFacts
    <3>2. CASE line = POLL
      BY <1>1, <1>2, <1>4, <1>5, <2>1, <3>1, <3>2 DEF AnswerKnown
    <3>3. CASE line # POLL
      BY <1>1, <1>2, <1>4, <2>1, <3>1, <3>3 DEF AnswerKnown
    <3> QED
      BY <3>2, <3>3
  <2>4. WatchKnown'
    <3>1. sensor_messenger' = sensor_messenger /\ tells' = tells /\ asked' = asked /\ task' = task
          /\ isTriggered' = isTriggered
      BY <1>2 DEF history, watching
    <3>2. TriggeredIsFresh'
      BY <1>1, <1>5, <2>1, <3>1 DEF WatchKnown, TriggeredIsFresh
    <3> QED
      BY <1>1, <3>1, <3>2 DEF WatchKnown
  <2>5. TypeOK'
    <3>1. answer' \in 0 .. BYTES /\ reading' \subseteq Sensors /\ latch' \subseteq Sensors
      BY <1>1, <1>5, <2>1 DEF TypeOK
    <3> QED
      BY <1>1, <1>2, <2>1, <3>1 DEF TypeOK, serverVars, switches, watching, history
  <2> QED
    BY <1>3, <2>2, <2>3, <2>4, <2>5 DEF IOInv
<1> QED
  BY <1>6, <1>7 DEF Railway

LEMMA KeepsTouch ==
  ASSUME IOInv, NEW s \in world.touched, Touch(s) \/ Leave(s)
  PROVE  IOInv'
<1>1. TypeOK /\ LineKnown /\ AnswerKnown /\ WatchKnown
  BY DEF IOInv
<1>2. UNCHANGED <<inbox, serverVars, tx, rx, switches, watching, uart, reading, history>>
  BY DEF Touch, Leave
<1>3. BytesKnown' /\ OrderKnown' /\ SwitchesKnown'
  BY <1>2, NoMail DEF history, uart
<1>4. LineKnown' /\ AnswerKnown'
  BY <1>1, <1>2 DEF LineKnown, AnswerKnown, serverVars, uart
<1>5. WatchKnown'
  BY <1>1, <1>2, WatchFrame DEF watching, history, uart
<1>6. TypeOK'
  <2>1. world.touched \subseteq Sensors
    BY <1>1, MarklinAssumption DEF TypeOK
  <2>2. under' \subseteq Sensors /\ latch' \subseteq Sensors
    BY <1>1, <2>1 DEF TypeOK, Touch, Leave
  <2> QED
    BY <1>1, <1>2, <2>2 DEF TypeOK, serverVars, switches, watching, history, uart
<1> QED
  BY <1>3, <1>4, <1>5, <1>6 DEF IOInv

LEMMA KeepsNotifierRx ==
  ASSUME IOInv, notifier_rx
  PROVE  IOInv'
<1>1. TypeOK /\ BytesKnown /\ LineKnown /\ AnswerKnown /\ OrderKnown /\ SwitchesKnown /\ WatchKnown
  BY DEF IOInv
<1>2. /\ answer > 0 /\ rx \in Nat /\ answer' = answer - 1
      /\ UNCHANGED <<serverVars, tx, switches, sensor_messenger, task, told, carrier, tells,
                     cts, irq, line, sensors, history>>
  BY DEF notifier_rx
<1>3. answer \in 0 .. BYTES /\ BYTES \in Nat /\ rx + answer = BYTES
  BY <1>1, <1>2, MarklinAssumption DEF AnswerKnown, TypeOK
<1>4. /\ isReceiving /\ line # POLL /\ ~Among(inbox, RxMsg) /\ transmit_buffer # <<POLL>>
      /\ answering # RxNotifier
  BY <1>1, <1>2 DEF AnswerKnown
<1>5. /\ isReceiving' = isReceiving /\ line' = line /\ transmit_buffer' = transmit_buffer
      /\ answering' = answering /\ server' = server /\ canTransmit' = canTransmit
  BY <1>2 DEF serverVars
<1>6. CASE rx + 1 < BYTES /\ rx' = rx + 1 /\ UNCHANGED <<inbox, isTriggered>>
  <2>1. BytesKnown' /\ OrderKnown' /\ SwitchesKnown'
    BY <1>2, <1>6, NoMail DEF history
  <2>2. LineKnown'
    BY <1>1, <1>2, <1>5, <1>6 DEF LineKnown
  <2>3. answer' > 0 /\ answer' \in 0 .. BYTES /\ rx' + answer' = BYTES /\ rx' \in -1 .. BYTES - 1
    BY <1>2, <1>3, <1>6
  <2>4. AnswerKnown'
    BY <1>1, <1>4, <1>5, <1>6, <2>3 DEF AnswerKnown
  <2>5. WatchKnown'
    <3>1. TriggeredIsFresh'
      BY <2>3 DEF TriggeredIsFresh
    <3>2. sensor_messenger' = sensor_messenger /\ tells' = tells /\ asked' = asked /\ task' = task
      BY <1>2 DEF history
    <3> QED
      BY <1>1, <3>1, <3>2 DEF WatchKnown
  <2>6. TypeOK'
    BY <1>1, <1>2, <1>6, <2>3 DEF TypeOK, serverVars, switches, sensors, history
  <2> QED
    BY <2>1, <2>2, <2>4, <2>5, <2>6 DEF IOInv
<1>7. CASE /\ rx + 1 = BYTES /\ rx' = -1 /\ isTriggered' = reading
           /\ inbox' = Append(inbox, [type |-> "RX_NOTIFIER"])
  <2>1. PICK m : m = [type |-> "RX_NOTIFIER"]
    OBVIOUS
  <2>2. m \in RxMsg /\ m \in Message /\ inbox' = Append(inbox, m)
    BY <1>7, <2>1 DEF RxMsg, Message
  <2>3. inbox' \in Seq(Message) /\ Once(inbox', RxMsg)
    BY <1>1, <1>4, <2>2, Joins DEF AnswerKnown
  <2>4. (Among(inbox', TxMsg) <=> Among(inbox, TxMsg)) /\ (Once(inbox, TxMsg) => Once(inbox', TxMsg))
    BY <1>1, <2>2, Joins, MailApart
  <2>5. ASSUME NEW a \in SwitchAddrs
        PROVE  /\ (Among(inbox', SwitchMsg(a)) => Among(inbox, SwitchMsg(a)))
               /\ (Among(inbox', CmdMsg(a)) => Among(inbox, CmdMsg(a)))
               /\ (Once(inbox, SwitchMsg(a)) => Once(inbox', SwitchMsg(a)))
               /\ (Once(inbox, CmdMsg(a)) => Once(inbox', CmdMsg(a)))
    BY <1>1, <2>2, Joins, MailApart
  <2>6. BytesKnown' /\ OrderKnown'
    BY <1>1, <1>2, <1>5, <2>3, ServerFrame DEF history
  <2>7. LineKnown'
    BY <1>1, <1>2, <1>5, <2>4 DEF LineKnown
  <2>8. answer' = 0
    BY <1>2, <1>3, <1>7
  <2>9. AnswerKnown'
    BY <1>1, <1>4, <1>5, <1>7, <2>3, <2>8 DEF AnswerKnown
  <2>10. SwitchesKnown'
    <3>1. world.spaced /\ ~dropped' => server' # "stranded"
      BY <1>1, <1>2, <1>5 DEF SwitchesKnown, history
    <3> QED
      BY <1>1, <1>2, <2>5, <3>1, SwitchesFrame DEF history
  <2>11. WatchKnown'
    <3>1. TriggeredIsFresh'
      BY <1>2, <1>7 DEF TriggeredIsFresh, sensors
    <3>2. sensor_messenger' = sensor_messenger /\ tells' = tells /\ asked' = asked /\ task' = task
      BY <1>2 DEF history
    <3> QED
      BY <1>1, <3>1, <3>2 DEF WatchKnown
  <2>12. TypeOK'
    BY <1>1, <1>2, <1>3, <1>7, <2>8 DEF TypeOK, serverVars, switches, sensors, history
  <2> QED
    BY <2>6, <2>7, <2>9, <2>10, <2>11, <2>12 DEF IOInv
<1> QED
  BY <1>6, <1>7 DEF notifier_rx, processSensorData

\* The commands are counted.
LEMMA GivenIsNat ==
  ASSUME BytesKnown
  PROVE  Given \in Nat
<1>1. Len(accepted) \in Nat
  <2>1. accepted \in Seq(Commands)
    BY DEF BytesKnown
  <2> HIDE DEF Commands
  <2> QED
    BY <2>1
<1>2. DOMAIN inbox = 1 .. Len(inbox) /\ Len(inbox) \in Nat
  <2>1. inbox \in Seq(Message)
    BY DEF BytesKnown
  <2> HIDE DEF Message
  <2> QED
    BY <2>1
<1>3. IsFiniteSet(1 .. Len(inbox))
  BY <1>2, FS_Interval
<1>4. {i \in DOMAIN inbox : inbox[i].type = "SEND_CMD"} \subseteq 1 .. Len(inbox)
  BY <1>2
<1>5. IsFiniteSet({i \in DOMAIN inbox : inbox[i].type = "SEND_CMD"})
  BY <1>3, <1>4, FS_Subset
<1>6. Cardinality({i \in DOMAIN inbox : inbox[i].type = "SEND_CMD"}) \in Nat
  BY <1>5, FS_CardinalityType
<1> QED
  BY <1>1, <1>6 DEF Given

\* What has yet to be sent is in the buffer.
LEMMA OpenIsInBuffer ==
  ASSUME BytesKnown, OrderKnown, ~dropped, NEW a,
         \A i \in DOMAIN transmit_buffer : transmit_buffer[i][1].addr # a
  PROVE  Open(a, accepted, wire) = {}
<1>1. PICK b, w, acc, u, x :
        /\ b = transmit_buffer /\ w = wire /\ acc = accepted /\ u = Unpolled(b) /\ x = w \o u
  OBVIOUS
<1>2. w \in Seq(Bytes) /\ acc \in Seq(Commands) /\ InOrder(acc, x)
  BY <1>1 DEF BytesKnown, OrderKnown
<1>3. u \in Seq(Bytes) /\ (u = <<>> \/ u = b)
  BY <1>1, SeqOfBytes DEF BytesKnown, Unpolled
<1>4. /\ Len(w) \in Nat /\ Len(u) \in Nat /\ Len(x) = Len(w) + Len(u)
      /\ \A i \in 1 .. Len(u) : x[Len(w) + i] = u[i]
  BY <1>1, <1>2, <1>3, Joined
<1>5. DOMAIN acc = 1 .. Len(acc) /\ Len(acc) \in Nat /\ DOMAIN u = 1 .. Len(u)
  <2> HIDE DEF Commands, Bytes
  <2> QED
    BY <1>2, <1>3
<1>6. ASSUME NEW i \in DOMAIN acc, acc[i].addr = a, 2 * i + 1 > Len(w)
      PROVE  FALSE
  <2>1. x[2 * i + 1] = <<acc[i], 2>> /\ Len(x) = 2 * Len(acc) + 1
    BY <1>2 DEF InOrder
  <2>2. PICK j \in 1 .. Len(u) : 2 * i + 1 = Len(w) + j
    <3>1. Len(w) + Len(u) = 2 * Len(acc) + 1 /\ i \in 1 .. Len(acc) /\ 2 * i + 1 > Len(w)
      BY <1>4, <1>5, <1>6, <2>1
    <3>2. PICK j : j = 2 * i + 1 - Len(w)
      OBVIOUS
    <3>3. j \in 1 .. Len(u) /\ 2 * i + 1 = Len(w) + j
      BY <1>4, <1>5, <3>1, <3>2
    <3> QED
      BY <3>3
  <2>3. u[j] = <<acc[i], 2>>
    BY <1>4, <2>1, <2>2
  <2>4. u = b /\ u[j][1].addr = a /\ j \in DOMAIN u
    BY <1>3, <1>5, <1>6, <2>3
  <2> QED
    BY <1>1, <2>4
<1> QED
  BY <1>1, <1>6 DEF Open

LEMMA KeepsSendCmd ==
  ASSUME IOInv, NEW a \in Addrs, SendCmd(a)
  PROVE  IOInv'
<1>1. TypeOK /\ BytesKnown /\ LineKnown /\ AnswerKnown /\ OrderKnown /\ SwitchesKnown /\ WatchKnown
  BY DEF IOInv
<1>2. PICK m : m = [type |-> "SEND_CMD", cmd |-> [addr |-> a, id |-> Given + 1]]
  OBVIOUS
<1>3. m \in Message /\ m \in CmdMsg(a) /\ m.type = "SEND_CMD" /\ m.cmd.addr = a
  <2>1. Given + 1 \in Nat
    BY <1>1, GivenIsNat
  <2>2. [addr |-> a, id |-> Given + 1] \in Commands
    BY <2>1 DEF Commands
  <2> HIDE DEF Commands
  <2> QED
    BY <1>2, <2>2 DEF Message, CmdMsg
<1>4. /\ inbox' = Append(inbox, m)
      /\ UNCHANGED <<serverVars, tx, rx, switches, watching, uart, sensors, history>>
  BY <1>2 DEF SendCmd
<1>5. inbox' \in Seq(Message) /\ line' = line /\ cts' = cts /\ answer' = answer
  BY <1>1, <1>3, <1>4, Joins DEF uart
<1>6. BytesKnown' /\ OrderKnown'
  BY <1>1, <1>4, <1>5, ServerFrame DEF history
<1>7. (Among(inbox', TxMsg) <=> Among(inbox, TxMsg)) /\ (Once(inbox, TxMsg) => Once(inbox', TxMsg))
  BY <1>1, <1>3, <1>4, Joins, MailApart
<1>8. (Among(inbox', RxMsg) <=> Among(inbox, RxMsg)) /\ (Once(inbox, RxMsg) => Once(inbox', RxMsg))
  BY <1>1, <1>3, <1>4, Joins, MailApart
<1>9. LineKnown'
  BY <1>1, <1>4, <1>5, <1>7 DEF LineKnown, serverVars
<1>10. AnswerKnown'
  BY <1>1, <1>4, <1>5, <1>8 DEF AnswerKnown, serverVars
<1>11. SwitchesKnown'
  <2>1. /\ server' = server /\ clock' = clock /\ world' = world /\ dropped' = dropped
        /\ accepted' = accepted /\ wire' = wire /\ switch_notifier' = switch_notifier /\ owed' = owed
    BY <1>4 DEF serverVars, switches, history
  <2> SUFFICES ASSUME world.spaced, ~dropped
               PROVE  clock /\ server # "stranded" /\ \A d \in SwitchAddrs : SwitchFree(d)'
    BY <2>1 DEF SwitchesKnown
  <2>2. clock /\ server # "stranded" /\ \A d \in SwitchAddrs : SwitchFree(d)
    BY <1>1 DEF SwitchesKnown
  <2>3. ASSUME NEW d \in SwitchAddrs PROVE SwitchFree(d)'
    <3>1. SwitchFree(d)
      BY <2>2
    <3>2. (Among(inbox', SwitchMsg(d)) <=> Among(inbox, SwitchMsg(d))) /\ Once(inbox', SwitchMsg(d))
      BY <1>1, <1>3, <1>4, <3>1, Joins, MailApart DEF SwitchFree
    <3>3. CASE d = a
      <4>1. switch_notifier[a] = "waiting" /\ ~Pending(a) /\ \A i \in DOMAIN transmit_buffer : transmit_buffer[i][1].addr # a
        BY <3>3 DEF SendCmd
      <4>2. Open(a, accepted, wire) = {}
        BY <1>1, <4>1, OpenIsInBuffer
      <4>3. ~Among(inbox, CmdMsg(a))
        BY <4>1, MessageFacts DEF Pending, Among
      <4>4. Once(inbox', CmdMsg(a))
        BY <1>1, <1>3, <1>4, <3>1, <3>3, <4>3, Joins DEF SwitchFree
      <4> QED
        BY <2>1, <3>1, <3>2, <3>3, <4>1, <4>2, <4>4 DEF SwitchFree
    <3>4. CASE d # a
      <4>1. m \notin CmdMsg(d)
        BY <1>3, <3>4, MessageFacts
      <4>2. (Among(inbox', CmdMsg(d)) <=> Among(inbox, CmdMsg(d))) /\ Once(inbox', CmdMsg(d))
        BY <1>1, <1>3, <1>4, <3>1, <4>1, Joins DEF SwitchFree
      <4> QED
        BY <2>1, <3>1, <3>2, <4>2 DEF SwitchFree
    <3> QED
      BY <3>3, <3>4
  <2> QED
    BY <2>2, <2>3
<1>12. WatchKnown'
  BY <1>1, <1>4, WatchFrame DEF watching, sensors, history, uart
<1>13. TypeOK'
  BY <1>1, <1>4 DEF TypeOK, serverVars, switches, watching, uart, sensors, history
<1> QED
  BY <1>6, <1>9, <1>10, <1>11, <1>12, <1>13 DEF IOInv

LEMMA KeepsSwitchNotifier ==
  ASSUME IOInv, NEW a \in SwitchAddrs, switchNotifier(a)
  PROVE  IOInv'
<1>1. TypeOK /\ BytesKnown /\ LineKnown /\ AnswerKnown /\ OrderKnown /\ SwitchesKnown /\ WatchKnown
  BY DEF IOInv
<1>2. PICK m : m = [type |-> "SWITCH_NOTIFIER", addr |-> a]
  OBVIOUS
<1>3. m \in Message /\ m \in SwitchMsg(a) /\ m.type = "SWITCH_NOTIFIER" /\ m.addr = a
  BY <1>2 DEF Message, SwitchMsg
<1>4. UNCHANGED <<serverVars, tx, rx, watching, uart, sensors, history>>
  BY DEF switchNotifier
<1>5. /\ owed[a] > 0 /\ clock
      /\ \/ /\ switch_notifier[a] = "delay"
            /\ switch_notifier' = [switch_notifier EXCEPT ![a] = "sending"]
            /\ owed' = [owed EXCEPT ![a] = @ - 1] /\ clock' = clock
            /\ inbox' = Append(inbox, m)
         \/ /\ switch_notifier[a] = "waiting"
            /\ switch_notifier' = [switch_notifier EXCEPT ![a] = "delay"]
            /\ owed' = owed /\ clock' = clock /\ inbox' = inbox
         \/ /\ switch_notifier[a] = "sending"
            /\ clock' = FALSE /\ owed' = [owed EXCEPT ![a] = @ - 1]
            /\ switch_notifier' = switch_notifier /\ inbox' = inbox
  BY <1>2, Zenon DEF switchNotifier
<1>6. inbox' = inbox \/ inbox' = Append(inbox, m)
  BY <1>5
<1>7. inbox \in Seq(Message) /\ inbox' \in Seq(Message) /\ line' = line /\ cts' = cts /\ answer' = answer
  <2>1. inbox \in Seq(Message)
    BY <1>1 DEF BytesKnown
  <2> HIDE DEF Message
  <2> QED
    BY <1>1, <1>3, <1>4, <1>6, <2>1, Joins DEF uart
<1>8. BytesKnown' /\ OrderKnown'
  BY <1>1, <1>4, <1>7, ServerFrame DEF history
<1>9. (Among(inbox', TxMsg) <=> Among(inbox, TxMsg)) /\ (Once(inbox, TxMsg) => Once(inbox', TxMsg))
  BY <1>1, <1>3, <1>6, Joins, MailApart
<1>10. (Among(inbox', RxMsg) <=> Among(inbox, RxMsg)) /\ (Once(inbox, RxMsg) => Once(inbox', RxMsg))
  BY <1>1, <1>3, <1>6, Joins, MailApart
<1>11. LineKnown'
  BY <1>1, <1>4, <1>7, <1>9 DEF LineKnown, serverVars
<1>12. AnswerKnown'
  BY <1>1, <1>4, <1>7, <1>10 DEF AnswerKnown, serverVars
<1>13. SwitchesKnown'
  <2>1. /\ server' = server /\ world' = world /\ dropped' = dropped
        /\ accepted' = accepted /\ wire' = wire
    BY <1>4 DEF serverVars, history
  <2> SUFFICES ASSUME world.spaced, ~dropped
               PROVE  clock' /\ server # "stranded" /\ \A d \in SwitchAddrs : SwitchFree(d)'
    BY <2>1 DEF SwitchesKnown
  <2>2. clock /\ server # "stranded" /\ \A d \in SwitchAddrs : SwitchFree(d)
    BY <1>1 DEF SwitchesKnown
  <2>3. /\ switch_notifier \in [SwitchAddrs -> {"waiting", "delay", "sending"}]
        /\ owed \in [SwitchAddrs -> Nat]
    BY <1>1 DEF TypeOK
  <2>4. SwitchFree(a)
    BY <2>2
  <2>5. /\ switch_notifier[a] = "delay" /\ owed[a] = 1
        /\ ~Among(inbox, SwitchMsg(a)) /\ ~Among(inbox, CmdMsg(a)) /\ Open(a, accepted, wire) = {}
    <3>1. switch_notifier[a] = "delay"
      BY <1>5, <2>3, <2>4 DEF SwitchFree
    <3> QED
      BY <2>4, <3>1 DEF SwitchFree
  <2>6. /\ switch_notifier' = [switch_notifier EXCEPT ![a] = "sending"]
        /\ owed' = [owed EXCEPT ![a] = @ - 1] /\ clock'
        /\ inbox' = Append(inbox, m)
    <3>1. switch_notifier[a] # "waiting" /\ switch_notifier[a] # "sending"
      BY <2>5
    <3> QED
      BY <1>5, <3>1, Zenon
  <2>7. ASSUME NEW d \in SwitchAddrs PROVE SwitchFree(d)'
    <3>1. SwitchFree(d)
      BY <2>2
    <3>2. (Among(inbox', CmdMsg(d)) <=> Among(inbox, CmdMsg(d))) /\ Once(inbox', CmdMsg(d))
      BY <1>1, <1>3, <2>6, <3>1, Joins, MailApart DEF SwitchFree
    <3>3. CASE d = a
      <4>1. switch_notifier'[a] = "sending" /\ owed'[a] = 0
        BY <2>3, <2>5, <2>6
      <4>2. Once(inbox', SwitchMsg(a))
        BY <1>1, <1>3, <2>5, <2>6, <3>1, <3>3, Joins DEF SwitchFree
      <4> QED
        BY <2>1, <2>5, <3>1, <3>2, <3>3, <4>1, <4>2 DEF SwitchFree
    <3>4. CASE d # a
      <4>1. m \notin SwitchMsg(d)
        BY <1>3, <3>4, MessageFacts
      <4>2. (Among(inbox', SwitchMsg(d)) <=> Among(inbox, SwitchMsg(d))) /\ Once(inbox', SwitchMsg(d))
        BY <1>1, <1>3, <2>6, <3>1, <4>1, Joins DEF SwitchFree
      <4>3. switch_notifier'[d] = switch_notifier[d] /\ owed'[d] = owed[d]
        BY <2>3, <2>6, <3>4
      <4> QED
        BY <2>1, <3>1, <3>2, <4>2, <4>3 DEF SwitchFree
    <3> QED
      BY <3>3, <3>4
  <2> QED
    BY <2>2, <2>6, <2>7
<1>14. WatchKnown'
  BY <1>1, <1>4, WatchFrame DEF watching, sensors, history, uart
<1>15. TypeOK'
  <2>1. /\ switch_notifier' \in [SwitchAddrs -> {"waiting", "delay", "sending"}]
        /\ owed' \in [SwitchAddrs -> Nat]
    <3>1. /\ switch_notifier \in [SwitchAddrs -> {"waiting", "delay", "sending"}]
          /\ owed \in [SwitchAddrs -> Nat] /\ owed[a] > 0
      BY <1>1, <1>5 DEF TypeOK
    <3>2. /\ \/ switch_notifier' = switch_notifier
             \/ switch_notifier' = [switch_notifier EXCEPT ![a] = "sending"]
             \/ switch_notifier' = [switch_notifier EXCEPT ![a] = "delay"]
          /\ owed' = owed \/ owed' = [owed EXCEPT ![a] = @ - 1]
      BY <1>5, Zenon
    <3>3. switch_notifier' \in [SwitchAddrs -> {"waiting", "delay", "sending"}]
      BY <3>1, <3>2
    <3>4. owed' \in [SwitchAddrs -> Nat]
      BY <3>1, <3>2
    <3> QED
      BY <3>3, <3>4
  <2>2. clock' \in BOOLEAN
    BY <1>1, <1>5, Zenon DEF TypeOK
  <2> QED
    BY <1>1, <1>4, <2>1, <2>2 DEF TypeOK, serverVars, watching, uart, sensors, history
<1> QED
  BY <1>8, <1>11, <1>12, <1>13, <1>14, <1>15 DEF IOInv

-----------------------------------------------------------------------------
(* The theorems.                                                           *)

LEMMA InvInit ==
  ASSUME Init
  PROVE  IOInv
<1>1. /\ inbox = <<>> /\ server = "receive" /\ answering = Nobody /\ transmit_buffer = <<RESET>>
      /\ sequence_length_buffer = <<1>> /\ count = 0 /\ canTransmit = FALSE /\ isReceiving = FALSE
      /\ tx = "top" /\ rx = 0 /\ line = None /\ answer = 0 /\ accepted = <<>> /\ dropped = FALSE /\ wire = <<>>
  BY DEF Init
<1>2. /\ \A M : ~Among(inbox, M) /\ Once(inbox, M)
      /\ \A a : Open(a, accepted, wire) = {}
  BY <1>1 DEF Among, Once, Open
<1>3. RESET \in Bytes
  BY ByteFacts
<1> HIDE DEF Bytes, Message, Commands
<1>4. <<RESET>> \in Seq(Bytes)
  BY <1>3
<1>5. BytesKnown
  <2>1. inbox \in Seq(Message) /\ wire \in Seq(Bytes) /\ accepted \in Seq(Commands)
    BY <1>1
  <2> QED
    BY <1>1, <1>4, <2>1 DEF BytesKnown
<1>6. LineKnown
  BY <1>1, <1>2 DEF LineKnown
<1>7. <<RESET>> # <<POLL>> /\ Unpolled(<<RESET>>) = <<RESET>>
  BY <1>4, SeqOfBytes
<1>8. AnswerKnown
  <2>1. None # POLL
    BY ByteFacts
  <2> QED
    BY <1>1, <1>2, <1>7, <2>1 DEF AnswerKnown, Nobody, RxNotifier
<1>9. OrderKnown
  <2>1. InOrder(<<>>, <<>> \o <<RESET>>)
    <3>1. PICK x : x = <<RESET>>
      OBVIOUS
    <3>2. <<>> \o <<RESET>> = x /\ Len(x) = 1 /\ x[1] = RESET
      BY <1>4, <3>1
    <3> QED
      BY <3>2 DEF InOrder
  <2>2. Aligned(<<>>, <<>>, <<RESET>>, <<1>>, 0, sequence_length)
    <3>1. Tail(<<1>>) = <<>> /\ <<1>> \in Seq({1, 2}) /\ Len(<<1>>) = 1
      OBVIOUS
    <3>2. Twos(<<>>, 0)
      BY DEF Twos
    <3> QED
      BY <1>7, <3>1, <3>2 DEF Aligned
  <2> QED
    BY <1>1, <1>7, <2>1, <2>2 DEF OrderKnown
<1>10. SwitchesKnown
  BY <1>1, <1>2 DEF Init, SwitchesKnown, SwitchFree
<1>11. WatchKnown
  BY DEF Init, WatchKnown, Watched, TriggeredIsFresh
<1>12. TypeOK
  <2>1. BYTES \in Nat /\ BYTES > 0 /\ TxRoom \in Nat /\ TxRoom > 0
    BY MarklinAssumption
  <2>2. /\ rx \in -1 .. BYTES - 1 /\ Len(transmit_buffer) <= TxRoom /\ answer \in 0 .. BYTES
    BY <1>1, <2>1
  <2>3. sensor_messenger \in [TrainSet -> [created : BOOLEAN, sensor_idx : Sensors \cup {NoSensor},
          sensor_idx_safety : Sensors \cup {NoSensor}, sent_reply : BOOLEAN]]
    BY DEF Init
  <2>4. /\ switch_notifier \in [SwitchAddrs -> {"waiting", "delay", "sending"}]
        /\ owed \in [SwitchAddrs -> Nat]
        /\ task \in [TrainSet -> {"none", "starting", "coming", "waiting", "telling"}]
        /\ told \in [TrainSet -> Sensors \cup {NoSensor}]
        /\ asked \in [TrainSet -> Nat] /\ tells \in [TrainSet -> Nat]
    BY DEF Init
  <2>5. carrier \in [TrainSet -> BOOLEAN]
    BY DEF Init
  <2>6. /\ world \in Worlds /\ cts \in {0, 1} /\ clock \in BOOLEAN
        /\ isTriggered \cup under \cup latch \cup reading \subseteq Sensors
    BY DEF Init
  <2> QED
    BY <1>1, <2>2, <2>3, <2>4, <2>5, <2>6 DEF TypeOK
<1> QED
  BY <1>5, <1>6, <1>8, <1>9, <1>10, <1>11, <1>12 DEF IOInv

LEMMA InvNext ==
  ASSUME IOInv, [Next]_vars
  PROVE  IOInv'
<1>1. CASE Notifier
  BY <1>1, KeepsLook, KeepsTellServer DEF Notifier
<1>2. CASE CtsInterrupt
  BY <1>2, KeepsLook
<1>3. CASE Server
  BY <1>3, KeepsRX_NOTIFIER, KeepsSENSOR_LISTENER, KeepsSENSOR_MESSENGER, KeepsTX_NOTIFIER,
     KeepsSEND_CMD, KeepsSWITCH_NOTIFIER, KeepsHandleTransmission DEF Server
<1>4. CASE Railway
  BY <1>4, KeepsRailway
<1>5. CASE notifier_rx
  BY <1>5, KeepsNotifierRx
<1>6. ASSUME NEW a \in Addrs, SendCmd(a) PROVE IOInv'
  BY <1>6, KeepsSendCmd
<1>7. ASSUME NEW a \in SwitchAddrs, switchNotifier(a) PROVE IOInv'
  BY <1>7, KeepsSwitchNotifier
<1>8. ASSUME NEW t \in TrainSet, start_sensor_messenger(t) PROVE IOInv'
  BY <1>8, KeepsStart
<1>9. ASSUME NEW t \in TrainSet, NEW first \in world.sensors, NEW second \in world.sensors \cup {NoSensor},
             Listen(t, first, second)
      PROVE  IOInv'
  BY <1>9, KeepsListen
<1>10. ASSUME NEW s \in world.touched, Touch(s) \/ Leave(s) PROVE IOInv'
  BY <1>10, KeepsTouch
<1>11. CASE UNCHANGED vars
  <2>1. /\ UNCHANGED <<inbox, serverVars, tx, rx, switches, watching, uart, sensors, history>>
    BY <1>11 DEF vars
  <2>2. BytesKnown' /\ OrderKnown' /\ SwitchesKnown'
    BY <2>1, NoMail DEF history, uart
  <2>3. LineKnown' /\ AnswerKnown'
    BY <2>1 DEF IOInv, LineKnown, AnswerKnown, serverVars, uart
  <2>4. WatchKnown'
    BY <2>1, WatchFrame DEF IOInv, watching, history, uart, sensors
  <2>5. TypeOK'
    BY <2>1 DEF IOInv, TypeOK, serverVars, switches, watching, history, uart, sensors
  <2> QED
    BY <2>2, <2>3, <2>4, <2>5 DEF IOInv
<1> QED
  BY <1>1, <1>2, <1>3, <1>4, <1>5, <1>6, <1>7, <1>8, <1>9, <1>10, <1>11 DEF Next

\* In every reachable state the server, its notifiers, the line and the messengers
\* are as described above.
THEOREM IOInvariant == Spec => []IOInv
<1>1. Init => IOInv
  BY InvInit
<1>2. IOInv /\ [Next]_vars => IOInv'
  BY InvNext
<1> QED
  BY <1>1, <1>2, PTL DEF Spec

\* Commands reach the railway whole and in the order they were given.
THEOREM CommandsKeepOrder == Spec => []CommandsInOrder
<1>1. IOInv => CommandsInOrder
  BY DEF IOInv, OrderKnown, CommandsInOrder, InOrder, Unpolled
<1> QED
  BY <1>1, IOInvariant, PTL

\* The server and the clock server answer a task only while it waits for them, if
\* switches are given time.
THEOREM NobodyStranded == Spec => []NeverStranded
<1>1. IOInv => NeverStranded
  BY DEF IOInv, SwitchesKnown, NeverStranded
<1> QED
  BY <1>1, IOInvariant, PTL

\* A byte is written only while the line is clear and no answer is awaited, and a
\* poll only between commands.
THEOREM WritesAreSafe == Spec => WrittenWhenClear
<1> DEFINE Clear == line' # line /\ line' # None =>
                      /\ cts = 1 /\ line = None /\ answer = 0
                      /\ line' = POLL /\ ~dropped =>
                           wire # <<>> /\ (wire[Len(wire)] = RESET \/ wire[Len(wire)][2] = 2)
<1>1. ASSUME IOInv, [Next]_vars PROVE [Clear]_vars
  <2> SUFFICES ASSUME line' # line, line' # None PROVE Clear
    OBVIOUS
  <2>1. handle_transmission
    BY <1>1 DEF Next, Notifier, Look, AWAITEVENT, TellServer, CtsInterrupt, Server, Railway,
       RX_NOTIFIER, SENSOR_LISTENER, SENSOR_MESSENGER, TX_NOTIFIER, SEND_CMD, SWITCH_NOTIFIER,
       Busy, ClearAgain, notifier_rx, SendCmd, switchNotifier, start_sensor_messenger, Listen, Touch, Leave,
       uart, vars
  <2> QED
    BY <1>1, <2>1, WritesWhenClear
<1> QED
  BY <1>1, IOInvariant, PTL DEF Spec, WrittenWhenClear

\* A train has no more triggers than it has been given pairs, none for an old mark,
\* and no two of one answer for one sensor.
THEOREM TriggersAreDue == Spec => OneTellPerPair
<1> DEFINE Within == (\A t \in TrainSet : tells[t] <= asked[t]) /\ TriggeredIsFresh
<1>1. IOInv => Within
  <2> SUFFICES ASSUME IOInv, NEW t \in TrainSet PROVE tells[t] <= asked[t]
    BY DEF IOInv, WatchKnown
  <2>1. /\ tells[t] + (IF sensor_messenger[t].sensor_idx # NoSensor THEN 1 ELSE 0) <= asked[t]
        /\ tells[t] \in Nat /\ asked[t] \in Nat
    BY DEF IOInv, WatchKnown, Watched, TypeOK
  <2> QED
    BY <2>1
<1>2. ASSUME IOInv, [Next]_vars PROVE [TellsDiffer]_vars
  <2>1. CASE RX_NOTIFIER
    BY <1>2, <2>1, KeepsRX_NOTIFIER
  <2>2. CASE ~RX_NOTIFIER
    <3>1. tells' = tells
      BY <1>2, <2>2 DEF Next, Notifier, Look, AWAITEVENT, TellServer, CtsInterrupt, Server, Railway,
         SENSOR_LISTENER, SENSOR_MESSENGER, TX_NOTIFIER, SEND_CMD, SWITCH_NOTIFIER, handle_transmission,
         Busy, ClearAgain, notifier_rx, SendCmd, switchNotifier, start_sensor_messenger, Listen, Touch, Leave,
         watching, vars
    <3> QED
      BY <3>1 DEF TellsDiffer
  <2> QED
    BY <2>1, <2>2
<1> HIDE DEF Within
<1>3. Spec => []Within
  BY <1>1, IOInvariant, PTL
<1>4. Spec => [][TellsDiffer]_vars
  BY <1>2, IOInvariant, PTL DEF Spec
<1> QED
  BY <1>3, <1>4, PTL DEF OneTellPerPair, Within
=============================================================================
