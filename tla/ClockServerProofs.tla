------------------------- MODULE ClockServerProofs -------------------------
(***************************************************************************)
(* The clock server for any number of clients: nobody is forgotten or      *)
(* answered twice, every tick is counted, and as long as the count does    *)
(* not wrap around, nobody oversleeps and nobody is woken too early.       *)
(***************************************************************************)
EXTENDS ClockServer, SequenceTheorems, FiniteSetTheorems, WellFoundedInduction, TLAPS

Messages == [sender : Clients \cup {Notifier},
             type : {"TIME", "DELAY", "DELAY_UNTIL", "TICK"}, ticks : Nat]

Sent(t) == \E i \in DOMAIN inbox : inbox[i].sender = t
Sleeps(c) == \E w \in waitingTasks : w.tid = c
Unanswered(c) == call[c] # None /\ answer[c] = NoAnswer

\* A task has at most one request in the inbox and one entry in the heap.
OneEach ==
  /\ \A i, j \in DOMAIN inbox : inbox[i].sender = inbox[j].sender => i = j
  /\ \A v, w \in waitingTasks : v.tid = w.tid => v = w

\* A request is that of the call its sender is in.
RequestsKnown ==
  \A i \in DOMAIN inbox :
    /\ inbox[i].type = "TICK" <=> inbox[i].sender = Notifier
    /\ inbox[i].sender \in Clients => inbox[i].type = call[inbox[i].sender]
    /\ inbox[i].type = "DELAY" => inbox[i].ticks = wanted[inbox[i].sender]

\* Whoever is asleep or in the inbox awaits an answer, and is not in both.
InOnePlace ==
  \A c \in Clients :
    /\ Sent(c) \/ Sleeps(c) => Unanswered(c)
    /\ ~(Sent(c) /\ Sleeps(c))

\* Whoever is in no call has no answer left over.
Idle == \A c \in Clients : call[c] = None => answer[c] = NoAnswer

\* The server knows where the notifier is.
NotifierKnown ==
  /\ notifier = "send_blocked" <=> Sent(Notifier)
  /\ notifier = "reply_blocked" <=> server = "waking"

\* TOTAL_TICKS counts every interrupt but the one on its way.
OnItsWay == notifier \in {"running", "send_blocked"}

Counted == interrupts = IF OnItsWay THEN (TOTAL_TICKS + 1) % 2^WIDTH ELSE TOTAL_TICKS

ClockInv ==
  /\ TypeOK /\ OneEach /\ RequestsKnown /\ InOnePlace /\ Idle /\ NotifierKnown /\ Counted

-----------------------------------------------------------------------------
(* Numbers and the inbox.                                                  *)

LEMMA Modulo ==
  ASSUME NEW a \in Nat
  PROVE  a % 2^WIDTH \in Ticks /\ (a \in Ticks => a % 2^WIDTH = a)
<1> DEFINE n == 2^WIDTH
<1>1. n \in Nat /\ n > 0
  BY ClockAssumption
<1> HIDE DEF n
<1>2. a % n \in 0 .. n - 1 /\ (a \in 0 .. n - 1 => a % n = a)
  BY <1>1
<1> QED
  BY <1>2 DEF n, Ticks

LEMMA Joins ==
  ASSUME TypeOK, NEW r \in Messages, inbox' = Append(inbox, r)
  PROVE  /\ inbox' \in Seq(Messages)
         /\ \A i \in DOMAIN inbox : i \in DOMAIN inbox' /\ inbox'[i] = inbox[i]
         /\ \E k \in DOMAIN inbox' :
              /\ inbox'[k] = r
              /\ \A i \in DOMAIN inbox' : i \in DOMAIN inbox \/ i = k
<1>1. inbox \in Seq(Messages) /\ Len(inbox) \in Nat /\ DOMAIN inbox = 1 .. Len(inbox)
  BY DEF TypeOK, Messages
<1> HIDE DEF Messages
<1>2. /\ inbox' \in Seq(Messages) /\ DOMAIN inbox' = 1 .. Len(inbox) + 1
      /\ \A i \in 1 .. Len(inbox) : inbox'[i] = inbox[i]
      /\ inbox'[Len(inbox) + 1] = r
  BY <1>1
<1>3. Len(inbox) + 1 \in DOMAIN inbox'
  BY <1>1, <1>2
<1>4. \A i \in DOMAIN inbox' : i \in DOMAIN inbox \/ i = Len(inbox) + 1
  BY <1>1, <1>2
<1>5. \A i \in DOMAIN inbox : i \in DOMAIN inbox' /\ inbox'[i] = inbox[i]
  BY <1>1, <1>2
<1> QED
  BY <1>2, <1>3, <1>4, <1>5

LEMMA Leaves ==
  ASSUME TypeOK, inbox # <<>>, inbox' = Tail(inbox)
  PROVE  /\ inbox' \in Seq(Messages)
         /\ 1 \in DOMAIN inbox /\ Head(inbox) = inbox[1] /\ Head(inbox) \in Messages
         /\ \A i \in DOMAIN inbox' : i + 1 \in DOMAIN inbox /\ i + 1 # 1 /\ inbox'[i] = inbox[i + 1]
         /\ \A i \in DOMAIN inbox : i # 1 => \E j \in DOMAIN inbox' : i = j + 1
         /\ DOMAIN inbox' \subseteq Nat
<1>1. inbox \in Seq(Messages) /\ Len(inbox) \in Nat /\ DOMAIN inbox = 1 .. Len(inbox)
  BY DEF TypeOK, Messages
<1> HIDE DEF Messages
<1>2. Len(inbox) > 0 /\ Head(inbox) = inbox[1] /\ inbox[1] \in Messages
  BY <1>1
<1>3. /\ inbox' \in Seq(Messages) /\ DOMAIN inbox' = 1 .. Len(inbox) - 1
      /\ \A i \in 1 .. Len(inbox) - 1 : inbox'[i] = inbox[i + 1]
  BY <1>1, <1>2
<1>4. \A i \in DOMAIN inbox' : i + 1 \in DOMAIN inbox /\ i + 1 # 1 /\ inbox'[i] = inbox[i + 1]
  BY <1>1, <1>3
<1>5. ASSUME NEW i \in DOMAIN inbox, i # 1 PROVE \E j \in DOMAIN inbox' : i = j + 1
  <2>1. i - 1 \in DOMAIN inbox' /\ i = (i - 1) + 1
    BY <1>1, <1>3, <1>5
  <2> QED
    BY <2>1
<1> QED
  BY <1>1, <1>2, <1>3, <1>4, <1>5

\* A request joins the inbox, from a task that had none in it.
LEMMA InboxGrows ==
  ASSUME ClockInv, NEW r \in Messages, inbox' = Append(inbox, r), ~Sent(r.sender),
         r.type = "TICK" <=> r.sender = Notifier,
         r.sender \in Clients => r.type = call'[r.sender],
         r.type = "DELAY" => r.ticks = wanted'[r.sender],
         \A d \in Clients : d # r.sender => call'[d] = call[d] /\ wanted'[d] = wanted[d]
  PROVE  /\ inbox' \in Seq(Messages)
         /\ \A t : Sent(t)' <=> Sent(t) \/ t = r.sender
         /\ \A i, j \in DOMAIN inbox' : inbox'[i].sender = inbox'[j].sender => i = j
         /\ RequestsKnown'
<1>1. TypeOK /\ OneEach /\ RequestsKnown
  BY DEF ClockInv
<1>2. inbox' \in Seq(Messages)
  BY <1>1, Joins
<1>3. \A i \in DOMAIN inbox : i \in DOMAIN inbox' /\ inbox'[i] = inbox[i]
  BY <1>1, Joins
<1>4. PICK k \in DOMAIN inbox' :
        inbox'[k] = r /\ \A i \in DOMAIN inbox' : i \in DOMAIN inbox \/ i = k
  BY <1>1, Joins
<1>5. \A i \in DOMAIN inbox : inbox[i].sender # r.sender
  BY DEF Sent
<1>6. \A t : Sent(t)' <=> Sent(t) \/ t = r.sender
  BY <1>3, <1>4 DEF Sent
<1>7. \A i, j \in DOMAIN inbox' : inbox'[i].sender = inbox'[j].sender => i = j
  BY <1>1, <1>3, <1>4, <1>5 DEF OneEach
<1>8. ASSUME NEW i \in DOMAIN inbox'
      PROVE  /\ inbox'[i].type = "TICK" <=> inbox'[i].sender = Notifier
             /\ inbox'[i].sender \in Clients => inbox'[i].type = call'[inbox'[i].sender]
             /\ inbox'[i].type = "DELAY" => inbox'[i].ticks = wanted'[inbox'[i].sender]
  <2>1. CASE i = k
    BY <1>4, <2>1
  <2>2. CASE i # k
    <3>1. i \in DOMAIN inbox /\ inbox'[i] = inbox[i] /\ inbox[i].sender # r.sender
      BY <1>3, <1>4, <1>5, <2>2
    <3>2. inbox[i] \in Messages
      <4>1. inbox \in Seq(Messages) /\ i \in 1 .. Len(inbox)
        BY <3>1 DEF ClockInv, TypeOK, Messages
      <4> HIDE DEF Messages
      <4> QED
        BY <4>1, ElementOfSeq
    <3>3. inbox[i].sender \in Clients \/ inbox[i].sender = Notifier
      BY <3>2 DEF Messages
    <3> QED
      BY <1>1, <3>1, <3>3 DEF RequestsKnown
  <2> QED
    BY <2>1, <2>2
<1>9. RequestsKnown'
  BY <1>8 DEF RequestsKnown
<1> QED
  BY <1>2, <1>6, <1>7, <1>9

\* The oldest request leaves the inbox.
LEMMA InboxShrinks ==
  ASSUME ClockInv, inbox # <<>>, inbox' = Tail(inbox), UNCHANGED <<call, wanted>>
  PROVE  /\ inbox' \in Seq(Messages)
         /\ Head(inbox) \in Messages /\ Sent(Head(inbox).sender)
         /\ Head(inbox).type = "TICK" <=> Head(inbox).sender = Notifier
         /\ Head(inbox).sender \in Clients => Head(inbox).type = call[Head(inbox).sender]
         /\ Head(inbox).type = "DELAY" => Head(inbox).ticks = wanted[Head(inbox).sender]
         /\ \A t : Sent(t)' <=> Sent(t) /\ t # Head(inbox).sender
         /\ \A i, j \in DOMAIN inbox' : inbox'[i].sender = inbox'[j].sender => i = j
         /\ RequestsKnown'
<1>1. TypeOK /\ OneEach /\ RequestsKnown
  BY DEF ClockInv
<1>2. /\ inbox' \in Seq(Messages)
      /\ 1 \in DOMAIN inbox /\ Head(inbox) = inbox[1] /\ Head(inbox) \in Messages
      /\ \A i \in DOMAIN inbox' : i + 1 \in DOMAIN inbox /\ i + 1 # 1 /\ inbox'[i] = inbox[i + 1]
      /\ \A i \in DOMAIN inbox : i # 1 => \E j \in DOMAIN inbox' : i = j + 1
      /\ DOMAIN inbox' \subseteq Nat
  BY <1>1, Leaves
<1> HIDE DEF Messages
<1>3. \A i \in DOMAIN inbox : i # 1 => inbox[i].sender # Head(inbox).sender
  BY <1>1, <1>2 DEF OneEach
<1>4. \A t : Sent(t)' <=> Sent(t) /\ t # Head(inbox).sender
  <2>1. \A t : Sent(t)' => Sent(t) /\ t # Head(inbox).sender
    BY <1>2, <1>3 DEF Sent
  <2>2. \A t : Sent(t) /\ t # Head(inbox).sender => Sent(t)'
    BY <1>2 DEF Sent
  <2> QED
    BY <2>1, <2>2
<1>5. \A i, j \in DOMAIN inbox' : inbox'[i].sender = inbox'[j].sender => i = j
  <2> SUFFICES ASSUME NEW i \in DOMAIN inbox', NEW j \in DOMAIN inbox',
                      inbox'[i].sender = inbox'[j].sender
               PROVE  i = j
    OBVIOUS
  <2>1. i + 1 = j + 1
    BY <1>1, <1>2 DEF OneEach
  <2> QED
    BY <1>2, <2>1
<1>6. RequestsKnown'
  BY <1>1, <1>2 DEF RequestsKnown
<1>7. Sent(Head(inbox).sender)
  BY <1>2 DEF Sent
<1> QED
  BY <1>1, <1>2, <1>4, <1>5, <1>6, <1>7 DEF RequestsKnown

-----------------------------------------------------------------------------
(* The invariant, step by step.                                            *)

LEMMA InvInit == Init => ClockInv
<1> SUFFICES ASSUME Init PROVE ClockInv
  OBVIOUS
<1>1. 0 \in Ticks
  BY ClockAssumption DEF Ticks
<1>2. TypeOK
  <2>1. inbox \in Seq(Messages)
    BY EmptySeq DEF Init
  <2>2. TOTAL_TICKS \in Ticks /\ interrupts \in Ticks /\ waitingTasks = {}
    BY <1>1 DEF Init
  <2>3. /\ server \in {"receiving", "waking"} /\ aborted \in BOOLEAN
        /\ notifier \in {"event_blocked", "running", "send_blocked", "reply_blocked"}
    BY DEF Init
  <2>4. /\ call \in [Clients -> {None, "TIME", "DELAY", "DELAY_UNTIL"}]
        /\ answer \in [Clients -> Ticks \cup {NoAnswer}]
        /\ wanted \in [Clients -> Nat] /\ askedAt \in [Clients -> Ticks]
    BY <1>1 DEF Init
  <2> QED
    BY <2>1, <2>2, <2>3, <2>4 DEF TypeOK, Messages
<1>4. Counted
  BY DEF Init, Counted, OnItsWay
<1> QED
  BY <1>2, <1>4 DEF Init, ClockInv, OneEach, RequestsKnown, InOnePlace, Idle, NotifierKnown,
                    Sent, Sleeps, None

LEMMA CallKeeps ==
  ASSUME ClockInv, NEW c \in Clients, NEW type \in CallTypes, NEW ticks \in Nat, Call(c, type, ticks)
  PROVE  ClockInv'
<1> DEFINE r == Request(c, type, ticks)
<1>1. type \in {"TIME", "DELAY", "DELAY_UNTIL"} /\ c # Notifier
  BY ClockAssumption
<1>2. /\ r \in Messages /\ r.sender = c /\ r.type = type /\ r.ticks = ticks
      /\ inbox' = Append(inbox, r)
  BY <1>1 DEF Request, Messages, Call
<1>3. ~Sent(c) /\ ~Sleeps(c)
  BY DEF Call, ClockInv, InOnePlace, Unanswered
<1>4. /\ call'[c] = type /\ wanted'[c] = ticks /\ answer' = answer
      /\ \A d \in Clients : d # c => call'[d] = call[d] /\ wanted'[d] = wanted[d]
  BY DEF Call, ClockInv, TypeOK
<1> HIDE DEF r
<1>5. /\ inbox' \in Seq(Messages)
      /\ \A t : Sent(t)' <=> Sent(t) \/ t = c
      /\ \A i, j \in DOMAIN inbox' : inbox'[i].sender = inbox'[j].sender => i = j
      /\ RequestsKnown'
  BY <1>1, <1>2, <1>3, <1>4, InboxGrows
<1>6. TypeOK'
  BY <1>1, <1>5 DEF Messages, Call, timerVars, ClockInv, TypeOK
<1>7. OneEach'
  BY <1>5 DEF Call, ClockInv, OneEach
<1>8. \A d : Sleeps(d)' <=> Sleeps(d)
  BY DEF Call, Sleeps
<1>9. answer[c] = NoAnswer
  BY DEF Call, ClockInv, Idle
<1>10. InOnePlace' /\ Idle'
  BY <1>1, <1>3, <1>4, <1>5, <1>8, <1>9 DEF ClockInv, InOnePlace, Unanswered, None, Idle
<1>11. NotifierKnown' /\ Counted'
  BY <1>1, <1>5 DEF Call, timerVars, ClockInv, NotifierKnown, Counted, OnItsWay
<1> QED
  BY <1>5, <1>6, <1>7, <1>10, <1>11 DEF ClockInv

LEMMA ReturnKeeps ==
  ASSUME ClockInv, NEW c \in Clients, Return(c)
  PROVE  ClockInv'
<1>1. ~Sent(c) /\ ~Sleeps(c)
  BY DEF Return, ClockInv, InOnePlace, Unanswered
<1>2. TypeOK'
  BY DEF Return, timerVars, ClockInv, TypeOK
<1>3. /\ call'[c] = None /\ answer'[c] = NoAnswer
      /\ \A d \in Clients : d # c => call'[d] = call[d] /\ answer'[d] = answer[d]
  BY DEF Return, ClockInv, TypeOK
<1>4. \A t : (Sent(t)' <=> Sent(t)) /\ (Sleeps(t)' <=> Sleeps(t))
  BY DEF Return, Sent, Sleeps
<1>5. \A i \in DOMAIN inbox : inbox[i].sender # c
  BY <1>1 DEF Sent
<1>6. RequestsKnown'
  BY <1>3, <1>5 DEF Return, ClockInv, RequestsKnown
<1>7. OneEach' /\ NotifierKnown' /\ Counted'
  BY <1>4 DEF Return, timerVars, ClockInv, OneEach, NotifierKnown, Counted, OnItsWay
<1>8. InOnePlace' /\ Idle'
  BY <1>1, <1>3, <1>4 DEF ClockInv, InOnePlace, Unanswered, Idle
<1> QED
  BY <1>2, <1>6, <1>7, <1>8 DEF ClockInv

\* A sleeper that has been answered asks for the time.
LEMMA WakeUpKeeps ==
  ASSUME ClockInv, NEW c \in Clients, WakeUp(c)
  PROVE  ClockInv'
<1>1. CASE ~AnswerExpected(c)
  <2>1. /\ aborted' = TRUE
        /\ UNCHANGED <<TOTAL_TICKS, waitingTasks, inbox, server, timerVars, call, answer, wanted, askedAt>>
    BY <1>1 DEF WakeUp
  <2> QED
    BY <2>1 DEF timerVars, ClockInv, TypeOK, OneEach, RequestsKnown, InOnePlace, NotifierKnown,
                Counted, OnItsWay, Sent, Sleeps, Unanswered, Idle
<1>2. CASE AnswerExpected(c)
  <2> DEFINE r == Request(c, "TIME", 0)
  <2>1. c # Notifier
    BY ClockAssumption
  <2>2. /\ r \in Messages /\ r.sender = c /\ r.type = "TIME"
        /\ inbox' = Append(inbox, r)
    BY <1>2 DEF Request, Messages, WakeUp
  <2>3. ~Sent(c) /\ ~Sleeps(c)
    BY DEF WakeUp, ClockInv, InOnePlace, Unanswered
  <2>4. /\ call'[c] = "TIME" /\ answer'[c] = NoAnswer
        /\ \A d \in Clients : d # c => call'[d] = call[d] /\ answer'[d] = answer[d]
        /\ wanted' = wanted
    BY <1>2 DEF WakeUp, ClockInv, TypeOK
  <2> HIDE DEF r
  <2>5. /\ inbox' \in Seq(Messages)
        /\ \A t : Sent(t)' <=> Sent(t) \/ t = c
        /\ \A i, j \in DOMAIN inbox' : inbox'[i].sender = inbox'[j].sender => i = j
        /\ RequestsKnown'
    BY <2>1, <2>2, <2>3, <2>4, InboxGrows
  <2>6. TypeOK'
    BY <1>2, <2>5 DEF Messages, WakeUp, timerVars, ClockInv, TypeOK
  <2>7. OneEach' /\ \A d : Sleeps(d)' <=> Sleeps(d)
    BY <2>5 DEF WakeUp, ClockInv, OneEach, Sleeps
  <2>8. InOnePlace' /\ Idle'
    BY <2>3, <2>4, <2>5, <2>7 DEF ClockInv, InOnePlace, Unanswered, None, Idle
  <2>9. NotifierKnown' /\ Counted'
    BY <2>1, <2>5 DEF WakeUp, timerVars, ClockInv, NotifierKnown, Counted, OnItsWay
  <2> QED
    BY <2>5, <2>6, <2>7, <2>8, <2>9 DEF ClockInv
<1> QED
  BY <1>1, <1>2

LEMMA TimerInterruptKeeps ==
  ASSUME ClockInv, TimerInterrupt
  PROVE  ClockInv'
<1>1. TOTAL_TICKS \in Ticks /\ TOTAL_TICKS \in Nat /\ interrupts \in Nat
  BY ClockAssumption DEF ClockInv, TypeOK, Ticks
<1>2. interrupts' \in Ticks /\ interrupts = TOTAL_TICKS
  <2>1. interrupts = TOTAL_TICKS
    BY DEF TimerInterrupt, ClockInv, Counted, OnItsWay
  <2>2. interrupts + 1 \in Nat
    BY <1>1
  <2> QED
    BY <2>1, <2>2, Modulo DEF TimerInterrupt
<1>3. Counted'
  BY <1>2 DEF TimerInterrupt, Counted, OnItsWay
<1>4. TypeOK'
  BY <1>2 DEF TimerInterrupt, clientVars, ClockInv, TypeOK
<1>5. NotifierKnown'
  BY DEF TimerInterrupt, ClockInv, NotifierKnown, Sent
<1> QED
  BY <1>3, <1>4, <1>5 DEF TimerInterrupt, clientVars, ClockInv, OneEach, RequestsKnown, InOnePlace,
                         Sent, Sleeps, Unanswered, Idle

LEMMA NotifierSendsKeeps ==
  ASSUME ClockInv, NotifierSends
  PROVE  ClockInv'
<1> DEFINE r == Request(Notifier, "TICK", 0)
<1>1. /\ r \in Messages /\ r.sender = Notifier /\ r.type = "TICK" /\ Notifier \notin Clients
      /\ inbox' = Append(inbox, r)
  BY ClockAssumption DEF Request, Messages, NotifierSends
<1>2. ~Sent(Notifier)
  BY DEF NotifierSends, ClockInv, NotifierKnown
<1> HIDE DEF r
<1>3. /\ inbox' \in Seq(Messages)
      /\ \A t : Sent(t)' <=> Sent(t) \/ t = Notifier
      /\ \A i, j \in DOMAIN inbox' : inbox'[i].sender = inbox'[j].sender => i = j
      /\ RequestsKnown'
  BY <1>1, <1>2, InboxGrows DEF NotifierSends, clientVars
<1>4. TypeOK'
  BY <1>3 DEF Messages, NotifierSends, clientVars, ClockInv, TypeOK
<1>5. OneEach' /\ \A d : Sleeps(d)' <=> Sleeps(d)
  BY <1>3 DEF NotifierSends, ClockInv, OneEach, Sleeps
<1>6. InOnePlace' /\ Idle'
  BY <1>1, <1>3, <1>5 DEF NotifierSends, clientVars, ClockInv, InOnePlace, Unanswered, Idle
<1>7. NotifierKnown' /\ Counted'
  BY <1>3 DEF NotifierSends, ClockInv, NotifierKnown, Counted, OnItsWay
<1> QED
  BY <1>3, <1>4, <1>5, <1>6, <1>7 DEF ClockInv

\* What is known of the client whose call the server processes.
LEMMA Taken ==
  ASSUME ClockInv, NEW type \in {"TIME", "DELAY", "DELAY_UNTIL"}, Takes(type), UNCHANGED <<call, wanted>>
  PROVE  /\ inbox' \in Seq(Messages) /\ RequestsKnown'
         /\ Head(inbox).sender \in Clients /\ Head(inbox).ticks \in Nat
         /\ call[Head(inbox).sender] = type /\ Unanswered(Head(inbox).sender)
         /\ Head(inbox).sender # Notifier
         /\ Sent(Head(inbox).sender) /\ ~Sleeps(Head(inbox).sender)
         /\ \A t : Sent(t)' <=> Sent(t) /\ t # Head(inbox).sender
         /\ \A i, j \in DOMAIN inbox' : inbox'[i].sender = inbox'[j].sender => i = j
         /\ type = "DELAY" => Head(inbox).ticks = wanted[Head(inbox).sender]
<1>1. inbox # <<>> /\ inbox' = Tail(inbox) /\ Head(inbox).type = type
  BY DEF Takes
<1>2. /\ inbox' \in Seq(Messages) /\ RequestsKnown'
      /\ Head(inbox) \in Messages /\ Sent(Head(inbox).sender)
      /\ Head(inbox).type = "TICK" <=> Head(inbox).sender = Notifier
      /\ Head(inbox).sender \in Clients => Head(inbox).type = call[Head(inbox).sender]
      /\ Head(inbox).type = "DELAY" => Head(inbox).ticks = wanted[Head(inbox).sender]
      /\ \A t : Sent(t)' <=> Sent(t) /\ t # Head(inbox).sender
      /\ \A i, j \in DOMAIN inbox' : inbox'[i].sender = inbox'[j].sender => i = j
  BY <1>1, InboxShrinks
<1>3. /\ Head(inbox).sender \in Clients /\ Head(inbox).ticks \in Nat
      /\ Head(inbox).sender # Notifier
  BY <1>1, <1>2 DEF Messages
<1>4. Unanswered(Head(inbox).sender) /\ ~Sleeps(Head(inbox).sender)
  BY <1>2, <1>3 DEF ClockInv, InOnePlace
<1> QED
  BY <1>1, <1>2, <1>3, <1>4

LEMMA replyTimeKeeps ==
  ASSUME ClockInv, replyTime
  PROVE  ClockInv'
<1> DEFINE s == Head(inbox).sender
<1>1. /\ inbox' \in Seq(Messages) /\ RequestsKnown'
      /\ s \in Clients /\ s # Notifier /\ ~Sleeps(s) /\ Unanswered(s)
      /\ \A t : Sent(t)' <=> Sent(t) /\ t # s
      /\ \A i, j \in DOMAIN inbox' : inbox'[i].sender = inbox'[j].sender => i = j
  BY Taken DEF replyTime
<1>2. TypeOK'
  BY <1>1 DEF Messages, replyTime, timerVars, ClockInv, TypeOK
<1>3. answer' = [answer EXCEPT ![s] = TOTAL_TICKS]
  BY DEF replyTime
<1>4. \A d \in Clients : d # s => answer'[d] = answer[d]
  BY <1>3 DEF ClockInv, TypeOK
<1> HIDE DEF s
<1>5. OneEach' /\ \A d : Sleeps(d)' <=> Sleeps(d)
  BY <1>1 DEF replyTime, ClockInv, OneEach, Sleeps
<1>6. InOnePlace' /\ Idle'
  BY <1>1, <1>4, <1>5 DEF replyTime, ClockInv, InOnePlace, Unanswered, Idle
<1>7. NotifierKnown' /\ Counted'
  BY <1>1 DEF replyTime, timerVars, ClockInv, NotifierKnown, Counted, OnItsWay
<1> QED
  BY <1>1, <1>2, <1>5, <1>6, <1>7 DEF ClockInv

\* The client whose call has been taken is entered in the heap, or is not.
LEMMA SleepKeeps ==
  ASSUME ClockInv, NEW type \in {"DELAY", "DELAY_UNTIL"}, Takes(type),
         NEW time \in Nat, Sleep(Head(inbox).sender, time),
         UNCHANGED <<TOTAL_TICKS, server, timerVars, clientVars, aborted>>
  PROVE  ClockInv'
<1> DEFINE s == Head(inbox).sender
           e == [tid |-> s, time |-> time]
<1>1. /\ inbox' \in Seq(Messages) /\ RequestsKnown'
      /\ s \in Clients /\ s # Notifier /\ ~Sleeps(s) /\ Unanswered(s)
      /\ \A t : Sent(t)' <=> Sent(t) /\ t # s
      /\ \A i, j \in DOMAIN inbox' : inbox'[i].sender = inbox'[j].sender => i = j
  BY Taken DEF clientVars
<1>2. e \in [tid : Clients, time : Nat] /\ e.tid = s
  BY <1>1
<1>3. waitingTasks' = waitingTasks \/ waitingTasks' = waitingTasks \cup {e}
  BY DEF Sleep
<1> HIDE DEF s, e
<1>4. TypeOK'
  BY <1>1, <1>2, <1>3 DEF Messages, timerVars, clientVars, ClockInv, TypeOK
<1>5. /\ \A w \in waitingTasks : w \in waitingTasks' /\ w.tid # s
      /\ \A w \in waitingTasks' : w \in waitingTasks \/ w = e
  BY <1>1, <1>3 DEF Sleeps
<1>6. OneEach'
  BY <1>1, <1>2, <1>5 DEF ClockInv, OneEach
<1>7. \A d : (Sleeps(d) => Sleeps(d)') /\ (Sleeps(d)' => Sleeps(d) \/ d = s)
  BY <1>2, <1>5 DEF Sleeps
<1>8. InOnePlace' /\ Idle'
  BY <1>1, <1>7 DEF clientVars, ClockInv, InOnePlace, Unanswered, Idle
<1>9. NotifierKnown' /\ Counted'
  BY <1>1 DEF timerVars, ClockInv, NotifierKnown, Counted, OnItsWay
<1> QED
  BY <1>1, <1>4, <1>6, <1>8, <1>9 DEF ClockInv

LEMMA handleDelayKeeps ==
  ASSUME ClockInv, handleDelay
  PROVE  ClockInv'
<1>1. Takes("DELAY") /\ UNCHANGED <<TOTAL_TICKS, server, timerVars, clientVars, aborted>>
  BY DEF handleDelay
<1>2. Head(inbox).ticks \in Nat
  BY <1>1, Taken DEF clientVars
<1>3. TOTAL_TICKS + Head(inbox).ticks \in Nat
  BY <1>2 DEF ClockInv, TypeOK, Ticks
<1>4. (TOTAL_TICKS + Head(inbox).ticks) % 2^WIDTH \in Nat
  BY <1>3, Modulo DEF Ticks
<1> QED
  BY <1>1, <1>4, SleepKeeps DEF handleDelay

LEMMA handleDelayUntilKeeps ==
  ASSUME ClockInv, handleDelayUntil
  PROVE  ClockInv'
<1>1. Takes("DELAY_UNTIL") /\ UNCHANGED <<TOTAL_TICKS, server, timerVars, clientVars, aborted>>
  BY DEF handleDelayUntil
<1>2. Head(inbox).ticks \in Nat
  BY <1>1, Taken DEF clientVars
<1> QED
  BY <1>1, <1>2, SleepKeeps DEF handleDelayUntil

LEMMA TickKeeps ==
  ASSUME ClockInv, Tick
  PROVE  ClockInv'
<1>1. inbox # <<>> /\ inbox' = Tail(inbox) /\ Head(inbox).type = "TICK" /\ server = "receiving"
  BY DEF Tick, Takes
<1>2. /\ inbox' \in Seq(Messages) /\ RequestsKnown'
      /\ Sent(Notifier)
      /\ \A t : Sent(t)' <=> Sent(t) /\ t # Notifier
      /\ \A i, j \in DOMAIN inbox' : inbox'[i].sender = inbox'[j].sender => i = j
  BY <1>1, InboxShrinks DEF Tick, clientVars
<1>3. notifier = "send_blocked"
  BY <1>2 DEF ClockInv, NotifierKnown
<1>4. TOTAL_TICKS \in Ticks /\ TOTAL_TICKS \in Nat
  BY DEF ClockInv, TypeOK, Ticks
<1>5. TOTAL_TICKS' \in Ticks /\ TOTAL_TICKS' \in Nat /\ interrupts = TOTAL_TICKS'
  <2>1. TOTAL_TICKS + 1 \in Nat
    BY <1>4
  <2>2. (TOTAL_TICKS + 1) % 2^WIDTH \in Ticks
    BY <2>1, Modulo
  <2>3. TOTAL_TICKS' = (TOTAL_TICKS + 1) % 2^WIDTH
    BY DEF Tick
  <2>4. interrupts = (TOTAL_TICKS + 1) % 2^WIDTH
    BY <1>3 DEF ClockInv, Counted, OnItsWay
  <2> QED
    BY <2>2, <2>3, <2>4 DEF Ticks
<1>6. Counted'
  BY <1>5 DEF Tick, Counted, OnItsWay
<1>7. TypeOK'
  BY <1>2, <1>5 DEF Messages, Tick, clientVars, ClockInv, TypeOK
<1>8. OneEach' /\ \A d : Sleeps(d)' <=> Sleeps(d)
  BY <1>2 DEF Tick, ClockInv, OneEach, Sleeps
<1>9. InOnePlace' /\ Idle'
  BY <1>2, <1>8 DEF Tick, clientVars, ClockInv, InOnePlace, Unanswered, Idle
<1>10. NotifierKnown'
  BY <1>2 DEF Tick, NotifierKnown
<1> QED
  BY <1>2, <1>6, <1>7, <1>8, <1>9, <1>10 DEF ClockInv

\* A sleeper that is answered has slept, and sleeps no more.
LEMMA WakeOneKeeps ==
  ASSUME ClockInv, WakeOne
  PROVE  ClockInv'
<1>1. PICK w \in Due : /\ waitingTasks' = waitingTasks \ {w}
                       /\ answer' = [answer EXCEPT ![w.tid] = 1]
  BY DEF WakeOne
<1> DEFINE s == w.tid
<1>2. w \in waitingTasks
  BY DEF Due, Front
<1>3. s \in Clients /\ Sleeps(s)
  BY <1>2 DEF ClockInv, TypeOK, Sleeps
<1>4. ~Sent(s) /\ Unanswered(s)
  BY <1>3 DEF ClockInv, InOnePlace
<1>5. 1 \in Ticks
  BY ClockAssumption DEF Ticks
<1>6. TypeOK'
  BY <1>1, <1>5 DEF WakeOne, timerVars, ClockInv, TypeOK
<1>7. \A d \in Clients : d # s => answer'[d] = answer[d]
  BY <1>1 DEF ClockInv, TypeOK
<1> HIDE DEF s
<1>8. \A d : Sleeps(d)' <=> Sleeps(d) /\ d # s
  BY <1>1, <1>2 DEF ClockInv, OneEach, Sleeps, s
<1>9. \A d : Sent(d)' <=> Sent(d)
  BY DEF WakeOne, Sent
<1>10. OneEach'
  BY <1>1 DEF WakeOne, ClockInv, OneEach
<1>11. InOnePlace' /\ Idle'
  BY <1>3, <1>4, <1>7, <1>8, <1>9 DEF WakeOne, ClockInv, InOnePlace, Unanswered, Idle
<1>12. NotifierKnown' /\ Counted' /\ RequestsKnown'
  BY <1>9 DEF WakeOne, timerVars, ClockInv, NotifierKnown, Counted, OnItsWay, RequestsKnown
<1> QED
  BY <1>6, <1>10, <1>11, <1>12 DEF ClockInv

LEMMA FreeNotifierKeeps ==
  ASSUME ClockInv, FreeNotifier
  PROVE  ClockInv'
<1>1. notifier = "reply_blocked" /\ ~Sent(Notifier)
  BY DEF FreeNotifier, ClockInv, NotifierKnown
<1>2. \A t : (Sent(t)' <=> Sent(t)) /\ (Sleeps(t)' <=> Sleeps(t))
  BY DEF FreeNotifier, Sent, Sleeps
<1>3. NotifierKnown' /\ Counted'
  BY <1>1, <1>2 DEF FreeNotifier, ClockInv, NotifierKnown, Counted, OnItsWay
<1>4. TypeOK' /\ OneEach' /\ RequestsKnown'
  BY DEF FreeNotifier, clientVars, ClockInv, TypeOK, OneEach, RequestsKnown
<1>5. InOnePlace' /\ Idle'
  BY <1>2 DEF FreeNotifier, clientVars, ClockInv, InOnePlace, Unanswered, Idle
<1> QED
  BY <1>3, <1>4, <1>5 DEF ClockInv

LEMMA StutterKeeps == ClockInv /\ UNCHANGED vars => ClockInv'
BY DEF vars, ClockInv, TypeOK, OneEach, RequestsKnown, InOnePlace, NotifierKnown, Counted, OnItsWay,
       Sent, Sleeps, Unanswered, Idle

LEMMA InvStep == ClockInv /\ [Next]_vars => ClockInv'
<1> SUFFICES ASSUME ClockInv, [Next]_vars PROVE ClockInv'
  OBVIOUS
<1>1. ASSUME NEW c \in Clients, NEW type \in CallTypes \cap {"DELAY", "DELAY_UNTIL"},
             NEW ticks \in TickArgs, Call(c, type, ticks)
      PROVE  ClockInv'
  <2>1. type \in CallTypes /\ ticks \in Nat
    BY ClockAssumption
  <2> QED
    BY <1>1, <2>1, CallKeeps
<1>2. ASSUME NEW c \in Clients, "TIME" \in CallTypes, Call(c, "TIME", 0) PROVE ClockInv'
  BY <1>2, CallKeeps
<1>3. ASSUME NEW c \in Clients, Return(c) PROVE ClockInv'
  BY <1>3, ReturnKeeps
<1>4. ASSUME NEW c \in Clients, WakeUp(c) PROVE ClockInv'
  BY <1>4, WakeUpKeeps
<1>5. CASE TimerInterrupt
  BY <1>5, TimerInterruptKeeps
<1>6. CASE NotifierSends
  BY <1>6, NotifierSendsKeeps
<1>7. CASE Serve
  BY <1>7, replyTimeKeeps, handleDelayKeeps, handleDelayUntilKeeps, TickKeeps, WakeOneKeeps,
     FreeNotifierKeeps DEF Serve
<1>8. CASE Halted \/ UNCHANGED vars
  BY <1>8, StutterKeeps DEF Halted
<1> QED
  BY <1>1, <1>2, <1>3, <1>4, <1>5, <1>6, <1>7, <1>8 DEF Next

THEOREM Invariance == Spec => []ClockInv
<1>1. Init => ClockInv
  BY InvInit
<1>2. ClockInv /\ [Next]_vars => ClockInv'
  BY InvStep
<1> QED
  BY <1>1, <1>2, PTL DEF Spec

\* Every variable keeps its type, TOTAL_TICKS its width.
THEOREM TypeCorrect == Spec => []TypeOK
<1>1. ClockInv => TypeOK
  BY DEF ClockInv
<1> QED
  BY <1>1, Invariance, PTL

\* The ticks that the server has counted and the interrupts of the timer differ
\* by the one that is on its way, also when both wrap around.
THEOREM TicksCounted == Spec => []EveryTickCounted
<1>1. ClockInv => EveryTickCounted
  <2> SUFFICES ASSUME ClockInv PROVE EveryTickCounted
    OBVIOUS
  <2>1. DOMAIN inbox = 1 .. Len(inbox)
    BY DEF ClockInv, TypeOK
  <2>2. Sent(Notifier) <=> Requests(Notifier) # {}
    BY <2>1 DEF Sent, Requests
  <2>3. TOTAL_TICKS \in Nat /\ TOTAL_TICKS + 0 = TOTAL_TICKS /\ TOTAL_TICKS % 2^WIDTH = TOTAL_TICKS
    BY Modulo DEF ClockInv, TypeOK, Ticks
  <2> QED
    BY <2>2, <2>3 DEF ClockInv, Counted, OnItsWay, NotifierKnown, EveryTickCounted
<1> QED
  BY <1>1, Invariance, PTL

-----------------------------------------------------------------------------
(* Nobody is forgotten, if there is a place in the heap for each client.   *)

HeapHolds == IsFiniteSet(Clients) /\ Cardinality(Clients) <= HEAP_SIZE

NoOneLost == \A c \in Clients : Unanswered(c) => Sent(c) \/ Sleeps(c)

\* The heap is never full when somebody comes who is not in it.
LEMMA HeapHasRoom ==
  ASSUME ClockInv, HeapHolds, NEW c \in Clients, ~Sleeps(c)
  PROVE  Cardinality(waitingTasks) # HEAP_SIZE
<1> DEFINE others == Clients \ {c}
           f == [w \in waitingTasks |-> w.tid]
<1>1. /\ IsFiniteSet(others) /\ Cardinality(others) = Cardinality(Clients) - 1
      /\ Cardinality(Clients) \in Nat
  BY FS_RemoveElement, FS_CardinalityType DEF HeapHolds
<1>2. \A w \in waitingTasks : w.tid \in others
  BY DEF ClockInv, TypeOK, Sleeps
<1>3. f \in Injection(waitingTasks, others)
  BY <1>2 DEF Injection, IsInjective, ClockInv, OneEach
<1> HIDE DEF others, f
<1>4. /\ IsFiniteSet(waitingTasks)
      /\ Cardinality(waitingTasks) <= Cardinality(others)
  BY <1>1, <1>3, FS_Injection
<1>5. Cardinality(waitingTasks) \in Nat
  BY <1>4, FS_CardinalityType
<1> QED
  BY <1>1, <1>4, <1>5, ClockAssumption DEF HeapHolds

\* Whoever is taken with a call that sleeps is asleep then.
LEMMA FallsAsleep ==
  ASSUME ClockInv, HeapHolds, NEW type \in {"DELAY", "DELAY_UNTIL"}, Takes(type),
         UNCHANGED <<call, wanted>>, NEW time, Sleep(Head(inbox).sender, time)
  PROVE  \A d : Sleeps(d)' <=> Sleeps(d) \/ d = Head(inbox).sender
<1> DEFINE s == Head(inbox).sender
           e == [tid |-> s, time |-> time]
<1>1. s \in Clients /\ ~Sleeps(s)
  BY Taken
<1>2. waitingTasks' = waitingTasks \cup {e}
  BY <1>1, HeapHasRoom DEF Sleep
<1>3. e.tid = s
  OBVIOUS
<1> HIDE DEF e, s
<1>4. \A d : Sleeps(d)' <=> Sleeps(d) \/ d = s
  BY <1>2, <1>3 DEF Sleeps
<1> QED
  BY <1>4 DEF s

LEMMA NoOneLostStep ==
  ASSUME HeapHolds, ClockInv, NoOneLost, [Next]_vars
  PROVE  NoOneLost'
<1>1. ASSUME NEW c \in Clients, NEW type, NEW ticks, Call(c, type, ticks)
      PROVE  NoOneLost'
  <2> DEFINE r == Request(c, type, ticks)
  <2>1. inbox' = Append(inbox, r) /\ r.sender = c /\ inbox \in Seq(Messages)
    BY <1>1 DEF Call, Request, ClockInv, TypeOK, Messages
  <2> HIDE DEF r, Messages
  <2>2. Sent(c)' /\ \A d : Sent(d) => Sent(d)'
    BY <2>1 DEF Sent
  <2>3. \A d \in Clients : d # c => (Unanswered(d)' <=> Unanswered(d))
    BY <1>1 DEF Call, ClockInv, TypeOK, Unanswered
  <2>4. \A d : Sleeps(d)' <=> Sleeps(d)
    BY <1>1 DEF Call, Sleeps
  <2> QED
    BY <2>2, <2>3, <2>4 DEF NoOneLost
<1>2. ASSUME NEW c \in Clients, Return(c) PROVE NoOneLost'
  <2>1. \A d \in Clients : Unanswered(d)' => Unanswered(d)
    BY <1>2 DEF Return, ClockInv, TypeOK, Unanswered
  <2> QED
    BY <1>2, <2>1 DEF Return, NoOneLost, Sent, Sleeps
<1>3. ASSUME NEW c \in Clients, WakeUp(c) PROVE NoOneLost'
  <2>1. CASE ~AnswerExpected(c)
    BY <1>3, <2>1 DEF WakeUp, NoOneLost, Unanswered, Sent, Sleeps
  <2>2. CASE AnswerExpected(c)
    <3> DEFINE r == Request(c, "TIME", 0)
    <3>1. inbox' = Append(inbox, r) /\ r.sender = c /\ inbox \in Seq(Messages)
      BY <1>3, <2>2 DEF WakeUp, Request, ClockInv, TypeOK, Messages
    <3> HIDE DEF r, Messages
    <3>2. Sent(c)' /\ \A d : Sent(d) => Sent(d)'
      BY <3>1 DEF Sent
    <3>3. \A d \in Clients : d # c => (Unanswered(d)' <=> Unanswered(d))
      BY <1>3, <2>2 DEF WakeUp, ClockInv, TypeOK, Unanswered
    <3>4. \A d : Sleeps(d)' <=> Sleeps(d)
      BY <1>3 DEF WakeUp, Sleeps
    <3> QED
      BY <3>2, <3>3, <3>4 DEF NoOneLost
  <2> QED
    BY <2>1, <2>2
<1>4. CASE TimerInterrupt
  BY <1>4 DEF TimerInterrupt, clientVars, NoOneLost, Unanswered, Sent, Sleeps
<1>5. CASE NotifierSends
  <2> DEFINE r == Request(Notifier, "TICK", 0)
  <2>1. inbox' = Append(inbox, r) /\ inbox \in Seq(Messages)
    BY <1>5 DEF NotifierSends, ClockInv, TypeOK, Messages
  <2> HIDE DEF r, Messages
  <2>2. \A d : Sent(d) => Sent(d)'
    BY <2>1 DEF Sent
  <2> QED
    BY <1>5, <2>2 DEF NotifierSends, clientVars, NoOneLost, Unanswered, Sleeps
<1>6. CASE replyTime
  <2> DEFINE s == Head(inbox).sender
  <2>1. s \in Clients /\ \A t : Sent(t)' <=> Sent(t) /\ t # s
    BY <1>6, Taken DEF replyTime
  <2>2. answer' = [answer EXCEPT ![s] = TOTAL_TICKS] /\ TOTAL_TICKS # NoAnswer
    BY <1>6 DEF replyTime, ClockInv, TypeOK, Ticks, NoAnswer
  <2> HIDE DEF s
  <2>3. \A d \in Clients : Unanswered(d)' => Unanswered(d) /\ d # s
    BY <1>6, <2>1, <2>2 DEF replyTime, ClockInv, TypeOK, Unanswered
  <2>4. \A d : Sleeps(d)' <=> Sleeps(d)
    BY <1>6 DEF replyTime, Sleeps
  <2> QED
    BY <2>1, <2>3, <2>4 DEF NoOneLost
<1>7. CASE handleDelay
  <2>1. Takes("DELAY") /\ UNCHANGED <<call, wanted>> /\ answer' = answer
    BY <1>7 DEF handleDelay, clientVars
  <2>2. /\ \A t : Sent(t)' <=> Sent(t) /\ t # Head(inbox).sender
        /\ \A t : Sleeps(t)' <=> Sleeps(t) \/ t = Head(inbox).sender
    BY <1>7, <2>1, Taken, FallsAsleep DEF handleDelay
  <2> QED
    BY <2>1, <2>2 DEF NoOneLost, Unanswered
<1>8. CASE handleDelayUntil
  <2>1. Takes("DELAY_UNTIL") /\ UNCHANGED <<call, wanted>> /\ answer' = answer
    BY <1>8 DEF handleDelayUntil, clientVars
  <2>2. /\ \A t : Sent(t)' <=> Sent(t) /\ t # Head(inbox).sender
        /\ \A t : Sleeps(t)' <=> Sleeps(t) \/ t = Head(inbox).sender
    BY <1>8, <2>1, Taken, FallsAsleep DEF handleDelayUntil
  <2> QED
    BY <2>1, <2>2 DEF NoOneLost, Unanswered
<1>9. CASE Tick
  <2>1. inbox # <<>> /\ inbox' = Tail(inbox) /\ Head(inbox).type = "TICK"
    BY <1>9 DEF Tick, Takes
  <2>2. \A t : Sent(t)' <=> Sent(t) /\ t # Notifier
    BY <1>9, <2>1, InboxShrinks DEF Tick, clientVars
  <2> QED
    BY <1>9, <2>2, ClockAssumption DEF Tick, clientVars, NoOneLost, Unanswered, Sleeps
<1>10. CASE WakeOne
  <2>1. PICK w \in Due : /\ waitingTasks' = waitingTasks \ {w}
                         /\ answer' = [answer EXCEPT ![w.tid] = 1]
    BY <1>10 DEF WakeOne
  <2>2. \A d \in Clients : Unanswered(d)' => Unanswered(d) /\ d # w.tid
    BY <1>10, <2>1 DEF WakeOne, ClockInv, TypeOK, Unanswered, NoAnswer
  <2>3. \A d : Sleeps(d) /\ d # w.tid => Sleeps(d)'
    BY <2>1 DEF Sleeps
  <2>4. \A d : Sent(d)' <=> Sent(d)
    BY <1>10 DEF WakeOne, Sent
  <2> QED
    BY <2>2, <2>3, <2>4 DEF NoOneLost
<1>11. CASE FreeNotifier
  BY <1>11 DEF FreeNotifier, clientVars, NoOneLost, Unanswered, Sent, Sleeps
<1>12. CASE Halted \/ UNCHANGED vars
  BY <1>12 DEF Halted, vars, NoOneLost, Unanswered, Sent, Sleeps
<1> QED
  BY <1>1, <1>2, <1>3, <1>4, <1>5, <1>6, <1>7, <1>8, <1>9, <1>10, <1>11, <1>12 DEF Next, Serve

\* Where somebody is counts as often as he is there.
LEMMA PlacesCounted ==
  ASSUME ClockInv, NEW c \in Clients
  PROVE  /\ Cardinality(Requests(c)) = IF Sent(c) THEN 1 ELSE 0
         /\ Cardinality(Asleep(c)) = IF Sleeps(c) THEN 1 ELSE 0
<1>1. DOMAIN inbox = 1 .. Len(inbox)
  BY DEF ClockInv, TypeOK
<1>2. ASSUME Sent(c) PROVE Cardinality(Requests(c)) = 1
  <2>1. PICK i \in DOMAIN inbox : inbox[i].sender = c
    BY <1>2 DEF Sent
  <2>2. Requests(c) = {i}
    BY <1>1, <2>1 DEF Requests, ClockInv, OneEach
  <2> QED
    BY <2>2, FS_Singleton
<1>3. ASSUME ~Sent(c) PROVE Cardinality(Requests(c)) = 0
  <2>1. Requests(c) = {}
    BY <1>1, <1>3 DEF Requests, Sent
  <2> QED
    BY <2>1, FS_EmptySet
<1>4. ASSUME Sleeps(c) PROVE Cardinality(Asleep(c)) = 1
  <2>1. PICK w \in waitingTasks : w.tid = c
    BY <1>4 DEF Sleeps
  <2>2. Asleep(c) = {w}
    BY <2>1 DEF Asleep, ClockInv, OneEach
  <2> QED
    BY <2>2, FS_Singleton
<1>5. ASSUME ~Sleeps(c) PROVE Cardinality(Asleep(c)) = 0
  <2>1. Asleep(c) = {}
    BY <1>5 DEF Asleep, Sleeps
  <2> QED
    BY <2>1, FS_EmptySet
<1> QED
  BY <1>2, <1>3, <1>4, <1>5

\* A caller without an answer is in one place, and no other task is in any: the
\* server answers each call once, however many call at a time and however long
\* they sleep.
THEOREM NoneForgotten ==
  ASSUME HeapHolds
  PROVE  Spec => []NobodyForgotten
<1>1. Init => NoOneLost
  BY DEF Init, NoOneLost, Unanswered
<1>2. ClockInv /\ NoOneLost /\ [Next]_vars => NoOneLost'
  BY NoOneLostStep
<1>3. ClockInv /\ NoOneLost => NobodyForgotten
  <2> SUFFICES ASSUME ClockInv, NoOneLost, NEW c \in Clients
               PROVE  Cardinality(Requests(c)) + Cardinality(Asleep(c)) =
                        IF Unanswered(c) THEN 1 ELSE 0
    BY DEF NobodyForgotten, Unanswered
  <2>1. Unanswered(c) <=> Sent(c) \/ Sleeps(c)
    BY DEF ClockInv, InOnePlace, NoOneLost
  <2>2. ~(Sent(c) /\ Sleeps(c))
    BY DEF ClockInv, InOnePlace
  <2> QED
    BY <2>1, <2>2, PlacesCounted
<1> QED
  BY <1>1, <1>2, <1>3, Invariance, PTL DEF Spec

-----------------------------------------------------------------------------
(* Nobody sleeps too long or too short, as long as the count does not wrap. *)

\* What the machine can count in its life, and the longest sleep on top of it,
\* is a positive number to the heap.
NoWrap ==
  /\ "DELAY_UNTIL" \notin CallTypes
  /\ 2^(WIDTH - 1) \in Nat /\ 2^(WIDTH - 1) <= 2^WIDTH
  /\ \A k \in TickArgs \cup {0} : MAX_TICKS + k < 2^(WIDTH - 1)

TicksBounded ==
  /\ TOTAL_TICKS <= MAX_TICKS
  /\ OnItsWay => TOTAL_TICKS < MAX_TICKS

CallsBounded ==
  \A c \in Clients :
    call[c] # "DELAY_UNTIL" /\ wanted[c] \in TickArgs \cup {0} /\ askedAt[c] <= TOTAL_TICKS

\* An entry is later than the call by what was asked for.
EntriesLater ==
  \A w \in waitingTasks :
    /\ call[w.tid] = "DELAY"
    /\ w.time >= askedAt[w.tid] + wanted[w.tid]
    /\ w.time < 2^(WIDTH - 1)

InTime == TicksBounded /\ CallsBounded /\ EntriesLater /\ NobodyOversleeps

\* While nobody is due, everybody's time is to come.
LEMMA NobodyDue ==
  ASSUME ClockInv, NoWrap, EntriesLater, Due = {}, NEW w \in waitingTasks
  PROVE  w.time > TOTAL_TICKS
<1> DEFINE times == {v.time : v \in waitingTasks}
           less == {p \in Nat \X Nat : p[1] < p[2]}
<1>1. times \subseteq Nat /\ times # {}
  BY DEF ClockInv, TypeOK
<1>2. PICK m \in times : \A n \in times : ~(<<n, m>> \in less)
  <2>1. IsWellFoundedOn(less, Nat)
    BY NatLessThanWellFounded, Zenon DEF OpToRel
  <2> HIDE DEF times, less
  <2> QED
    BY <1>1, <2>1, WFMin, Zenon
<1>3. \A n \in times : m <= n
  <2> SUFFICES ASSUME NEW n \in times PROVE m <= n
    OBVIOUS
  <2>1. ~(<<n, m>> \in less) /\ n \in Nat /\ m \in Nat
    BY <1>1, <1>2
  <2> HIDE DEF times
  <2> QED
    BY <2>1
<1>4. PICK v \in waitingTasks : v.time = m
  OBVIOUS
<1>5. \A u \in waitingTasks : u.time \in Nat /\ Signed(u.time) = u.time
  BY DEF ClockInv, TypeOK, EntriesLater, NoWrap, Signed
<1>6. v \in Front
  BY <1>3, <1>4, <1>5 DEF Front
<1>7. ~(v.time <= TOTAL_TICKS)
  BY <1>6 DEF Due
<1>8. TOTAL_TICKS \in Nat /\ v.time <= w.time
  BY <1>3, <1>4 DEF ClockInv, TypeOK, Ticks
<1> QED
  BY <1>5, <1>7, <1>8

LEMMA InTimeInit ==
  ASSUME NoWrap, Init
  PROVE  InTime
BY ClockAssumption
DEF Init, InTime, TicksBounded, OnItsWay, CallsBounded, EntriesLater, NobodyOversleeps, None

LEMMA InTimeStep ==
  ASSUME NoWrap, ClockInv, InTime, [Next]_vars
  PROVE  InTime'
<1>1. /\ TOTAL_TICKS \in Nat /\ MAX_TICKS \in Nat /\ TickArgs \subseteq Nat
      /\ waitingTasks \subseteq [tid : Clients, time : Nat]
  BY ClockAssumption DEF ClockInv, TypeOK, Ticks
<1>2. ASSUME NEW c \in Clients, NEW type \in CallTypes, NEW ticks \in TickArgs \cup {0},
             Call(c, type, ticks)
      PROVE  InTime'
  <2>1. \A w \in waitingTasks : w.tid # c /\ w.tid \in Clients
    BY <1>1, <1>2 DEF Call, ClockInv, InOnePlace, Unanswered, Sleeps
  <2>2. /\ call'[c] = type /\ wanted'[c] = ticks /\ askedAt'[c] = TOTAL_TICKS
        /\ \A d \in Clients : d # c => /\ call'[d] = call[d] /\ wanted'[d] = wanted[d]
                                       /\ askedAt'[d] = askedAt[d]
    BY <1>2 DEF Call, ClockInv, TypeOK
  <2>3. UNCHANGED <<TOTAL_TICKS, waitingTasks, server, notifier>> /\ type # "DELAY_UNTIL"
    BY <1>2 DEF Call, timerVars, NoWrap
  <2>4. CallsBounded'
    BY <1>1, <2>2, <2>3 DEF InTime, CallsBounded
  <2>5. EntriesLater' /\ NobodyOversleeps'
    BY <2>1, <2>2, <2>3 DEF InTime, EntriesLater, NobodyOversleeps
  <2> QED
    BY <2>3, <2>4, <2>5 DEF InTime, TicksBounded, OnItsWay
<1>3. ASSUME NEW c \in Clients, Return(c) \/ WakeUp(c)
      PROVE  InTime'
  <2>1. \A w \in waitingTasks : w.tid # c /\ w.tid \in Clients
    BY <1>1, <1>3 DEF Return, WakeUp, ClockInv, InOnePlace, Unanswered, Sleeps
  <2>2. /\ call'[c] # "DELAY_UNTIL"
        /\ \A d \in Clients : d # c => call'[d] = call[d]
    BY <1>3 DEF Return, WakeUp, ClockInv, TypeOK, None, InTime, CallsBounded
  <2>3. UNCHANGED <<TOTAL_TICKS, waitingTasks, server, notifier, wanted, askedAt>>
    BY <1>3 DEF Return, WakeUp, timerVars
  <2>4. CallsBounded'
    BY <2>2, <2>3 DEF InTime, CallsBounded
  <2>5. EntriesLater' /\ NobodyOversleeps'
    BY <2>1, <2>2, <2>3 DEF InTime, EntriesLater, NobodyOversleeps
  <2> QED
    BY <2>3, <2>4, <2>5 DEF InTime, TicksBounded, OnItsWay
<1>4. CASE TimerInterrupt
  <2>1. UNCHANGED <<TOTAL_TICKS, waitingTasks, server, call, wanted, askedAt>> /\ TOTAL_TICKS < MAX_TICKS
    BY <1>4 DEF TimerInterrupt, clientVars
  <2> QED
    BY <2>1 DEF InTime, TicksBounded, CallsBounded, EntriesLater, NobodyOversleeps
<1>5. CASE NotifierSends
  <2>1. UNCHANGED <<TOTAL_TICKS, waitingTasks, server, call, wanted, askedAt>> /\ OnItsWay /\ OnItsWay'
    BY <1>5 DEF NotifierSends, clientVars, OnItsWay
  <2> QED
    BY <2>1 DEF InTime, TicksBounded, CallsBounded, EntriesLater, NobodyOversleeps
<1>6. CASE replyTime
  BY <1>6 DEF replyTime, timerVars, InTime, TicksBounded, OnItsWay, CallsBounded, EntriesLater,
              NobodyOversleeps
<1>7. CASE handleDelay
  <2> DEFINE s == Head(inbox).sender
             ticks == Head(inbox).ticks
             e == [tid |-> s, time |-> TOTAL_TICKS + ticks]
  <2>1. Takes("DELAY") /\ UNCHANGED <<TOTAL_TICKS, server, notifier, call, wanted, askedAt>>
    BY <1>7 DEF handleDelay, timerVars, clientVars
  <2>2. s \in Clients /\ ticks = wanted[s] /\ ticks \in TickArgs \cup {0} /\ call[s] = "DELAY"
    BY <2>1, Taken DEF InTime, CallsBounded
  <2> HIDE DEF s, ticks
  <2>3. /\ TOTAL_TICKS + ticks \in Nat /\ TOTAL_TICKS + ticks < 2^(WIDTH - 1)
        /\ TOTAL_TICKS + ticks < 2^WIDTH
    <3>1. TOTAL_TICKS <= MAX_TICKS /\ MAX_TICKS + ticks < 2^(WIDTH - 1) /\ ticks \in Nat
      BY <1>1, <2>2 DEF InTime, TicksBounded, NoWrap
    <3> QED
      BY <1>1, <3>1, ClockAssumption DEF NoWrap
  <2>4. (TOTAL_TICKS + ticks) % 2^WIDTH = TOTAL_TICKS + ticks
    <3>1. TOTAL_TICKS + ticks \in Ticks
      BY <2>3, ClockAssumption DEF Ticks
    <3> QED
      BY <2>3, <3>1, Modulo
  <2>5. waitingTasks' = waitingTasks \/ waitingTasks' = waitingTasks \cup {e}
    BY <1>7, <2>4 DEF handleDelay, Sleep, s, ticks
  <2>6. \A w \in waitingTasks' : w \in waitingTasks \/ w = e
    BY <2>5
  <2>7. e.tid = s /\ e.time = TOTAL_TICKS + wanted[s]
    BY <2>2
  <2>8. askedAt[s] <= TOTAL_TICKS /\ askedAt[s] \in Nat /\ wanted[s] \in Nat
    BY <1>1, <2>2 DEF InTime, CallsBounded, ClockInv, TypeOK, Ticks
  <2>9. e.time >= askedAt[s] + wanted[s] /\ e.time < 2^(WIDTH - 1)
    BY <1>1, <2>2, <2>3, <2>7, <2>8
  <2>10. e.time > TOTAL_TICKS \/ (e.time = TOTAL_TICKS /\ wanted[s] = 0)
    BY <1>1, <2>7, <2>8
  <2> HIDE DEF e
  <2>11. EntriesLater'
    BY <2>1, <2>2, <2>6, <2>7, <2>9 DEF InTime, EntriesLater
  <2>12. NobodyOversleeps'
    BY <2>1, <2>6, <2>7, <2>10 DEF InTime, NobodyOversleeps
  <2> QED
    BY <2>1, <2>11, <2>12 DEF InTime, TicksBounded, OnItsWay, CallsBounded
<1>8. CASE handleDelayUntil
  <2>1. Takes("DELAY_UNTIL") /\ UNCHANGED <<call, wanted>>
    BY <1>8 DEF handleDelayUntil, clientVars
  <2> QED
    BY <2>1, Taken DEF InTime, CallsBounded
<1>9. CASE Tick
  <2>1. inbox # <<>> /\ inbox' = Tail(inbox) /\ Head(inbox).type = "TICK"
    BY <1>9 DEF Tick, Takes
  <2>2. OnItsWay
    BY <1>9, <2>1, InboxShrinks DEF Tick, clientVars, ClockInv, NotifierKnown, OnItsWay
  <2>3. TOTAL_TICKS < MAX_TICKS /\ MAX_TICKS < 2^(WIDTH - 1) /\ MAX_TICKS < 2^WIDTH
    <3>1. MAX_TICKS + 0 < 2^(WIDTH - 1)
      BY DEF NoWrap
    <3> QED
      BY <1>1, <2>2, <3>1, ClockAssumption DEF InTime, TicksBounded, NoWrap
  <2>4. (TOTAL_TICKS + 1) % 2^WIDTH = TOTAL_TICKS + 1
    <3>1. TOTAL_TICKS + 1 \in Ticks /\ TOTAL_TICKS + 1 \in Nat
      BY <1>1, <2>3, ClockAssumption DEF Ticks
    <3> QED
      BY <3>1, Modulo
  <2>5. TOTAL_TICKS' = TOTAL_TICKS + 1 /\ server' = "waking" /\ ~OnItsWay'
    BY <1>9, <2>4 DEF Tick, OnItsWay
  <2>6. UNCHANGED <<waitingTasks, call, wanted, askedAt>>
    BY <1>9 DEF Tick, clientVars
  <2>7. TicksBounded'
    BY <1>1, <2>3, <2>5 DEF TicksBounded
  <2>8. CallsBounded'
    <3>1. \A c \in Clients : askedAt[c] \in Nat
      BY DEF ClockInv, TypeOK, Ticks
    <3> QED
      BY <1>1, <2>5, <2>6, <3>1 DEF InTime, CallsBounded
  <2>9. EntriesLater' /\ NobodyOversleeps'
    BY <2>5, <2>6 DEF InTime, EntriesLater, NobodyOversleeps
  <2> QED
    BY <2>7, <2>8, <2>9 DEF InTime
<1>10. CASE WakeOne
  <2>1. waitingTasks' \subseteq waitingTasks /\ server = "waking"
    BY <1>10 DEF WakeOne
  <2>2. UNCHANGED <<TOTAL_TICKS, server, notifier, call, wanted, askedAt>>
    BY <1>10 DEF WakeOne, timerVars
  <2> QED
    BY <2>1, <2>2 DEF InTime, TicksBounded, OnItsWay, CallsBounded, EntriesLater, NobodyOversleeps
<1>11. CASE FreeNotifier
  <2>1. \A w \in waitingTasks : w.time > TOTAL_TICKS
    BY <1>11, NobodyDue DEF FreeNotifier, InTime
  <2>2. UNCHANGED <<TOTAL_TICKS, waitingTasks, call, wanted, askedAt>> /\ ~OnItsWay'
    BY <1>11 DEF FreeNotifier, clientVars, OnItsWay
  <2> QED
    BY <2>1, <2>2 DEF InTime, TicksBounded, CallsBounded, EntriesLater, NobodyOversleeps
<1>12. CASE Halted \/ UNCHANGED vars
  BY <1>12 DEF Halted, vars, InTime, TicksBounded, OnItsWay, CallsBounded, EntriesLater, NobodyOversleeps
<1>13. \A type \in CallTypes \cap {"DELAY", "DELAY_UNTIL"}, ticks \in TickArgs :
         type \in CallTypes /\ ticks \in TickArgs \cup {0}
  OBVIOUS
<1> QED
  BY <1>2, <1>3, <1>4, <1>5, <1>6, <1>7, <1>8, <1>9, <1>10, <1>11, <1>12, <1>13 DEF Next, Serve

LEMMA InTimeAlways ==
  ASSUME NoWrap
  PROVE  Spec => []InTime
<1>1. Init => InTime
  BY InTimeInit
<1>2. ClockInv /\ InTime /\ [Next]_vars => InTime'
  BY InTimeStep
<1> QED
  BY <1>1, <1>2, Invariance, PTL DEF Spec

\* Once the server has looked at the sleepers, none of them is overdue.
THEOREM NoneOversleeps ==
  ASSUME NoWrap
  PROVE  Spec => []NobodyOversleeps
<1>1. InTime => NobodyOversleeps
  BY DEF InTime
<1> QED
  BY <1>1, InTimeAlways, PTL

\* DELAY is never answered before the ticks asked for have passed since the call,
\* however late the server came to it.
THEOREM NoneWakesEarly ==
  ASSUME NoWrap
  PROVE  Spec => NobodyWakesEarly
<1> DEFINE Early ==
      \A c \in Clients :
        call[c] = "DELAY" /\ answer[c] = NoAnswer /\ answer'[c] # NoAnswer
          => TOTAL_TICKS >= askedAt[c] + wanted[c]
<1>1. ASSUME ClockInv, InTime, [Next]_vars
      PROVE  Early
  <2> SUFFICES ASSUME NEW c \in Clients,
                      call[c] = "DELAY", answer[c] = NoAnswer, answer'[c] # NoAnswer
               PROVE  TOTAL_TICKS >= askedAt[c] + wanted[c]
    OBVIOUS
  <2>0. answer[c] = NoAnswer /\ answer'[c] # NoAnswer
    OBVIOUS
  <2>1. ASSUME NEW d \in Clients, Return(d) \/ WakeUp(d) PROVE FALSE
    <3>1. answer' = answer \/ answer' = [answer EXCEPT ![d] = NoAnswer]
      BY <2>1 DEF Return, WakeUp
    <3> QED
      BY <1>1, <3>1, <2>0 DEF ClockInv, TypeOK
  <2>2. ASSUME replyTime PROVE FALSE
    <3>1. Takes("TIME") /\ UNCHANGED <<call, wanted>>
      BY <2>2 DEF replyTime
    <3>2. call[Head(inbox).sender] = "TIME"
      BY <1>1, <3>1, Taken
    <3> QED
      BY <1>1, <2>2, <3>2, <2>0 DEF replyTime, ClockInv, TypeOK
  <2>3. WakeOne
    BY <1>1, <2>0, <2>1, <2>2 DEF Next, Serve, Call, TimerInterrupt, NotifierSends, handleDelay, handleDelayUntil,
       Tick, FreeNotifier, Halted, vars, clientVars
  <2>4. PICK w \in Due : answer' = [answer EXCEPT ![w.tid] = 1]
    BY <2>3 DEF WakeOne
  <2>5. w.tid = c
    BY <1>1, <2>0, <2>4 DEF ClockInv, TypeOK
  <2>6. w \in waitingTasks /\ w.time <= TOTAL_TICKS /\ w.time >= askedAt[c] + wanted[c]
    BY <1>1, <2>5 DEF Due, Front, InTime, EntriesLater
  <2>7. TOTAL_TICKS \in Nat /\ w.time \in Nat /\ askedAt[c] \in Nat /\ wanted[c] \in Nat
    BY <1>1, <2>6 DEF ClockInv, TypeOK, Ticks
  <2> QED
    BY <2>6, <2>7
<1>2. ClockInv /\ InTime /\ [Next]_vars => [Early]_vars
  BY <1>1
<1> QED
  BY <1>2, Invariance, InTimeAlways, PTL DEF Spec, NobodyWakesEarly
=============================================================================
