---------------------------- MODULE ClockServer ----------------------------
(***************************************************************************)
(* The clock server of user/src/clock_server.cpp with its notifier, the    *)
(* timer and the tasks that call TIME, DELAY and DELAY_UNTIL.              *)
(*                                                                         *)
(* Send, Receive and Reply are those of Rendezvous: a request stays in the *)
(* inbox until the server takes it, and its sender is held until somebody  *)
(* answers.  Each system call of the server is a step of its own, so tasks *)
(* that it has answered may run, and call it, before it goes on.           *)
(***************************************************************************)
EXTENDS Integers, Sequences, FiniteSets

CONSTANTS
  Clients,      \* the tasks that use the clock
  Notifier,     \* the task ClockNotifier
  CallTypes,    \* which of "TIME", "DELAY" and "DELAY_UNTIL" the clients call
  TickArgs,     \* the numbers of ticks that they pass
  HEAP_SIZE,    \* places in waitingTasks (100)
  WIDTH,        \* bits of TOTAL_TICKS and of a priority in the heap (32)
  MAX_TICKS     \* a bound: the timer stops at it; 2^WIDTH lets it run for ever

ASSUME ClockAssumption ==
  /\ Notifier \notin Clients
  /\ CallTypes \subseteq {"TIME", "DELAY", "DELAY_UNTIL"}
  /\ TickArgs \subseteq Nat
  /\ HEAP_SIZE \in Nat /\ WIDTH \in Nat \ {0} /\ MAX_TICKS \in Nat
  /\ 2^WIDTH \in Nat /\ 2^WIDTH >= 2   \* follows, but not for a prover without powers

Ticks == 0 .. 2^WIDTH - 1

\* A heap priority is a signed int, TOTAL_TICKS is unsigned.
Signed(n) == IF n >= 2^(WIDTH - 1) THEN n - 2^WIDTH ELSE n

None == "none"
NoAnswer == -1

VARIABLES
  TOTAL_TICKS,
  waitingTasks,   \* who sleeps, and the tick that it waits for
  inbox,          \* requests that the server has not taken, oldest first
  server,         \* "receiving", or "waking" in the loop of Tick
  notifier,       \* "event_blocked", "running", "send_blocked" or "reply_blocked"
  call,           \* the call that each client is in, or None
  answer,         \* what the server answered to that call, or NoAnswer
  aborted,        \* a uassert has failed
  wanted,         \* the ticks that each client asked for in its last call
  askedAt,        \* and TOTAL_TICKS when it did
  interrupts      \* how often the timer has fired, as far as TOTAL_TICKS can count

vars == <<TOTAL_TICKS, waitingTasks, inbox, server, notifier, call, answer,
          aborted, wanted, askedAt, interrupts>>

clientVars == <<call, answer, wanted, askedAt>>
timerVars  == <<notifier, interrupts>>

Init ==
  /\ TOTAL_TICKS = 0
  /\ waitingTasks = {}
  /\ inbox = <<>>
  /\ server = "receiving"
  /\ notifier = "event_blocked"
  /\ call = [c \in Clients |-> None]
  /\ answer = [c \in Clients |-> NoAnswer]
  /\ aborted = FALSE
  /\ wanted = [c \in Clients |-> 0]
  /\ askedAt = [c \in Clients |-> 0]
  /\ interrupts = 0

-----------------------------------------------------------------------------
(* The clients.                                                            *)

Request(c, type, ticks) == [sender |-> c, type |-> type, ticks |-> ticks]

\* TIME, DELAY or DELAY_UNTIL is entered and sends its request.
Call(c, type, ticks) ==
  /\ ~aborted
  /\ call[c] = None
  /\ call' = [call EXCEPT ![c] = type]
  /\ wanted' = [wanted EXCEPT ![c] = ticks]
  /\ askedAt' = [askedAt EXCEPT ![c] = TOTAL_TICKS]
  /\ inbox' = Append(inbox, Request(c, type, ticks))
  /\ UNCHANGED <<TOTAL_TICKS, waitingTasks, server, timerVars, answer, aborted>>

\* The answer to TIME is what the call returns.
Return(c) ==
  /\ ~aborted
  /\ call[c] = "TIME" /\ answer[c] # NoAnswer
  /\ call' = [call EXCEPT ![c] = None]
  /\ answer' = [answer EXCEPT ![c] = NoAnswer]
  /\ UNCHANGED <<TOTAL_TICKS, waitingTasks, inbox, server, timerVars, aborted,
                 wanted, askedAt>>

\* What the calls that sleep assert about the answer.
AnswerExpected(c) == IF call[c] = "DELAY" THEN answer[c] >= 0 ELSE answer[c] = 0

\* A call that has slept asserts on the answer and asks for the time.
WakeUp(c) ==
  /\ ~aborted
  /\ call[c] \in {"DELAY", "DELAY_UNTIL"} /\ answer[c] # NoAnswer
  /\ IF AnswerExpected(c)
     THEN /\ call' = [call EXCEPT ![c] = "TIME"]
          /\ answer' = [answer EXCEPT ![c] = NoAnswer]
          /\ inbox' = Append(inbox, Request(c, "TIME", 0))
          /\ UNCHANGED aborted
     ELSE aborted' = TRUE /\ UNCHANGED <<call, answer, inbox>>
  /\ UNCHANGED <<TOTAL_TICKS, waitingTasks, server, timerVars, wanted, askedAt>>

-----------------------------------------------------------------------------
(* The timer and the notifier.                                             *)

\* The interrupt that AWAITEVENT(TIMER_TICK) has armed.
TimerInterrupt ==
  /\ ~aborted
  /\ TOTAL_TICKS < MAX_TICKS
  /\ notifier = "event_blocked"
  /\ notifier' = "running"
  /\ interrupts' = (interrupts + 1) % 2^WIDTH
  /\ UNCHANGED <<TOTAL_TICKS, waitingTasks, inbox, server, clientVars, aborted>>

NotifierSends ==
  /\ ~aborted
  /\ notifier = "running"
  /\ notifier' = "send_blocked"
  /\ inbox' = Append(inbox, Request(Notifier, "TICK", 0))
  /\ UNCHANGED <<TOTAL_TICKS, waitingTasks, server, interrupts, clientVars, aborted>>

-----------------------------------------------------------------------------
(* The server.                                                             *)

\* processRequest on the oldest request, which is of the given type.
Takes(type) ==
  /\ ~aborted
  /\ server = "receiving"
  /\ inbox # <<>> /\ Head(inbox).type = type
  /\ inbox' = Tail(inbox)

replyTime ==
  /\ Takes("TIME")
  /\ answer' = [answer EXCEPT ![Head(inbox).sender] = TOTAL_TICKS]
  /\ UNCHANGED <<TOTAL_TICKS, waitingTasks, server, timerVars, call, aborted,
                 wanted, askedAt>>

\* waitingTasks.Push: the result is not looked at.
Sleep(tid, time) ==
  waitingTasks' = IF Cardinality(waitingTasks) = HEAP_SIZE THEN waitingTasks
                  ELSE waitingTasks \cup {[tid |-> tid, time |-> time]}

\* Mutant: one tick too few.
handleDelayEarly ==
  /\ Takes("DELAY")
  /\ Sleep(Head(inbox).sender, (TOTAL_TICKS + Head(inbox).ticks - 1) % 2^WIDTH)
  /\ UNCHANGED <<TOTAL_TICKS, server, timerVars, clientVars, aborted>>

handleDelay ==
  /\ Takes("DELAY")
  /\ Sleep(Head(inbox).sender, (TOTAL_TICKS + Head(inbox).ticks) % 2^WIDTH)
  /\ UNCHANGED <<TOTAL_TICKS, server, timerVars, clientVars, aborted>>

handleDelayUntil ==
  /\ Takes("DELAY_UNTIL")
  /\ Sleep(Head(inbox).sender, Head(inbox).ticks)
  /\ UNCHANGED <<TOTAL_TICKS, server, timerVars, clientVars, aborted>>

\* Mutant: the sleepers are not looked at when the notifier is answered.
TickWithoutLoop ==
  /\ Takes("TICK")
  /\ TOTAL_TICKS' = (TOTAL_TICKS + 1) % 2^WIDTH
  /\ notifier' = "event_blocked"
  /\ UNCHANGED <<waitingTasks, interrupts, server, clientVars, aborted>>

\* Mutant: a counter that is wider than the notifier and the heap expect.
TickWithoutWrap ==
  /\ Takes("TICK")
  /\ TOTAL_TICKS' = TOTAL_TICKS + 1
  /\ server' = "waking"
  /\ notifier' = "reply_blocked"
  /\ UNCHANGED <<waitingTasks, interrupts, clientVars, aborted>>

\* Tick, up to its loop.
Tick ==
  /\ Takes("TICK")
  /\ TOTAL_TICKS' = (TOTAL_TICKS + 1) % 2^WIDTH
  /\ server' = "waking"
  /\ notifier' = "reply_blocked"
  /\ UNCHANGED <<waitingTasks, interrupts, clientVars, aborted>>

\* The sleepers that Peek may find at the front of the heap.
Front == {w \in waitingTasks : \A v \in waitingTasks : Signed(w.time) <= Signed(v.time)}

\* Mutant: a sleeper is due a tick late.
DueLate == {w \in Front : w.time < TOTAL_TICKS}

Due == {w \in Front : w.time <= TOTAL_TICKS}

\* Mutant: the sleeper is answered and stays in the heap.
WakeOneWithoutPop ==
  /\ ~aborted
  /\ server = "waking"
  /\ \E w \in Due : answer' = [answer EXCEPT ![w.tid] = 1]
  /\ UNCHANGED <<TOTAL_TICKS, waitingTasks, inbox, server, timerVars, call, aborted,
                 wanted, askedAt>>

\* One turn of the loop of Tick.
WakeOne ==
  /\ ~aborted
  /\ server = "waking"
  /\ \E w \in Due :
       /\ waitingTasks' = waitingTasks \ {w}
       /\ answer' = [answer EXCEPT ![w.tid] = 1]
  /\ UNCHANGED <<TOTAL_TICKS, inbox, server, timerVars, call, aborted, wanted, askedAt>>

\* Mutant: the notifier is let go before the loop has ended.
FreeNotifierEarly ==
  /\ ~aborted
  /\ server = "waking"
  /\ notifier' = "event_blocked"
  /\ server' = IF Due = {} THEN "receiving" ELSE server
  /\ UNCHANGED <<TOTAL_TICKS, waitingTasks, inbox, interrupts, clientVars, aborted>>

\* The loop ends; the notifier is answered and awaits the timer again.
FreeNotifier ==
  /\ ~aborted
  /\ server = "waking"
  /\ Due = {}
  /\ server' = "receiving"
  /\ notifier' = "event_blocked"
  /\ UNCHANGED <<TOTAL_TICKS, waitingTasks, inbox, interrupts, clientVars, aborted>>

Serve == replyTime \/ handleDelay \/ handleDelayUntil \/ Tick \/ WakeOne \/ FreeNotifier

-----------------------------------------------------------------------------

\* A failed uassert has stopped the machine for good, or the bound has.
Halted == (aborted \/ TOTAL_TICKS >= MAX_TICKS) /\ UNCHANGED vars

Next ==
  \/ \E c \in Clients :
       \/ \E type \in CallTypes \cap {"DELAY", "DELAY_UNTIL"}, ticks \in TickArgs :
            Call(c, type, ticks)
       \/ "TIME" \in CallTypes /\ Call(c, "TIME", 0)
       \/ Return(c)
       \/ WakeUp(c)
  \/ TimerInterrupt
  \/ NotifierSends
  \/ Serve
  \/ Halted

Spec == Init /\ [][Next]_vars

\* The notifier and the server have the two highest priorities, so the kernel
\* never leaves them ready for ever, and an armed timer fires.
Fairness == WF_vars(TimerInterrupt) /\ WF_vars(NotifierSends) /\ WF_vars(Serve)

FairSpec == Spec /\ Fairness

-----------------------------------------------------------------------------
(* Properties.                                                             *)

Asleep(c) == {w \in waitingTasks : w.tid = c}
Requests(t) == {i \in 1 .. Len(inbox) : inbox[i].sender = t}

\* Every variable has its type.
TypeOK ==
  /\ TOTAL_TICKS \in Ticks /\ interrupts \in Ticks
  /\ waitingTasks \subseteq [tid : Clients, time : Nat]
  /\ inbox \in Seq([sender : Clients \cup {Notifier},
                    type : {"TIME", "DELAY", "DELAY_UNTIL", "TICK"}, ticks : Nat])
  /\ server \in {"receiving", "waking"}
  /\ notifier \in {"event_blocked", "running", "send_blocked", "reply_blocked"}
  /\ call \in [Clients -> {None, "TIME", "DELAY", "DELAY_UNTIL"}]
  /\ answer \in [Clients -> Ticks \cup {NoAnswer}]
  /\ aborted \in BOOLEAN
  /\ wanted \in [Clients -> Nat] /\ askedAt \in [Clients -> Ticks]

\* A caller that has no answer yet is in one place only, a request in the inbox
\* or an entry of waitingTasks, and no other task is: neither a sleeper that
\* Tick answers twice nor one that nobody will ever answer.
NobodyForgotten ==
  \A c \in Clients :
    Cardinality(Requests(c)) + Cardinality(Asleep(c)) =
      IF call[c] # None /\ answer[c] = NoAnswer THEN 1 ELSE 0

\* The notifier has a request in the inbox exactly while it is send blocked, and
\* the clock server owes it an answer exactly while it looks at the sleepers.
\* So TOTAL_TICKS counts every interrupt, late by the one that is on its way.
EveryTickCounted ==
  /\ interrupts = (TOTAL_TICKS + IF notifier \in {"running", "send_blocked"} THEN 1 ELSE 0)
                  % 2^WIDTH
  /\ notifier = "send_blocked" <=> Requests(Notifier) # {}

\* Once Tick is done, nobody is left asleep at or past the tick it waits for,
\* whatever order the heap is in; only DELAY(0) waits for the tick after.
NobodyOversleeps ==
  server = "receiving" =>
    \A w \in waitingTasks :
      \/ w.time > TOTAL_TICKS
      \/ w.time = TOTAL_TICKS /\ wanted[w.tid] = 0

\* DELAY is answered after at least the ticks asked for, counted from the call
\* and not from the moment when the server came to it.
NobodyWakesEarly ==
  [][\A c \in Clients :
       call[c] = "DELAY" /\ answer[c] = NoAnswer /\ answer'[c] # NoAnswer
         => TOTAL_TICKS >= askedAt[c] + wanted[c]]_vars

\* Every call is answered in the end, also when TOTAL_TICKS wraps around and the
\* signed order of the heap and the unsigned test of Tick disagree.
EveryCallAnswered ==
  \A c \in Clients : call[c] # None ~> (answer[c] # NoAnswer \/ aborted)

\* uassert(reply == 0 && "Error in delay until"), in DELAY_UNTIL: the answer is 0.
NoAssertionFails == ~aborted
=============================================================================
