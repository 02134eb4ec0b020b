------------------------------- MODULE Kernel -------------------------------
(***************************************************************************)
(* The microkernel of kern/kernel.cpp: task descriptors, the ready queue,  *)
(* the Send/Receive/Reply rendezvous, event waits and the interrupt        *)
(* handler, driven by the loop of main.cpp.                                *)
(*                                                                         *)
(* The kernel runs with interrupts disabled, so one action is one entry    *)
(* into it: Handler(N) for one value of N, or one turn of the scheduler.   *)
(* User code is the most general client: the running task may issue any    *)
(* system call with any argument of its type.  The one exception is the    *)
(* idle task (user/src/usertask.cpp), which only creates tasks and is      *)
(* interrupted.                                                            *)
(*                                                                         *)
(* The ready queue is kept as a bag: how often each tid is in it.  Which   *)
(* of several ready tasks of equal priority the heap returns is left open. *)
(***************************************************************************)
EXTENDS Integers, Sequences

CONSTANTS
  MAX_TASKS,    \* descriptors in task_table, and memory blocks (64)
  IDLE,         \* the lowest priority, a number; 0 is CORE_NOTIFIER (10)
  UsedEvents,   \* the events that tasks wait for
  CreateArgs    \* the priorities that tasks pass to Create

Table      == 0 .. MAX_TASKS - 1      \* the indices of task_table
Tids       == 1 .. MAX_TASKS          \* what the constructor puts in free_tid
Priorities == 0 .. IDLE
NoTask     == -1
NoBlock    == -1
IdleTid    == 1

RunState == {"ACTIVE", "READY", "EXITED", "SEND_BLOCKED", "RECEIVE_BLOCKED",
             "REPLY_BLOCKED", "EVENT_BLOCKED"}

\* The UART sources that AwaitEvent unmasks and IRQ_Handler masks again.
MaskedUart == {"UART_RX_TIMEOUT", "UART_TX", "UART_MARKLIN_RX", "UART_MARKLIN_TX"}
\* One clear-to-send interrupt serves two events; main.cpp unmasks it for good.
CtsEvents  == {"UART_MARKLIN_CTS_HIGH", "UART_MARKLIN_CTS_LOW"}
Armable    == MaskedUart \cup {"TIMER_TICK"}
InterruptEvents == Armable \cup CtsEvents \cup {"UART_CTS"}

\* Why the kernel stopped; "up" while it has not.  "corrupt" stands for
\* everything that may follow a write past the end of task_table, "aborted" for
\* a uassert that failed in a task.
Fates == {"up", "bad_priority", "no_free_tid", "no_memory", "tid_mismatch",
          "corrupt", "wrong_receiver", "no_ready_task", "aborted"}

ASSUME KernelAssumption ==
  /\ MAX_TASKS \in Nat /\ MAX_TASKS >= 2
  /\ IDLE \in Nat
  /\ UsedEvents \subseteq InterruptEvents
  /\ CreateArgs \subseteq Int

VARIABLES
  state,       \* RunState of each descriptor
  priority,    \* its priority
  inbox,       \* the tids waiting in Send to it, oldest first
  x0,          \* its saved x0 while it holds the tid of an undelivered Send
  block,       \* its memory block, NoBlock until InitTask first sets it
  ready,       \* how many entries of ready_queue name it
  eventQueue,  \* the tasks waiting for each event
  armed,       \* the interrupt sources that can fire
  freeTid,     \* free_tid, a FIFO
  freeBlocks,  \* mem_manager's free blocks, a FIFO
  running,     \* the task that executes user code, or NoTask in the scheduler
  fate         \* "up", or why the kernel halted

vars == <<state, priority, inbox, x0, block, ready, eventQueue, armed,
          freeTid, freeBlocks, running, fate>>

taskVars  == <<priority, block, freeTid, freeBlocks>>
eventVars == <<eventQueue, armed>>

-----------------------------------------------------------------------------
(* Helpers.                                                                *)

Pushed(bag, t) == [bag EXCEPT ![t] = @ + 1]
Popped(bag, t) == [bag EXCEPT ![t] = @ - 1]

\* The running task traps into the kernel.
Trap == fate = "up" /\ running \in Table

\* The idle task never makes the calls other than Create.
Syscall == Trap /\ running # IdleTid

\* RepushActiveTask, after the handler has turned the states into st and the
\* ready queue into rq; the kernel then returns to the scheduler.
RepushActiveTask(st, rq) ==
  /\ state' = [st EXCEPT ![running] = "READY"]
  /\ ready' = Pushed(rq, running)
  /\ running' = NoTask

\* The handler returns without RepushActiveTask.
LeaveActiveTask(st, rq) ==
  /\ state' = st
  /\ ready' = rq
  /\ running' = NoTask

\* kassert fails: nothing is left to happen.
Panic(reason) ==
  /\ fate' = reason
  /\ UNCHANGED <<state, priority, inbox, x0, block, ready, eventQueue, armed,
                 freeTid, freeBlocks, running>>

-----------------------------------------------------------------------------
(* Kernel::Kernel(function): every tid from 1 to MAX_TASKS is free, then   *)
(* the idle task is created with no task active.                           *)

Init ==
  /\ state = [t \in Table |-> IF t = IdleTid THEN "READY" ELSE "EXITED"]
  /\ priority = [t \in Table |-> IDLE]
  /\ inbox = [t \in Table |-> <<>>]
  /\ x0 = [t \in Table |-> NoTask]
  /\ block = [t \in Table |-> IF t = IdleTid THEN 0 ELSE NoBlock]
  /\ ready = [t \in Table |-> IF t = IdleTid THEN 1 ELSE 0]
  /\ eventQueue = [e \in InterruptEvents |-> {}]
  /\ armed = {}
  /\ freeTid = [i \in 1 .. MAX_TASKS - 1 |-> i + 1]
  /\ freeBlocks = [i \in 1 .. MAX_TASKS - 1 |-> i]
  /\ running = NoTask
  /\ fate = "up"

-----------------------------------------------------------------------------
(* The scheduler.                                                          *)

Queued == {t \in Table : ready[t] > 0}

\* Mutant: the heap compares the other way round.
LeastUrgent == {t \in Queued : \A u \in Queued : priority[t] >= priority[u]}

MostUrgent == {t \in Queued : \A u \in Queued : priority[t] <= priority[u]}

\* Scheduler, DispatchTask: pop a most urgent entry and run its task; main.cpp
\* asserts that there is one.
Dispatch ==
  /\ fate = "up" /\ running = NoTask
  /\ IF Queued = {} THEN Panic("no_ready_task")
     ELSE /\ \E t \in MostUrgent :
               /\ ready' = Popped(ready, t)
               /\ state' = [state EXCEPT ![t] = "ACTIVE"]
               /\ running' = t
          /\ UNCHANGED <<inbox, x0, taskVars, eventVars, fate>>

-----------------------------------------------------------------------------
(* Task creation and destruction.                                          *)

\* What Create(p) and the assertions around it in Handler end in.  A tid
\* outside task_table addresses the memory behind it (free_tid): the tid read
\* back from there is not the new one, unless stale memory happens to hold it.
CreateOutcomes(p) ==
  IF p \notin Priorities           THEN {"bad_priority"}
  ELSE IF freeTid = <<>>           THEN {"no_free_tid"}
  ELSE IF freeBlocks = <<>>        THEN {"no_memory"}
  ELSE IF Head(freeTid) \notin Table THEN {"tid_mismatch", "corrupt"}
  ELSE {"up"}

\* Create followed by InitTask.  InitTask does not touch the inbox.
Create(p) ==
  /\ Trap
  /\ \E outcome \in CreateOutcomes(p) :
       IF outcome # "up" THEN Panic(outcome)
       ELSE LET tid == Head(freeTid) IN
            /\ RepushActiveTask([state EXCEPT ![tid] = "READY"], Pushed(ready, tid))
            /\ priority' = [priority EXCEPT ![tid] = p]
            /\ block' = [block EXCEPT ![tid] = Head(freeBlocks)]
            /\ x0' = [x0 EXCEPT ![tid] = NoTask]
            /\ freeTid' = Tail(freeTid)
            /\ freeBlocks' = Tail(freeBlocks)
            /\ UNCHANGED <<inbox, eventVars, fate>>

\* Mutants: the block leaks; the tid is the next one to be issued again.
ExitKeepsBlock ==
  /\ Syscall
  /\ LeaveActiveTask([state EXCEPT ![running] = "EXITED"], ready)
  /\ freeTid' = Append(freeTid, running)
  /\ UNCHANGED <<priority, inbox, x0, block, freeBlocks, eventVars, fate>>

ExitReusesTid ==
  /\ Syscall
  /\ LeaveActiveTask([state EXCEPT ![running] = "EXITED"], ready)
  /\ freeTid' = <<running>> \o freeTid
  /\ freeBlocks' = Append(freeBlocks, block[running])
  /\ UNCHANGED <<priority, inbox, x0, block, eventVars, fate>>

\* Exit: the tid and the memory block are free again, the inbox stays.
Exit ==
  /\ Syscall
  /\ LeaveActiveTask([state EXCEPT ![running] = "EXITED"], ready)
  /\ freeTid' = Append(freeTid, running)
  /\ freeBlocks' = Append(freeBlocks, block[running])
  /\ UNCHANGED <<priority, inbox, x0, block, eventVars, fate>>

-----------------------------------------------------------------------------
(* Calls that only put the caller back into the ready queue.               *)

\* MyTid, MyParentTid, the idle percentage, AwaitEvent of an event the kernel
\* does not know: a value for the caller.
Query ==
  /\ Syscall
  /\ RepushActiveTask(state, ready)
  /\ UNCHANGED <<inbox, x0, taskVars, eventVars, fate>>

\* Mutant: the early return is taken before RepushActiveTask.
YieldForgetsCaller ==
  /\ Syscall
  /\ LeaveActiveTask(state, ready)
  /\ UNCHANGED <<inbox, x0, taskVars, eventVars, fate>>

Yield ==
  /\ Syscall
  /\ RepushActiveTask(state, ready)
  /\ UNCHANGED <<inbox, x0, taskVars, eventVars, fate>>

\* A uassert of the running task fails: SVC_ABORT.
Abort == Syscall /\ Panic("aborted")

-----------------------------------------------------------------------------
(* Send, Receive, Reply.                                                   *)

\* The receiver is not waiting (it may not even exist): queue up in its inbox.
SendQueued(r) ==
  /\ Syscall
  /\ state[r] # "RECEIVE_BLOCKED"
  /\ inbox' = [inbox EXCEPT ![r] = Append(@, running)]
  /\ x0' = [x0 EXCEPT ![running] = r]
  /\ LeaveActiveTask([state EXCEPT ![running] = "SEND_BLOCKED"], ready)
  /\ UNCHANGED <<taskVars, eventVars, fate>>

\* Mutant: a message that is delivered at once does not block its sender.
SendWithoutBlocking(r) ==
  /\ Syscall
  /\ state[r] = "RECEIVE_BLOCKED"
  /\ RepushActiveTask([state EXCEPT ![r] = "READY"], Pushed(ready, r))
  /\ UNCHANGED <<inbox, x0, taskVars, eventVars, fate>>

\* The receiver waits: wake it and copy the message.  The code pops the inbox
\* into the tid it then makes ready, which is r as long as the inbox is empty.
SendDirect(r) ==
  /\ Syscall
  /\ state[r] = "RECEIVE_BLOCKED"
  /\ LET woken == IF inbox[r] = <<>> THEN r ELSE Head(inbox[r])
     IN  LeaveActiveTask([state EXCEPT ![r] = "READY", ![running] = "REPLY_BLOCKED"],
                         Pushed(ready, woken))
  /\ inbox' = [inbox EXCEPT ![r] = IF @ = <<>> THEN @ ELSE Tail(@)]
  /\ UNCHANGED <<x0, taskVars, eventVars, fate>>

\* Mutant: the inbox is not looked at first.
ReceiveAlwaysWaits ==
  /\ Syscall
  /\ LeaveActiveTask([state EXCEPT ![running] = "RECEIVE_BLOCKED"], ready)
  /\ UNCHANGED <<inbox, x0, taskVars, eventVars, fate>>

\* Nothing in the inbox: wait.
ReceiveWaits ==
  /\ Syscall
  /\ inbox[running] = <<>>
  /\ LeaveActiveTask([state EXCEPT ![running] = "RECEIVE_BLOCKED"], ready)
  /\ UNCHANGED <<inbox, x0, taskVars, eventVars, fate>>

\* Take the oldest sender.  A sender that is not SEND_BLOCKED makes the handler
\* return early, and CopyMessage asserts that the sender addressed the caller.
ReceiveTakes ==
  /\ Syscall
  /\ inbox[running] # <<>>
  /\ LET s == Head(inbox[running]) IN
     IF state[s] = "SEND_BLOCKED" /\ x0[s] # running THEN Panic("wrong_receiver")
     ELSE /\ inbox' = [inbox EXCEPT ![running] = Tail(@)]
          /\ IF state[s] = "SEND_BLOCKED"
             THEN /\ RepushActiveTask([state EXCEPT ![s] = "REPLY_BLOCKED"], ready)
                  /\ x0' = [x0 EXCEPT ![s] = NoTask]
             ELSE LeaveActiveTask(state, ready) /\ UNCHANGED x0
          /\ UNCHANGED <<taskVars, eventVars, fate>>

\* Reply to a task that waits for one, whoever received its message.
Reply(s) ==
  /\ Syscall
  /\ state[s] = "REPLY_BLOCKED"
  /\ RepushActiveTask([state EXCEPT ![s] = "READY"], Pushed(ready, s))
  /\ UNCHANGED <<inbox, x0, taskVars, eventVars, fate>>

\* Reply to any other task returns early, and the caller is in no queue.
ReplyToNobody(s) ==
  /\ Syscall
  /\ state[s] # "REPLY_BLOCKED"
  /\ LeaveActiveTask(state, ready)
  /\ UNCHANGED <<inbox, x0, taskVars, eventVars, fate>>

-----------------------------------------------------------------------------
(* Events and interrupts.                                                  *)

\* Wait for e; the timer is armed anew, a UART source is unmasked.
AwaitEvent(e) ==
  /\ Syscall
  /\ eventQueue' = [eventQueue EXCEPT ![e] = @ \cup {running}]
  /\ armed' = armed \cup ({e} \cap Armable)
  /\ LeaveActiveTask([state EXCEPT ![running] = "EVENT_BLOCKED"], ready)
  /\ UNCHANGED <<inbox, x0, taskVars, fate>>

\* Mutants: the woken tasks stay in the event queue; the interrupted task is
\* not put back.
WakeAllKeepsQueue(fired) ==
  LET woken == UNION {eventQueue[e] : e \in fired} IN
  /\ RepushActiveTask([t \in Table |-> IF t \in woken THEN "READY" ELSE state[t]],
                      [t \in Table |-> ready[t] + (IF t \in woken THEN 1 ELSE 0)])
  /\ UNCHANGED eventQueue

WakeAllForgetsCaller(fired) ==
  LET woken == UNION {eventQueue[e] : e \in fired} IN
  /\ LeaveActiveTask([t \in Table |-> IF t \in woken THEN "READY" ELSE state[t]],
                     [t \in Table |-> ready[t] + (IF t \in woken THEN 1 ELSE 0)])
  /\ eventQueue' = [e \in InterruptEvents |-> IF e \in fired THEN {} ELSE eventQueue[e]]

\* Every task waiting for an event of fired becomes ready, as does the
\* interrupted task.  The queues are disjoint, so their union is the same as
\* emptying one after the other.
WakeAll(fired) ==
  LET woken == UNION {eventQueue[e] : e \in fired} IN
  /\ RepushActiveTask([t \in Table |-> IF t \in woken THEN "READY" ELSE state[t]],
                      [t \in Table |-> ready[t] + (IF t \in woken THEN 1 ELSE 0)])
  /\ eventQueue' = [e \in InterruptEvents |-> IF e \in fired THEN {} ELSE eventQueue[e]]

\* IRQ_Handler on the compare register of the system timer.
TimerInterrupt ==
  /\ Trap
  /\ "TIMER_TICK" \in armed
  /\ armed' = armed \ {"TIMER_TICK"}
  /\ WakeAll({"TIMER_TICK"})
  /\ UNCHANGED <<inbox, x0, taskVars, fate>>

\* Mutant: every UART source is masked, pending or not.
UartInterruptMasksAll(pending, cts) ==
  /\ Trap
  /\ pending \subseteq armed
  /\ armed' = armed \ MaskedUart
  /\ WakeAll(pending \cup cts)
  /\ UNCHANGED <<inbox, x0, taskVars, fate>>

\* IRQ_Handler on the UARTs: the sources that are pending, and the level of
\* clear-to-send if that line has changed; nothing for a spurious interrupt.
\* The assertion that the transmitter is empty when it says so is the hardware's.
UartInterrupt(pending, cts) ==
  /\ Trap
  /\ pending \subseteq armed
  /\ armed' = armed \ pending
  /\ WakeAll(pending \cup cts)
  /\ UNCHANGED <<inbox, x0, taskVars, fate>>

-----------------------------------------------------------------------------

\* kabort: the processor sleeps for ever.
Halted == fate # "up" /\ UNCHANGED vars

\* Every step but the one that strands its caller.
Served ==
  \/ Dispatch
  \/ \E p \in CreateArgs : Create(p)
  \/ Exit
  \/ Query
  \/ Yield
  \/ Abort
  \/ \E r \in Table : SendQueued(r) \/ SendDirect(r)
  \/ ReceiveWaits
  \/ ReceiveTakes
  \/ \E s \in Table : Reply(s)
  \/ \E e \in UsedEvents : AwaitEvent(e)
  \/ TimerInterrupt
  \/ \E pending \in SUBSET MaskedUart :
       \E cts \in {{}} \cup {{e} : e \in CtsEvents} : UartInterrupt(pending, cts)
  \/ Halted

Next == Served \/ \E s \in Table : ReplyToNobody(s)

Spec == Init /\ [][Next]_vars

-----------------------------------------------------------------------------
(* Properties.                                                             *)

Live == {t \in Table : state[t] # "EXITED"}

SeqRange(s) == {s[i] : i \in DOMAIN s}

\* The shape of the kernel's data.
TypeOK ==
  /\ state \in [Table -> RunState]
  /\ priority \in [Table -> Priorities]
  /\ inbox \in [Table -> Seq(Table)]
  /\ x0 \in [Table -> Table \cup {NoTask}]
  /\ block \in [Table -> 0 .. MAX_TASKS - 1 \cup {NoBlock}]
  /\ ready \in [Table -> Nat]
  /\ eventQueue \in [InterruptEvents -> SUBSET Table]
  /\ armed \subseteq Armable
  /\ freeTid \in Seq(Tids)
  /\ freeBlocks \in Seq(0 .. MAX_TASKS - 1)
  /\ running \in Table \cup {NoTask}
  /\ fate \in Fates

\* A task is in the ready queue once when it is READY, and not at all otherwise.
ReadyOnce == \A t \in Table : ready[t] = (IF state[t] = "READY" THEN 1 ELSE 0)

\* The inboxes hold the tasks that are blocked sending to their owner, once each.
SendersInInbox ==
  /\ \A r \in Table : \A i \in DOMAIN inbox[r] :
       state[inbox[r][i]] = "SEND_BLOCKED" /\ x0[inbox[r][i]] = r
  /\ \A r \in Table : \A i, j \in DOMAIN inbox[r] : inbox[r][i] = inbox[r][j] => i = j
  /\ \A t \in Table : state[t] = "SEND_BLOCKED" =>
       \E r \in Table : \E i \in DOMAIN inbox[r] : inbox[r][i] = t

\* The event queues hold the tasks that are blocked on an event, in one queue each.
WaitersInQueue ==
  /\ \A e \in InterruptEvents : \A t \in eventQueue[e] : state[t] = "EVENT_BLOCKED"
  /\ \A t \in Table : state[t] = "EVENT_BLOCKED" =>
       \E e \in InterruptEvents : t \in eventQueue[e]
  /\ \A e, f \in InterruptEvents : e # f => eventQueue[e] \cap eventQueue[f] = {}

\* Every handler moves tasks between queues and sets states by separate
\* statements; together they keep each task in exactly the queue that its
\* state names, so no task is dispatched twice or forgotten while blocked.
EveryTaskInItsQueue == ReadyOnce /\ SendersInInbox /\ WaitersInQueue

\* A task never sleeps in Receive while a sender waits in its inbox, although
\* senders may come before the receiver exists, waits or runs.
NoSleepOnMail == \A t \in Table : state[t] = "RECEIVE_BLOCKED" => inbox[t] = <<>>

\* While a task waits for the timer or for a maskable UART source, that source
\* can fire: no handler masks an interrupt and leaves a waiter behind.
AwaitedIsArmed == \A e \in Armable : eventQueue[e] # {} => e \in armed

Injective(s) == \A i, j \in DOMAIN s : s[i] = s[j] => i = j

\* The free lists and the live tasks partition the tids and the memory blocks:
\* nothing leaks or is freed twice, and no two tasks share a stack.
PoolsConserved ==
  /\ Injective(freeTid) /\ Injective(freeBlocks)
  /\ Live \cap SeqRange(freeTid) = {}
  /\ Live \cup SeqRange(freeTid) = Tids
  /\ {block[t] : t \in Live} \cap SeqRange(freeBlocks) = {}
  /\ {block[t] : t \in Live} \cup SeqRange(freeBlocks) = 0 .. MAX_TASKS - 1
  /\ \A t, u \in Live : block[t] = block[u] => t = u

\* Unless a task aborts, only the assertions around Create can fail: a priority
\* out of range, and the tid past the end of task_table.  The scheduler always
\* finds a task, no message is copied to a task it was not sent to, and the
\* pools never run dry.
OnlyCreatePanics ==
  /\ fate \in {"up", "aborted", "bad_priority", "tid_mismatch", "corrupt"}
  /\ fate \in {"tid_mismatch", "corrupt"} => Head(freeTid) = MAX_TASKS

\* User code runs only while no ready task is more urgent, also right after an
\* interrupt or a message has made tasks ready.
MostUrgentRuns ==
  running \in Table => \A t \in Table : ready[t] > 0 => priority[running] <= priority[t]

\* A descriptor is initialised at most once, so a tid never names two tasks:
\* Exit does not clear the inbox, and nobody is served in another's name.
TidNamesOneTask == [][\A t \in Table : block[t] # NoBlock => block'[t] = block[t]]_vars

\* Tasks that neither run nor are in any queue.
Stranded == {t \in Table : state[t] = "ACTIVE" /\ t # running}

\* Whatever a handler does and wherever it returns, its caller ends up in a queue
\* or has exited: only Reply to a task that does not wait for one strands it.
OnlyIdleReplyStrands == [][Served => Stranded' \subseteq Stranded]_vars

\* Handler asserts that a created task carries the tid it was given
\* ("PANIC: TID MISMATCH", kernel.cpp 397).
NoTidMismatch == fate # "tid_mismatch"

-----------------------------------------------------------------------------
(* The parts that make the properties above inductive.                     *)

\* The running task is the only one that a handler finds ACTIVE as its caller,
\* and the idle task is always in the ready queue or running.
SomebodyCanRun ==
  /\ running \in Table => state[running] = "ACTIVE"
  /\ state[IdleTid] = "READY" \/ running = IdleTid

\* free_tid still starts with the tids that were never issued, in order, up to
\* MAX_TASKS; the descriptors that were ever initialised lie below them, and
\* only they can be live.
TidsInOrder ==
  /\ Len(freeTid) = Len(freeBlocks)
  /\ \E k \in DOMAIN freeTid :
       /\ freeTid[k] = MAX_TASKS
       /\ \A i \in 1 .. k : freeTid[i] = MAX_TASKS - k + i
       /\ \A t \in Table : block[t] # NoBlock <=> t \in 1 .. MAX_TASKS - k
  /\ \A t \in Live : block[t] # NoBlock

KernelInv ==
  /\ TypeOK
  /\ SomebodyCanRun
  /\ TidsInOrder
  /\ EveryTaskInItsQueue
  /\ NoSleepOnMail
  /\ AwaitedIsArmed
  /\ MostUrgentRuns
  /\ OnlyCreatePanics
=============================================================================
