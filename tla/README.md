# Verification of the CS452 microkernel and train control

This directory holds TLA+ models of the real-time microkernel in `src/my_kernel/src`,
of the servers that run on it and of the tasks that drive the trains, the TLC runs
that check them on small instances, and TLAPS proofs that hold for every number of
tasks, clients, names, texts, commands, trains and places, and for every track. Paths
below are relative to `src/my_kernel/src`.

Contents: [the system](#1-the-system), [the modules](#2-the-modules),
[the runs](#3-the-runs), [the proofs](#4-the-proofs),
[disagreements found](#5-disagreements-found), [what is not modelled](#6-what-is-not-modelled),
[what could follow](#7-what-could-follow).

## 1. The system

A single-core ARM64 kernel with message passing (Send/Receive/Reply), fixed
priorities and interrupts-as-events, a set of server tasks on top of it, and a train
controller built from servers, notifiers and messengers. The kernel runs with
interrupts disabled, user tasks with interrupts enabled. User tasks share an address
space, so some of them also share variables.

### 1.1 Components

**Microkernel** (`kern/`, `main.cpp`, `containers/`).
*State*: `task_table` of 64 descriptors (state, priority, inbox, saved registers,
memory block), `ready_queue` (a binary heap on priority), six event queues with the
interrupt sources that are unmasked, `free_tid` and the free memory blocks (FIFOs),
`active_task`.
*Operations*: Create, Exit, MyTid, MyParentTid, Yield, Send, Receive, Reply,
AwaitEvent, Abort, the interrupt handler, the scheduler.
*Hard*: a handler moves tasks between queues and sets states in separate statements,
and returns early in several places; whether the caller is put back into the ready
queue depends on which return was taken. Interrupts come between any two
instructions of user code. tids and blocks are recycled while other tasks may still
hold them.
*Correct when*: each task is in exactly the queue its state names; no receiver
sleeps on mail; no awaited interrupt is masked; the pools balance; a tid names one
task; the most urgent ready task runs; no assertion fails.

**Priority heap** (`containers/pqueue.h`).
*State*: an array and a size. *Operations*: Push, Pop, Peek. Used by the kernel, the
clock server and the path search. *Correct when*: the front is a most urgent entry
and no entry is lost or duplicated.

**FIFO containers** (`containers/queue.h`, `stack.h`, `ringbuffer.cpp`).
*State*: an array, its size and the places of the next write and the next read.
*Operations*: Push, PushFront, Pop, Peek, Get, Clear, Print. Everything else keeps its
tids, requests, characters, paths and reservations in them. *Hard*: the indices go
round; printing a queue takes it apart. *Correct when*: the array is the sequence
that was put into it.

**Clock server** (`user/src/clock_server.cpp`).
*State*: `TOTAL_TICKS`, a heap of sleepers by target tick. *Operations*: TIME,
DELAY, DELAY_UNTIL, and the TICK that its notifier sends after each timer interrupt.
*Hard*: a request may wait in the inbox while ticks pass; tasks that a tick wakes may
run before the notifier is free; signed and unsigned comparison of wrapped ticks.
*Correct when*: nobody sleeps too short or too long, every interrupt is counted,
every call is answered once.

**Name server** (`user/src/name_server.cpp`).
*State*: up to 64 names with the tid that registered each. *Operations*: RegisterAs,
WhoIs. *Hard*: a full table, a name registered again, a name whose task has gone, an
answer built in a shadowed variable. *Correct when*: WhoIs returns the last task that
registered the name.

**Console I/O server** (`user/src/io_server.cpp`).
*State*: a transmit buffer of 1000 and a receive buffer of 32 characters, three
waiting readers, a flag that the transmit notifier was released. *Operations*: GETC,
PUTC, PUTS, and the messages of the two notifiers. *Hard*: the notifier is answered
from inside the loop that drains the buffer; queue limits whose errors are ignored.
*Correct when*: characters keep their order, every reader is answered, the server
never replies to a notifier that does not wait (the kernel would strand it).

**Märklin I/O server** (`user/src/marklin_io.cpp`).
*State*: a transmit buffer of bytes and one of command lengths, position in the
current command, `canTransmit`, `isReceiving`, the state of 80 sensors, one messenger
per train, 22 switch notifiers. *Operations*: SEND_CMD, sensor listening, the
messages of the receive, transmit and switch notifiers. *Hard*: the clear-to-send
handshake reads a level and then awaits an edge; a lost byte stops all traffic;
replies to notifiers that may not be waiting; sensor data shared without a message.
*Correct when*: commands reach the track whole and in order, sensors are polled for
ever, each trigger is reported once to the train that listens.

**Switch server** (`user/marklin/switch.cpp`): one request, one Märklin command
unless the turnout stands so already.

**Train tasks** (`user/marklin/train.cpp`). One task, one command messenger and one
go messenger per train. *Hard*: the train answers its go messenger when it stops,
whether or not that messenger waits; a reversal sleeps inside the task.
*Correct when*: every command is carried out in order and the go messenger starts
the train again once per stop.

**Conductor** (`user/src/conductor.cpp`). *State*: per train its path (a stack), the
reserved nodes (a queue), the sensors it expects, up to five commands, the messengers
that wait; the state of the switches; who reserved each track node. *Operations*:
spawn, accelerate, reverse, goto, stop, auto, demo, go again, sensor trigger, command
and sensor messengers. *Hard*: trains reserve and release overlapping paths while they
move; a missed sensor; bounded queues with ignored errors. *Correct when*: no node is
reserved for two trains, what a train has reserved is what its path needs, and
nothing it still occupies is released.

**Track and path search** (`user/src/track_data.cpp`). Dijkstra over the track graph,
with reversals and reserved nodes. *Correct when*: a path it returns is a shortest
one among those that avoid what others reserved.

**Command prompt** (`user/src/command.cpp`) parses what is typed into one request.

### 1.2 How they interact

    command prompt --Send--> conductor <--Send-- sensor and command messengers
                                |                       |            |
                             switch server         Märklin server   train tasks
                                |                    ^     ^            |
                                +--------SEND_CMD----+     +--SEND_CMD--+
    every server <--Send-- its notifiers <--AwaitEvent-- kernel <--IRQ-- devices
    everybody --Send--> clock server, name server, console server

Servers never Send to their clients, except to pass parameters to a task just
created. A *notifier* waits for an interrupt and Sends it to its server; the
server's Reply lets it wait again. A *messenger* Sends and is held without a Reply
until the server has something for it. Both depend on one rule: a server replies
only to a task that waits. The kernel punishes the opposite by losing the server
(`ReplyToNobody` below).

## 2. The modules

| module | models | kind |
|---|---|---|
| `Kernel`, `MCKernel` | the kernel, entered by any task with any call | system |
| `Rendezvous`, `KernelRendezvous` | what Send/Receive/Reply promise; how `Kernel` keeps it | abstract, refinement |
| `PriorityBag`, `PQueue` | what a priority queue promises; the heap in its array | abstract, algorithm |
| `Deque`, `CircularBuffer` | what a bounded container promises; queue, stack and ring buffer in an array | abstract, algorithm |
| `MCContainers` | both arrays | TLC |
| `YieldOrder` | the heap as ready queue of equal priorities | composition |
| `ClockServer`, `MCClockServer` | clock server, notifier, timer and clients | system |
| `Directory`, `NameServer` | what the name server promises; the server and its clients | abstract, system |
| `IOServer` | console server, two notifiers, writers, readers, UART | system |
| `MCConsole` | name server and console server | TLC |
| `MarklinIO`, `MCMarklinIO` | Märklin server, notifiers, messengers, line and railway | system |
| `TrainTask` | one train's task and its two messengers | system |
| `Track` | what is read off a table of nodes; the shortest paths in it | functions |
| `TrackTable`, `TrackA`, `TrackB` | the two tables of `track_data.cpp` | data |
| `FindPath`, `MCFindPath` | the path search | algorithm |
| `Conductor`, `MCConductor` | conductor, messengers, reservations and moving trains | composition |
| `KernelProofs`, `ClockServerProofs`, `NameServerProofs`, `IOServerProofs`, `ContainerProofs` (also of `FindPath`), `MarklinIOProofs`, `TrainTaskProofs`, `ConductorProofs` | theorems and proofs | TLAPS |

Servers handle one request at a time and block their callers, so a handler is one
action unless it makes system calls in its middle that let others run; then it is
split there. A comment at each action names what is particular to it; actions and
operators have the names of the code where they stand for a function or a request.
Where a bug would be plausible the module has, before the definition, the wrong form
of it, marked *Mutant*: it is not part of the specification, and with it in place of
the right one some property fails. Each property has such a mutant.

### 2.1 Kernel

One action is one entry into the kernel, because interrupts are off in it. The
actions are named after the `Kernel::` functions; where a function has two outcomes
that matter it has two actions (`SendQueued`/`SendDirect`, `ReceiveWaits`/
`ReceiveTakes`, `Reply`/`ReplyToNobody`). `Dispatch` is one turn of the loop of
`main.cpp`, from the scheduler to the return into user code.

| variable | code |
|---|---|
| `state`, `priority`, `inbox`, `x0`, `block` | fields of `TaskDescriptor`; `x0` only while it holds the receiver of a Send that has not been received |
| `ready` | `ready_queue` as a bag of tids; the choice among equal priorities is open |
| `eventQueue`, `armed` | the event queues; the UART mask bits and the timer's compare register |
| `freeTid`, `freeBlocks` | `free_tid`, `mem_manager` |
| `running` | `active_task` while user code runs |
| `fate` | why the kernel stopped, if it has |

User code is the most general client: the running task may make any call. Send and Reply
name a tid of `task_table`, whether or not a task has it; another would index the table
out of its bounds, which the code does not check (`kernel.cpp:205`, `kernel.cpp:254`)
and no task of this system does. That covers every task of this system. The one
exception is the idle task, which in the code creates `FirstUserTask` and then only loops; here it
may create tasks and be interrupted. Message contents and lengths are left out: they
decide no branch other than the assertion that the receiver is the addressee, which
is kept. A tid outside `task_table` makes `Create` write behind the table, so the
outcome there is either the failed assertion or `"corrupt"`, anything.

### 2.2 Rendezvous

Each task is free, offering a message to a peer, or awaiting an answer, and may be
listening. A message goes to the peer it was offered to, once; a sender is released
only by an answer that follows the delivery. `KernelRendezvous` maps states to phases
and `x0` to the peer, and hides inboxes, ready queue and events. The models of the
servers use Send, Receive and Reply as `Rendezvous` has them, and keep an inbox,
because order matters to them.

### 2.3 Containers

`PQueue` is the array algorithm with indices from 1. `heapifyUp` and `heapifyDown`
are recursive functions: where a node comes to rest is a function of where it stands.
`ImplementsBag` hides the positions. `YieldOrder` uses the
same functions for a ready queue in which every task has the same priority.

`CircularBuffer` is the array of `Queue`, `Stack` and `RingBuffer` with its indices;
`kind` says whether it is popped where it was pushed (`PopStack`) or at the other end.
`PrintQueue` is there because printing a queue moves its contents along the array.
`ImplementsDeque` maps the occupied part of the array, wherever it begins, to the
sequence of `Deque`. The other modules use sequences where the code has one of these
and a set or a bag where it has a heap.

### 2.4 ClockServer

Actions: `Call`, `Return`, `WakeUp` of the clients; `TimerInterrupt`, `NotifierSends`
of timer and notifier; `replyTime`, `handleDelay`, `handleDelayUntil`, `Tick`,
`WakeOne`, `FreeNotifier` of the server. `Tick` is split where the code makes system
calls, since the tasks it answers may run in between. `wanted`, `askedAt` and
`interrupts` are history variables. The sleepers are a set of which `Front` are those
that the heap may hold in front, by the property `PQueue` shows; ties are open.

### 2.5 NameServer and Directory

`NameServer` has the server from before its start (`AskTooEarly` is a call that finds
`NAME_SERVER_TID` unset), the table as a sequence of entries and the search through
it; the handling of a message and its `REPLY` are two steps. A name of 32 or more
characters is dropped without an answer, as in the code. In `Directory` a name
belongs to the last task that registered it and a call takes effect at one moment
between its start and its answer; that moment is mapped to the receipt. It promises
nothing about the answer of `REGISTERAS`, which the code gets wrong (section 5).

### 2.6 IOServer

Writers (`Puts`), readers (`Getc`), a keyboard (`Type`), the transmitter (`Shift`) and
the two notifiers are the environment; the server receives (`GETC_Now`, `GETC_Later`,
`PUTS`, `TX_NOTIFIER`, `RTM_NOTIFIER_Waited`, `RTM_NOTIFIER_Kept`), and while it
empties its buffer it takes a step per character (`Write`), for the UART runs on
meanwhile, lets the transmit notifier go (`LetTxGo`) and at last answers (`Answer`).
PUTC is a text of length one.

### 2.7 MarklinIO

What differs from one setting of a run to the next (the commands, the trains, whether
the line keeps still) is a record, a *world*: `Worlds` is a constant and `world`, which
never changes, is one of them. The server's requests are `SEND_CMD`, `TX_NOTIFIER`, `RX_NOTIFIER`,
`SWITCH_NOTIFIER`, `SENSOR_LISTENER` and `SENSOR_MESSENGER`, each ended by
`handle_transmission`, which writes a byte or asks for the sensors. The transmit
notifier's loop has a program counter (`tx`): it looks at clear-to-send and awaits the
change afterwards, and `CtsInterrupt` may come at any point in between. The railway
takes a byte off the line and is busy for a while (`Busy`, `ClearAgain`); to a poll it
answers with the sensors touched since the last one. A byte of a command carries the
number of the command it belongs to, so that the order on the `wire` can be compared
with the order of acceptance. `owed` are the delays of the switch notifiers that the
clock server has yet to end.

### 2.8 TrainTask

The train's task (`TrainLoop`, with the two seconds of a reversal in its middle), its
command messenger, which carries one command at a time from the conductor's queue,
and its go messenger, which waits with the train until that has stopped, sleeps six
seconds and tells the conductor. `Second` is the passing of time. `meant` is what the
accepted commands come to. `patient` says whether a resting train is left alone; it
never changes.

### 2.9 Track and FindPath

`TrackA` and `TrackB` are the tables of `track_data.cpp`, row by row. `Track` has the
class's lookups, what they rely on in a table (`TrackAssumption`) and, independent of the
search, the cost of going from one node to another round a set of nodes and the cheapest
paths (`CostTo`, `ShortestPaths`). `Cost` goes in rounds, each of which offers every node
what it costs to come to it from those that became cheaper in the round before, for as
many rounds as there are nodes; it has no heap and no predecessors.
`FindPath` is `find_path`: the heap as its entries in order of `Push`, at most `PQ_SIZE`,
of which `Pop` may give out any of the least (that is what `ImplementsBag` says of the
heap), one entry per step, with its edges as one step; then the walk back from the
destination, one node per step. The walk ends at the start, and with the path it has where
a node was come to from none (`track_data.cpp:2875`), which never happens before the start
(`WayBack` of `ContainerProofs`).

### 2.10 Conductor

An action is one request: `SPAWN_TRAIN`, `ACCELERATE_TRAIN`, `REVERSE_TRAIN`, `GOTO`,
`SET_SWITCH`, `STOP_ALL`, `AUTO`, `DEMO` of the operator, `GO_AGAIN`, `GET_CMD`,
`GET_SENSOR` and `SENSOR_TRIGGER` of the messengers, each with the round of
`DispatchCommand` that ends it. The functions it is made of have operators of their
own (`ReservePath`, `ReleaseSegment`, `ReleasePath`, `PopSegment`,
`SwitchNextSegment`, `ProcessSensorTrigger`); they map a record of the conductor's
state to another, or to a set of them where the path search may choose. `dropped` notes
that a command found its queue full. What surrounds the conductor (which trains are on
the track and where, what the operator may do, the demonstrations) is a *world*, one of
the constant `Worlds`, and `world` never changes. Between the
servers stand, as actions, what the other modules show of them: a trigger that is
told once per pair and train (`OneTellPerPair`), commands that are obeyed in order
(`ObeysInOrder`), a rest that ends (`EveryRestEnds`), a path that is one of the
cheapest (`ShortestIfThereIsOne`). `Move` takes a train to the next node, and on a
sensor it is expected at makes a trigger; `Missed` takes it over a sensor that fails
to report. A position is an edge of the track, so that a train between two sensors is
somewhere definite. The software is taken to be quicker than a train is from one node
to the next (`Quiet`): a train moves when triggers and commands have been handled. The
switch server, which the conductor waits for, is the
assignment to `setting`.

## 3. The runs

| run | module and cfg | checks | states |
|---|---|---|---|
| `mc_kernel` | `MCKernel` | `EveryTaskInItsQueue`, `NoSleepOnMail`, `AwaitedIsArmed`, `PoolsConserved`, `OnlyCreatePanics`, `MostUrgentRuns`; `TidNamesOneTask`, `OnlyIdleReplyStrands`, `ImplementsRendezvous` | 108 906 |
| `containers` | `MCContainers` | `FrontIsMostUrgent`; `ImplementsBag`, `ImplementsDeque` | 37 503 |
| `clock_server` | `MCClockServer` | `NobodyForgotten`, `EveryTickCounted`, `NobodyOversleeps`; `NobodyWakesEarly` | 1 014 894 |
| `clock_wrap` | `ClockServer`, `ClockWrap.cfg` | `TypeOK`; `EveryCallAnswered` | 327 444 |
| `console` | `MCConsole` | `TextsAndKeysInOrder`; `ImplementsDirectory`, `EveryoneAnswered` | 115 419 |
| `marklin_io` | `MCMarklinIO` | `CommandsInOrder`, `NeverStranded`; `WrittenWhenClear`, `OneTellPerPair`, `EveryCommandSent`, `HeardExceptA1` | 110 966 |
| `train_task` | `TrainTask` | `NeverStranded`, `ObeysInOrder`; `TurnedAtZero`, `EveryRestEnds` | 34 478 |
| `find_path` | `MCFindPath` | `NothingDropped`, `ShortestIfThereIsOne`, `PathCanBeDriven`; `Answers` | 63 974 |
| `conductor` | `MCConductor` | `MarksAreQueued`, `MovingIsKnown`, `WatchedAndKnown`, `KeptApart`; `Arrives` | 40 503 |
| `kernel_tid_mismatch`, `yield_order`, `clock_delay_until` | `Kernel`, `YieldOrder`, `ClockServer` | see section 5 | violations |

**Settings.** Several runs check one module with more than one set of constants. The
MC module then has a variable `setting`, picked by the initial state and never
changed, an instance of the module for each value of it, and properties that name the
settings in which they are claimed. All instances share the same variables. `MarklinIO`,
`TrainTask` and `Conductor` need no instances, because what differs is a value of a
variable that never changes (`world`, `patient`), and the theorems about them hold for
all values.

### 3.1 Bounds

**`mc_kernel`.** `MAX_TASKS = 5` gives the idle task and three more that can be alive
at once, and a fifth tid that lies past the table: enough for a sender, a receiver and
a third task that interferes with them (a second sender, a task that replies in the
receiver's place, one that exits), and small enough that the end of the tids is
reached. Three events stand for the three kinds of source: the timer, armed by
AwaitEvent; a UART source, unmasked by AwaitEvent; clear-to-send, never masked. Two
valid priorities make some task more urgent than another and one value is out of
range. The number of tasks ever created is bounded by the code itself (section 5);
nothing else is bounded.

**`containers`.** Seven nodes fill three levels of the heap, so that a node sinks past
an inner node with two children, with one and with none; three priorities with two
items give all relative orders and ties. Three places in the circular array let it be
empty, partly full across its end and full. Nothing else is bounded: the indices go
round for ever.

**`clock_server`.** Three clients sleep at once, so that two are due at the same tick
while a third is not or is just calling. `MAX_TICKS = 5` stops the timer after five
interrupts; delays go up to two ticks. `WIDTH = 4` keeps the sum below the sign bit,
as in the first 248 days of operation; past that the last two properties do not hold,
because the heap compares signed numbers.

**`clock_wrap`.** `WIDTH = 2` and no bound on the ticks: the counter wraps for ever and
half of all target times look negative to the heap.

**`console`.** *names*: two clients, three names and one that is too long, two places
in the table, so that it fills up and a registration is refused, and any number of
calls. *printing*: two writers with a text of three characters and one of one, three
calls, a UART that takes one character at a time and a buffer that just holds a text,
beside a reader. *reading*: as many readers as places, two keys of either kind before
either is served. *crowded*: one reader more than there are places. Each text or key
is one of two, so that a swap shows.

**`marklin_io`.** *spaced*: two commands for two switches and a train; each switch is
left alone until its notifier waits again, and the line changes only while the
transmit notifier waits for that. *any time*: two commands and no such restraint; the
order of the bytes and when they are written is claimed here too, progress is not
(section 5). *one train*: one pair of sensors, one of them A1, the one that is touched. *again*: three pairs
for one train, one after the other, while it may stand on the sensor all the time.
*two trains*: that expect the same sensor. An answer has two bytes or one where the
sensors are not what is asked about. There is room for four bytes (`TxRoom`), the two
commands, as the 100 places in the code hold all that the start-up gives.

**`train_task`.** Four commands out of three speeds, a reversal, a stop and a stop with
a rest; a queue of two, so that a command is refused; the delays of two and six
seconds as they are. *patient* leaves a resting train alone, as the conductor does
with one that drives in the demonstration; *hurried* does not.

**`find_path`.** The whole of both tables with the heap of 100: on track A each of the
thirteen sensors of the demonstrations to each other, on track B to the last of each
list, with nothing in the way or one of the sets of nodes that a second train holds.

**`conductor`.** The track is the whole of track A and beside it a wye of two sidings
and a single line, on which trains must wait for, meet and evade each other, and turn.
Its worlds are: `One`, in which a careful operator gives one train four orders and up to
two sensors do not report (never two in a row: the code expects the next and the one
after it); `Two`, `Met` and `OnA`, in which he gives two trains three orders, from the two
sidings or from one of them and the single line, and two orders on track A; `AnyCommand`,
two commands of every kind at any moment for one train; `Hurry`, three orders to any place
at any moment for two; and `Demonstration`, each of the three lists on track A, with up to
two sensors that do not report.

What the operator's care is, `Careful` says: he sends a train that is at rest, to another
place than it is at, if there is a way; not to face, on one edge, a place where another
train is or is sent; not by the place of a train that has nothing reserved; and not over
a turnout that another has yet to pass the other way. Each of these is needed, and the
worlds are such that each is put to the test: without any one of them TLC finds
`KeptApart` violated in this run, without the second or the last on track A, where the
lines from E5 and E7 join before a turnout that leads on to E10 and E12, without the others
on the wye.

What is claimed differs. `MarksAreQueued` and `MovingIsKnown` hold whatever the operator
does. The other half of the agreement between marks and queues, that what a train has
reserved is marked with its number, does not: `GOTO` gives all marks back, the trigger
of a sensor that the train was to pass on its old path takes it on along the new one,
and on arrival it marks its destination without a look at whose that is
(`conductor.cpp:1349`). So `KeptApart` claims it of the careful operator, as it does that no
two trains are in one place, in the worlds that are checked; section 5 has what happens
to one who is not so careful. `WatchedAndKnown` and `Arrives` are claimed of a careful
operator with one train: one that is reversed or driven by hand is not where the
conductor thinks, and nothing in the code says it should be.

### 3.2 Fairness

* `clock_wrap`: `WF(TimerInterrupt)`, since the armed hardware timer fires;
  `WF(NotifierSends)` and `WF(Serve)`, since the notifier and the clock server have the
  two highest priorities and the kernel always runs the most urgent task
  (`MostUrgentRuns`). One assumption is in it: the notifier prints the time before it
  sends its tick, so the console server must answer it; that it does is
  `EveryoneAnswered` of `console`, where `clock` is one of the writers.
* `console`: `WF` of the name server; of the server, the receive notifier and the
  transmitter's shifting. The servers are more urgent than all but tasks that wait most
  of the time.
* `marklin_io`: `WF` of the transmit notifier, the interrupt, the server, the railway,
  the receive notifier, each switch notifier and the sensor messenger's start.
* `train_task`: `WF` of each step of a task or messenger and of `Second`.
* `conductor`: `SoftwareFairness` says that what is on its way to a task arrives, by the
  liveness of the modules below it; and `WF(Move)`, a train that runs goes on.
  `Arrives` is claimed for a train that is alone: of two that claim
  the same stretch the second is stopped and left there until the operator sends it
  elsewhere.
* `find_path`, `yield_order`: `WF(Next)`; the processor does not stop.

Clients, operators, keyboards and sensors are given no fairness.

### 3.3 Where the system may stop

`MCConsole`, `MCMarklinIO`, `TrainTask`, `MCFindPath` and `MCConductor` do not check
for deadlock, because their environments are bounded: when all is printed, sent or
driven, or the search has ended, nothing is left to do. That nothing stops *before* is
what their liveness properties say. The other runs check for deadlock. `Halted` in
`Kernel` and `ClockServer` is the loop in which `kabort` leaves the processor; in
`ClockServer` it also covers the bound on the ticks.

## 4. The proofs

| module | theorem | statement |
|---|---|---|
| `KernelProofs` | `Invariance` | `Spec => []KernelInv` |
| | `TypeCorrect`, `QueuesMatchStates`, `MailWakes`, `AwaitedInterruptsFire`, `PriorityScheduling`, `AssertionsHold`, `Conservation` | `Spec => []` of `TypeOK`, `EveryTaskInItsQueue`, `NoSleepOnMail`, `AwaitedIsArmed`, `MostUrgentRuns`, `OnlyCreatePanics`, `PoolsConserved` |
| | `TidsAreNames`, `CallersKept` | `Spec => TidNamesOneTask`, `Spec => OnlyIdleReplyStrands` |
| | `RendezvousImplemented` | `Spec => ImplementsRendezvous` |
| `ClockServerProofs` | `TypeCorrect`, `TicksCounted` | `Spec => []TypeOK`, `Spec => []EveryTickCounted` |
| | `NoneForgotten` | `HeapHolds` implies `Spec => []NobodyForgotten` |
| | `NoneOversleeps`, `NoneWakesEarly` | `NoWrap` implies `Spec => []NobodyOversleeps`, `Spec => NobodyWakesEarly` |
| `NameServerProofs` | `ServerInvariant` | `Spec => []ServerInv` |
| | `DirectoryImplemented` | `Spec => ImplementsDirectory` |
| | `ConsoleInOrder` | `ConsoleSpec` of `MCConsole` implies `[]TextsAndKeysInOrder` |
| `IOServerProofs` | `TextsKeepOrder`, `KeysKeepOrder`, `ServerNotStranded` | `Spec => []` of `TextsInOrder`, `KeysInOrder`, `NeverStranded` |
| `ContainerProofs` | `ArrayInvariant` | `Spec => []CircularInv` |
| | `DequeImplemented` | `Spec => ImplementsDeque` |
| | `FrontOfTheHeap`, `HeapIsBag` | `ContainersSpec` of `MCContainers` implies `[]FrontIsMostUrgent` and `ImplementsBag` |
| | `SearchInvariant`, `PathsAreDriven` | `TableFits` implies `FindSpec => [](PathInv /\ WayBack)` and `FindSpec => []PathCanBeDriven` |
| | `SearchIsExact` | `TableFits` implies `FindSpec /\ []NothingDropped => []ExactInv` |
| | `ShortestExactly` | `TableFits` implies `FindSpec /\ []NothingDropped => []ShortestIfThereIsOne` |
| `MarklinIOProofs` | `IOInvariant` | `Spec => []IOInv` |
| | `CommandsKeepOrder`, `NobodyStranded` | `Spec => []` of `CommandsInOrder`, `NeverStranded` |
| | `WritesAreSafe`, `TriggersAreDue` | `Spec => WrittenWhenClear`, `Spec => OneTellPerPair` |
| `TrainTaskProofs` | `TaskInvariant` | `Spec => []TaskInv` |
| | `NobodyStranded`, `CommandsObeyed` | `Spec => []` of `NeverStranded`, `ObeysInOrder` |
| | `TurnsAtZero` | `Spec => TurnedAtZero` |
| `ConductorProofs` | `BooksInOrder` | `Spec => []IndInv` |
| | `MarksQueued`, `MovingKnown` | `Spec => []` of `MarksAreQueued`, `MovingIsKnown` |

Each inductive proof has a lemma per action, and in it a step per conjunct that the
action disturbs. The assumption on the constants that each module names
(`KernelAssumption`, `ClockAssumption`, ...) is all that is assumed of them unless the
table says more; TLC evaluates it for the values of the runs.

**Kernel.** For every `MAX_TASKS >= 2`, every number of priorities and every set of
used events. The properties that one wants are not inductive alone. `NoSleepOnMail`
needs `EveryTaskInItsQueue`: a sender may be put into an inbox only if its owner is
not asleep, and an interrupt must not wake a task that is asleep in Receive.
`OnlyCreatePanics` needs the same, and that the idle task is always ready or running
(`SomebodyCanRun`), for the scheduler never to find the queue empty; and it needs
`TidsInOrder`, that `free_tid` still begins with the tids never issued, in order, up to
`MAX_TASKS`, for the pools never to run dry. `TidsInOrder` also gives `TidsAreNames`: a
freed tid goes behind `MAX_TASKS` in the FIFO, and the kernel stops at `MAX_TASKS`.
`Conservation` is a second induction on top of `KernelInv`. The refinement needs one
more fact, `PeerOfSender`, that only a task blocked in Send has a peer in `x0`; then
each action maps to one action of `Rendezvous` or to a stutter.

**Clock server.** For any set of clients, width of the count and size of the heap.
`ClockInv` adds to the type that a task has at most one request and one place in the
heap (`OneEach`), that a request is that of its sender's call (`RequestsKnown`), that
nobody is both in the inbox and asleep (`InOnePlace`) and where the notifier is; the
tick on its way is then the whole difference between interrupts and `TOTAL_TICKS`.
`NoneForgotten` needs a place in the heap for each client (`HeapHolds`), because a Push
that fails goes unnoticed. The last two need that nobody uses `DELAY_UNTIL` and that
sums stay below the sign bit (`NoWrap`); their invariant says that a sleeper's target is
no earlier than the tick of its call plus what it asked for.
That `2^WIDTH` is a number of at least 2 is part of `ClockAssumption`: the provers do
not know exponentiation.

**Name server.** For any clients, names and table size. `ServerInv` says that no name
is in the table twice, so that the first match is the only one, that nobody is in the
inbox twice and that the set of entries has as many members as the table (`EntriesCounted`),
which makes "the table is full" the same in both specifications.

**Console server.** For any tasks, any texts that fit the buffer, any sizes. The heart
is `TxWaits`: until the server lets it go, the transmit notifier waits for an answer or
its message, the first ever sent, is at the head of the inbox with the server ready to
receive it. So the flag `awaiting_tx` is right although it is set and cleared at other
moments than the notifier comes and goes. `ConsoleInOrder` carries this over to `MCConsole`,
where the name server works beside it: each setting is an instance of the module of the
proofs, neither server changes what the other one has, and `IOInv` of the setting that
was picked holds all the time. This one is for the constants of the run.

**Circular array.** For an array of any size and any items. `CircularInv` says that the
head is as far ahead of the tail as there are items; each call then does to the sequence
of items what `Deque` says, and printing does nothing to it.

**Heap.** For any nodes, priorities and capacity. `heapifyUp` and `heapifyDown` are
recursive functions, and what they yield is not read off their definitions: first it is
shown that such a function exists (a call leads to a smaller, or a larger, index within
the array, so that a least index without a value would be a contradiction), then, again
by the least or greatest index that is wrong, what it does. `Rearranged`: the calls
exchange nodes, none is lost or doubled. `OrderedAbove` and `OrderedBelow`: in a heap in
which one node may be too urgent for its parent, or too little for its children, the
call puts it right. That the front is a most urgent node is then one more such argument,
along the parents of a node.

**Märklin server.** For any worlds: any commands, trains, pairs of sensors and number of
polls, any size of an answer and any capacity. `IOInv` has seven parts. `BytesKnown`: what is
in the transmit buffer is a poll alone, and that only while it is being sent, or bytes of
commands. `LineKnown`: from the look that finds the line clear until the
byte is written nobody looks again and the server is the only one that acts, so that the
line is still clear; this is what makes reading the level and awaiting its change
harmless for safety, though not for progress. `AnswerKnown`: a poll is on its way, being
answered, or its answer is in the inbox, one of them, and only while `isReceiving`.
`OrderKnown`: what is on the wire followed by what is in the buffer is what was accepted,
and the lengths of the sequences, with `count` for the current one, cut it where the
commands end.
`SwitchesKnown`: a switch notifier is in one place and, with switches given time, has one
thing going on, which is why the answer to it finds it waiting. `WatchKnown`: each
listener and messenger is in one place, and a train that is watching has one pair more
than triggers. `checked`, the loop over the trains, is a recursive function over a
sequence; that each trigger uses up a pair and each train tells one sensor is shown by
the first train at which it would fail.

**Train task.** For any speeds, delays, capacity of the conductor's queue and number of
commands. `TaskInv` adds to the type that each messenger has at most one message in the
inbox and waits there when it has (`InboxKnown`), that the task knows what the railway
does and stands inside a reversal (`RailKnown`), that a patient conductor sends nothing
behind a stop with a rest, so that the go messenger is there to be answered (`RestKnown`),
and that what the railway does now, changed by the commands that are queued, carried or
half done, is what is meant (`MeantKnown`).

**Conductor.** For any track that is one (`TrackAssumption`: each node has an other side,
whose other side it is, and edges that lead to nodes), any trains, any room for commands
of at least one, and any worlds, careful operators or not. `IndInv` has three parts.
`Outside` is the type of what the trains and messengers hold. `NoMessengers`: a train
that was never spawned has none, so that none carries a command for it. `Books` is what
the theorems are about: each mark has its place in the queue of the train whose number
it is, and each `isMoving` follows from what is carried and queued, unless a command was
dropped. The conductor answers a request in one step, in which it does many things one
after the other, for one train or for all. So `Books` is an instance of `Fine`, a
predicate of the conductor's record, and each operation is shown to keep that, from
`SegmentReleased`, `PathReleased` and `Reserved` for the marks and `ToldNow` for the
commands up to `DispatchCommand`, each turn of which keeps `InOrder`. What is delicate is
`ReleaseSegment` for a train that turns: it has both sides of a node in its queue, one
mark stands for both, and a node that leaves the queue keeps its mark while its other side
is still to come. The last place in the queue at which a marked node or its other side
stands cannot have been passed, or the mark would have gone; that is why `Fine` speaks of
`Both`. Recursive functions (the
stretches of a path, the stops of all trains, the turns of `DispatchCommand`) are shown
to exist by the least step that would have no value (`StepsExist`), and to keep `Fine` in
the same way. For commands the facts are `AfterOne` and `AfterFirst`: what a train does
after a queue of commands, when one is put behind it or taken from its front.
`IndInv` was model-checked on all worlds of `MCConductor` before it was proved.

**Path search** (in `ContainerProofs`, after the heap it uses). For any table that fits:
`TableFits` is `FindPathAssumption`, `TableAssumption` (lengths are positive and small, a branch leads to two
places, one edge at most leads to a sensor, the next sensor is never more than 6 nodes away) and
`IndexIsPlace`; TLC evaluates all of it on both tables (`TablesAreLegal`, `NothingDropped`).
`PathInv` says what `dist` and `prev` amount to at any moment, also when an entry did
not fit into the heap: a node with a predecessor was come to over an edge of it (or by
the turn at the start) at a cost that is greater than the predecessor's is *now* (`CameFrom`),
the start counting as 0. It is not the exact cost, since a predecessor may have become
cheaper since. That is enough for the walk back: costs fall along it, so that it comes by no
node twice and ends, whatever the heap gave out among equals. What has been walked is a `Chain`: a way to the destination,
with `Mileage` for the lengths. The stretches are short because every way of 6 edges comes by a sensor (`StepBeyond`).

That the path is a cheapest one takes more, and it takes room in the heap: an entry that
does not fit is lost, and with it perhaps the only way. So these theorems suppose
`[]NothingDropped`, which TLC checks on both tables with the heap of 100. `ExactInv` is
the invariant of a shortest path first search, for this one: the distance of a node in
the table can be set again after the node is done, since the edge back to the start is
taken at any price when the start is also the destination, and a node may have several
entries, of which the later ones are explored once more. `SoundBut(s, u, k)`: there is a
`k` that no entry is below; a node within reach is done, all its edges followed
(`ClosedEdge`), at `k` at most, or waits in the heap at its distance, but for the node `u`
whose edges are being followed; and each was come to from one that is done, by exactly
the distance that is noted (`CameBy`). When the search ends, what is left is what the
comparison needs: the distances are lengths of ways (`Noted`), and no edge of a node
nearer than the destination makes anything nearer (`ClosedWithin`).

The cost the railway promises is a recursive function over rounds; `CostSettles` shows
that it exists and that its value satisfies what its rounds keep (`Settling`): nothing is
cheaper than its distance, as far as distances are closed, and a node with `r` nearer ones (`Rank`)
has come down to its distance after `r` rounds. So both agree on all that is nearer than
the destination (`CostIsNoted`), and since no distance exceeds as many of the longest
edges as there are nodes (`NotTooFar`) none is taken for `INFINITY`. `LinkedInv` adds to `PathInv`
that the path follows `prev`, which is why each of its nodes is one of those that
`ShortestPaths` allows before the next (`CheaplyOn`), and the whole path one of
`ShortestPaths` (`CheapestSoFar`). It needs that a branch does not lead twice to one place and
that edges have lengths.

**Checked by TLC only**: of `FindPath` that the heap is large enough (`NothingDropped`),
which is claimed of two given tables; of `Conductor` what depends on
where trains stand and on a careful operator (`KeptApart`, `WatchedAndKnown`), which needs
that the nodes under a train, those it has reserved and the rest of its path are one route
over the track; and everything about fairness and liveness (`EveryCallAnswered`,
`EveryoneAnswered`, `EveryCommandSent`, `HeardExceptA1`, `EveryRestEnds`, `Answers`,
`Arrives`), which the provers at hand do not reach.

## 5. Disagreements found

Shown by a run:

* `kernel_tid_mismatch`. The constructor frees tids 1 to `MAX_TASKS`, and the table
  ends at `MAX_TASKS - 1`. As freed tids go to the back of the queue, the 64th
  Create, the idle task included, gets tid 64, whether or not tasks have exited, and
  ends in "PANIC: TID MISMATCH" (`kernel.cpp:397`) or in damage to the memory behind
  the table. The system starts about 38 tasks and five more per train, so five trains
  fit and a sixth spawn does not.
* `yield_order`. The comment on `Yield` promises the end of the queue of equal
  priority; the heap gives no such order, and of three tasks one is starved.
* `clock_delay_until`. `DELAY_UNTIL` asserts that the answer is 0; it is 1.

Met while modelling. The models do what the code does, and the properties are stated
so as to leave these out:

* `REGISTERAS` is always answered with -1, because the answer is built in a variable
  that shadows the one sent (`name_server.cpp:68`). No caller looks. A name of 32 or
  more characters is never answered.
* A fourth task that waits for a key is never answered (`io_server.cpp:88` ignores that
  `rx_waiting_tasks` is full).
* The Märklin transmit notifier reads clear-to-send and awaits its change afterwards
  (`marklin_io.cpp:221`); if the level changes in between, the change it waits for is
  past and transmission stops. The check that would notice is commented out
  (`kernel.cpp:327`).
* Two commands to one switch within its notifier's delay make the Märklin server
  answer a task that does not wait, which `ReplyToNobody` of `Kernel` shows to be the
  server's end. A train task that is given a command while it rests does the same when
  it stops a second time.
* The switch notifiers are there to send the "solenoid off" command
  (`marklin_io.cpp:631`, `switch.cpp:92`); it is never sent.
* A train that is to pass sensor A1 first is not heard there: index 0 is taken for no
  sensor (`marklin_io.cpp:299`).
* `switch_addrs` of the Märklin server lacks 18 and ends in a zero (`marklin_io.cpp:97`).
* The go messenger waits 600 ticks of ten milliseconds, where its comment says ten
  seconds (`train.cpp:359`).
* `STOP_ALL` has no `break` and goes on into `AUTO`, which sends the trains off again
  (`conductor.cpp:565`); the prompt offers it as "Stop All" (`command.cpp:61`).
* `SPAWN_TRAIN` reserves nothing (`conductor.cpp:328`): until a train is sent, the path of
  another may lead over the place where it stands. So it may where `GOTO` gave up all that
  a train had reserved (`conductor.cpp:440`) and could reserve none of its new path.
* A train that has arrived has its destination reserved, not the edge on which it comes to
  stand (`conductor.cpp:1349`). Another that is sent to the sensor at the other end of that
  edge, which faces it, comes to stand on the same edge.
* On arrival the destination is marked as the train's own whoever has it
  (`conductor.cpp:1349`). After orders in quick succession that may be another train: its
  queue holds a node with the wrong mark, and it gives the mark back when it passes.
* A `GOTO` to the sensor the train stands on has that sensor first and last in the
  train's queue. `ReleaseSegment` looks in the rest of the queue for the other side of a
  node only (`conductor.cpp:1406`), so the first sensor passed gives back the mark of a
  node that is still queued.
* Turnouts of the next stretch are thrown whether or not it is reserved, against the
  comment at `conductor.cpp:181`, and not again when it is reserved later. On track A, with
  one train at E5 that is sent to E12 and another at E7 that is sent to E10 before the first
  has come by the turnout behind which both lines are one, the first is led off its path
  there, passes neither of the sensors it is watched for, and runs on, round to the place
  of the other. `KeptApart` is claimed of an operator who gives no such pair of orders.
* The total length of a path that begins with a turn (`conductor.h:81`) counts the edge
  ahead of the start, which is not driven (`track_data.cpp:2886`).

## 6. What is not modelled

* Below the models: context switch, page tables, caches, device registers.
* The cache control system calls, which no task makes.
* The hardware's part of the assertion in the interrupt handler that the transmitter
  is empty when it reports so.
* Contents and lengths of messages; what a text says.
* `PQueue::Clear`, which nobody calls.
* In `ClockServer`: the tests of arguments that return before a message is sent.
* In `MarklinIO`: GETC and PUTC, which no task of this commit sends; the 32 places of
  `sequence_length_buffer` (`marklin_io.h:54`), whose `Push` nobody checks. A length that
  is dropped there is a two, and so is the one that is left in its place.
* In `TrainTask`: headlights.
* In `Conductor`: speeds, distances and the computed moment of a stop. A train obeys
  before it comes to the next node (`Quiet`), so that one that is told to stop at a sensor
  stands on the edge after it. Not modelled either are the switch server's start-up and
  its refusal to send a command that changes nothing; the six places of
  `temp_segment_queue`, of which the stretches of both tables need five at most; and the
  zero that `dest_sensor[5] = {0}` writes behind an array of five when AUTO draws a
  destination (`conductor.cpp:863`), which is undefined and harmless where the byte is
  padding or one of the variables that are assigned afterwards.
* In `FindPath`: stop distances and offsets.
* The command prompt, which turns a line into one request; task start-up, whose calls
  are calls of `Kernel`.
* Display and formatting; the tables of speeds.
* Code that is never started: the sensor manager, rock paper scissors, the demos in
  `public/` and the earlier assignment in `my_kernel/headers/`; `track_a.cpp` and
  `track_b.cpp`, which are commented out as a whole.

## 7. What could follow

* An abstract specification of reservations, nodes as locks, and a proof that
  `ReservePath`, `ReleaseSegment` and `ReleasePath` implement it for any track.
* Times and speeds in `Conductor`: whether a train that is told to stop at its
  stopping distance stands before the end of what it has reserved.
* A bound for the heap of the search that holds for any table, in place of `NothingDropped`.
