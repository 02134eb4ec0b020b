---------------------------- MODULE KernelProofs ----------------------------
(***************************************************************************)
(* Theorems about Kernel for every number of descriptors, every lowest     *)
(* priority, every set of events and every set of priorities that tasks    *)
(* pass to Create; and, last, that it implements Rendezvous.               *)
(***************************************************************************)
EXTENDS KernelRendezvous, TLAPS

\* The index arithmetic of the table, used by every proof below.
LEMMA TableFacts ==
  /\ IdleTid \in Table
  /\ NoTask \notin Table
  /\ Table \subseteq Int
  BY KernelAssumption DEF Table, IdleTid, NoTask

\* The two ways a handler ends, task by task.
LEMMA Repushed ==
  ASSUME NEW st \in [Table -> RunState], NEW rq \in [Table -> Nat],
         running \in Table, RepushActiveTask(st, rq)
  PROVE  /\ state' \in [Table -> RunState]
         /\ ready' \in [Table -> Nat]
         /\ running' = NoTask
         /\ \A t \in Table : state'[t] = IF t = running THEN "READY" ELSE st[t]
         /\ \A t \in Table : ready'[t] = IF t = running THEN rq[t] + 1 ELSE rq[t]
  BY DEF RepushActiveTask, Pushed, RunState

LEMMA PushedTable ==
  ASSUME NEW bag \in [Table -> Nat], NEW t \in Table
  PROVE  /\ Pushed(bag, t) \in [Table -> Nat]
         /\ \A u \in Table : Pushed(bag, t)[u] = IF u = t THEN bag[u] + 1 ELSE bag[u]
  BY DEF Pushed

\* The queues grow at the end and shrink at the front.
LEMMA AppendFacts ==
  ASSUME NEW S, NEW q \in Seq(S), NEW e \in S
  PROVE  /\ Append(q, e) \in Seq(S)
         /\ Len(q) \in Nat /\ Len(Append(q, e)) = Len(q) + 1
         /\ DOMAIN q = 1 .. Len(q) /\ DOMAIN Append(q, e) = 1 .. Len(q) + 1
         /\ \A i \in 1 .. Len(q) : Append(q, e)[i] = q[i]
         /\ Append(q, e)[Len(q) + 1] = e
  OBVIOUS

LEMMA TailFacts ==
  ASSUME NEW S, NEW q \in Seq(S), q # <<>>
  PROVE  /\ Tail(q) \in Seq(S) /\ Head(q) \in S /\ Head(q) = q[1]
         /\ Len(q) \in Nat /\ Len(q) >= 1
         /\ DOMAIN q = 1 .. Len(q) /\ DOMAIN Tail(q) = 1 .. Len(q) - 1
         /\ \A i \in 1 .. Len(q) - 1 : Tail(q)[i] = q[i + 1]
  OBVIOUS

\* Creation: a tid that passes the outcome test lies in the table.
LEMMA CreateUp ==
  ASSUME NEW p, "up" \in CreateOutcomes(p)
  PROVE  /\ p \in Priorities
         /\ freeTid # <<>> /\ freeBlocks # <<>>
         /\ Head(freeTid) \in Table
  BY DEF CreateOutcomes

LEMMA CreateFates ==
  ASSUME NEW p, NEW outcome \in CreateOutcomes(p)
  PROVE  outcome \in Fates
  BY DEF CreateOutcomes, Fates

-----------------------------------------------------------------------------
(* The inductive invariant.  No conjunct of KernelInv is inductive alone:   *)
(* Exit keeps the types only if its caller owns a block, the caller does    *)
(* only if nothing but READY tasks is in the ready queue, and a direct Send *)
(* keeps that only if a waiting receiver has an empty inbox.                *)

LEMMA TypeInit == Init => TypeOK
<1> SUFFICES ASSUME Init PROVE TypeOK
  OBVIOUS
<1> USE KernelAssumption
<1>1. /\ state \in [Table -> RunState]
      /\ priority \in [Table -> Priorities]
      /\ x0 \in [Table -> Table \cup {NoTask}]
      /\ ready \in [Table -> Nat]
  BY DEF Init, RunState, Priorities
<1>2. inbox \in [Table -> Seq(Table)]
  BY DEF Init
<1>3. block \in [Table -> 0 .. MAX_TASKS - 1 \cup {NoBlock}]
  BY DEF Init
<1>4. freeTid \in Seq(Tids)
  BY DEF Init, Tids
<1>5. freeBlocks \in Seq(0 .. MAX_TASKS - 1)
  BY DEF Init
<1>6. /\ eventQueue \in [InterruptEvents -> SUBSET Table]
      /\ armed \subseteq Armable
      /\ running \in Table \cup {NoTask}
      /\ fate \in Fates
  BY DEF Init, Fates
<1>7. QED
  BY <1>1, <1>2, <1>3, <1>4, <1>5, <1>6 DEF TypeOK

LEMMA InvInit == Init => KernelInv
<1> SUFFICES ASSUME Init PROVE KernelInv
  OBVIOUS
<1> USE KernelAssumption
<1>1. SomebodyCanRun
  BY TableFacts DEF Init, SomebodyCanRun
<1>2. TidsInOrder
  <2>1. /\ Len(freeTid) = MAX_TASKS - 1
        /\ Len(freeBlocks) = MAX_TASKS - 1
        /\ \A i \in 1 .. MAX_TASKS - 1 : freeTid[i] = i + 1
        /\ DOMAIN freeTid = 1 .. MAX_TASKS - 1
    BY DEF Init
  <2>2. \A t \in Table : block[t] # NoBlock <=> t \in 1 .. MAX_TASKS - (MAX_TASKS - 1)
    BY DEF Init, NoBlock, Table, IdleTid
  <2>3. \A t \in Live : block[t] # NoBlock
    BY DEF Init, Live, NoBlock
  <2>4. freeTid[MAX_TASKS - 1] = MAX_TASKS
    BY <2>1
  <2>5. \A i \in 1 .. MAX_TASKS - 1 : freeTid[i] = MAX_TASKS - (MAX_TASKS - 1) + i
    BY <2>1
  <2>6. MAX_TASKS - 1 \in DOMAIN freeTid
    BY <2>1
  <2>7. QED
    BY <2>1, <2>2, <2>3, <2>4, <2>5, <2>6 DEF TidsInOrder
<1>3. ReadyOnce
  BY DEF Init, ReadyOnce
<1>4. SendersInInbox
  BY DEF Init, SendersInInbox
<1>5. WaitersInQueue
  BY DEF Init, WaitersInQueue
<1>6. NoSleepOnMail /\ AwaitedIsArmed
  BY DEF Init, NoSleepOnMail, AwaitedIsArmed, Armable, InterruptEvents
<1>7. MostUrgentRuns
  BY TableFacts DEF Init, MostUrgentRuns
<1>8. OnlyCreatePanics
  BY DEF Init, OnlyCreatePanics
<1>. QED
  BY TypeInit, <1>1, <1>2, <1>3, <1>4, <1>5, <1>6, <1>7, <1>8
  DEF KernelInv, EveryTaskInItsQueue

\* What every handler may rely on: its caller is live, created and has a block.
LEMMA CallerFacts ==
  ASSUME KernelInv, Trap
  PROVE  /\ running \in Table /\ running \in Tids
         /\ state[running] = "ACTIVE"
         /\ ready[running] = 0
         /\ block[running] \in 0 .. MAX_TASKS - 1
<1> USE KernelAssumption
<1>1. running \in Table /\ state[running] = "ACTIVE"
  BY DEF Trap, KernelInv, SomebodyCanRun
<1>2. block[running] # NoBlock
  BY <1>1 DEF KernelInv, TidsInOrder, Live
<1>3. block[running] \in 0 .. MAX_TASKS - 1
  BY <1>1, <1>2 DEF KernelInv, TypeOK
<1>4. running \in Tids
  BY <1>1, <1>2 DEF KernelInv, TidsInOrder, TypeOK, Tids, Table
<1>5. ready[running] = 0
  BY <1>1 DEF KernelInv, EveryTaskInItsQueue, ReadyOnce
<1>. QED
  BY <1>1, <1>3, <1>4, <1>5

\* What a system call may rely on besides: the idle task waits its turn.
LEMMA SyscallFacts ==
  ASSUME KernelInv, Syscall
  PROVE  Trap /\ running # IdleTid /\ state[IdleTid] = "READY"
  BY DEF Syscall, KernelInv, SomebodyCanRun

-----------------------------------------------------------------------------
(* Frames: the parts of the invariant that a step leaves alone.            *)

\* TidsInOrder depends on the pools and on who is live only.
LEMMA TidsFrame ==
  ASSUME TidsInOrder, UNCHANGED <<block, freeTid, freeBlocks>>,
         \A t \in Table : state'[t] # "EXITED" => state[t] # "EXITED"
  PROVE  TidsInOrder'
  BY DEF TidsInOrder, Live

LEMMA InboxFrame ==
  ASSUME SendersInInbox, UNCHANGED inbox, inbox \in [Table -> Seq(Table)],
         \A t \in Table : state'[t] = "SEND_BLOCKED" <=> state[t] = "SEND_BLOCKED",
         \A t \in Table : state[t] = "SEND_BLOCKED" => x0'[t] = x0[t]
  PROVE  SendersInInbox'
<1>1. \A r \in Table : \A i \in DOMAIN inbox[r] : inbox[r][i] \in Table
  OBVIOUS
<1>. QED
  BY <1>1 DEF SendersInInbox

LEMMA EventFrame ==
  ASSUME WaitersInQueue, AwaitedIsArmed, UNCHANGED eventVars,
         eventQueue \in [InterruptEvents -> SUBSET Table],
         \A t \in Table : state'[t] = "EVENT_BLOCKED" <=> state[t] = "EVENT_BLOCKED"
  PROVE  WaitersInQueue' /\ AwaitedIsArmed'
  BY DEF WaitersInQueue, AwaitedIsArmed, eventVars

LEMMA MailFrame ==
  ASSUME NoSleepOnMail, UNCHANGED inbox,
         \A t \in Table : state'[t] = "RECEIVE_BLOCKED" => state[t] = "RECEIVE_BLOCKED"
  PROVE  NoSleepOnMail'
  BY DEF NoSleepOnMail

\* A step that ends in the scheduler of a running kernel has nothing to show for
\* the last two conjuncts.
LEMMA SchedulerFrame ==
  ASSUME running' = NoTask, fate' = "up"
  PROVE  MostUrgentRuns' /\ OnlyCreatePanics'
  BY TableFacts DEF MostUrgentRuns, OnlyCreatePanics

LEMMA PanicFrame ==
  ASSUME KernelInv, NEW reason \in Fates, Panic(reason),
         reason \in {"aborted", "bad_priority", "tid_mismatch", "corrupt"},
         reason \in {"tid_mismatch", "corrupt"} => Head(freeTid) = MAX_TASKS
  PROVE  KernelInv'
<1>1. TypeOK'
  BY DEF KernelInv, TypeOK, Panic
<1>2. SomebodyCanRun' /\ TidsInOrder' /\ MostUrgentRuns'
  BY DEF KernelInv, Panic, SomebodyCanRun, TidsInOrder, Live, MostUrgentRuns
<1>3. EveryTaskInItsQueue' /\ NoSleepOnMail' /\ AwaitedIsArmed'
  BY DEF KernelInv, Panic, EveryTaskInItsQueue, ReadyOnce, SendersInInbox,
         WaitersInQueue, NoSleepOnMail, AwaitedIsArmed
<1>4. OnlyCreatePanics'
  BY DEF Panic, OnlyCreatePanics
<1>. QED
  BY <1>1, <1>2, <1>3, <1>4 DEF KernelInv

-----------------------------------------------------------------------------
(* One lemma per action.                                                   *)

LEMMA DispatchStep == ASSUME KernelInv, Dispatch PROVE KernelInv'
<1> USE KernelAssumption DEF KernelInv
<1>1. IdleTid \in Queued
  <2>1. running = NoTask
    BY DEF Dispatch
  <2>2. state[IdleTid] = "READY"
    BY <2>1, TableFacts DEF SomebodyCanRun
  <2>. QED
    BY <2>2, TableFacts DEF EveryTaskInItsQueue, ReadyOnce, Queued
<1>2. PICK t \in MostUrgent : /\ ready' = Popped(ready, t)
                              /\ state' = [state EXCEPT ![t] = "ACTIVE"]
                              /\ running' = t
  BY <1>1 DEF Dispatch
<1>3. /\ fate = "up" /\ running = NoTask
      /\ UNCHANGED <<inbox, x0, taskVars, eventVars, fate>>
  BY <1>1 DEF Dispatch
<1>4. t \in Table /\ ready[t] = 1 /\ state[t] = "READY"
  BY DEF MostUrgent, Queued, EveryTaskInItsQueue, ReadyOnce
<1>5. ready' \in [Table -> Nat] /\ state' \in [Table -> RunState]
  BY <1>2, <1>4 DEF Popped, RunState, TypeOK
<1>6. TypeOK'
  BY <1>2, <1>3, <1>4, <1>5 DEF taskVars, eventVars, TypeOK
<1>7. SomebodyCanRun'
  BY <1>2, <1>3, <1>4, TableFacts DEF SomebodyCanRun, TypeOK
<1>8. TidsInOrder'
  BY <1>2, <1>3, <1>4, TidsFrame DEF taskVars, TypeOK
<1>9. ReadyOnce'
  BY <1>2, <1>4 DEF ReadyOnce, EveryTaskInItsQueue, Popped, TypeOK
<1>10. SendersInInbox'
  BY <1>2, <1>3, <1>4, InboxFrame DEF TypeOK, EveryTaskInItsQueue
<1>11. WaitersInQueue' /\ AwaitedIsArmed'
  BY <1>2, <1>3, <1>4, EventFrame DEF TypeOK, EveryTaskInItsQueue
<1>12. NoSleepOnMail'
  BY <1>2, <1>3, <1>4, MailFrame DEF TypeOK
<1>13. MostUrgentRuns'
  <2>1. \A u \in Table : ready'[u] > 0 => ready[u] > 0
    BY <1>2, <1>4 DEF Popped, TypeOK
  <2>2. \A u \in Table : ready[u] > 0 => priority[t] <= priority[u]
    BY DEF MostUrgent, Queued
  <2>. QED
    BY <1>2, <1>3, <2>1, <2>2 DEF MostUrgentRuns, taskVars
<1>14. OnlyCreatePanics'
  BY <1>3 DEF OnlyCreatePanics
<1>. QED
  BY <1>6, <1>7, <1>8, <1>9, <1>10, <1>11, <1>12, <1>13, <1>14 DEF EveryTaskInItsQueue

LEMMA CreateStep ==
  ASSUME KernelInv, NEW p \in CreateArgs, Create(p)
  PROVE  KernelInv'
<1> USE KernelAssumption DEF KernelInv
<1>1. Trap
  BY DEF Create
<1>2. PICK outcome \in CreateOutcomes(p) :
        IF outcome # "up" THEN Panic(outcome)
        ELSE LET tid == Head(freeTid) IN
          /\ RepushActiveTask([state EXCEPT ![tid] = "READY"], Pushed(ready, tid))
          /\ priority' = [priority EXCEPT ![tid] = p]
          /\ block' = [block EXCEPT ![tid] = Head(freeBlocks)]
          /\ x0' = [x0 EXCEPT ![tid] = NoTask]
          /\ freeTid' = Tail(freeTid)
          /\ freeBlocks' = Tail(freeBlocks)
          /\ UNCHANGED <<inbox, eventVars, fate>>
  BY DEF Create
<1>3. PICK k \in DOMAIN freeTid :
        /\ freeTid[k] = MAX_TASKS
        /\ \A i \in 1 .. k : freeTid[i] = MAX_TASKS - k + i
        /\ \A t \in Table : block[t] # NoBlock <=> t \in 1 .. MAX_TASKS - k
  BY DEF TidsInOrder
<1>4. freeTid # <<>> /\ freeBlocks # <<>>
  BY <1>3 DEF TidsInOrder, TypeOK
<1>5. k \in 1 .. Len(freeTid) /\ Head(freeTid) = MAX_TASKS - k + 1
  BY <1>3, <1>4 DEF TypeOK
<1>8. k \in Int /\ Len(freeTid) \in Int /\ k >= 1 /\ k <= Len(freeTid)
  <2>1. Len(freeTid) \in Nat
    BY DEF TypeOK
  <2>. QED
    BY <1>5, <2>1
<1>6. CASE outcome # "up"
  <2>1. outcome \in {"bad_priority", "tid_mismatch", "corrupt"}
    BY <1>4, <1>6 DEF CreateOutcomes
  <2>2. ASSUME outcome # "bad_priority" PROVE Head(freeTid) = MAX_TASKS
    <3>1. Head(freeTid) \notin Table
      BY <1>4, <1>6, <2>2 DEF CreateOutcomes
    <3>2. Head(freeTid) \in Tids
      BY <1>4 DEF TypeOK
    <3>. QED
      BY <3>1, <3>2 DEF Table, Tids
  <2>3. Panic(outcome)
    BY <1>2, <1>6
  <2>. QED
    BY <2>1, <2>2, <2>3, PanicFrame DEF Fates
<1>7. CASE outcome = "up"
  <2>0. PICK tid : tid = Head(freeTid)
    OBVIOUS
  <2>1. /\ RepushActiveTask([state EXCEPT ![tid] = "READY"], Pushed(ready, tid))
        /\ priority' = [priority EXCEPT ![tid] = p]
        /\ block' = [block EXCEPT ![tid] = Head(freeBlocks)]
        /\ x0' = [x0 EXCEPT ![tid] = NoTask]
        /\ freeTid' = Tail(freeTid)
        /\ freeBlocks' = Tail(freeBlocks)
        /\ UNCHANGED <<inbox, eventVars, fate>>
    BY <1>2, <1>7, <2>0
  <2>2. p \in Priorities /\ tid \in Table
    BY <1>7, <2>0, CreateUp
  <2>3. /\ running \in Table /\ state[running] = "ACTIVE" /\ fate = "up"
        /\ ready[running] = 0
    BY <1>1, CallerFacts DEF Trap
  <2>15. /\ state' \in [Table -> RunState]
         /\ ready' \in [Table -> Nat]
         /\ running' = NoTask
         /\ \A t \in Table : state'[t] = IF t = tid \/ t = running THEN "READY" ELSE state[t]
         /\ \A t \in Table : ready'[t] = (IF t = tid THEN ready[t] + 1 ELSE ready[t])
                                         + (IF t = running THEN 1 ELSE 0)
    <3>1. /\ [state EXCEPT ![tid] = "READY"] \in [Table -> RunState]
          /\ \A t \in Table : [state EXCEPT ![tid] = "READY"][t]
                                = IF t = tid THEN "READY" ELSE state[t]
      BY <2>2 DEF TypeOK, RunState
    <3>2. ready \in [Table -> Nat]
      BY DEF TypeOK
    <3>3. /\ Pushed(ready, tid) \in [Table -> Nat]
          /\ \A t \in Table : Pushed(ready, tid)[t]
                                = IF t = tid THEN ready[t] + 1 ELSE ready[t]
      BY <2>2, <3>2, PushedTable
    <3>4. PICK st \in [Table -> RunState], rq \in [Table -> Nat] :
            /\ RepushActiveTask(st, rq)
            /\ \A t \in Table : st[t] = IF t = tid THEN "READY" ELSE state[t]
            /\ \A t \in Table : rq[t] = IF t = tid THEN ready[t] + 1 ELSE ready[t]
      BY <2>1, <3>1, <3>3
    <3>5. /\ state' \in [Table -> RunState]
          /\ ready' \in [Table -> Nat]
          /\ running' = NoTask
          /\ \A t \in Table : state'[t] = IF t = running THEN "READY" ELSE st[t]
          /\ \A t \in Table : ready'[t] = IF t = running THEN rq[t] + 1 ELSE rq[t]
      BY <2>3, <3>4, Repushed
    <3>. QED
      BY <3>4, <3>5
  <2>4. block[tid] = NoBlock
    BY <1>3, <1>5, <2>0, <2>2
  <2>5. state[tid] = "EXITED" /\ tid # running /\ ready[tid] = 0
    BY <2>2, <2>3, <2>4 DEF TidsInOrder, Live, EveryTaskInItsQueue, ReadyOnce
  <2>6. Head(freeBlocks) \in 0 .. MAX_TASKS - 1
    BY <1>4 DEF TypeOK
  <2>7. TypeOK'
    <3>1. state' \in [Table -> RunState] /\ ready' \in [Table -> Nat]
      BY <2>15
    <3>2. freeTid' \in Seq(Tids) /\ freeBlocks' \in Seq(0 .. MAX_TASKS - 1)
      BY <1>4, <2>1 DEF TypeOK
    <3>. QED
      BY <2>1, <2>2, <2>3, <2>6, <2>15, <3>1, <3>2 DEF TypeOK, eventVars
  <2>8. SomebodyCanRun'
    BY <2>15, TableFacts DEF SomebodyCanRun
  <2>9. TidsInOrder'
    <3>1. tid = MAX_TASKS - k + 1 /\ tid >= 0 /\ k >= 2
      BY <1>5, <1>8, <2>0, <2>2 DEF Table
    <3>7. \A i \in 1 .. k - 1 : i + 1 \in 1 .. k /\ i \in 1 .. Len(freeTid) - 1
      BY <1>8
    <3>2. /\ Len(freeTid') = Len(freeTid) - 1
          /\ Len(freeBlocks') = Len(freeBlocks) - 1
          /\ DOMAIN freeTid' = 1 .. Len(freeTid) - 1
          /\ \A i \in 1 .. Len(freeTid) - 1 : freeTid'[i] = freeTid[i + 1]
          /\ Len(freeTid) = Len(freeBlocks)
      BY <1>4, <2>1 DEF TypeOK, TidsInOrder
    <3>3. \A i \in 1 .. k - 1 : freeTid'[i] = MAX_TASKS - (k - 1) + i
      <4> TAKE i \in 1 .. k - 1
      <4>1. freeTid[i + 1] = MAX_TASKS - k + (i + 1)
        BY <1>3, <3>7
      <4>2. freeTid'[i] = freeTid[i + 1]
        BY <3>2, <3>7
      <4>. QED
        BY <1>8, <4>1, <4>2
    <3>6. k - 1 \in DOMAIN freeTid' /\ freeTid'[k - 1] = MAX_TASKS
      <4>1. k - 1 \in 1 .. Len(freeTid) - 1 /\ (k - 1) + 1 = k
        BY <1>8, <3>1
      <4>. QED
        BY <1>3, <3>2, <4>1
    <3>4. \A t \in Table : block'[t] # NoBlock <=> t \in 1 .. MAX_TASKS - (k - 1)
      <4>1. \A t \in Table : block'[t] = IF t = tid THEN Head(freeBlocks) ELSE block[t]
        BY <2>1, <2>2 DEF TypeOK
      <4>2. Head(freeBlocks) # NoBlock
        BY <2>6 DEF NoBlock
      <4>3. \A t \in Table : t \in Int
        BY TableFacts
      <4>4. k \in Int /\ tid = MAX_TASKS - k + 1 /\ tid >= 1
        <5>1. tid \in Tids
          BY <1>4, <2>0 DEF TypeOK
        <5>. QED
          BY <1>8, <3>1, <5>1 DEF Tids
      <4>. QED
        BY <1>3, <4>1, <4>2, <4>3, <4>4
    <3>5. \A t \in Live' : block'[t] # NoBlock
      <4>1. \A t \in Table : block'[t] = IF t = tid THEN Head(freeBlocks) ELSE block[t]
        BY <2>1, <2>2 DEF TypeOK
      <4>2. Head(freeBlocks) # NoBlock
        BY <2>6 DEF NoBlock
      <4>3. \A t \in Table : state'[t] # "EXITED" => state[t] # "EXITED" \/ t = tid
        BY <2>3, <2>15
      <4>. QED
        BY <4>1, <4>2, <4>3 DEF TidsInOrder, Live
    <3>. QED
      BY <3>2, <3>3, <3>4, <3>5, <3>6 DEF TidsInOrder
  <2>10. ReadyOnce'
    BY <2>5, <2>3, <2>15 DEF ReadyOnce, EveryTaskInItsQueue
  <2>11. SendersInInbox'
    BY <2>1, <2>2, <2>3, <2>5, <2>15, InboxFrame DEF TypeOK, EveryTaskInItsQueue
  <2>12. WaitersInQueue' /\ AwaitedIsArmed'
    BY <2>1, <2>2, <2>3, <2>5, <2>15, EventFrame DEF TypeOK, EveryTaskInItsQueue
  <2>13. NoSleepOnMail'
    BY <2>1, <2>2, <2>3, <2>5, <2>15, MailFrame DEF TypeOK
  <2>14. MostUrgentRuns' /\ OnlyCreatePanics'
    BY <2>1, <2>3, <2>15, SchedulerFrame
  <2>. QED
    BY <2>7, <2>8, <2>9, <2>10, <2>11, <2>12, <2>13, <2>14 DEF EveryTaskInItsQueue
<1>. QED
  BY <1>6, <1>7

-----------------------------------------------------------------------------
(* System calls.  All of them end in the scheduler of a running kernel.    *)

\* What remains to be shown of a handler.
LEMMA HandlerFrame ==
  ASSUME KernelInv, Trap, running' = NoTask, UNCHANGED fate,
         state' \in [Table -> RunState], ready' \in [Table -> Nat],
         UNCHANGED <<priority, block>>,
         inbox' \in [Table -> Seq(Table)],
         x0' \in [Table -> Table \cup {NoTask}],
         eventQueue' \in [InterruptEvents -> SUBSET Table], armed' \subseteq Armable,
         freeTid' \in Seq(Tids), freeBlocks' \in Seq(0 .. MAX_TASKS - 1),
         TidsInOrder', ReadyOnce', SendersInInbox', WaitersInQueue',
         NoSleepOnMail', AwaitedIsArmed',
         state'[IdleTid] = "READY"
  PROVE  KernelInv'
<1>1. TypeOK'
  BY DEF KernelInv, TypeOK
<1>2. SomebodyCanRun'
  BY TableFacts DEF SomebodyCanRun
<1>3. MostUrgentRuns' /\ OnlyCreatePanics'
  BY SchedulerFrame DEF Trap
<1>. QED
  BY <1>1, <1>2, <1>3 DEF KernelInv, EveryTaskInItsQueue

\* The caller as the only task whose state changes, to one that no queue but
\* the ready queue knows of.
LEMMA ReadyAgain ==
  ASSUME KernelInv, Syscall, RepushActiveTask(state, ready),
         UNCHANGED <<inbox, x0, taskVars, eventVars, fate>>
  PROVE  KernelInv'
<1> USE DEF KernelInv
<1>1. /\ running \in Table /\ state[running] = "ACTIVE" /\ ready[running] = 0
      /\ state[IdleTid] = "READY"
  BY CallerFacts, SyscallFacts
<1>2. /\ state' \in [Table -> RunState]
      /\ ready' \in [Table -> Nat]
      /\ running' = NoTask
      /\ \A t \in Table : state'[t] = IF t = running THEN "READY" ELSE state[t]
      /\ \A t \in Table : ready'[t] = IF t = running THEN ready[t] + 1 ELSE ready[t]
  BY <1>1, Repushed DEF TypeOK
<1>3. TidsInOrder'
  BY <1>1, <1>2, TidsFrame DEF taskVars
<1>4. ReadyOnce'
  BY <1>1, <1>2 DEF ReadyOnce, EveryTaskInItsQueue
<1>5. SendersInInbox'
  BY <1>1, <1>2, InboxFrame DEF TypeOK, EveryTaskInItsQueue
<1>6. WaitersInQueue' /\ AwaitedIsArmed'
  BY <1>1, <1>2, EventFrame DEF TypeOK, EveryTaskInItsQueue
<1>7. NoSleepOnMail'
  BY <1>1, <1>2, MailFrame
<1>8. state'[IdleTid] = "READY"
  BY <1>1, <1>2, TableFacts
<1>. QED
  BY <1>2, <1>3, <1>4, <1>5, <1>6, <1>7, <1>8, HandlerFrame
  DEF TypeOK, taskVars, eventVars, Syscall

LEMMA ExitStep == ASSUME KernelInv, Exit PROVE KernelInv'
<1> USE KernelAssumption DEF KernelInv
<1>1. Syscall /\ Trap
  BY DEF Exit, Syscall
<1>2. /\ running \in Table /\ running \in Tids /\ state[running] = "ACTIVE"
      /\ ready[running] = 0 /\ state[IdleTid] = "READY"
      /\ block[running] \in 0 .. MAX_TASKS - 1
  BY <1>1, CallerFacts, SyscallFacts
<1>3. /\ state' = [state EXCEPT ![running] = "EXITED"]
      /\ ready' = ready
      /\ running' = NoTask
      /\ freeTid' = Append(freeTid, running)
      /\ freeBlocks' = Append(freeBlocks, block[running])
      /\ UNCHANGED <<priority, inbox, x0, block, eventVars, fate>>
  BY DEF Exit, LeaveActiveTask
<1>4. /\ state' \in [Table -> RunState]
      /\ \A t \in Table : state'[t] = IF t = running THEN "EXITED" ELSE state[t]
  BY <1>2, <1>3 DEF TypeOK, RunState
<1>5. freeTid \in Seq(Tids) /\ freeBlocks \in Seq(0 .. MAX_TASKS - 1)
  BY DEF TypeOK
<1>6. /\ freeTid' \in Seq(Tids)
      /\ Len(freeTid) \in Nat /\ Len(freeTid') = Len(freeTid) + 1
      /\ DOMAIN freeTid = 1 .. Len(freeTid)
      /\ DOMAIN freeTid' = 1 .. Len(freeTid) + 1
      /\ \A i \in 1 .. Len(freeTid) : freeTid'[i] = freeTid[i]
  BY <1>2, <1>3, <1>5, AppendFacts
<1>7. freeBlocks' \in Seq(0 .. MAX_TASKS - 1) /\ Len(freeBlocks') = Len(freeBlocks) + 1
  BY <1>2, <1>3, <1>5, AppendFacts
<1>8. TidsInOrder'
  <2>1. PICK k \in DOMAIN freeTid :
          /\ freeTid[k] = MAX_TASKS
          /\ \A i \in 1 .. k : freeTid[i] = MAX_TASKS - k + i
          /\ \A t \in Table : block[t] # NoBlock <=> t \in 1 .. MAX_TASKS - k
    BY DEF TidsInOrder
  <2>2. \A i \in 1 .. k : i \in 1 .. Len(freeTid)
    BY <1>6, <2>1
  <2>3. /\ k \in DOMAIN freeTid' /\ freeTid'[k] = MAX_TASKS
        /\ \A i \in 1 .. k : freeTid'[i] = MAX_TASKS - k + i
    BY <1>6, <2>1, <2>2
  <2>4. Len(freeTid') = Len(freeBlocks')
    BY <1>6, <1>7 DEF TidsInOrder
  <2>5. \A t \in Live' : block'[t] # NoBlock
    BY <1>3, <1>4 DEF TidsInOrder, Live
  <2>6. \A t \in Table : block'[t] # NoBlock <=> t \in 1 .. MAX_TASKS - k
    BY <1>3, <2>1
  <2>. QED
    BY <2>3, <2>4, <2>5, <2>6 DEF TidsInOrder
<1>9. ReadyOnce'
  BY <1>2, <1>3, <1>4 DEF ReadyOnce, EveryTaskInItsQueue
<1>10. SendersInInbox'
  BY <1>2, <1>3, <1>4, InboxFrame DEF TypeOK, EveryTaskInItsQueue
<1>11. WaitersInQueue' /\ AwaitedIsArmed'
  BY <1>2, <1>3, <1>4, EventFrame DEF TypeOK, EveryTaskInItsQueue
<1>12. NoSleepOnMail'
  BY <1>2, <1>3, <1>4, MailFrame
<1>13. state'[IdleTid] = "READY"
  BY <1>1, <1>2, <1>4, SyscallFacts, TableFacts
<1>14. /\ ready' \in [Table -> Nat]
       /\ inbox' \in [Table -> Seq(Table)]
       /\ x0' \in [Table -> Table \cup {NoTask}]
       /\ eventQueue' \in [InterruptEvents -> SUBSET Table] /\ armed' \subseteq Armable
       /\ UNCHANGED <<priority, block>> /\ UNCHANGED fate /\ running' = NoTask
  BY <1>3 DEF TypeOK, eventVars
<1>. QED
  BY <1>1, <1>4, <1>6, <1>7, <1>8, <1>9, <1>10, <1>11, <1>12, <1>13, <1>14, HandlerFrame

LEMMA SendQueuedStep ==
  ASSUME KernelInv, NEW r \in Table, SendQueued(r)
  PROVE  KernelInv'
<1> USE KernelAssumption DEF KernelInv
<1>1. Syscall /\ Trap /\ running # IdleTid
  BY DEF SendQueued, Syscall
<1>2. /\ running \in Table /\ state[running] = "ACTIVE"
      /\ ready[running] = 0 /\ state[IdleTid] = "READY"
  BY <1>1, CallerFacts, SyscallFacts
<1>3. /\ inbox' = [inbox EXCEPT ![r] = Append(@, running)]
      /\ x0' = [x0 EXCEPT ![running] = r]
      /\ state' = [state EXCEPT ![running] = "SEND_BLOCKED"]
      /\ ready' = ready
      /\ running' = NoTask
      /\ state[r] # "RECEIVE_BLOCKED"
      /\ UNCHANGED <<taskVars, eventVars, fate>>
  BY DEF SendQueued, LeaveActiveTask
<1>4. /\ state' \in [Table -> RunState]
      /\ \A t \in Table : state'[t] = IF t = running THEN "SEND_BLOCKED" ELSE state[t]
  BY <1>2, <1>3 DEF TypeOK, RunState
<1>5. /\ x0' \in [Table -> Table \cup {NoTask}]
      /\ \A t \in Table : x0'[t] = IF t = running THEN r ELSE x0[t]
  BY <1>2, <1>3 DEF TypeOK
<1>6. /\ inbox' \in [Table -> Seq(Table)]
      /\ \A u \in Table : u # r => inbox'[u] = inbox[u]
      /\ inbox'[r] = Append(inbox[r], running)
  BY <1>2, <1>3 DEF TypeOK
<1>7. inbox[r] \in Seq(Table)
  BY DEF TypeOK
<1>8. /\ Len(inbox[r]) \in Nat
      /\ DOMAIN inbox[r] = 1 .. Len(inbox[r])
      /\ DOMAIN inbox'[r] = 1 .. Len(inbox[r]) + 1
      /\ \A i \in 1 .. Len(inbox[r]) : inbox'[r][i] = inbox[r][i]
      /\ inbox'[r][Len(inbox[r]) + 1] = running
  BY <1>2, <1>6, <1>7, AppendFacts
<1>9. \A u \in Table : \A i \in DOMAIN inbox[u] :
        inbox[u][i] \in Table /\ inbox[u][i] # running
          /\ state[inbox[u][i]] = "SEND_BLOCKED" /\ x0[inbox[u][i]] = u
  <2>1. \A u \in Table : \A i \in DOMAIN inbox[u] : inbox[u][i] \in Table
    BY DEF TypeOK
  <2>. QED
    BY <1>2, <2>1 DEF EveryTaskInItsQueue, SendersInInbox
<1>10. SendersInInbox'
  <2>1. \A u \in Table : \A i \in DOMAIN inbox'[u] :
          state'[inbox'[u][i]] = "SEND_BLOCKED" /\ x0'[inbox'[u][i]] = u
    <3> TAKE u \in Table
    <3>1. CASE u # r
      <4>1. inbox'[u] = inbox[u]
        BY <1>6, <3>1
      <4> TAKE i \in DOMAIN inbox'[u]
      <4>2. /\ inbox[u][i] \in Table /\ inbox[u][i] # running
            /\ state[inbox[u][i]] = "SEND_BLOCKED" /\ x0[inbox[u][i]] = u
        BY <1>9, <4>1
      <4>. QED
        BY <1>4, <1>5, <4>1, <4>2
    <3>2. CASE u = r
      <4> TAKE i \in DOMAIN inbox'[u]
      <4>1. CASE i \in 1 .. Len(inbox[r])
        BY <1>4, <1>5, <1>8, <1>9, <3>2, <4>1
      <4>2. CASE i = Len(inbox[r]) + 1
        BY <1>2, <1>4, <1>5, <1>8, <3>2, <4>2
      <4>. QED
        BY <1>8, <3>2, <4>1, <4>2
    <3>. QED
      BY <3>1, <3>2
  <2>2. \A u \in Table : \A i, j \in DOMAIN inbox'[u] : inbox'[u][i] = inbox'[u][j] => i = j
    <3> TAKE u \in Table
    <3>1. CASE u # r
      BY <1>6, <3>1, ZenonT(40) DEF EveryTaskInItsQueue, SendersInInbox
    <3>2. CASE u = r
      <4> TAKE i, j \in DOMAIN inbox'[u]
      <4>1. \A m, n \in DOMAIN inbox[r] : inbox[r][m] = inbox[r][n] => m = n
        BY DEF EveryTaskInItsQueue, SendersInInbox
      <4>2. \A m \in DOMAIN inbox[r] : inbox[r][m] # running
        BY <1>9
      <4>3. CASE i \in DOMAIN inbox[r] /\ j \in DOMAIN inbox[r]
        BY <1>8, <3>2, <4>1, <4>3
      <4>4. \A m \in DOMAIN inbox'[r] : m \in DOMAIN inbox[r] \/ m = Len(inbox[r]) + 1
        BY <1>8
      <4>5. \A m \in DOMAIN inbox[r] : inbox'[r][m] # running
        BY <1>8, <4>2
      <4>. QED
        BY <1>8, <3>2, <4>3, <4>4, <4>5
    <3>. QED
      BY <3>1, <3>2
  <2>3. \A t \in Table : state'[t] = "SEND_BLOCKED" =>
          \E u \in Table : \E i \in DOMAIN inbox'[u] : inbox'[u][i] = t
    <3> SUFFICES ASSUME NEW t \in Table, state'[t] = "SEND_BLOCKED"
                 PROVE  \E u \in Table : \E i \in DOMAIN inbox'[u] : inbox'[u][i] = t
      OBVIOUS
    <3>1. CASE t = running
      <4>1. Len(inbox[r]) + 1 \in DOMAIN inbox'[r]
        BY <1>8
      <4>. QED
        BY <1>8, <3>1, <4>1
    <3>2. CASE t # running
      <4>1. PICK u \in Table : \E i \in DOMAIN inbox[u] : inbox[u][i] = t
        BY <1>4, <3>2 DEF EveryTaskInItsQueue, SendersInInbox
      <4>2. PICK i \in DOMAIN inbox[u] : inbox[u][i] = t
        BY <4>1
      <4>3. i \in DOMAIN inbox'[u] /\ inbox'[u][i] = inbox[u][i]
        <5>1. CASE u # r
          BY <1>6, <5>1
        <5>2. CASE u = r
          BY <1>8, <5>2
        <5>. QED
          BY <5>1, <5>2
      <4>. QED
        BY <4>2, <4>3
    <3>. QED
      BY <3>1, <3>2
  <2>. QED
    BY <2>1, <2>2, <2>3 DEF SendersInInbox
<1>11. NoSleepOnMail'
  BY <1>3, <1>4, <1>6 DEF NoSleepOnMail
<1>12. TidsInOrder'
  BY <1>2, <1>3, <1>4, TidsFrame DEF taskVars
<1>13. ReadyOnce'
  BY <1>2, <1>3, <1>4 DEF ReadyOnce, EveryTaskInItsQueue
<1>14. WaitersInQueue' /\ AwaitedIsArmed'
  BY <1>2, <1>3, <1>4, EventFrame DEF TypeOK, EveryTaskInItsQueue
<1>15. state'[IdleTid] = "READY"
  BY <1>1, <1>2, <1>4, TableFacts
<1>. QED
  BY <1>1, <1>3, <1>4, <1>5, <1>6, <1>10, <1>11, <1>12, <1>13, <1>14, <1>15, HandlerFrame
  DEF TypeOK, taskVars, eventVars

LEMMA SendDirectStep ==
  ASSUME KernelInv, NEW r \in Table, SendDirect(r)
  PROVE  KernelInv'
<1> USE KernelAssumption DEF KernelInv
<1>1. Syscall /\ Trap /\ running # IdleTid
  BY DEF SendDirect, Syscall
<1>2. /\ running \in Table /\ state[running] = "ACTIVE"
      /\ ready[running] = 0 /\ state[IdleTid] = "READY"
  BY <1>1, CallerFacts, SyscallFacts
<1>3. inbox[r] = <<>> /\ state[r] = "RECEIVE_BLOCKED" /\ r # running /\ ready[r] = 0
  BY <1>2 DEF SendDirect, NoSleepOnMail, EveryTaskInItsQueue, ReadyOnce
<1>4. /\ state' = [state EXCEPT ![r] = "READY", ![running] = "REPLY_BLOCKED"]
      /\ ready' = Pushed(ready, r)
      /\ running' = NoTask
      /\ inbox' = [inbox EXCEPT ![r] = <<>>]
      /\ UNCHANGED <<x0, taskVars, eventVars, fate>>
  BY <1>3 DEF SendDirect, LeaveActiveTask
<1>5. inbox' = inbox
  BY <1>3, <1>4 DEF TypeOK
<1>6. /\ state' \in [Table -> RunState]
      /\ \A t \in Table : state'[t] = IF t = r THEN "READY"
                                      ELSE IF t = running THEN "REPLY_BLOCKED" ELSE state[t]
  BY <1>2, <1>3, <1>4 DEF TypeOK, RunState
<1>7. /\ ready' \in [Table -> Nat]
      /\ \A t \in Table : ready'[t] = IF t = r THEN ready[t] + 1 ELSE ready[t]
  BY <1>4, PushedTable DEF TypeOK
<1>8. TidsInOrder'
  BY <1>2, <1>3, <1>4, <1>6, TidsFrame DEF taskVars
<1>9. ReadyOnce'
  BY <1>2, <1>3, <1>6, <1>7 DEF ReadyOnce, EveryTaskInItsQueue
<1>10. SendersInInbox'
  BY <1>2, <1>3, <1>4, <1>5, <1>6, InboxFrame DEF TypeOK, EveryTaskInItsQueue
<1>11. WaitersInQueue' /\ AwaitedIsArmed'
  BY <1>2, <1>3, <1>4, <1>6, EventFrame DEF TypeOK, EveryTaskInItsQueue
<1>12. NoSleepOnMail'
  BY <1>2, <1>5, <1>6, MailFrame
<1>13. state'[IdleTid] = "READY"
  BY <1>1, <1>2, <1>6, TableFacts
<1>. QED
  BY <1>1, <1>4, <1>5, <1>6, <1>7, <1>8, <1>9, <1>10, <1>11, <1>12, <1>13, HandlerFrame
  DEF TypeOK, taskVars, eventVars

LEMMA ReceiveWaitsStep == ASSUME KernelInv, ReceiveWaits PROVE KernelInv'
<1> USE KernelAssumption DEF KernelInv
<1>1. Syscall /\ Trap /\ running # IdleTid
  BY DEF ReceiveWaits, Syscall
<1>2. /\ running \in Table /\ state[running] = "ACTIVE"
      /\ ready[running] = 0 /\ state[IdleTid] = "READY"
  BY <1>1, CallerFacts, SyscallFacts
<1>3. /\ state' = [state EXCEPT ![running] = "RECEIVE_BLOCKED"]
      /\ ready' = ready
      /\ running' = NoTask
      /\ inbox[running] = <<>>
      /\ UNCHANGED <<inbox, x0, taskVars, eventVars, fate>>
  BY DEF ReceiveWaits, LeaveActiveTask
<1>4. /\ state' \in [Table -> RunState]
      /\ \A t \in Table : state'[t] = IF t = running THEN "RECEIVE_BLOCKED" ELSE state[t]
  BY <1>2, <1>3 DEF TypeOK, RunState
<1>5. TidsInOrder'
  BY <1>2, <1>3, <1>4, TidsFrame DEF taskVars
<1>6. ReadyOnce'
  BY <1>2, <1>3, <1>4 DEF ReadyOnce, EveryTaskInItsQueue
<1>7. SendersInInbox'
  BY <1>2, <1>3, <1>4, InboxFrame DEF TypeOK, EveryTaskInItsQueue
<1>8. WaitersInQueue' /\ AwaitedIsArmed'
  BY <1>2, <1>3, <1>4, EventFrame DEF TypeOK, EveryTaskInItsQueue
<1>9. NoSleepOnMail'
  BY <1>3, <1>4 DEF NoSleepOnMail
<1>10. state'[IdleTid] = "READY"
  BY <1>1, <1>2, <1>4, TableFacts
<1>. QED
  BY <1>1, <1>3, <1>4, <1>5, <1>6, <1>7, <1>8, <1>9, <1>10, HandlerFrame
  DEF TypeOK, taskVars, eventVars

LEMMA ReplyStep ==
  ASSUME KernelInv, NEW s \in Table, Reply(s)
  PROVE  KernelInv'
<1> USE KernelAssumption DEF KernelInv
<1>1. Syscall /\ Trap /\ running # IdleTid
  BY DEF Reply, Syscall
<1>2. /\ running \in Table /\ state[running] = "ACTIVE"
      /\ ready[running] = 0 /\ state[IdleTid] = "READY"
  BY <1>1, CallerFacts, SyscallFacts
<1>3. /\ state[s] = "REPLY_BLOCKED" /\ s # running /\ ready[s] = 0
      /\ RepushActiveTask([state EXCEPT ![s] = "READY"], Pushed(ready, s))
      /\ UNCHANGED <<inbox, x0, taskVars, eventVars, fate>>
  BY <1>2 DEF Reply, EveryTaskInItsQueue, ReadyOnce
<1>4. /\ [state EXCEPT ![s] = "READY"] \in [Table -> RunState]
      /\ \A t \in Table : [state EXCEPT ![s] = "READY"][t]
                            = IF t = s THEN "READY" ELSE state[t]
  BY DEF TypeOK, RunState
<1>5. /\ Pushed(ready, s) \in [Table -> Nat]
      /\ \A t \in Table : Pushed(ready, s)[t] = IF t = s THEN ready[t] + 1 ELSE ready[t]
  BY PushedTable DEF TypeOK
<1>6. PICK st \in [Table -> RunState], rq \in [Table -> Nat] :
        /\ RepushActiveTask(st, rq)
        /\ \A t \in Table : st[t] = IF t = s THEN "READY" ELSE state[t]
        /\ \A t \in Table : rq[t] = IF t = s THEN ready[t] + 1 ELSE ready[t]
  BY <1>3, <1>4, <1>5
<1>7. /\ state' \in [Table -> RunState]
      /\ ready' \in [Table -> Nat]
      /\ running' = NoTask
      /\ \A t \in Table : state'[t] = IF t = running THEN "READY" ELSE st[t]
      /\ \A t \in Table : ready'[t] = IF t = running THEN rq[t] + 1 ELSE rq[t]
  BY <1>2, <1>6, Repushed
<1>8. \A t \in Table : state'[t] = IF t = running \/ t = s THEN "READY" ELSE state[t]
  BY <1>6, <1>7
<1>9. TidsInOrder'
  BY <1>2, <1>3, <1>8, TidsFrame DEF taskVars
<1>10. ReadyOnce'
  BY <1>2, <1>3, <1>6, <1>7, <1>8 DEF ReadyOnce, EveryTaskInItsQueue
<1>11. SendersInInbox'
  BY <1>2, <1>3, <1>8, InboxFrame DEF TypeOK, EveryTaskInItsQueue
<1>12. WaitersInQueue' /\ AwaitedIsArmed'
  BY <1>2, <1>3, <1>8, EventFrame DEF TypeOK, EveryTaskInItsQueue
<1>13. NoSleepOnMail'
  BY <1>2, <1>3, <1>8, MailFrame
<1>14. state'[IdleTid] = "READY"
  BY <1>1, <1>2, <1>8, TableFacts
<1>. QED
  BY <1>1, <1>3, <1>7, <1>9, <1>10, <1>11, <1>12, <1>13, <1>14, HandlerFrame
  DEF TypeOK, taskVars, eventVars

LEMMA ReplyToNobodyStep ==
  ASSUME KernelInv, NEW s \in Table, ReplyToNobody(s)
  PROVE  KernelInv'
<1> USE KernelAssumption DEF KernelInv
<1>1. Syscall /\ Trap /\ running # IdleTid
  BY DEF ReplyToNobody, Syscall
<1>2. /\ running \in Table /\ state[IdleTid] = "READY"
  BY <1>1, CallerFacts, SyscallFacts
<1>3. /\ state' = state /\ ready' = ready /\ running' = NoTask
      /\ UNCHANGED <<inbox, x0, taskVars, eventVars, fate>>
  BY DEF ReplyToNobody, LeaveActiveTask
<1>4. TidsInOrder' /\ NoSleepOnMail'
  BY <1>3, TidsFrame, MailFrame DEF taskVars
<1>5. ReadyOnce'
  BY <1>3 DEF ReadyOnce, EveryTaskInItsQueue
<1>6. SendersInInbox'
  BY <1>3, InboxFrame DEF TypeOK, EveryTaskInItsQueue
<1>7. WaitersInQueue' /\ AwaitedIsArmed'
  BY <1>3, EventFrame DEF TypeOK, EveryTaskInItsQueue
<1>. QED
  BY <1>1, <1>2, <1>3, <1>4, <1>5, <1>6, <1>7, HandlerFrame
  DEF TypeOK, taskVars, eventVars

LEMMA ReceiveTakesStep == ASSUME KernelInv, ReceiveTakes PROVE KernelInv'
<1> USE KernelAssumption DEF KernelInv
<1>1. Syscall /\ Trap /\ running # IdleTid
  BY DEF ReceiveTakes, Syscall
<1>2. /\ running \in Table /\ state[running] = "ACTIVE"
      /\ ready[running] = 0 /\ state[IdleTid] = "READY"
  BY <1>1, CallerFacts, SyscallFacts
<1>3. PICK q : q = inbox[running]
  OBVIOUS
<1>4. q \in Seq(Table) /\ q # <<>>
  BY <1>2, <1>3 DEF ReceiveTakes, TypeOK
<1>5. /\ Tail(q) \in Seq(Table) /\ Head(q) \in Table /\ Head(q) = q[1]
      /\ Len(q) \in Nat /\ Len(q) >= 1
      /\ DOMAIN q = 1 .. Len(q) /\ DOMAIN Tail(q) = 1 .. Len(q) - 1
      /\ \A i \in 1 .. Len(q) - 1 : Tail(q)[i] = q[i + 1]
  BY <1>4, TailFacts
<1>6. PICK s \in Table : s = Head(q)
  BY <1>5
<1>7. state[s] = "SEND_BLOCKED" /\ x0[s] = running /\ s # running
  <2>1. 1 \in DOMAIN inbox[running] /\ inbox[running][1] = s
    BY <1>3, <1>5, <1>6
  <2>. QED
    BY <1>2, <2>1 DEF EveryTaskInItsQueue, SendersInInbox
<1>8. /\ RepushActiveTask([state EXCEPT ![s] = "REPLY_BLOCKED"], ready)
      /\ inbox' = [inbox EXCEPT ![running] = Tail(q)]
      /\ x0' = [x0 EXCEPT ![s] = NoTask]
      /\ UNCHANGED <<taskVars, eventVars, fate>>
  BY <1>3, <1>6, <1>7 DEF ReceiveTakes
<1>9. PICK st \in [Table -> RunState] :
        /\ RepushActiveTask(st, ready)
        /\ \A t \in Table : st[t] = IF t = s THEN "REPLY_BLOCKED" ELSE state[t]
  <2>1. /\ [state EXCEPT ![s] = "REPLY_BLOCKED"] \in [Table -> RunState]
        /\ \A t \in Table : [state EXCEPT ![s] = "REPLY_BLOCKED"][t]
                              = IF t = s THEN "REPLY_BLOCKED" ELSE state[t]
    BY DEF TypeOK, RunState
  <2>. QED
    BY <1>8, <2>1
<1>10. /\ state' \in [Table -> RunState]
       /\ ready' \in [Table -> Nat]
       /\ running' = NoTask
       /\ \A t \in Table : state'[t] = IF t = running THEN "READY" ELSE st[t]
       /\ \A t \in Table : ready'[t] = IF t = running THEN ready[t] + 1 ELSE ready[t]
  <2>1. ready \in [Table -> Nat]
    BY DEF TypeOK
  <2>. QED
    BY <1>2, <1>9, <2>1, Repushed
<1>11. \A t \in Table : state'[t] = IF t = running THEN "READY"
                                    ELSE IF t = s THEN "REPLY_BLOCKED" ELSE state[t]
  BY <1>9, <1>10
<1>12. /\ inbox' \in [Table -> Seq(Table)]
       /\ \A u \in Table : u # running => inbox'[u] = inbox[u]
       /\ inbox'[running] = Tail(q)
  BY <1>2, <1>5, <1>8 DEF TypeOK
<1>13. /\ x0' \in [Table -> Table \cup {NoTask}]
       /\ \A t \in Table : t # s => x0'[t] = x0[t]
  BY <1>8 DEF TypeOK
<1>14. SendersInInbox'
  <2>1. \A u \in Table : \A i \in DOMAIN inbox'[u] :
          \E j \in DOMAIN inbox[u] : /\ inbox'[u][i] = inbox[u][j]
                                     /\ u = running => j = i + 1 /\ j # 1
                                     /\ u # running => j = i
    <3> TAKE u \in Table
    <3>1. CASE u # running
      BY <1>12, <3>1
    <3>2. CASE u = running
      <4> TAKE i \in DOMAIN inbox'[u]
      <4>1. i \in 1 .. Len(q) - 1
        BY <1>5, <1>12, <3>2
      <4>2. i + 1 \in DOMAIN inbox[u] /\ i + 1 # 1
        BY <1>3, <1>5, <3>2, <4>1
      <4>3. inbox'[u][i] = inbox[u][i + 1]
        BY <1>3, <1>5, <1>12, <3>2, <4>1
      <4>. QED
        BY <3>2, <4>2, <4>3
    <3>. QED
      BY <3>1, <3>2
  <2>2. \A u \in Table : \A j \in DOMAIN inbox[u] :
          /\ inbox[u][j] \in Table
          /\ state[inbox[u][j]] = "SEND_BLOCKED" /\ x0[inbox[u][j]] = u
          /\ inbox[u][j] # running
          /\ inbox[u][j] = s => u = running /\ j = 1
    <3>1. \A u \in Table : \A j \in DOMAIN inbox[u] : inbox[u][j] \in Table
      BY DEF TypeOK
    <3>2. \A u \in Table : \A j \in DOMAIN inbox[u] :
            state[inbox[u][j]] = "SEND_BLOCKED" /\ x0[inbox[u][j]] = u
      BY DEF EveryTaskInItsQueue, SendersInInbox
    <3>3. 1 \in DOMAIN inbox[running] /\ inbox[running][1] = s
      BY <1>3, <1>5, <1>6
    <3>4. \A j \in DOMAIN inbox[running] : inbox[running][j] = s => j = 1
      BY <1>2, <3>3 DEF EveryTaskInItsQueue, SendersInInbox
    <3>. QED
      BY <1>2, <1>7, <3>1, <3>2, <3>4
  <2>3. \A u \in Table : \A i \in DOMAIN inbox'[u] :
          state'[inbox'[u][i]] = "SEND_BLOCKED" /\ x0'[inbox'[u][i]] = u
    <3> TAKE u \in Table
    <3> TAKE i \in DOMAIN inbox'[u]
    <3>1. PICK j \in DOMAIN inbox[u] : /\ inbox'[u][i] = inbox[u][j]
                                       /\ u = running => j = i + 1 /\ j # 1
      BY <2>1
    <3>2. inbox[u][j] # s /\ inbox[u][j] # running
      BY <2>2, <3>1
    <3>. QED
      BY <1>11, <1>13, <2>2, <3>1, <3>2
  <2>4. \A u \in Table : \A i, j \in DOMAIN inbox'[u] : inbox'[u][i] = inbox'[u][j] => i = j
    <3> TAKE u \in Table
    <3>1. \A m, n \in DOMAIN inbox[u] : inbox[u][m] = inbox[u][n] => m = n
      BY DEF EveryTaskInItsQueue, SendersInInbox
    <3>2. CASE u # running
      BY <1>12, <3>1, <3>2
    <3>3. CASE u = running
      <4>1. \A i \in DOMAIN inbox'[u] : /\ i \in Int /\ i + 1 \in DOMAIN inbox[u]
                                        /\ inbox'[u][i] = inbox[u][i + 1]
        <5> TAKE i \in DOMAIN inbox'[u]
        <5>1. i \in 1 .. Len(q) - 1
          BY <1>5, <1>12, <3>3
        <5>2. i \in Int /\ i + 1 \in DOMAIN inbox[u]
          BY <1>3, <1>5, <3>3, <5>1
        <5>3. inbox'[u][i] = inbox[u][i + 1]
          BY <1>3, <1>5, <1>12, <3>3, <5>1
        <5>. QED
          BY <5>2, <5>3
      <4>. QED
        BY <3>1, <4>1
    <3>. QED
      BY <3>2, <3>3
  <2>5. \A t \in Table : state'[t] = "SEND_BLOCKED" =>
          \E u \in Table : \E i \in DOMAIN inbox'[u] : inbox'[u][i] = t
    <3> SUFFICES ASSUME NEW t \in Table, state'[t] = "SEND_BLOCKED"
                 PROVE  \E u \in Table : \E i \in DOMAIN inbox'[u] : inbox'[u][i] = t
      OBVIOUS
    <3>1. state[t] = "SEND_BLOCKED" /\ t # s
      BY <1>11
    <3>2. PICK u \in Table : \E i \in DOMAIN inbox[u] : inbox[u][i] = t
      BY <3>1 DEF EveryTaskInItsQueue, SendersInInbox
    <3>3. PICK i \in DOMAIN inbox[u] : inbox[u][i] = t
      BY <3>2
    <3>4. CASE u # running
      BY <1>12, <3>3, <3>4
    <3>5. CASE u = running
      <4>1. i \in 1 .. Len(q) /\ i # 1
        BY <1>3, <1>5, <1>6, <3>1, <3>3, <3>5
      <4>2. i - 1 \in 1 .. Len(q) - 1 /\ (i - 1) + 1 = i
        BY <1>5, <4>1
      <4>3. i - 1 \in DOMAIN inbox'[u] /\ inbox'[u][i - 1] = t
        BY <1>3, <1>5, <1>12, <3>3, <3>5, <4>2
      <4>. QED
        BY <4>3
    <3>. QED
      BY <3>4, <3>5
  <2>. QED
    BY <2>3, <2>4, <2>5 DEF SendersInInbox
<1>15. TidsInOrder'
  BY <1>2, <1>7, <1>8, <1>11, TidsFrame DEF taskVars
<1>16. ReadyOnce'
  BY <1>2, <1>7, <1>10, <1>11 DEF ReadyOnce, EveryTaskInItsQueue
<1>17. WaitersInQueue' /\ AwaitedIsArmed'
  BY <1>2, <1>7, <1>8, <1>11, EventFrame DEF TypeOK, EveryTaskInItsQueue
<1>18. NoSleepOnMail'
  BY <1>11, <1>12 DEF NoSleepOnMail
<1>19. state'[IdleTid] = "READY"
  BY <1>1, <1>2, <1>7, <1>11, TableFacts
<1>. QED
  BY <1>1, <1>8, <1>10, <1>12, <1>13, <1>14, <1>15, <1>16, <1>17, <1>18, <1>19, HandlerFrame
  DEF TypeOK, taskVars, eventVars

LEMMA AwaitEventStep ==
  ASSUME KernelInv, NEW e \in InterruptEvents, AwaitEvent(e)
  PROVE  KernelInv'
<1> USE KernelAssumption DEF KernelInv
<1>1. Syscall /\ Trap /\ running # IdleTid
  BY DEF AwaitEvent, Syscall
<1>2. /\ running \in Table /\ state[running] = "ACTIVE"
      /\ ready[running] = 0 /\ state[IdleTid] = "READY"
  BY <1>1, CallerFacts, SyscallFacts
<1>3. /\ state' = [state EXCEPT ![running] = "EVENT_BLOCKED"]
      /\ ready' = ready
      /\ running' = NoTask
      /\ eventQueue' = [eventQueue EXCEPT ![e] = @ \cup {running}]
      /\ armed' = armed \cup ({e} \cap Armable)
      /\ UNCHANGED <<inbox, x0, taskVars, fate>>
  BY DEF AwaitEvent, LeaveActiveTask
<1>4. /\ state' \in [Table -> RunState]
      /\ \A t \in Table : state'[t] = IF t = running THEN "EVENT_BLOCKED" ELSE state[t]
  BY <1>2, <1>3 DEF TypeOK, RunState
<1>5. /\ eventQueue' \in [InterruptEvents -> SUBSET Table]
      /\ \A f \in InterruptEvents :
           eventQueue'[f] = IF f = e THEN eventQueue[f] \cup {running} ELSE eventQueue[f]
  BY <1>2, <1>3 DEF TypeOK
<1>6. armed' \subseteq Armable
  BY <1>3 DEF TypeOK
<1>7. TidsInOrder'
  BY <1>2, <1>3, <1>4, TidsFrame DEF taskVars
<1>8. ReadyOnce'
  BY <1>2, <1>3, <1>4 DEF ReadyOnce, EveryTaskInItsQueue
<1>9. SendersInInbox'
  BY <1>2, <1>3, <1>4, InboxFrame DEF TypeOK, EveryTaskInItsQueue
<1>10. WaitersInQueue'
  <2>1. /\ \A f \in InterruptEvents : \A t \in eventQueue[f] : state[t] = "EVENT_BLOCKED"
        /\ \A t \in Table : state[t] = "EVENT_BLOCKED" =>
             \E f \in InterruptEvents : t \in eventQueue[f]
        /\ \A f, g \in InterruptEvents : f # g => eventQueue[f] \cap eventQueue[g] = {}
        /\ \A f \in InterruptEvents : eventQueue[f] \subseteq Table
    BY DEF EveryTaskInItsQueue, WaitersInQueue, TypeOK
  <2>2. \A f \in InterruptEvents : running \notin eventQueue[f]
    BY <1>2, <2>1
  <2>3. \A f \in InterruptEvents : \A t \in eventQueue'[f] : state'[t] = "EVENT_BLOCKED"
    BY <1>2, <1>4, <1>5, <2>1
  <2>4. \A t \in Table : state'[t] = "EVENT_BLOCKED" =>
          \E f \in InterruptEvents : t \in eventQueue'[f]
    BY <1>4, <1>5, <2>1
  <2>5. \A f, g \in InterruptEvents : f # g => eventQueue'[f] \cap eventQueue'[g] = {}
    BY <1>5, <2>1, <2>2
  <2>. QED
    BY <2>3, <2>4, <2>5 DEF WaitersInQueue
<1>11. AwaitedIsArmed'
  BY <1>3, <1>5 DEF AwaitedIsArmed, InterruptEvents
<1>12. NoSleepOnMail'
  BY <1>2, <1>3, <1>4, MailFrame
<1>13. state'[IdleTid] = "READY"
  BY <1>1, <1>2, <1>4, TableFacts
<1>. QED
  BY <1>1, <1>3, <1>4, <1>5, <1>6, <1>7, <1>8, <1>9, <1>10, <1>11, <1>12, <1>13, HandlerFrame
  DEF TypeOK, taskVars

-----------------------------------------------------------------------------
(* Interrupts.                                                             *)

\* Both handlers wake the waiters of the sources that fired and mask no other.
LEMMA WakeStep ==
  ASSUME KernelInv, Trap, NEW fired \in SUBSET InterruptEvents, WakeAll(fired),
         armed' \subseteq armed, armed \ armed' \subseteq fired,
         UNCHANGED <<inbox, x0, taskVars, fate>>
  PROVE  KernelInv'
<1> USE KernelAssumption DEF KernelInv
<1>1. /\ running \in Table /\ state[running] = "ACTIVE" /\ ready[running] = 0
  BY CallerFacts
<1>2. PICK woken : woken = UNION {eventQueue[e] : e \in fired}
  OBVIOUS
<1>3. woken \subseteq Table /\ \A t \in Table : t \in woken <=> \E e \in fired : t \in eventQueue[e]
  BY <1>2 DEF TypeOK
<1>4. \A t \in woken : state[t] = "EVENT_BLOCKED" /\ ready[t] = 0 /\ t # running
  BY <1>1, <1>3 DEF EveryTaskInItsQueue, WaitersInQueue, ReadyOnce
<1>5. PICK st \in [Table -> RunState], rq \in [Table -> Nat] :
        /\ RepushActiveTask(st, rq)
        /\ \A t \in Table : st[t] = IF t \in woken THEN "READY" ELSE state[t]
        /\ \A t \in Table : rq[t] = IF t \in woken THEN ready[t] + 1 ELSE ready[t]
  <2>1. /\ [t \in Table |-> IF t \in woken THEN "READY" ELSE state[t]] \in [Table -> RunState]
        /\ [t \in Table |-> ready[t] + (IF t \in woken THEN 1 ELSE 0)] \in [Table -> Nat]
    BY DEF TypeOK, RunState
  <2>2. \A t \in Table : ready[t] + (IF t \in woken THEN 1 ELSE 0)
                           = IF t \in woken THEN ready[t] + 1 ELSE ready[t]
    BY DEF TypeOK
  <2>3. RepushActiveTask([t \in Table |-> IF t \in woken THEN "READY" ELSE state[t]],
                         [t \in Table |-> ready[t] + (IF t \in woken THEN 1 ELSE 0)])
    BY <1>2 DEF WakeAll
  <2>. QED
    BY <2>1, <2>2, <2>3
<1>6. /\ state' \in [Table -> RunState]
      /\ ready' \in [Table -> Nat]
      /\ running' = NoTask
      /\ \A t \in Table : state'[t] = IF t = running THEN "READY" ELSE st[t]
      /\ \A t \in Table : ready'[t] = IF t = running THEN rq[t] + 1 ELSE rq[t]
  BY <1>1, <1>5, Repushed
<1>7. \A t \in Table : state'[t] = IF t = running \/ t \in woken THEN "READY" ELSE state[t]
  BY <1>5, <1>6
<1>8. /\ eventQueue' \in [InterruptEvents -> SUBSET Table]
      /\ \A e \in InterruptEvents : eventQueue'[e] = IF e \in fired THEN {} ELSE eventQueue[e]
  BY DEF WakeAll, TypeOK
<1>9. TidsInOrder'
  BY <1>1, <1>4, <1>7, TidsFrame DEF taskVars
<1>10. ReadyOnce'
  BY <1>1, <1>4, <1>5, <1>6, <1>7 DEF ReadyOnce, EveryTaskInItsQueue
<1>11. SendersInInbox'
  BY <1>1, <1>4, <1>7, InboxFrame DEF TypeOK, EveryTaskInItsQueue
<1>12. WaitersInQueue'
  <2>1. \A e \in InterruptEvents : \A t \in eventQueue'[e] : state'[t] = "EVENT_BLOCKED"
    <3> TAKE e \in InterruptEvents
    <3> TAKE t \in eventQueue'[e]
    <3>1. e \notin fired /\ t \in eventQueue[e] /\ t \in Table
      BY <1>8
    <3>2. state[t] = "EVENT_BLOCKED"
      BY <3>1 DEF EveryTaskInItsQueue, WaitersInQueue
    <3>3. t \notin woken
      BY <1>3, <3>1 DEF EveryTaskInItsQueue, WaitersInQueue
    <3>. QED
      BY <1>1, <1>7, <3>1, <3>2, <3>3
  <2>2. \A t \in Table : state'[t] = "EVENT_BLOCKED" =>
          \E e \in InterruptEvents : t \in eventQueue'[e]
    BY <1>3, <1>7, <1>8 DEF EveryTaskInItsQueue, WaitersInQueue
  <2>3. \A e, f \in InterruptEvents : e # f => eventQueue'[e] \cap eventQueue'[f] = {}
    BY <1>8 DEF EveryTaskInItsQueue, WaitersInQueue
  <2>. QED
    BY <2>1, <2>2, <2>3 DEF WaitersInQueue
<1>13. AwaitedIsArmed'
  BY <1>8 DEF AwaitedIsArmed, InterruptEvents
<1>14. NoSleepOnMail'
  BY <1>1, <1>4, <1>7, MailFrame
<1>15. state'[IdleTid] = "READY"
  <2>1. state[IdleTid] = "READY" \/ running = IdleTid
    BY DEF SomebodyCanRun
  <2>. QED
    BY <1>7, <2>1, TableFacts
<1>. QED
  BY <1>6, <1>8, <1>9, <1>10, <1>11, <1>12, <1>13, <1>14, <1>15, HandlerFrame
  DEF TypeOK, taskVars

LEMMA InterruptStep ==
  ASSUME KernelInv,
         \/ TimerInterrupt
         \/ \E pending \in SUBSET MaskedUart :
              \E cts \in {{}} \cup {{e} : e \in CtsEvents} : UartInterrupt(pending, cts)
  PROVE  KernelInv'
<1>1. CASE TimerInterrupt
  BY <1>1, WakeStep DEF TimerInterrupt, InterruptEvents, Armable
<1>2. ASSUME NEW pending \in SUBSET MaskedUart,
             NEW cts \in {{}} \cup {{e} : e \in CtsEvents},
             UartInterrupt(pending, cts)
      PROVE  KernelInv'
  <2>1. pending \cup cts \in SUBSET InterruptEvents
    BY DEF InterruptEvents, Armable, CtsEvents
  <2>2. /\ Trap /\ WakeAll(pending \cup cts)
        /\ armed' \subseteq armed /\ armed \ armed' \subseteq pending \cup cts
        /\ UNCHANGED <<inbox, x0, taskVars, fate>>
    BY <1>2 DEF UartInterrupt
  <2>. QED
    BY <2>1, <2>2, WakeStep
<1>. QED
  BY <1>1, <1>2

-----------------------------------------------------------------------------
(* The theorems.                                                           *)

LEMMA InvStep == KernelInv /\ [Next]_vars => KernelInv'
<1> SUFFICES ASSUME KernelInv, [Next]_vars PROVE KernelInv'
  OBVIOUS
<1>1. CASE Dispatch
  BY <1>1, DispatchStep
<1>2. CASE \E p \in CreateArgs : Create(p)
  BY <1>2, CreateStep
<1>3. CASE Exit
  BY <1>3, ExitStep
<1>4. CASE Query \/ Yield
  BY <1>4, ReadyAgain DEF Query, Yield
<1>5. CASE \E r \in Table : SendQueued(r) \/ SendDirect(r)
  BY <1>5, SendQueuedStep, SendDirectStep
<1>6. CASE ReceiveWaits
  BY <1>6, ReceiveWaitsStep
<1>7. CASE ReceiveTakes
  BY <1>7, ReceiveTakesStep
<1>8. CASE \E s \in Table : Reply(s) \/ ReplyToNobody(s)
  BY <1>8, ReplyStep, ReplyToNobodyStep
<1>9. CASE \E e \in UsedEvents : AwaitEvent(e)
  BY <1>9, AwaitEventStep, KernelAssumption DEF KernelAssumption
<1>10. CASE \/ TimerInterrupt
            \/ \E pending \in SUBSET MaskedUart :
                 \E cts \in {{}} \cup {{e} : e \in CtsEvents} : UartInterrupt(pending, cts)
  BY <1>10, InterruptStep
<1>12. CASE Abort
  BY <1>12, PanicFrame DEF Abort, Fates
<1>11. CASE UNCHANGED vars
  <2>1. TypeOK' /\ SomebodyCanRun' /\ TidsInOrder'
    BY <1>11 DEF KernelInv, vars, TypeOK, SomebodyCanRun, TidsInOrder, Live
  <2>2. EveryTaskInItsQueue'
    BY <1>11 DEF KernelInv, vars, EveryTaskInItsQueue, ReadyOnce, SendersInInbox, WaitersInQueue
  <2>3. NoSleepOnMail' /\ AwaitedIsArmed' /\ MostUrgentRuns' /\ OnlyCreatePanics'
    BY <1>11 DEF KernelInv, vars, NoSleepOnMail, AwaitedIsArmed, MostUrgentRuns, OnlyCreatePanics
  <2>. QED
    BY <2>1, <2>2, <2>3 DEF KernelInv
<1>. QED
  BY <1>1, <1>2, <1>3, <1>4, <1>5, <1>6, <1>7, <1>8, <1>9, <1>10, <1>11, <1>12
  DEF Next, Served, Halted

\* The inductive invariant: the safety of the kernel in one formula.
THEOREM Invariance == Spec => []KernelInv
<1>1. Init => KernelInv
  BY InvInit
<1>2. KernelInv /\ [Next]_vars => KernelInv'
  BY InvStep
<1>. QED
  BY <1>1, <1>2, PTL DEF Spec

\* Every handler keeps the kernel's data in shape: above all, the only tid out
\* of the table's range never leaves free_tid.
THEOREM TypeCorrect == Spec => []TypeOK
<1>1. KernelInv => TypeOK
  BY DEF KernelInv
<1>. QED
  BY <1>1, Invariance, PTL

\* Each task is in exactly the queue that its state names.
THEOREM QueuesMatchStates == Spec => []EveryTaskInItsQueue
<1>1. KernelInv => EveryTaskInItsQueue
  BY DEF KernelInv
<1>. QED
  BY <1>1, Invariance, PTL

\* No receiver sleeps while a sender waits for it.
THEOREM MailWakes == Spec => []NoSleepOnMail
<1>1. KernelInv => NoSleepOnMail
  BY DEF KernelInv
<1>. QED
  BY <1>1, Invariance, PTL

\* No task waits for an interrupt that is masked.
THEOREM AwaitedInterruptsFire == Spec => []AwaitedIsArmed
<1>1. KernelInv => AwaitedIsArmed
  BY DEF KernelInv
<1>. QED
  BY <1>1, Invariance, PTL

\* User code runs at the highest priority that is ready.
THEOREM PriorityScheduling == Spec => []MostUrgentRuns
<1>1. KernelInv => MostUrgentRuns
  BY DEF KernelInv
<1>. QED
  BY <1>1, Invariance, PTL

\* None of the kernel's assertions fails but those around Create.
THEOREM AssertionsHold == Spec => []OnlyCreatePanics
<1>1. KernelInv => OnlyCreatePanics
  BY DEF KernelInv
<1>. QED
  BY <1>1, Invariance, PTL

-----------------------------------------------------------------------------
(* Identity of tasks: only Create sets a block, that of the tid it takes    *)
(* from free_tid, and the tids below it are the ones that have a block.     *)

LEMMA TidStep ==
  KernelInv /\ [Next]_vars => \A t \in Table : block[t] # NoBlock => block'[t] = block[t]
<1> SUFFICES ASSUME KernelInv, [Next]_vars, NEW t \in Table, block[t] # NoBlock
             PROVE  block'[t] = block[t]
  OBVIOUS
<1>1. CASE UNCHANGED block
  BY <1>1
<1>2. ASSUME NEW p \in CreateArgs, Create(p) PROVE block'[t] = block[t]
  <2>1. PICK outcome \in CreateOutcomes(p) :
          \/ outcome # "up" /\ block' = block
          \/ outcome = "up" /\ block' = [block EXCEPT ![Head(freeTid)] = Head(freeBlocks)]
    BY <1>2 DEF Create, Panic
  <2>2. CASE outcome # "up"
    BY <2>1, <2>2
  <2>3. CASE outcome = "up"
    <3>1. PICK k \in DOMAIN freeTid :
            /\ \A i \in 1 .. k : freeTid[i] = MAX_TASKS - k + i
            /\ \A u \in Table : block[u] # NoBlock <=> u \in 1 .. MAX_TASKS - k
      BY DEF KernelInv, TidsInOrder
    <3>2. Head(freeTid) \in Table /\ freeTid # <<>>
      BY <2>3, CreateUp
    <3>3. freeTid \in Seq(Tids)
      BY DEF KernelInv, TypeOK
    <3>4. 1 \in 1 .. k /\ k \in Int /\ Head(freeTid) = freeTid[1]
      BY <3>1, <3>2, <3>3
    <3>5. Head(freeTid) = MAX_TASKS - k + 1
      BY <3>1, <3>4
    <3>6. t # Head(freeTid)
      BY <3>1, <3>4, <3>5, KernelAssumption DEF KernelAssumption
    <3>7. block \in [Table -> 0 .. MAX_TASKS - 1 \cup {NoBlock}]
      BY DEF KernelInv, TypeOK
    <3>. QED
      BY <2>1, <2>3, <3>6, <3>7
  <2>. QED
    BY <2>2, <2>3
<1>3. ASSUME NEW r \in Table, SendQueued(r) \/ SendDirect(r) PROVE UNCHANGED block
  BY <1>3 DEF SendQueued, SendDirect, taskVars
<1>4. ASSUME NEW s \in Table, Reply(s) \/ ReplyToNobody(s) PROVE UNCHANGED block
  BY <1>4 DEF Reply, ReplyToNobody, taskVars
<1>5. CASE Dispatch \/ ReceiveTakes
  BY <1>5 DEF Dispatch, ReceiveTakes, Panic, taskVars
<1>9. CASE Abort
  BY <1>9 DEF Abort, Panic
<1>6. CASE Exit \/ Query \/ Yield \/ ReceiveWaits \/ TimerInterrupt \/ Halted \/ UNCHANGED vars
  BY <1>6 DEF Exit, Query, Yield, ReceiveWaits, TimerInterrupt, Halted, taskVars, vars
<1>7. ASSUME NEW e \in UsedEvents, AwaitEvent(e) PROVE UNCHANGED block
  BY <1>7 DEF AwaitEvent, taskVars
<1>8. ASSUME NEW pending, NEW cts, UartInterrupt(pending, cts) PROVE UNCHANGED block
  BY <1>8 DEF UartInterrupt, taskVars
<1>. QED
  BY <1>1, <1>2, <1>3, <1>4, <1>5, <1>6, <1>7, <1>8, <1>9 DEF Next, Served

\* No tid is ever given to a second task.
THEOREM TidsAreNames == Spec => TidNamesOneTask
<1>1. KernelInv /\ [Next]_vars
        => [\A t \in Table : block[t] # NoBlock => block'[t] = block[t]]_vars
  BY TidStep
<1>. QED
  BY <1>1, Invariance, PTL DEF Spec, TidNamesOneTask

-----------------------------------------------------------------------------
(* Conservation of tids and memory blocks.                                 *)

LEMMA RepushStates ==
  ASSUME NEW st \in [Table -> RunState], NEW rq, running \in Table, RepushActiveTask(st, rq)
  PROVE  \A t \in Table : state'[t] = IF t = running THEN "READY" ELSE st[t]
  BY DEF RepushActiveTask

LEMMA ExceptStates ==
  ASSUME NEW st \in [Table -> RunState], NEW s \in Table, NEW new \in RunState
  PROVE  /\ [st EXCEPT ![s] = new] \in [Table -> RunState]
         /\ \A t \in Table : [st EXCEPT ![s] = new][t] = IF t = s THEN new ELSE st[t]
  OBVIOUS

\* Tasks are born and die in Create and Exit only.
LEMMA LiveStep ==
  ASSUME KernelInv, [Next]_vars, ~Exit, \A p \in CreateArgs : ~Create(p)
  PROVE  /\ UNCHANGED <<block, freeTid, freeBlocks>>
         /\ Live' = Live
<1> SUFFICES /\ UNCHANGED <<block, freeTid, freeBlocks>>
             /\ \A t \in Table : state'[t] = "EXITED" <=> state[t] = "EXITED"
  BY DEF Live
<1> DEFINE Quiet == /\ UNCHANGED <<block, freeTid, freeBlocks>>
                    /\ \A t \in Table : state'[t] = "EXITED" <=> state[t] = "EXITED"
<1> HIDE DEF Quiet
<1>2. state \in [Table -> RunState]
  BY DEF KernelInv, TypeOK
<1>3. Trap => running \in Table /\ state[running] = "ACTIVE"
  BY CallerFacts
<1>4. ASSUME Trap, NEW new \in RunState, new # "EXITED", NEW rq,
             LeaveActiveTask([state EXCEPT ![running] = new], rq),
             UNCHANGED taskVars
      PROVE  Quiet
  BY <1>2, <1>3, <1>4, ExceptStates DEF LeaveActiveTask, taskVars, Quiet
<1>5. ASSUME Trap, NEW s \in Table, state[s] # "EXITED", NEW new \in RunState,
             new # "EXITED", NEW rq,
             RepushActiveTask([state EXCEPT ![s] = new], rq), UNCHANGED taskVars
      PROVE  Quiet
  <2>1. PICK st \in [Table -> RunState] :
          /\ RepushActiveTask(st, rq)
          /\ \A t \in Table : st[t] = IF t = s THEN new ELSE state[t]
    BY <1>2, <1>5, ExceptStates, ZenonT(40)
  <2>2. \A t \in Table : state'[t] = IF t = running THEN "READY" ELSE st[t]
    BY <1>3, <1>5, <2>1, RepushStates
  <2>3. UNCHANGED <<block, freeTid, freeBlocks>>
    BY <1>5 DEF taskVars
  <2>. QED
    BY <1>3, <1>5, <2>1, <2>2, <2>3 DEF Quiet
<1>6. ASSUME Trap, RepushActiveTask(state, ready), UNCHANGED taskVars PROVE Quiet
  BY <1>2, <1>3, <1>6, RepushStates DEF taskVars, Quiet
<1>7. ASSUME Dispatch PROVE Quiet
  <2>1. UNCHANGED <<block, freeTid, freeBlocks>>
    BY <1>7 DEF Dispatch, Panic, taskVars
  <2>2. CASE UNCHANGED state
    BY <2>1, <2>2 DEF Quiet
  <2>3. CASE \E t \in MostUrgent : state' = [state EXCEPT ![t] = "ACTIVE"]
    <3>1. PICK t \in MostUrgent : state' = [state EXCEPT ![t] = "ACTIVE"]
      BY <2>3
    <3>2. t \in Table /\ state[t] = "READY"
      BY <3>1 DEF MostUrgent, Queued, KernelInv, EveryTaskInItsQueue, ReadyOnce
    <3>. QED
      BY <1>2, <2>1, <3>1, <3>2 DEF Quiet
  <2>. QED
    BY <1>7, <2>2, <2>3 DEF Dispatch, Panic
<1>8. ASSUME Query \/ Yield PROVE Quiet
  BY <1>6, <1>8 DEF Query, Yield, Syscall
<1>9. ASSUME Abort \/ Halted \/ UNCHANGED vars PROVE Quiet
  BY <1>9 DEF Abort, Panic, Halted, vars, Quiet
<1>10. ASSUME NEW r \in Table, SendQueued(r) PROVE Quiet
  BY <1>4, <1>10 DEF SendQueued, Syscall, RunState
<1>11. ASSUME NEW r \in Table, SendDirect(r) PROVE Quiet
  <2>1. /\ state' = [state EXCEPT ![r] = "READY", ![running] = "REPLY_BLOCKED"]
        /\ state[r] = "RECEIVE_BLOCKED" /\ running \in Table /\ state[running] = "ACTIVE"
        /\ UNCHANGED <<block, freeTid, freeBlocks>>
    BY <1>3, <1>11 DEF SendDirect, LeaveActiveTask, Syscall, taskVars
  <2>. QED
    BY <1>2, <2>1 DEF Quiet
<1>12. ASSUME ReceiveWaits PROVE Quiet
  BY <1>4, <1>12 DEF ReceiveWaits, Syscall, RunState
<1>13. ASSUME ReceiveTakes PROVE Quiet
  <2>1. Trap /\ inbox[running] \in Seq(Table) /\ inbox[running] # <<>>
    BY <1>3, <1>13 DEF ReceiveTakes, Syscall, KernelInv, TypeOK
  <2>2. PICK s \in Table : s = Head(inbox[running])
    BY <2>1
  <2>3. CASE Panic("wrong_receiver")
    BY <2>3 DEF Panic, Quiet
  <2>4. CASE /\ state[s] = "SEND_BLOCKED"
             /\ RepushActiveTask([state EXCEPT ![s] = "REPLY_BLOCKED"], ready)
             /\ UNCHANGED taskVars
    BY <1>5, <2>1, <2>4 DEF RunState
  <2>5. CASE LeaveActiveTask(state, ready) /\ UNCHANGED taskVars
    BY <2>5 DEF LeaveActiveTask, taskVars, Quiet
  <2>. QED
    BY <1>13, <2>2, <2>3, <2>4, <2>5 DEF ReceiveTakes
<1>14. ASSUME NEW s \in Table, Reply(s) PROVE Quiet
  BY <1>5, <1>14 DEF Reply, Syscall, RunState
<1>15. ASSUME NEW s \in Table, ReplyToNobody(s) PROVE Quiet
  BY <1>15 DEF ReplyToNobody, LeaveActiveTask, taskVars, Quiet
<1>16. ASSUME NEW e \in UsedEvents, AwaitEvent(e) PROVE Quiet
  BY <1>4, <1>16 DEF AwaitEvent, Syscall, RunState
<1>17. ASSUME NEW fired \in SUBSET InterruptEvents, Trap, WakeAll(fired), UNCHANGED taskVars
       PROVE  Quiet
  <2>1. PICK woken : woken = UNION {eventQueue[e] : e \in fired}
    OBVIOUS
  <2>2. \A t \in woken : t \in Table /\ state[t] = "EVENT_BLOCKED"
    BY <2>1 DEF KernelInv, TypeOK, EveryTaskInItsQueue, WaitersInQueue
  <2>3. PICK st \in [Table -> RunState] :
          /\ \E rq : RepushActiveTask(st, rq)
          /\ \A t \in Table : st[t] = IF t \in woken THEN "READY" ELSE state[t]
    <3>1. [t \in Table |-> IF t \in woken THEN "READY" ELSE state[t]] \in [Table -> RunState]
      BY <1>2 DEF RunState
    <3>. QED
      BY <1>17, <2>1, <3>1 DEF WakeAll
  <2>4. PICK rq : RepushActiveTask(st, rq)
    BY <2>3
  <2>5. \A t \in Table : state'[t] = IF t = running THEN "READY" ELSE st[t]
    BY <1>3, <1>17, <2>4, RepushStates
  <2>. QED
    BY <1>3, <1>17, <2>2, <2>3, <2>5 DEF taskVars, Quiet
<1>18. ASSUME TimerInterrupt PROVE Quiet
  BY <1>17, <1>18 DEF TimerInterrupt, InterruptEvents, Armable
<1>19. ASSUME NEW pending \in SUBSET MaskedUart,
              NEW cts \in {{}} \cup {{e} : e \in CtsEvents}, UartInterrupt(pending, cts)
       PROVE  Quiet
  <2>1. pending \cup cts \in SUBSET InterruptEvents
    BY DEF InterruptEvents, Armable, CtsEvents
  <2>. QED
    BY <1>17, <1>19, <2>1 DEF UartInterrupt
<1>20. Quiet
  BY <1>7, <1>8, <1>9, <1>10, <1>11, <1>12, <1>13, <1>14, <1>15, <1>16, <1>18, <1>19
  DEF Next, Served
<1>. QED
  BY <1>20 DEF Quiet

LEMMA AppendRange ==
  ASSUME NEW S, NEW q \in Seq(S), NEW e \in S
  PROVE  /\ SeqRange(Append(q, e)) = SeqRange(q) \cup {e}
         /\ Injective(q) /\ e \notin SeqRange(q) => Injective(Append(q, e))
<1>1. /\ Len(q) \in Nat
      /\ DOMAIN q = 1 .. Len(q) /\ DOMAIN Append(q, e) = 1 .. Len(q) + 1
      /\ \A i \in 1 .. Len(q) : Append(q, e)[i] = q[i]
      /\ Append(q, e)[Len(q) + 1] = e
  BY AppendFacts
<1>2. PICK r : r = Append(q, e)
  OBVIOUS
<1>3. PICK n \in Nat : n = Len(q)
  BY <1>1
<1>4. /\ DOMAIN q = 1 .. n /\ DOMAIN r = 1 .. n + 1
      /\ \A i \in 1 .. n : r[i] = q[i]
      /\ r[n + 1] = e
  BY <1>1, <1>2, <1>3
<1>5. \A i \in 1 .. n + 1 : i \in 1 .. n \/ i = n + 1
  OBVIOUS
<1>6. n + 1 \in 1 .. n + 1 /\ \A i \in 1 .. n : i \in 1 .. n + 1
  OBVIOUS
<1>7. SeqRange(r) = SeqRange(q) \cup {e}
  BY <1>4, <1>5, <1>6 DEF SeqRange
<1>8. Injective(q) /\ e \notin SeqRange(q) => Injective(r)
  <2> SUFFICES ASSUME Injective(q), e \notin SeqRange(q),
                      NEW i \in 1 .. n + 1, NEW j \in 1 .. n + 1, r[i] = r[j]
               PROVE  i = j
    BY <1>4 DEF Injective
  <2>1. \A k \in 1 .. n : r[k] # e
    BY <1>4 DEF SeqRange
  <2>2. CASE i \in 1 .. n /\ j \in 1 .. n
    BY <1>4, <2>2 DEF Injective
  <2>3. CASE i = n + 1 \/ j = n + 1
    BY <1>4, <1>5, <2>1, <2>3
  <2>. QED
    BY <1>5, <2>2, <2>3
<1>. QED
  BY <1>2, <1>7, <1>8

LEMMA TailRange ==
  ASSUME NEW S, NEW q \in Seq(S), q # <<>>
  PROVE  /\ SeqRange(q) = SeqRange(Tail(q)) \cup {Head(q)}
         /\ Injective(q) => Injective(Tail(q)) /\ Head(q) \notin SeqRange(Tail(q))
<1>1. PICK n \in Nat : n = Len(q) - 1
  BY TailFacts
<1>2. PICK r : r = Tail(q)
  OBVIOUS
<1>3. /\ DOMAIN q = 1 .. n + 1 /\ DOMAIN r = 1 .. n
      /\ \A i \in 1 .. n : r[i] = q[i + 1]
      /\ Head(q) = q[1]
  BY <1>1, <1>2, TailFacts
<1>4. \A i \in 1 .. n : i \in Int /\ i + 1 \in 1 .. n + 1 /\ i + 1 # 1
  OBVIOUS
<1>5. \A i \in 1 .. n + 1 : i = 1 \/ (i - 1 \in 1 .. n /\ (i - 1) + 1 = i)
  OBVIOUS
<1>6. 1 \in 1 .. n + 1
  OBVIOUS
<1>7. SeqRange(q) = SeqRange(r) \cup {Head(q)}
  <2>1. ASSUME NEW y \in SeqRange(q) PROVE y \in SeqRange(r) \cup {Head(q)}
    <3>1. PICK i \in 1 .. n + 1 : q[i] = y
      BY <1>3 DEF SeqRange
    <3>2. CASE i = 1
      BY <1>3, <3>1, <3>2
    <3>3. CASE i # 1
      <4>1. i - 1 \in 1 .. n /\ r[i - 1] = y
        BY <1>3, <1>5, <3>1, <3>3
      <4>. QED
        BY <1>3, <4>1 DEF SeqRange
    <3>. QED
      BY <3>2, <3>3
  <2>2. ASSUME NEW y \in SeqRange(r) PROVE y \in SeqRange(q)
    <3>1. PICK i \in 1 .. n : r[i] = y
      BY <1>3 DEF SeqRange
    <3>. QED
      BY <1>3, <1>4, <3>1 DEF SeqRange
  <2>3. Head(q) \in SeqRange(q)
    BY <1>3, <1>6 DEF SeqRange
  <2>. QED
    BY <2>1, <2>2, <2>3
<1>8. Injective(q) => Injective(r) /\ Head(q) \notin SeqRange(r)
  <2> SUFFICES ASSUME Injective(q)
               PROVE  Injective(r) /\ Head(q) \notin SeqRange(r)
    OBVIOUS
  <2>1. \A i, j \in 1 .. n + 1 : q[i] = q[j] => i = j
    BY <1>3 DEF Injective
  <2>2. \A i, j \in 1 .. n : q[i + 1] = q[j + 1] => i = j
    BY <1>4, <2>1
  <2>3. \A i \in 1 .. n : q[i + 1] # q[1]
    BY <1>4, <1>6, <2>1
  <2>4. \A i, j \in 1 .. n : r[i] = r[j] => i = j
    BY <1>3, <2>2
  <2>5. \A i \in 1 .. n : r[i] # Head(q)
    BY <1>3, <2>3
  <2>. QED
    BY <1>3, <2>4, <2>5 DEF Injective, SeqRange
<1>. QED
  BY <1>2, <1>7, <1>8

LEMMA PoolsInit == Init => PoolsConserved
<1> SUFFICES ASSUME Init PROVE PoolsConserved
  OBVIOUS
<1> USE KernelAssumption
<1>1. Live = {IdleTid} /\ IdleTid = 1 /\ block[IdleTid] = 0
  BY TableFacts DEF Init, Live, IdleTid
<1>2. DOMAIN freeTid = 1 .. MAX_TASKS - 1 /\ \A i \in 1 .. MAX_TASKS - 1 : freeTid[i] = i + 1
  BY DEF Init
<1>3. DOMAIN freeBlocks = 1 .. MAX_TASKS - 1 /\ \A i \in 1 .. MAX_TASKS - 1 : freeBlocks[i] = i
  BY DEF Init
<1>4. SeqRange(freeTid) = 2 .. MAX_TASKS
  <2>1. \A t \in 2 .. MAX_TASKS : t - 1 \in 1 .. MAX_TASKS - 1 /\ (t - 1) + 1 = t
    OBVIOUS
  <2>2. \A t \in 2 .. MAX_TASKS : freeTid[t - 1] = t
    BY <1>2, <2>1
  <2>3. \A i \in 1 .. MAX_TASKS - 1 : freeTid[i] \in 2 .. MAX_TASKS
    BY <1>2
  <2>. QED
    <3>1. \A t \in 2 .. MAX_TASKS : t \in SeqRange(freeTid)
      <4> TAKE t \in 2 .. MAX_TASKS
      <4>1. t - 1 \in DOMAIN freeTid /\ freeTid[t - 1] = t
        BY <1>2, <2>1, <2>2
      <4>. QED
        BY <4>1 DEF SeqRange
    <3>2. \A t \in SeqRange(freeTid) : t \in 2 .. MAX_TASKS
      BY <1>2, <2>3 DEF SeqRange
    <3>. QED
      BY <3>1, <3>2
<1>5. SeqRange(freeBlocks) = 1 .. MAX_TASKS - 1
  BY <1>3 DEF SeqRange
<1>6. Injective(freeTid) /\ Injective(freeBlocks)
  BY <1>2, <1>3 DEF Injective
<1>7. {block[t] : t \in Live} = {0}
  BY <1>1
<1>8. 1 .. MAX_TASKS = {1} \cup 2 .. MAX_TASKS /\ 0 .. MAX_TASKS - 1 = {0} \cup 1 .. MAX_TASKS - 1
  OBVIOUS
<1>. QED
  BY <1>1, <1>4, <1>5, <1>6, <1>7, <1>8 DEF PoolsConserved, Tids

LEMMA PoolsExit ==
  ASSUME KernelInv, PoolsConserved, Exit
  PROVE  PoolsConserved'
<1>1. Trap
  BY DEF Exit, Syscall
<1>2. /\ running \in Table /\ running \in Tids /\ state[running] = "ACTIVE"
      /\ block[running] \in 0 .. MAX_TASKS - 1
  BY <1>1, CallerFacts
<1>3. /\ state' = [state EXCEPT ![running] = "EXITED"]
      /\ freeTid' = Append(freeTid, running)
      /\ freeBlocks' = Append(freeBlocks, block[running])
      /\ block' = block
  BY DEF Exit, LeaveActiveTask
<1>4. running \in Live /\ Live' = Live \ {running}
  BY <1>2, <1>3 DEF Live, KernelInv, TypeOK
<1>5. freeTid \in Seq(Tids) /\ freeBlocks \in Seq(0 .. MAX_TASKS - 1)
  BY DEF KernelInv, TypeOK
<1>6. running \notin SeqRange(freeTid) /\ block[running] \notin SeqRange(freeBlocks)
  BY <1>4 DEF PoolsConserved
<1>7. /\ SeqRange(freeTid') = SeqRange(freeTid) \cup {running}
      /\ Injective(freeTid')
  BY <1>2, <1>3, <1>5, <1>6, AppendRange DEF PoolsConserved
<1>8. /\ SeqRange(freeBlocks') = SeqRange(freeBlocks) \cup {block[running]}
      /\ Injective(freeBlocks')
  <2>0. PICK S : S = 0 .. MAX_TASKS - 1
    OBVIOUS
  <2>1. PICK b \in S : b = block[running]
    BY <1>2, <2>0
  <2>4. freeBlocks \in Seq(S)
    BY <1>5, <2>0
  <2>5. SeqRange(Append(freeBlocks, b)) = SeqRange(freeBlocks) \cup {b}
    BY <2>1, <2>4, AppendRange
  <2>2. freeBlocks' = Append(freeBlocks, b) /\ b \notin SeqRange(freeBlocks)
    BY <1>3, <1>6, <2>1
  <2>3. Injective(freeBlocks)
    BY DEF PoolsConserved
  <2>6. Injective(Append(freeBlocks, b))
    BY <2>1, <2>2, <2>3, <2>4, AppendRange
  <2>. QED
    BY <2>1, <2>2, <2>5, <2>6
<1>9. {block'[t] : t \in Live'} = {block[t] : t \in Live} \ {block[running]}
  BY <1>3, <1>4 DEF PoolsConserved
<1>10. \A t, u \in Live' : block'[t] = block'[u] => t = u
  BY <1>3, <1>4 DEF PoolsConserved
<1>11. Live' \cap SeqRange(freeTid') = {} /\ Live' \cup SeqRange(freeTid') = Tids
  BY <1>4, <1>7 DEF PoolsConserved
<1>12. /\ {block'[t] : t \in Live'} \cap SeqRange(freeBlocks') = {}
       /\ {block'[t] : t \in Live'} \cup SeqRange(freeBlocks') = 0 .. MAX_TASKS - 1
  <2>1. block[running] \in {block[t] : t \in Live}
    BY <1>4
  <2>. QED
    BY <1>8, <1>9, <2>1 DEF PoolsConserved
<1>13. Tids' = Tids /\ (0 .. MAX_TASKS - 1)' = 0 .. MAX_TASKS - 1
  BY DEF Tids
<1>. QED
  BY <1>7, <1>8, <1>10, <1>11, <1>12, <1>13 DEF PoolsConserved

LEMMA PoolsCreate ==
  ASSUME KernelInv, PoolsConserved, NEW p \in CreateArgs, Create(p)
  PROVE  PoolsConserved'
<1>1. PICK outcome \in CreateOutcomes(p) :
        IF outcome # "up" THEN Panic(outcome)
        ELSE LET tid == Head(freeTid) IN
          /\ RepushActiveTask([state EXCEPT ![tid] = "READY"], Pushed(ready, tid))
          /\ priority' = [priority EXCEPT ![tid] = p]
          /\ block' = [block EXCEPT ![tid] = Head(freeBlocks)]
          /\ x0' = [x0 EXCEPT ![tid] = NoTask]
          /\ freeTid' = Tail(freeTid)
          /\ freeBlocks' = Tail(freeBlocks)
          /\ UNCHANGED <<inbox, eventVars, fate>>
  BY DEF Create
<1>2. CASE outcome # "up"
  BY <1>1, <1>2 DEF Panic, PoolsConserved, Live
<1>3. CASE outcome = "up"
  <2>1. PICK tid : tid = Head(freeTid)
    OBVIOUS
  <2>2. PICK b : b = Head(freeBlocks)
    OBVIOUS
  <2>3. /\ RepushActiveTask([state EXCEPT ![tid] = "READY"], Pushed(ready, tid))
        /\ block' = [block EXCEPT ![tid] = b]
        /\ freeTid' = Tail(freeTid)
        /\ freeBlocks' = Tail(freeBlocks)
    BY <1>1, <1>3, <2>1, <2>2
  <2>4. tid \in Table /\ freeTid # <<>> /\ freeBlocks # <<>>
    BY <1>3, <2>1, CreateUp
  <2>5. freeTid \in Seq(Tids) /\ freeBlocks \in Seq(0 .. MAX_TASKS - 1)
    BY DEF KernelInv, TypeOK
  <2>6. /\ SeqRange(freeTid) = SeqRange(freeTid') \cup {tid}
        /\ Injective(freeTid') /\ tid \notin SeqRange(freeTid')
    BY <2>1, <2>3, <2>4, <2>5, TailRange DEF PoolsConserved
  <2>7. /\ SeqRange(freeBlocks) = SeqRange(freeBlocks') \cup {b}
        /\ Injective(freeBlocks') /\ b \notin SeqRange(freeBlocks')
    BY <2>2, <2>3, <2>4, <2>5, TailRange DEF PoolsConserved
  <2>8. running \in Table /\ running \in Live
    BY CallerFacts DEF Create, Live
  <2>9. tid \notin Live /\ Live' = Live \cup {tid}
    <3>1. tid \notin Live
      BY <2>6 DEF PoolsConserved
    <3>2. PICK st \in [Table -> RunState] :
            /\ RepushActiveTask(st, Pushed(ready, tid))
            /\ \A t \in Table : st[t] = IF t = tid THEN "READY" ELSE state[t]
      <4>1. state \in [Table -> RunState] /\ "READY" \in RunState
        BY DEF KernelInv, TypeOK, RunState
      <4>2. /\ [state EXCEPT ![tid] = "READY"] \in [Table -> RunState]
            /\ \A t \in Table : [state EXCEPT ![tid] = "READY"][t]
                                  = IF t = tid THEN "READY" ELSE state[t]
        BY <2>4, <4>1, ExceptStates
      <4>. QED
        BY <2>3, <4>2
    <3>3. \A t \in Table : state'[t] = IF t = running THEN "READY" ELSE st[t]
      BY <2>8, <3>2, RepushStates
    <3>. QED
      BY <2>4, <2>8, <3>1, <3>2, <3>3 DEF Live
  <2>10. /\ \A t \in Live : block'[t] = block[t]
         /\ block'[tid] = b
    BY <2>3, <2>4, <2>9 DEF Live, KernelInv, TypeOK
  <2>11. {block'[t] : t \in Live'} = {block[t] : t \in Live} \cup {b}
    BY <2>9, <2>10
  <2>12. b \notin {block[t] : t \in Live}
    BY <2>7 DEF PoolsConserved
  <2>13. \A t, u \in Live' : block'[t] = block'[u] => t = u
    BY <2>9, <2>10, <2>12 DEF PoolsConserved
  <2>14. Live' \cap SeqRange(freeTid') = {} /\ Live' \cup SeqRange(freeTid') = Tids
    BY <2>6, <2>9 DEF PoolsConserved
  <2>15. /\ {block'[t] : t \in Live'} \cap SeqRange(freeBlocks') = {}
         /\ {block'[t] : t \in Live'} \cup SeqRange(freeBlocks') = 0 .. MAX_TASKS - 1
    BY <2>7, <2>11, SMTT(30) DEF PoolsConserved
  <2>16. Tids' = Tids /\ (0 .. MAX_TASKS - 1)' = 0 .. MAX_TASKS - 1
    BY DEF Tids
  <2>. QED
    BY <2>6, <2>7, <2>13, <2>14, <2>15, <2>16 DEF PoolsConserved
<1>. QED
  BY <1>2, <1>3

\* Nothing leaks, nothing is freed twice, no two tasks share a stack.
THEOREM Conservation == Spec => []PoolsConserved
<1>1. Init => PoolsConserved
  BY PoolsInit
<1>2. KernelInv /\ PoolsConserved /\ [Next]_vars => PoolsConserved'
  <2> SUFFICES ASSUME KernelInv, PoolsConserved, [Next]_vars
               PROVE  PoolsConserved'
    OBVIOUS
  <2>1. CASE Exit
    BY <2>1, PoolsExit
  <2>2. CASE \E p \in CreateArgs : Create(p)
    BY <2>2, PoolsCreate
  <2>3. CASE ~Exit /\ \A p \in CreateArgs : ~Create(p)
    <3>1. UNCHANGED <<block, freeTid, freeBlocks>> /\ Live' = Live
      BY <2>3, LiveStep
    <3>. QED
      BY <3>1 DEF PoolsConserved, SeqRange, Injective
  <2>. QED
    BY <2>1, <2>2, <2>3
<1>. QED
  BY <1>1, <1>2, Invariance, PTL DEF Spec

-----------------------------------------------------------------------------
(* No caller is stranded.                                                  *)

\* A handler that lets nobody become ACTIVE, and whose caller is not ACTIVE any
\* more, strands nobody; neither does one that leaves states and caller alone.
LEMMA NobodyStranded ==
  ASSUME \/ \A t \in Table : state'[t] = "ACTIVE" => state[t] = "ACTIVE" /\ t # running
         \/ UNCHANGED <<state, running>>
  PROVE  Stranded' \subseteq Stranded
  BY DEF Stranded

LEMMA StrandStep ==
  KernelInv /\ Served => Stranded' \subseteq Stranded
<1> SUFFICES ASSUME KernelInv, Served PROVE Stranded' \subseteq Stranded
  OBVIOUS
<1>1. state \in [Table -> RunState]
  BY DEF KernelInv, TypeOK
<1>2. Trap => running \in Table /\ state[running] = "ACTIVE"
  BY CallerFacts
<1>3. ASSUME Trap, NEW new \in RunState, new # "ACTIVE", NEW rq,
             LeaveActiveTask([state EXCEPT ![running] = new], rq)
      PROVE  Stranded' \subseteq Stranded
  <2>1. \A t \in Table : state'[t] = IF t = running THEN new ELSE state[t]
    BY <1>1, <1>2, <1>3, ExceptStates DEF LeaveActiveTask
  <2>. QED
    BY <1>3, <2>1, NobodyStranded
<1>4. ASSUME Trap, NEW st \in [Table -> RunState], NEW rq, RepushActiveTask(st, rq),
             \A t \in Table : st[t] = "ACTIVE" => state[t] = "ACTIVE"
      PROVE  Stranded' \subseteq Stranded
  <2>1. \A t \in Table : state'[t] = IF t = running THEN "READY" ELSE st[t]
    BY <1>2, <1>4, RepushStates
  <2>. QED
    BY <1>4, <2>1, NobodyStranded
<1>5. CASE Dispatch
  <2>1. CASE UNCHANGED <<state, running>>
    BY <2>1, NobodyStranded
  <2>2. CASE \E t \in MostUrgent : state' = [state EXCEPT ![t] = "ACTIVE"] /\ running' = t
    <3>1. PICK t \in MostUrgent : state' = [state EXCEPT ![t] = "ACTIVE"] /\ running' = t
      BY <2>2
    <3>2. running \notin Table
      BY <1>5, TableFacts DEF Dispatch
    <3>. QED
      BY <1>1, <3>1, <3>2 DEF Stranded
  <2>. QED
    BY <1>5, <2>1, <2>2 DEF Dispatch, Panic
<1>6. ASSUME NEW p \in CreateArgs, Create(p) PROVE Stranded' \subseteq Stranded
  <2>1. PICK outcome \in CreateOutcomes(p) :
          \/ UNCHANGED <<state, running>>
          \/ /\ outcome = "up"
             /\ \E rq : RepushActiveTask([state EXCEPT ![Head(freeTid)] = "READY"], rq)
    BY <1>6 DEF Create, Panic
  <2>2. CASE UNCHANGED <<state, running>>
    BY <2>2, NobodyStranded
  <2>3. CASE outcome = "up" /\ \E rq : RepushActiveTask([state EXCEPT ![Head(freeTid)] = "READY"], rq)
    <3>1. PICK tid \in Table : tid = Head(freeTid)
      BY <2>3, CreateUp
    <3>2. /\ [state EXCEPT ![tid] = "READY"] \in [Table -> RunState]
          /\ \A t \in Table : [state EXCEPT ![tid] = "READY"][t] = IF t = tid THEN "READY" ELSE state[t]
      BY <1>1, ExceptStates DEF RunState
    <3>. QED
      BY <1>4, <1>6, <2>3, <3>1, <3>2 DEF Create
  <2>. QED
    BY <2>1, <2>2, <2>3
<1>7. CASE Exit
  BY <1>3, <1>7 DEF Exit, Syscall, RunState
<1>8. CASE Query \/ Yield
  BY <1>1, <1>4, <1>8 DEF Query, Yield, Syscall
<1>9. CASE Abort \/ Halted
  BY <1>9, NobodyStranded DEF Abort, Panic, Halted, vars
<1>10. ASSUME NEW r \in Table, SendQueued(r) PROVE Stranded' \subseteq Stranded
  BY <1>3, <1>10 DEF SendQueued, Syscall, RunState
<1>11. ASSUME NEW r \in Table, SendDirect(r) PROVE Stranded' \subseteq Stranded
  <2>1. /\ state' = [state EXCEPT ![r] = "READY", ![running] = "REPLY_BLOCKED"]
        /\ running \in Table
    BY <1>2, <1>11 DEF SendDirect, LeaveActiveTask, Syscall
  <2>2. \A t \in Table : state'[t] = "ACTIVE" => state[t] = "ACTIVE" /\ t # running
    BY <1>1, <2>1
  <2>. QED
    BY <2>2, NobodyStranded
<1>12. CASE ReceiveWaits
  BY <1>3, <1>12 DEF ReceiveWaits, Syscall, RunState
<1>13. CASE ReceiveTakes
  <2>1. Trap /\ running \in Table /\ inbox[running] \in Seq(Table) /\ inbox[running] # <<>>
    BY <1>2, <1>13 DEF ReceiveTakes, Syscall, KernelInv, TypeOK
  <2>2. PICK s \in Table : s = Head(inbox[running])
    BY <2>1
  <2>3. state[s] = "SEND_BLOCKED"
    <3>1. 1 \in DOMAIN inbox[running] /\ s = inbox[running][1]
      BY <2>1, <2>2
    <3>. QED
      BY <2>1, <3>1 DEF KernelInv, EveryTaskInItsQueue, SendersInInbox
  <2>4. CASE UNCHANGED <<state, running>>
    BY <2>4, NobodyStranded
  <2>5. CASE RepushActiveTask([state EXCEPT ![s] = "REPLY_BLOCKED"], ready)
    <3>1. /\ [state EXCEPT ![s] = "REPLY_BLOCKED"] \in [Table -> RunState]
          /\ \A t \in Table : [state EXCEPT ![s] = "REPLY_BLOCKED"][t]
                              = IF t = s THEN "REPLY_BLOCKED" ELSE state[t]
      BY <1>1, ExceptStates DEF RunState
    <3>. QED
      BY <1>4, <2>1, <2>5, <3>1
  <2>. QED
    BY <1>13, <2>2, <2>3, <2>4, <2>5 DEF ReceiveTakes, Panic
<1>14. ASSUME NEW s \in Table, Reply(s) PROVE Stranded' \subseteq Stranded
  <2>1. /\ [state EXCEPT ![s] = "READY"] \in [Table -> RunState]
        /\ \A t \in Table : [state EXCEPT ![s] = "READY"][t] = IF t = s THEN "READY" ELSE state[t]
    BY <1>1, ExceptStates DEF RunState
  <2>. QED
    BY <1>4, <1>14, <2>1 DEF Reply, Syscall
<1>15. ASSUME NEW e \in UsedEvents, AwaitEvent(e) PROVE Stranded' \subseteq Stranded
  BY <1>3, <1>15 DEF AwaitEvent, Syscall, RunState
<1>16. ASSUME Trap, NEW fired \in SUBSET InterruptEvents, WakeAll(fired)
       PROVE  Stranded' \subseteq Stranded
  <2>1. PICK woken : woken = UNION {eventQueue[e] : e \in fired}
    OBVIOUS
  <2>2. PICK st \in [Table -> RunState] :
          /\ \E rq : RepushActiveTask(st, rq)
          /\ \A t \in Table : st[t] = IF t \in woken THEN "READY" ELSE state[t]
    <3>1. [t \in Table |-> IF t \in woken THEN "READY" ELSE state[t]] \in [Table -> RunState]
      BY <1>1 DEF RunState
    <3>. QED
      BY <1>16, <2>1, <3>1 DEF WakeAll
  <2>. QED
    BY <1>4, <1>16, <2>2
<1>17. CASE TimerInterrupt
  BY <1>16, <1>17 DEF TimerInterrupt, InterruptEvents, Armable
<1>18. ASSUME NEW pending \in SUBSET MaskedUart,
              NEW cts \in {{}} \cup {{e} : e \in CtsEvents}, UartInterrupt(pending, cts)
       PROVE  Stranded' \subseteq Stranded
  <2>1. pending \cup cts \in SUBSET InterruptEvents
    BY DEF InterruptEvents, Armable, CtsEvents
  <2>. QED
    BY <1>16, <1>18, <2>1 DEF UartInterrupt
<1>. QED
  BY <1>5, <1>6, <1>7, <1>8, <1>9, <1>10, <1>11, <1>12, <1>13, <1>14, <1>15, <1>17, <1>18
  DEF Served

\* The caller of every handler runs again, waits in a queue, or has exited,
\* unless it replied to a task that was not waiting.
THEOREM CallersKept == Spec => OnlyIdleReplyStrands
<1>1. KernelInv /\ [Next]_vars => [Served => Stranded' \subseteq Stranded]_vars
  BY StrandStep
<1>. QED
  BY <1>1, Invariance, PTL DEF Spec, OnlyIdleReplyStrands

-----------------------------------------------------------------------------
(* Kernel implements Rendezvous for every size of the task table: each     *)
(* handler is one step of the rendezvous, or none.                         *)

\* Only a task blocked in Send addresses a peer.  Without this a new task
\* would be born with the message of a dead one.
PeerOfSender == \A t \in Table : x0[t] # NoTask => state[t] = "SEND_BLOCKED"

Phases  == [t \in Table |-> PhaseOf(t)]
Waiting == {t \in Table : state[t] = "RECEIVE_BLOCKED"}

\* The three states that the rendezvous can tell apart from all others.
Visible == {"SEND_BLOCKED", "REPLY_BLOCKED", "RECEIVE_BLOCKED"}

\* A step that leaves the visible states alone is a stutter.
LEMMA Stutter ==
  ASSUME PeerOfSender, UNCHANGED x0,
         \A t \in Table : state'[t] = state[t]
                          \/ (state[t] \notin Visible /\ state'[t] \notin Visible)
  PROVE  PeerOfSender' /\ UNCHANGED SRR!vars
<1>1. \A t \in Table : PhaseOf(t)' = PhaseOf(t)
  BY DEF PhaseOf, Visible
<1>2. Phases' = Phases
  BY <1>1 DEF Phases
<1>3. Waiting' = Waiting
  BY DEF Waiting, Visible
<1>4. PeerOfSender'
  BY DEF PeerOfSender, Visible
<1>. QED
  BY <1>2, <1>3, <1>4 DEF SRR!vars, Phases, Waiting

\* The caller of a system call is neither blocked nor listening.
LEMMA CallerFree ==
  ASSUME KernelInv, Syscall
  PROVE  /\ running \in Table /\ state[running] = "ACTIVE"
         /\ Phases[running] = "free" /\ running \notin Waiting
  BY CallerFacts, SyscallFacts DEF Phases, PhaseOf, Waiting

LEMMA OfferStep ==
  ASSUME KernelInv, PeerOfSender, NEW r \in Table, SendQueued(r)
  PROVE  PeerOfSender' /\ SRR!Offer(running, r)
<1>1. /\ running \in Table /\ state[running] = "ACTIVE"
      /\ Phases[running] = "free" /\ running \notin Waiting
  BY CallerFree DEF SendQueued
<1>2. /\ \A t \in Table : state'[t] = IF t = running THEN "SEND_BLOCKED" ELSE state[t]
      /\ x0' = [x0 EXCEPT ![running] = r]
      /\ x0 \in [Table -> Table \cup {NoTask}]
      /\ r \notin Waiting
  BY <1>1 DEF SendQueued, LeaveActiveTask, KernelInv, TypeOK, Waiting
<1>3. Phases' = [Phases EXCEPT ![running] = "offering"]
  BY <1>1, <1>2 DEF Phases, PhaseOf
<1>4. Waiting' = Waiting
  BY <1>1, <1>2 DEF Waiting
<1>5. PeerOfSender'
  BY <1>1, <1>2 DEF PeerOfSender
<1>. QED
  BY <1>1, <1>2, <1>3, <1>4, <1>5 DEF SRR!Offer, Phases, Waiting

LEMMA HandStep ==
  ASSUME KernelInv, PeerOfSender, NEW r \in Table, SendDirect(r)
  PROVE  PeerOfSender' /\ SRR!Hand(running, r)
<1>1. /\ running \in Table /\ state[running] = "ACTIVE"
      /\ Phases[running] = "free" /\ running \notin Waiting
  BY CallerFree DEF SendDirect
<1>2. /\ state[r] = "RECEIVE_BLOCKED" /\ r # running
      /\ \A t \in Table : state'[t] = IF t = running THEN "REPLY_BLOCKED"
                                      ELSE IF t = r THEN "READY" ELSE state[t]
      /\ x0' = x0
  BY <1>1 DEF SendDirect, LeaveActiveTask, KernelInv, TypeOK
<1>3. Phases' = [Phases EXCEPT ![running] = "awaiting"]
  BY <1>1, <1>2 DEF Phases, PhaseOf
<1>4. Waiting' = Waiting \ {r} /\ r \in Waiting
  BY <1>1, <1>2 DEF Waiting
<1>5. PeerOfSender'
  BY <1>1, <1>2 DEF PeerOfSender
<1>. QED
  BY <1>1, <1>2, <1>3, <1>4, <1>5 DEF SRR!Hand, Phases, Waiting

LEMMA ListenStep ==
  ASSUME KernelInv, PeerOfSender, ReceiveWaits
  PROVE  PeerOfSender' /\ SRR!Listen(running)
<1>1. /\ running \in Table /\ state[running] = "ACTIVE"
      /\ Phases[running] = "free" /\ running \notin Waiting
  BY CallerFree DEF ReceiveWaits
<1>2. /\ \A t \in Table : state'[t] = IF t = running THEN "RECEIVE_BLOCKED" ELSE state[t]
      /\ x0' = x0
      /\ inbox[running] = <<>>
  BY <1>1 DEF ReceiveWaits, LeaveActiveTask, KernelInv, TypeOK
<1>3. \A s \in Table : state[s] = "SEND_BLOCKED" => x0[s] # running
  <2> SUFFICES ASSUME NEW s \in Table, state[s] = "SEND_BLOCKED" PROVE x0[s] # running
    OBVIOUS
  <2>1. PICK u \in Table : \E i \in DOMAIN inbox[u] : inbox[u][i] = s
    BY DEF KernelInv, EveryTaskInItsQueue, SendersInInbox
  <2>2. u # running
    BY <1>2, <2>1
  <2>3. x0[s] = u
    BY <2>1 DEF KernelInv, EveryTaskInItsQueue, SendersInInbox
  <2>. QED
    BY <2>2, <2>3
<1>4. \A s \in Table : Phases[s] = "offering" => x0[s] # running
  BY <1>3 DEF Phases, PhaseOf
<1>5. Phases' = Phases
  BY <1>1, <1>2 DEF Phases, PhaseOf
<1>6. Waiting' = Waiting \cup {running}
  BY <1>1, <1>2 DEF Waiting
<1>7. PeerOfSender'
  BY <1>1, <1>2 DEF PeerOfSender
<1>. QED
  BY <1>1, <1>2, <1>4, <1>5, <1>6, <1>7 DEF SRR!Listen, Phases, Waiting

LEMMA TakeStep ==
  ASSUME KernelInv, PeerOfSender, ReceiveTakes
  PROVE  PeerOfSender' /\ \E s \in Table : SRR!Take(running, s)
<1>1. /\ running \in Table /\ state[running] = "ACTIVE"
      /\ Phases[running] = "free" /\ running \notin Waiting
  BY CallerFree DEF ReceiveTakes
<1>2. inbox[running] \in Seq(Table) /\ inbox[running] # <<>>
  BY <1>1 DEF ReceiveTakes, KernelInv, TypeOK
<1>3. PICK s \in Table : s = Head(inbox[running])
  BY <1>2
<1>4. state[s] = "SEND_BLOCKED" /\ x0[s] = running /\ s # running
  <2>1. 1 \in DOMAIN inbox[running] /\ inbox[running][1] = s
    BY <1>2, <1>3, TailFacts
  <2>. QED
    BY <1>1, <2>1 DEF KernelInv, EveryTaskInItsQueue, SendersInInbox
<1>5. /\ RepushActiveTask([state EXCEPT ![s] = "REPLY_BLOCKED"], ready)
      /\ x0' = [x0 EXCEPT ![s] = NoTask]
  BY <1>3, <1>4 DEF ReceiveTakes
<1>6. \A t \in Table : state'[t] = IF t = running THEN "READY"
                                   ELSE IF t = s THEN "REPLY_BLOCKED" ELSE state[t]
  <2>1. state \in [Table -> RunState] /\ "REPLY_BLOCKED" \in RunState
    BY DEF KernelInv, TypeOK, RunState
  <2>2. /\ [state EXCEPT ![s] = "REPLY_BLOCKED"] \in [Table -> RunState]
        /\ \A t \in Table : [state EXCEPT ![s] = "REPLY_BLOCKED"][t]
                              = IF t = s THEN "REPLY_BLOCKED" ELSE state[t]
    BY <2>1, ExceptStates
  <2>. QED
    BY <1>1, <1>5, <2>2, RepushStates
<1>7. x0 \in [Table -> Table \cup {NoTask}]
  BY DEF KernelInv, TypeOK
<1>8. Phases[s] = "offering"
  BY <1>4 DEF Phases, PhaseOf
<1>9. Phases' = [Phases EXCEPT ![s] = "awaiting"]
  BY <1>1, <1>4, <1>6 DEF Phases, PhaseOf
<1>10. Waiting' = Waiting
  BY <1>1, <1>4, <1>6 DEF Waiting
<1>11. PeerOfSender'
  BY <1>1, <1>4, <1>5, <1>6, <1>7 DEF PeerOfSender
<1>12. SRR!Take(running, s)
  BY <1>1, <1>4, <1>5, <1>8, <1>9, <1>10 DEF SRR!Take, Phases, Waiting
<1>. QED
  BY <1>11, <1>12

LEMMA AnswerStep ==
  ASSUME KernelInv, PeerOfSender, NEW s \in Table, Reply(s)
  PROVE  PeerOfSender' /\ SRR!Answer(running, s)
<1>1. /\ running \in Table /\ state[running] = "ACTIVE"
      /\ Phases[running] = "free" /\ running \notin Waiting
  BY CallerFree DEF Reply
<1>2. /\ RepushActiveTask([state EXCEPT ![s] = "READY"], Pushed(ready, s))
      /\ state[s] = "REPLY_BLOCKED" /\ x0' = x0
  BY DEF Reply
<1>3. \A t \in Table : state'[t] = IF t = running \/ t = s THEN "READY" ELSE state[t]
  <2>1. state \in [Table -> RunState] /\ "READY" \in RunState
    BY DEF KernelInv, TypeOK, RunState
  <2>2. /\ [state EXCEPT ![s] = "READY"] \in [Table -> RunState]
        /\ \A t \in Table : [state EXCEPT ![s] = "READY"][t]
                              = IF t = s THEN "READY" ELSE state[t]
    BY <2>1, ExceptStates
  <2>. QED
    BY <1>1, <1>2, <2>2, RepushStates
<1>4. Phases[s] = "awaiting" /\ Phases' = [Phases EXCEPT ![s] = "free"]
  BY <1>1, <1>2, <1>3 DEF Phases, PhaseOf
<1>5. Waiting' = Waiting
  BY <1>1, <1>2, <1>3 DEF Waiting
<1>6. PeerOfSender'
  BY <1>1, <1>2, <1>3 DEF PeerOfSender
<1>. QED
  BY <1>1, <1>2, <1>4, <1>5, <1>6 DEF SRR!Answer, Phases, Waiting

\* The birth of a task is invisible: its descriptor addressed nobody.
LEMMA BirthStep ==
  ASSUME KernelInv, PeerOfSender, NEW p \in CreateArgs, Create(p)
  PROVE  PeerOfSender' /\ UNCHANGED SRR!vars
<1>1. PICK outcome \in CreateOutcomes(p) :
        IF outcome # "up" THEN Panic(outcome)
        ELSE LET tid == Head(freeTid) IN
          /\ RepushActiveTask([state EXCEPT ![tid] = "READY"], Pushed(ready, tid))
          /\ priority' = [priority EXCEPT ![tid] = p]
          /\ block' = [block EXCEPT ![tid] = Head(freeBlocks)]
          /\ x0' = [x0 EXCEPT ![tid] = NoTask]
          /\ freeTid' = Tail(freeTid)
          /\ freeBlocks' = Tail(freeBlocks)
          /\ UNCHANGED <<inbox, eventVars, fate>>
  BY DEF Create
<1>2. CASE outcome # "up"
  BY <1>1, <1>2, Stutter DEF Panic
<1>3. CASE outcome = "up"
  <2>1. PICK tid \in Table : tid = Head(freeTid)
    BY <1>3, CreateUp
  <2>2. /\ RepushActiveTask([state EXCEPT ![tid] = "READY"], Pushed(ready, tid))
        /\ x0' = [x0 EXCEPT ![tid] = NoTask]
        /\ block' = [block EXCEPT ![tid] = Head(freeBlocks)]
        /\ freeTid # <<>> /\ freeBlocks # <<>>
    BY <1>1, <1>3, <2>1, CreateUp
  <2>3. running \in Table /\ state[running] = "ACTIVE"
    BY CallerFacts DEF Create
  <2>4. state[tid] = "EXITED"
    <3>1. freeTid \in Seq(Tids)
      BY DEF KernelInv, TypeOK
    <3>2. PICK k \in DOMAIN freeTid :
            /\ \A i \in 1 .. k : freeTid[i] = MAX_TASKS - k + i
            /\ \A t \in Table : block[t] # NoBlock <=> t \in 1 .. MAX_TASKS - k
      BY DEF KernelInv, TidsInOrder
    <3>3. 1 \in 1 .. k /\ k \in Int /\ tid = freeTid[1]
      BY <2>1, <2>2, <3>1, <3>2
    <3>4. tid = MAX_TASKS - k + 1
      BY <3>2, <3>3
    <3>5. block[tid] = NoBlock
      BY <3>2, <3>3, <3>4, KernelAssumption DEF KernelAssumption
    <3>. QED
      BY <3>5 DEF KernelInv, TidsInOrder, Live
  <2>5. state \in [Table -> RunState] /\ "READY" \in RunState
    BY DEF KernelInv, TypeOK, RunState
  <2>6. /\ [state EXCEPT ![tid] = "READY"] \in [Table -> RunState]
        /\ \A t \in Table : [state EXCEPT ![tid] = "READY"][t]
                              = IF t = tid THEN "READY" ELSE state[t]
    BY <2>5, ExceptStates
  <2>7. \A t \in Table : state'[t] = IF t = running \/ t = tid THEN "READY" ELSE state[t]
    BY <2>2, <2>3, <2>6, RepushStates
  <2>8. x0' = x0
    BY <2>2, <2>4 DEF PeerOfSender, KernelInv, TypeOK
  <2>. QED
    BY <2>3, <2>4, <2>7, <2>8, Stutter DEF Visible
<1>. QED
  BY <1>2, <1>3

\* Interrupts wake tasks that the rendezvous sees as free.
LEMMA WakeStutter ==
  ASSUME KernelInv, PeerOfSender, Trap, NEW fired \in SUBSET InterruptEvents,
         WakeAll(fired), UNCHANGED x0
  PROVE  PeerOfSender' /\ UNCHANGED SRR!vars
<1>1. running \in Table /\ state[running] = "ACTIVE"
  BY CallerFacts
<1>2. PICK woken : woken = UNION {eventQueue[e] : e \in fired}
  OBVIOUS
<1>3. \A t \in woken : t \in Table /\ state[t] = "EVENT_BLOCKED"
  BY <1>2 DEF KernelInv, TypeOK, EveryTaskInItsQueue, WaitersInQueue
<1>4. PICK st \in [Table -> RunState] :
        /\ \E rq : RepushActiveTask(st, rq)
        /\ \A t \in Table : st[t] = IF t \in woken THEN "READY" ELSE state[t]
  <2>1. [t \in Table |-> IF t \in woken THEN "READY" ELSE state[t]] \in [Table -> RunState]
    BY DEF KernelInv, TypeOK, RunState
  <2>. QED
    BY <1>2, <2>1 DEF WakeAll
<1>5. PICK rq : RepushActiveTask(st, rq)
  BY <1>4
<1>6. \A t \in Table : state'[t] = IF t = running THEN "READY" ELSE st[t]
  BY <1>1, <1>5, RepushStates
<1>. QED
  BY <1>1, <1>3, <1>4, <1>6, Stutter DEF Visible

LEMMA RendezvousStep ==
  KernelInv /\ PeerOfSender /\ [Next]_vars => PeerOfSender' /\ [SRR!Next]_SRR!vars
<1> SUFFICES ASSUME KernelInv, PeerOfSender, [Next]_vars
             PROVE  PeerOfSender' /\ [SRR!Next]_SRR!vars
  OBVIOUS
<1>0. state \in [Table -> RunState]
  BY DEF KernelInv, TypeOK
<1>1. CASE Dispatch
  <2>1. CASE UNCHANGED state
    BY <1>1, <2>1, Stutter DEF Dispatch, Panic
  <2>2. CASE \E t \in MostUrgent : state' = [state EXCEPT ![t] = "ACTIVE"]
    <3>1. PICK t \in MostUrgent : state' = [state EXCEPT ![t] = "ACTIVE"]
      BY <2>2
    <3>2. t \in Table /\ state[t] = "READY"
      BY <3>1 DEF MostUrgent, Queued, KernelInv, EveryTaskInItsQueue, ReadyOnce
    <3>3. UNCHANGED x0
      BY <1>1 DEF Dispatch, Panic
    <3>. QED
      BY <1>0, <3>1, <3>2, <3>3, Stutter DEF Visible
  <2>. QED
    BY <1>1, <2>1, <2>2 DEF Dispatch, Panic
<1>2. CASE \E p \in CreateArgs : Create(p)
  BY <1>2, BirthStep
<1>3. CASE Exit
  <2>1. running \in Table /\ state[running] = "ACTIVE"
    BY <1>3, CallerFacts DEF Exit, Syscall
  <2>. QED
    BY <1>0, <1>3, <2>1, Stutter DEF Exit, LeaveActiveTask, Visible
<1>4. CASE Query \/ Yield
  <2>1. running \in Table /\ state[running] = "ACTIVE"
    BY <1>4, CallerFacts DEF Query, Yield, Syscall
  <2>2. \A t \in Table : state'[t] = IF t = running THEN "READY" ELSE state[t]
    BY <1>0, <1>4, <2>1, RepushStates DEF Query, Yield
  <2>. QED
    BY <1>4, <2>1, <2>2, Stutter DEF Query, Yield, Visible
<1>5. CASE \E r \in Table : SendQueued(r) \/ SendDirect(r)
  <2>1. PICK r \in Table : SendQueued(r) \/ SendDirect(r)
    BY <1>5
  <2>2. running \in Table
    BY <2>1 DEF SendQueued, SendDirect, Syscall, Trap
  <2>. QED
    BY <2>1, <2>2, OfferStep, HandStep DEF SRR!Next
<1>6. CASE ReceiveWaits
  <2>1. running \in Table
    BY <1>6 DEF ReceiveWaits, Syscall, Trap
  <2>2. PeerOfSender' /\ SRR!Listen(running)
    BY <1>6, ListenStep
  <2>3. \E s, r \in Table : SRR!Listen(s)
    <3>1. PICK t \in Table : t = running
      BY <2>1
    <3>2. SRR!Listen(t)
      BY <2>2, <3>1 DEF SRR!Listen
    <3>. QED
      BY <3>1, <3>2
  <2>. QED
    BY <2>2, <2>3 DEF SRR!Next
<1>7. CASE ReceiveTakes
  <2>1. running \in Table
    BY <1>7 DEF ReceiveTakes, Syscall, Trap
  <2>2. PeerOfSender' /\ \E s \in Table : SRR!Take(running, s)
    BY <1>7, TakeStep
  <2>. QED
    BY <2>1, <2>2 DEF SRR!Next
<1>8. CASE \E s \in Table : Reply(s)
  <2>1. PICK s \in Table : Reply(s)
    BY <1>8
  <2>2. running \in Table
    BY <2>1 DEF Reply, Syscall, Trap
  <2>. QED
    BY <2>1, <2>2, AnswerStep DEF SRR!Next
<1>9. CASE \E s \in Table : ReplyToNobody(s)
  BY <1>9, Stutter DEF ReplyToNobody, LeaveActiveTask
<1>10. CASE \E e \in UsedEvents : AwaitEvent(e)
  <2>1. running \in Table /\ state[running] = "ACTIVE"
    BY <1>10, CallerFacts DEF AwaitEvent, Syscall
  <2>2. PICK e \in UsedEvents : AwaitEvent(e)
    BY <1>10
  <2>3. /\ \A t \in Table : state'[t] = IF t = running THEN "EVENT_BLOCKED" ELSE state[t]
        /\ x0' = x0
    BY <1>0, <2>1, <2>2 DEF AwaitEvent, LeaveActiveTask
  <2>. QED
    BY <2>1, <2>3, Stutter DEF Visible
<1>11. CASE TimerInterrupt
  <2>1. {"TIMER_TICK"} \in SUBSET InterruptEvents
    BY DEF InterruptEvents, Armable
  <2>2. Trap /\ WakeAll({"TIMER_TICK"}) /\ UNCHANGED x0
    BY <1>11 DEF TimerInterrupt
  <2>. QED
    BY <2>1, <2>2, WakeStutter
<1>12. CASE \E pending \in SUBSET MaskedUart :
              \E cts \in {{}} \cup {{e} : e \in CtsEvents} : UartInterrupt(pending, cts)
  <2>1. PICK pending \in SUBSET MaskedUart, cts \in {{}} \cup {{e} : e \in CtsEvents} :
             UartInterrupt(pending, cts)
    BY <1>12
  <2>2. pending \cup cts \in SUBSET InterruptEvents
    BY DEF InterruptEvents, Armable, CtsEvents
  <2>3. Trap /\ WakeAll(pending \cup cts) /\ UNCHANGED x0
    BY <2>1 DEF UartInterrupt
  <2>. QED
    BY <2>2, <2>3, WakeStutter
<1>13. CASE Abort \/ Halted \/ UNCHANGED vars
  BY <1>13, Stutter DEF Abort, Panic, Halted, vars
<1>. QED
  BY <1>1, <1>2, <1>3, <1>4, <1>5, <1>6, <1>7, <1>8, <1>9, <1>10, <1>11, <1>12, <1>13
  DEF Next, Served

\* The rendezvous is implemented.
THEOREM RendezvousImplemented == Spec => ImplementsRendezvous
<1>1. Init => PeerOfSender /\ SRR!Init
  <2> SUFFICES ASSUME Init PROVE PeerOfSender /\ SRR!Init
    OBVIOUS
  <2>1. /\ \A t \in Table : state[t] \in {"READY", "EXITED"}
        /\ x0 = [t \in Table |-> NoTask]
    BY DEF Init
  <2>2. Phases = [t \in Table |-> "free"] /\ Waiting = {}
    BY <2>1 DEF Phases, PhaseOf, Waiting
  <2>. QED
    BY <2>1, <2>2 DEF PeerOfSender, SRR!Init, Phases, Waiting
<1>2. KernelInv /\ PeerOfSender /\ [Next]_vars => PeerOfSender' /\ [SRR!Next]_SRR!vars
  BY RendezvousStep
<1>. QED
  BY <1>1, <1>2, Invariance, PTL DEF Spec, ImplementsRendezvous, SRR!Spec
=============================================================================
