----------------------------- MODULE KernelQueue -----------------------------
(***************************************************************************)
(* The queue of src/middlewares/FreeRTOS-Kernel/queue.c with what it uses  *)
(* of tasks.c: xQueueGenericSend and xQueueReceive with their blocking     *)
(* paths, xQueueGenericSendFromISR, the queue lock, the two event lists,   *)
(* suspending and resuming the scheduler, the pending ready list, the      *)
(* delayed lists and the tick with its overflow.                           *)
(*                                                                         *)
(* One step is one critical section, or what a task does with the          *)
(* scheduler suspended between two of them.  Interrupts come between any   *)
(* two steps.  All tasks have one priority and share the processor by time *)
(* slices: any ready task may be the one that runs.  A tick comes every    *)
(* millisecond, so at most one is pended while the scheduler is suspended  *)
(* for the few instructions of a queue function.                           *)
(***************************************************************************)
EXTENDS Integers, Sequences, FiniteSets

CONSTANTS Senders, Receivers, \* tasks that call xQueueSend, xQueueReceive
          Length,             \* uxLength
          Numbers,            \* items are told apart modulo this number
          Wrap,               \* TickType_t counts modulo this number,
          OverWrap,           \*   xNumOfOverflows modulo this one
          Waits               \* Waits[t]: the values of xTicksToWait t gives

Tasks == Senders \cup Receivers
MaxDelay == Wrap - 1                \* portMAX_DELAY: no time-out

ASSUME TasksAssumption == Senders \cap Receivers = {} /\ IsFiniteSet(Tasks)
ASSUME LengthAssumption == Length \in Nat \ {0} /\ Numbers \in Nat /\ Numbers > Length
ASSUME TicksAssumption ==
    /\ Wrap \in Nat /\ Wrap > 1 /\ OverWrap \in Nat /\ OverWrap > 1
    /\ Waits \in [Tasks -> SUBSET (0 .. MaxDelay)]

Unlocked == -1                      \* queueUNLOCKED
LockedUnmodified == 0               \* queueLOCKED_UNMODIFIED
Nobody == {}
NoEntry == -1                       \* xEntryTimeSet is pdFALSE

VARIABLES
    pc,           \* pc[t]: where t is in its call
    after,        \* after[t]: where it goes on when the scheduler resumes
    left,         \* left[t]: xTicksToWait, counted down
    entryAt,      \* entryAt[t], entryOver[t]: xTimeOut
    entryOver,
    list,         \* list[t]: the list its xStateListItem is in
    wake,         \* wake[t]: the value of that item, its time to wake
    toSend,       \* xTasksWaitingToSend
    toReceive,    \* xTasksWaitingToReceive
    pendingReady, \* xPendingReadyList
    nextUnblock,  \* xNextTaskUnblockTime, a cache of the earliest wake time
    suspender,    \* the task that has suspended the scheduler, if any
    pendedTick,   \* xPendedTicks
    tick, over,   \* xTickCount, xNumOfOverflows
    slots,        \* the storage area of the queue,
    writeTo,      \*   pcWriteTo,
    readFrom,     \*   pcReadFrom,
    messages,     \*   uxMessagesWaiting
    txLock,       \* cTxLock, cRxLock
    rxLock,
    sent, got,    \* history: numbers of the last items sent and received
    asked,        \* history: asked[t]: the ticks the caller wants to wait,
    waited        \*   waited[t]: and the ticks since it found it has to

callVars  == <<pc, after, left, entryAt, entryOver, asked>>
listVars  == <<list, toSend, toReceive, pendingReady>>
tickVars  == <<tick, over, pendedTick, waited, nextUnblock>>
dataVars  == <<slots, writeTo, readFrom, messages, sent, got>>
lockVars  == <<txLock, rxLock>>
vars == <<callVars, listVars, wake, suspender, tickVars, dataVars, lockVars>>

PC == {"out", "try", "suspend", "lock", "check", "test", "place", "unlockTx",
       "unlockRx", "resume", "recheck"}
Ticks == 0 .. Wrap - 1

TypeOK ==
    /\ pc \in [Tasks -> PC] /\ after \in [Tasks -> {"try", "recheck", "out"}]
    /\ left \in [Tasks -> Ticks] /\ asked \in [Tasks -> Ticks]
    /\ entryAt \in [Tasks -> Ticks \cup {NoEntry}]
    /\ entryOver \in [Tasks -> 0 .. OverWrap - 1]
    /\ list \in [Tasks -> {"ready", "delayed", "overflow", "suspended"}]
    /\ wake \in [Tasks -> Ticks] /\ nextUnblock \in Ticks /\ waited \in [Tasks -> 0 .. Wrap]
    /\ toSend \in Seq(Senders) /\ toReceive \in Seq(Receivers)
    /\ pendingReady \in Seq(Tasks)
    /\ suspender \in SUBSET Tasks /\ pendedTick \in 0 .. 1
    /\ tick \in Ticks /\ over \in 0 .. OverWrap - 1
    /\ slots \in [0 .. Length - 1 -> 0 .. Numbers - 1]
    /\ writeTo \in 0 .. Length - 1 /\ readFrom \in 0 .. Length - 1
    /\ messages \in 0 .. Length
    /\ txLock \in Unlocked .. Length /\ rxLock \in Unlocked .. LockedUnmodified
    /\ sent \in 0 .. Numbers - 1 /\ got \in 0 .. Numbers - 1

Init ==
    /\ pc = [t \in Tasks |-> "out"] /\ after = [t \in Tasks |-> "try"]
    /\ left = [t \in Tasks |-> 0] /\ asked = [t \in Tasks |-> 0]
    /\ entryAt = [t \in Tasks |-> NoEntry] /\ entryOver = [t \in Tasks |-> 0]
    /\ list = [t \in Tasks |-> "ready"]
    /\ wake = [t \in Tasks |-> 0] /\ waited = [t \in Tasks |-> 0]
    /\ toSend = <<>> /\ toReceive = <<>> /\ pendingReady = <<>>
    /\ suspender = Nobody /\ pendedTick = 0
    /\ tick = 0 /\ over = 0 /\ nextUnblock = MaxDelay
    /\ slots = [i \in 0 .. Length - 1 |-> 0]
    /\ writeTo = 0 /\ readFrom = Length - 1 /\ messages = 0
    /\ txLock = Unlocked /\ rxLock = Unlocked
    /\ sent = 0 /\ got = 0

\* The task that runs: the one that has suspended the scheduler, or any ready
\* one.
Running(t) == IF suspender = Nobody THEN list[t] = "ready" ELSE t \in suspender

Goto(t, from, to) == Running(t) /\ pc[t] = from /\ pc' = [pc EXCEPT ![t] = to]

-----------------------------------------------------------------------------
(* The data of the queue *)

CanSend == messages < Length
CanReceive == messages > 0
CanGo(t) == IF t \in Senders THEN CanSend ELSE CanReceive

\* prvCopyDataToQueue, to the back.
NoWrite(i) == i                                        \* mutant
NextSlot(i) == (i + 1) % Length

CopyTo ==
    /\ sent' = (sent + 1) % Numbers
    /\ slots' = [slots EXCEPT ![writeTo] = sent']
    /\ writeTo' = NextSlot(writeTo)
    /\ messages' = messages + 1
    /\ UNCHANGED <<readFrom, got>>

\* prvCopyDataFromQueue: the pointer moves first.
CopyFrom ==
    /\ readFrom' = NextSlot(readFrom)
    /\ got' = slots[readFrom']
    /\ messages' = messages - 1
    /\ UNCHANGED <<slots, writeTo, sent>>

-----------------------------------------------------------------------------
(* Moving tasks between lists *)

\* xTaskRemoveFromEventList of the first tasks of an event list: they are ready
\* at once, or when the scheduler resumes.
MadeReady(woken) ==
    IF suspender = Nobody
    THEN /\ list' = [t \in Tasks |-> IF \E i \in DOMAIN woken : woken[i] = t
                                     THEN "ready" ELSE list[t]]
         /\ UNCHANGED pendingReady
    ELSE /\ pendingReady' = pendingReady \o woken
         /\ UNCHANGED list

First(n, waiting) == SubSeq(waiting, 1, n)
Rest(n, waiting) == SubSeq(waiting, n + 1, Len(waiting))
Lesser(m, n) == IF m < n THEN m ELSE n

\* At most n of the tasks that wait to receive, or to send, are woken.
WakeReceivers(n) ==
    LET k == Lesser(n, Len(toReceive))
    IN  /\ MadeReady(First(k, toReceive))
        /\ toReceive' = Rest(k, toReceive)
        /\ UNCHANGED toSend

WakeSenders(n) ==
    LET k == Lesser(n, Len(toSend))
    IN  /\ MadeReady(First(k, toSend))
        /\ toSend' = Rest(k, toSend)
        /\ UNCHANGED toReceive

\* prvAddCurrentTaskToDelayedList: a wake time below the count is for the list
\* that is used after the next overflow.
DelayedList(time) == IF time < tick THEN "overflow" ELSE "delayed"

\* prvResetNextTaskUnblockTime, from the delayed list in lists.
Delayed(lists) == {t \in Tasks : lists[t] = "delayed"}
StaleCache(lists) == nextUnblock                       \* mutant
Earliest(lists) ==
    IF Delayed(lists) = {} THEN MaxDelay
    ELSE wake[CHOOSE t \in Delayed(lists) :
                 \A u \in Delayed(lists) : wake[t] <= wake[u]]

\* taskSWITCH_DELAYED_LISTS when the count is 0 again.
NextTick == (tick + 1) % Wrap
Switched(name) ==
    CASE NextTick = 0 /\ name = "overflow" -> "delayed"
      [] NextTick = 0 /\ name = "delayed"  -> "overflow"
      [] OTHER -> name

\* uxListRemove of the tasks that are gone: the others keep their order.
Without(waiting, gone) ==
    LET stay == {i \in DOMAIN waiting : waiting[i] \notin gone}
        Rank(i) == Cardinality({j \in stay : j <= i})
    IN  [k \in 1 .. Cardinality(stay) |-> waiting[CHOOSE i \in stay : Rank(i) = k]]

\* xTaskIncrementTick with the scheduler running, after the tasks in readied
\* have been made ready: the tasks whose time has come leave their event lists,
\* if the cached time says that there may be one.
IncrementTick(readied) ==
    LET lists == [t \in Tasks |-> IF t \in readied THEN "ready"
                                  ELSE Switched(list[t])]
        cached == IF NextTick = 0 \/ readied # {} THEN Earliest(lists)
                  ELSE nextUnblock
        due == {t \in Delayed(lists) : cached <= NextTick /\ wake[t] <= NextTick}
    IN  /\ tick' = NextTick
        /\ over' = IF NextTick = 0 THEN (over + 1) % OverWrap ELSE over
        /\ list' = [t \in Tasks |-> IF t \in due THEN "ready" ELSE lists[t]]
        /\ nextUnblock' = IF cached <= NextTick THEN Earliest(list') ELSE cached
        /\ toSend' = Without(toSend, due)
        /\ toReceive' = Without(toReceive, due)

-----------------------------------------------------------------------------
(* A call of xQueueGenericSend or xQueueReceive by task t *)

Call(t) ==
    /\ Goto(t, "out", "try")
    /\ \E n \in Waits[t] : left' = [left EXCEPT ![t] = n]
                        /\ asked' = [asked EXCEPT ![t] = n]
    /\ UNCHANGED <<after, entryAt, entryOver, listVars, wake, suspender,
                   tickVars, dataVars, lockVars>>

\* The call returns; its local variables and the value of its list item are not
\* read again.
Return(t) ==
    /\ pc' = [pc EXCEPT ![t] = "out"]
    /\ after' = [after EXCEPT ![t] = "try"]
    /\ left' = [left EXCEPT ![t] = 0]
    /\ asked' = [asked EXCEPT ![t] = 0]
    /\ entryAt' = [entryAt EXCEPT ![t] = NoEntry]
    /\ entryOver' = [entryOver EXCEPT ![t] = 0]
    /\ waited' = [waited EXCEPT ![t] = 0]
    /\ wake' = [wake EXCEPT ![t] = 0]

\* The critical section at the head of the loop, when it can be done.
Transfer(t) ==
    /\ Running(t) /\ pc[t] = "try"
    /\ CanGo(t)
    /\ \/ t \in Senders /\ CopyTo /\ WakeReceivers(1)
       \/ t \in Receivers /\ CopyFrom /\ WakeSenders(1)
    /\ Return(t)
    /\ UNCHANGED <<suspender, tick, over, nextUnblock, pendedTick, lockVars>>

\* No block time, or none left.
GiveUp(t) ==
    /\ Running(t) /\ pc[t] = "try"
    /\ ~CanGo(t) /\ left[t] = 0
    /\ Return(t)
    /\ UNCHANGED <<listVars, suspender, tick, over, nextUnblock, pendedTick,
                   dataVars, lockVars>>

\* vTaskInternalSetTimeOutState, the first time.  (With portMAX_DELAY the time is
\* never looked at, and left out here.)
SetTimeOut(t) ==
    /\ ~CanGo(t) /\ left[t] # 0
    /\ Goto(t, "try", "suspend")
    /\ IF entryAt[t] = NoEntry /\ left[t] # MaxDelay
       THEN /\ entryAt' = [entryAt EXCEPT ![t] = tick]
            /\ entryOver' = [entryOver EXCEPT ![t] = over]
       ELSE UNCHANGED <<entryAt, entryOver>>
    /\ UNCHANGED <<after, left, asked, listVars, wake, suspender, tickVars,
                   dataVars, lockVars>>

\* vTaskSuspendAll.
SuspendAll(t) ==
    /\ Goto(t, "suspend", "lock")
    /\ suspender' = {t}
    /\ UNCHANGED <<after, left, entryAt, entryOver, asked, listVars, wake,
                   tickVars, dataVars, lockVars>>

\* prvLockQueue.
LeaveUnlocked(lock) == lock                            \* mutant
Locked(lock) == IF lock = Unlocked THEN LockedUnmodified ELSE lock

LockQueue(t) ==
    /\ Goto(t, "lock", "check")
    /\ txLock' = Locked(txLock)
    /\ rxLock' = Locked(rxLock)
    /\ UNCHANGED <<after, left, entryAt, entryOver, asked, listVars, wake,
                   suspender, tickVars, dataVars>>

\* After a time-out too the queue is unlocked before the scheduler resumes.
UnlockFirst == "unlockTx"

\* xTaskCheckForTimeOut.
Elapsed(t) == (tick - entryAt[t]) % Wrap
AnyOverflow(t) == over # entryOver[t]                  \* mutant
WrappedAround(t) == over # entryOver[t] /\ tick >= entryAt[t]
TimedOut(t) ==
    /\ left[t] # MaxDelay
    /\ WrappedAround(t) \/ Elapsed(t) >= left[t]

CheckForTimeOut(t) ==
    /\ \/ /\ left[t] = MaxDelay
          /\ Goto(t, "check", "test")
          /\ UNCHANGED <<after, left, entryAt, entryOver>>
       \/ /\ left[t] # MaxDelay /\ ~TimedOut(t)
          /\ Goto(t, "check", "test")
          /\ left' = [left EXCEPT ![t] = @ - Elapsed(t)]
          /\ entryAt' = [entryAt EXCEPT ![t] = tick]
          /\ entryOver' = [entryOver EXCEPT ![t] = over]
          /\ UNCHANGED after
       \/ /\ TimedOut(t)
          /\ Goto(t, "check", UnlockFirst)
          /\ left' = [left EXCEPT ![t] = 0]
          /\ after' = [after EXCEPT ![t] =
                          IF t \in Senders THEN "out" ELSE "recheck"]
          /\ UNCHANGED <<entryAt, entryOver>>
    /\ UNCHANGED <<asked, listVars, wake, suspender, tickVars, dataVars,
                   lockVars>>

\* prvIsQueueFull or prvIsQueueEmpty, a critical section of its own.
Test(t) ==
    /\ Goto(t, "test", IF CanGo(t) THEN "unlockTx" ELSE "place")
    /\ after' = [after EXCEPT ![t] = "try"]
    /\ UNCHANGED <<left, entryAt, entryOver, asked, listVars, wake, suspender,
                   tickVars, dataVars, lockVars>>

\* vTaskPlaceOnEventList: for good with portMAX_DELAY.
Place(t) ==
    /\ Goto(t, "place", "unlockTx")
    /\ toSend' = IF t \in Senders THEN Append(toSend, t) ELSE toSend
    /\ toReceive' = IF t \in Receivers THEN Append(toReceive, t) ELSE toReceive
    /\ IF left[t] = MaxDelay
       THEN /\ list' = [list EXCEPT ![t] = "suspended"]
            /\ UNCHANGED <<wake, nextUnblock>>
       ELSE /\ wake' = [wake EXCEPT ![t] = (tick + left[t]) % Wrap]
            /\ list' = [list EXCEPT ![t] = DelayedList(wake'[t])]
            /\ nextUnblock' = IF list'[t] = "delayed"
                              THEN Lesser(wake'[t], nextUnblock) ELSE nextUnblock
    /\ UNCHANGED <<after, left, entryAt, entryOver, asked, pendingReady,
                   suspender, tick, over, pendedTick, waited, dataVars, lockVars>>

\* prvUnlockQueue, its first critical section: a task for every item that came
\* while the queue was locked.
WakeOne(n) == IF n > 0 THEN 1 ELSE 0                   \* mutant
WakeAll(n) == IF n > 0 THEN n ELSE 0

UnlockTx(t) ==
    /\ Goto(t, "unlockTx", "unlockRx")
    /\ WakeReceivers(WakeAll(txLock))
    /\ txLock' = Unlocked
    /\ UNCHANGED <<after, left, entryAt, entryOver, asked, wake, suspender,
                   tickVars, dataVars, rxLock>>

\* Its second one: no interrupt of this program receives.
UnlockRx(t) ==
    /\ Goto(t, "unlockRx", "resume")
    /\ WakeSenders(WakeAll(rxLock))
    /\ rxLock' = Unlocked
    /\ UNCHANGED <<after, left, entryAt, entryOver, asked, wake, suspender,
                   tickVars, dataVars, txLock>>

\* xTaskResumeAll: the pending ready tasks are ready, a pended tick is made up
\* for.  The task goes on now, or when it has been woken.
PendingTasks == {pendingReady[i] : i \in DOMAIN pendingReady}

ResumeAll(t) ==
    /\ Running(t) /\ pc[t] = "resume"
    /\ suspender' = Nobody
    /\ pendingReady' = <<>>
    /\ pendedTick' = 0
    /\ \/ pendedTick = 1 /\ IncrementTick(PendingTasks)
       \/ /\ pendedTick = 0
          /\ list' = [u \in Tasks |-> IF u \in PendingTasks THEN "ready"
                                      ELSE list[u]]
          /\ nextUnblock' = IF PendingTasks = {} THEN nextUnblock
                            ELSE Earliest(list')
          /\ UNCHANGED <<tick, over, toSend, toReceive>>
    /\ \/ /\ after[t] = "out"
          /\ Return(t)
       \/ /\ after[t] # "out"
          /\ pc' = [pc EXCEPT ![t] = after[t]]
          /\ UNCHANGED <<after, left, entryAt, entryOver, asked, waited, wake>>
    /\ UNCHANGED <<dataVars, lockVars>>

\* xQueueReceive after its time-out: it looks once more.
Recheck(t) ==
    /\ Running(t) /\ pc[t] = "recheck"
    /\ \/ ~CanGo(t) /\ Return(t)
       \/ /\ CanGo(t)
          /\ pc' = [pc EXCEPT ![t] = "try"]
          /\ UNCHANGED <<after, left, entryAt, entryOver, asked, waited, wake>>
    /\ UNCHANGED <<listVars, suspender, tick, over, nextUnblock, pendedTick,
                   dataVars, lockVars>>

-----------------------------------------------------------------------------
(* Interrupts *)

\* xQueueGenericSendFromISR: with the queue locked the event lists stay as they
\* are and the item is counted.
CountItem(lock) == lock + 1

SendFromISR ==
    /\ CanSend
    /\ CopyTo
    /\ \/ /\ txLock = Unlocked
          /\ WakeReceivers(1)
          /\ UNCHANGED txLock
       \/ /\ txLock # Unlocked
          /\ txLock' = CountItem(txLock)
          /\ UNCHANGED listVars
    /\ UNCHANGED <<callVars, wake, suspender, tickVars, rxLock>>

\* SysTick: xTaskIncrementTick.
Aged ==
    [t \in Tasks |-> IF entryAt[t] # NoEntry /\ waited[t] < Wrap
                     THEN waited[t] + 1 ELSE waited[t]]

\* No task in a call is without the processor for a whole turn of the tick
\* count, which is 49 days: a bound.
Patient(t) ==
    entryAt[t] # NoEntry /\ list[t] = "ready" =>
        over = entryOver[t] \/ tick < entryAt[t]

Tick ==
    /\ \A t \in Tasks : Patient(t)
    /\ waited' = Aged
    /\ \/ /\ suspender = Nobody
          /\ IncrementTick({})
          /\ UNCHANGED <<pendedTick, pendingReady>>
       \/ /\ suspender # Nobody /\ pendedTick = 0
          /\ pendedTick' = 1
          /\ UNCHANGED <<tick, over, nextUnblock, listVars>>
    /\ UNCHANGED <<callVars, wake, suspender, dataVars, lockVars>>

-----------------------------------------------------------------------------

Step(t) ==
    \/ Transfer(t) \/ GiveUp(t) \/ SetTimeOut(t) \/ SuspendAll(t)
    \/ LockQueue(t) \/ CheckForTimeOut(t) \/ Test(t) \/ Place(t)
    \/ UnlockTx(t) \/ UnlockRx(t) \/ ResumeAll(t) \/ Recheck(t)

Next ==
    \/ \E t \in Tasks : Call(t) \/ Step(t)
    \/ SendFromISR
    \/ Tick

Spec == Init /\ [][Next]_vars

\* Time slices: a task that is ready again and again gets the processor.  The
\* clock ticks.
Fairness == (\A t \in Tasks : SF_vars(Step(t))) /\ WF_vars(Tick)

FairSpec == Spec /\ Fairness

-----------------------------------------------------------------------------
(* Properties *)

\* The ring of slots with its two pointers and its count is a queue: items
\* leave once, in the order they came, none is lost, whoever sends, wherever
\* the calls are interrupted.
Contents == [i \in 1 .. messages |-> slots[(readFrom + i) % Length]]
Fifo == INSTANCE FifoQueue WITH buffer <- Contents
ImplementsFifo == Fifo!FifoSpec

\* The tasks that are on their way to try again, without being woken.
Trying(group) == {t \in group : list[t] = "ready" /\ pc[t] # "out"}

\* No wake-up is lost: whenever tasks may be switched, a task that waits for an
\* item while there are items is behind as many tasks that are awake and about
\* to take them, and the same for room.  The lock count, the pending ready list
\* and the test after locking are there for this.
NoLostWakeup ==
    suspender = Nobody =>
        /\ toReceive # <<>> => messages <= Cardinality(Trying(Receivers))
        /\ toSend # <<>> => Length - messages <= Cardinality(Trying(Senders))

\* The event lists are left alone while interrupts may not touch them, and the
\* queue is never left locked: the lock is held by the task that suspended the
\* scheduler, from locking to unlocking.
LockDiscipline ==
    /\ txLock # Unlocked =>
          \E t \in suspender :
             pc[t] \in {"check", "test", "place", "unlockTx"}
    /\ txLock > LockedUnmodified => txLock <= messages

\* A task waits in one event list at most, and only one that is not ready does;
\* one that has been taken from it is ready or will be when the scheduler
\* resumes.
OneList ==
    \A t \in Tasks :
        LET waiting == \E i \in DOMAIN toSend \cup DOMAIN toReceive :
                          \/ i \in DOMAIN toSend /\ toSend[i] = t
                          \/ i \in DOMAIN toReceive /\ toReceive[i] = t
        IN  list[t] # "ready" <=> (waiting \/ t \in PendingTasks)

\* A task is not kept waiting past its time: the time-out that is counted down
\* from one wait to the next, the two delayed lists, the overflow of the tick
\* count and the cached earliest wake time agree.
NeverLate ==
    \A t \in Tasks : suspender = Nobody /\ list[t] \in {"delayed", "overflow"}
                        => waited[t] < asked[t]

\* When the count is about to be 0 again nobody waits in the list that counts to
\* its end, so the lists can be switched: the assertion of
\* taskSWITCH_DELAYED_LISTS.
SwitchFindsNobody ==
    suspender = Nobody /\ NextTick = 0 => Delayed(list) = {}

\* A call fails only when the time its caller gave has passed, and never with
\* portMAX_DELAY.
NeverEarly ==
    [][\A t \in Tasks : pc[t] # "out" /\ pc'[t] = "out" /\ messages' = messages
          => asked[t] # MaxDelay /\ waited[t] >= asked[t]]_vars

\* A call with a time-out returns.
TimedCallsEnd ==
    \A t \in Tasks :
        pc[t] # "out" /\ asked[t] # MaxDelay ~> pc[t] = "out"

\* Whoever waits for an item gets to look for it while there are items.
ItemsWake ==
    \A t \in Receivers :
        list[t] = "suspended" /\ messages > 0
            ~> (list[t] = "ready" \/ messages = 0)

\* The locks, the lists and the clock of the kernel agree, wherever an interrupt
\* comes.
ListsAgree == TypeOK /\ LockDiscipline /\ OneList /\ NeverLate /\ SwitchFindsNobody

\* Neither a time-out nor an item leaves a task waiting for ever.
CallsGoOn == TimedCallsEnd /\ ItemsWake

=============================================================================
