------------------------------ MODULE PlayHeap -------------------------------
(***************************************************************************)
(* What a `play' command does to the memory of the system: the console     *)
(* writes the file name to its one static array and creates a task         *)
(* (Sample-CLI-commands.c), the kernel takes the task's stack and control  *)
(* block from the heap (tasks.c over heap_5.c), the task makes a queue it  *)
(* never deletes (board_dac_sound.c), deletes itself at its end, and the   *)
(* idle task gives stack and control block back.                           *)
(*                                                                         *)
(* pvPortMalloc and vPortFree run with the scheduler suspended: each is    *)
(* one step, between two of them every ready task may run.  Console and    *)
(* players have the same priority, the idle task runs when all of them     *)
(* wait.  What a play does with its file is in DacPlayer.                  *)
(***************************************************************************)
EXTENDS Heap5

CONSTANTS Players,    \* tasks that can exist at once
          HeapSize,   \* the region of xHeapRegions, in units of 8 bytes
          BootSize,   \* what main, the console and the kernel keep for good,
          StackSize,  \*   the stack of a player task,
          TcbSize,    \*   its control block
          QueueSize,  \*   and a queue of one byte: sizes with their headers
          MaxPlays    \* bound: play commands of one behaviour

ASSUME SizesAssumption ==
    /\ {StackSize, TcbSize, QueueSize} \subseteq Nat
    /\ \A n \in {StackSize, TcbSize, QueueSize} : n > MinimumBlock
    /\ HeapSize \in Nat /\ BootSize \in 1 .. HeapSize - 1
    /\ MaxPlays \in Nat
\* A play is never short of a name for its task, only of memory.
ASSUME PlayersAssumption ==
    /\ IsFiniteSet(Players)
    /\ (Cardinality(Players) + 1) * (StackSize + TcbSize) >= HeapSize - BootSize

VARIABLES
    heap,       \* the heap (Heap5)
    name,       \* this_str: the command whose file name it holds, 0 for none
    cli,        \* where the console is in prvPlayMusicCommand and xTaskCreate
    newStack,   \* pxStack of xTaskCreate
    stage,      \* stage[t]: where a player task is
    given,      \* given[t]: the command that created t
    stack, tcb, \* the blocks of task t, NULL when it has none
    waits,      \* waits[t]: the queue of the xQueueReceive t is in
    handle,     \* dma_working_handle: the play whose queue it is, 0 for NULL
    queues,     \* history: the blocks of all queues created
    dead,       \* xTasksWaitingTermination
    reaped,     \* the task whose memory the idle task gives back, if any
    plays,      \* number of play commands so far
    halted,     \* configASSERT has failed: the processor loops for ever
    refused,    \* history: a play command found no memory for its task
    overlapped  \* history: a play was asked for before the last was cleaned up

consoleVars == <<name, cli, newStack, plays, refused, overlapped>>
taskVars    == <<stage, given, stack, tcb, waits>>
idleVars    == <<dead, reaped>>
heapVars == <<heap, consoleVars, taskVars, idleVars, handle, queues, halted>>

NoTask == {}
Address == 0 .. HeapSize - 1
Stages == {"none", "create", "open", "prime", "loop", "wait", "exit", "deleted"}
Commands == 0 .. MaxPlays

HeapTypeOK ==
    /\ heap.left \in 0 .. HeapSize
    /\ heap.free \in Seq([at : Address, size : 1 .. HeapSize])
    /\ \A a \in DOMAIN heap.used : a \in Address /\ heap.used[a] \in 1 .. HeapSize
    /\ name \in Commands /\ plays \in Commands /\ handle \in Commands
    /\ cli \in {"prompt", "copy", "stack", "tcb", "giveback"}
    /\ newStack \in Address \cup {NULL}
    /\ stage \in [Players -> Stages]
    /\ given \in [Players -> Commands]
    /\ waits \in [Players -> Commands]
    /\ stack \in [Players -> Address \cup {NULL}]
    /\ tcb \in [Players -> Address \cup {NULL}]
    /\ queues \subseteq Address
    /\ dead \in Seq(Players) /\ reaped \subseteq Players
    /\ halted \in BOOLEAN /\ refused \in BOOLEAN /\ overlapped \in BOOLEAN

HeapInit ==
    /\ heap = Malloc(DefineRegion(HeapSize), BootSize)
    /\ name = 0 /\ plays = 0 /\ handle = 0
    /\ cli = "prompt" /\ newStack = NULL
    /\ stage = [t \in Players |-> "none"]
    /\ given = [t \in Players |-> 0]
    /\ stack = [t \in Players |-> NULL]
    /\ tcb = [t \in Players |-> NULL]
    /\ waits = [t \in Players |-> 0]
    /\ queues = {}
    /\ dead = <<>> /\ reaped = NoTask
    /\ halted = FALSE /\ refused = FALSE /\ overlapped = FALSE

Proceed(t, from, to) == stage[t] = from /\ stage' = [stage EXCEPT ![t] = to]

-----------------------------------------------------------------------------
(* The console: prvPlayMusicCommand, which calls xTaskCreate *)

\* memset(this_str, 0x00, 30).
ClearName ==
    /\ cli = "prompt" /\ plays < MaxPlays
    /\ cli' = "copy"
    /\ plays' = plays + 1
    /\ name' = 0
    /\ overlapped' = (overlapped \/ \E t \in Players : stage[t] # "none")
    /\ UNCHANGED <<heap, newStack, refused, taskVars, idleVars, handle, queues,
                   halted>>

\* strncpy(this_str, pcParameter, xParameterStringLength).
LeaveName == UNCHANGED name                            \* mutant
WriteName == name' = plays

CopyName ==
    /\ cli = "copy" /\ cli' = "stack"
    /\ WriteName
    /\ UNCHANGED <<heap, newStack, plays, refused, overlapped, taskVars,
                   idleVars, handle, queues, halted>>

\* xTaskCreate: the stack first.  Nobody looks at its result.
AllocateStack ==
    /\ cli = "stack"
    /\ \/ /\ CanMalloc(heap, StackSize)
          /\ newStack' = MallocAt(heap, StackSize)
          /\ heap' = Malloc(heap, StackSize)
          /\ cli' = "tcb"
          /\ UNCHANGED refused
       \/ /\ ~CanMalloc(heap, StackSize)
          /\ cli' = "prompt"
          /\ refused' = TRUE
          /\ UNCHANGED <<heap, newStack>>
    /\ UNCHANGED <<name, plays, overlapped, taskVars, idleVars, handle, queues,
                   halted>>

\* Then the control block, and prvAddNewTaskToReadyList.
AllocateTcb ==
    /\ cli = "tcb"
    /\ \/ /\ CanMalloc(heap, TcbSize)
          /\ heap' = Malloc(heap, TcbSize)
          /\ \E t \in Players :
                /\ Proceed(t, "none", "create")
                /\ given' = [given EXCEPT ![t] = plays]
                /\ stack' = [stack EXCEPT ![t] = newStack]
                /\ tcb' = [tcb EXCEPT ![t] = MallocAt(heap, TcbSize)]
          /\ newStack' = NULL
          /\ cli' = "prompt"
          /\ UNCHANGED <<refused, waits>>
       \/ /\ ~CanMalloc(heap, TcbSize)
          /\ cli' = "giveback"
          /\ refused' = TRUE
          /\ UNCHANGED <<heap, newStack, taskVars>>
    /\ UNCHANGED <<name, plays, overlapped, idleVars, handle, queues, halted>>

\* "The stack cannot be used as the TCB was not created."
GiveStackBack == heap' = Free(heap, newStack)

GiveBack ==
    /\ cli = "giveback" /\ cli' = "prompt"
    /\ GiveStackBack
    /\ newStack' = NULL
    /\ UNCHANGED <<name, plays, refused, overlapped, taskVars, idleVars, handle,
                   queues, halted>>

-----------------------------------------------------------------------------
(* A player task: Music_Player *)

\* dma_working_handle = xQueueCreate(1, 1), NULL when there is no memory.
CreateQueue(t) ==
    /\ Proceed(t, "create", "open")
    /\ \/ /\ CanMalloc(heap, QueueSize)
          /\ handle' = given[t]
          /\ queues' = queues \cup {MallocAt(heap, QueueSize)}
          /\ heap' = Malloc(heap, QueueSize)
       \/ /\ ~CanMalloc(heap, QueueSize)
          /\ handle' = 0
          /\ UNCHANGED <<heap, queues>>
    /\ UNCHANGED <<consoleVars, given, stack, tcb, waits, idleVars,
                   halted>>

\* f_open(&fp, fileName, FA_READ) reads the console's array; there may be no
\* such file, and there is none with an empty name.
OpenFile(t) ==
    /\ \/ name # 0 /\ Proceed(t, "open", "prime")
       \/ Proceed(t, "open", "exit")
    /\ UNCHANGED <<heap, consoleVars, given, stack, tcb, waits, idleVars,
                   handle, queues, halted>>

\* configASSERT(pxQueue) of the queue functions, inside one step of a task or
\* of the interrupt.
Assert(queue, step) ==
    IF queue = 0 THEN halted' = TRUE /\ UNCHANGED <<stage, waits>>
    ELSE step /\ UNCHANGED halted

\* xQueueSendToBack(dma_working_handle, "o", NULL).
Prime(t) ==
    /\ stage[t] = "prime"
    /\ Assert(handle, Proceed(t, "prime", "loop") /\ UNCHANGED waits)
    /\ UNCHANGED <<heap, consoleVars, given, stack, tcb, idleVars,
                   handle, queues>>

\* xQueueReceive(dma_working_handle, &res, portMAX_DELAY).
Receive(t) ==
    /\ stage[t] = "loop"
    /\ Assert(handle, /\ Proceed(t, "loop", "wait")
                      /\ waits' = [waits EXCEPT ![t] = handle])
    /\ UNCHANGED <<heap, consoleVars, given, stack, tcb, idleVars,
                   handle, queues>>

\* f_read delivers nothing more.
EndOfFile(t) ==
    /\ Proceed(t, "loop", "exit")
    /\ UNCHANGED <<heap, consoleVars, given, stack, tcb, waits,
                   idleVars, handle, queues, halted>>

\* DMA1_Stream6_IRQHandler while t waits: the token is for the queue of the
\* latest play, which need not be the one t waits for.
TransferComplete(t) ==
    /\ stage[t] = "wait"
    /\ Assert(handle, /\ handle = waits[t]
                      /\ Proceed(t, "wait", "loop")
                      /\ waits' = [waits EXCEPT ![t] = 0])
    /\ UNCHANGED <<heap, consoleVars, given, stack, tcb, idleVars,
                   handle, queues>>

\* vListInsertEnd(&xTasksWaitingTermination, ...).
ForgetDead(t) == UNCHANGED dead                        \* mutant
RegisterDead(t) == dead' = Append(dead, t)

\* vTaskDelete(NULL): the queue of the play is not deleted.
DeleteSelf(t) ==
    /\ Proceed(t, "exit", "deleted")
    /\ RegisterDead(t)
    /\ UNCHANGED <<heap, consoleVars, given, stack, tcb, waits,
                   reaped, handle, queues, halted>>

-----------------------------------------------------------------------------
(* The idle task: prvCheckTasksWaitingTermination and prvDeleteTCB *)

\* Every task of a higher priority waits.
IdleRuns ==
    /\ cli = "prompt"
    /\ \A t \in Players : stage[t] \in {"none", "wait", "deleted"}

TakeDead ==
    /\ reaped = NoTask /\ dead # <<>>
    /\ reaped' = {Head(dead)}
    /\ dead' = Tail(dead)
    /\ UNCHANGED <<heap, consoleVars, taskVars, handle, queues, halted>>

FreeStack(t) ==
    /\ stack[t] # NULL
    /\ heap' = Free(heap, stack[t])
    /\ stack' = [stack EXCEPT ![t] = NULL]
    /\ UNCHANGED <<consoleVars, stage, given, tcb, waits, idleVars,
                   handle, queues, halted>>

\* The control block after the stack whose address it holds.
FreeControlBlock(t) == heap' = Free(heap, tcb[t])

FreeTcb(t) ==
    /\ stack[t] = NULL
    /\ FreeControlBlock(t)
    /\ tcb' = [tcb EXCEPT ![t] = NULL]
    /\ reaped' = NoTask
    /\ Proceed(t, "deleted", "none")
    /\ given' = [given EXCEPT ![t] = 0]
    /\ UNCHANGED <<consoleVars, stack, waits, dead, handle,
                   queues, halted>>

Idle ==
    /\ ~halted
    /\ IdleRuns
    /\ TakeDead \/ \E t \in reaped : FreeStack(t) \/ FreeTcb(t)

-----------------------------------------------------------------------------

Console == ~halted /\ (CopyName \/ AllocateStack \/ AllocateTcb \/ GiveBack)

Player(t) ==
    /\ ~halted
    /\ \/ CreateQueue(t) \/ OpenFile(t) \/ Prime(t) \/ Receive(t)
       \/ EndOfFile(t) \/ DeleteSelf(t)

HeapNext ==
    \/ ~halted /\ ClearName
    \/ Console
    \/ \E t \in Players : Player(t) \/ (~halted /\ TransferComplete(t))
    \/ Idle

HeapSpec == HeapInit /\ [][HeapNext]_heapVars

\* Ready tasks share the processor; a play comes to its last block and waits for
\* the DMA between blocks, which is when the idle task runs.
HeapFairness ==
    /\ WF_heapVars(Console)
    /\ \A t \in Players :
          WF_heapVars(Player(t)) /\ SF_heapVars(~halted /\ EndOfFile(t))
    /\ SF_heapVars(Idle)

FairHeapSpec == HeapSpec /\ HeapFairness

-----------------------------------------------------------------------------
(* Properties *)

\* At every moment between two calls of the allocator its blocks cover the
\* region exactly once, the free ones in order and joined with their
\* neighbours, and xFreeBytesRemaining is the sum of the free ones: no sequence
\* of plays, refusals and deletions loses or doubles a byte.
HeapSound == Tiled(heap, HeapSize) /\ CountTrue(heap)

\* Who holds which block.
Owners ==
    {<<"boot", 0>>}
    \cup {<<"console", newStack>>}
    \cup {<<"stack", stack[t]>> : t \in Players}
    \cup {<<"tcb", tcb[t]>> : t \in Players}
    \cup {<<"queue", q>> : q \in queues}

\* Only the queues leak: every block given away is the boot's, belongs to a task
\* that exists or to the creation in progress, or is the queue of some play, and
\* none has two owners.  What a refused or a finished play took is given back.
OnlyQueuesLeak ==
    /\ DOMAIN heap.used = {o[2] : o \in Owners} \ {NULL}
    /\ \A o, p \in Owners : o[2] = p[2] /\ o[2] # NULL => o = p
    /\ \A t, u \in Players : stack[t] = stack[u] /\ stack[t] # NULL => t = u

\* The plays whose queues fit in the heap beside one player task.
Capacity == (HeapSize - 1 - BootSize - StackSize - TcbSize) \div QueueSize

\* As long as every play is over and cleaned up before the next, the first
\* Capacity of them find their memory: coalescing undoes all fragmentation
\* and the leaked queues are all that is ever lost.
AloneNeverRefused ==
    ~overlapped /\ plays <= Capacity => ~refused /\ ~halted

\* The name a play opens is its own or that of a later command: if no later
\* command was given it is its own, and never that of an earlier play.
OpensOwnOrLater ==
    [][\A t \in Players : stage[t] = "open" /\ stage'[t] # "open" =>
          name \in IF plays = given[t] THEN {plays}
                   ELSE {0} \cup given[t] .. plays]_heapVars

\* The memory of a task that has ended is given back in the end, unless a
\* failed assertion stops the system first.
DeadAreFreed ==
    \A t \in Players : stage[t] = "deleted" ~> (stage[t] = "none" \/ halted)

\* The memory of the heap is accounted for: by its blocks and by their owners.
MemoryAccounted == HeapTypeOK /\ HeapSound /\ OnlyQueuesLeak

=============================================================================
