------------------------------- MODULE SerialTx -------------------------------
(***************************************************************************)
(* Everything that leaves through USART3 goes through one DMA stream,      *)
(* DMA1_Stream3, guarded by the flag USART3_TX_DMA_IS_BUSY that            *)
(* mcu_uart_send_buffer_dma spins on and the interrupt clears.             *)
(*                                                                         *)
(* Three callers share it (src/middlewares/FreeRTOS_CLI/serial.c and       *)
(* src/mcu_dev/mcu_uart.c): vSerialPutString and xSerialPutChar under the  *)
(* mutex xTxMutex, and _putchar of printf_, which takes no mutex.  The     *)
(* console takes the mutex for every key, echoes the key, and then writes  *)
(* strings and, in the ls command, lines of printf_.                       *)
(*                                                                         *)
(* A message is a block handed to the stream in one piece; messages are    *)
(* numbered per task.  A task executes no instruction between the end of a *)
(* transfer and its interrupt (~tc in Runs).                               *)
(***************************************************************************)
EXTENDS Naturals

CONSTANTS Consoles,   \* tasks that echo keys and answer them under xTxMutex
          Writers,    \* tasks that call vOutputString, under xTxMutex
          Printers,   \* tasks that call printf_ without it (Music_Player)
          LineLen,    \* characters of a printf_ buffer (64 in the code)
          MaxSends    \* bound: messages of one task

ASSUME DisjointAssumption == (Consoles \cup Writers) \cap Printers = {}
ASSUME LineLenAssumption  == LineLen \in Nat \ {0}
ASSUME MaxSendsAssumption == MaxSends \in Nat

Tasks == Consoles \cup Writers \cup Printers

CONSTANT None
ASSUME NoneAssumption == None \notin Tasks

VARIABLES
    pc,         \* pc[t]: where task t is
    job,        \* job[t]: which of the three callers t is in
    src,        \* src[t]: the buffer t is handing over
    sent,       \* sent[t]: number of the last message of t
    mutex,      \* holder of xTxMutex
    cacheIdx,   \* current_dma_buffer_index of vSerialPutString
    lineIdx,    \* printf_buffer_index
    block,      \* printf_buffer_current_block
    content,    \* content[b]: the message in buffer b: [task, no, job]
    busy,       \* USART3_TX_DMA_IS_BUSY
    m0ar,       \* DMA1_Stream3: source buffer,
    count,      \*   whether NDTR is not 0,
    dmaOn,      \*   enabled
    tc,         \* its transfer-complete interrupt is pending
    flight,     \* history: the message the stream was started with,
    wire,       \*   wire[t]: the last message of t that went out, and what
    spoiled     \*   was overwritten on its way: [lost, by]

taskVars == <<pc, job, src, sent>>
bufVars  == <<cacheIdx, lineIdx, block, content>>
dmaVars  == <<m0ar, count, dmaOn, tc>>
histVars == <<flight, wire, spoiled>>
vars == <<taskVars, mutex, bufVars, busy, dmaVars, histVars>>

\* serial_put_string_nodma_cache[i] and printf_buffer[i].
Cache(i) == i
Line(i)  == 2 + i
Buffers  == 0 .. 3

PC == {"idle", "key", "locked", "copy", "poke", "char", "check", "test", "claim",
       "address", "count", "enable", "done"}
Jobs == {"string", "char", "print"}

Message == [task : Tasks \cup {None}, no : 0 .. MaxSends, job : Jobs]

\* What the console sent before its loop: the text of welcome, in two chunks.
Welcome == [task |-> None, no |-> 0, job |-> "string"]

\* What printf_buffer_index may reach when several tasks race on it.
IndexBound == LineLen + 2

TypeOK ==
    /\ pc \in [Tasks -> PC]
    /\ job \in [Tasks -> Jobs]
    /\ src \in [Tasks -> Buffers]
    /\ sent \in [Tasks -> 0 .. MaxSends]
    /\ mutex \in Consoles \cup Writers \cup {None}
    /\ cacheIdx \in 0 .. 1
    /\ lineIdx \in 0 .. IndexBound
    /\ block \in 0 .. 1
    /\ content \in [Buffers -> Message]
    /\ busy \in 0 .. 1
    /\ m0ar \in Buffers
    /\ count \in 0 .. 1
    /\ dmaOn \in BOOLEAN
    /\ tc \in BOOLEAN
    /\ flight \in Message
    /\ wire \in [Tasks -> 0 .. MaxSends]
    /\ spoiled \subseteq [lost : Message, by : Message]

\* The console waits for its first key; the second chunk of the welcome is out or
\* still being sent.
Init ==
    /\ pc = [t \in Tasks |-> "idle"]
    /\ job = [t \in Tasks |-> "string"]
    /\ src = [t \in Tasks |-> Cache(0)]
    /\ sent = [t \in Tasks |-> 0]
    /\ mutex = None
    /\ cacheIdx = 0
    /\ lineIdx = 0
    /\ block = 0
    /\ content = [b \in Buffers |-> Welcome]
    /\ busy \in 0 .. 1
    /\ m0ar = Cache(1)
    /\ count = busy
    /\ dmaOn = (busy = 1)
    /\ tc = FALSE
    /\ flight = Welcome
    /\ wire = [t \in Tasks |-> 0]
    /\ spoiled = {}

\* A step of task t from one position to another; the interrupt goes first.
Runs(t, from, to) ==
    /\ pc[t] = from
    /\ ~tc
    /\ pc' = [pc EXCEPT ![t] = to]

\* The message that t is about to hand over, or has handed over last.
Latest(t) == [task |-> t, no |-> sent[t], job |-> job[t]]

\* Caller j of t writes a new message to buffer b.
Fill(t, j, b) ==
    /\ sent[t] < MaxSends
    /\ sent' = [sent EXCEPT ![t] = @ + 1]
    /\ job' = [job EXCEPT ![t] = j]
    /\ src' = [src EXCEPT ![t] = b]
    /\ content' = [content EXCEPT ![b] = Latest(t)']

-----------------------------------------------------------------------------
(* The console, under the mutex *)

\* xSemaphoreTake(xTxMutex, ...): the console has a key to echo, vOutputString a
\* string.  A wait that times out writes nothing.
TakeMutex(t) ==
    /\ Runs(t, "idle", IF t \in Consoles THEN "key" ELSE "locked")
    /\ sent[t] < MaxSends
    /\ mutex = None
    /\ mutex' = t
    /\ UNCHANGED <<job, src, sent, bufVars, busy, dmaVars, histVars>>

\* xSemaphoreGive(xTxMutex).
GiveMutex(t) ==
    /\ Runs(t, "locked", "idle")
    /\ mutex' = None
    /\ UNCHANGED <<job, src, sent, bufVars, busy, dmaVars, histVars>>

\* vSerialPutString: memcpy of up to 64 bytes into the current cache half.
CopyChunk(t) ==
    /\ Runs(t, "locked", "copy")
    /\ Fill(t, "string", Cache(cacheIdx))
    /\ UNCHANGED <<mutex, cacheIdx, lineIdx, block, busy, dmaVars, histVars>>

\* xSerialPutChar: the key goes to the first cache half, whatever that half is
\* doing, before the console writes anything else.
PokeChar(t) ==
    /\ Runs(t, "key", "poke")
    /\ Fill(t, "char", Cache(0))
    /\ UNCHANGED <<mutex, cacheIdx, lineIdx, block, busy, dmaVars, histVars>>

\* The buffer is written; mcu_uart_send_buffer_dma is called.
Written(t) ==
    /\ Runs(t, "copy", "test") \/ Runs(t, "poke", "test")
    /\ UNCHANGED <<job, src, sent, mutex, bufVars, busy, dmaVars, histVars>>

-----------------------------------------------------------------------------
(* printf_ *)

\* Where a task is while it sends nothing: a console inside a command, which
\* holds the mutex, or any other task.
Home(t) == IF t \in Consoles \cup Writers THEN "locked" ELSE "idle"

\* A call of printf_; vOutputString makes none.
StartPrint(t) ==
    /\ t \notin Writers
    /\ Runs(t, Home(t), "char")
    /\ sent[t] < MaxSends
    /\ job' = [job EXCEPT ![t] = "print"]
    /\ sent' = [sent EXCEPT ![t] = @ + 1]
    /\ UNCHANGED <<src, mutex, bufVars, busy, dmaVars, histVars>>

\* _putchar: one character is stored at printf_buffer_index, which advances.
PutChar(t) ==
    /\ Runs(t, "char", "check")
    /\ lineIdx < IndexBound
    /\ content' = [content EXCEPT ![Line(block)] = Latest(t)]
    /\ lineIdx' = lineIdx + 1
    /\ UNCHANGED <<job, src, sent, mutex, cacheIdx, block, busy, dmaVars,
                   histVars>>

\* printf_buffer_index == 64
NeverFull == FALSE                                     \* mutant
LineFull == lineIdx = LineLen

\* A full buffer or the end of a line is sent, else the next character follows.
CheckLine(t) ==
    /\ \/ /\ Runs(t, "check", "test")
          /\ src' = [src EXCEPT ![t] = Line(block)]
       \/ /\ ~LineFull
          /\ Runs(t, "check", "char")
          /\ UNCHANGED src
    /\ UNCHANGED <<job, sent, mutex, bufVars, busy, dmaVars, histVars>>

-----------------------------------------------------------------------------
(* mcu_uart_send_buffer_dma *)

\* while (USART3_TX_DMA_IS_BUSY);
NeverWait == TRUE                                      \* mutant
StreamFree == busy = 0
TestBusy(t) ==
    /\ StreamFree
    /\ Runs(t, "test", "claim")
    /\ UNCHANGED <<job, src, sent, mutex, bufVars, busy, dmaVars, histVars>>

ClaimBusy(t) ==
    /\ Runs(t, "claim", "address")
    /\ busy' = 1
    /\ UNCHANGED <<job, src, sent, mutex, bufVars, dmaVars, histVars>>

\* DMA_MemoryTargetConfig: the stream ignores it while enabled.
SetAddress(t) ==
    /\ Runs(t, "address", "count")
    /\ m0ar' = IF dmaOn THEN m0ar ELSE src[t]
    /\ UNCHANGED <<job, src, sent, mutex, bufVars, busy, count, dmaOn, tc,
                   histVars>>

\* DMA_SetCurrDataCounter: the stream ignores it while enabled.
SetCount(t) ==
    /\ Runs(t, "count", "enable")
    /\ count' = IF dmaOn THEN count ELSE 1
    /\ UNCHANGED <<job, src, sent, mutex, bufVars, busy, m0ar, dmaOn, tc,
                   histVars>>

\* DMA_Cmd(ENABLE): with NDTR 0 the enabled stream has nothing to transfer.
EnableStream(t) ==
    /\ Runs(t, "enable", "done")
    /\ dmaOn' = TRUE
    /\ flight' = IF dmaOn THEN flight ELSE content[m0ar]
    /\ UNCHANGED <<job, src, sent, mutex, bufVars, busy, m0ar, count, tc,
                   wire, spoiled>>

\* The index of the half that is filled next.
StuckHalf(i) == i                                      \* mutant
NextHalf(i) == 1 - i

\* Back in the caller, which switches its double buffer; _putchar restarts it.
AfterSend(t) ==
    /\ Runs(t, "done", Home(t))
    /\ cacheIdx' = IF job[t] = "string" THEN NextHalf(cacheIdx) ELSE cacheIdx
    /\ block' = IF job[t] = "print" THEN NextHalf(block) ELSE block
    /\ lineIdx' = IF job[t] = "print" THEN 0 ELSE lineIdx
    /\ UNCHANGED <<job, src, sent, mutex, content, busy, dmaVars, histVars>>

-----------------------------------------------------------------------------
(* The stream and its interrupt *)

\* The last byte of the source buffer has gone to the USART.  A buffer that was
\* written meanwhile was read before that, or spoiled.
TransferEnd ==
    /\ dmaOn
    /\ count = 1
    /\ dmaOn' = FALSE
    /\ count' = 0
    /\ tc' = TRUE
    /\ \E m \in {flight, content[m0ar]} :
          /\ wire' = IF m.task = None THEN wire
                     ELSE [wire EXCEPT ![m.task] = m.no]
          /\ spoiled' = IF m = flight THEN spoiled
                        ELSE spoiled \cup {[lost |-> flight, by |-> m]}
    /\ UNCHANGED <<taskVars, mutex, bufVars, busy, m0ar, flight>>

\* DMA1_Stream3_IRQHandler: the stream off, the flag down.
ForgetBusy == UNCHANGED busy                           \* mutant
ReleaseBusy == busy' = 0
TxInterrupt ==
    /\ tc
    /\ tc' = FALSE
    /\ dmaOn' = FALSE
    /\ ReleaseBusy
    /\ UNCHANGED <<taskVars, mutex, bufVars, m0ar, count, histVars>>

-----------------------------------------------------------------------------

\* Steps of a call once it has begun.
Body(t) ==
    \/ Written(t) \/ PutChar(t) \/ CheckLine(t) \/ TestBusy(t) \/ ClaimBusy(t)
    \/ SetAddress(t) \/ SetCount(t) \/ EnableStream(t) \/ AfterSend(t)

Next ==
    \/ \E t \in Consoles \cup Writers :
          TakeMutex(t) \/ GiveMutex(t) \/ CopyChunk(t) \/ PokeChar(t)
    \/ \E t \in Tasks : StartPrint(t) \/ Body(t)
    \/ TransferEnd
    \/ TxInterrupt

Spec == Init /\ [][Next]_vars

\* Time slicing runs every task, spinning ones included; a line of printf_
\* ends; the stream and its interrupt make progress.
Fairness ==
    /\ \A t \in Tasks : /\ WF_vars(Body(t))
                         /\ SF_vars(CheckLine(t) /\ pc'[t] = "test")
    /\ WF_vars(TransferEnd)
    /\ WF_vars(TxInterrupt)

FairSpec == Spec /\ Fairness

-----------------------------------------------------------------------------
(* Properties *)

\* Every sender holds the mutex.
Guarded == Printers = {}

\* The buffer that task t is writing right now.
Writing(t) ==
    CASE pc[t] = "copy" -> {Cache(cacheIdx)}
      [] pc[t] = "poke" -> {Cache(0)}
      [] pc[t] = "char" -> {Line(block)}
      [] OTHER          -> {}

\* What the comments of the two double buffers claim: no task writes the buffer
\* that the stream is reading.  The echo refutes it.
NoTxRace == dmaOn => \A t \in Tasks : m0ar \notin Writing(t)

\* What holds of them: a buffer is written while it is sent only if it is the
\* first cache half, and only by an echo or when what is being sent is one.  No
\* line of printf_, no chunk of the second half and no chunk behind another
\* chunk is ever touched.
OnlyEchoRaces ==
    dmaOn => \A t \in Tasks : m0ar \in Writing(t) =>
        m0ar = Cache(0) /\ (pc[t] = "poke" \/ flight.job = "char")

\* The busy flag is up exactly while a transfer is being set up, runs, or has
\* its interrupt pending: it neither lets a second sender in nor stays up.
SettingUp(t) == pc[t] \in {"address", "count", "enable"}
BusyExact ==
    busy = 1 <=> (dmaOn \/ tc \/ \E t \in Tasks : SettingUp(t))

\* The registers of the stream are never written while it is enabled: the
\* hardware would ignore the write and the message would be lost.
NoLostSetup == \A t \in Tasks : SettingUp(t) => ~dmaOn

\* What the comment at the mutex claims: while a task holds it no other uses the
\* transmitter.  The printf_ of the player refutes it.
ExclusiveTx == \A t, u \in Tasks : SettingUp(t) /\ SettingUp(u) => t = u

\* Message n of t was overwritten while it was sent, and an echo had a hand in it:
\* it was one, or one was written over it.
Spoilt(t, n) ==
    \E s \in spoiled : /\ s.lost.task = t
                       /\ s.lost.no = n
                       /\ "char" \in {s.lost.job, s.by.job}
                       /\ "print" \notin {s.lost.job, s.by.job}

\* The messages of a task reach the line in their order, and one that is missing
\* in between was spoiled by an echo.
WireInOrder ==
    [][\A t \in Tasks : wire'[t] # wire[t] =>
          /\ wire'[t] > wire[t]
          /\ \A n \in wire[t] + 1 .. wire'[t] - 1 : Spoilt(t, n)']_vars

\* When the stream is at rest everything that was handed over is on the line,
\* but for what an echo has spoiled.
NothingLost ==
    ~dmaOn /\ ~tc => \A t \in Tasks : pc[t] \in {"idle", "key", "locked"} =>
        \A n \in wire[t] + 1 .. sent[t] : Spoilt(t, n)

\* A character of printf_ is stored inside its buffer.
LineInBounds == \A t \in Tasks : pc[t] = "char" => lineIdx < LineLen

\* What the senders rely on between them: the flag, the place in the buffer of
\* printf_ and the messages handed over all agree with the stream.
SendersAgree == TypeOK /\ BusyExact /\ LineInBounds /\ NothingLost

\* Every send ends: no caller spins on the busy flag for ever.
EverySendEnds == \A t \in Tasks : pc[t] = "test" ~> pc[t] \in {"idle", "locked"}

=============================================================================
