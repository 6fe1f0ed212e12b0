------------------------------ MODULE CliConsole ------------------------------
(***************************************************************************)
(* The command line: characters that arrive on USART3, the interrupt that  *)
(* hands each burst of them to the queue xRxedChars, the console task that *)
(* collects them into a line, and the command interpreter, which is called *)
(* again and again for one line and keeps its place in static variables.   *)
(*                                                                         *)
(* A word stands for the characters of one word and the space before it,   *)
(* so the sizes are counted in words; keys are numbered as they arrive.    *)
(* What the console sends is SerialTx, what `play' starts is DacPlayer.    *)
(* External: the user.  Before the console runs, a key meets a program     *)
(* that is still starting.                                                 *)
(***************************************************************************)
EXTENDS Naturals, Sequences

CONSTANTS Words,        \* the words of a command
          Bursts,       \* keys that arrive without a pause between them
          BurstLimit,   \* 25: a burst as long as this is no typing
          QueueLength,  \* cmdQUEUE_LENGTH, 25
          InputSize,    \* cmdMAX_INPUT_SIZE, 50
          EarlyKeys,    \* whether keys arrive before the console runs
          MaxKeys       \* bound: keys of one behaviour

\* Enter, backspace and a character that cannot be printed.
Keys == Words \cup {"enter", "back", "other"}

ASSUME WordsAssumption ==
    /\ {"enter", "back", "other"} \cap Words = {}
    /\ Bursts \subseteq Seq(Keys) /\ <<>> \notin Bursts
ASSUME SizesAssumption ==
    /\ BurstLimit \in Nat /\ QueueLength \in Nat /\ InputSize \in Nat
    /\ MaxKeys \in Nat
ASSUME EarlyAssumption == EarlyKeys \in BOOLEAN

\* The registered commands and the parameters each expects.
Registered == <<"help", "top", "randint", "play", "ls">>
Expected   == <<0, 0, 2, 1, 0>>
Commands   == 1 .. 5

VARIABLES
    system,      \* how far the program has started, or what has stopped it
    dma,         \* dma_rx_buffer: the burst on its way
    rxIrq,       \* the line is idle: USART3's interrupt is pending
    rxq,         \* xRxedChars
    pc,          \* where the console task is
    input,       \* cInputString, as long as ucInputIndex says
    last,        \* cLastInputString
    command,     \* pxCommand of FreeRTOS_CLIProcessCommand, 0 for NULL
    helpAt,      \* pxCommand of prvHelpCommand, 0 for NULL
    number,      \* uxParameterNumber of prvRandIntCommand
    output,      \* cOutputBuffer
    more,        \* xReturned
    typed,       \* history: keys typed so far
    got,         \*   the last one the console read
    dropped,     \*   whether the driver has thrown any away
    step         \*   strings the interpreter has produced for this line,
                 \*   counted as far as MaxStrings

\* Bound: one string more than the longest answer has.
MaxStrings == 6

rxVars   == <<dma, rxIrq, rxq>>
lineVars == <<input, last>>
cliVars  == <<command, helpAt, number, output, more, step>>
keyVars  == <<typed, got, dropped>>
vars == <<system, rxVars, pc, lineVars, cliVars, keyVars>>

Key  == [no : Nat, key : Keys]
Line == Seq(Words)
Text == [what : {"", "unknown", "incorrect", "help", "table", "number", "list"},
         at : {0} \cup Commands]

Message(what) == [what |-> what, at |-> 0]
HelpOf(i)     == [what |-> "help", at |-> i]

TypeOK ==
    /\ system \in {"drivers", "kernel", "tasks", "up", "assert", "undefined"}
    /\ dma \in Seq(Key)
    /\ rxIrq \in BOOLEAN
    /\ rxq \in Seq(Key) /\ Len(rxq) <= QueueLength
    /\ pc \in {"wait", "process", "write", "finish"}
    /\ input \in Line /\ Len(input) <= InputSize
    /\ last \in Line /\ Len(last) <= InputSize
    /\ command \in {0} \cup Commands
    /\ helpAt \in {0} \cup Commands
    /\ number \in 1 .. 2
    /\ output \in Text
    /\ more \in BOOLEAN
    /\ typed \in 0 .. MaxKeys /\ got \in 0 .. MaxKeys
    /\ step \in 0 .. MaxStrings
    /\ dropped \in BOOLEAN

\* After ST_USART_Config, before SD_Init.
Init ==
    /\ system = "drivers"
    /\ dma = <<>> /\ rxIrq = FALSE /\ rxq = <<>>
    /\ pc = "wait"
    /\ input = <<>> /\ last = <<>>
    /\ command = 0 /\ helpAt = 0 /\ number = 1
    /\ output = Message("") /\ more = FALSE
    /\ typed = 0 /\ got = 0 /\ dropped = FALSE /\ step = 0

-----------------------------------------------------------------------------
(* Start *)

\* The first critical section of the kernel masks USART3's interrupt ...
EnterKernel ==
    /\ system = "drivers"
    /\ system' = "kernel"
    /\ UNCHANGED <<rxVars, pc, lineVars, cliVars, keyVars>>

\* ... and the start of the first task lets it through again.
StartScheduler ==
    /\ system = "kernel"
    /\ system' = "tasks"
    /\ UNCHANGED <<rxVars, pc, lineVars, cliVars, keyVars>>

\* The console creates xRxedChars.
CreateQueue ==
    /\ system = "tasks"
    /\ ~rxIrq
    /\ system' = "up"
    /\ UNCHANGED <<rxVars, pc, lineVars, cliVars, keyVars>>

-----------------------------------------------------------------------------
(* Reception *)

\* A burst is in dma_rx_buffer, behind any that the interrupt has not seen.
Arrive(burst) ==
    /\ system \notin {"assert", "undefined"}
    /\ EarlyKeys \/ system = "up"
    /\ typed + Len(burst) <= MaxKeys
    /\ dma' = dma \o [i \in 1 .. Len(burst) |-> [no |-> typed + i, key |-> burst[i]]]
    /\ typed' = typed + Len(burst)
    /\ rxIrq' = TRUE
    /\ UNCHANGED <<system, rxq, pc, lineVars, cliVars, got, dropped>>

\* xQueueSendFromISR, key by key, on a queue that may be full.
Queued(keys) == IF Len(keys) <= QueueLength THEN keys
                                            ELSE SubSeq(keys, 1, QueueLength)

\* The counter of the stream starts again.
Kept     == dma                                        \* mutant
Rewound  == <<>>

\* USART3_IRQHandler.
Receive ==
    /\ rxIrq
    /\ rxIrq' = FALSE
    /\ dma' = Rewound
    /\ \/ /\ Len(dma) >= BurstLimit
          /\ system \in {"drivers", "tasks", "up"}
          /\ dropped' = TRUE
          /\ UNCHANGED <<system, rxq>>
       \/ /\ Len(dma) < BurstLimit
          /\ system = "up"
          /\ rxq' = Queued(rxq \o dma)
          /\ dropped' = (dropped \/ rxq' # rxq \o dma)
          /\ UNCHANGED system
       \/ /\ Len(dma) < BurstLimit
          /\ system \in {"drivers", "tasks"}
          /\ system' = "assert"
          /\ UNCHANGED <<rxq, dropped>>
    /\ UNCHANGED <<pc, lineVars, cliVars, typed, got>>

-----------------------------------------------------------------------------
(* The console task *)

\* The task runs: it has started, and no interrupt is pending.
Runs(from, to) ==
    /\ system = "up"
    /\ ~rxIrq
    /\ pc = from
    /\ pc' = to

\* xSerialGetChar.
Get(k, to) ==
    /\ Runs("wait", to)
    /\ rxq # <<>>
    /\ k = Head(rxq).key
    /\ rxq' = Tail(rxq)
    /\ got' = Head(rxq).no
    /\ UNCHANGED <<dma, rxIrq, typed, dropped>>

\* A word is added while there is room for it.
AddWord ==
    /\ \E w \in Words :
          /\ Get(w, "wait")
          /\ input' = IF Len(input) < InputSize THEN Append(input, w) ELSE input
    /\ UNCHANGED <<system, last, cliVars>>

Erase ==
    /\ Get("back", "wait")
    /\ input' = IF input = <<>> THEN input ELSE SubSeq(input, 1, Len(input) - 1)
    /\ UNCHANGED <<system, last, cliVars>>

IgnoreKey ==
    /\ Get("other", "wait")
    /\ UNCHANGED <<system, lineVars, cliVars>>

\* A line that fills its array has no terminator.
Full(line) == Len(line) = InputSize

\* An empty line stands for the one before, which strcpy copies: past the end
\* of both arrays when that line was full.
EndLine ==
    /\ Get("enter", "process")
    /\ input' = IF input = <<>> THEN last ELSE input
    /\ system' = IF input = <<>> /\ Full(last) THEN "undefined" ELSE system
    /\ step' = 0
    /\ UNCHANGED <<last, command, helpAt, number, output, more>>

-----------------------------------------------------------------------------
(* The commands: each gives a text, or leaves the buffer as it is, and says *)
(* whether it has more.                                                     *)

Give(text, again) ==
    /\ output' = text
    /\ more' = again

\* The command after i in the list, 0 at its end.
EarlyEnd(i) == IF i = 4 THEN 0 ELSE i + 1              \* mutant
Circular(i) == IF i = 5 THEN 1 ELSE i + 1              \* mutant
NextInList(i) == IF i = 5 THEN 0 ELSE i + 1

HelpCommand ==
    LET at == IF helpAt = 0 THEN 1 ELSE helpAt IN
    /\ helpAt' = NextInList(at)
    /\ Give(HelpOf(at), helpAt' # 0)
    /\ UNCHANGED number

TaskStatsCommand ==
    /\ Give(Message("table"), FALSE)
    /\ UNCHANGED <<helpAt, number>>

\* Without the parameter that is next, xReturn is returned uninitialised.
HasParameter(n) == n < Len(input)
RandIntCommand ==
    /\ \/ /\ HasParameter(number)
          /\ number = 1
          /\ number' = 2
          /\ Give(Message(""), TRUE)
       \/ /\ HasParameter(number)
          /\ number = 2
          /\ number' = 1
          /\ Give(Message("number"), FALSE)
       \/ /\ ~HasParameter(number)
          /\ UNCHANGED number
          /\ \E again \in BOOLEAN : Give(output, again)
    /\ UNCHANGED helpAt

PlayMusicCommand ==
    /\ Give(output, FALSE)
    /\ UNCHANGED <<helpAt, number>>

\* fatfs_ls appends to what is there when the card has no file.
LsCommand ==
    /\ Give(Message("list"), FALSE) \/ Give(output, FALSE)
    /\ UNCHANGED <<helpAt, number>>

Interpret(i) ==
    /\ CASE Registered[i] = "help"    -> HelpCommand
         [] Registered[i] = "top"     -> TaskStatsCommand
         [] Registered[i] = "randint" -> RandIntCommand
         [] Registered[i] = "play"    -> PlayMusicCommand
         [] Registered[i] = "ls"      -> LsCommand
    /\ command' = IF more' THEN i ELSE 0

Named(line)  == {i \in Commands : line # <<>> /\ Registered[i] = Head(line)}

\* prvGetNumberOfParameters.
ParametersFit(line, i) == Len(line) - 1 = Expected[i]

\* FreeRTOS_CLIProcessCommand, which looks for the command in its first call.
ProcessCommand ==
    /\ Runs("process", "write")
    /\ ~(Full(input) /\ Named(input) # {})
    /\ step' = IF step < MaxStrings THEN step + 1 ELSE step
    /\ \/ /\ command # 0
          /\ Interpret(command)
       \/ /\ command = 0
          /\ \E i \in Named(input) : ParametersFit(input, i) /\ Interpret(i)
       \/ /\ command = 0
          /\ \E i \in Named(input) : ~ParametersFit(input, i)
          /\ Give(Message("incorrect"), FALSE)
          /\ UNCHANGED <<command, helpAt, number>>
       \/ /\ command = 0
          /\ Named(input) = {}
          /\ Give(Message("unknown"), FALSE)
          /\ UNCHANGED <<command, helpAt, number>>
    /\ UNCHANGED <<system, rxVars, lineVars, keyVars>>

\* The parameters of a full line are counted on behind the array.
Overrun ==
    /\ Runs("process", "process")
    /\ Full(input) /\ Named(input) # {}
    /\ system' = "undefined"
    /\ UNCHANGED <<rxVars, lineVars, cliVars, keyVars>>

\* vSerialPutString( xPort, pcOutputString, ... ), while( xReturned ).
WriteOutput ==
    /\ Runs("write", IF more THEN "process" ELSE "finish")
    /\ UNCHANGED <<system, rxVars, lineVars, cliVars, keyVars>>

\* strncpy, memset.
FinishLine ==
    /\ Runs("finish", "wait")
    /\ last' = input
    /\ input' = <<>>
    /\ UNCHANGED <<system, rxVars, cliVars, keyVars>>

-----------------------------------------------------------------------------

Console ==
    \/ AddWord \/ Erase \/ IgnoreKey \/ EndLine \/ Overrun
    \/ ProcessCommand \/ WriteOutput \/ FinishLine

Next ==
    \/ EnterKernel \/ StartScheduler \/ CreateQueue
    \/ \E burst \in Bursts : Arrive(burst)
    \/ Receive
    \/ Console

Spec == Init /\ [][Next]_vars

\* The interrupt is taken and the console task is scheduled.
Fairness == WF_vars(Receive) /\ WF_vars(Console)

FairSpec == Spec /\ Fairness

-----------------------------------------------------------------------------
(* Properties *)

\* The strings a line has to be answered with, whatever ran before it: how
\* many, and the n-th of them.
Understood(line, name) ==
    \E i \in Named(line) : Registered[i] = name /\ ParametersFit(line, i)

AnswerLength(line) ==
    CASE Understood(line, "help")    -> 5
      [] Understood(line, "randint") -> 2
      [] OTHER                       -> 1

Answer(line, n) ==
    CASE Understood(line, "help")    -> HelpOf(n)
      [] Understood(line, "top")     -> Message("table")
      [] Understood(line, "randint") -> Message(IF n = 1 THEN "" ELSE "number")
      [] Named(line) = {}            -> Message("unknown")
      [] OTHER                       -> Message("incorrect")

\* Two commands may leave the buffer as the command before them left it.
LeavesOutput(line) == Understood(line, "play") \/ Understood(line, "ls")

\* A line is answered with its own strings, in order and to the last one: what
\* the static variables of the interpreter hold from earlier lines is no part
\* of it.
AnswerIsOfLine ==
    /\ pc = "write" /\ ~LeavesOutput(input) => output = Answer(input, step)
    /\ pc = "write" => step <= AnswerLength(input)
    /\ pc = "finish" => step = AnswerLength(input)

\* The console reads every key once and in the order they were typed, unless
\* the driver has thrown some away.
Waiting == rxq \o dma
KeysInOrder ==
    ~dropped => /\ typed = got + Len(Waiting)
                /\ \A i \in 1 .. Len(Waiting) : Waiting[i].no = got + i

\* A command that is called again still finds its parameter: xReturn is set.
ReturnDefined ==
    \A i \in Commands :
        pc = "process" /\ command = i /\ Registered[i] = "randint" => HasParameter(number)

\* Every line is answered to its end.
EveryLineEnds == pc = "process" ~> pc = "wait" \/ system = "undefined"

\* No line finds what an earlier one has left in the interpreter.
LinesApart == TypeOK /\ AnswerIsOfLine /\ ReturnDefined

=============================================================================
