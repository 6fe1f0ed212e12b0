--------------------------- MODULE CliConsoleProofs ---------------------------
(***************************************************************************)
(* Proofs about CliConsole for any words, bursts, sizes of queue and line  *)
(* and any number of keys: keys reach the console in their order, and a    *)
(* line is answered with its own strings whatever the lines before it have *)
(* left in the static variables of the interpreter.                        *)
(***************************************************************************)
EXTENDS CliConsole, SequenceTheorems, TLAPS

\* A key on its way has been typed.
KeysTyped ==
    /\ \A i \in 1 .. Len(rxq) : rxq[i].no <= typed
    /\ \A i \in 1 .. Len(dma) : dma[i].no <= typed

\* The static variables as a line has to find them.
AtRest == command = 0 /\ helpAt = 0 /\ number = 1

\* A command that has more to say, after the string that step counts.
InHelp ==
    /\ Understood(input, "help") /\ step \in 1 .. 4
    /\ command = 1 /\ helpAt = step + 1 /\ number = 1
InRandInt ==
    /\ Understood(input, "randint") /\ step = 1
    /\ command = 3 /\ helpAt = 0 /\ number = 2

\* Where a line is in its answer: the interpreter has the place of this line
\* and no other, and is at rest when the answer is complete.
AnswerInv ==
    /\ pc \in {"wait", "finish"} => AtRest
    /\ pc = "process" => (step = 0 /\ AtRest) \/ InHelp \/ InRandInt
    /\ pc = "write" =>
          /\ IF more THEN InHelp \/ InRandInt
                     ELSE AtRest /\ step = AnswerLength(input)
          /\ ~LeavesOutput(input) => output = Answer(input, step)
    /\ pc = "finish" => step = AnswerLength(input)

IInv == TypeOK /\ KeysTyped /\ AnswerInv

-----------------------------------------------------------------------------
(* The command list and the answers *)

\* The list in its order.
LEMMA TheList ==
    /\ \A i \in Commands : i = 1 \/ i = 2 \/ i = 3 \/ i = 4 \/ i = 5
    /\ Registered[1] = "help" /\ Registered[2] = "top"
    /\ Registered[3] = "randint" /\ Registered[4] = "play"
    /\ Registered[5] = "ls"
    /\ Expected[1] = 0 /\ Expected[2] = 0 /\ Expected[3] = 2
    /\ Expected[4] = 1 /\ Expected[5] = 0
BY DEF Commands, Registered, Expected

\* No two commands of the list have one name: a line names one at most.
LEMMA NamesDiffer ==
    \A i, j \in Commands : Registered[i] = Registered[j] => i = j
BY TheList

LEMMA NamesOne ==
    ASSUME NEW line, NEW i \in Named(line), NEW j \in Named(line)
    PROVE  i = j
BY NamesDiffer DEF Named

\* A line understood is understood as one command.
LEMMA UnderstoodAs ==
    ASSUME NEW line, NEW i \in Named(line), ParametersFit(line, i)
    PROVE  \A name : Understood(line, name) <=> Registered[i] = name
BY NamesOne DEF Understood

LEMMA UnderstoodOnce ==
    ASSUME NEW line, NEW a, NEW b, Understood(line, a), Understood(line, b)
    PROVE  a = b
BY NamesOne DEF Understood

LEMMA HelpAnswer ==
    ASSUME NEW line, Understood(line, "help")
    PROVE  /\ AnswerLength(line) = 5
           /\ \A n : Answer(line, n) = HelpOf(n)
<1>1. /\ ~Understood(line, "top") /\ ~Understood(line, "randint")
      /\ Named(line) # {}
  BY UnderstoodOnce DEF Understood
<1>2. QED
  BY <1>1 DEF AnswerLength, Answer

LEMMA RandIntAnswer ==
    ASSUME NEW line, Understood(line, "randint")
    PROVE  /\ AnswerLength(line) = 2
           /\ Answer(line, 1) = Message("")
           /\ Answer(line, 2) = Message("number")
<1>1. /\ ~Understood(line, "help") /\ ~Understood(line, "top")
      /\ Named(line) # {}
  BY UnderstoodOnce DEF Understood
<1>2. AnswerLength(line) = 2
  BY <1>1 DEF AnswerLength
<1>3. Answer(line, 1) = Message("")
  <2>1. Answer(line, 1) = Message(IF 1 = 1 THEN "" ELSE "number")
    BY <1>1 DEF Answer
  <2>2. QED
    BY <2>1, Zenon
<1>4. Answer(line, 2) = Message("number")
  <2>1. Answer(line, 2) = Message(IF 2 = 1 THEN "" ELSE "number")
    BY <1>1 DEF Answer
  <2>2. (IF 2 = 1 THEN "" ELSE "number") = "number"
    OBVIOUS
  <2>3. QED
    BY <2>1, <2>2, Zenon
<1>5. QED
  BY <1>2, <1>3, <1>4

\* Every other line is answered with one string.
LEMMA OtherAnswer ==
    ASSUME NEW line, ~Understood(line, "help"), ~Understood(line, "randint")
    PROVE  /\ AnswerLength(line) = 1
           /\ Answer(line, 1) = IF Understood(line, "top") THEN Message("table")
                                ELSE IF Named(line) = {} THEN Message("unknown")
                                ELSE Message("incorrect")
<1>1. CASE Understood(line, "top")
  <2>1. Named(line) # {}
    BY <1>1 DEF Understood
  <2>2. QED
    BY <1>1, <2>1 DEF AnswerLength, Answer
<1>2. CASE ~Understood(line, "top")
  BY <1>2 DEF AnswerLength, Answer
<1>3. QED
  BY <1>1, <1>2

-----------------------------------------------------------------------------
(* Types *)

\* The keys of a burst are numbered on from those typed before.
LEMMA BurstKeys ==
    ASSUME NEW burst \in Bursts, typed \in Nat,
           NEW keys, keys = [i \in 1 .. Len(burst) |-> [no |-> typed + i, key |-> burst[i]]]
    PROVE  /\ keys \in Seq(Key) /\ Len(keys) = Len(burst) /\ Len(burst) \in Nat
           /\ \A i \in 1 .. Len(keys) : keys[i].no = typed + i
<1>1. burst \in Seq(Keys)
  BY WordsAssumption
<1>2. Len(burst) \in Nat /\ \A i \in 1 .. Len(burst) : burst[i] \in Keys
  BY <1>1
<1>3. \A i \in 1 .. Len(burst) : [no |-> typed + i, key |-> burst[i]] \in Key
  BY <1>2 DEF Key
<1>4. keys \in Seq(Key) /\ Len(keys) = Len(burst)
  BY <1>2, <1>3, IsASeq
<1>5. QED
  BY <1>2, <1>4

\* A queue that is full takes the first of the keys it is given.
LEMMA QueuedKeys ==
    ASSUME NEW keys \in Seq(Key)
    PROVE  /\ Queued(keys) \in Seq(Key)
           /\ Len(Queued(keys)) <= QueueLength /\ Len(Queued(keys)) <= Len(keys)
           /\ \A i \in 1 .. Len(Queued(keys)) : Queued(keys)[i] = keys[i]
<1>1. CASE Len(keys) <= QueueLength
  BY <1>1 DEF Queued
<1>2. CASE ~(Len(keys) <= QueueLength)
  <2>1. QueueLength \in Nat /\ Len(keys) \in Nat /\ QueueLength < Len(keys)
    BY <1>2, SizesAssumption
  <2>2. \A i \in 1 .. QueueLength : keys[i] \in Key
    BY <2>1
  <2>3. Queued(keys) = SubSeq(keys, 1, QueueLength)
    BY <1>2 DEF Queued
  <2>4. /\ SubSeq(keys, 1, QueueLength) \in Seq(Key)
        /\ Len(SubSeq(keys, 1, QueueLength)) = QueueLength
        /\ \A i \in 1 .. QueueLength : SubSeq(keys, 1, QueueLength)[i] = keys[i]
    BY <2>1, <2>2, SubSeqProperties
  <2>5. QED
    BY <2>1, <2>3, <2>4
<1>3. QED
  BY <1>1, <1>2

\* A command leaves the interpreter with values of their types.
LEMMA InterpretType ==
    ASSUME TypeOK, NEW i \in Commands, Interpret(i)
    PROVE  /\ command' \in {0} \cup Commands /\ helpAt' \in {0} \cup Commands
           /\ number' \in 1 .. 2 /\ output' \in Text /\ more' \in BOOLEAN
<1>1. \A what \in {"", "table", "number", "list"} : Message(what) \in Text
  BY DEF Message, Text
<1>2. \A n \in Commands : HelpOf(n) \in Text /\ NextInList(n) \in {0} \cup Commands
  BY DEF HelpOf, Text, NextInList, Commands
<1>3. i = 1 \/ i = 2 \/ i = 3 \/ i = 4 \/ i = 5
  BY TheList
<1>4. CASE i = 1
  <2>1. HelpCommand /\ command' = IF more' THEN i ELSE 0
    BY <1>4, TheList DEF Interpret
  <2>2. (IF helpAt = 0 THEN 1 ELSE helpAt) \in Commands
    BY DEF TypeOK, Commands
  <2>3. QED
    <3> DEFINE at == IF helpAt = 0 THEN 1 ELSE helpAt
    <3>1. /\ helpAt' = NextInList(at) /\ output' = HelpOf(at)
          /\ more' = (helpAt' # 0) /\ number' = number
      BY <2>1 DEF HelpCommand, Give
    <3>2. helpAt' \in {0} \cup Commands /\ output' \in Text
      BY <2>2, <3>1, <1>2
    <3>3. QED
      BY <2>1, <3>1, <3>2 DEF TypeOK
<1>5. CASE i = 2
  <2>1. TaskStatsCommand /\ command' = IF more' THEN i ELSE 0
    BY <1>5, TheList DEF Interpret
  <2>2. QED
    BY <2>1, <1>1 DEF TypeOK, TaskStatsCommand, Give
<1>6. CASE i = 3
  <2>1. RandIntCommand /\ command' = IF more' THEN i ELSE 0
    BY <1>6, TheList DEF Interpret
  <2>2. helpAt' \in {0} \cup Commands /\ number' \in 1 .. 2
    <3>1. helpAt' = helpAt /\ (number' = 1 \/ number' = 2 \/ number' = number)
      BY <2>1, Zenon DEF RandIntCommand
    <3>2. QED
      BY <3>1 DEF TypeOK
  <2>3. output' \in Text /\ more' \in BOOLEAN
    BY <2>1, <1>1 DEF TypeOK, RandIntCommand, Give
  <2>4. QED
    BY <2>1, <2>2, <2>3
<1>7. CASE i = 4
  <2>1. PlayMusicCommand /\ command' = IF more' THEN i ELSE 0
    BY <1>7, TheList DEF Interpret
  <2>2. QED
    BY <2>1, <1>1 DEF TypeOK, PlayMusicCommand, Give
<1>8. CASE i = 5
  <2>1. LsCommand /\ command' = IF more' THEN i ELSE 0
    BY <1>8, TheList DEF Interpret
  <2>2. QED
    BY <2>1, <1>1 DEF TypeOK, LsCommand, Give
<1>9. QED
  BY <1>3, <1>4, <1>5, <1>6, <1>7, <1>8

-----------------------------------------------------------------------------
(* Types *)

\* A step of the reception that adds a burst.
LEMMA ArriveType ==
    ASSUME TypeOK, KeysTyped, NEW burst \in Bursts, Arrive(burst)
    PROVE  TypeOK' /\ KeysTyped'
<1> DEFINE keys == [i \in 1 .. Len(burst) |-> [no |-> typed + i, key |-> burst[i]]]
<1>1. /\ keys \in Seq(Key) /\ Len(keys) = Len(burst) /\ Len(burst) \in Nat
      /\ \A i \in 1 .. Len(keys) : keys[i].no = typed + i
  <2>1. typed \in Nat
    BY DEF TypeOK
  <2>2. QED
    BY <2>1, BurstKeys
<1>2. /\ dma' = dma \o keys /\ typed' = typed + Len(burst) /\ typed' <= MaxKeys
      /\ rxIrq' = TRUE
      /\ UNCHANGED <<system, rxq, pc, lineVars, cliVars, got, dropped>>
  BY DEF Arrive
<1> HIDE DEF keys
<1>3. /\ dma' \in Seq(Key) /\ Len(dma') = Len(dma) + Len(keys)
      /\ \A i \in 1 .. Len(dma') :
            dma'[i] = IF i <= Len(dma) THEN dma[i] ELSE keys[i - Len(dma)]
  <2>1. dma \in Seq(Key)
    BY DEF TypeOK
  <2>2. /\ dma \o keys \in Seq(Key) /\ Len(dma \o keys) = Len(dma) + Len(keys)
        /\ \A i \in 1 .. Len(dma) + Len(keys) : (dma \o keys)[i] =
              IF i <= Len(dma) THEN dma[i] ELSE keys[i - Len(dma)]
    BY <2>1, <1>1, ConcatProperties
  <2>3. QED
    BY <2>2, <1>2
<1>4. typed' \in 0 .. MaxKeys /\ typed <= typed'
  BY <1>1, <1>2, SizesAssumption DEF TypeOK
<1>5. TypeOK'
  BY <1>2, <1>3, <1>4 DEF TypeOK, lineVars, cliVars
<1>6. ASSUME NEW i \in 1 .. Len(dma')
      PROVE  dma'[i].no <= typed'
  <2>1. Len(dma) \in Nat /\ Len(keys) \in Nat /\ typed \in Nat
    BY <1>1, LenProperties DEF TypeOK
  <2>2. CASE i <= Len(dma)
    <3>1. dma'[i] = dma[i] /\ i \in 1 .. Len(dma)
      BY <2>1, <2>2, <1>3
    <3>2. dma[i].no \in Nat /\ dma[i].no <= typed
      <4>1. dma \in Seq(Key) /\ dma[i].no <= typed
        BY <3>1 DEF TypeOK, KeysTyped
      <4>2. dma[i] \in Key
        BY <3>1, <4>1, ElementOfSeq
      <4>3. QED
        BY <4>1, <4>2 DEF Key
    <3>3. QED
      BY <2>1, <3>1, <3>2, <1>4
  <2>3. CASE ~(i <= Len(dma))
    <3>1. dma'[i] = keys[i - Len(dma)] /\ i - Len(dma) \in 1 .. Len(keys)
      BY <2>1, <2>3, <1>3
    <3>2. dma'[i].no = typed + (i - Len(dma))
      BY <3>1, <1>1
    <3>3. QED
      BY <2>1, <3>1, <3>2, <1>1, <1>2
  <2>4. QED
    BY <2>2, <2>3
<1>7. ASSUME NEW i \in 1 .. Len(rxq')
      PROVE  rxq'[i].no <= typed'
  <2>1. rxq' = rxq /\ rxq \in Seq(Key) /\ rxq[i].no <= typed /\ typed \in Nat
    BY <1>2 DEF TypeOK, KeysTyped
  <2>2. rxq[i] \in Key
    BY <2>1, ElementOfSeq
  <2>3. rxq[i].no \in Nat
    BY <2>2 DEF Key
  <2>4. QED
    BY <2>1, <2>3, <1>4
<1>8. QED
  BY <1>5, <1>6, <1>7 DEF KeysTyped

\* The interrupt hands the burst over, or part of it, or throws it away.
LEMMA ReceiveType ==
    ASSUME TypeOK, KeysTyped, Receive
    PROVE  TypeOK' /\ KeysTyped'
<1>1. /\ rxIrq' = FALSE /\ dma' = <<>>
      /\ UNCHANGED <<pc, lineVars, cliVars, typed, got>>
  BY DEF Receive, Rewound
<1>2. system' \in {"drivers", "kernel", "tasks", "up", "assert", "undefined"}
  BY DEF Receive, TypeOK
<1>3. rxq' = rxq \/ rxq' = Queued(rxq \o dma)
  BY DEF Receive
<1>4. dropped' \in BOOLEAN
  BY DEF Receive, TypeOK
<1>5. /\ rxq' \in Seq(Key) /\ Len(rxq') <= QueueLength
      /\ \A i \in 1 .. Len(rxq') : rxq'[i].no <= typed
  <2>1. CASE rxq' = rxq
    BY <2>1 DEF TypeOK, KeysTyped
  <2>2. CASE rxq' = Queued(rxq \o dma)
    <3>1. /\ rxq \o dma \in Seq(Key) /\ Len(rxq \o dma) = Len(rxq) + Len(dma)
          /\ \A i \in 1 .. Len(rxq) + Len(dma) : (rxq \o dma)[i] =
                IF i <= Len(rxq) THEN rxq[i] ELSE dma[i - Len(rxq)]
      BY ConcatProperties DEF TypeOK
    <3>2. Len(rxq) \in Nat /\ Len(dma) \in Nat
      BY LenProperties DEF TypeOK
    <3>3. \A i \in 1 .. Len(rxq) + Len(dma) : (rxq \o dma)[i].no <= typed
      BY <3>1, <3>2 DEF KeysTyped
    <3>4. /\ rxq' \in Seq(Key) /\ Len(rxq') <= QueueLength
          /\ Len(rxq') <= Len(rxq \o dma) /\ Len(rxq') \in Nat
          /\ \A i \in 1 .. Len(rxq') : rxq'[i] = (rxq \o dma)[i]
      BY <2>2, <3>1, QueuedKeys, LenProperties
    <3>5. QED
      BY <3>1, <3>2, <3>3, <3>4
  <2>3. QED
    BY <1>3, <2>1, <2>2
<1>6. TypeOK'
  BY <1>1, <1>2, <1>4, <1>5, EmptySeq DEF TypeOK, lineVars, cliVars
<1>7. KeysTyped'
  BY <1>1, <1>5, EmptySeq DEF KeysTyped
<1>8. QED
  BY <1>6, <1>7

\* The console reads the key at the head of the queue.
LEMMA GetKey ==
    ASSUME TypeOK, NEW k, NEW to, Get(k, to)
    PROVE  /\ rxq # <<>> /\ rxq' = Tail(rxq) /\ got' = Head(rxq).no /\ pc' = to
           /\ UNCHANGED <<dma, rxIrq, typed, dropped>>
           /\ rxq \in Seq(Key) /\ Len(rxq) \in Nat \ {0}
           /\ Head(rxq) = rxq[1] /\ Head(rxq) \in Key
           /\ Tail(rxq) \in Seq(Key) /\ Len(Tail(rxq)) = Len(rxq) - 1
           /\ \A i \in 1 .. Len(Tail(rxq)) : Tail(rxq)[i] = rxq[i + 1]
<1>1. /\ rxq # <<>> /\ rxq' = Tail(rxq) /\ got' = Head(rxq).no /\ pc' = to
      /\ UNCHANGED <<dma, rxIrq, typed, dropped>>
  BY DEF Get, Runs
<1>2. rxq \in Seq(Key) /\ Head(rxq) = rxq[1]
  BY DEF TypeOK
<1>3. QED
  BY <1>1, <1>2, HeadTailProperties, EmptySeq

\* The keys that the console reads change its line within its limits.
LEMMA KeyType ==
    ASSUME TypeOK, KeysTyped, AddWord \/ Erase \/ IgnoreKey \/ EndLine
    PROVE  TypeOK' /\ KeysTyped'
<1>1. PICK k, to : Get(k, to) /\ to \in {"wait", "process"}
  BY DEF AddWord, Erase, IgnoreKey, EndLine
<1>2. /\ rxq' = Tail(rxq) /\ got' = Head(rxq).no /\ pc' \in {"wait", "process"}
      /\ UNCHANGED <<dma, rxIrq, typed, dropped>>
      /\ Len(rxq) \in Nat \ {0} /\ Head(rxq) = rxq[1] /\ Head(rxq) \in Key
      /\ rxq' \in Seq(Key) /\ Len(rxq') = Len(rxq) - 1
      /\ \A i \in 1 .. Len(rxq') : rxq'[i] = rxq[i + 1]
  BY <1>1, GetKey
<1>3. got' \in 0 .. MaxKeys
  <2>1. Head(rxq).no \in Nat /\ Head(rxq).no <= typed
    BY <1>2 DEF KeysTyped, Key
  <2>2. QED
    BY <1>2, <2>1, SizesAssumption DEF TypeOK
<1>4. Len(rxq') <= QueueLength
  BY <1>2, SizesAssumption DEF TypeOK
<1>5. KeysTyped'
  BY <1>2 DEF KeysTyped
<1>6. /\ input' \in Line /\ Len(input') <= InputSize
      /\ last' = last /\ step' \in {0, step} /\ system' \in {system, "undefined"}
      /\ UNCHANGED <<command, helpAt, number, output, more>>
  <2>1. input \in Seq(Words) /\ Len(input) \in Nat
    BY LenProperties DEF TypeOK, Line
  <2>2. CASE AddWord
    <3>1. PICK w \in Words : input' = IF Len(input) < InputSize
                                      THEN Append(input, w) ELSE input
      BY <2>2 DEF AddWord
    <3>2. Append(input, w) \in Line /\ Len(Append(input, w)) = Len(input) + 1
      BY <2>1, AppendProperties DEF Line
    <3>3. input' \in Line /\ Len(input') <= InputSize
      BY <2>1, <3>1, <3>2, SizesAssumption DEF TypeOK
    <3>4. QED
      BY <2>2, <3>3 DEF AddWord, cliVars
  <2>3. CASE Erase
    <3>1. input' = IF input = <<>> THEN input
                                   ELSE SubSeq(input, 1, Len(input) - 1)
      BY <2>3 DEF Erase
    <3>2. \A i \in 1 .. Len(input) - 1 : input[i] \in Words
      BY <2>1
    <3>3. /\ SubSeq(input, 1, Len(input) - 1) \in Line
          /\ Len(SubSeq(input, 1, Len(input) - 1)) <= Len(input)
      BY <2>1, <3>2, SubSeqProperties DEF Line
    <3>4. Len(SubSeq(input, 1, Len(input) - 1)) \in Nat
      BY <3>3, LenProperties DEF Line
    <3>5. input' \in Line /\ Len(input') <= InputSize
      BY <2>1, <3>1, <3>3, <3>4, SizesAssumption DEF TypeOK
    <3>6. QED
      BY <2>3, <3>5 DEF Erase, cliVars
  <2>4. CASE IgnoreKey
    BY <2>4 DEF IgnoreKey, lineVars, cliVars, TypeOK
  <2>5. CASE EndLine
    BY <2>5 DEF EndLine, TypeOK
  <2>6. QED
    BY <2>2, <2>3, <2>4, <2>5
<1>7. TypeOK'
  BY <1>2, <1>3, <1>4, <1>6 DEF TypeOK, MaxStrings
<1>8. QED
  BY <1>5, <1>7

\* A command leaves the interpreter with values of their types.
LEMMA CommandType ==
    ASSUME TypeOK, ProcessCommand
    PROVE  /\ command' \in {0} \cup Commands /\ helpAt' \in {0} \cup Commands
           /\ number' \in 1 .. 2 /\ output' \in Text /\ more' \in BOOLEAN
<1>1. CASE command # 0 /\ Interpret(command)
  <2>1. command \in Commands
    BY <1>1 DEF TypeOK
  <2>2. QED
    BY <1>1, <2>1, InterpretType
<1>2. CASE \E i \in Named(input) : ParametersFit(input, i) /\ Interpret(i)
  <2>1. PICK i \in Named(input) : Interpret(i)
    BY <1>2
  <2>2. i \in Commands
    BY DEF Named
  <2>3. QED
    BY <2>1, <2>2, InterpretType
<1>3. CASE /\ \/ Give(Message("incorrect"), FALSE)
              \/ Give(Message("unknown"), FALSE)
           /\ UNCHANGED <<command, helpAt, number>>
  <2>1. Message("incorrect") \in Text /\ Message("unknown") \in Text
    BY DEF Message, Text
  <2>2. output' \in Text /\ more' \in BOOLEAN
    BY <1>3, <2>1 DEF Give
  <2>3. QED
    BY <1>3, <2>2 DEF TypeOK
<1>4. QED
  BY <1>1, <1>2, <1>3 DEF ProcessCommand

\* Every step keeps the types, and no key has a number not yet given.
LEMMA TypeStep ==
    ASSUME TypeOK, KeysTyped, [Next]_vars
    PROVE  TypeOK' /\ KeysTyped'
<1>1. CASE EnterKernel \/ StartScheduler \/ CreateQueue
  <2>1. /\ system' \in {"kernel", "tasks", "up"}
        /\ UNCHANGED <<rxVars, pc, lineVars, cliVars, keyVars>>
    BY <1>1 DEF EnterKernel, StartScheduler, CreateQueue
  <2>2. QED
    BY <2>1 DEF TypeOK, KeysTyped, rxVars, lineVars, cliVars, keyVars
<1>2. ASSUME NEW burst \in Bursts, Arrive(burst)
      PROVE  TypeOK' /\ KeysTyped'
  BY <1>2, ArriveType
<1>3. CASE Receive
  BY <1>3, ReceiveType
<1>4. CASE AddWord \/ Erase \/ IgnoreKey \/ EndLine
  BY <1>4, KeyType
<1>5. CASE ProcessCommand
  <2>1. /\ pc' = "write" /\ step' \in 0 .. MaxStrings
        /\ UNCHANGED <<system, rxVars, lineVars, keyVars>>
    BY <1>5 DEF ProcessCommand, Runs, TypeOK, MaxStrings
  <2>2. QED
    BY <1>5, <2>1, CommandType
    DEF TypeOK, KeysTyped, rxVars, lineVars, keyVars
<1>6. CASE Overrun \/ WriteOutput
  <2>1. /\ pc' \in {"process", "finish"} /\ system' \in {system, "undefined"}
        /\ UNCHANGED <<rxVars, lineVars, cliVars, keyVars>>
    BY <1>6 DEF Overrun, WriteOutput, Runs
  <2>2. QED
    BY <2>1 DEF TypeOK, KeysTyped, rxVars, lineVars, cliVars, keyVars
<1>7. CASE FinishLine
  <2>1. <<>> \in Line /\ Len(<<>>) = 0
    BY EmptySeq DEF Line
  <2>2. QED
    BY <1>7, <2>1, SizesAssumption
    DEF FinishLine, Runs, TypeOK, KeysTyped, rxVars, cliVars, keyVars
<1>8. CASE UNCHANGED vars
  BY <1>8 DEF vars, TypeOK, KeysTyped, rxVars, lineVars, cliVars, keyVars
<1>9. QED
  BY <1>1, <1>2, <1>3, <1>4, <1>5, <1>6, <1>7, <1>8 DEF Next, Console

LEMMA TypeInit ==
    ASSUME Init
    PROVE  TypeOK /\ KeysTyped
<1>1. /\ <<>> \in Seq(Key) /\ <<>> \in Line /\ Len(<<>>) = 0
  BY EmptySeq DEF Line
<1>2. Message("") \in Text
  BY DEF Message, Text
<1> DEFINE Empty(s) == s \in Seq(Key) /\ Len(s) = 0
             Blank(s) == s \in Line /\ Len(s) = 0
<1>3. Empty(dma) /\ Empty(rxq) /\ Blank(input) /\ Blank(last)
  BY <1>1, Zenon DEF Init
<1>4. TypeOK
  <2>1. /\ system = "drivers" /\ rxIrq = FALSE /\ pc = "wait" /\ command = 0
        /\ helpAt = 0 /\ number = 1 /\ output \in Text /\ more = FALSE
        /\ typed = 0 /\ got = 0 /\ dropped = FALSE /\ step = 0
    BY <1>2 DEF Init
  <2>2. /\ dma \in Seq(Key) /\ rxq \in Seq(Key) /\ Len(rxq) <= QueueLength
        /\ input \in Line /\ Len(input) <= InputSize
        /\ last \in Line /\ Len(last) <= InputSize
    BY <1>3, SizesAssumption
  <2>3. /\ command \in {0} \cup Commands /\ helpAt \in {0} \cup Commands
        /\ number \in 1 .. 2 /\ step \in 0 .. MaxStrings
        /\ typed \in 0 .. MaxKeys /\ got \in 0 .. MaxKeys
    BY <2>1, SizesAssumption DEF MaxStrings
  <2>4. QED
    BY <2>1, <2>2, <2>3 DEF TypeOK
<1>5. KeysTyped
  BY <1>3 DEF KeysTyped
<1>6. QED
  BY <1>4, <1>5

-----------------------------------------------------------------------------
(* The answer *)

\* A call of the interpreter for a line it has begun: the command that has the
\* line gives the next string and keeps its place, or is through.
LEMMA NextString ==
    ASSUME TypeOK, AnswerInv, pc = "process", command # 0, Interpret(command),
           input' = input,
           step' = IF step < MaxStrings THEN step + 1 ELSE step
    PROVE  /\ IF more' THEN (InHelp \/ InRandInt)'
                       ELSE AtRest' /\ step' = AnswerLength(input)
           /\ output' = Answer(input, step')
<1>1. InHelp \/ InRandInt
  BY DEF AnswerInv, AtRest
<1>2. CASE InHelp
  <2>1. HelpCommand /\ command' = IF more' THEN 1 ELSE 0
    BY <1>2, TheList DEF InHelp, Interpret
  <2>2. step' = step + 1 /\ step \in 1 .. 4
    BY <1>2 DEF InHelp, MaxStrings
  <2>3. /\ helpAt' = NextInList(step') /\ output' = HelpOf(step')
        /\ more' = (helpAt' # 0) /\ number' = 1
    BY <1>2, <2>1, <2>2 DEF InHelp, HelpCommand, Give
  <2>4. AnswerLength(input) = 5 /\ output' = Answer(input, step')
    BY <1>2, <2>3, HelpAnswer DEF InHelp
  <2>5. CASE step = 4
    <3>1. helpAt' = 0 /\ step' = 5
      BY <2>2, <2>3, <2>5 DEF NextInList
    <3>2. QED
      BY <2>1, <2>3, <2>4, <3>1 DEF AtRest
  <2>6. CASE step # 4
    <3>1. helpAt' = step' + 1 /\ step' \in 1 .. 4
      BY <2>2, <2>3, <2>6 DEF NextInList
    <3>2. more' = TRUE /\ command' = 1
      <4>1. helpAt' # 0
        BY <3>1
      <4>2. QED
        BY <2>1, <2>3, <4>1, Zenon
    <3>3. Understood(input', "help")
      BY <1>2 DEF InHelp
    <3>4. InHelp'
      BY <2>3, <3>1, <3>2, <3>3 DEF InHelp
    <3>5. QED
      BY <2>4, <3>2, <3>4
  <2>7. QED
    BY <2>5, <2>6
<1>3. CASE InRandInt
  <2>1. RandIntCommand /\ command' = IF more' THEN 3 ELSE 0
    BY <1>3, TheList DEF InRandInt, Interpret
  <2>2. step' = 2 /\ number = 2 /\ helpAt = 0
    BY <1>3 DEF InRandInt, MaxStrings
  <2>3. HasParameter(number)
    <3>1. PICK i \in Named(input) : Registered[i] = "randint" /\ ParametersFit(input, i)
      BY <1>3 DEF InRandInt, Understood
    <3>2. i = 3
      BY <3>1, TheList DEF Named
    <3>3. Len(input) - 1 = 2 /\ Len(input) \in Nat
      BY <3>1, <3>2, TheList, LenProperties DEF ParametersFit, TypeOK, Line
    <3>4. QED
      BY <2>2, <3>3 DEF HasParameter
  <2>4. number' = 1 /\ helpAt' = 0 /\ more' = FALSE /\ output' = Message("number")
    BY <2>1, <2>2, <2>3 DEF RandIntCommand, Give
  <2>5. AnswerLength(input) = 2 /\ Answer(input, 2) = Message("number")
    BY <1>3, RandIntAnswer DEF InRandInt
  <2>6. QED
    BY <2>1, <2>2, <2>4, <2>5 DEF AtRest
<1>4. QED
  BY <1>1, <1>2, <1>3

\* The first call for a line that is understood, with the interpreter at rest.
LEMMA FirstString ==
    ASSUME TypeOK, AtRest, step' = 1, input' = input,
           NEW i \in Named(input), ParametersFit(input, i), Interpret(i)
    PROVE  /\ IF more' THEN (InHelp \/ InRandInt)'
                       ELSE AtRest' /\ step' = AnswerLength(input)
           /\ ~LeavesOutput(input) => output' = Answer(input, step')
<1>1. i \in Commands /\ command = 0 /\ helpAt = 0 /\ number = 1
  BY DEF Named, AtRest
<1>2. \A name : Understood(input, name) <=> Registered[i] = name
  BY UnderstoodAs
<1>3. i = 1 \/ i = 2 \/ i = 3 \/ i = 4 \/ i = 5
  BY <1>1, TheList
<1>4. CASE i = 1
  <2>1. HelpCommand /\ command' = IF more' THEN 1 ELSE 0
    BY <1>4, TheList DEF Interpret
  <2>2. helpAt' = 2 /\ output' = HelpOf(1) /\ more' = TRUE /\ number' = 1
    <3>1. /\ helpAt' = NextInList(1) /\ output' = HelpOf(1)
          /\ more' = (helpAt' # 0) /\ number' = 1
      BY <1>1, <2>1, Zenon DEF HelpCommand, Give
    <3>2. helpAt' = 2 /\ 2 # 0
      BY <3>1 DEF NextInList
    <3>3. QED
      BY <3>1, <3>2, Zenon
  <2>3. Understood(input, "help")
    BY <1>2, <1>4, TheList
  <2>4. output' = Answer(input, 1)
    BY <2>2, <2>3, HelpAnswer
  <2>5. InHelp'
    BY <2>1, <2>2, <2>3 DEF InHelp
  <2>6. QED
    BY <2>2, <2>4, <2>5
<1>5. CASE i = 3
  <2>1. RandIntCommand /\ command' = IF more' THEN 3 ELSE 0
    BY <1>5, TheList DEF Interpret
  <2>2. Len(input) - 1 = 2 /\ Len(input) \in Nat
    BY <1>5, TheList, LenProperties DEF ParametersFit, TypeOK, Line
  <2>3. HasParameter(number)
    BY <1>1, <2>2 DEF HasParameter
  <2>4. number' = 2 /\ helpAt' = 0 /\ more' = TRUE /\ output' = Message("")
    <3>1. number # 2
      BY <1>1
    <3>2. number' = 2 /\ Give(Message(""), TRUE) /\ UNCHANGED helpAt
      BY <2>1, <2>3, <3>1, Zenon DEF RandIntCommand
    <3>3. QED
      BY <1>1, <3>2 DEF Give
  <2>5. Understood(input, "randint")
    BY <1>2, <1>5, TheList
  <2>6. output' = Answer(input, 1)
    BY <2>4, <2>5, RandIntAnswer
  <2>7. InRandInt'
    BY <2>1, <2>4, <2>5 DEF InRandInt
  <2>8. QED
    BY <2>4, <2>6, <2>7
<1>6. CASE i = 2 \/ i = 4 \/ i = 5
  <2>1. ~Understood(input, "help") /\ ~Understood(input, "randint")
    BY <1>2, <1>6, TheList
  <2>2. AnswerLength(input) = 1
    BY <2>1, OtherAnswer
  <2>3. /\ more' = FALSE /\ helpAt' = helpAt /\ number' = number
        /\ i = 2 => output' = Message("table")
    <3>1. CASE i = 2
      BY <3>1, TheList DEF Interpret, TaskStatsCommand, Give
    <3>2. CASE i = 4
      BY <3>2, TheList DEF Interpret, PlayMusicCommand, Give
    <3>3. CASE i = 5
      BY <3>3, TheList DEF Interpret, LsCommand, Give
    <3>4. QED
      BY <1>6, <3>1, <3>2, <3>3
  <2>4. command' = 0
    BY <2>3 DEF Interpret
  <2>5. ~LeavesOutput(input) => output' = Answer(input, 1)
    <3>1. LeavesOutput(input) <=> i = 4 \/ i = 5
      BY <1>2, <1>6, TheList DEF LeavesOutput
    <3>2. i = 2 => Understood(input, "top")
      BY <1>2, TheList
    <3>3. QED
      BY <1>6, <2>1, <2>3, <3>1, <3>2, OtherAnswer
  <2>6. QED
    BY <1>1, <2>2, <2>3, <2>4, <2>5 DEF AtRest
<1>7. QED
  BY <1>3, <1>4, <1>5, <1>6

\* A call for a line that is not.
LEMMA WrongLine ==
    ASSUME TypeOK, AtRest, step' = 1, UNCHANGED <<command, helpAt, number>>,
           \/ /\ \E i \in Named(input) : ~ParametersFit(input, i)
              /\ Give(Message("incorrect"), FALSE)
           \/ /\ Named(input) = {}
              /\ Give(Message("unknown"), FALSE)
    PROVE  /\ more' = FALSE /\ AtRest' /\ step' = AnswerLength(input)
           /\ output' = Answer(input, step')
<1>1. more' = FALSE /\ AtRest'
  BY DEF Give, AtRest
<1>2. \A name : ~Understood(input, name)
  BY NamesOne DEF Understood
<1>3. /\ AnswerLength(input) = 1
      /\ Answer(input, 1) = IF Named(input) = {} THEN Message("unknown")
                                                 ELSE Message("incorrect")
  BY <1>2, OtherAnswer
<1>4. output' = IF Named(input) = {} THEN Message("unknown")
                                     ELSE Message("incorrect")
  BY DEF Give
<1>5. QED
  BY <1>1, <1>3, <1>4

\* Every step keeps the interpreter in its place.
LEMMA AnswerStep ==
    ASSUME IInv, [Next]_vars
    PROVE  AnswerInv'
<1> USE DEF IInv
<1>1. CASE \/ EnterKernel \/ StartScheduler \/ CreateQueue \/ Receive
           \/ \E burst \in Bursts : Arrive(burst)
           \/ UNCHANGED vars
  <2>1. UNCHANGED <<pc, lineVars, cliVars>>
    BY <1>1 DEF EnterKernel, StartScheduler, CreateQueue, Receive, Arrive, vars
  <2>2. QED
    BY <2>1 DEF AnswerInv, AtRest, InHelp, InRandInt, lineVars, cliVars
<1>2. CASE AddWord \/ Erase \/ IgnoreKey
  <2>1. pc = "wait" /\ pc' = "wait" /\ UNCHANGED cliVars
    BY <1>2 DEF AddWord, Erase, IgnoreKey, Get, Runs
  <2>2. QED
    BY <2>1 DEF AnswerInv, AtRest, cliVars
<1>3. CASE EndLine
  <2>1. /\ pc = "wait" /\ pc' = "process" /\ step' = 0
        /\ UNCHANGED <<command, helpAt, number>>
    BY <1>3 DEF EndLine, Get, Runs
  <2>2. QED
    BY <2>1 DEF AnswerInv, AtRest
<1>4. CASE Overrun
  BY <1>4 DEF Overrun, Runs, AnswerInv, AtRest, InHelp, InRandInt, lineVars, cliVars
<1>5. CASE ProcessCommand
  <2>1. /\ pc = "process" /\ pc' = "write" /\ input' = input
        /\ step' = IF step < MaxStrings THEN step + 1 ELSE step
    BY <1>5 DEF ProcessCommand, Runs, lineVars
  <2>2. command = 0 => AtRest /\ step' = 1
    BY <2>1 DEF AnswerInv, InHelp, InRandInt, MaxStrings
  <2>3. /\ IF more' THEN (InHelp \/ InRandInt)'
                    ELSE AtRest' /\ step' = AnswerLength(input)
        /\ ~LeavesOutput(input) => output' = Answer(input, step')
    <3>1. CASE command # 0 /\ Interpret(command)
      BY <2>1, <3>1, NextString
    <3>2. CASE /\ command = 0
               /\ \E i \in Named(input) : ParametersFit(input, i) /\ Interpret(i)
      BY <2>1, <2>2, <3>2, FirstString
    <3>3. CASE /\ command = 0 /\ UNCHANGED <<command, helpAt, number>>
               /\ \/ /\ \E i \in Named(input) : ~ParametersFit(input, i)
                     /\ Give(Message("incorrect"), FALSE)
                  \/ /\ Named(input) = {}
                     /\ Give(Message("unknown"), FALSE)
      BY <2>2, <3>3, WrongLine
    <3>4. QED
      BY <1>5, <3>1, <3>2, <3>3 DEF ProcessCommand
  <2>4. QED
    BY <2>1, <2>3 DEF AnswerInv
<1>6. CASE WriteOutput
  <2>1. /\ pc = "write" /\ pc' = IF more THEN "process" ELSE "finish"
        /\ UNCHANGED <<lineVars, cliVars>>
    BY <1>6 DEF WriteOutput, Runs
  <2>2. IF more THEN InHelp \/ InRandInt
                ELSE AtRest /\ step = AnswerLength(input)
    BY <2>1 DEF AnswerInv
  <2>3. CASE more
    BY <2>1, <2>2, <2>3 DEF AnswerInv, InHelp, InRandInt, lineVars, cliVars
  <2>4. CASE ~more
    BY <2>1, <2>2, <2>4 DEF AnswerInv, AtRest, lineVars, cliVars
  <2>5. QED
    BY <2>3, <2>4
<1>7. CASE FinishLine
  BY <1>7 DEF FinishLine, Runs, AnswerInv, AtRest, cliVars
<1>8. QED
  BY <1>1, <1>2, <1>3, <1>4, <1>5, <1>6, <1>7 DEF Next, Console

LEMMA Answering ==
    Spec => []IInv
<1>1. Init => IInv
  <2>1. Init => AnswerInv
    BY DEF Init, AnswerInv, AtRest
  <2>2. QED
    BY <2>1, TypeInit DEF IInv
<1>2. IInv /\ [Next]_vars => IInv'
  <2>1. IInv /\ [Next]_vars => (TypeOK /\ KeysTyped)'
    BY TypeStep DEF IInv
  <2>2. IInv /\ [Next]_vars => AnswerInv'
    BY AnswerStep
  <2>3. QED
    BY <2>1, <2>2 DEF IInv
<1>3. QED
  BY <1>1, <1>2, PTL DEF Spec

\* No line finds what an earlier one has left: every line gets its own strings,
\* in their order and to the last, and randint always finds its parameter.
THEOREM LinesAreApart == Spec => []LinesApart
<1>1. IInv => AnswerIsOfLine
  <2>1. ASSUME AnswerInv, pc = "write"
        PROVE  step <= AnswerLength(input)
    <3>1. CASE more /\ InHelp
      <4>1. step \in 1 .. 4 /\ Understood(input, "help")
        BY <3>1 DEF InHelp
      <4>2. AnswerLength(input) = 5
        BY <4>1, HelpAnswer
      <4>3. QED
        BY <4>1, <4>2
    <3>2. CASE more /\ InRandInt
      <4>1. step = 1 /\ Understood(input, "randint")
        BY <3>2 DEF InRandInt
      <4>2. AnswerLength(input) = 2
        BY <4>1, RandIntAnswer
      <4>3. QED
        BY <4>1, <4>2
    <3>3. CASE ~more
      <4>1. step = AnswerLength(input)
        BY <2>1, <3>3 DEF AnswerInv
      <4>2. AnswerLength(input) \in Nat
        BY DEF AnswerLength
      <4>3. QED
        BY <4>1, <4>2
    <3>4. QED
      BY <2>1, <3>1, <3>2, <3>3 DEF AnswerInv
  <2>2. QED
    BY <2>1 DEF IInv, AnswerInv, AnswerIsOfLine
<1>2. IInv => ReturnDefined
  <2>1. ASSUME IInv, NEW i \in Commands, pc = "process", command = i,
               Registered[i] = "randint"
        PROVE  HasParameter(number)
    <3>1. i = 3
      BY <2>1, TheList
    <3>2. InRandInt
      BY <2>1, <3>1 DEF IInv, AnswerInv, AtRest, InHelp
    <3>3. PICK j \in Named(input) : Registered[j] = "randint" /\ ParametersFit(input, j)
      BY <3>2 DEF InRandInt, Understood
    <3>4. j = 3
      BY <3>3, TheList DEF Named
    <3>5. Len(input) - 1 = 2 /\ Len(input) \in Nat
      <4>1. input \in Seq(Words)
        BY <2>1 DEF IInv, TypeOK, Line
      <4>2. Len(input) \in Nat
        BY <4>1, LenProperties
      <4>3. Len(input) - 1 = Expected[3]
        BY <3>3, <3>4 DEF ParametersFit
      <4>4. QED
        BY <4>2, <4>3, TheList
    <3>6. QED
      <4>1. number = 2
        BY <3>2 DEF InRandInt
      <4>2. QED
        BY <3>5, <4>1 DEF HasParameter
  <2>2. QED
    BY <2>1 DEF ReturnDefined
<1>3. IInv => LinesApart
  BY <1>1, <1>2 DEF LinesApart, IInv
<1>4. QED
  BY <1>3, Answering, PTL

-----------------------------------------------------------------------------
(* The order of the keys *)

\* Keys are in their order as long as no interrupt has met a program that is
\* still starting; without early keys none can.
Order ==
    /\ system # "assert" => KeysInOrder
    /\ ~EarlyKeys => system # "assert" /\ (rxIrq => system \in {"up", "undefined"})

\* The keys on their way, one by one.
LEMMA JoinedKeys ==
    ASSUME NEW q \in Seq(Key), NEW d \in Seq(Key)
    PROVE  /\ q \o d \in Seq(Key) /\ Len(q \o d) = Len(q) + Len(d)
           /\ Len(q) \in Nat /\ Len(d) \in Nat
           /\ \A i \in 1 .. Len(q \o d) : (q \o d)[i] =
                 IF i <= Len(q) THEN q[i] ELSE d[i - Len(q)]
BY ConcatProperties, LenProperties

LEMMA WaitingKeys ==
    ASSUME TypeOK
    PROVE  /\ Waiting \in Seq(Key) /\ Len(Waiting) = Len(rxq) + Len(dma)
           /\ Len(rxq) \in Nat /\ Len(dma) \in Nat
           /\ \A i \in 1 .. Len(Waiting) : Waiting[i] =
                 IF i <= Len(rxq) THEN rxq[i] ELSE dma[i - Len(rxq)]
<1>1. rxq \in Seq(Key) /\ dma \in Seq(Key)
  BY DEF TypeOK
<1>2. QED
  BY <1>1, JoinedKeys DEF Waiting

LEMMA ArriveOrder ==
    ASSUME TypeOK, TypeOK', KeysInOrder, NEW burst \in Bursts, Arrive(burst)
    PROVE  KeysInOrder'
<1> DEFINE keys == [i \in 1 .. Len(burst) |-> [no |-> typed + i, key |-> burst[i]]]
<1>1. typed \in Nat /\ got \in Nat
  BY DEF TypeOK
<1>2. /\ keys \in Seq(Key) /\ Len(keys) = Len(burst) /\ Len(burst) \in Nat
      /\ \A i \in 1 .. Len(keys) : keys[i].no = typed + i
  BY <1>1, BurstKeys
<1>3. /\ dma' = dma \o keys /\ typed' = typed + Len(burst)
      /\ UNCHANGED <<rxq, got, dropped>>
  BY DEF Arrive
<1> HIDE DEF keys
<1>4. Waiting' = Waiting \o keys
  <2>1. rxq \in Seq(Key) /\ dma \in Seq(Key)
    BY DEF TypeOK
  <2>2. (rxq \o dma) \o keys = rxq \o (dma \o keys)
    BY <2>1, <1>2, ConcatAssociative
  <2>3. QED
    BY <1>3, <2>2 DEF Waiting
<1>5. /\ Waiting \in Seq(Key) /\ Len(Waiting) \in Nat
      /\ Len(Waiting') = Len(Waiting) + Len(keys)
      /\ \A i \in 1 .. Len(Waiting) + Len(keys) : Waiting'[i] =
            IF i <= Len(Waiting) THEN Waiting[i] ELSE keys[i - Len(Waiting)]
  <2>1. Waiting \in Seq(Key)
    BY WaitingKeys
  <2>2. /\ Len(Waiting) \in Nat
        /\ Len(Waiting \o keys) = Len(Waiting) + Len(keys)
        /\ \A i \in 1 .. Len(Waiting \o keys) : (Waiting \o keys)[i] =
              IF i <= Len(Waiting) THEN Waiting[i] ELSE keys[i - Len(Waiting)]
    BY <2>1, <1>2, JoinedKeys
  <2>3. QED
    BY <2>1, <2>2, <1>4
<1>6. CASE dropped
  BY <1>3, <1>6 DEF KeysInOrder
<1>7. CASE ~dropped
  <2>1. typed = got + Len(Waiting) /\ \A i \in 1 .. Len(Waiting) : Waiting[i].no = got + i
    BY <1>7 DEF KeysInOrder
  <2>2. typed' = got' + Len(Waiting')
    BY <1>1, <1>2, <1>3, <1>5, <2>1
  <2>3. ASSUME NEW i \in 1 .. Len(Waiting')
        PROVE  Waiting'[i].no = got' + i
    <3>1. CASE i <= Len(Waiting)
      <4>1. i \in 1 .. Len(Waiting) /\ Waiting'[i] = Waiting[i]
        BY <3>1, <1>2, <1>5
      <4>2. QED
        BY <4>1, <1>3, <2>1
    <3>2. CASE ~(i <= Len(Waiting))
      <4>1. i - Len(Waiting) \in 1 .. Len(keys) /\ Waiting'[i] = keys[i - Len(Waiting)]
        BY <3>2, <1>2, <1>5
      <4>2. QED
        BY <4>1, <1>1, <1>2, <1>3, <1>5, <2>1
    <3>3. QED
      BY <3>1, <3>2
  <2>4. QED
    BY <2>2, <2>3 DEF KeysInOrder
<1>8. QED
  BY <1>6, <1>7

LEMMA ReceiveOrder ==
    ASSUME TypeOK, KeysInOrder, Receive, system' # "assert"
    PROVE  KeysInOrder'
<1>1. /\ dma' = <<>> /\ UNCHANGED <<typed, got>>
      /\ \/ dropped' = TRUE
         \/ /\ rxq' = Queued(rxq \o dma)
            /\ dropped' = (dropped \/ rxq' # rxq \o dma)
  BY DEF Receive, Rewound
<1>2. CASE dropped'
  BY <1>2 DEF KeysInOrder
<1>3. CASE ~dropped'
  <2>1. rxq' = Waiting /\ ~dropped
    BY <1>1, <1>3 DEF Waiting
  <2>2. Waiting' = rxq' \o <<>>
    BY <1>1 DEF Waiting
  <2>3. Waiting' = Waiting
    BY <2>1, <2>2, WaitingKeys, ConcatEmptySeq
  <2>4. QED
    BY <1>1, <2>1, <2>3 DEF KeysInOrder
<1>4. QED
  BY <1>2, <1>3

LEMMA GetOrder ==
    ASSUME TypeOK, TypeOK', KeysInOrder, NEW k, NEW to, Get(k, to)
    PROVE  KeysInOrder'
<1>1. /\ rxq' = Tail(rxq) /\ got' = Head(rxq).no
      /\ UNCHANGED <<dma, typed, dropped>>
      /\ Len(rxq) \in Nat \ {0} /\ Head(rxq) = rxq[1]
      /\ Len(rxq') = Len(rxq) - 1
      /\ \A i \in 1 .. Len(rxq') : rxq'[i] = rxq[i + 1]
  BY GetKey
<1>2. /\ Len(Waiting) = Len(rxq) + Len(dma) /\ Len(dma) \in Nat
      /\ \A i \in 1 .. Len(Waiting) : Waiting[i] =
            IF i <= Len(rxq) THEN rxq[i] ELSE dma[i - Len(rxq)]
  BY WaitingKeys
<1>3. /\ Len(Waiting') = Len(rxq') + Len(dma')
      /\ \A i \in 1 .. Len(Waiting') : Waiting'[i] =
            IF i <= Len(rxq') THEN rxq'[i] ELSE dma'[i - Len(rxq')]
  <2>1. rxq' \in Seq(Key) /\ dma' \in Seq(Key)
    BY DEF TypeOK
  <2>2. QED
    BY <2>1, JoinedKeys DEF Waiting
<1>4. CASE dropped
  BY <1>1, <1>4 DEF KeysInOrder
<1>5. CASE ~dropped
  <2>1. typed = got + Len(Waiting) /\ \A i \in 1 .. Len(Waiting) : Waiting[i].no = got + i
    BY <1>5 DEF KeysInOrder
  <2>2. typed \in Nat /\ got \in Nat
    BY DEF TypeOK
  <2>3. got' = got + 1
    <3>1. 1 \in 1 .. Len(Waiting) /\ Waiting[1] = rxq[1]
      BY <1>1, <1>2
    <3>2. QED
      BY <1>1, <2>1, <3>1
  <2>4. typed' = got' + Len(Waiting')
    BY <1>1, <1>2, <1>3, <2>1, <2>2, <2>3
  <2>5. ASSUME NEW i \in 1 .. Len(Waiting')
        PROVE  Waiting'[i].no = got' + i
    <3>1. i + 1 \in 1 .. Len(Waiting)
      BY <1>1, <1>2, <1>3
    <3>2. Waiting'[i] = Waiting[i + 1]
      <4>1. CASE i <= Len(rxq')
        BY <4>1, <3>1, <1>1, <1>2, <1>3
      <4>2. CASE ~(i <= Len(rxq'))
        <5>1. i - Len(rxq') = (i + 1) - Len(rxq) /\ ~(i + 1 <= Len(rxq))
          BY <4>2, <1>1
        <5>2. Waiting'[i] = dma[i - Len(rxq')]
          BY <4>2, <1>1, <1>3
        <5>3. Waiting[i + 1] = dma[(i + 1) - Len(rxq)]
          BY <5>1, <3>1, <1>2
        <5>4. QED
          BY <5>1, <5>2, <5>3
      <4>3. QED
        BY <4>1, <4>2
    <3>3. Waiting[i + 1].no = got + (i + 1)
      BY <3>1, <2>1
    <3>4. QED
      BY <3>2, <3>3, <2>2, <2>3
  <2>6. QED
    BY <2>4, <2>5 DEF KeysInOrder
<1>6. QED
  BY <1>4, <1>5

\* The console reads every key once and in the order it was typed, unless the
\* driver has thrown some away; a key before the console runs is the exception.
THEOREM KeysOrdered == ~EarlyKeys => (Spec => []KeysInOrder)
<1> SUFFICES ASSUME ~EarlyKeys
             PROVE  Spec => []KeysInOrder
  OBVIOUS
<1>1. Init => Order
  <2>1. ASSUME Init
        PROVE  Len(Waiting) = 0
    <3>1. Len(Waiting) = Len(rxq) + Len(dma)
      BY <2>1, TypeInit, WaitingKeys
    <3>2. Len(rxq) = 0 /\ Len(dma) = 0
      BY <2>1, EmptySeq DEF Init
    <3>3. QED
      BY <3>1, <3>2
  <2>2. ASSUME Init
        PROVE  KeysInOrder
    <3>1. typed = 0 /\ got = 0
      BY <2>2 DEF Init
    <3>2. QED
      BY <2>1, <2>2, <3>1 DEF KeysInOrder
  <2>3. QED
    BY <2>2 DEF Init, Order
<1>2. IInv /\ Order /\ [Next]_vars => Order'
  <2> SUFFICES ASSUME IInv, Order, [Next]_vars
               PROVE  Order'
    OBVIOUS
  <2>1. TypeOK /\ TypeOK' /\ KeysInOrder
    BY TypeStep DEF IInv, Order
  <2>2. CASE EnterKernel \/ StartScheduler \/ CreateQueue
    <3>1. UNCHANGED <<rxVars, keyVars>> /\ system' # "assert"
          /\ (rxIrq' => rxIrq /\ system \in {"drivers", "kernel", "tasks"})
      BY <2>2 DEF EnterKernel, StartScheduler, CreateQueue, rxVars
    <3>2. QED
      BY <2>1, <3>1 DEF Order, KeysInOrder, Waiting, rxVars, keyVars
  <2>3. CASE \E burst \in Bursts : Arrive(burst)
    <3>1. KeysInOrder'
      BY <2>1, <2>3, ArriveOrder
    <3>2. system' = "up"
      BY <2>3 DEF Arrive
    <3>3. QED
      BY <3>1, <3>2 DEF Order
  <2>4. CASE Receive
    <3>1. system' # "assert" /\ ~rxIrq'
      BY <2>4 DEF Receive, Order
    <3>2. KeysInOrder'
      BY <2>1, <2>4, <3>1, ReceiveOrder
    <3>3. QED
      BY <3>1, <3>2 DEF Order
  <2>5. CASE AddWord \/ Erase \/ IgnoreKey \/ EndLine
    <3>1. PICK k, to : Get(k, to)
      BY <2>5 DEF AddWord, Erase, IgnoreKey, EndLine
    <3>2. KeysInOrder'
      BY <2>1, <3>1, GetOrder
    <3>3. system' \in {"up", "undefined"}
      BY <2>5 DEF AddWord, Erase, IgnoreKey, EndLine, Get, Runs
    <3>4. QED
      BY <3>2, <3>3 DEF Order
  <2>6. CASE ProcessCommand \/ WriteOutput \/ FinishLine \/ Overrun \/ UNCHANGED vars
    <3>1. /\ UNCHANGED <<rxVars, keyVars>>
          /\ system' = system \/ system' = "undefined"
      BY <2>6 DEF ProcessCommand, WriteOutput, FinishLine, Overrun, vars
    <3>2. QED
      BY <2>1, <3>1 DEF Order, KeysInOrder, Waiting, rxVars, keyVars
  <2>7. QED
    BY <2>2, <2>3, <2>4, <2>5, <2>6 DEF Next, Console
<1>3. Order => KeysInOrder
  BY DEF Order
<1>4. QED
  BY <1>1, <1>2, <1>3, Answering, PTL DEF Spec

=============================================================================
