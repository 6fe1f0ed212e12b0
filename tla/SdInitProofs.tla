---------------------------- MODULE SdInitProofs ----------------------------
(***************************************************************************)
(* Proofs about SdInit, for any number of trials, any cards and any number *)
(* of disturbed commands: success is true, a healthy card is initialised,  *)
(* driver and card stay in step.                                           *)
(***************************************************************************)
EXTENDS SdInit, TLAPS

-----------------------------------------------------------------------------
(* The inductive invariant *)

Powering == {"cmd0", "cmd8", "first55", "second55", "loop55", "acmd41"}
Naming   == Powering \cup {"cmd2", "cmd3"}
Reading  == Naming \cup {"cmd9"}

Zero   == <<"cmd0", "command">> \in faults
Eight  == <<"cmd8", "damaged">> \in faults
Six    == <<"acmd6", "answer">> \in faults \/ <<"acmd6", "damaged">> \in faults

\* The card has not come to the command the driver is at.
Unheard == phase = "send" \/ line = at

\* No flag is up before an answer, but for the one that a damaged answer to CMD8
\* leaves to the command after it.
Quiet == flags = {} \/ (at = "second55" /\ flags = {"crc"} /\ Eight)

\* What the flags may say when the command the driver is at is over.
Heard ==
    /\ flags # {}
    /\ at = "cmd0" => flags = {"end"}
    /\ at = "cmd8" => flags \in {{"end"}, {"timeout"}} \/ (flags = {"crc"} /\ Eight)
    /\ at = "acmd41" =>
          \/ flags \in {{"timeout"}, {"crc", "busy"}}
          \/ flags = {"crc"} /\ kind # "hc"
          \/ flags = {"crc", "ccs"} /\ kind = "hc"
    /\ at \notin {"second55", "acmd41"} =>
          flags \in {{"end"}, {"endIllegal"}, {"crc"}, {"timeout"}}

\* One command at a time, answered before the next is sent.
Talk ==
    /\ phase = "send" => line = "free" /\ Quiet
    /\ phase = "wait" => (line = at /\ Quiet) \/ (line = "free" /\ Heard)
    /\ phase = "scr"  => at = "acmd51" /\ line = "free" /\ flags = {}
    /\ phase = "end"  => line = "free" \/ (line = at /\ at = "second55")

\* What the driver knows by the command it is at.
Knows ==
    /\ at \in Powering => CardType # "HIGH_CAPACITY"
    /\ at \notin Powering => (CardType = "HIGH_CAPACITY" <=> kind = "hc")
    /\ at \notin Naming => rca
    /\ at \notin Reading => blocks = CardBlocks
    /\ result = "none" <=> phase # "end"
    /\ hostWide <=> result = "ok"
    /\ count < Trials \/ (count = Trials /\ result = "error")

\* The SCR: its words are on the card, in the FIFO or read, and only ACMD51
\* touches the data path.
Data ==
    /\ at \notin {"acmd51", "wide55", "acmd6"} \/ (at = "acmd51" /\ Unheard)
          => fifo = 0 /\ toSend = 0
    /\ at \notin {"acmd51", "wide55", "acmd6"} => words = 0
    /\ at = "acmd51" /\ phase \in {"send", "wait"} => words = 0
    /\ words + fifo + toSend <= 2
    /\ card = "sending" \/ dataFlag # "none" =>
          at = "acmd51" /\ phase # "send" /\ line = "free"
    /\ dpath => at = "acmd51" /\ phase # "send"
    /\ dataFlag = "end" => ~dpath /\ card # "sending"

\* The width of the card's lines, and what it will say about illegal commands.
Card ==
    /\ app => ~illegal
    /\ at = "cmd0" \/ (at = "cmd8" /\ Unheard) => ~illegal
    /\ cardWide => kind # "none"
    /\ cardWide => \/ Zero
                   \/ at = "cmd0" /\ Unheard
                   \/ at = "acmd6" /\ ~Unheard
    /\ at = "acmd6" /\ phase = "wait" /\ line = "free" =>
          IF flags = {"end"} THEN cardWide /\ card = "tran" ELSE cardWide => Zero \/ Six
    /\ at = "acmd6" /\ result = "error" => (cardWide => Zero \/ Six)
    /\ result = "ok" => /\ at = "acmd6" /\ line = "free" /\ flags = {}
                        /\ cardWide /\ card = "tran"

\* Without disturbance a good card is where the driver believes it to be.
Good == faults = {} /\ kind \in SdCards /\ ~locked /\ wideCard

Before(m) == CASE m \in Powering -> "idle"
               [] m = "cmd2" -> "ready"
               [] m = "cmd3" -> "ident"
               [] m \in {"cmd9", "cmd7"} -> "stby"
               [] OTHER -> "tran"

Ready ==
    /\ at = "cmd0" \/ card = Before(at)
    /\ at \in {"acmd41", "acmd51", "acmd6"} => app
    /\ illegal <=> at = "first55"

Done ==
    /\ illegal <=> at = "cmd8" /\ kind = "v1"
    /\ at \in {"loop55", "scr55", "wide55"} => app
    /\ at = "cmd8" => flags = {IF kind = "v1" THEN "timeout" ELSE "end"}
    /\ at = "first55" => flags = {"endIllegal"}
    /\ at = "acmd41" =>
          \/ card = "idle" /\ flags = {"crc", "busy"}
          \/ card = "ready" /\ flags \in {{"crc"}, {"crc", "ccs"}}
    /\ at \notin {"cmd8", "first55", "acmd41"} => flags = {"end"}
    /\ at # "acmd41" =>
          card = CASE at \in Powering -> "idle"
                   [] at = "cmd2" -> "ident"
                   [] at \in {"cmd3", "cmd9"} -> "stby"
                   [] at = "acmd51" -> "sending"
                   [] OTHER -> "tran"

Health ==
    Good =>
        /\ phase = "send" \/ (phase = "wait" /\ line = at) => Ready
        /\ phase = "wait" /\ line = "free" => Done
        /\ phase = "scr" => \/ dataFlag = "none" /\ card = "sending"
                            \/ dataFlag = "end" /\ card = "tran" /\ words > 0
        /\ phase = "scr" => ~illegal
        /\ result = "error" => count = Trials

IInv == TypeOK /\ Talk /\ Knows /\ Data /\ Card /\ Health
-----------------------------------------------------------------------------
(* Types, part by part *)

DriverTyped ==
    /\ at \in Steps /\ phase \in {"send", "wait", "scr", "end"}
    /\ result \in {"none", "ok", "error"}
    /\ CardType \in {"V1_1", "V2_0", "HIGH_CAPACITY"}
    /\ hcs \in BOOLEAN /\ count \in 0 .. Trials /\ rca \in BOOLEAN
    /\ blocks \in Nat /\ hostWide \in BOOLEAN /\ words \in 0 .. 2

SdioTyped ==
    /\ flags \subseteq {"end", "endIllegal", "crc", "timeout", "busy", "ccs"}
    /\ dpath \in BOOLEAN
    /\ dataFlag \in {"none", "end", "error"} /\ fifo \in 0 .. 2
    /\ line \in Steps \cup {"free"}

SlotTyped ==
    kind \in Cards /\ csd \in Csds /\ locked \in BOOLEAN /\ wideCard \in BOOLEAN

CardTyped ==
    /\ card \in {"idle", "ready", "ident", "stby", "tran", "sending"}
    /\ app \in BOOLEAN /\ illegal \in BOOLEAN /\ cardWide \in BOOLEAN
    /\ toSend \in 0 .. 2

FaultsTyped ==
    faults \subseteq (Steps \X {"command", "answer", "damaged", "data", "late"})

LEMMA Typing ==
    TypeOK <=> DriverTyped /\ SdioTyped /\ SlotTyped /\ CardTyped /\ FaultsTyped
BY DEF TypeOK, DriverTyped, SdioTyped, SlotTyped, CardTyped, FaultsTyped

LEMMA TypingNext ==
    ASSUME DriverTyped', SdioTyped', SlotTyped', CardTyped', FaultsTyped'
    PROVE  TypeOK'
BY DEF TypeOK, DriverTyped, SdioTyped, SlotTyped, CardTyped, FaultsTyped

-----------------------------------------------------------------------------
(* The initial states *)

LEMMA IInit == Init => IInv
<1> SUFFICES ASSUME Init
             PROVE  IInv
  OBVIOUS
<1> USE TrialsAssumption DEF Init
<1>1. TypeOK
  <2>1. DriverTyped
    <3>1. hcs \in BOOLEAN /\ rca \in BOOLEAN /\ hostWide \in BOOLEAN
      OBVIOUS
    <3>2. QED
      BY <3>1 DEF DriverTyped, Steps
  <2>2. SdioTyped
    <3>1. dpath \in BOOLEAN
      OBVIOUS
    <3>2. QED
      BY <3>1 DEF SdioTyped
  <2>3. SlotTyped
    BY DEF SlotTyped
  <2>4. CardTyped
    <3>1. app \in BOOLEAN /\ illegal \in BOOLEAN /\ cardWide \in BOOLEAN
      OBVIOUS
    <3>2. QED
      BY <3>1 DEF CardTyped
  <2>5. FaultsTyped
    BY DEF FaultsTyped
  <2>6. QED
    BY <2>1, <2>2, <2>3, <2>4, <2>5, Typing
<1>2. Talk
  BY DEF Talk, Quiet
<1>3. Knows
  BY DEF Knows, Powering, Naming, Reading
<1>4. Data
  BY DEF Data, Unheard
<1>5. Card
  BY DEF Card, Unheard, SdCards
<1>6. Health
  BY DEF Health, Ready, Before
<1>7. QED
  BY <1>1, <1>2, <1>3, <1>4, <1>5, <1>6 DEF IInv

-----------------------------------------------------------------------------
(* The size of a card *)

\* Powers of two as far as a CSD has them.
LEMMA Powers ==
    ASSUME NEW n \in Nat
    PROVE  /\ (n = 2 => 2 ^ n = 4) /\ (n = 3 => 2 ^ n = 8) /\ (n = 4 => 2 ^ n = 16)
           /\ (n = 5 => 2 ^ n = 32) /\ (n = 6 => 2 ^ n = 64) /\ (n = 7 => 2 ^ n = 128)
           /\ (n = 8 => 2 ^ n = 256) /\ (n = 9 => 2 ^ n = 512)
           /\ (n = 10 => 2 ^ n = 1024) /\ (n = 11 => 2 ^ n = 2048)
<1>1. n = 2 => 2 ^ n = 4
  OBVIOUS
<1>2. n = 3 => 2 ^ n = 8
  OBVIOUS
<1>3. n = 4 => 2 ^ n = 16
  OBVIOUS
<1>4. n = 5 => 2 ^ n = 32
  OBVIOUS
<1>5. n = 6 => 2 ^ n = 64
  OBVIOUS
<1>6. n = 7 => 2 ^ n = 128
  OBVIOUS
<1>7. n = 8 => 2 ^ n = 256
  OBVIOUS
<1>8. n = 9 => 2 ^ n = 512
  OBVIOUS
<1>9. n = 10 => 2 ^ n = 1024
  OBVIOUS
<1>10. n = 11 => 2 ^ n = 2048
  OBVIOUS
<1>11. QED
  BY <1>1, <1>2, <1>3, <1>4, <1>5, <1>6, <1>7, <1>8, <1>9, <1>10

\* The product of the multiplier and the block length is a multiple of a sector.
Sectors(m, k) ==
    /\ 2 ^ (m + 2) \in Nat /\ 2 ^ (m + 2 + k - 9) \in Nat /\ 2 ^ k \in Nat
    /\ 2 ^ (m + 2) * 2 ^ k = 512 * 2 ^ (m + 2 + k - 9)

LEMMA PowerSum ==
    ASSUME NEW m \in 0 .. 7, NEW k \in 9 .. 11
    PROVE  Sectors(m, k)
<1> DEFINE Pow(n, x) ==
      /\ (n = 2 => x = 4) /\ (n = 3 => x = 8) /\ (n = 4 => x = 16)
      /\ (n = 5 => x = 32) /\ (n = 6 => x = 64) /\ (n = 7 => x = 128)
      /\ (n = 8 => x = 256) /\ (n = 9 => x = 512)
      /\ (n = 10 => x = 1024) /\ (n = 11 => x = 2048)
<1>1. ASSUME NEW p \in 2 .. 9, NEW n \in 9 .. 11, NEW x \in Nat, NEW y \in Nat,
             NEW z \in Nat, Pow(p, x), Pow(p + n - 9, y), Pow(n, z)
      PROVE  x * z = 512 * y
  <2>1. CASE n = 9
    <3>1. z = 512 /\ x = y
      BY <1>1, <2>1
    <3>2. QED
      BY <3>1
  <2>2. CASE n = 10
    <3>1. z = 1024 /\ y = 2 * x
      BY <1>1, <2>2
    <3>2. QED
      BY <3>1
  <2>3. CASE n = 11
    <3>1. z = 2048 /\ y = 4 * x
      BY <1>1, <2>3
    <3>2. QED
      BY <3>1
  <2>4. QED
    BY <2>1, <2>2, <2>3
<1>2. ASSUME NEW n \in 2 .. 11, NEW x, Pow(n, x)
      PROVE  x \in Nat
  BY <1>2
<1>3. m + 2 \in 2 .. 9 /\ m + 2 + k - 9 \in 2 .. 11 /\ k \in 9 .. 11
  OBVIOUS
<1>4. Pow(m + 2, 2 ^ (m + 2)) /\ 2 ^ (m + 2) \in Nat
  BY <1>2, <1>3, Powers
<1>5. Pow(m + 2 + k - 9, 2 ^ (m + 2 + k - 9)) /\ 2 ^ (m + 2 + k - 9) \in Nat
  BY <1>2, <1>3, Powers
<1>6. Pow(k, 2 ^ k) /\ 2 ^ k \in Nat
  BY <1>2, <1>3, Powers
<1> HIDE DEF Pow
<1>7. QED
  BY <1>1, <1>3, <1>4, <1>5, <1>6 DEF Sectors

\* SD_GetCardInfo: the capacity in bytes is the number of sectors of the card.
LEMMA SizeIsRight ==
    ASSUME csd \in Csds, CardType = "HIGH_CAPACITY" <=> kind = "hc"
    PROVE  Capacity(csd) \div 512 = CardBlocks /\ CardBlocks \in Nat
<1>1. csd.size \in Nat /\ csd.mul \in 0 .. 7 /\ csd.len \in 9 .. 11
  BY CsdsAssumption
<1>2. ASSUME NEW a \in Nat, NEW x \in Nat, NEW z \in Nat, NEW y \in Nat, x * z = 512 * y
      PROVE  (a * x * z) \div 512 = a * y
  <2>1. a * x * z = a * (x * z)
    OBVIOUS
  <2>2. a * x * z = 512 * (a * y)
    BY <1>2, <2>1
  <2>3. a * y \in Nat
    OBVIOUS
  <2>4. QED
    BY <2>2, <2>3
<1>3. CASE kind = "hc"
  BY <1>1, <1>3 DEF Capacity, CardBlocks
<1>4. CASE kind # "hc"
  <2>1. PICK a \in Nat, m \in 0 .. 7, k \in 9 .. 11 :
           a = csd.size + 1 /\ m = csd.mul /\ k = csd.len
    BY <1>1
  <2>2. Capacity(csd) = a * 2 ^ (m + 2) * 2 ^ k
    BY <1>4, <2>1, Zenon DEF Capacity
  <2>3. CardBlocks = a * 2 ^ (m + 2 + k - 9)
    BY <1>4, <2>1, Zenon DEF CardBlocks
  <2>4. DEFINE x == 2 ^ (m + 2)
               z == 2 ^ k
               y == 2 ^ (m + 2 + k - 9)
  <2>5. x \in Nat /\ y \in Nat /\ z \in Nat /\ x * z = 512 * y
    <3>1. Sectors(m, k)
      BY PowerSum
    <3>2. QED
      BY <3>1 DEF Sectors
  <2> HIDE DEF x, y, z
  <2>6. (a * x * z) \div 512 = a * y /\ a * y \in Nat
    BY <1>2, <2>5
  <2>7. QED
    BY <2>2, <2>3, <2>6 DEF x, y, z
<1>5. QED
  BY <1>3, <1>4

-----------------------------------------------------------------------------
(* Answers *)

\* Only an answer lets the driver go on.
LEMMA FineAnswer ==
    ASSUME IInv, Fine1
    PROVE  /\ phase = "wait" /\ line = "free" /\ Heard
           /\ at \notin {"second55", "acmd41"} => flags = {"end"}
           /\ flags' = {} /\ dataFlag' = "none"
<1>1. /\ phase = "wait" /\ flags # {} /\ "crc" \notin flags
      /\ flags' = {} /\ dataFlag' = "none"
  BY DEF Fine1, Answer1, Accepted, ClearStatic
<1>2. line = "free" /\ Heard
  BY <1>1 DEF IInv, Talk, Quiet
<1>3. at \notin {"second55", "acmd41"} => flags = {"end"}
  BY <1>2 DEF Heard, Fine1
<1>4. QED
  BY <1>1, <1>2, <1>3

\* An error ends the wait for an answer that has come, or is the one of CMD8.
LEMMA BadAnswer ==
    ASSUME IInv, Bad1
    PROVE  /\ phase = "wait"
           /\ \/ line = "free" /\ Heard /\ flags # {"end"}
              \/ line = at /\ at = "second55" /\ Eight
           /\ dataFlag' \in {dataFlag, "none"}
           /\ flags' \subseteq flags
           /\ at \notin {"second55", "acmd41"} => flags' = {}
<1>1. phase = "wait" /\ flags # {}
  BY DEF Bad1, Answer1
<1>2. \/ line = "free" /\ Heard
      \/ line = at /\ at = "second55" /\ Eight
  BY <1>1 DEF IInv, Talk, Quiet
<1>3. flags # {"end"}
  BY DEF Bad1
<1>4. dataFlag' \in {dataFlag, "none"} /\ flags' \subseteq flags
  BY DEF Bad1, Rejected, Accepted, ClearStatic
<1>5. at \notin {"second55", "acmd41"} => flags' = {}
  BY <1>2 DEF Bad1, Rejected, Accepted, ClearStatic, Heard
<1>6. QED
  BY <1>1, <1>2, <1>3, <1>4, <1>5

-----------------------------------------------------------------------------
(* The driver *)

\* A command is sent.
LEMMA SendStep ==
    ASSUME IInv, Send
    PROVE  IInv'
<1> USE DEF IInv, Send, theCard, cardVars, driverVars
<1>1. TypeOK'
  BY DEF TypeOK, Steps
<1>2. Talk'
  BY DEF Talk, Quiet, Eight, Heard
<1>3. Knows'
  BY DEF Knows, Powering, Naming, Reading, CardBlocks, Talk
<1>4. Data'
  BY DEF Data, Unheard, Talk
<1>5. Card'
  BY DEF Card, Unheard, Zero, Six, Talk, Knows
<1>6. Health'
  <2>1. at # "free" /\ phase = "send"
    BY Typing DEF DriverTyped, Steps
  <2>2. QED
    BY <2>1 DEF Health, Good, Ready, Done, Before, Powering, App, Talk
<1>7. QED
  BY <1>1, <1>2, <1>3, <1>4, <1>5, <1>6

\* CMD0.
LEMMA GoIdleStep ==
    ASSUME IInv, GoIdle, UNCHANGED <<dpath, fifo, line, theCard, cardVars, faults>>
    PROVE  IInv'
<1> USE DEF IInv, GoIdle, Goto, theCard, cardVars, driverVars
<1>0. /\ phase = "wait" /\ line = "free" /\ Heard
      /\ flags = {"end"} /\ flags' = {} /\ dataFlag' = "none"
  BY FineAnswer
<1>1. TypeOK'
  BY <1>0 DEF TypeOK, Steps
<1>2. Talk'
  BY <1>0 DEF Talk, Quiet, Eight, Heard
<1>3. Knows'
  BY <1>0 DEF Knows, Powering, Naming, Reading, CardBlocks, Talk
<1>4. Data'
  BY <1>0 DEF Data, Unheard, Talk
<1>5. Card'
  BY <1>0 DEF Card, Unheard, Zero, Six, Talk, Knows
<1>6. Health'
  BY <1>0 DEF Health, Good, Ready, Done, Before, Powering, App, Talk
<1>7. QED
  BY <1>1, <1>2, <1>3, <1>4, <1>5, <1>6

\* CMD8.
LEMMA IfCondStep ==
    ASSUME IInv, IfCond, UNCHANGED <<dpath, fifo, line, theCard, cardVars, faults>>
    PROVE  IInv'
<1> USE DEF IInv, IfCond, Goto, AfterNoAnswer, Rejected, theCard, cardVars, driverVars
<1>0. line = "free" /\ Heard
  BY DEF Talk, Quiet
<1>1. TypeOK'
  <2>1. DriverTyped'
    BY <1>0, Typing DEF DriverTyped, Steps
  <2>2. SdioTyped'
    BY <1>0, Typing DEF SdioTyped
  <2>3. SlotTyped'
    BY <1>0, Typing DEF SlotTyped
  <2>4. CardTyped'
    BY <1>0, Typing DEF CardTyped
  <2>5. FaultsTyped'
    BY <1>0, Typing DEF FaultsTyped, Steps
  <2>6. QED
    BY <2>1, <2>2, <2>3, <2>4, <2>5, TypingNext
<1>2. Talk'
  BY <1>0 DEF Talk, Quiet, Eight, Heard
<1>3. Knows'
  BY <1>0 DEF Knows, Powering, Naming, Reading, CardBlocks, Talk
<1>4. Data'
  BY <1>0 DEF Data, Unheard, Talk
<1>5. Card'
  BY <1>0 DEF Card, Unheard, Zero, Six, Talk, Knows
<1>6. Health'
  BY <1>0 DEF Health, Good, Ready, Done, Before, Powering, App, Talk
<1>7. QED
  BY <1>1, <1>2, <1>3, <1>4, <1>5, <1>6

\* CMD55, whose error is that of CMD8.
LEMMA First55Step ==
    ASSUME IInv, First55, UNCHANGED <<dpath, fifo, line, theCard, cardVars, faults>>
    PROVE  IInv'
<1> USE DEF IInv, First55, Goto, theCard, cardVars, driverVars
<1>0. /\ phase = "wait" /\ line = "free" /\ Heard
      /\ flags' = {} /\ dataFlag' \in {dataFlag, "none"}
  BY FineAnswer, BadAnswer
<1>1. TypeOK'
  BY <1>0 DEF TypeOK, Steps
<1>2. Talk'
  BY <1>0 DEF Talk, Quiet, Eight, Heard
<1>3. Knows'
  BY <1>0 DEF Knows, Powering, Naming, Reading, CardBlocks, Talk
<1>4. Data'
  BY <1>0 DEF Data, Unheard, Talk
<1>5. Card'
  BY <1>0 DEF Card, Unheard, Zero, Six, Talk, Knows
<1>6. Health'
  BY <1>0 DEF Health, Good, Ready, Done, Before, Powering, App, Talk
<1>7. QED
  BY <1>1, <1>2, <1>3, <1>4, <1>5, <1>6

\* An error.
LEMMA FailStep ==
    ASSUME IInv, Fail, UNCHANGED <<dpath, fifo, line, theCard, cardVars, faults>>
    PROVE  IInv'
<1> USE DEF IInv, Fail, Return, theCard, cardVars, driverVars
<1>0. /\ phase = "wait" /\ dataFlag' \in {dataFlag, "none"} /\ flags' \subseteq flags
      /\ \/ line = "free" /\ Heard /\ flags # {"end"}
         \/ line = at /\ at = "second55" /\ Eight
  BY BadAnswer
<1>1. TypeOK'
  BY <1>0 DEF TypeOK, Steps
<1>2. Talk'
  BY <1>0 DEF Talk, Quiet, Eight, Heard
<1>3. Knows'
  BY <1>0 DEF Knows, Powering, Naming, Reading, CardBlocks, Talk
<1>4. Data'
  BY <1>0 DEF Data, Unheard, Talk
<1>5. Card'
  BY <1>0 DEF Card, Unheard, Zero, Six, Talk, Knows
<1>6. Health'
  <2>1. ~Good
    BY <1>0 DEF Health, Good, Done, Eight
  <2>2. QED
    BY <2>1 DEF Health, Good
<1>7. QED
  BY <1>1, <1>2, <1>3, <1>4, <1>5, <1>6

\* The commands with one successor.
LEMMA ProceedStep ==
    ASSUME IInv, Proceed, UNCHANGED <<dpath, fifo, line, theCard, cardVars, faults>>
    PROVE  IInv'
<1> USE DEF IInv, Proceed, Goto, Following, theCard, cardVars, driverVars
<1>0. /\ phase = "wait" /\ line = "free" /\ Heard /\ flags' = {} /\ dataFlag' = "none"
      /\ at # "second55" => flags = {"end"}
  BY FineAnswer DEF Following
<1>1. TypeOK'
  BY <1>0 DEF TypeOK, Steps
<1>2. Talk'
  BY <1>0 DEF Talk, Quiet, Eight, Heard
<1>3. Knows'
  <2>1. (at \in Powering => CardType # "HIGH_CAPACITY")'
    BY <1>0, Typing DEF Knows, Powering
  <2>2. (at \notin Powering => (CardType = "HIGH_CAPACITY" <=> kind = "hc"))'
    BY <1>0, Typing DEF Knows, Powering
  <2>3. (at \notin Naming => rca)'
    <3>1. (at \notin Naming)' => at \notin Naming \/ at = "cmd3"
      BY DEF Naming, Powering
    <3>2. rca \/ at = "cmd3" => rca'
      OBVIOUS
    <3>3. at \notin Naming => rca
      BY DEF Knows
    <3>4. QED
      BY <3>1, <3>2, <3>3
  <2>4. (at \notin Reading => blocks = CardBlocks)'
    BY <1>0, Typing DEF Knows, Naming, Powering, Reading, CardBlocks
  <2>5. (result = "none" <=> phase # "end")'
    BY <1>0, Typing DEF Knows
  <2>6. (hostWide <=> result = "ok")'
    BY <1>0, Typing DEF Knows
  <2>7. (count < Trials \/ (count = Trials /\ result = "error"))'
    BY <1>0, Typing DEF Knows
  <2>8. QED
    BY <2>1, <2>2, <2>3, <2>4, <2>5, <2>6, <2>7 DEF Knows
<1>4. Data'
  BY <1>0 DEF Data, Unheard, Talk
<1>5. Card'
  BY <1>0 DEF Card, Unheard, Zero, Six, Talk, Knows
<1>6. Health'
  BY <1>0 DEF Health, Good, Ready, Done, Before, Powering, App, Talk
<1>7. QED
  BY <1>1, <1>2, <1>3, <1>4, <1>5, <1>6

\* ACMD41.
LEMMA OpCondStep ==
    ASSUME IInv, OpCond, UNCHANGED <<dpath, fifo, line, theCard, cardVars, faults>>
    PROVE  IInv'
<1> USE DEF IInv, OpCond, Goto, Return, Accepted, ClearStatic, Rejected, OneMore,
           TrialsUsed, TypeByCcs, theCard, cardVars, driverVars
<1>0. line = "free" /\ Heard
  BY DEF Talk, Quiet
<1>a. count \in Nat /\ count < Trials /\ Trials \in Nat /\ result = "none"
  BY TrialsAssumption, Typing DEF DriverTyped, Knows
<1>b. \/ /\ at' = at /\ phase' = "end" /\ result' = "error" /\ CardType' = CardType
         /\ \/ count' = count /\ "timeout" \in flags
            \/ count' = Trials /\ "timeout" \notin flags
      \/ /\ at' = "loop55" /\ phase' = "send" /\ result' = result /\ CardType' = CardType
         /\ count' = count + 1 /\ count + 1 < Trials
         /\ "busy" \in flags
      \/ /\ at' = "cmd2" /\ phase' = "send" /\ result' = result
         /\ CardType' = IF "ccs" \in flags THEN "HIGH_CAPACITY" ELSE CardType
         /\ count' = count + 1 /\ count + 1 < Trials
         /\ "timeout" \notin flags /\ "busy" \notin flags
  BY <1>a
<1>1. TypeOK'
  <2>1. DriverTyped'
    BY <1>a, <1>b, Typing DEF DriverTyped, Steps
  <2>2. SdioTyped'
    BY <1>0, Typing DEF SdioTyped
  <2>3. SlotTyped'
    BY <1>0, Typing DEF SlotTyped
  <2>4. CardTyped'
    BY <1>0, Typing DEF CardTyped
  <2>5. FaultsTyped'
    BY <1>0, Typing DEF FaultsTyped, Steps
  <2>6. QED
    BY <2>1, <2>2, <2>3, <2>4, <2>5, TypingNext
<1>2. Talk'
  BY <1>0 DEF Talk, Quiet, Eight, Heard
<1>3. Knows'
  <2>1. (at \in Powering => CardType # "HIGH_CAPACITY")'
    BY <1>0, <1>a, <1>b DEF Knows, Powering
  <2>2. (at \notin Powering => (CardType = "HIGH_CAPACITY" <=> kind = "hc"))'
    BY <1>0, <1>a, <1>b DEF Knows, Powering, Heard
  <2>3. (at \notin Naming => rca)'
    BY <1>0, Typing DEF Knows, Naming, Powering
  <2>4. (at \notin Reading => blocks = CardBlocks)'
    BY <1>0, Typing DEF Knows, Naming, Powering, Reading, CardBlocks
  <2>5. (result = "none" <=> phase # "end")'
    BY <1>0, Typing DEF Knows
  <2>6. (hostWide <=> result = "ok")'
    BY <1>0, Typing DEF Knows
  <2>7. (count < Trials \/ (count = Trials /\ result = "error"))'
    BY <1>a, <1>b
  <2>8. QED
    BY <2>1, <2>2, <2>3, <2>4, <2>5, <2>6, <2>7 DEF Knows
<1>4. Data'
  BY <1>0 DEF Data, Unheard, Talk
<1>5. Card'
  BY <1>0 DEF Card, Unheard, Zero, Six, Talk, Knows
<1>6. Health'
  <2>1. SUFFICES ASSUME Good
                PROVE  Health'
    BY DEF Health, Good
  <2>2. Done
    BY <1>0, <2>1 DEF Health
  <2>3. "timeout" \notin flags
    BY <2>2 DEF Done
  <2>4. result' = "error" => count' = Trials
    BY <2>3, <1>a, <1>b
  <2>5. at' = "loop55" => card = "idle"
    BY <2>2, <1>b DEF Done
  <2>6. at' = "cmd2" => card = "ready"
    BY <2>2, <1>b DEF Done
  <2>7. phase' = "send" => Ready'
    BY <2>2, <2>5, <2>6, <1>b DEF Ready, Done, Before, Powering
  <2>8. QED
    BY <2>4, <2>7, <1>b DEF Health
<1>7. QED
  BY <1>1, <1>2, <1>3, <1>4, <1>5, <1>6

\* CMD9.
LEMMA CardInfoStep ==
    ASSUME IInv, CardInfo, UNCHANGED <<dpath, fifo, line, theCard, cardVars, faults>>
    PROVE  IInv'
<1> USE DEF IInv, CardInfo, Goto, theCard, cardVars, driverVars
<1>0. /\ phase = "wait" /\ line = "free" /\ Heard
      /\ flags = {"end"} /\ flags' = {} /\ dataFlag' = "none"
  BY FineAnswer
<1>a. Capacity(csd) \div 512 = CardBlocks /\ CardBlocks \in Nat
  BY SizeIsRight, Typing DEF SlotTyped, Knows, Powering
<1>1. TypeOK'
  <2>1. DriverTyped'
    BY <1>a, Typing DEF DriverTyped, Steps
  <2>2. SdioTyped'
    BY <1>0, Typing DEF SdioTyped
  <2>3. SlotTyped'
    BY <1>0, Typing DEF SlotTyped
  <2>4. CardTyped'
    BY <1>0, Typing DEF CardTyped
  <2>5. FaultsTyped'
    BY <1>0, Typing DEF FaultsTyped, Steps
  <2>6. QED
    BY <2>1, <2>2, <2>3, <2>4, <2>5, TypingNext
<1>2. Talk'
  BY <1>0 DEF Talk, Quiet, Eight, Heard
<1>3. Knows'
  <2>1. (at \in Powering => CardType # "HIGH_CAPACITY")'
    BY <1>0, Typing DEF Knows, Powering
  <2>2. (at \notin Powering => (CardType = "HIGH_CAPACITY" <=> kind = "hc"))'
    BY <1>0, Typing DEF Knows, Powering
  <2>3. (at \notin Naming => rca)'
    BY <1>0, Typing DEF Knows, Naming, Powering
  <2>4. (at \notin Reading => blocks = CardBlocks)'
    <3>1. CardBlocks' = CardBlocks
      BY DEF CardBlocks
    <3>2. QED
      BY <3>1, <1>a
  <2>5. (result = "none" <=> phase # "end")'
    BY <1>0, Typing DEF Knows
  <2>6. (hostWide <=> result = "ok")'
    BY <1>0, Typing DEF Knows
  <2>7. (count < Trials \/ (count = Trials /\ result = "error"))'
    BY <1>0, Typing DEF Knows
  <2>8. QED
    BY <2>1, <2>2, <2>3, <2>4, <2>5, <2>6, <2>7 DEF Knows
<1>4. Data'
  BY <1>0 DEF Data, Unheard, Talk
<1>5. Card'
  BY <1>0 DEF Card, Unheard, Zero, Six, Talk, Knows
<1>6. Health'
  BY <1>0 DEF Health, Good, Ready, Done, Before, Powering, App, Talk
<1>7. QED
  BY <1>1, <1>2, <1>3, <1>4, <1>5, <1>6

\* CMD7.
LEMMA SelectStep ==
    ASSUME IInv, Select, UNCHANGED <<dpath, fifo, line, theCard, cardVars, faults>>
    PROVE  IInv'
<1> USE DEF IInv, Select, Goto, Return, theCard, cardVars, driverVars
<1>0. /\ phase = "wait" /\ line = "free" /\ Heard
      /\ flags = {"end"} /\ flags' = {} /\ dataFlag' = "none"
  BY FineAnswer
<1>1. TypeOK'
  BY <1>0 DEF TypeOK, Steps
<1>2. Talk'
  BY <1>0 DEF Talk, Quiet, Eight, Heard
<1>3. Knows'
  BY <1>0 DEF Knows, Powering, Naming, Reading, CardBlocks, Talk
<1>4. Data'
  BY <1>0 DEF Data, Unheard, Talk
<1>5. Card'
  BY <1>0 DEF Card, Unheard, Zero, Six, Talk, Knows
<1>6. Health'
  BY <1>0 DEF Health, Good, Ready, Done, Before, Powering, App, Talk
<1>7. QED
  BY <1>1, <1>2, <1>3, <1>4, <1>5, <1>6

\* ACMD51.
LEMMA ScrStartStep ==
    ASSUME IInv, ScrStart, UNCHANGED <<dpath, fifo, line, theCard, cardVars, faults>>
    PROVE  IInv'
<1> USE DEF IInv, ScrStart, theCard, cardVars, driverVars
<1>0. /\ phase = "wait" /\ line = "free" /\ Heard
      /\ flags = {"end"} /\ flags' = {} /\ dataFlag' = "none"
  BY FineAnswer
<1>1. TypeOK'
  BY <1>0 DEF TypeOK, Steps
<1>2. Talk'
  BY <1>0 DEF Talk, Quiet, Eight, Heard
<1>3. Knows'
  BY <1>0 DEF Knows, Powering, Naming, Reading, CardBlocks, Talk
<1>4. Data'
  BY <1>0 DEF Data, Unheard, Talk
<1>5. Card'
  BY <1>0 DEF Card, Unheard, Zero, Six, Talk, Knows
<1>6. Health'
  BY <1>0 DEF Health, Good, Ready, Done, Before, Powering, App, Talk
<1>7. QED
  BY <1>1, <1>2, <1>3, <1>4, <1>5, <1>6

\* ACMD6.
LEMMA WideBusStep ==
    ASSUME IInv, WideBus, UNCHANGED <<dpath, fifo, line, theCard, cardVars, faults>>
    PROVE  IInv'
<1> USE DEF IInv, WideBus, Return, FourLines, theCard, cardVars, driverVars
<1>0. /\ phase = "wait" /\ line = "free" /\ Heard
      /\ flags = {"end"} /\ flags' = {} /\ dataFlag' = "none"
  BY FineAnswer
<1>1. TypeOK'
  BY <1>0 DEF TypeOK, Steps
<1>2. Talk'
  BY <1>0 DEF Talk, Quiet, Eight, Heard
<1>3. Knows'
  BY <1>0 DEF Knows, Powering, Naming, Reading, CardBlocks, Talk
<1>4. Data'
  BY <1>0 DEF Data, Unheard, Talk
<1>5. Card'
  BY <1>0 DEF Card, Unheard, Zero, Six, Talk, Knows
<1>6. Health'
  BY <1>0 DEF Health, Good, Ready, Done, Before, Powering, App, Talk
<1>7. QED
  BY <1>1, <1>2, <1>3, <1>4, <1>5, <1>6

\* A word of the SCR.
LEMMA ScrWordStep ==
    ASSUME IInv, ScrWord
    PROVE  IInv'
<1> USE DEF IInv, ScrWord, theCard, cardVars, driverVars
<1>1. TypeOK'
  BY DEF TypeOK, Steps, Data
<1>2. Talk'
  BY DEF Talk, Quiet, Eight, Heard
<1>3. Knows'
  BY DEF Knows, Powering, Naming, Reading, CardBlocks, Talk
<1>4. Data'
  BY DEF TypeOK, Data, Unheard, Talk
<1>5. Card'
  BY DEF Card, Unheard, Zero, Six, Talk, Knows
<1>6. Health'
  BY DEF Health, Good, Ready, Done, Before, Powering, App, Talk
<1>7. QED
  BY <1>1, <1>2, <1>3, <1>4, <1>5, <1>6

\* The end of the SCR.
LEMMA ScrEndStep ==
    ASSUME IInv, ScrEnd
    PROVE  IInv'
<1> USE DEF IInv, ScrEnd, Goto, Return, theCard, cardVars, driverVars
<1>1. TypeOK'
  BY DEF TypeOK, Steps
<1>2. Talk'
  BY DEF Talk, Quiet, Eight, Heard
<1>3. Knows'
  BY DEF Knows, Powering, Naming, Reading, CardBlocks, Talk
<1>4. Data'
  BY DEF Data, Unheard, Talk
<1>5. Card'
  BY DEF Card, Unheard, Zero, Six, Talk, Knows
<1>6. Health'
  BY DEF Health, Good, Ready, Done, Before, Powering, App, Talk
<1>7. QED
  BY <1>1, <1>2, <1>3, <1>4, <1>5, <1>6

-----------------------------------------------------------------------------
(* The card *)

\* A command the card does not execute.
LEMMA IgnoreStep ==
    ASSUME IInv, Ignore
    PROVE  IInv'
<1> USE DEF IInv, Ignore, Executes, theCard, cardVars, driverVars
<1>a. line = "cmd0" => kind = "none"
  OBVIOUS
<1>b. \/ phase = "wait" /\ line = at /\ Quiet
      \/ phase = "end" /\ line = at /\ at = "second55"
  BY Typing DEF DriverTyped, Talk
<1>c. Good /\ phase = "wait" => at = "cmd8" /\ kind = "v1"
  BY <1>b, Typing DEF Health, Ready, Good, Before, Powering, DriverTyped, Steps, SdCards
<1>1. TypeOK'
  <2>1. DriverTyped'
    BY Typing DEF DriverTyped, Steps
  <2>2. SdioTyped'
    BY Typing DEF SdioTyped
  <2>3. SlotTyped'
    BY Typing DEF SlotTyped
  <2>4. CardTyped'
    BY Typing DEF CardTyped
  <2>5. FaultsTyped'
    BY Typing DEF FaultsTyped, Steps
  <2>6. QED
    BY <2>1, <2>2, <2>3, <2>4, <2>5, TypingNext
<1>2. Talk'
  BY DEF Talk, Quiet, Eight, Heard
<1>3. Knows'
  BY DEF Knows, Powering, Naming, Reading, CardBlocks, Talk
<1>4. Data'
  BY DEF Data, Unheard, Talk
<1>5. Card'
  <2>1. (at = "cmd0" \/ (at = "cmd8" /\ Unheard))' => ~illegal'
    BY <1>a, <1>b DEF Unheard
  <2>2. cardWide => kind # "none" /\ Zero
    BY <1>a, <1>b DEF Card, Unheard
  <2>3. result # "ok"
    BY <1>b DEF Card
  <2>4. (at = "acmd6" /\ phase = "wait" /\ line = "free")' => flags' # {"end"}
    BY <1>b DEF Quiet
  <2>5. QED
    BY <2>1, <2>2, <2>3, <2>4 DEF Card, Zero
<1>6. Health'
  <2>1. SUFFICES ASSUME Good
                PROVE  Health'
    BY DEF Health, Good
  <2>2. CASE phase = "wait"
    <3>1. at = "cmd8" /\ kind = "v1" /\ card = "idle" /\ flags' = {"timeout"}
      BY <1>b, <1>c, <2>1, <2>2 DEF Health, Ready, Before, Powering, Quiet
    <3>2. illegal'
      BY <3>1
    <3>3. Done'
      BY <3>1, <3>2 DEF Done, Powering
    <3>4. QED
      BY <3>3, <2>2, <1>b DEF Health, Knows
  <2>3. CASE phase = "end"
    BY <2>1, <2>3 DEF Health
  <2>4. QED
    BY <2>2, <2>3, <1>b
<1>7. QED
  BY <1>1, <1>2, <1>3, <1>4, <1>5, <1>6

\* A command the card has not heard.
LEMMA LoseStep ==
    ASSUME IInv, Lose
    PROVE  IInv'
<1> USE DEF IInv, Lose, MayFail, theCard, cardVars, driverVars
<1>1. TypeOK'
  BY DEF TypeOK, Steps
<1>2. Talk'
  BY DEF Talk, Quiet, Eight, Heard
<1>3. Knows'
  BY DEF Knows, Powering, Naming, Reading, CardBlocks, Talk
<1>4. Data'
  BY DEF Data, Unheard, Talk
<1>5. Card'
  BY DEF Card, Unheard, Zero, Six, Talk, Knows
<1>6. Health'
  BY DEF Health, Good, Ready, Done, Before, Powering, App, Talk
<1>7. QED
  BY <1>1, <1>2, <1>3, <1>4, <1>5, <1>6

\* A word of the SCR.
LEMMA SendWordStep ==
    ASSUME IInv, SendWord
    PROVE  IInv'
<1> USE DEF IInv, SendWord, theCard, cardVars, driverVars
<1>1. TypeOK'
  BY DEF TypeOK, Steps, Data
<1>2. Talk'
  BY DEF Talk, Quiet, Eight, Heard
<1>3. Knows'
  BY DEF Knows, Powering, Naming, Reading, CardBlocks, Talk
<1>4. Data'
  BY DEF TypeOK, Data, Unheard, Talk
<1>5. Card'
  BY DEF Card, Unheard, Zero, Six, Talk, Knows
<1>6. Health'
  BY DEF Health, Good, Ready, Done, Before, Powering, App, Talk
<1>7. QED
  BY <1>1, <1>2, <1>3, <1>4, <1>5, <1>6

\* The end of the SCR.
LEMMA EndDataStep ==
    ASSUME IInv, EndData
    PROVE  IInv'
<1> USE DEF IInv, EndData, theCard, cardVars, driverVars
<1>1. TypeOK'
  <2>1. DriverTyped'
    BY Typing DEF DriverTyped, Steps
  <2>2. SdioTyped'
    BY Typing DEF SdioTyped
  <2>3. SlotTyped'
    BY Typing DEF SlotTyped
  <2>4. CardTyped'
    BY Typing DEF CardTyped
  <2>5. FaultsTyped'
    BY Typing DEF FaultsTyped, Steps
  <2>6. QED
    BY <2>1, <2>2, <2>3, <2>4, <2>5, TypingNext
<1>2. Talk'
  BY DEF Talk, Quiet, Eight, Heard
<1>3. Knows'
  BY DEF Knows, Powering, Naming, Reading, CardBlocks, Talk
<1>4. Data'
  BY DEF Data, Unheard, Talk
<1>5. Card'
  BY DEF Card, Unheard, Zero, Six, Talk, Knows
<1>6. Health'
  <2>1. SUFFICES ASSUME Good'
                PROVE  Health'
    BY DEF Health
  <2>2. Good /\ dataFlag' = "end" /\ words > 0
    <3>1. faults' = {}
      BY <2>1 DEF Good
    <3>2. faults = {} /\ dataFlag' # "error" /\ words # 0
      BY <3>1
    <3>3. words \in 0 .. 2
      BY Typing DEF DriverTyped
    <3>4. QED
      BY <2>1, <3>2, <3>3 DEF Good
  <2>3. at = "acmd51" /\ phase \in {"scr", "end"}
    BY <2>2, Typing DEF Data, DriverTyped
  <2>4. QED
    BY <2>2, <2>3 DEF Health
<1>7. QED
  BY <1>1, <1>2, <1>3, <1>4, <1>5, <1>6

\* A block that does not come.
LEMMA DataTimeoutStep ==
    ASSUME IInv, DataTimeout
    PROVE  IInv'
<1> USE DEF IInv, DataTimeout, theCard, cardVars, driverVars
<1>1. TypeOK'
  <2>1. DriverTyped'
    BY Typing DEF DriverTyped, Steps
  <2>2. SdioTyped'
    BY Typing DEF SdioTyped
  <2>3. SlotTyped'
    BY Typing DEF SlotTyped
  <2>4. CardTyped'
    BY Typing DEF CardTyped
  <2>5. FaultsTyped'
    BY Typing DEF FaultsTyped, Steps
  <2>6. QED
    BY <2>1, <2>2, <2>3, <2>4, <2>5, TypingNext
<1>2. Talk'
  BY DEF Talk, Quiet, Eight, Heard
<1>3. Knows'
  BY DEF Knows, Powering, Naming, Reading, CardBlocks, Talk
<1>4. Data'
  BY DEF Data, Unheard, Talk
<1>5. Card'
  BY DEF Card, Unheard, Zero, Six, Talk, Knows
<1>6. Health'
  <2>1. Good => phase = "end"
    BY DEF Health, Done, Data, Talk, TypeOK, Before, Ready
  <2>2. QED
    BY <2>1 DEF Health, Good, Knows
<1>7. QED
  BY <1>1, <1>2, <1>3, <1>4, <1>5, <1>6

\* A command the card executes, and its answer.
LEMMA RespondStep ==
    ASSUME IInv, NEW up \in BOOLEAN, Respond(up)
    PROVE  IInv'
<1> USE DEF IInv, Respond, MayFail, theCard, driverVars
<1>a. \/ phase = "wait" /\ Quiet
      \/ phase = "end" /\ at = "second55"
  BY Typing DEF DriverTyped, Talk
<1>b. /\ line = at /\ line # "free" /\ line' = "free"
      /\ line = "acmd6" => card = "tran"
      /\ line = "acmd51" => card = "tran"
      /\ kind # "none"
  <2>1. line = at
    BY <1>a DEF Talk
  <2>2. kind # "none" /\ (line \in {"acmd6", "acmd51"} => card = "tran")
    BY DEF Executes
  <2>3. QED
    BY <2>1, <2>2
<1>c. /\ illegal' = FALSE /\ app' = (line \in App)
      /\ cardWide' = (line = "acmd6" \/ (line # "cmd0" /\ cardWide))
      /\ toSend' = IF line = "acmd51" THEN 2 ELSE 0
      /\ line \notin {"cmd0", "acmd41", "cmd2", "cmd3", "cmd7", "acmd51"} => card' = card
      /\ line = "cmd0" => card' = "idle"
      /\ line = "cmd2" => card' = "ident"
      /\ line = "cmd3" => card' = "stby"
      /\ line = "cmd7" => card' = "tran"
      /\ line = "acmd51" => card' = "sending"
      /\ line = "acmd41" => card' = IF up THEN "ready" ELSE card
  BY DEF Moves
<1>d. \/ /\ faults' = faults
         /\ line # "acmd41"
         /\ \/ flags' = flags \cup {"end"} /\ (~illegal \/ line \in {"cmd0", "cmd2", "cmd9"})
            \/ flags' = flags \cup {"endIllegal"} /\ illegal /\ line # "cmd0"
      \/ /\ faults' = faults
         /\ line = "acmd41"
         /\ \/ flags' = flags \cup {"crc"} /\ up /\ kind # "hc"
            \/ flags' = flags \cup {"crc", "ccs"} /\ up /\ kind = "hc"
            \/ flags' = flags \cup {"crc", "busy"} /\ ~up
      \/ /\ faults' = faults \cup {<<line, "answer">>}
         /\ flags' = flags \cup {"timeout"} /\ line # "cmd0"
      \/ /\ faults' = faults \cup {<<line, "damaged">>}
         /\ flags' = flags \cup {"crc"} /\ line \notin {"cmd0", "acmd41"}
  BY DEF AnswerFlags
<1>1. TypeOK'
  <2>1. DriverTyped'
    BY Typing DEF DriverTyped, Steps
  <2>2. SdioTyped'
    BY <1>d, Typing DEF SdioTyped
  <2>3. SlotTyped'
    BY Typing DEF SlotTyped
  <2>4. CardTyped'
    <3>1. app' \in BOOLEAN /\ illegal' \in BOOLEAN /\ cardWide' \in BOOLEAN
      <4>1. (line \in App) \in BOOLEAN
        OBVIOUS
      <4>2. (line = "acmd6" \/ (line # "cmd0" /\ cardWide)) \in BOOLEAN
        OBVIOUS
      <4>3. QED
        BY <1>c, <4>1, <4>2
    <3>2. card' \in {"idle", "ready", "ident", "stby", "tran", "sending"}
      BY <1>b, <1>c, Typing DEF CardTyped
    <3>3. QED
      BY <1>c, <3>1, <3>2 DEF CardTyped
  <2>5. FaultsTyped'
    <3>1. at \in Steps
      BY Typing DEF DriverTyped
    <3>2. faults \subseteq (Steps \X {"command", "answer", "damaged", "data", "late"})
      BY Typing DEF FaultsTyped
    <3>3. faults' \subseteq faults \cup {<<line, "answer">>, <<line, "damaged">>}
      BY <1>d
    <3>4. QED
      BY <1>b, <3>1, <3>2, <3>3 DEF FaultsTyped
  <2>6. QED
    BY <2>1, <2>2, <2>3, <2>4, <2>5, TypingNext
<1>2. Talk'
  <2>1. CASE phase = "end"
    BY <1>a, <1>b, <2>1 DEF Talk
  <2>2. CASE phase = "wait"
    <3>1. at # "second55" => flags = {}
      BY <1>a, <2>2 DEF Quiet
    <3>2. at = "cmd8" => ~illegal
      BY <1>b DEF Card, Unheard
    <3>3. Heard'
      BY <1>b, <1>d, <3>1, <3>2 DEF Heard, Eight
    <3>4. QED
      BY <1>b, <2>2, <3>3 DEF Talk
  <2>3. QED
    BY <1>a, <2>1, <2>2
<1>3. Knows'
  BY DEF Knows, CardBlocks
<1>4. Data'
  <2>1. (fifo = 0 /\ toSend = 0) \/ at \in {"wide55", "acmd6"}
    BY <1>b DEF Data, Unheard
  <2>2. at = "acmd51" => words = 0 /\ phase # "send"
    BY <1>a, <1>b DEF Data
  <2>3. card # "sending" /\ dataFlag = "none"
    BY <1>b DEF Data
  <2>4. card' = "sending" => at = "acmd51"
    BY <1>b, <1>c, <2>3
  <2>5. words' + fifo' + toSend' <= 2
    BY <1>b, <1>c, <2>1, <2>2, Typing DEF Data, DriverTyped, SdioTyped, CardTyped
  <2>6. QED
    BY <1>b, <1>c, <2>1, <2>2, <2>3, <2>4, <2>5 DEF Data, Unheard
<1>5. Card'
  <2>1. ~illegal'
    BY <1>c
  <2>2. cardWide' => kind # "none"
    BY <1>b
  <2>3. cardWide /\ at # "cmd0" => Zero
    BY <1>b DEF Card, Unheard
  <2>4. Zero => Zero'
    BY <1>d DEF Zero
  <2>5. Six => Six'
    BY <1>d DEF Six
  <2>6. cardWide' => Zero' \/ at = "acmd6"
    BY <1>b, <1>c, <2>3, <2>4
  <2>7. result # "ok"
    BY <1>b DEF Card
  <2>8. at = "acmd6" => phase = "wait" /\ result = "none" /\ flags = {}
    BY <1>a DEF Knows, Quiet
  <2>9. at = "acmd6" => ~illegal
    BY <1>b DEF Card, Executes
  <2>10. at = "acmd6" /\ flags' # {"end"} => Six'
    BY <1>b, <1>d, <2>8, <2>9 DEF Six
  <2>11. at = "acmd6" => cardWide' /\ card' = "tran"
    BY <1>b, <1>c
  <2>12. QED
    BY <1>b, <2>1, <2>2, <2>6, <2>7, <2>8, <2>10, <2>11 DEF Card, Unheard
<1>6. Health'
  <2>1. SUFFICES ASSUME Good'
                PROVE  Health'
    BY DEF Health
  <2>2. Good /\ faults' = faults
    BY <1>d, <2>1 DEF Good
  <2>3. CASE phase = "end"
    BY <2>2, <2>3 DEF Health
  <2>4. CASE phase = "wait"
    <3>1. Ready /\ kind \in SdCards
      BY <1>b, <2>2, <2>4 DEF Health, Good
    <3>2. flags = {}
      BY <1>a, <2>2, <2>4 DEF Quiet, Good, Eight
    <3>3. at = "cmd8" => kind # "v1"
      BY <1>b DEF Executes
    <3>4. ~illegal' /\ app' = (at \in App)
      BY <1>b, <1>c
    <3>5. Done'
      <4>1. illegal <=> at = "first55"
        BY <3>1 DEF Ready
      <4>2. \/ at # "acmd41" /\ at # "first55" /\ flags' = {"end"}
            \/ at = "first55" /\ flags' = {"endIllegal"}
            \/ at = "acmd41" /\ up /\ flags' \in {{"crc"}, {"crc", "ccs"}}
            \/ at = "acmd41" /\ ~up /\ flags' = {"crc", "busy"}
        BY <1>b, <1>d, <2>1, <3>2, <4>1 DEF Good
      <4>3. at # "cmd0" => card = Before(at)
        BY <3>1 DEF Ready
      <4>4. at = "acmd41" => card' = IF up THEN "ready" ELSE "idle"
        BY <1>b, <1>c, <4>3 DEF Before, Powering
      <4>5. at # "acmd41" =>
               card' = CASE at \in Powering -> "idle"
                         [] at = "cmd2" -> "ident"
                         [] at \in {"cmd3", "cmd9"} -> "stby"
                         [] at = "acmd51" -> "sending"
                         [] OTHER -> "tran"
        BY <1>b, <1>c, <4>3, Typing DEF Before, Powering, DriverTyped, Steps
      <4>6. QED
        BY <3>3, <3>4, <4>2, <4>4, <4>5 DEF Done, App
    <3>6. QED
      BY <1>b, <2>4, <3>5 DEF Health, Knows
  <2>5. QED
    BY <1>a, <2>3, <2>4
<1>7. QED
  BY <1>1, <1>2, <1>3, <1>4, <1>5, <1>6

-----------------------------------------------------------------------------
(* The invariant *)

LEMMA AnsweredStep ==
    ASSUME IInv, Answered
    PROVE  IInv'
BY GoIdleStep, IfCondStep, First55Step, FailStep, ProceedStep, OpCondStep, CardInfoStep,
   SelectStep, ScrStartStep, WideBusStep DEF Answered

LEMMA CardSteps ==
    ASSUME IInv, CardStep
    PROVE  IInv'
BY RespondStep, IgnoreStep, LoseStep, SendWordStep, EndDataStep, DataTimeoutStep DEF CardStep

LEMMA StutterStep ==
    ASSUME IInv, UNCHANGED vars
    PROVE  IInv'
<1> USE DEF IInv, vars, driverVars, sdioVars, theCard, cardVars
<1>1. TypeOK'
  BY DEF TypeOK
<1>2. Talk'
  BY DEF Talk, Quiet, Heard, Eight
<1>3. Knows'
  BY DEF Knows, CardBlocks
<1>4. Data'
  BY DEF Data, Unheard
<1>5. Card'
  BY DEF Card, Unheard, Zero, Six
<1>6. Health'
  BY DEF Health, Good, Ready, Done, Before
<1>7. QED
  BY <1>1, <1>2, <1>3, <1>4, <1>5, <1>6

LEMMA Invariance == Spec => []IInv
<1>1. ASSUME IInv, [Next]_vars
      PROVE  IInv'
  BY <1>1, SendStep, AnsweredStep, ScrWordStep, ScrEndStep, CardSteps, StutterStep
  DEF Next, Driver, Idle
<1>2. QED
  BY IInit, <1>1, PTL DEF Spec

-----------------------------------------------------------------------------
(* Theorems *)

\* SD_Init returns SD_OK only when all that is done with the card later rests on
\* the truth: it is selected, both sides use four lines, its kind and its size
\* are known, and nothing of the dialogue is left.
THEOREM SuccessTold == Spec => []SuccessIsTrue
<1>1. IInv => SuccessIsTrue
  <2>1. SUFFICES ASSUME IInv, result = "ok"
                PROVE  SuccessIsTrue!2
    BY DEF SuccessIsTrue
  <2>2. /\ at = "acmd6" /\ line = "free" /\ flags = {}
        /\ cardWide /\ card = "tran"
    BY <2>1 DEF IInv, Card
  <2>3. /\ CardType = "HIGH_CAPACITY" <=> kind = "hc"
        /\ rca /\ hostWide /\ blocks = CardBlocks
    BY <2>1, <2>2 DEF IInv, Knows, Powering, Naming, Reading
  <2>4. dataFlag = "none" /\ ~dpath
    BY <2>1, <2>2 DEF IInv, Data
  <2>5. QED
    BY <2>2, <2>3, <2>4
<1>2. QED
  BY <1>1, Invariance, PTL

\* A good card that nothing disturbs is refused only at the last trial.
THEOREM HealthyWorks == Spec => []HealthyCardWorks
<1>1. IInv => HealthyCardWorks
  BY DEF IInv, Health, Good, HealthyCardWorks
<1>2. QED
  BY <1>1, Invariance, PTL

\* The driver sends when nothing of the command before can reach it, and when it
\* returns both sides use as many lines, but for the losses WidthsAgree names.
THEOREM InStep == Spec => []DialogueInStep
<1>1. IInv => AnswersAreOwn
  BY DEF IInv, Talk, Quiet, Eight, AnswersAreOwn
<1>2. IInv => WidthsAgree
  <2>1. SUFFICES ASSUME IInv, phase = "end", card = "tran"
                PROVE  hostWide = cardWide \/ Zero \/ Six
    BY DEF WidthsAgree, Zero, Six
  <2>2. CASE result = "ok"
    BY <2>2, <2>1 DEF IInv, Card, Knows, TypeOK
  <2>3. CASE result # "ok"
    <3>1. result = "error" /\ hostWide = FALSE
      BY <2>1, <2>3 DEF IInv, Knows, TypeOK
    <3>2. cardWide => Zero \/ Six
      BY <2>1, <3>1, Typing DEF IInv, Card, Talk, Unheard, DriverTyped, Steps
    <3>3. cardWide \in BOOLEAN
      BY <2>1 DEF IInv, TypeOK
    <3>4. QED
      BY <3>1, <3>2, <3>3
  <2>4. QED
    BY <2>2, <2>3
<1>3. IInv => DialogueInStep
  BY <1>1, <1>2 DEF IInv, DialogueInStep
<1>4. QED
  BY <1>3, Invariance, PTL

=============================================================================
