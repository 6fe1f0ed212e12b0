----------------------------- MODULE MscBotProofs -----------------------------
(***************************************************************************)
(* Proofs about MscBot for a card of any size, which may fail any sector,  *)
(* blocks of any size and any requests: the status accounts for every      *)
(* block, host and device are in the same phase, the card is left only by  *)
(* a command whose sum wraps, the next command is taken, a command that is *)
(* accepted is answered, and the block buffer is left alone.               *)
(***************************************************************************)
EXTENDS MscBot, TLAPS

(* What holds at all times *)

\* A command is one the host was asked for, or the zeroes of the start.
Known(command) == command.req \in Requests \cup {NoCommand.req}

\* The device has one transfer at a time: armed, or ended and not yet seen.
OneTransfer ==
    /\ out # "off" => outDone = 0 /\ in = "off" /\ ~inDone
    /\ outDone # 0 => in = "off" /\ ~inDone
    /\ in # "off"  => ~inDone

\* The sectors to go are on the card, unless the sum of the command has wrapped.
OnCard(s, n) == Wraps(cbw.req) \/ s + n <= BlkNbr
Inside ==
    stage \in {"DATA_IN", "DATA_OUT"} =>
        1 <= nsectors /\ OnCard(start_sector, nsectors)

\* A port with no host is empty.
Detached ==
    phase = "attach" =>
        /\ stage = "READ_CBW" /\ out = "off" /\ outDone = 0 /\ in = "off"
        /\ ~inDone /\ ~outHalt /\ ~inHalt

\* The device is armed for a command between two of them and for a block
\* within a write.  A host that is past its command has it in the buffer of the
\* device, unless that was armed for a block.
Talking == {"dataOut", "dataIn", "status", "failed"}
OldCommand ==
    /\ out = "cbw" => stage = "READ_CBW"
    /\ out = "block" \/ stage = "DATA_OUT" => cbw.req.op = "write"
    /\ phase \in Talking /\ outDone = CbwSize => cbw = cmd \/ cbw.req.op = "write"
    /\ phase = "dataIn" /\ in = "info" =>
          dDataResidue <= cmd.req.length

Always ==
    /\ TypeOK /\ Known(cbw) /\ Known(cmd)
    /\ OneTransfer /\ Inside /\ InRange /\ Detached /\ OldCommand

(* What holds as long as no command was cut off: where host and device are *)

Fresh == count = 0 /\ moved = {} /\ calls = {}
Quiet == ~outHalt /\ ~inHalt

\* Between commands: the device waits for one, or has a status to see off.
Ready ==
    /\ Quiet /\ in = "off" /\ outDone = 0
    /\ \/ stage = "READ_CBW" /\ out = "cbw" /\ ~inDone
       \/ stage = "WAIT_CSW" /\ out = "off" /\ inDone

FirstPhase(r) == IF r.length = 0 THEN "status" ELSE IF IsIn(r) THEN "dataIn" ELSE "dataOut"

\* The command has come and is not decoded.
Sent ==
    /\ stage = "READ_CBW" /\ outDone = CbwSize
    /\ phase = FirstPhase(cmd.req) /\ Fresh /\ Quiet

\* It was refused: the device waits for the next one.
Refused ==
    /\ ~Accepted(cmd.req)
    /\ stage = "READ_CBW" /\ out = "cbw"
    /\ phase = "dataOut" => outHalt
    /\ phase = "dataIn" => inHalt

\* The status is about to be sent, or on its way.
Accounted(r) == {<<i, Landed(r, i)>> : i \in BlocksOf(r)}
Complete ==
    moved = Accounted(cmd.req) /\ dDataResidue = cmd.req.length - count
Answering == stage = "SEND_CSW" /\ inDone
Answered  == stage = "WAIT_CSW" /\ in = "csw" /\ dTag = cmd.tag

\* The answer to INQUIRY and the like.
Informing ==
    /\ cmd.req.op = "info" /\ stage = "SEND_CSW" /\ in = "info"
    /\ phase = "dataIn" /\ Fresh /\ Quiet
    /\ dDataResidue <= cmd.req.length

\* The first k blocks are through, and the one after them is on its way.
First(r, k) == {<<i, Landed(r, i)>> : i \in 0 .. k - 1}
Called(k) == \A c \in calls : c.no < k
Left(k, n) ==
    /\ start_sector = Sector(cmd.req, k) /\ nsectors = n
    /\ dDataResidue = n * BlkSize
Through(k) == count = k * BlkSize /\ moved = First(cmd.req, k)

Reading(k) ==
    /\ stage = (IF k + 1 = cmd.req.n THEN "SEND_CSW" ELSE "DATA_IN")
    /\ in = "block" /\ block = Landed(cmd.req, k) /\ phase = "dataIn"
    /\ Called(k + 1) /\ Through(k) /\ Left(k + 1, cmd.req.n - k - 1)
HasRead(k) ==
    /\ stage = "DATA_IN" /\ inDone /\ phase = "dataIn"
    /\ Called(k) /\ Through(k) /\ Left(k, cmd.req.n - k)
Writing(k) ==
    /\ stage = "DATA_OUT" /\ out = "block" /\ phase = "dataOut"
    /\ Called(k) /\ Through(k) /\ Left(k, cmd.req.n - k)
HasSent(k) ==
    /\ stage = "DATA_OUT" /\ outDone = BlkSize /\ block = k
    /\ phase = (IF k + 1 = cmd.req.n THEN "status" ELSE "dataOut")
    /\ count = (k + 1) * BlkSize /\ moved = First(cmd.req, k)
    /\ Called(k) /\ Left(k, cmd.req.n - k)

Moving ==
    /\ Quiet
    /\ \/ cmd.req.op = "read"  /\ \E k \in 0 .. cmd.req.n - 1 : Reading(k) \/ HasRead(k)
       \/ cmd.req.op = "write" /\ \E k \in 0 .. cmd.req.n - 1 : Writing(k) \/ HasSent(k)

Together ==
    /\ phase \in {"idle", "command"} => Ready
    /\ phase = "command" => Fresh
    /\ phase \in Talking =>
          /\ cbw = cmd /\ phase # "failed"
          /\ \/ Sent \/ Refused
             \/ /\ Accepted(cmd.req) /\ dTag = cmd.tag
                /\ \/ phase = "status" /\ Quiet /\ Complete /\ (Answering \/ Answered)
                   \/ Informing \/ Moving

IInv == Always /\ (~cut => Together)

-----------------------------------------------------------------------------
(* Arithmetic *)

LEMMA ModSmall ==
    ASSUME NEW n \in Nat, NEW d \in Nat, n < d
    PROVE  n % d = n
OBVIOUS

\* A sum of two words wraps at most once.
LEMMA ModOnce ==
    ASSUME NEW n \in Nat, n < Word + Word
    PROVE  /\ n < Word => n % Word = n
           /\ n >= Word => n % Word = n - Word
<1>1. Word \in Nat \ {0}
  BY SizesAssumption
<1>2. ASSUME n < Word
      PROVE  n % Word = n
  BY <1>1, <1>2, ModSmall
<1>3. ASSUME n >= Word
      PROVE  n % Word = n - Word
  <2>1. n - Word \in Nat /\ n - Word < Word
    BY <1>1, <1>3
  <2>2. (n - Word) % Word = n - Word
    BY <1>1, <2>1, ModSmall
  <2>3. n % Word = (n - Word) % Word
    BY <1>1, <2>1
  <2>4. QED
    BY <2>2, <2>3
<1>4. QED
  BY <1>2, <1>3

\* Blocks and their bytes.
LEMMA Blocks ==
    ASSUME NEW k \in Nat
    PROVE  /\ k * BlkSize \in Nat
           /\ (k + 1) * BlkSize = k * BlkSize + BlkSize
           /\ (k * BlkSize) \div BlkSize = k
           /\ BlkSize \div BlkSize = 1
           /\ CbwSize \div BlkSize = 0
           /\ BlkSize > 0
<1>1. BlkSize \in Nat \ {0} /\ CbwSize \in Nat /\ CbwSize < BlkSize
  BY SizesAssumption
<1>2. k * BlkSize \in Nat /\ (k + 1) * BlkSize = k * BlkSize + BlkSize
  BY <1>1
<1>3. (k * BlkSize) \div BlkSize = k
  BY <1>1
<1>4. BlkSize \div BlkSize = 1
  BY <1>1
<1>5. CbwSize \div BlkSize = 0
  BY <1>1
<1>6. QED
  BY <1>1, <1>2, <1>3, <1>4, <1>5

\* As many bytes are as many blocks.
LEMMA BlocksDiffer ==
    ASSUME NEW j \in Nat, NEW k \in Nat, j * BlkSize = k * BlkSize
    PROVE  j = k
BY Blocks

\* A sum of parts.
LEMMA BlocksLeft ==
    ASSUME NEW n \in Nat, NEW k \in 0 .. n
    PROVE  (n - k) * BlkSize = n * BlkSize - k * BlkSize
<1>1. BlkSize \in Nat
  BY SizesAssumption
<1>2. QED
  BY <1>1

-----------------------------------------------------------------------------
(* Commands *)

LEMMA KnownRequest ==
    ASSUME NEW c, c \in Command, Known(c)
    PROVE  /\ c.req \in Request
           /\ c.req.lba \in Word32 /\ c.req.n \in Word32 /\ c.req.length \in Word32
           /\ c.req.op \in {"read", "write"} => c.req.length = c.req.n * BlkSize
           /\ c.req.op = "info" => c.req.n > 0 /\ c.req.length > 0
<1>1. /\ c.req \in Request
      /\ c.req.lba \in Word32 /\ c.req.n \in Word32 /\ c.req.length \in Word32
  BY DEF Command, Request
<1>2. NoCommand.req.op = "none"
  BY DEF NoCommand
<1>3. c.req \in Requests => WellFormed(c.req)
  BY RequestsAssumption
<1>4. ASSUME c.req.op \in {"info", "read", "write"}
      PROVE  WellFormed(c.req)
  BY <1>2, <1>3, <1>4 DEF Known
<1>5. ASSUME c.req.op = "info"
      PROVE  c.req.n > 0 /\ c.req.length > 0
  BY <1>1, <1>4, <1>5 DEF WellFormed, Word32
<1>6. ASSUME c.req.op \in {"read", "write"}
      PROVE  c.req.length = c.req.n * BlkSize
  BY <1>4, <1>6 DEF WellFormed
<1>7. QED
  BY <1>1, <1>5, <1>6

\* A read or a write that is accepted is one of blocks on the card, or its sum has
\* wrapped.
LEMMA AcceptedBlocks ==
    ASSUME NEW c, c \in Command, Known(c), Accepted(c.req),
           c.req.op \in {"read", "write"}
    PROVE  /\ c.req.lba \in Word32 /\ c.req.n \in Word32 /\ c.req.n \in Nat \ {0}
           /\ Wraps(c.req) \/ c.req.lba + c.req.n <= BlkNbr
           /\ c.req.length = c.req.n * BlkSize
           /\ c.req.length # 0
<1>1. c.req.lba \in Word32 /\ c.req.n \in Word32 /\ c.req.length = c.req.n * BlkSize
  BY KnownRequest
<1>2. c.req.length # 0 /\ InCard(c.req)
  BY DEF Accepted
<1>3. c.req.n # 0
  BY <1>1, <1>2, SizesAssumption
<1>4. ASSUME ~Wraps(c.req)
      PROVE  c.req.lba + c.req.n <= BlkNbr
  <2>1. (c.req.lba + c.req.n) % Word = c.req.lba + c.req.n
    <3>1. /\ c.req.lba + c.req.n \in Nat /\ Word \in Nat
          /\ c.req.lba + c.req.n < Word
      BY <1>1, <1>4, SizesAssumption DEF Wraps, Word32
    <3>2. QED
      BY <3>1, ModSmall
  <2>2. QED
    BY <1>2, <2>1 DEF InCard
<1>5. QED
  BY <1>1, <1>2, <1>3, <1>4, SizesAssumption DEF Word32

\* The sector after this one: where it is, and that it is on the card if there is
\* still one to go.
LEMMA NextSector ==
    ASSUME NEW s \in Word32
    PROVE  /\ Advance(s, 1) = (IF s + 1 < Word THEN s + 1 ELSE 0) /\ Advance(s, 0) = s
           /\ Advance(s, 1) \in Word32
<1>1. s \in Nat /\ s < Word /\ s + 1 <= Word /\ Word \in Nat \ {0}
  BY SizesAssumption DEF Word32
<1>2. (s + 0) % Word = s
  BY <1>1, ModSmall
<1>3. (s + 1) % Word = IF s + 1 < Word THEN s + 1 ELSE 0
  <2>1. CASE s + 1 < Word
    BY <1>1, <2>1, ModSmall
  <2>2. CASE s + 1 = Word
    <3>1. Word < Word + Word /\ Word - Word = 0 /\ Word >= Word /\ Word \in Nat
      BY <1>1
    <3>2. Word % Word = Word - Word
      BY <3>1, ModOnce
    <3>3. QED
      BY <2>2, <3>1, <3>2
  <2>3. QED
    BY <1>1, <2>1, <2>2
<1>4. QED
  BY <1>1, <1>2, <1>3 DEF Advance, Word32

\* The sectors of a command, one by one.
LEMMA Sectors ==
    ASSUME NEW r \in Request, NEW k \in Nat, k + 1 <= r.n
    PROVE  /\ Sector(r, k) \in Word32
           /\ Sector(r, 0) = r.lba
           /\ Advance(Sector(r, k), 1) = Sector(r, k + 1)
<1>1. /\ r.lba \in Nat /\ r.lba < Word /\ r.n < Word /\ r.n \in Nat
      /\ Word \in Nat \ {0}
  BY SizesAssumption DEF Request, Word32
<1>2. Sector(r, 0) = r.lba
  <2>1. r.lba + 0 = r.lba
    BY <1>1
  <2>2. QED
    BY <1>1, <2>1, ModSmall DEF Sector
<1>3. /\ r.lba + k < Word => Sector(r, k) = r.lba + k
      /\ r.lba + k >= Word => Sector(r, k) = r.lba + k - Word
  <2>1. r.lba + k \in Nat /\ r.lba + k < Word + Word
    BY <1>1
  <2>2. /\ r.lba + k < Word => (r.lba + k) % Word = r.lba + k
        /\ r.lba + k >= Word => (r.lba + k) % Word = r.lba + k - Word
    BY <1>1, <2>1, ModOnce
  <2>3. QED
    BY <2>2 DEF Sector
<1>4. /\ r.lba + (k + 1) < Word => Sector(r, k + 1) = r.lba + (k + 1)
      /\ r.lba + (k + 1) >= Word => Sector(r, k + 1) = r.lba + (k + 1) - Word
  <2>1. r.lba + (k + 1) \in Nat /\ r.lba + (k + 1) < Word + Word
    BY <1>1
  <2>2. /\ r.lba + (k + 1) < Word => (r.lba + (k + 1)) % Word = r.lba + (k + 1)
        /\ r.lba + (k + 1) >= Word => (r.lba + (k + 1)) % Word = r.lba + (k + 1) - Word
    BY <1>1, <2>1, ModOnce
  <2>3. QED
    BY <2>2 DEF Sector
<1>5. Sector(r, k) \in Word32
  BY <1>1, <1>3 DEF Word32
<1>6. Advance(Sector(r, k), 1) =
         IF Sector(r, k) + 1 < Word THEN Sector(r, k) + 1 ELSE 0
  BY <1>5, NextSector
<1>7. Advance(Sector(r, k), 1) = Sector(r, k + 1)
  BY <1>1, <1>3, <1>4, <1>6
<1>8. QED
  BY <1>2, <1>5, <1>7

-----------------------------------------------------------------------------
(* What holds at all times *)

LEMMA AlwaysInit ==
    ASSUME Init
    PROVE  Always
<1>1. NoCommand \in Command /\ Known(NoCommand) /\ NoCommand.req.op = "none"
  BY SizesAssumption DEF NoCommand, Command, Request, Ops, Known, Word32
<1>2. TypeOK
  <2>1. cbw \in Command /\ cmd \in Command
    BY <1>1 DEF Init
  <2>2. /\ start_sector \in Word32 /\ nsectors \in Nat
        /\ dDataResidue \in Int /\ dTag \in 0 .. 1 /\ count \in Nat
        /\ block \in Nat \cup {Lost} /\ outDone \in {0, CbwSize, BlkSize}
    BY SizesAssumption DEF Init, Word32
  <2>3. /\ stage \in Stages /\ phase \in Phases /\ out = "off" /\ in = "off"
        /\ inDone = FALSE /\ outHalt = FALSE /\ inHalt = FALSE /\ cut = FALSE
        /\ moved \in SUBSET (Int \X Int) /\ calls \in SUBSET Call
    BY DEF Init, Stages, Phases
  <2>4. QED
    BY <2>1, <2>2, <2>3 DEF TypeOK
<1>3. OneTransfer /\ Inside /\ InRange /\ Detached /\ OldCommand
  BY SizesAssumption
  DEF Init, OneTransfer, Inside, OnCard, InRange, Detached, OldCommand, Talking
<1>4. QED
  BY <1>1, <1>2, <1>3 DEF Init, Always

\* The host and its rules.
LEMMA HostAlways ==
    ASSUME Always,
           \/ Configure \/ ClassReset \/ BusReset \/ ClearHalt
           \/ \E r \in Requests : Choose(r)
    PROVE  Always'
<1> USE DEF Always
<1>1. CASE Configure
  BY <1>1 DEF Configure, TypeOK, Known, OneTransfer, Inside, OnCard, InRange, Detached,
              OldCommand, Talking, Phases, scsiVars, cswVars, inVars
<1>2. CASE ClassReset
  <2>1. /\ phase # "attach" /\ phase' = "idle" /\ stage' = "READ_CBW"
        /\ outHalt' = FALSE /\ inHalt' = FALSE /\ cut' \in BOOLEAN
        /\ UNCHANGED <<cbw, scsiVars, cswVars, block, out, outDone, in, inDone,
                       cmd, count, moved, calls>>
    BY <1>2 DEF ClassReset, OutKept, TypeOK
  <2>2. QED
    BY <2>1 DEF TypeOK, Known, OneTransfer, Inside, OnCard, InRange, Detached,
                OldCommand, Talking, Phases, Stages, scsiVars, cswVars
<1>3. CASE BusReset
  <2>1. /\ phase' = "attach" /\ stage' = "READ_CBW" /\ outDone' = 0
        /\ out' = "off" /\ in' = "off" /\ inDone' = FALSE
        /\ outHalt' = FALSE /\ inHalt' = FALSE /\ cut' = FALSE
        /\ UNCHANGED <<cbw, start_sector, nsectors, dDataResidue, dTag, block,
                       cmd, count, moved, calls>>
    BY <1>3 DEF BusReset, scsiVars, cswVars
  <2>2. TypeOK' /\ Known(cbw)' /\ Known(cmd)'
    BY <2>1 DEF TypeOK, Known, Phases, Stages
  <2>3. (OneTransfer /\ Detached /\ OldCommand)'
    BY <2>1 DEF OneTransfer, Detached, OldCommand, Talking
  <2>4. Inside'
    BY <2>1 DEF Inside, OnCard
  <2>5. InRange'
    BY <2>1 DEF InRange
  <2>6. QED
    BY <2>2, <2>3, <2>4, <2>5
<1>4. CASE ClearHalt
  <2>1. /\ phase \in Talking /\ phase' = "status"
        /\ outHalt' \in BOOLEAN /\ inHalt' \in BOOLEAN
        /\ UNCHANGED <<stage, cbw, start_sector, nsectors, dDataResidue, dTag, block,
                       out, outDone, in, inDone, cmd, count, moved, calls, cut>>
    BY <1>4 DEF ClearHalt, TypeOK, Talking, scsiVars, cswVars
  <2>2. TypeOK' /\ Known(cbw)' /\ Known(cmd)'
    BY <2>1 DEF TypeOK, Known, Phases
  <2>3. (OneTransfer /\ Detached /\ OldCommand)'
    BY <2>1 DEF OneTransfer, Detached, OldCommand, Talking
  <2>4. (Inside /\ InRange)'
    BY <2>1 DEF Inside, OnCard, InRange
  <2>5. QED
    BY <2>2, <2>3, <2>4
<1>5. ASSUME NEW r \in Requests, Choose(r)
      PROVE  Always'
  <2>1. cmd' \in Command /\ Known(cmd)'
    <3>1. r \in Request /\ 1 - cmd.tag \in 0 .. 1
      BY RequestsAssumption DEF TypeOK, Command
    <3>2. QED
      BY <1>5, <3>1 DEF Choose, Command, Known
  <2>2. QED
    BY <1>5, <2>1 DEF Choose, TypeOK, Known, OneTransfer, Inside, OnCard, InRange, Detached,
              OldCommand, Talking, Phases, scsiVars, cswVars, outVars, inVars
<1>6. QED
  BY <1>1, <1>2, <1>3, <1>4, <1>5

\* The host sends.
LEMMA SendAlways ==
    ASSUME Always, SendCbw \/ SendBlock
    PROVE  Always'
<1> USE DEF Always
<1>1. CASE SendCbw
  <2>1. phase' \in {"status", "dataIn", "dataOut"} /\ phase = "command"
    BY <1>1 DEF SendCbw
  <2>2. /\ out # "off" /\ out' = "off" /\ outDone' = CbwSize
        /\ \/ out = "cbw" /\ cbw' = cmd /\ block' = block
           \/ out = "block" /\ cbw' = cbw /\ block' = Lost
        /\ UNCHANGED <<stage, scsiVars, cswVars, outHalt, inVars, cmd, count, moved, calls, cut>>
    BY <1>1 DEF SendCbw, TypeOK
  <2>3. TypeOK' /\ Known(cbw)' /\ Known(cmd)'
    BY <2>1, <2>2 DEF TypeOK, Known, Phases, scsiVars, cswVars, inVars
  <2>4. (OneTransfer /\ InRange /\ Detached)'
    BY <2>1, <2>2 DEF OneTransfer, InRange, Detached, inVars
  <2>5. Inside'
    <3>1. stage # "READ_CBW" => cbw' = cbw
      BY <2>2 DEF OldCommand
    <3>2. QED
      BY <2>2, <3>1 DEF Inside, OnCard, scsiVars
  <2>6. OldCommand'
    BY <2>1, <2>2 DEF OldCommand, OneTransfer, Talking, inVars
  <2>7. QED
    BY <2>3, <2>4, <2>6, <2>5
<1>2. CASE SendBlock
  <2>1. /\ phase = "dataOut" /\ phase' \in {"status", "dataOut"}
        /\ out = "block" /\ out' = "off" /\ outDone' = BlkSize
        /\ block' = count \div BlkSize /\ count' = count + BlkSize
        /\ UNCHANGED <<stage, cbw, scsiVars, cswVars, outHalt, inVars, cmd, moved, calls, cut>>
    BY <1>2 DEF SendBlock, AfterData
  <2>2. block' \in Nat /\ count' \in Nat
    BY <2>1, SizesAssumption DEF TypeOK
  <2>3. TypeOK' /\ Known(cbw)' /\ Known(cmd)'
    BY <2>1, <2>2 DEF TypeOK, Known, Phases, scsiVars, cswVars, inVars
  <2>4. (OneTransfer /\ Inside /\ InRange /\ Detached)'
    BY <2>1 DEF OneTransfer, Inside, OnCard, InRange, Detached, scsiVars, cswVars, inVars
  <2>5. OldCommand'
    BY <2>1, SizesAssumption DEF OldCommand, OneTransfer, Talking, inVars
  <2>6. QED
    BY <2>3, <2>4, <2>5
<1>3. QED
  BY <1>1, <1>2

\* The host receives.
LEMMA TakeAlways ==
    ASSUME Always, ReadBlock \/ ReadShort \/ ReadCsw
    PROVE  Always'
<1> USE DEF Always
<1>1. /\ in # "off" /\ in' = "off" /\ inDone' = TRUE
      /\ phase \in {"dataIn", "status"} /\ phase' \in {"dataIn", "status", "idle", "failed"}
      /\ UNCHANGED <<stage, cbw, scsiVars, cswVars, block, outVars, inHalt, cmd, calls,
                     cut>>
  BY DEF ReadBlock, ReadShort, ReadCsw, TakeIn, AfterData
<1>2. (OneTransfer /\ Detached /\ OldCommand)'
  BY <1>1 DEF OneTransfer, Detached, OldCommand, Talking, outVars, TypeOK, cswVars
<1>3. count' \in Nat
  <2>1. CASE ReadBlock
    BY <2>1, SizesAssumption DEF ReadBlock, TypeOK
  <2>2. CASE ReadShort
    <3>1. cmd.req.length \in Nat /\ dDataResidue \in Int
      BY DEF TypeOK, Command, Request, Word32
    <3>2. QED
      BY <2>2, <3>1 DEF ReadShort, OldCommand, TypeOK
  <2>3. CASE ReadCsw
    BY <2>3 DEF ReadCsw, TypeOK
  <2>4. QED
    BY <2>1, <2>2, <2>3
<1>4. moved' \in SUBSET (Int \X Int) /\ InRange'
  <2>1. CASE ReadBlock
    <3>1. block \in Int /\ count \div BlkSize \in Int
      BY SizesAssumption DEF TypeOK, Lost
    <3>2. moved' = moved \cup {<<count \div BlkSize, block>>}
      BY <2>1 DEF ReadBlock
    <3>3. QED
      BY <1>1, <3>1, <3>2 DEF TypeOK, InRange
  <2>2. CASE ReadShort \/ ReadCsw
    BY <1>1, <2>2 DEF ReadShort, ReadCsw, TypeOK, InRange
  <2>3. QED
    BY <2>1, <2>2
<1>5. Inside'
  BY <1>1 DEF Inside, OnCard, scsiVars
<1>6. TypeOK' /\ Known(cbw)' /\ Known(cmd)'
  BY <1>1, <1>3, <1>4 DEF TypeOK, Known, Phases, scsiVars, cswVars, outVars
<1>7. QED
  BY <1>2, <1>4, <1>5, <1>6

\* The card is called for a sector that is on it, or by a command that has wrapped.
LEMMA CallSector ==
    ASSUME TypeOK, InRange, NEW s \in Word32, NEW n \in Nat \ {0}, OnCard(s, n),
           NEW done \in BOOLEAN, SectorCall(s, n, done)
    PROVE  calls' \in SUBSET Call /\ InRange'
<1> DEFINE call == [no |-> cbw.req.n - n, sector |-> s, req |-> cbw.req, done |-> done]
<1>1. calls' = calls \cup {call}
  BY DEF SectorCall
<1>2. cbw.req \in Request /\ cbw.req.n \in Nat
  BY DEF TypeOK, Command, Request, Word32
<1>3. call \in Call
  BY <1>2 DEF Call
<1>4. call.sector < BlkNbr \/ Wraps(call.req)
  BY SizesAssumption DEF OnCard, Word32
<1> HIDE DEF call
<1>5. calls' \in SUBSET Call
  BY <1>1, <1>3 DEF TypeOK
<1>6. InRange'
  BY <1>1, <1>4 DEF InRange
<1>7. QED
  BY <1>5, <1>6

\* The device reads a sector and goes on to the next.
LEMMA ReadSector ==
    ASSUME TypeOK, InRange, NEW s \in Word32, NEW n \in Nat \ {0}, NEW residue \in Int,
           OnCard(s, n), cbw' = cbw, ProcessRead(s, n, residue)
    PROVE  /\ \E done \in BOOLEAN : /\ SectorCall(s, n, done)
                                    /\ block' = IF done THEN s ELSE Lost
           /\ in' = "block"
           /\ start_sector' = Advance(s, 1) /\ nsectors' = n - 1
           /\ dDataResidue' = residue - BlkSize
           /\ stage' = IF n = 1 THEN "SEND_CSW" ELSE "DATA_IN"
           /\ block' \in Nat \cup {Lost} /\ start_sector' \in Word32
           /\ nsectors' \in Nat /\ dDataResidue' \in Int
           /\ calls' \in SUBSET Call /\ InRange' /\ Inside'
<1>1. /\ in' = "block" /\ start_sector' = Advance(s, 1)
      /\ nsectors' = n - 1 /\ dDataResidue' = residue - BlkSize
      /\ stage' = IF n - 1 = 0 THEN "SEND_CSW" ELSE "DATA_IN"
  BY DEF ProcessRead, LastSector
<1>2. PICK done \in BOOLEAN : SectorCall(s, n, done) /\ block' = IF done THEN s ELSE Lost
  BY DEF ProcessRead
<1>3. calls' \in SUBSET Call /\ InRange'
  BY <1>2, CallSector
<1>4. n - 1 = 0 <=> n = 1
  OBVIOUS
<1>5. Advance(s, 1) \in Word32 /\ Advance(s, 1) = IF s + 1 < Word THEN s + 1 ELSE 0
  BY NextSector
<1>6. OnCard(s, n) => OnCard(Advance(s, 1), n - 1)
  BY <1>5, SizesAssumption DEF OnCard, Word32
<1>7. Inside'
  <2>1. Wraps(cbw.req)' <=> Wraps(cbw.req)
    BY DEF Wraps
  <2>2. OnCard(start_sector, nsectors)'
    BY <1>1, <1>6, <2>1 DEF OnCard
  <2>3. stage' = "DATA_IN" => 1 <= nsectors'
    BY <1>1
  <2>4. QED
    BY <1>1, <2>2, <2>3 DEF Inside
<1>8. QED
  BY <1>1, <1>2, <1>3, <1>4, <1>5, <1>7, SizesAssumption DEF Word32

LEMMA DecodeAlways ==
    ASSUME Always, Decode
    PROVE  Always'
<1> USE DEF Always
<1>1. /\ stage = "READ_CBW" /\ outDone = CbwSize /\ outDone' = 0 /\ dTag' = cbw.tag
      /\ UNCHANGED <<cbw, inDone, phase, cmd, count, cut, moved>>
  BY DEF Decode, hostVars
<1>2. /\ outDone # 0 /\ out = "off" /\ in = "off" /\ ~inDone /\ phase # "attach"
      /\ dTag' \in 0 .. 1
  BY <1>1, SizesAssumption DEF OneTransfer, Detached, TypeOK, Command
<1>3. /\ cbw.req.lba \in Word32 /\ cbw.req.n \in Word32 /\ cbw.req.length \in Word32
      /\ cbw.req.lba \in Nat /\ cbw.req.n \in Nat /\ cbw.req.length \in Nat
  BY DEF TypeOK, Command, Request, Word32
<1>4. CASE ~Accepted(cbw.req) /\ Abort
  <2>1. /\ UNCHANGED <<stage, block, in, calls>> /\ out' = "cbw"
        /\ outHalt' \in BOOLEAN /\ inHalt' \in BOOLEAN
    BY <1>4 DEF Decode, Abort, Rearmed, TypeOK
  <2>2. \/ UNCHANGED <<start_sector, nsectors>>
        \/ /\ cbw.req.op \in {"read", "write"}
           /\ start_sector' = cbw.req.lba /\ nsectors' = cbw.req.n
    BY <1>4 DEF Decode, scsiVars
  <2>3. start_sector' \in Word32 /\ nsectors' \in Nat
    BY <1>3, <2>2 DEF TypeOK
  <2>4. dDataResidue' = cbw.req.length
    BY <1>4 DEF Decode
  <2>5. TypeOK' /\ Known(cbw)' /\ Known(cmd)'
    BY <1>1, <1>2, <1>3, <2>1, <2>3, <2>4 DEF TypeOK, Known
  <2>6. (OneTransfer /\ Detached /\ OldCommand)'
    BY <1>1, <1>2, <2>1, SizesAssumption DEF OneTransfer, Detached, OldCommand
  <2>7. (Inside /\ InRange)'
    BY <1>1, <1>2, <2>1 DEF Inside, OnCard, InRange
  <2>8. QED
    BY <2>5, <2>6, <2>7
<1>5. CASE Accepted(cbw.req) /\ cbw.req.op = "none"
  <2>1. /\ stage' = "WAIT_CSW" /\ in' = "csw" /\ dDataResidue' = 0
        /\ UNCHANGED <<block, out, outHalt, inHalt, start_sector, nsectors, calls>>
    BY <1>5 DEF Decode, SendCsw, scsiVars
  <2>2. TypeOK' /\ Known(cbw)' /\ Known(cmd)'
    BY <1>1, <1>2, <2>1 DEF TypeOK, Known, Stages
  <2>3. (OneTransfer /\ Detached /\ OldCommand)'
    BY <1>1, <1>2, <2>1, SizesAssumption DEF OneTransfer, Detached, OldCommand
  <2>4. (Inside /\ InRange)'
    BY <1>1, <1>2, <2>1 DEF Inside, OnCard, InRange
  <2>5. QED
    BY <2>2, <2>3, <2>4
<1>6. CASE Accepted(cbw.req) /\ cbw.req.op = "info"
  <2>1. /\ stage' = "SEND_CSW" /\ in' = "info" /\ block' = Lost
        /\ dDataResidue' = cbw.req.length -
              IF cbw.req.n < cbw.req.length THEN cbw.req.n ELSE cbw.req.length
        /\ UNCHANGED <<out, outHalt, inHalt, start_sector, nsectors, calls>>
    BY <1>6 DEF Decode, scsiVars
  <2>2. dDataResidue' \in Int /\ dDataResidue' <= cbw.req.length
    BY <1>3, <2>1
  <2>3. TypeOK' /\ Known(cbw)' /\ Known(cmd)'
    BY <1>1, <1>2, <2>1, <2>2 DEF TypeOK, Known, Stages
  <2>4. phase = "dataIn" => cbw = cmd
    BY <1>1, <1>6 DEF OldCommand, Talking
  <2>5. OldCommand'
    BY <1>1, <1>2, <2>1, <2>2, <2>4, SizesAssumption DEF OldCommand
  <2>6. (OneTransfer /\ Detached)'
    BY <1>1, <1>2, <2>1 DEF OneTransfer, Detached
  <2>7. (Inside /\ InRange)'
    BY <1>1, <1>2, <2>1 DEF Inside, OnCard, InRange
  <2>8. QED
    BY <2>3, <2>5, <2>6, <2>7
<1>7. CASE Accepted(cbw.req) /\ cbw.req.op = "read"
  <2>1. /\ ProcessRead(cbw.req.lba, cbw.req.n, cbw.req.length)
        /\ UNCHANGED <<out, outHalt, inHalt>>
    BY <1>7 DEF Decode
  <2>2. cbw.req.n \in Nat \ {0} /\ OnCard(cbw.req.lba, cbw.req.n)
    BY <1>7, AcceptedBlocks DEF TypeOK, OnCard
  <2>3. /\ in' = "block" /\ stage' \in {"SEND_CSW", "DATA_IN"}
        /\ block' \in Nat \cup {Lost} /\ start_sector' \in Word32 /\ nsectors' \in Nat
        /\ dDataResidue' \in Int /\ calls' \in SUBSET Call /\ InRange' /\ Inside'
    BY <1>1, <1>3, <2>1, <2>2, ReadSector
  <2>4. TypeOK' /\ Known(cbw)' /\ Known(cmd)'
    BY <1>1, <1>2, <2>1, <2>3 DEF TypeOK, Known, Stages
  <2>5. (OneTransfer /\ Detached /\ OldCommand)'
    BY <1>1, <1>2, <2>1, <2>3, SizesAssumption DEF OneTransfer, Detached, OldCommand
  <2>6. QED
    BY <2>3, <2>4, <2>5
<1>8. CASE Accepted(cbw.req) /\ cbw.req.op = "write"
  <2>1. /\ stage' = "DATA_OUT" /\ start_sector' = cbw.req.lba
        /\ nsectors' = cbw.req.n /\ dDataResidue' = cbw.req.length
        /\ out' = "block" /\ UNCHANGED <<block, outHalt, in, inHalt, calls>>
    BY <1>8 DEF Decode
  <2>2. cbw.req.n \in Nat \ {0} /\ OnCard(cbw.req.lba, cbw.req.n)
    BY <1>8, AcceptedBlocks DEF TypeOK, OnCard
  <2>3. TypeOK' /\ Known(cbw)' /\ Known(cmd)'
    BY <1>1, <1>2, <1>3, <2>1 DEF TypeOK, Known, Stages
  <2>4. (OneTransfer /\ Detached /\ OldCommand)'
    BY <1>1, <1>2, <1>8, <2>1, SizesAssumption DEF OneTransfer, Detached, OldCommand
  <2>5. (Inside /\ InRange)'
    BY <1>1, <1>2, <2>1, <2>2 DEF Inside, OnCard, InRange
  <2>6. QED
    BY <2>3, <2>4, <2>5
<1>9. QED
  BY <1>4, <1>5, <1>6, <1>7, <1>8 DEF Decode

LEMMA DeviceAlways ==
    ASSUME Always, DecodeBlock \/ ProcessWrite \/ BulkIn
    PROVE  Always'
<1> USE DEF Always
<1>1. CASE DecodeBlock
  <2>1. /\ stage = "READ_CBW" /\ outDone # 0 /\ outDone' = 0 /\ out' = "cbw"
        /\ outHalt' \in BOOLEAN /\ inHalt' \in BOOLEAN
        /\ UNCHANGED <<stage, block, in, cbw, start_sector, nsectors, dDataResidue,
                       dTag, inDone, phase, cmd, count, cut, moved, calls>>
    BY <1>1, SizesAssumption
    DEF DecodeBlock, Abort, Rearmed, scsiVars, cswVars, hostVars, TypeOK
  <2>2. in = "off" /\ ~inDone /\ phase # "attach"
    BY <2>1 DEF OneTransfer, Detached
  <2>3. TypeOK' /\ Known(cbw)' /\ Known(cmd)'
    BY <2>1 DEF TypeOK, Known
  <2>4. (OneTransfer /\ Detached /\ OldCommand)'
    BY <2>1, <2>2, SizesAssumption DEF OneTransfer, Detached, OldCommand
  <2>5. (Inside /\ InRange)'
    BY <2>1 DEF Inside, OnCard, InRange
  <2>6. QED
    BY <2>3, <2>4, <2>5
<1>2. CASE ProcessWrite
  <2> DEFINE blocks == outDone \div BlkSize
  <2>1. /\ stage = "DATA_OUT" /\ outDone # 0 /\ outDone' = 0
        /\ start_sector' = Advance(start_sector, blocks)
        /\ nsectors' = nsectors - blocks /\ dDataResidue' = dDataResidue - outDone
        /\ UNCHANGED <<cbw, dTag, block, outHalt, inDone, inHalt, phase, cmd, count, cut>>
        /\ \/ nsectors' = 0 /\ stage' = "WAIT_CSW" /\ in' = "csw" /\ out' = out
           \/ nsectors' # 0 /\ out' = "block" /\ UNCHANGED <<stage, in>>
    BY <1>2 DEF ProcessWrite, LastSector, SendCsw, hostVars
  <2>2. /\ out = "off" /\ in = "off" /\ ~inDone /\ phase # "attach"
        /\ nsectors \in Nat \ {0} /\ OnCard(start_sector, nsectors)
        /\ start_sector \in Word32
    BY <2>1 DEF OneTransfer, Detached, Inside, TypeOK
  <2>3. blocks \in {0, 1}
    BY <2>1, Blocks, SizesAssumption DEF TypeOK
  <2>4. PICK done \in BOOLEAN :
           /\ SectorCall(start_sector, nsectors, done)
           /\ moved' = moved \cup {<<block, IF done THEN start_sector ELSE Lost>>}
    BY <1>2 DEF ProcessWrite
  <2>5. /\ start_sector' \in Word32 /\ nsectors' \in Nat /\ dDataResidue' \in Int
        /\ OnCard(start_sector', nsectors')
    <3>1. start_sector' = start_sector \/ start_sector' = Advance(start_sector, 1)
      BY <2>1, <2>2, <2>3, NextSector
    <3>2. /\ blocks = 0 => start_sector' = start_sector
          /\ blocks = 1 => start_sector' = Advance(start_sector, 1)
      BY <2>1, <2>2, NextSector
    <3>3. /\ Advance(start_sector, 1) \in Word32
          /\ Advance(start_sector, 1) = IF start_sector + 1 < Word THEN start_sector + 1 ELSE 0
      BY <2>2, NextSector
    <3>4. dDataResidue' \in Int /\ start_sector' \in Word32
      BY <2>1, <2>2, <3>1, <3>3, SizesAssumption DEF TypeOK
    <3> HIDE DEF blocks
    <3>5. nsectors' \in Nat
      BY <2>1, <2>2, <2>3
    <3>6. OnCard(start_sector', nsectors')
      BY <2>1, <2>2, <2>3, <3>2, <3>3, SizesAssumption DEF OnCard, Word32
    <3>7. QED
      BY <3>4, <3>5, <3>6
  <2> HIDE DEF blocks
  <2>6. /\ moved' \in SUBSET (Int \X Int)
        /\ calls' \in SUBSET Call /\ InRange'
    <3>1. calls' \in SUBSET Call /\ InRange'
      BY <2>2, <2>4, CallSector
    <3>2. start_sector \in Int /\ block \in Int /\ Lost \in Int
      BY <2>2, SizesAssumption DEF TypeOK, Word32, Lost
    <3>3. QED
      BY <2>4, <3>1, <3>2 DEF TypeOK
  <2>7. TypeOK' /\ Known(cbw)' /\ Known(cmd)'
    BY <2>1, <2>5, <2>6 DEF TypeOK, Known, Stages
  <2>8. Inside'
    <3>1. OnCard(start_sector, nsectors)'
      BY <2>1, <2>5 DEF OnCard, Wraps
    <3>2. nsectors' # 0 => 1 <= nsectors'
      BY <2>5
    <3>3. QED
      BY <2>1, <3>1, <3>2 DEF Inside
  <2>9. (OneTransfer /\ Detached)'
    BY <2>1, <2>2 DEF OneTransfer, Detached, TypeOK
  <2>10. OldCommand'
    BY <2>1, <2>2, SizesAssumption DEF OldCommand
  <2>11. QED
    BY <2>6, <2>7, <2>8, <2>10, <2>9
<1>3. CASE BulkIn
  <2>1. /\ inDone /\ inDone' = FALSE
        /\ UNCHANGED <<cbw, dTag, outDone, outHalt, inHalt, phase, cmd, count, cut, moved>>
    BY <1>3 DEF BulkIn, hostVars
  <2>2. out = "off" /\ outDone = 0 /\ in = "off" /\ phase # "attach"
    BY <2>1 DEF OneTransfer, Detached, TypeOK
  <2>3. CASE stage = "DATA_IN"
    <3>1. ProcessRead(start_sector, nsectors, dDataResidue) /\ UNCHANGED out
      BY <1>3, <2>3 DEF BulkIn
    <3>2. /\ start_sector \in Word32 /\ nsectors \in Nat \ {0} /\ dDataResidue \in Int
          /\ OnCard(start_sector, nsectors)
      BY <2>3 DEF Inside, TypeOK
    <3>3. /\ in' = "block" /\ stage' \in {"SEND_CSW", "DATA_IN"}
          /\ block' \in Nat \cup {Lost} /\ start_sector' \in Word32 /\ nsectors' \in Nat
          /\ dDataResidue' \in Int /\ calls' \in SUBSET Call /\ InRange' /\ Inside'
      BY <2>1, <3>1, <3>2, ReadSector
    <3>4. TypeOK' /\ Known(cbw)' /\ Known(cmd)'
      BY <2>1, <3>1, <3>3 DEF TypeOK, Known, Stages
    <3>5. (OneTransfer /\ Detached /\ OldCommand)'
      BY <2>1, <2>2, <3>1, <3>3, SizesAssumption DEF OneTransfer, Detached, OldCommand
    <3>6. QED
      BY <3>3, <3>4, <3>5
  <2>4. CASE stage # "DATA_IN"
    <3>1. /\ UNCHANGED <<start_sector, nsectors, dDataResidue, block, calls>>
          /\ stage' \in {"READ_CBW", "WAIT_CSW", stage} /\ stage' # "DATA_IN"
          /\ stage' = "DATA_OUT" => stage = "DATA_OUT"
          /\ \/ out' = "off" /\ in' \in {"off", "csw"}
             \/ out' = "cbw" /\ in' = "off" /\ stage' = "READ_CBW"
      <4>1. CASE stage = "SEND_CSW"
        BY <1>3, <2>2, <4>1 DEF BulkIn, SendCsw, scsiVars
      <4>2. CASE stage = "WAIT_CSW"
        BY <1>3, <2>2, <4>2 DEF BulkIn, scsiVars
      <4>3. CASE stage \in {"READ_CBW", "DATA_OUT"}
        BY <1>3, <2>2, <4>3 DEF BulkIn, scsiVars
      <4>4. QED
        BY <1>3, <2>4, <4>1, <4>2, <4>3 DEF BulkIn
    <3>2. TypeOK' /\ Known(cbw)' /\ Known(cmd)'
      <4>1. /\ stage' \in Stages /\ out' \in {"off", "cbw", "block"}
            /\ in' \in {"off", "block", "info", "csw"} /\ inDone' \in BOOLEAN
        BY <2>1, <3>1 DEF TypeOK, Stages
      <4>2. TypeOK
        OBVIOUS
      <4>3. TypeOK'
        BY <2>1, <3>1, <4>1, <4>2 DEF TypeOK
      <4>4. QED
        BY <2>1, <4>3 DEF Known
    <3>3. (OneTransfer /\ Detached /\ OldCommand)'
      BY <2>1, <2>2, <3>1, SizesAssumption DEF OneTransfer, Detached, OldCommand
    <3>4. (Inside /\ InRange)'
      BY <2>1, <2>2, <3>1 DEF Inside, OnCard, InRange
    <3>5. QED
      BY <3>2, <3>3, <3>4
  <2>5. QED
    BY <2>3, <2>4
<1>4. QED
  BY <1>1, <1>2, <1>3

LEMMA AlwaysStep ==
    ASSUME Always, [Next]_vars
    PROVE  Always'
<1>1. CASE UNCHANGED vars
  BY <1>1 DEF vars, scsiVars, cswVars, outVars, inVars, hostVars, Always, TypeOK,
              Known, OneTransfer, Inside, OnCard, InRange, Detached, OldCommand
<1>2. QED
  BY <1>1, HostAlways, SendAlways, TakeAlways, DecodeAlways, DeviceAlways
  DEF Next, Device, Transfer

-----------------------------------------------------------------------------
(* What holds as long as no command was cut off *)

\* The blocks that are through, with the next one and at either end.
LEMMA FirstBlocks ==
    ASSUME NEW r, NEW k \in Nat
    PROVE  /\ First(r, 0) = {}
           /\ First(r, k + 1) = First(r, k) \cup {<<k, Landed(r, k)>>}
           /\ r.op \in {"read", "write"} => Accounted(r) = First(r, r.n)
           /\ r.op \in {"none", "info"} => Accounted(r) = {}
<1>1. First(r, 0) = {}
  BY DEF First
<1>2. First(r, k + 1) = First(r, k) \cup {<<k, Landed(r, k)>>}
  <2>1. 0 .. k + 1 - 1 = (0 .. k - 1) \cup {k}
    OBVIOUS
  <2>2. ASSUME NEW x \in First(r, k + 1)
        PROVE  x \in First(r, k) \cup {<<k, Landed(r, k)>>}
    <3>1. PICK i \in 0 .. k : x = <<i, Landed(r, i)>>
      BY <2>1, <2>2 DEF First
    <3>2. QED
      BY <2>1, <3>1 DEF First
  <2>3. ASSUME NEW x \in First(r, k) \cup {<<k, Landed(r, k)>>}
        PROVE  x \in First(r, k + 1)
    <3>1. PICK i \in 0 .. k : x = <<i, Landed(r, i)>>
      BY <2>3 DEF First
    <3>2. i \in 0 .. k + 1 - 1
      OBVIOUS
    <3>3. QED
      BY <3>1, <3>2 DEF First
  <2>4. QED
    BY <2>2, <2>3
<1>3. r.op \in {"read", "write"} => Accounted(r) = First(r, r.n)
  BY DEF Accounted, BlocksOf, First
<1>4. ASSUME r.op \in {"none", "info"}
      PROVE  Accounted(r) = {}
  <2>1. BlocksOf(r) = {}
    <3>1. (IF r.op \in {"read", "write"} THEN r.n ELSE 0) = 0
      BY <1>4
    <3>2. QED
      BY <3>1 DEF BlocksOf
  <2>2. QED
    BY <2>1, Zenon DEF Accounted
<1>5. QED
  BY <1>1, <1>2, <1>3, <1>4

\* The same in the next state.
LEMMA FirstGrows ==
    ASSUME NEW k \in Nat
    PROVE  First(cmd.req, k + 1)' = First(cmd.req, k)' \cup {<<k, Landed(cmd.req, k)'>>}
<1>1. 0 .. k + 1 - 1 = (0 .. k - 1) \cup {k}
  OBVIOUS
<1>2. ASSUME NEW x
      PROVE  x \in First(cmd.req, k + 1)' <=>
                 x \in First(cmd.req, k)' \/ x = <<k, Landed(cmd.req, k)'>>
  <2>1. x \in First(cmd.req, k + 1)' <=>
            \E i \in 0 .. k + 1 - 1 : x = <<i, Landed(cmd.req, i)'>>
    BY DEF First
  <2>2. x \in First(cmd.req, k)' <=>
            \E i \in 0 .. k - 1 : x = <<i, Landed(cmd.req, i)'>>
    BY DEF First
  <2>3. QED
    BY <1>1, <2>1, <2>2
<1>3. QED
  BY <1>2

\* Without a call of the card what it has failed stays as it is.
LEMMA NoCall ==
    ASSUME UNCHANGED <<calls, cmd>>
    PROVE  \A k \in Nat : /\ Landed(cmd.req, k)' = Landed(cmd.req, k)
                          /\ First(cmd.req, k)' = First(cmd.req, k)
                          /\ Called(k)' = Called(k)
                          /\ Accounted(cmd.req)' = Accounted(cmd.req)
BY DEF Landed, Failed, Sector, First, Called, Accounted, BlocksOf

\* The card is called for the block that is next: it tells of no other.
LEMMA CallNext ==
    ASSUME TypeOK, cbw = cmd, cmd' = cmd, NEW k \in Nat, k + 1 <= cmd.req.n,
           Called(k), NEW s, NEW done \in BOOLEAN,
           SectorCall(s, cmd.req.n - k, done)
    PROVE  /\ Called(k + 1)'
           /\ First(cmd.req, k)' = First(cmd.req, k)
           /\ Landed(cmd.req, k)' = IF done THEN Sector(cmd.req, k) ELSE Lost
<1> DEFINE call == [no |-> cbw.req.n - (cmd.req.n - k), sector |-> s, req |-> cbw.req,
                    done |-> done]
<1>1. calls' = calls \cup {call}
  BY DEF SectorCall
<1>2. cmd.req.n \in Nat
  BY DEF TypeOK, Command, Request, Word32
<1>3. call.no = k /\ call.done = done
  BY <1>2
<1> HIDE DEF call
<1>4. Called(k + 1)'
  <2>1. \A c \in calls : c.no < k
    BY DEF Called
  <2>2. \A c \in calls' : c.no < k + 1
    <3>1. SUFFICES ASSUME NEW c \in calls'
                   PROVE  c.no < k + 1
      OBVIOUS
    <3>2. CASE c = call
      BY <1>3, <3>2
    <3>3. CASE c \in calls
      <4>1. c.no \in Int /\ c.no < k
        BY <2>1, <3>3 DEF TypeOK, Call
      <4>2. QED
        BY <4>1
    <3>4. QED
      BY <1>1, <3>2, <3>3
  <2>3. QED
    BY <2>2 DEF Called
<1>5. ASSUME NEW i \in 0 .. k - 1
      PROVE  Failed(i)' <=> Failed(i)
  <2>1. i # k
    OBVIOUS
  <2>2. QED
    BY <1>1, <1>3, <2>1 DEF Failed
<1>6. Failed(k)' <=> ~done
  <2>1. \A c \in calls : c.no # k
    BY DEF Called, TypeOK, Call
  <2>2. QED
    BY <1>1, <1>3, <2>1 DEF Failed
<1>7. \A i \in 0 .. k - 1 : Landed(cmd.req, i)' = Landed(cmd.req, i)
  BY <1>5 DEF Landed, Sector
<1>8. First(cmd.req, k)' = First(cmd.req, k)
  BY <1>7 DEF First
<1>9. Landed(cmd.req, k)' = IF done THEN Sector(cmd.req, k) ELSE Lost
  BY <1>6 DEF Landed, Sector
<1>10. QED
  BY <1>4, <1>8, <1>9

\* The bytes of a transfer, block by block.
LEMMA BlockBytes ==
    ASSUME Always, Accepted(cmd.req), cmd.req.op \in {"read", "write"},
           NEW k \in 0 .. cmd.req.n - 1
    PROVE  /\ cmd.req \in Request /\ cmd.req.n \in Nat \ {0} /\ k \in Nat
           /\ k + 1 <= cmd.req.n
           /\ cmd.req.length = cmd.req.n * BlkSize
           /\ (k + 1) * BlkSize = k * BlkSize + BlkSize
           /\ (k + 1) * BlkSize = cmd.req.length <=> k + 1 = cmd.req.n
           /\ (k * BlkSize) \div BlkSize = k
           /\ (cmd.req.n - k) * BlkSize - BlkSize = (cmd.req.n - k - 1) * BlkSize
           /\ (cmd.req.n - k) * BlkSize = cmd.req.length - k * BlkSize
<1>1. /\ cmd.req \in Request /\ cmd.req.n \in Nat \ {0}
      /\ cmd.req.length = cmd.req.n * BlkSize
  BY AcceptedBlocks DEF Always, TypeOK, Command
<1>2. k \in Nat /\ cmd.req.n - k - 1 \in Nat /\ k + 1 <= cmd.req.n
  BY <1>1
<1>3. /\ (k + 1) * BlkSize = k * BlkSize + BlkSize
      /\ (k * BlkSize) \div BlkSize = k
  BY <1>2, Blocks
<1>4. (k + 1) * BlkSize = cmd.req.length <=> k + 1 = cmd.req.n
  BY <1>1, <1>2, BlocksDiffer
<1>5. ((cmd.req.n - k - 1) + 1) * BlkSize = (cmd.req.n - k - 1) * BlkSize + BlkSize
  BY <1>2, Blocks
<1>6. (cmd.req.n - k - 1) * BlkSize \in Nat /\ BlkSize \in Nat
  BY <1>2, Blocks, SizesAssumption
<1>7. (cmd.req.n - k - 1) + 1 = cmd.req.n - k
  BY <1>1, <1>2
<1>8. (cmd.req.n - k) * BlkSize = cmd.req.n * BlkSize - k * BlkSize
  BY <1>1, <1>2, BlocksLeft
<1>9. QED
  BY <1>1, <1>2, <1>3, <1>4, <1>5, <1>6, <1>7, <1>8

\* The host before its command, and the rules it may break off by.
LEMMA HostTogether ==
    ASSUME Always, ~cut => Together, ~cut',
           \/ Configure \/ ClassReset \/ BusReset \/ ClearHalt
           \/ \E r \in Requests : Choose(r)
    PROVE  Together'
<1> USE DEF Talking
<1>1. CASE Configure
  BY <1>1 DEF Configure, Together, Ready, Quiet, Always, Detached, inVars
<1>2. CASE \E r \in Requests : Choose(r)
  <2>1. /\ phase = "idle" /\ phase' = "command" /\ ~cut /\ Fresh'
        /\ UNCHANGED <<stage, out, outDone, outHalt, in, inDone, inHalt>>
    BY <1>2 DEF Choose, outVars, inVars, Fresh
  <2>2. QED
    BY <2>1 DEF Together, Ready, Quiet
<1>3. CASE BusReset
  BY <1>3 DEF BusReset, Together
<1>4. CASE ClearHalt
  <2>1. /\ phase \in Talking /\ phase' = "status" /\ ~cut /\ ~Quiet
        /\ UNCHANGED <<stage, cbw, out, outDone, in, inDone, cmd, count, moved, calls>>
    BY <1>4 DEF ClearHalt, Quiet
  <2>2. Refused /\ cbw = cmd
    BY <2>1 DEF Together, Sent, Informing, Moving
  <2>3. Refused'
    BY <2>1, <2>2 DEF Refused
  <2>4. QED
    BY <2>1, <2>2, <2>3 DEF Together
<1>5. CASE ClassReset
  <2>1. /\ ~cut /\ stage = "READ_CBW" /\ outDone = 0 /\ ~inDone
        /\ phase \in Talking \/ (phase = "command" /\ outHalt)
        /\ phase' = "idle" /\ stage' = "READ_CBW" /\ ~outHalt' /\ ~inHalt'
        /\ UNCHANGED <<out, outDone, in, inDone>>
    BY <1>5 DEF ClassReset, OutKept, Always, TypeOK
  <2>2. phase \in Talking
    BY <2>1 DEF Together, Ready, Quiet
  <2>3. Refused
    BY <2>1, <2>2, SizesAssumption
    DEF Together, Sent, Answering, Answered, Informing, Moving, Reading, HasRead,
        Writing, HasSent
  <2>4. out = "cbw" /\ in = "off"
    BY <2>3 DEF Refused, Always, OneTransfer
  <2>5. QED
    BY <2>1, <2>4 DEF Together, Ready, Quiet
<1>6. QED
  BY <1>1, <1>2, <1>3, <1>4, <1>5

\* The command, and a block that follows it.
LEMMA SendTogether ==
    ASSUME Always, Together, SendCbw \/ SendBlock
    PROVE  Together'
<1> USE DEF Talking
<1>1. CASE SendCbw
  <2>1. /\ phase = "command" /\ out # "off" /\ outDone' = CbwSize
        /\ out = "cbw" => cbw' = cmd
        /\ UNCHANGED <<stage, outHalt, inHalt, cmd, count, moved, calls>>
    BY <1>1 DEF SendCbw, inVars
  <2>2. Ready /\ Fresh /\ out = "cbw" /\ stage = "READ_CBW"
    BY <2>1 DEF Together, Ready
  <2>3. Sent' /\ cbw' = cmd'
    <3>1. phase' = FirstPhase(cmd.req)
      BY <1>1 DEF SendCbw, FirstPhase
    <3>2. QED
      BY <2>1, <2>2, <3>1 DEF Sent, Ready, Quiet, Fresh
  <2>4. phase' \in {"status", "dataIn", "dataOut"}
    BY <1>1 DEF SendCbw
  <2>5. QED
    BY <2>3, <2>4 DEF Together
<1>2. CASE SendBlock
  <2>1. /\ phase = "dataOut" /\ out = "block" /\ outDone' = BlkSize
        /\ block' = count \div BlkSize /\ count' = count + BlkSize
        /\ phase' = IF count + BlkSize = cmd.req.length THEN "status" ELSE "dataOut"
        /\ UNCHANGED <<stage, cbw, start_sector, nsectors, dDataResidue, dTag, outHalt,
                       inHalt, cmd, moved, calls>>
    BY <1>2 DEF SendBlock, AfterData, scsiVars, cswVars, inVars
  <2>2. outDone = 0
    BY <2>1 DEF Always, OneTransfer
  <2>3. /\ cbw = cmd /\ Accepted(cmd.req) /\ dTag = cmd.tag /\ Quiet
        /\ cmd.req.op = "write" /\ \E k \in 0 .. cmd.req.n - 1 : Writing(k)
    BY <2>1, <2>2, SizesAssumption
    DEF Together, Sent, Refused, Informing, Moving, Reading, HasRead, HasSent
  <2>4. PICK k \in 0 .. cmd.req.n - 1 : Writing(k)
    BY <2>3
  <2>5. /\ k \in Nat /\ (k + 1) * BlkSize = k * BlkSize + BlkSize
        /\ (k + 1) * BlkSize = cmd.req.length <=> k + 1 = cmd.req.n
        /\ (k * BlkSize) \div BlkSize = k
    BY <2>3, BlockBytes
  <2>6. count = k * BlkSize /\ count' = (k + 1) * BlkSize /\ block' = k
    BY <2>1, <2>4, <2>5 DEF Writing, Through
  <2>7. phase' = IF k + 1 = cmd.req.n THEN "status" ELSE "dataOut"
    BY <2>1, <2>5, <2>6
  <2>8. HasSent(k)'
    <3>1. First(cmd.req, k)' = First(cmd.req, k) /\ Called(k)' = Called(k)
      BY <2>1, <2>5, NoCall
    <3>2. QED
      BY <2>1, <2>4, <2>6, <2>7, <3>1 DEF Writing, Through, HasSent, Left, Sector
  <2>9. Moving'
    BY <2>1, <2>3, <2>8 DEF Moving, Quiet
  <2>10. QED
    BY <2>1, <2>3, <2>7, <2>9 DEF Together
<1>3. QED
  BY <1>1, <1>2

\* What the host is sent.
LEMMA TakeTogether ==
    ASSUME Always, Together, ReadBlock \/ ReadShort \/ ReadCsw
    PROVE  Together'
<1> USE DEF Talking
<1>1. /\ in # "off" /\ in' = "off" /\ inDone' = TRUE /\ phase \in {"dataIn", "status"}
      /\ UNCHANGED <<stage, cbw, start_sector, nsectors, dDataResidue, dTag, block,
                     out, outDone, outHalt, inHalt, cmd, calls, cut>>
  BY DEF ReadBlock, ReadShort, ReadCsw, TakeIn, scsiVars, cswVars, outVars
<1>2. \A k \in Nat : /\ First(cmd.req, k)' = First(cmd.req, k)
                     /\ Called(k)' = Called(k)
                     /\ Accounted(cmd.req)' = Accounted(cmd.req)
  BY <1>1, NoCall
<1>3. out = "off" /\ outDone = 0 /\ ~inDone
  BY <1>1 DEF Always, OneTransfer, TypeOK
<1>4. /\ cbw = cmd /\ Accepted(cmd.req) /\ dTag = cmd.tag
      /\ \/ phase = "status" /\ Quiet /\ Complete /\ Answered
         \/ Informing \/ Moving
  BY <1>1, <1>3, SizesAssumption DEF Together, Sent, Refused, Answering
<1>5. CASE ReadBlock
  <2>1. /\ phase = "dataIn" /\ in = "block"
        /\ moved' = moved \cup {<<count \div BlkSize, block>>}
        /\ count' = count + BlkSize
        /\ phase' = IF count + BlkSize = cmd.req.length THEN "status" ELSE "dataIn"
    BY <1>5 DEF ReadBlock, AfterData
  <2>2. Quiet /\ cmd.req.op = "read" /\ \E k \in 0 .. cmd.req.n - 1 : Reading(k)
    BY <1>3, <1>4, <2>1 DEF Informing, Moving, HasRead, Writing, HasSent
  <2>3. PICK k \in 0 .. cmd.req.n - 1 : Reading(k)
    BY <2>2
  <2>4. /\ cmd.req.n \in Nat \ {0} /\ k \in Nat
        /\ cmd.req.length = cmd.req.n * BlkSize
        /\ (k + 1) * BlkSize = k * BlkSize + BlkSize
        /\ (k + 1) * BlkSize = cmd.req.length <=> k + 1 = cmd.req.n
        /\ (k * BlkSize) \div BlkSize = k
    BY <1>4, <2>2, BlockBytes
  <2>5. count = k * BlkSize /\ moved = First(cmd.req, k) /\ block = Landed(cmd.req, k)
    BY <2>3 DEF Reading, Through
  <2>6. count' = (k + 1) * BlkSize /\ moved' = First(cmd.req, k + 1)
    BY <2>1, <2>4, <2>5, FirstBlocks
  <2>7. Left(k + 1, cmd.req.n - k - 1) /\ Called(k + 1)
    BY <2>3 DEF Reading
  <2>8. Quiet'
    BY <1>1, <2>2 DEF Quiet
  <2>9. CASE k + 1 = cmd.req.n
    <3>1. phase' = "status" /\ stage = "SEND_CSW"
      BY <2>1, <2>3, <2>4, <2>5, <2>9 DEF Reading
    <3>2. count' = cmd.req.length /\ moved' = Accounted(cmd.req)'
      BY <1>2, <2>2, <2>4, <2>6, <2>9, FirstBlocks
    <3>3. dDataResidue = 0
      <4>1. cmd.req.n - k - 1 = 0
        BY <2>4, <2>9
      <4>2. dDataResidue = 0 * BlkSize
        BY <2>7, <4>1 DEF Left
      <4>3. QED
        BY <4>2, SizesAssumption
    <3>4. cmd.req.length \in Nat
      BY <2>4, SizesAssumption
    <3>5. Complete' /\ Answering'
      BY <1>1, <3>1, <3>2, <3>3, <3>4 DEF Complete, Answering
    <3>6. QED
      BY <1>1, <1>4, <2>8, <3>1, <3>5 DEF Together
  <2>10. CASE k + 1 # cmd.req.n
    <3>1. phase' = "dataIn" /\ stage = "DATA_IN"
      BY <2>1, <2>3, <2>4, <2>5, <2>10 DEF Reading
    <3>2. k + 1 \in 0 .. cmd.req.n - 1 /\ cmd.req.n - k - 1 = cmd.req.n - (k + 1)
      BY <2>4, <2>10
    <3>3. HasRead(k + 1)'
      BY <1>1, <1>2, <2>4, <2>6, <2>7, <3>1, <3>2 DEF HasRead, Through, Left, Sector
    <3>4. Moving'
      BY <1>1, <2>2, <2>8, <3>2, <3>3 DEF Moving
    <3>5. QED
      BY <1>1, <1>4, <3>1, <3>4 DEF Together
  <2>11. QED
    BY <2>9, <2>10
<1>6. CASE ReadShort
  <2>1. /\ phase = "dataIn" /\ in \in {"info", "csw"} /\ phase' = "status" /\ moved' = moved
        /\ in = "info" => count' = cmd.req.length - dDataResidue
    BY <1>6 DEF ReadShort
  <2>2. Informing
    BY <1>3, <1>4, <2>1 DEF Moving, Reading, HasRead, Writing, HasSent
  <2>3. /\ cmd.req.length \in Nat /\ dDataResidue \in Int
        /\ moved = {} /\ Accounted(cmd.req)' = {} /\ stage = "SEND_CSW" /\ Quiet
        /\ in = "info"
    <3>1. Accounted(cmd.req) = {} /\ Accounted(cmd.req)' = Accounted(cmd.req)
      BY <1>2, <2>2, FirstBlocks DEF Informing
    <3>2. cmd.req.length \in Nat /\ dDataResidue \in Int
      BY DEF Always, TypeOK, Command, Request, Word32
    <3>3. QED
      BY <2>2, <3>1, <3>2 DEF Informing, Fresh
  <2>4. Complete' /\ Answering' /\ Quiet'
    BY <1>1, <2>1, <2>3 DEF Complete, Answering, Quiet
  <2>5. QED
    BY <1>1, <1>4, <2>1, <2>4 DEF Together
<1>7. CASE ReadCsw
  <2>1. /\ phase = "status"
        /\ phase' = IF in = "csw" /\ dTag = cmd.tag THEN "idle" ELSE "failed"
    BY <1>7 DEF ReadCsw
  <2>2. Answered /\ Quiet
    BY <1>3, <1>4, <2>1, SizesAssumption
    DEF Informing, Moving, Reading, HasRead, Writing, HasSent
  <2>3. phase' = "idle"
    BY <2>1, <2>2 DEF Answered
  <2>4. Ready'
    BY <1>1, <1>3, <2>2 DEF Ready, Answered, Quiet
  <2>5. QED
    BY <2>3, <2>4 DEF Together
<1>8. QED
  BY <1>5, <1>6, <1>7

\* A command that has come is the one the host has sent.
LEMMA DecodeTogether ==
    ASSUME Always, Together, Decode
    PROVE  Together'
<1> USE DEF Talking
<1>1. /\ stage = "READ_CBW" /\ outDone = CbwSize /\ outDone' = 0 /\ dTag' = cbw.tag
      /\ UNCHANGED <<cbw, inDone, phase, cmd, count, cut, moved>>
  BY DEF Decode, hostVars
<1>2. /\ outDone # 0 /\ outDone # BlkSize
      /\ out = "off" /\ in = "off" /\ ~inDone /\ phase # "attach"
  BY <1>1, SizesAssumption DEF Always, OneTransfer, Detached, TypeOK
<1>3. phase \in Talking
  BY <1>2 DEF Together, Ready, Always, TypeOK, Phases
<1>4. Sent /\ cbw = cmd /\ phase # "failed"
  BY <1>1, <1>2, <1>3
  DEF Together, Refused, Answering, Answered, Informing, Moving, Reading, HasRead,
      Writing, HasSent
<1>5. /\ phase = FirstPhase(cmd.req) /\ count = 0 /\ moved = {} /\ calls = {}
      /\ Quiet /\ dTag' = cmd.tag
  BY <1>1, <1>4 DEF Sent, Fresh
<1>6. /\ cmd.req.n \in Nat /\ cmd.req.length \in Nat /\ cmd.req.lba \in Word32
      /\ cmd.req \in Request
  BY DEF Always, TypeOK, Command, Request, Word32
<1>7. CASE ~Accepted(cbw.req) /\ Abort
  <2>1. /\ stage' = stage /\ out' = "cbw" /\ inHalt' = TRUE
        /\ outHalt' = (outHalt \/ StallsOut(cmd.req))
    BY <1>4, <1>7 DEF Abort, Rearmed
  <2>2. phase = "dataOut" => StallsOut(cmd.req)
    BY <1>5 DEF FirstPhase, StallsOut
  <2>3. phase = "dataOut" => outHalt' = TRUE
    BY <2>1, <2>2, Zenon
  <2>4. Refused'
    BY <1>1, <1>4, <1>7, <2>1, <2>3 DEF Refused
  <2>5. QED
    BY <1>1, <1>3, <1>4, <2>4 DEF Together
<1>8. CASE Accepted(cbw.req) /\ cbw.req.op = "none"
  <2>1. /\ stage' = "WAIT_CSW" /\ in' = "csw" /\ dDataResidue' = 0
        /\ UNCHANGED <<outHalt, inHalt, calls>>
        /\ cmd.req.op = "none" /\ cmd.req.length = 0
    BY <1>4, <1>8 DEF Decode, SendCsw, Accepted
  <2>2. phase = "status" /\ Accounted(cmd.req)' = {}
    BY <1>1, <1>5, <2>1, FirstBlocks, NoCall DEF FirstPhase
  <2>3. Complete' /\ Answered' /\ Quiet'
    BY <1>1, <1>5, <2>1, <2>2 DEF Complete, Answered, Quiet
  <2>4. QED
    BY <1>1, <1>4, <1>5, <1>8, <2>2, <2>3 DEF Together
<1>9. CASE Accepted(cbw.req) /\ cbw.req.op = "info"
  <2>1. /\ stage' = "SEND_CSW" /\ in' = "info"
        /\ dDataResidue' = cmd.req.length -
              IF cmd.req.n < cmd.req.length THEN cmd.req.n ELSE cmd.req.length
        /\ UNCHANGED <<outHalt, inHalt, calls>>
        /\ cmd.req.op = "info" /\ cmd.req.length # 0
    BY <1>4, <1>9 DEF Decode, Accepted
  <2>2. dDataResidue' <= cmd.req.length
    BY <1>6, <2>1
  <2>3. phase = "dataIn"
    BY <1>5, <2>1 DEF FirstPhase, IsIn
  <2>4. Informing'
    BY <1>1, <1>5, <2>1, <2>2, <2>3 DEF Informing, Fresh, Quiet
  <2>5. QED
    BY <1>1, <1>4, <1>5, <1>9, <2>3, <2>4 DEF Together
<1>10. CASE Accepted(cbw.req) /\ cbw.req.op \in {"read", "write"}
  <2>1. cmd.req.n \in Nat \ {0} /\ 0 \in 0 .. cmd.req.n - 1 /\ cmd.req.length # 0
        /\ OnCard(cmd.req.lba, cmd.req.n) /\ 0 + 1 <= cmd.req.n
        /\ cmd.req.length = cmd.req.n * BlkSize
    BY <1>4, <1>10, AcceptedBlocks DEF Always, TypeOK, OnCard
  <2>2. Sector(cmd.req, 0) = cmd.req.lba
        /\ Advance(Sector(cmd.req, 0), 1) = Sector(cmd.req, 0 + 1)
    BY <1>6, <2>1, Sectors
  <2>3. cmd.req.length - BlkSize = (cmd.req.n - 1) * BlkSize
    <3>1. cmd.req.n - 1 \in Nat /\ (cmd.req.n - 1) + 1 = cmd.req.n
      BY <2>1
    <3>2. ((cmd.req.n - 1) + 1) * BlkSize = (cmd.req.n - 1) * BlkSize + BlkSize
      BY <3>1, Blocks
    <3>3. (cmd.req.n - 1) * BlkSize \in Nat /\ BlkSize \in Nat
      BY <3>1, Blocks, SizesAssumption
    <3>4. QED
      BY <2>1, <3>1, <3>2, <3>3
  <2>4. Through(0)'
    <3>1. 0 * BlkSize = 0
      BY SizesAssumption
    <3>2. First(cmd.req, 0)' = {}
      BY DEF First
    <3>3. QED
      BY <1>1, <1>5, <3>1, <3>2 DEF Through
  <2>5. Called(0)
    BY <1>5 DEF Called
  <2>6. CASE cbw.req.op = "read"
    <3>1. ProcessRead(cmd.req.lba, cmd.req.n, cmd.req.length)
          /\ UNCHANGED <<out, outHalt, inHalt>>
      BY <1>4, <1>10, <2>6 DEF Decode
    <3>2. /\ \E done \in BOOLEAN : /\ SectorCall(cmd.req.lba, cmd.req.n, done)
                                   /\ block' = IF done THEN cmd.req.lba ELSE Lost
          /\ in' = "block"
          /\ start_sector' = Advance(cmd.req.lba, 1) /\ nsectors' = cmd.req.n - 1
          /\ dDataResidue' = cmd.req.length - BlkSize
          /\ stage' = IF cmd.req.n = 1 THEN "SEND_CSW" ELSE "DATA_IN"
      BY <1>1, <1>6, <2>1, <3>1, ReadSector DEF Always
    <3>3. Called(0 + 1)' /\ block' = Landed(cmd.req, 0)'
      <4>1. PICK done \in BOOLEAN : /\ SectorCall(cmd.req.lba, cmd.req.n, done)
                                    /\ block' = IF done THEN cmd.req.lba ELSE Lost
        BY <3>2
      <4>2. cmd.req.n - 0 = cmd.req.n
        BY <1>6
      <4>3. Called(0 + 1)' /\ Landed(cmd.req, 0)' = IF done THEN Sector(cmd.req, 0) ELSE Lost
        BY <1>1, <1>4, <2>1, <2>5, <4>1, <4>2, CallNext DEF Always
      <4>4. QED
        BY <2>2, <4>1, <4>3
    <3>4. phase = "dataIn"
      BY <1>4, <1>5, <2>1, <2>6 DEF FirstPhase, IsIn
    <3>5. Left(0 + 1, cmd.req.n - 0 - 1)'
      <4>1. nsectors' = cmd.req.n - 0 - 1 /\ start_sector' = Sector(cmd.req, 0 + 1)
            /\ dDataResidue' = (cmd.req.n - 0 - 1) * BlkSize
        BY <1>6, <2>3, <2>2, <3>2
      <4>2. QED
        BY <1>1, <4>1 DEF Left, Sector
    <3>6. Reading(0)'
      BY <1>1, <1>6, <2>4, <3>2, <3>4, <3>5, <3>3 DEF Reading
    <3>7. Quiet' /\ cmd'.req.op = "read"
      BY <1>1, <1>4, <1>5, <2>6, <3>1 DEF Quiet
    <3>8. Moving'
      BY <1>1, <2>1, <3>6, <3>7 DEF Moving
    <3>9. QED
      BY <1>1, <1>4, <1>5, <1>10, <3>4, <3>8 DEF Together
  <2>7. CASE cbw.req.op = "write"
    <3>1. /\ stage' = "DATA_OUT" /\ start_sector' = cmd.req.lba
          /\ nsectors' = cmd.req.n /\ dDataResidue' = cmd.req.length
          /\ out' = "block" /\ UNCHANGED <<block, outHalt, in, inHalt, calls>>
      BY <1>4, <1>10, <2>7 DEF Decode
    <3>2. phase = "dataOut"
      BY <1>4, <1>5, <2>1, <2>7 DEF FirstPhase, IsIn
    <3>3. Left(0, cmd.req.n - 0)'
      <4>1. cmd.req.n - 0 = cmd.req.n
        BY <1>6
      <4>2. QED
        BY <1>1, <2>1, <2>2, <3>1, <4>1 DEF Left, Sector
    <3>4. Writing(0)'
      BY <1>1, <2>4, <2>5, <3>1, <3>2, <3>3 DEF Writing, Called
    <3>5. Quiet' /\ cmd'.req.op = "write"
      BY <1>1, <1>4, <1>5, <2>7, <3>1 DEF Quiet
    <3>6. Moving'
      BY <1>1, <2>1, <3>4, <3>5 DEF Moving
    <3>7. QED
      BY <1>1, <1>4, <1>5, <1>10, <3>2, <3>6 DEF Together
  <2>8. QED
    BY <1>10, <2>6, <2>7
<1>11. QED
  BY <1>7, <1>8, <1>9, <1>10 DEF Decode

\* The end of a transfer, on the side of the device.
LEMMA DeviceTogether ==
    ASSUME Always, Together, DecodeBlock \/ ProcessWrite \/ BulkIn
    PROVE  Together'
<1> USE DEF Talking
<1>1. CASE DecodeBlock
  <2>1. stage = "READ_CBW" /\ outDone = BlkSize /\ outDone # 0 /\ outDone # CbwSize
    BY <1>1, SizesAssumption DEF DecodeBlock
  <2>2. out = "off" /\ in = "off" /\ ~inDone /\ phase # "attach"
    BY <2>1 DEF Always, OneTransfer, Detached, TypeOK
  <2>3. phase \in Talking
    BY <2>1, <2>2 DEF Together, Ready, Always, TypeOK, Phases
  <2>4. FALSE
    BY <2>1, <2>2, <2>3
    DEF Together, Sent, Refused, Answering, Answered, Informing, Moving, Reading,
        HasRead, Writing, HasSent
  <2>5. QED
    BY <2>4
<1>2. CASE ProcessWrite
  <2> DEFINE blocks == outDone \div BlkSize
  <2>1. /\ stage = "DATA_OUT" /\ outDone # 0 /\ outDone' = 0
        /\ start_sector' = Advance(start_sector, blocks)
        /\ nsectors' = nsectors - blocks /\ dDataResidue' = dDataResidue - outDone
        /\ UNCHANGED <<cbw, dTag, block, outHalt, inDone, inHalt, phase, cmd, count, cut>>
        /\ \/ nsectors' = 0 /\ stage' = "WAIT_CSW" /\ in' = "csw" /\ out' = out
           \/ nsectors' # 0 /\ out' = "block" /\ UNCHANGED <<stage, in>>
    BY <1>2 DEF ProcessWrite, LastSector, SendCsw, hostVars
  <2>2. out = "off" /\ in = "off" /\ ~inDone /\ phase # "attach"
    BY <2>1 DEF Always, OneTransfer, Detached, TypeOK
  <2>3. phase \in Talking
    BY <2>1, <2>2 DEF Together, Ready, Always, TypeOK, Phases
  <2>4. /\ cbw = cmd /\ Accepted(cmd.req) /\ dTag = cmd.tag /\ Quiet
        /\ cmd.req.op = "write" /\ \E k \in 0 .. cmd.req.n - 1 : HasSent(k)
    BY <2>1, <2>2, <2>3
    DEF Together, Sent, Refused, Answering, Answered, Informing, Moving, Reading,
        HasRead, Writing
  <2>5. PICK k \in 0 .. cmd.req.n - 1 : HasSent(k)
    BY <2>4
  <2>6. /\ outDone = BlkSize /\ block = k /\ count = (k + 1) * BlkSize
        /\ phase = (IF k + 1 = cmd.req.n THEN "status" ELSE "dataOut")
        /\ Called(k) /\ moved = First(cmd.req, k) /\ start_sector = Sector(cmd.req, k)
        /\ nsectors = cmd.req.n - k /\ dDataResidue = (cmd.req.n - k) * BlkSize
    BY <2>5 DEF HasSent, Left
  <2>7. /\ cmd.req \in Request /\ cmd.req.n \in Nat \ {0} /\ k \in Nat
        /\ k + 1 <= cmd.req.n /\ cmd.req.length = cmd.req.n * BlkSize
        /\ (cmd.req.n - k) * BlkSize - BlkSize = (cmd.req.n - k - 1) * BlkSize
        /\ (k + 1) * BlkSize = cmd.req.length <=> k + 1 = cmd.req.n
    BY <2>4, BlockBytes
  <2>8. blocks = 1
    BY <2>6, Blocks, SizesAssumption
  <2>9. start_sector' = Sector(cmd.req, k + 1)
    BY <2>1, <2>6, <2>7, <2>8, Sectors
  <2> HIDE DEF blocks
  <2>10. nsectors' = cmd.req.n - (k + 1)
    BY <2>1, <2>6, <2>7, <2>8
  <2>11. dDataResidue' = (cmd.req.n - (k + 1)) * BlkSize
    <3>1. cmd.req.n - (k + 1) = cmd.req.n - k - 1
      BY <2>7
    <3>2. QED
      BY <2>1, <2>6, <2>7, <3>1
  <2>12. moved' = First(cmd.req, k + 1)' /\ Called(k + 1)'
    <3>1. PICK done \in BOOLEAN :
             /\ SectorCall(start_sector, nsectors, done)
             /\ moved' = moved \cup {<<block, IF done THEN start_sector ELSE Lost>>}
      BY <1>2 DEF ProcessWrite
    <3>2. /\ Called(k + 1)' /\ First(cmd.req, k)' = First(cmd.req, k)
          /\ Landed(cmd.req, k)' = IF done THEN Sector(cmd.req, k) ELSE Lost
      BY <2>1, <2>4, <2>6, <2>7, <3>1, CallNext DEF Always
    <3>3. moved' = First(cmd.req, k)' \cup {<<k, Landed(cmd.req, k)'>>}
      BY <2>6, <3>1, <3>2
    <3>4. First(cmd.req, k + 1)' = First(cmd.req, k)' \cup {<<k, Landed(cmd.req, k)'>>}
      BY <2>7, FirstGrows
    <3>5. QED
      BY <3>2, <3>3, <3>4
  <2>13. Quiet'
    BY <2>1, <2>4 DEF Quiet
  <2>14. CASE k + 1 = cmd.req.n
    <3>1. phase = "status" /\ nsectors' = 0
      BY <2>6, <2>7, <2>10, <2>14
    <3>2. count = cmd.req.length /\ dDataResidue' = 0
      <4>1. cmd.req.n - (k + 1) = 0
        BY <2>7, <2>14
      <4>2. dDataResidue' = 0 * BlkSize
        BY <2>11, <4>1
      <4>3. 0 * BlkSize = 0
        BY SizesAssumption
      <4>4. QED
        BY <2>6, <2>7, <2>14, <4>2, <4>3
    <3>3. moved' = Accounted(cmd.req)' /\ cmd.req.length \in Nat
      <4>1. Accounted(cmd.req)' = First(cmd.req, cmd.req.n)'
        BY <2>1, <2>4 DEF Accounted, First, BlocksOf
      <4>2. cmd.req.length \in Nat
        BY <2>7, Blocks
      <4>3. QED
        BY <2>1, <2>12, <2>14, <4>1, <4>2
    <3>4. Complete'
      BY <2>1, <3>2, <3>3 DEF Complete
    <3>5. Answered'
      BY <2>1, <2>4, <3>1 DEF Answered
    <3>6. QED
      BY <2>1, <2>4, <2>13, <3>1, <3>4, <3>5 DEF Together
  <2>15. CASE k + 1 # cmd.req.n
    <3>1. phase = "dataOut" /\ nsectors' # 0 /\ k + 1 \in 0 .. cmd.req.n - 1
      BY <2>6, <2>7, <2>10, <2>15
    <3>2. Writing(k + 1)'
      BY <2>1, <2>6, <2>9, <2>10, <2>11, <2>12, <3>1 DEF Writing, Through, Left, Sector
    <3>3. Moving'
      BY <2>1, <2>4, <2>13, <3>1, <3>2 DEF Moving
    <3>4. QED
      BY <2>1, <2>4, <3>1, <3>3 DEF Together
  <2>16. QED
    BY <2>14, <2>15
<1>3. CASE BulkIn
  <2>1. /\ inDone /\ inDone' = FALSE
        /\ UNCHANGED <<cbw, dTag, outDone, outHalt, inHalt, phase, cmd, count, cut, moved>>
    BY <1>3 DEF BulkIn, hostVars
  <2>2. out = "off" /\ outDone = 0 /\ in = "off" /\ phase # "attach"
    BY <2>1 DEF Always, OneTransfer, Detached, TypeOK
  <2>3. CASE phase \in {"idle", "command"}
    <3>1. Ready /\ stage = "WAIT_CSW"
      BY <2>1, <2>3 DEF Together, Ready
    <3>2. stage' = "READ_CBW" /\ out' = "cbw" /\ UNCHANGED <<in, calls>>
      BY <1>3, <3>1 DEF BulkIn
    <3>3. Ready'
      BY <2>1, <3>1, <3>2 DEF Ready, Quiet
    <3>4. phase' = "command" => Fresh'
      BY <2>1, <2>3, <3>2 DEF Together, Fresh
    <3>5. phase' \notin Talking
      BY <2>1, <2>3
    <3>6. QED
      BY <3>3, <3>4, <3>5 DEF Together
  <2>4. CASE phase \in Talking
    <3>1. /\ cbw = cmd /\ phase # "failed" /\ Accepted(cmd.req) /\ dTag = cmd.tag /\ Quiet
          /\ \/ phase = "status" /\ Complete /\ Answering
             \/ cmd.req.op = "read" /\ \E k \in 0 .. cmd.req.n - 1 : HasRead(k)
      BY <2>1, <2>2, <2>4, SizesAssumption
      DEF Together, Sent, Refused, Answered, Informing, Moving, Reading, Writing, HasSent
    <3>2. CASE phase = "status" /\ Complete /\ Answering
      <4>1. /\ stage' = "WAIT_CSW" /\ in' = "csw"
            /\ UNCHANGED <<start_sector, nsectors, dDataResidue, block, out, calls>>
        BY <1>3, <3>2 DEF BulkIn, Answering, SendCsw, scsiVars
      <4>2. Complete' /\ Answered' /\ Quiet'
        BY <2>1, <3>1, <3>2, <4>1, NoCall DEF Complete, Answered, Quiet
      <4>3. QED
        BY <2>1, <3>1, <3>2, <4>2 DEF Together
    <3>3. CASE cmd.req.op = "read" /\ \E k \in 0 .. cmd.req.n - 1 : HasRead(k)
      <4>1. PICK k \in 0 .. cmd.req.n - 1 : HasRead(k)
        BY <3>3
      <4>2. /\ cmd.req \in Request /\ cmd.req.n \in Nat \ {0} /\ k \in Nat
            /\ k + 1 <= cmd.req.n
            /\ (cmd.req.n - k) * BlkSize - BlkSize = (cmd.req.n - k - 1) * BlkSize
        BY <3>1, <3>3, BlockBytes
      <4>3. /\ stage = "DATA_IN" /\ phase = "dataIn" /\ Called(k) /\ Through(k)
            /\ start_sector = Sector(cmd.req, k) /\ nsectors = cmd.req.n - k
            /\ dDataResidue = (cmd.req.n - k) * BlkSize
        BY <4>1 DEF HasRead, Left
      <4>4. ProcessRead(start_sector, nsectors, dDataResidue) /\ UNCHANGED out
        BY <1>3, <4>3 DEF BulkIn
      <4>5. /\ start_sector \in Word32 /\ nsectors \in Nat \ {0} /\ dDataResidue \in Int
            /\ OnCard(start_sector, nsectors)
        BY <4>2, <4>3 DEF Always, TypeOK, Inside
      <4>6. /\ \E done \in BOOLEAN : /\ SectorCall(start_sector, nsectors, done)
                                     /\ block' = IF done THEN start_sector ELSE Lost
            /\ in' = "block" /\ start_sector' = Advance(start_sector, 1)
            /\ nsectors' = nsectors - 1 /\ dDataResidue' = dDataResidue - BlkSize
            /\ stage' = IF nsectors = 1 THEN "SEND_CSW" ELSE "DATA_IN"
        BY <2>1, <4>4, <4>5, ReadSector DEF Always
      <4>7. PICK done \in BOOLEAN : /\ SectorCall(start_sector, nsectors, done)
                                     /\ block' = IF done THEN start_sector ELSE Lost
        BY <4>6
      <4>8. /\ Called(k + 1)' /\ First(cmd.req, k)' = First(cmd.req, k)
             /\ Landed(cmd.req, k)' = IF done THEN Sector(cmd.req, k) ELSE Lost
        BY <2>1, <3>1, <4>2, <4>3, <4>7, CallNext DEF Always
      <4>9. start_sector' = Sector(cmd.req, k + 1)
        BY <4>2, <4>3, <4>6, Sectors
      <4>10. Left(k + 1, cmd.req.n - k - 1)'
        BY <2>1, <4>2, <4>3, <4>6, <4>9 DEF Left, Sector
      <4>11. stage' = (IF k + 1 = cmd.req.n THEN "SEND_CSW" ELSE "DATA_IN")
        BY <4>2, <4>3, <4>6
      <4>12. Reading(k)'
        BY <2>1, <4>3, <4>6, <4>10, <4>11, <4>7, <4>8 DEF Reading, Through
      <4>13. Moving'
        BY <2>1, <3>1, <3>3, <4>12 DEF Moving, Quiet
      <4>14. QED
        BY <2>1, <3>1, <4>3, <4>13 DEF Together
    <3>4. QED
      BY <3>1, <3>2, <3>3
  <2>5. QED
    BY <2>2, <2>3, <2>4 DEF Always, TypeOK, Phases
<1>4. QED
  BY <1>1, <1>2, <1>3

LEMMA TogetherStep ==
    ASSUME IInv, [Next]_vars, ~cut'
    PROVE  Together'
<1>1. Always /\ (~cut => Together)
  BY DEF IInv
<1>2. CASE \/ Configure \/ ClassReset \/ BusReset \/ ClearHalt
           \/ \E r \in Requests : Choose(r)
  BY <1>1, <1>2, HostTogether
<1>3. CASE SendCbw \/ SendBlock
  <2>1. ~cut
    BY <1>3 DEF SendCbw, SendBlock
  <2>2. QED
    BY <1>1, <1>3, <2>1, SendTogether
<1>4. CASE ReadBlock \/ ReadShort \/ ReadCsw
  <2>1. ~cut
    BY <1>4 DEF ReadBlock, ReadShort, ReadCsw, TakeIn
  <2>2. QED
    BY <1>1, <1>4, <2>1, TakeTogether
<1>5. CASE Device
  <2>1. ~cut
    BY <1>5 DEF Device, Decode, DecodeBlock, ProcessWrite, BulkIn, hostVars
  <2>2. QED
    BY <1>1, <1>5, <2>1, DecodeTogether, DeviceTogether DEF Device
<1>6. CASE UNCHANGED vars
  BY <1>1, <1>6
  DEF vars, scsiVars, cswVars, outVars, inVars, hostVars, Together, Ready, Quiet,
      Fresh, Sent, Refused, Complete, Accounted, BlocksOf, Answering, Answered, Informing,
      Moving, Reading, HasRead, Writing, HasSent, Called, Through, First, Landed, Failed,
      Sector, Left
<1>7. QED
  BY <1>2, <1>3, <1>4, <1>5, <1>6 DEF Next, Transfer

LEMMA Serving ==
    Spec => []IInv
<1>1. Init => IInv
  <2>1. Init => Together
    BY DEF Init, Together, Talking
  <2>2. QED
    BY <2>1, AlwaysInit DEF IInv
<1>2. IInv /\ [Next]_vars => IInv'
  <2>1. IInv /\ [Next]_vars => Always'
    BY AlwaysStep DEF IInv
  <2>2. IInv /\ [Next]_vars => (~cut' => Together')
    BY TogetherStep
  <2>3. QED
    BY <2>1, <2>2 DEF IInv
<1>3. QED
  BY <1>1, <1>2, PTL DEF Spec

-----------------------------------------------------------------------------
(* Theorems *)

\* A status accounts for the command of the host: every block has gone to or come
\* from its own sector, unless the card has failed just that one, and the residue is
\* what was not transferred.
THEOREM StatusTold == Spec => []StatusAccounts
<1>1. IInv => StatusAccounts
  <2> SUFFICES ASSUME IInv, phase = "status", in = "csw", ~cut
               PROVE  /\ dTag = cmd.tag /\ moved = Accounted(cmd.req)
                      /\ dDataResidue = cmd.req.length - count
    BY DEF StatusAccounts, StatusComes, Accounted
  <2>1. out = "off" /\ outDone = 0 /\ ~inDone
    BY DEF IInv, Always, OneTransfer, TypeOK
  <2>2. dTag = cmd.tag /\ Complete
    BY <2>1, SizesAssumption
    DEF IInv, Together, Talking, Sent, Refused, Answering, Informing, Moving, Reading,
        HasRead, Writing, HasSent
  <2>3. QED
    BY <2>2 DEF Complete
<1>2. QED
  BY <1>1, Serving, PTL

\* Host and device agree on the phase of a command, no sector beyond the card is asked
\* for but by a command whose sum wraps, the device takes the next command and answers
\* every one it accepts.
THEOREM HostIsServed == Spec => []HostServed
<1>1. IInv => PhasesAgree
  <2> SUFFICES ASSUME IInv, ~cut
               PROVE  PhasesAgree
    BY DEF PhasesAgree
  <2>1. /\ out # "off" => outDone = 0 /\ in = "off" /\ ~inDone
        /\ outDone # 0 => in = "off" /\ ~inDone
        /\ in # "off"  => ~inDone
        /\ in \in {"off", "block", "info", "csw"}
    BY DEF IInv, Always, OneTransfer, TypeOK
  <2>2. phase = "command" => out # "block"
    BY DEF IInv, Together, Ready
  <2>3. phase = "dataOut" /\ ~outHalt => out # "cbw"
    BY <2>1, SizesAssumption
    DEF IInv, Together, Talking, Sent, Refused, Informing, Moving, Reading, HasRead,
        Writing, HasSent
  <2>4. phase = "dataIn" => in # "csw"
    BY <2>1, SizesAssumption
    DEF IInv, Together, Talking, Sent, Refused, Informing, Moving, Reading, HasRead,
        Writing, HasSent
  <2>5. phase = "status" => in \in {"off", "csw"}
    BY <2>1, SizesAssumption
    DEF IInv, Together, Talking, Sent, Refused, Answering, Answered, Informing, Moving,
        Reading, HasRead, Writing, HasSent
  <2>6. QED
    BY <2>2, <2>3, <2>4, <2>5 DEF PhasesAgree
<1>2. IInv => TakesCommands
  BY SizesAssumption DEF IInv, Together, Ready, TakesCommands, Silent
<1>3. IInv => AnswersAccepted
  <2> SUFFICES ASSUME IInv, phase \in {"dataOut", "dataIn", "status"}, ~cut, Silent,
                      Accepted(cmd.req)
               PROVE  FALSE
    BY DEF AnswersAccepted
  <2>1. /\ outDone = 0 /\ ~inDone
        /\ phase = "dataOut" => out = "off"
        /\ phase \in {"dataIn", "status"} => in = "off"
    BY DEF Silent
  <2>2. QED
    BY <2>1, SizesAssumption
    DEF IInv, Together, Talking, Sent, Refused, Answering, Answered, Informing, Moving,
        Reading, HasRead, Writing, HasSent
<1>4. IInv => HostServed
  BY <1>1, <1>2, <1>3 DEF HostServed, IInv, Always
<1>5. QED
  BY <1>4, Serving, PTL

\* The block buffer is left alone while the host reads it.
THEOREM BufferLeftAlone == Spec => BufferStable
<1>1. IInv /\ [Next]_vars => (in = "block" => block' = block)
  <2> SUFFICES ASSUME IInv, [Next]_vars, in = "block"
               PROVE  block' = block
    OBVIOUS
  <2>1. out = "off" /\ outDone = 0 /\ ~inDone
    BY DEF IInv, Always, OneTransfer, TypeOK
  <2>2. CASE Device
    BY <2>1, <2>2, SizesAssumption DEF Device, Decode, DecodeBlock, ProcessWrite, BulkIn
  <2>3. CASE Transfer
    BY <2>1, <2>3
    DEF Transfer, SendCbw, SendBlock, ReadBlock, ReadShort, ReadCsw, TakeIn, ClearHalt
  <2>4. CASE \/ Configure \/ ClassReset \/ BusReset \/ UNCHANGED vars
             \/ \E r \in Requests : Choose(r)
    BY <2>4 DEF Configure, ClassReset, BusReset, Choose, vars
  <2>5. QED
    BY <2>2, <2>3, <2>4 DEF Next
<1>2. QED
  BY <1>1, Serving, PTL DEF Spec, BufferStable

=============================================================================
