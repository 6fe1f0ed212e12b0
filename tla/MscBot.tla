-------------------------------- MODULE MscBot --------------------------------
(***************************************************************************)
(* The USB disk: the bulk-only transport of usbd_msc.c over the two bulk   *)
(* endpoints of the USB port, and the host at the other end.  The device   *)
(* runs only in the USB interrupt, one callback at a time: it is told that *)
(* a transfer it armed has ended and arms the next one.  Sector callbacks  *)
(* are calls of the SD driver (SdTransfer) inside those callbacks; they    *)
(* may fail, but drop its result and return 0, so the failed status is     *)
(* never sent.                                                             *)
(*                                                                         *)
(* A block on its way is named by its number in the command, or by the     *)
(* sector it was read from.  External: the host, which keeps the rules of  *)
(* the transport, may ask for any sector and may cancel a command at any   *)
(* time, and the endpoints.                                                *)
(***************************************************************************)
EXTENDS Integers

CONSTANTS BlkNbr,      \* scsi_blk_nbr, the sectors of the card
          BlkSize,     \* scsi_blk_size, 512
          CbwSize,     \* 31
          Word,        \* 2^32
          Requests     \* what the host asks for

\* none: TEST UNIT READY and the like, info: INQUIRY and the like, read and
\* write of 10 or 12 bytes; the others are not supported.
Ops == {"none", "info", "read", "write", "badNone", "badIn", "badOut"}
Word32  == 0 .. Word - 1
Request == [op : Ops, lba : Word32, n : Word32, length : Word32]

\* n is a number of blocks, or the length of the answer the device has.
WellFormed(r) ==
    CASE r.op \in {"read", "write"} -> r.length = r.n * BlkSize
      [] r.op = "info"              -> 0 < r.n /\ 0 < r.length
      [] r.op \in {"badIn", "badOut"} -> 0 < r.length
      [] OTHER                      -> r.length = 0

ASSUME SizesAssumption ==
    /\ BlkNbr \in Nat \ {0} /\ Word \in Nat /\ BlkNbr < Word
    /\ CbwSize \in Nat \ {0} /\ BlkSize \in Nat /\ CbwSize < BlkSize
ASSUME RequestsAssumption ==
    Requests \subseteq {r \in Request : WellFormed(r)}

VARIABLES
    stage, cbw,      \* the state machine, the command in its buffer
    start_sector, nsectors, dDataResidue,
    dTag,            \* the tag of the status
    block,           \* what block_buffer holds
    out, outDone, outHalt,   \* bulk OUT: what it is armed for, bytes that came
    in, inDone, inHalt,      \* bulk IN
    phase, cmd,      \* the host: what it is doing, its command
    count,           \* the blocks or bytes it has sent or received
    moved,           \* history: which block went to or came from which sector
    calls,           \* history: the sector callbacks of the command
    cut              \* history: a command was cut off in the middle

scsiVars == <<start_sector, nsectors>>
cswVars  == <<dDataResidue, dTag>>
outVars  == <<out, outDone, outHalt>>
inVars   == <<in, inDone, inHalt>>
hostVars == <<phase, cmd, count, cut>>
vars == <<stage, cbw, scsiVars, cswVars, block, outVars, inVars, hostVars, moved,
          calls>>

Command == [tag : 0 .. 1, req : Request]

\* In block_buffer, no block of the command; in moved, no sector.
Lost == -1

\* A call of usbd_msc_sector_read or usbd_msc_sector_write: for block no of the
\* command req, and whether the card did what it was asked.
Call == [no : Int, sector : Word32, req : Request, done : BOOLEAN]

IsIn(r) == r.op \in {"info", "read", "badIn"}

Stages == {"READ_CBW", "DATA_OUT", "DATA_IN", "SEND_CSW", "WAIT_CSW"}
Phases == {"attach", "idle", "command", "dataOut", "dataIn", "status",
           "failed"}

TypeOK ==
    /\ stage \in Stages
    /\ cbw \in Command /\ cmd \in Command
    /\ start_sector \in Word32 /\ nsectors \in Nat
    /\ dDataResidue \in Int /\ dTag \in 0 .. 1
    /\ block \in Nat \cup {Lost}
    /\ out \in {"off", "cbw", "block"}
    /\ outDone \in {0, CbwSize, BlkSize}
    /\ in \in {"off", "block", "info", "csw"}
    /\ inDone \in BOOLEAN /\ outHalt \in BOOLEAN /\ inHalt \in BOOLEAN
    /\ phase \in Phases
    /\ count \in Nat
    /\ moved \in SUBSET (Int \X Int)
    /\ calls \in SUBSET Call
    /\ cut \in BOOLEAN

NoCommand == [tag |-> 0, req |-> [op |-> "none", lba |-> 0, n |-> 0, length |-> 0]]

\* usbd_msc_init_intf; no host is attached.
Init ==
    /\ stage = "READ_CBW" /\ cbw = NoCommand /\ cmd = NoCommand
    /\ start_sector = 0 /\ nsectors = 0 /\ dDataResidue = 0 /\ dTag = 0
    /\ block = Lost
    /\ out = "off" /\ outDone = 0 /\ outHalt = FALSE
    /\ in = "off" /\ inDone = FALSE /\ inHalt = FALSE
    /\ phase = "attach" /\ count = 0
    /\ moved = {} /\ calls = {} /\ cut = FALSE

-----------------------------------------------------------------------------
(* The host *)

\* SET_CONFIGURATION: the device arms the first read.
Configure ==
    /\ phase = "attach"
    /\ phase' = "idle"
    /\ out' = "cbw"
    /\ UNCHANGED <<stage, cbw, scsiVars, cswVars, block, outDone, outHalt,
                   inVars, cmd, count, moved, calls, cut>>

Choose(r) ==
    /\ phase = "idle"
    /\ phase' = "command"
    /\ cmd' = [tag |-> 1 - cmd.tag, req |-> r]
    /\ count' = 0
    /\ moved' = {} /\ calls' = {}
    /\ UNCHANGED <<stage, cbw, scsiVars, cswVars, block, outVars, inVars, cut>>

\* The 31 bytes of the command go where the endpoint is armed for.
SendCbw ==
    /\ phase = "command"
    /\ out # "off" /\ ~outHalt
    /\ out' = "off"
    /\ outDone' = CbwSize
    /\ IF out = "cbw" THEN cbw' = cmd /\ UNCHANGED block
                      ELSE block' = Lost /\ UNCHANGED cbw
    /\ phase' = IF cmd.req.length = 0 THEN "status"
                ELSE IF IsIn(cmd.req) THEN "dataIn" ELSE "dataOut"
    /\ UNCHANGED <<stage, scsiVars, cswVars, outHalt, inVars, cmd, count,
                   moved, calls, cut>>

AfterData(got) == IF got = cmd.req.length THEN "status" ELSE phase

SendBlock ==
    /\ phase = "dataOut"
    /\ out = "block" /\ ~outHalt
    /\ out' = "off"
    /\ outDone' = BlkSize
    /\ block' = count \div BlkSize
    /\ count' = count + BlkSize
    /\ phase' = AfterData(count + BlkSize)
    /\ UNCHANGED <<stage, cbw, scsiVars, cswVars, outHalt, inVars, cmd, moved,
                   calls, cut>>

\* A transfer to the host that the device armed is complete.
TakeIn ==
    /\ ~inHalt
    /\ in' = "off"
    /\ inDone' = TRUE
    /\ UNCHANGED <<stage, cbw, scsiVars, cswVars, block, outVars, inHalt, cmd, calls,
                   cut>>

ReadBlock ==
    /\ phase = "dataIn" /\ in = "block"
    /\ TakeIn
    /\ moved' = moved \cup {<<count \div BlkSize, block>>}
    /\ count' = count + BlkSize
    /\ phase' = AfterData(count + BlkSize)

\* A short packet ends the data: the answer of the device, or a status that
\* the host takes for one.
ReadShort ==
    /\ phase = "dataIn" /\ in \in {"info", "csw"}
    /\ TakeIn
    /\ count' = IF in = "info" THEN cmd.req.length - dDataResidue ELSE count
    /\ phase' = "status"
    /\ UNCHANGED moved

\* The status: if it is none, or of another command, the host gives up.
ReadCsw ==
    /\ phase = "status" /\ in # "off"
    /\ TakeIn
    /\ phase' = IF in = "csw" /\ dTag = cmd.tag THEN "idle" ELSE "failed"
    /\ UNCHANGED <<count, moved>>

\* A halted endpoint is cleared (usbd_ep_clear_stall), the status is next.
ClearHalt ==
    /\ \/ /\ phase = "dataOut" /\ outHalt
          /\ outHalt' = FALSE /\ UNCHANGED inHalt
       \/ /\ phase \in {"dataIn", "status"} /\ inHalt
          /\ inHalt' = FALSE /\ UNCHANGED outHalt
    /\ phase' = "status"
    /\ UNCHANGED <<stage, cbw, scsiVars, cswVars, block, out, outDone, in,
                   inDone, cmd, count, moved, calls, cut>>

\* Nothing that the host waits for will happen.
Silent ==
    /\ outDone = 0 /\ ~inDone
    /\ phase = "command" => out = "off"
    /\ phase = "dataOut" => out = "off" /\ ~outHalt
    /\ phase \in {"dataIn", "status"} => in = "off" /\ ~inHalt

\* MSC_REQUEST_RESET and both halts cleared, when the host cancels a command
\* or gets no answer: usbd_msc_reset puts the stage back and arms nothing.
OutRearmed == "cbw"                                    \* mutant
OutKept    == out
ClassReset ==
    /\ \/ phase \in {"dataOut", "dataIn", "status", "failed"}
       \/ phase = "command" /\ outHalt
    /\ phase' = "idle"
    /\ stage' = "READ_CBW"
    /\ outHalt' = FALSE /\ inHalt' = FALSE
    /\ out' = OutKept
    /\ cut' = (cut \/ stage # "READ_CBW" \/ outDone # 0 \/ inDone)
    /\ UNCHANGED <<cbw, scsiVars, cswVars, block, outDone, in, inDone, cmd, count,
                   moved, calls>>

\* A reset of the bus, or the cable: the endpoints are emptied.
BusReset ==
    /\ phase # "attach"
    /\ phase' = "attach"
    /\ stage' = "READ_CBW"
    /\ out' = "off" /\ outDone' = 0 /\ outHalt' = FALSE
    /\ in' = "off" /\ inDone' = FALSE /\ inHalt' = FALSE
    /\ cut' = FALSE
    /\ UNCHANGED <<cbw, scsiVars, cswVars, block, cmd, count, moved, calls>>

-----------------------------------------------------------------------------
(* The device *)

\* SCSI_read10 and the like: the checks, in 32 bits.  The sum of a command near
\* the end of the 32 bits wraps, and is accepted.
InCard(r)  == (r.lba + r.n) % Word <= BlkNbr

Accepted(r) ==
    \/ r.op = "none" /\ r.length = 0
    \/ r.op = "info" /\ r.length # 0
    \/ /\ r.op \in {"read", "write"} /\ r.length # 0
       /\ InCard(r)
       /\ r.length = (r.n * BlkSize) % Word

\* usbd_msc_bot_abort.
NoStall(r)   == FALSE                                  \* mutant
StallsOut(r) == ~IsIn(r) /\ r.length # 0
Rearmed  == "cbw"
Abort ==
    /\ outHalt' = (outHalt \/ StallsOut(cbw.req))
    /\ inHalt' = TRUE
    /\ out' = Rearmed
    /\ UNCHANGED <<stage, block, in>>

\* usbd_msc_send_csw.
SendCsw ==
    /\ stage' = "WAIT_CSW"
    /\ in' = "csw"

\* usbd_msc_sector_read or usbd_msc_sector_write of sector s, with n sectors to go.
SectorCall(s, n, done) ==
    calls' = calls \cup
                {[no |-> cbw.req.n - n, sector |-> s, req |-> cbw.req, done |-> done]}

\* SCSI_processRead of sector s, with n sectors to go.  The buffer is sent even if
\* the card has not filled it.
EarlyCsw(n) == n <= 1                                  \* mutant
LastSector(n) == n = 0
Stay(s, blocks) == s                                   \* mutant
Advance(s, blocks) == (s + blocks) % Word
ProcessRead(s, n, residue) ==
    /\ \E done \in BOOLEAN : /\ SectorCall(s, n, done)
                             /\ block' = IF done THEN s ELSE Lost
    /\ in' = "block"
    /\ start_sector' = Advance(s, 1)
    /\ nsectors' = n - 1
    /\ dDataResidue' = residue - BlkSize
    /\ stage' = IF LastSector(n - 1) THEN "SEND_CSW" ELSE "DATA_IN"

\* SCSI_CBWDecode of 31 bytes, which looks at the command in its buffer.
Decode ==
    /\ stage = "READ_CBW" /\ outDone = CbwSize
    /\ outDone' = 0
    /\ dTag' = cbw.tag
    /\ \/ /\ ~Accepted(cbw.req)
          /\ Abort
          /\ UNCHANGED calls
          /\ dDataResidue' = cbw.req.length
          /\ IF cbw.req.op \in {"read", "write"} /\ cbw.req.length # 0
             THEN start_sector' = cbw.req.lba /\ nsectors' = cbw.req.n
             ELSE UNCHANGED scsiVars
       \/ /\ Accepted(cbw.req) /\ cbw.req.op = "none"
          /\ SendCsw
          /\ dDataResidue' = 0
          /\ UNCHANGED <<block, out, outHalt, inHalt, scsiVars, calls>>
       \/ /\ Accepted(cbw.req) /\ cbw.req.op = "info"
          /\ stage' = "SEND_CSW"
          /\ in' = "info"
          /\ block' = Lost
          /\ dDataResidue' = cbw.req.length -
                IF cbw.req.n < cbw.req.length THEN cbw.req.n ELSE cbw.req.length
          /\ UNCHANGED <<out, outHalt, inHalt, scsiVars, calls>>
       \/ /\ Accepted(cbw.req) /\ cbw.req.op = "read"
          /\ ProcessRead(cbw.req.lba, cbw.req.n, cbw.req.length)
          /\ UNCHANGED <<out, outHalt, inHalt>>
       \/ /\ Accepted(cbw.req) /\ cbw.req.op = "write"
          /\ stage' = "DATA_OUT"
          /\ start_sector' = cbw.req.lba
          /\ nsectors' = cbw.req.n
          /\ dDataResidue' = cbw.req.length
          /\ out' = "block"
          /\ UNCHANGED <<block, outHalt, in, inHalt, calls>>
    /\ UNCHANGED <<cbw, inDone, hostVars, moved>>

\* SCSI_CBWDecode of a block: not a command.
DecodeBlock ==
    /\ stage = "READ_CBW" /\ outDone = BlkSize
    /\ outDone' = 0
    /\ Abort
    /\ UNCHANGED <<cbw, scsiVars, cswVars, inDone, hostVars, moved, calls>>

\* mass_storage_bulk_out with MSC_DATA_OUT, SCSI_processWrite: a whole sector
\* is written, however many bytes have come, and counted even if it was not.
ProcessWrite ==
    /\ stage = "DATA_OUT" /\ outDone # 0
    /\ outDone' = 0
    /\ \E done \in BOOLEAN :
          /\ SectorCall(start_sector, nsectors, done)
          /\ moved' = moved \cup {<<block, IF done THEN start_sector ELSE Lost>>}
    /\ LET blocks == outDone \div BlkSize IN
       /\ start_sector' = Advance(start_sector, blocks)
       /\ nsectors' = nsectors - blocks
    /\ dDataResidue' = dDataResidue - outDone
    /\ IF LastSector(nsectors') THEN SendCsw /\ UNCHANGED out
                                ELSE out' = "block" /\ UNCHANGED <<stage, in>>
    /\ UNCHANGED <<cbw, dTag, block, outHalt, inDone, inHalt, hostVars>>

\* mass_storage_bulk_in.
BulkIn ==
    /\ inDone
    /\ inDone' = FALSE
    /\ \/ /\ stage = "DATA_IN"
          /\ ProcessRead(start_sector, nsectors, dDataResidue)
          /\ UNCHANGED out
       \/ /\ stage = "SEND_CSW"
          /\ SendCsw
          /\ UNCHANGED <<scsiVars, dDataResidue, block, out, calls>>
       \/ /\ stage = "WAIT_CSW"
          /\ stage' = "READ_CBW"
          /\ out' = "cbw"
          /\ UNCHANGED <<scsiVars, dDataResidue, block, in, calls>>
       \/ /\ stage \in {"READ_CBW", "DATA_OUT"}
          /\ UNCHANGED <<stage, scsiVars, dDataResidue, block, out, in, calls>>
    /\ UNCHANGED <<cbw, dTag, outDone, outHalt, inHalt, hostVars, moved>>

-----------------------------------------------------------------------------

Device == Decode \/ DecodeBlock \/ ProcessWrite \/ BulkIn

\* What the host does to get on with its command.
Transfer == SendCbw \/ SendBlock \/ ReadBlock \/ ReadShort \/ ReadCsw \/ ClearHalt

Next ==
    \/ Device \/ Transfer \/ Configure \/ ClassReset \/ BusReset
    \/ \E r \in Requests : Choose(r)

Spec == Init /\ [][Next]_vars

\* A host gives up a command that gets no answer, and resets the bus when the
\* device takes no command.
Fairness ==
    /\ WF_vars(Device)
    /\ WF_vars(Transfer)
    /\ WF_vars(Configure)
    /\ WF_vars(ClassReset /\ (Silent \/ outHalt))
    /\ WF_vars(BusReset /\ Silent /\ phase = "command")

FairSpec == Spec /\ Fairness

-----------------------------------------------------------------------------
(* Properties *)

\* The sector of block i, and where block i was to go or to come from.
Sector(r, i) == (r.lba + i) % Word
BlocksOf(r)  == 0 .. (IF r.op \in {"read", "write"} THEN r.n ELSE 0) - 1

\* Where it did: nowhere, if the card has failed.
Failed(i)    == \E c \in calls : c.no = i /\ ~c.done
Landed(r, i) == IF Failed(i) THEN Lost ELSE Sector(r, i)

\* A status for the command of the host, with the residue of what was not
\* transferred.
StatusComes == phase = "status" /\ in = "csw" /\ ~cut

\* It accounts for the command: each block has gone to or come from its own sector,
\* unless the card has failed just that one.
StatusAccounts ==
    StatusComes => /\ dTag = cmd.tag
                   /\ moved = {<<i, Landed(cmd.req, i)>> : i \in BlocksOf(cmd.req)}
                   /\ dDataResidue = cmd.req.length - count

\* What the comment at the failed status claims: if a sector call fails the host is
\* told, so a status that is not the failed one covers every block.  The callbacks
\* refute it.
PassedIsMoved ==
    StatusComes =>
        moved = {<<i, Sector(cmd.req, i)>> : i \in BlocksOf(cmd.req)}

\* Host and device are in the same phase: neither takes a command for data, a
\* status for data or data for a status.
PhasesAgree ==
    ~cut => /\ phase = "command" /\ ~outHalt => out # "block"
            /\ phase = "dataOut" /\ ~outHalt => out # "cbw"
            /\ phase = "dataIn" => in # "csw"
            /\ phase = "status" => in \in {"off", "csw"}

\* The block buffer is left alone while the host reads it.
BufferStable == [][in = "block" => block' = block]_vars

\* What the message of the range check claims: no sector beyond the card is asked of
\* it.  A command whose sum wraps refutes it.
CardIsKept == \A c \in calls : c.sector < BlkNbr

\* What holds: no other command asks for one, not even one that was cut off.
Wraps(r) == r.lba + r.n >= Word
InRange  == \A c \in calls : c.sector < BlkNbr \/ Wraps(c.req)

\* The device takes the next command, whatever became of the one before.
TakesCommands == phase = "command" /\ ~cut => ~Silent

\* Only a command that the device does not accept ends by a timeout.
AnswersAccepted ==
    phase \in {"dataOut", "dataIn", "status"} /\ ~cut /\ Silent => ~Accepted(cmd.req)

\* Every command comes to an end.
EveryCommandEnds == phase = "command" ~> phase \in {"idle", "attach"}

\* The host is served: the phases agree, the card is not left, the device takes
\* the next command and answers every one it accepts.
HostServed == TypeOK /\ PhasesAgree /\ InRange /\ TakesCommands /\ AnswersAccepted

=============================================================================
