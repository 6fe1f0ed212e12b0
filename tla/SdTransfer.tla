------------------------------ MODULE SdTransfer ------------------------------
(***************************************************************************)
(* The SD card driver (src/board_dev/stm324xg_eval_sdio_sd.c) as its three *)
(* callers use it: disk_read and disk_write of FatFs, called by tasks, and *)
(* usbd_msc_sector_read/write, called by the USB interrupt, which preempts *)
(* the tasks and runs to its end.  A call starts an operation, waits for   *)
(* it (SD_WaitRead/WriteOperation) and polls the card until it is ready.   *)
(* Nothing guards the driver: its four global flags, the SDIO and its DMA  *)
(* stream belong to whoever wrote them last.                               *)
(*                                                                         *)
(* Blocks are numbered, contents abstracted: the data of a call has moved  *)
(* when the DMA moved block number sector[c] for it.  External: the card,  *)
(* the SDIO and the DMA, as the driver uses them.  RXACT and TXACT are on  *)
(* from the arming of the data path; the SDIO's data timer is shorter than *)
(* the driver's loops of 2^32 turns; the FIFO is empty before the card     *)
(* answers another command.  Flow control is off, so a stream that is late *)
(* with the words of a write leaves the SDIO without any.  No instruction  *)
(* is executed while one of the two interrupts is pending.                 *)
(***************************************************************************)
EXTENDS Naturals

CONSTANTS Tasks,        \* tasks that call disk_read and disk_write
          Hosts,        \* the USB interrupt, if a host is connected
          Kinds,        \* the calls that tasks make
          Sectors,      \* the sectors callers ask for
          SectorSize,   \* 512
          AddressSpace, \* 2^32: "sector * 512" has 32 bits
          CmdErrors,    \* whether commands or their answers are lost
          DataErrors,   \* whether data phases fail
          None

AllKinds == {"read", "readMulti", "write", "writeMulti"}

ASSUME ClientsAssumption == Tasks \cap Hosts = {} /\ None \notin Tasks \cup Hosts
ASSUME KindsAssumption   == Kinds \subseteq AllKinds
ASSUME SectorsAssumption == Sectors \subseteq Nat /\ None \notin Nat
ASSUME SizeAssumption    == SectorSize \in Nat \ {0} /\ AddressSpace \in Nat \ {0}
ASSUME ErrorsAssumption  == CmdErrors \in BOOLEAN /\ DataErrors \in BOOLEAN

Clients == Tasks \cup Hosts

VARIABLES
    pc,        \* where each client is in its call
    kind,      \* its call
    sector,    \* the sector it asked for
    cmd,       \* the command it is sending
    status,    \* errorstatus, later Status
    TransferError, TransferEnd, DMAEndOfTransfer, StopCondition,
    resp,      \* the answer flags of the SDIO: to which command
    itOn,      \* whether the SDIO's interrupts are enabled
    dpath,     \* its data path
    fifo,      \* the last words of a read are in the FIFO
    dmaFor,    \* whose buffer the DMA stream is set to, while it runs
    dataIrq, dmaIrq,   \* pending interrupts
    card,      \* state of the card
    cardAt,    \* the sector it transfers
    cardFor,   \* history: the client that sent it there
    moved,     \* history: the sector moved to or from each client's buffer
    fault      \* history: what went wrong in each client's call so far

clientVars == <<pc, kind, sector, cmd, status>>
flagVars   == <<TransferError, TransferEnd, DMAEndOfTransfer, StopCondition>>
sdioVars   == <<resp, itOn, dpath, fifo, dmaFor>>
irqVars    == <<dataIrq, dmaIrq>>
cardVars   == <<card, cardAt, cardFor>>
histVars   == <<moved, fault>>
vars == <<clientVars, flagVars, sdioVars, irqVars, cardVars, histVars>>

PC == {"idle", "start", "config", "send", "resp", "arm", "wait", "clear",
       "active", "stop", "result", "done"}

\* len: CMD16, app and count: ACMD23, go: CMD17, 18, 24 or 25, stop: CMD12,
\* status: CMD13.
Commands == {"len", "app", "count", "go", "stop", "status"}

IsRead(k)  == k \in {"read", "readMulti"}
IsMulti(k) == k \in {"readMulti", "writeMulti"}

\* "sector * 512" in 32 bits, divided by the block size for the card.
CardSector(s)  == ((s * SectorSize) % AddressSpace) \div SectorSize

\* A command that is lost, a data phase that fails, a write that runs dry.
Faults == {"command", "data", "underrun"}

CardStates == {"tran", "data", "dataMulti", "rcv", "rcvMulti", "prg"}

TypeOK ==
    /\ pc \in [Clients -> PC]
    /\ kind \in [Clients -> AllKinds]
    /\ sector \in [Clients -> Sectors]
    /\ cmd \in [Clients -> Commands]
    /\ status \in [Clients -> {"ok", "error"}]
    /\ TransferError \in {"ok", "error"}
    /\ TransferEnd \in 0 .. 1
    /\ DMAEndOfTransfer \in 0 .. 1
    /\ StopCondition \in 0 .. 1
    /\ resp \in Commands \cup {"none", "timeout", "ready"}
    /\ itOn \in BOOLEAN
    /\ dpath \in {"idle", "read", "readCrc", "write", "writeCrc"}
    /\ fifo \in BOOLEAN
    /\ dmaFor \in Clients \cup {None}
    /\ dataIrq \in {"none", "end", "error"}
    /\ dmaIrq \in BOOLEAN
    /\ card \in CardStates
    /\ cardAt \in Sectors
    /\ cardFor \in Clients \cup {None}
    /\ moved \in [Clients -> Sectors \cup {None}]
    /\ fault \in [Clients -> SUBSET Faults]

\* After SD_Init: no transfer, the card ready.
Init ==
    /\ pc = [c \in Clients |-> "idle"]
    /\ kind = [c \in Clients |-> "read"]
    /\ sector \in [Clients -> Sectors]
    /\ cmd = [c \in Clients |-> "status"]
    /\ status = [c \in Clients |-> "ok"]
    /\ TransferError = "ok" /\ TransferEnd = 0
    /\ DMAEndOfTransfer = 0 /\ StopCondition = 0
    /\ resp = "none" /\ itOn = FALSE
    /\ dpath = "idle" /\ fifo = FALSE /\ dmaFor = None
    /\ dataIrq = "none" /\ dmaIrq = FALSE
    /\ card = "tran" /\ cardAt \in Sectors /\ cardFor = None
    /\ moved = [c \in Clients |-> None]
    /\ fault = [c \in Clients |-> {}]

\* A client executes: no interrupt is pending, and a task only while the USB
\* interrupt is not being served.
MayRun(c) ==
    /\ dataIrq = "none" /\ ~dmaIrq
    /\ c \in Tasks => \A h \in Hosts : pc[h] = "idle"

Runs(c, from, to) ==
    /\ MayRun(c)
    /\ pc[c] = from
    /\ pc' = [pc EXCEPT ![c] = to]

-----------------------------------------------------------------------------
(* Starting an operation *)

\* disk_read, disk_write; usbd_msc_sector_read and _write, one block each.
Call(c, k, s) ==
    /\ c \in Hosts => k \in {"read", "write"}
    /\ Runs(c, "idle", "start")
    /\ kind' = [kind EXCEPT ![c] = k]
    /\ sector' = [sector EXCEPT ![c] = s]
    /\ status' = [status EXCEPT ![c] = "ok"]
    /\ moved' = [moved EXCEPT ![c] = None]
    /\ fault' = [fault EXCEPT ![c] = {}]
    /\ UNCHANGED <<cmd, flagVars, sdioVars, irqVars, cardVars>>

\* The flags are reset, but for DMAEndOfTransfer; DCTRL = 0.
Start(c) ==
    /\ Runs(c, "start", "config")
    /\ TransferError' = "ok"
    /\ TransferEnd' = 0
    /\ StopCondition' = IF IsMulti(kind[c]) THEN 1 ELSE 0
    /\ dpath' = "idle"
    /\ UNCHANGED <<kind, sector, cmd, status, DMAEndOfTransfer, resp, itOn,
                   fifo, dmaFor, irqVars, cardVars, histVars>>

\* The interrupts and the DMA stream are set up; CMD16 is next.
Config(c) ==
    /\ Runs(c, "config", "send")
    /\ cmd' = [cmd EXCEPT ![c] = "len"]
    /\ itOn' = TRUE
    /\ dmaFor' = c
    /\ fifo' = FALSE
    /\ UNCHANGED <<kind, sector, status, flagVars, resp, dpath, irqVars,
                   cardVars, histVars>>

\* SDIO_DataConfig: before the command for a read, after it for a write.
Arm(c) ==
    /\ Runs(c, "arm", IF IsRead(kind[c]) THEN "send" ELSE "wait")
    /\ dpath' = IF IsRead(kind[c]) THEN "read" ELSE "write"
    /\ UNCHANGED <<kind, sector, cmd, status, flagVars, resp, itOn, fifo,
                   dmaFor, irqVars, cardVars, histVars>>

-----------------------------------------------------------------------------
(* Commands *)

\* The card executes a command in some of its states only.
Accepts(m) ==
    CASE m = "status" -> TRUE
      [] m = "stop"   -> card \in {"dataMulti", "rcvMulti"}
      [] OTHER        -> card = "tran"

\* What the card does on the command c sends it.
React(c) ==
    /\ card' = CASE cmd[c] = "go" -> (CASE kind[c] = "read"      -> "data"
                                        [] kind[c] = "readMulti" -> "dataMulti"
                                        [] kind[c] = "write"     -> "rcv"
                                        [] OTHER                 -> "rcvMulti")
                 [] cmd[c] = "stop" -> IF card = "rcvMulti" THEN "prg" ELSE "tran"
                 [] OTHER           -> card
    /\ cardAt' = IF cmd[c] = "go" THEN CardSector(sector[c]) ELSE cardAt
    /\ cardFor' = IF cmd[c] = "go" THEN c ELSE cardFor

\* SDIO_SendCommand: the card answers, does not accept it, or either way is
\* not heard, with or without having executed it.
Answered(c) ==
    /\ Accepts(cmd[c])
    /\ React(c)
    /\ resp' = IF cmd[c] = "status" /\ card = "tran" THEN "ready" ELSE cmd[c]
    /\ UNCHANGED fault

Refused(c) ==
    /\ ~Accepts(cmd[c])
    /\ resp' = "timeout"
    /\ UNCHANGED <<cardVars, fault>>

Lost(c) ==
    /\ CmdErrors
    /\ Accepts(cmd[c])
    /\ React(c) \/ UNCHANGED cardVars
    /\ resp' = "timeout"
    /\ fault' = [fault EXCEPT ![c] = @ \cup {"command"}]

Send(c) ==
    /\ Runs(c, "send", "resp")
    /\ Answered(c) \/ Refused(c) \/ Lost(c)
    /\ UNCHANGED <<kind, sector, cmd, status, flagVars, itOn, dpath, fifo,
                   dmaFor, irqVars, moved>>

\* CmdResp1Error: a loop without a bound until an answer flag is up.
Answer(c, to) ==
    /\ resp # "none"
    /\ Runs(c, "resp", to)
    /\ resp' = "none"

\* The command that follows an accepted one, and where it is sent.
NextCommand(m, k) ==
    CASE m = "len" /\ k = "writeMulti" -> "app"
      [] m = "app"                     -> "count"
      [] OTHER                         -> "go"
NextPlace(m, k) ==
    CASE m = "len" /\ IsRead(k) -> "arm"
      [] m = "go"               -> IF IsRead(k) THEN "wait" ELSE "arm"
      [] OTHER                  -> "send"

\* SD_ReadBlock and the like return early on an error: no caller looks.
StartResp(c) ==
    /\ cmd[c] \notin {"stop", "status"}
    /\ \/ /\ resp = cmd[c]
          /\ Answer(c, NextPlace(cmd[c], kind[c]))
          /\ cmd' = [cmd EXCEPT ![c] = NextCommand(cmd[c], kind[c])]
       \/ /\ resp # cmd[c]
          /\ Answer(c, "wait")
          /\ UNCHANGED cmd
    /\ UNCHANGED <<kind, sector, status, flagVars, itOn, dpath, fifo, dmaFor,
                   irqVars, cardVars, histVars>>

StopResp(c) ==
    /\ cmd[c] = "stop"
    /\ Answer(c, "result")
    /\ StopCondition' = 0
    /\ status' = [status EXCEPT ![c] = IF resp = "stop" THEN "ok" ELSE "error"]
    /\ UNCHANGED <<kind, sector, cmd, TransferError, TransferEnd,
                   DMAEndOfTransfer, itOn, dpath, fifo, dmaFor, irqVars,
                   cardVars, histVars>>

\* while (SD_GetStatus() != SD_TRANSFER_OK);
AnyAnswer(r) == TRUE                                   \* mutant
CardIsReady(r) == r = "ready"
StatusResp(c) ==
    /\ cmd[c] = "status"
    /\ ~fifo
    /\ Answer(c, IF CardIsReady(resp) THEN "done" ELSE "send")
    /\ UNCHANGED <<kind, sector, cmd, status, flagVars, itOn, dpath, fifo,
                   dmaFor, irqVars, cardVars, histVars>>

-----------------------------------------------------------------------------
(* SD_WaitReadOperation, SD_WaitWriteOperation *)

\* The first loop runs out of turns: nothing that would end it can happen.
NoTimeout == FALSE                                     \* mutant
TimedOut == dpath = "idle" /\ ~fifo

Wait(c) ==
    /\ \/ DMAEndOfTransfer = 1
       \/ TransferEnd = 1
       \/ TransferError # "ok"
       \/ TimedOut
    /\ Runs(c, "wait", "clear")
    /\ UNCHANGED <<kind, sector, cmd, status, flagVars, sdioVars, irqVars,
                   cardVars, histVars>>

Clear(c) ==
    /\ Runs(c, "clear", "active")
    /\ DMAEndOfTransfer' = 0
    /\ UNCHANGED <<kind, sector, cmd, status, TransferError, TransferEnd,
                   StopCondition, sdioVars, irqVars, cardVars, histVars>>

\* SDIO_FLAG_RXACT for a read, SDIO_FLAG_TXACT for a write.
NotActive(k) == FALSE                                  \* mutant
Active(k) == dpath \in (IF IsRead(k) THEN {"read", "readCrc"}
                                     ELSE {"write", "writeCrc"})

\* The second loop, with a timeout of its own that does not expire.
WaitActive(c) ==
    /\ ~Active(kind[c])
    /\ Runs(c, "active", "stop")
    /\ UNCHANGED <<kind, sector, cmd, status, flagVars, sdioVars, irqVars,
                   cardVars, histVars>>

\* if (StopCondition == 1) SD_StopTransfer();
AlwaysStop == TRUE                                     \* mutant
MustStop == StopCondition = 1
Stop(c) ==
    /\ \/ /\ MustStop
          /\ Runs(c, "stop", "send")
          /\ cmd' = [cmd EXCEPT ![c] = "stop"]
       \/ /\ ~MustStop
          /\ Runs(c, "stop", "result")
          /\ UNCHANGED cmd
    /\ UNCHANGED <<kind, sector, status, flagVars, sdioVars, irqVars, cardVars,
                   histVars>>

\* TransferError comes before errorstatus.
Result(c) ==
    /\ Runs(c, "result", "send")
    /\ status' = [status EXCEPT ![c] =
                     IF TransferError # "ok" THEN "error" ELSE @]
    /\ cmd' = [cmd EXCEPT ![c] = "status"]
    /\ UNCHANGED <<kind, sector, flagVars, sdioVars, irqVars, cardVars, histVars>>

\* disk_read returns RES_OK or RES_ERROR, usbd_msc_sector_read always 0.
Return(c) ==
    /\ Runs(c, "done", "idle")
    /\ UNCHANGED <<kind, sector, cmd, status, flagVars, sdioVars, irqVars,
                   cardVars, histVars>>

-----------------------------------------------------------------------------
(* The card, the SDIO and its DMA stream *)

Raise(what) == dataIrq' = IF itOn THEN what ELSE dataIrq

\* The last byte of a read is in the SDIO: its CRC and the DMA come next.
ReadBytes ==
    /\ dpath = "read"
    /\ card \in {"data", "dataMulti"}
    /\ dmaFor # None
    /\ dpath' = "readCrc"
    /\ fifo' = TRUE
    /\ UNCHANGED <<clientVars, flagVars, resp, itOn, dmaFor, irqVars, cardVars,
                   histVars>>

DmaEnd ==
    /\ dmaFor # None
    /\ moved' = [moved EXCEPT ![dmaFor] = cardAt]
    /\ dmaFor' = None
    /\ dmaIrq' = TRUE

\* The last word of a read is in memory.
ReadDone ==
    /\ fifo
    /\ DmaEnd
    /\ fifo' = FALSE
    /\ UNCHANGED <<clientVars, flagVars, resp, itOn, dpath, dataIrq, cardVars,
                   fault>>

\* The last word of a write is in the SDIO.
WriteBytes ==
    /\ dpath = "write"
    /\ card \in {"rcv", "rcvMulti"}
    /\ DmaEnd
    /\ dpath' = "writeCrc"
    /\ UNCHANGED <<clientVars, flagVars, resp, itOn, fifo, dataIrq, cardVars,
                   fault>>

\* The CRC was right: DATAEND.
DataEnd ==
    /\ dpath \in {"readCrc", "writeCrc"}
    /\ dpath' = "idle"
    /\ Raise("end")
    /\ card' = CASE card = "data" -> "tran"
                 [] card = "rcv"  -> "prg"
                 [] OTHER         -> card
    /\ UNCHANGED <<clientVars, flagVars, resp, itOn, fifo, dmaFor, dmaIrq,
                   cardAt, cardFor, histVars>>

\* DCRCFAIL, DTIMEOUT, STBITERR, or the RXOVERR of a read that no stream empties.
DataError ==
    /\ DataErrors \/ (dpath = "read" /\ dmaFor = None)
    /\ dpath # "idle"
    /\ card \in {"data", "dataMulti", "rcv", "rcvMulti"}
    /\ dpath' = "idle"
    /\ Raise("error")
    /\ card' = IF card \in {"data", "rcv"} THEN "tran" ELSE card
    /\ fault' = [fault EXCEPT ![cardFor] = @ \cup {"data"}]
    /\ UNCHANGED <<clientVars, flagVars, resp, itOn, fifo, dmaFor, dmaIrq,
                   cardAt, cardFor, moved>>

\* TXUNDERR: the stream is late with the words of a write, or there is none.
\* The data path stops, the card refuses the torn block, and nobody is told: the
\* start functions enable RXOVERR for writes too, and never TXUNDERR.
Underrun ==
    /\ DataErrors \/ dmaFor = None
    /\ dpath = "write"
    /\ card \in {"rcv", "rcvMulti"}
    /\ dpath' = "idle"
    /\ card' = IF card = "rcv" THEN "tran" ELSE card
    /\ fault' = [fault EXCEPT ![cardFor] = @ \cup {"underrun"}]
    /\ UNCHANGED <<clientVars, flagVars, resp, itOn, fifo, dmaFor, irqVars,
                   cardAt, cardFor, moved>>

\* DTIMEOUT of a data path the card knows nothing of.
DataTimeout ==
    /\ dpath \in {"read", "write"}
    /\ card \in {"tran", "prg"}
    /\ \A c \in Clients : ~(pc[c] \in {"send", "resp"} /\ cmd[c] = "go")
    /\ dpath' = "idle"
    /\ Raise("error")
    /\ UNCHANGED <<clientVars, flagVars, resp, itOn, fifo, dmaFor, dmaIrq,
                   cardVars, histVars>>

Programmed ==
    /\ card = "prg"
    /\ card' = "tran"
    /\ UNCHANGED <<clientVars, flagVars, sdioVars, irqVars, cardAt, cardFor,
                   histVars>>

\* SD_ProcessIRQSrc.
DataInterrupt ==
    /\ dataIrq # "none"
    /\ dataIrq' = "none"
    /\ TransferError' = IF dataIrq = "end" THEN "ok" ELSE "error"
    /\ TransferEnd' = IF dataIrq = "end" THEN 1 ELSE TransferEnd
    /\ itOn' = FALSE
    /\ UNCHANGED <<clientVars, DMAEndOfTransfer, StopCondition, resp, dpath,
                   fifo, dmaFor, dmaIrq, cardVars, histVars>>

\* SD_ProcessDMAIRQ, which waits for the interrupt of the SDIO.
DmaInterrupt ==
    /\ dmaIrq
    /\ dataIrq = "none"
    /\ dmaIrq' = FALSE
    /\ DMAEndOfTransfer' = 1
    /\ UNCHANGED <<clientVars, TransferError, TransferEnd, StopCondition,
                   sdioVars, dataIrq, cardVars, histVars>>

-----------------------------------------------------------------------------

\* Steps of a call that has begun.
Body(c) ==
    \/ Start(c) \/ Config(c) \/ Arm(c) \/ Send(c)
    \/ StartResp(c) \/ StopResp(c) \/ StatusResp(c)
    \/ Wait(c) \/ Clear(c) \/ WaitActive(c) \/ Stop(c) \/ Result(c) \/ Return(c)

Hardware ==
    \/ ReadBytes \/ ReadDone \/ WriteBytes \/ DataEnd \/ DataError
    \/ Underrun \/ DataTimeout \/ Programmed \/ DataInterrupt \/ DmaInterrupt

Next ==
    \/ \E c \in Clients :
          \/ \E k \in Kinds, s \in Sectors : Call(c, k, s)
          \/ Body(c)
    \/ Hardware

Spec == Init /\ [][Next]_vars

\* The clients and the hardware run; a card that is there answers some poll.
Fairness ==
    /\ \A c \in Clients : /\ WF_vars(Body(c))
                           /\ SF_vars(Send(c) /\ Answered(c))
    /\ WF_vars(Hardware)

FairSpec == Spec /\ Fairness

-----------------------------------------------------------------------------
(* Properties *)

\* The faults whose report never reaches the result of a call: what the start
\* functions return is dropped, and the underrun of a write has no interrupt.
Unreported(k) == IF IsRead(k) THEN {"command"} ELSE {"command", "underrun"}

\* A call that reports success has moved the data of its sector, intact, unless
\* it met a fault that is not reported, whatever happened in the calls before it.
DataArrived ==
    \A c \in Clients :
        /\ pc[c] = "done" /\ status[c] = "ok"
        /\ fault[c] \cap Unreported(kind[c]) = {}
        => moved[c] = sector[c] /\ "data" \notin fault[c]

\* What the comment of SD_WaitWriteOperation says of it: when a write whose
\* commands went well reports success, the DMA has transferred all its data.
WriteIsWhole ==
    \A c \in Clients :
        /\ pc[c] = "done" /\ status[c] = "ok"
        /\ ~IsRead(kind[c]) /\ "command" \notin fault[c]
        => moved[c] = sector[c]

\* A call that reports an error met one.
NoFalseError ==
    \A c \in Clients : pc[c] = "done" /\ status[c] = "error" => fault[c] # {}

\* An operation is begun on a card that is ready for it.
CardReady ==
    \A c \in Clients : pc[c] = "send" /\ cmd[c] = "len" => card = "tran"

\* Nothing moves to or from the buffer of a call that has returned.
NoLateTransfer ==
    \A c \in Clients : dmaFor = c /\ (dpath # "idle" \/ fifo) => pc[c] # "idle"

\* What a call leaves behind is clean: nothing of it is still moving, and the
\* next operation begins on a card that is ready for it.
LeftClean == TypeOK /\ CardReady /\ NoLateTransfer

\* Every call returns, unless a command was lost; a single-block read even then.
EveryCallEnds ==
    \A c \in Clients :
        pc[c] = "start" ~>
            pc[c] = "idle" \/ (kind[c] # "read" /\ "command" \in fault[c])

=============================================================================
