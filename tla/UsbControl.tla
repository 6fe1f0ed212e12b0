------------------------------ MODULE UsbControl ------------------------------
(***************************************************************************)
(* Endpoint 0 of the USB port: the control transfers of usbd_core.c over   *)
(* the interrupt handler of usb_dc_dwc2.c (the full-speed port, which      *)
(* moves data by its FIFOs, not by DMA).  The handler reads the global     *)
(* status once and then works through it block by block, while the host    *)
(* goes on; it takes ONE entry of the receive FIFO at a time, so a SETUP   *)
(* and what came before it are served in different runs of the handler.    *)
(*                                                                         *)
(* Data are abstracted to their place: a packet is <<tag, offset>> and a   *)
(* length, the tag being that of the request it answers.  External: the    *)
(* host, which keeps the rules of control transfers and may reset the bus  *)
(* at any time, and the endpoint's registers.  The bulk endpoints are here *)
(* only as closed or armed; their traffic is MscBot.                       *)
(***************************************************************************)
EXTENDS Integers, Sequences

CONSTANTS MPS,        \* USB_CTRL_EP_MPS, 64
          SetupRoom,  \* 3 * 8, the room for SETUP packets
          Requests    \* what the host asks for

\* get: an answer of len bytes; set: no data; configure: SET_CONFIGURATION of
\* the only configuration; address: SET_ADDRESS; whenConfigured: a request
\* to an interface or an endpoint; out: data for a handler; bad...: refused.
Kinds == {"get", "badGet", "set", "badSet", "configure", "address",
          "whenConfigured", "out", "badOut"}
Request == [kind : Kinds, wLength : Nat, len : Nat]

IsOut(r) == r.kind \in {"out", "badOut"}
IsIn(r)  == r.kind \in {"get", "badGet"}

WellFormed(r) ==
    CASE r.kind = "get"    -> 0 < r.wLength /\ 0 < r.len
      [] r.kind = "badGet" -> 0 < r.wLength
      [] IsOut(r)          -> 0 < r.wLength /\ r.wLength <= MPS
      [] OTHER             -> r.wLength = 0

ASSUME SizesAssumption == MPS \in Nat \ {0} /\ SetupRoom \in Nat
ASSUME RequestsAssumption ==
    Requests \subseteq Request /\ \A r \in Requests : WellFormed(r)

VARIABLES
    core,    \* usbd_core_cfg
    udc,     \* g_dwc2_udc.setup, the last SETUP read from the FIFO
    in,      \* IN endpoint 0: registers, transmit FIFO and in_ep[0]
    out,     \* OUT endpoint 0: registers and out_ep[0]
    rx,      \* the receive FIFO
    rst,     \* GINTSTS_USBRST
    address, \* DCFG.DAD
    bulk,    \* the bulk endpoints
    pc, gint, epint,    \* the handler: its block, what it has read
    phase, cmd, got,    \* the host: its phase, its request, bytes moved
    known,              \* the address it gave, and whether it configured
    own,     \* history: every packet was the next part of the answer
    calls, ok, recv     \* history: calls of the request handler, the last
                        \* verdict, bytes of the data stage in req_data

coreVars == <<core, udc, address, bulk>>
epVars   == <<in, out>>
isrVars  == <<pc, gint, epint>>
hostVars == <<phase, cmd, got, known, own>>
histVars == <<calls, ok, recv>>
vars == <<coreVars, epVars, rx, rst, isrVars, hostVars, histVars>>

NoRequest == [kind |-> "set", wLength |-> 0, len |-> 0]   \* eight zeroes
Command == [tag : 0 .. 1, req : Requests \cup {NoRequest}]
Where   == [tag : 0 .. 1, off : Nat]
Packet  == [at : Where, n : Nat]
Empty   == [at |-> [tag |-> 0, off |-> 0], n |-> 0]
Phases  == {"detached", "reset", "idle", "in", "statusOut", "out", "statusIn"}

TypeOK ==
    /\ core \in [setup : Command, buf : Where, residue : Nat, len : Nat,
                 zlp : BOOLEAN, configuration : 0 .. 1]
    /\ udc \in Command
    /\ in \in [ena : BOOLEAN, siz : 0 .. MPS, fifo : Packet, xfrc : BOOLEAN,
               msk : BOOLEAN, stall : BOOLEAN, buf : Where,
               xfer : 0 .. MPS, actual : 0 .. MPS]
    /\ out \in [ena : BOOLEAN, siz : Nat, xfrc : BOOLEAN,
                stup : BOOLEAN, xfer : Nat]
    /\ Len(rx) <= 4
    /\ address \in 0 .. 1 /\ bulk \in {"closed", "armed"}
    /\ pc \in {"idle", "rx", "out", "setup", "in", "fifo", "reset"}
    /\ gint \in [rx : BOOLEAN, out : BOOLEAN, in : BOOLEAN, rst : BOOLEAN]
    /\ rst \in BOOLEAN /\ epint \in BOOLEAN
    /\ phase \in Phases /\ cmd \in Command /\ got \in Nat
    /\ known \in [address : 0 .. 1, configured : BOOLEAN]
    /\ own \in BOOLEAN
    /\ calls \in 0 .. 2 /\ ok \in BOOLEAN /\ recv \in Nat

Nobody == [address |-> 0, configured |-> FALSE]

\* usb_dc_init; nothing is plugged in.
Init ==
    LET none == [tag |-> 0, req |-> NoRequest]
    IN /\ core = [setup |-> none, buf |-> Empty.at, residue |-> 0,
                  len |-> 0, zlp |-> FALSE, configuration |-> 0]
       /\ udc = none /\ cmd = none
       /\ in = [ena |-> FALSE, siz |-> 0, fifo |-> Empty, xfrc |-> FALSE,
                msk |-> FALSE, stall |-> FALSE, buf |-> Empty.at,
                xfer |-> 0, actual |-> 0]
       /\ out = [ena |-> FALSE, siz |-> 0, xfrc |-> FALSE, stup |-> FALSE,
                 xfer |-> 0]
       /\ rx = <<>> /\ rst = FALSE
       /\ address = 0 /\ bulk = "closed"
       /\ pc = "idle" /\ epint = FALSE
       /\ gint = [rx |-> FALSE, out |-> FALSE, in |-> FALSE, rst |-> FALSE]
       /\ phase = "detached" /\ got = 0 /\ known = Nobody /\ own = TRUE
       /\ calls = 0 /\ ok = FALSE /\ recv = 0

Least(a, b) == IF a < b THEN a ELSE b

-----------------------------------------------------------------------------
(* The host and the registers it moves *)

\* The host plugs in, or gives up on the device at any moment.
BusReset ==
    /\ phase # "reset"
    /\ phase' = "reset"
    /\ rst' = TRUE
    /\ known' = Nobody
    /\ UNCHANGED <<coreVars, epVars, rx, isrVars, cmd, got, own, histVars>>

\* A device answers at its own address only.  SETUP lifts the halt.
SendSetup(r) ==
    /\ phase \in {"reset", "idle"} /\ ~rst
    /\ address = known.address
    /\ cmd' = [tag |-> 1 - cmd.tag, req |-> r]
    /\ rx' = rx \o <<[is |-> "setup", n |-> 8], [is |-> "setupDone", n |-> 0]>>
    /\ in' = [in EXCEPT !.stall = FALSE]
    /\ phase' = CASE IsIn(r) -> "in" [] IsOut(r) -> "out" [] OTHER -> "statusIn"
    /\ got' = 0 /\ own' = TRUE
    /\ calls' = 0 /\ ok' = FALSE /\ recv' = 0
    /\ UNCHANGED <<coreVars, out, rst, isrVars, known>>

\* The packet armed is in the FIFO, whole.
InReady == in.ena /\ in.siz = 0 /\ ~in.stall

PacketGone == in' = [in EXCEPT !.ena = FALSE, !.fifo = Empty, !.xfrc = TRUE]

ReadData ==
    /\ phase = "in" /\ InReady
    /\ PacketGone
    /\ own' = (own /\ \/ in.fifo.n = 0
                      \/ in.fifo.at = [tag |-> cmd.tag, off |-> got])
    /\ got' = got + in.fifo.n
    /\ phase' = IF in.fifo.n < MPS \/ got' >= cmd.req.wLength
                THEN "statusOut" ELSE "in"
    /\ UNCHANGED <<coreVars, out, rx, rst, isrVars, cmd, known, histVars>>

ReadStatus ==
    /\ phase = "statusIn" /\ InReady
    /\ PacketGone
    /\ own' = (own /\ in.fifo.n = 0)
    /\ phase' = "idle"
    /\ known' = CASE cmd.req.kind = "address"   -> [known EXCEPT !.address = 1]
                  [] cmd.req.kind = "configure" -> [known EXCEPT !.configured = TRUE]
                  [] OTHER -> known
    /\ UNCHANGED <<coreVars, out, rx, rst, isrVars, cmd, got, histVars>>

TakeStall ==
    /\ phase \in {"in", "statusIn"} /\ in.stall
    /\ phase' = "idle"
    /\ UNCHANGED <<coreVars, epVars, rx, rst, isrVars, cmd, got, known, own, histVars>>

\* An OUT packet is taken when the endpoint is enabled.
TakeOut(n) ==
    /\ out.ena
    /\ out' = [out EXCEPT !.ena = FALSE, !.siz = @ - n]
    /\ rx' = rx \o <<[is |-> "data", n |-> n], [is |-> "dataDone", n |-> 0]>>

SendStatus ==
    /\ phase = "statusOut"
    /\ TakeOut(0)
    /\ phase' = "idle"
    /\ UNCHANGED <<coreVars, in, rst, isrVars, cmd, got, known, own, histVars>>

SendData ==
    /\ phase = "out"
    /\ LET n == Least(MPS, cmd.req.wLength - got)
       IN /\ TakeOut(n)
          /\ got' = got + n
          /\ phase' = IF got + n = cmd.req.wLength THEN "statusIn" ELSE "out"
    /\ UNCHANGED <<coreVars, in, rst, isrVars, cmd, known, own, histVars>>

-----------------------------------------------------------------------------
(* The driver's calls *)

\* usbd_ep_start_write: at most one packet of endpoint 0.
StartWrite(i, at, n) ==
    LET m == Least(n, MPS)
    IN [i EXCEPT !.buf = at, !.xfer = m, !.actual = 0, !.siz = m,
                 !.ena = TRUE, !.msk = @ \/ m > 0]

\* usbd_ep_start_read: xfer_len keeps the whole length, the endpoint takes
\* one packet.  No data is a status: a packet of any length.
StartRead(o, n) ==
    [o EXCEPT !.xfer = n, !.ena = TRUE,
              !.siz = IF n = 0 THEN MPS ELSE Least(n, MPS)]

\* ... and the length of that packet goes to in_ep.
ReadSpoilsIn(i, n) == IF n = 0 THEN i ELSE [i EXCEPT !.xfer = Least(n, MPS)]

\* dwc2_ep0_start_read_setup
ReadSetup(o) == [o EXCEPT !.siz = SetupRoom]

Stall(i) == [i EXCEPT !.stall = TRUE]

\* usbd_setup_request_handler and what it calls.  Requests to the device
\* itself are answered in every state.
ToDevice == {"get", "set", "configure", "address", "out"}

Accepts(r) ==
    \/ r.kind \in ToDevice
    \/ r.kind = "whenConfigured" /\ core.configuration # 0

Configures(r) == r.kind = "configure"

Handle(r) ==
    /\ calls' = Least(calls + 1, 2)
    /\ ok' = Accepts(r)
    /\ address' = IF r.kind = "address" THEN 1 ELSE address
    /\ bulk' = IF Configures(r) THEN "armed" ELSE bulk

Configuration(r) == IF Configures(r) THEN 1 ELSE core.configuration

-----------------------------------------------------------------------------
(* USBD_IRQHandler *)

TxEmpty == in.msk /\ in.fifo.n = 0

\* Mutant of Pending: the end of a transfer raises no interrupt.
NoXfrc == [rx |-> rx # <<>>, out |-> out.xfrc \/ out.stup,
           in |-> TxEmpty, rst |-> rst]

Pending == [rx  |-> rx # <<>>,
            out |-> out.xfrc \/ out.stup,
            in  |-> in.xfrc \/ TxEmpty,
            rst |-> rst]

EnterHandler ==
    /\ pc = "idle"
    /\ \E f \in DOMAIN Pending : Pending[f]
    /\ pc' = "rx"
    /\ gint' = Pending
    /\ UNCHANGED <<coreVars, epVars, rx, rst, epint, hostVars, histVars>>

\* RXFLVL: one entry is read.  Reading the last entry of a stage raises its
\* interrupt.
PopRx ==
    /\ pc = "rx"
    /\ pc' = "out"
    /\ IF gint.rx
       THEN LET e == Head(rx)
            IN /\ rx' = Tail(rx)
               /\ udc' = IF e.is = "setup" THEN cmd ELSE udc
               /\ recv' = IF e.is = "data" THEN recv + e.n ELSE recv
               /\ out' = [out EXCEPT !.xfrc = @ \/ e.is = "dataDone",
                                     !.stup = @ \/ e.is = "setupDone"]
       ELSE UNCHANGED <<rx, udc, recv, out>>
    /\ UNCHANGED <<core, in, rst, address, bulk, gint, epint, hostVars, calls, ok>>

\* usbd_event_ep_out_complete_handler: o, the endpoint with its transfer
\* taken; n, the bytes the driver says have come.  As n is the whole length,
\* not that of the packet, the data of a request must fit one packet
\* (RequestsAssumption) and the branch of the rest is never taken.
OutComplete(o, n) ==
    LET r == core.setup.req
        left == core.residue - n
        next == [core EXCEPT !.buf.off = @ + n, !.residue = left]
    IN IF n = 0 THEN /\ out' = o
                     /\ UNCHANGED <<core, in, address, bulk, calls, ok>>
       ELSE IF left # 0
       THEN /\ core' = next
            /\ out' = StartRead(o, left)
            /\ in' = ReadSpoilsIn(in, left)
            /\ UNCHANGED <<address, bulk, calls, ok>>
       ELSE /\ Handle(r)
            /\ core' = [next EXCEPT !.buf.off = 0,
                                    !.configuration = Configuration(r)]
            /\ in' = IF Accepts(r) THEN StartWrite(in, core.buf, 0) ELSE Stall(in)
            /\ out' = o

Acknowledge(o) == [o EXCEPT !.xfrc = FALSE, !.stup = FALSE]

\* OEPINT, XFRC: DOEPINT is read and cleared, both of its bits.
ServeOut ==
    /\ pc = "out"
    /\ pc' = "setup"
    /\ IF ~gint.out
       THEN epint' = FALSE /\ UNCHANGED <<core, epVars, address, bulk, calls, ok>>
       ELSE LET o == Acknowledge(out)
            IN /\ epint' = out.stup
               /\ IF ~out.xfrc
                  THEN out' = o /\ UNCHANGED <<core, in, address, bulk, calls, ok>>
                  ELSE IF out.xfer = 0
                  THEN /\ out' = ReadSetup(o)
                       /\ UNCHANGED <<core, in, address, bulk, calls, ok>>
                  ELSE OutComplete([o EXCEPT !.xfer = 0], out.xfer - out.siz)
    /\ UNCHANGED <<udc, rx, rst, gint, hostVars, recv>>

\* Mutant of NeedsZlp: only a length the host asked for in full is padded.
PadFull(r) == r.wLength = r.len /\ r.len % MPS = 0

NeedsZlp(r) == r.wLength > r.len /\ r.len % MPS = 0

\* usbd_event_ep0_setup_complete_handler.  An answer that is not aligned is
\* copied to req_data, which leaves its bytes what they are.
SetupComplete ==
    LET r == udc.req
        new == [core EXCEPT !.setup = udc, !.buf = [tag |-> udc.tag, off |-> 0],
                            !.residue = r.wLength, !.len = r.wLength,
                            !.zlp = FALSE]
        n == IF r.kind = "get" THEN Least(r.len, r.wLength) ELSE 0
    IN IF IsOut(r)
       THEN /\ core' = new
            /\ out' = StartRead(out, r.wLength)
            /\ in' = ReadSpoilsIn(in, r.wLength)
            /\ UNCHANGED <<address, bulk, calls, ok>>
       ELSE /\ Handle(r)
            /\ UNCHANGED out
            /\ IF Accepts(r)
               THEN /\ core' = [new EXCEPT !.residue = n, !.len = r.len,
                                           !.zlp = r.kind = "get" /\ NeedsZlp(r),
                                           !.configuration = Configuration(r)]
                    /\ in' = StartWrite(in, new.buf, n)
               ELSE /\ core' = new
                    /\ in' = Stall(in)

ServeSetup ==
    /\ pc = "setup"
    /\ pc' = "in"
    /\ IF epint THEN SetupComplete
                ELSE UNCHANGED <<core, epVars, address, bulk, calls, ok>>
    /\ UNCHANGED <<udc, rx, rst, gint, epint, hostVars, recv>>

\* Mutant of InNext: the pointer is not moved on.
InAgain(i, left, next) ==
    IF left # 0 THEN StartWrite(i, core.buf, left)
    ELSE IF core.zlp THEN StartWrite(i, next.buf, 0) ELSE i

\* usbd_event_ep_in_complete_handler: i, the endpoint with its transfer
\* taken; left, what remains to be sent.
InNext(i, left, next) ==
    IF left # 0 THEN StartWrite(i, next.buf, left)
    ELSE IF core.zlp THEN StartWrite(i, next.buf, 0) ELSE i

OutNext(left) ==
    IF left = 0 /\ ~core.zlp /\ core.setup.req.wLength # 0 /\ IsIn(core.setup.req)
    THEN StartRead(out, 0) ELSE out

\* The driver looks at the SETUP it read last, which may be the next one.
AfterStatus(o) ==
    IF udc.req.wLength = 0 \/ IsOut(udc.req) THEN ReadSetup(o) ELSE o

\* IEPINT, XFRC: DIEPINT is read once, for this block and the next.
ServeIn ==
    /\ pc = "in"
    /\ pc' = "fifo"
    /\ epint' = (gint.in /\ TxEmpty)
    /\ IF gint.in /\ in.xfrc
       THEN LET n == in.xfer - in.siz
                left == core.residue - n
                next == [core EXCEPT !.buf.off = @ + n, !.residue = left,
                                     !.zlp = @ /\ left # 0]
            IN /\ core' = next
               /\ in' = InNext([in EXCEPT !.xfrc = FALSE, !.actual = n, !.xfer = 0],
                               left, next)
               /\ out' = AfterStatus(OutNext(left))
       ELSE UNCHANGED <<core, in, out>>
    /\ UNCHANGED <<udc, rx, rst, address, bulk, gint, hostVars, histVars>>

\* TXFE: dwc2_tx_fifo_empty_procecss writes the packet, and the mask goes
\* when nothing is left to write.
FillFifo ==
    /\ pc = "fifo"
    /\ pc' = "reset"
    /\ LET n == in.xfer - in.actual
           write == n > 0 /\ in.fifo.n = 0
       IN in' = IF ~epint THEN in
                ELSE [in EXCEPT !.fifo = IF write THEN [at |-> in.buf, n |-> n] ELSE @,
                                !.actual = IF write THEN in.xfer ELSE @,
                                !.siz = IF write THEN 0 ELSE @,
                                !.buf.off = IF write THEN @ + n ELSE @,
                                !.msk = @ /\ n > 0 /\ ~write]
    /\ UNCHANGED <<coreVars, out, rx, rst, gint, epint, hostVars, histVars>>

ResetCore == [core EXCEPT !.configuration = 0]

\* USBRST: the FIFOs are flushed, the registers of the endpoints cleared but
\* for the mask of the empty FIFO; usbd_event_reset_handler.
ServeReset ==
    /\ pc = "reset"
    /\ pc' = "idle"
    /\ IF gint.rst
       THEN /\ rst' = FALSE
            /\ rx' = <<>>
            /\ in' = [ena |-> FALSE, siz |-> 0, fifo |-> Empty, xfrc |-> FALSE,
                      msk |-> in.msk, stall |-> FALSE, buf |-> Empty.at,
                      xfer |-> 0, actual |-> 0]
            /\ out' = ReadSetup([ena |-> FALSE, siz |-> 0, xfrc |-> FALSE,
                                 stup |-> FALSE, xfer |-> 0])
            /\ udc' = [tag |-> 0, req |-> NoRequest]
            /\ core' = ResetCore
            /\ address' = 0
            /\ bulk' = "closed"
       ELSE UNCHANGED <<coreVars, epVars, rx, rst>>
    /\ UNCHANGED <<gint, epint, hostVars, histVars>>

-----------------------------------------------------------------------------
Host == \/ BusReset
        \/ \E r \in Requests : SendSetup(r)
        \/ ReadData \/ ReadStatus \/ TakeStall \/ SendStatus \/ SendData

Handler == \/ EnterHandler \/ PopRx \/ ServeOut \/ ServeSetup
           \/ ServeIn \/ FillFifo \/ ServeReset

Next == Host \/ Handler

\* The handler runs when its interrupt is pending; a host goes on with the
\* transfer it began, and nothing makes it begin one.
Spec == /\ Init /\ [][Next]_vars
        /\ WF_vars(Handler)
        /\ WF_vars(ReadData) /\ WF_vars(ReadStatus) /\ WF_vars(TakeStall)
        /\ WF_vars(SendStatus) /\ WF_vars(SendData)

-----------------------------------------------------------------------------
AnswerLength(r) == Least(r.len, r.wLength)

\* What the host reads is the answer to its own request: every packet is the
\* next part of it, none is of an earlier request or an earlier session, and
\* when the host takes the data for complete it has all of them (a packet
\* sent twice, a stale one in the FIFO, a missing or early short packet
\* would break it).
AnswerIsOwn ==
    /\ own
    /\ phase = "statusOut" => got = AnswerLength(cmd.req)

\* A transfer is over only after its request was given to the request handler
\* exactly once, a request with data only when all of its data were in the
\* buffer, and the host was told what the handler said.
HandledOnce ==
    /\ calls <= 1
    /\ calls = 1 /\ IsOut(cmd.req) => recv = cmd.req.wLength
    /\ phase = "statusOut" => calls = 1 /\ ok
    /\ in.stall => calls = 1 /\ ~ok

\* When no transfer is under way, host and device agree on the address and on
\* whether the device is configured, and it is configured exactly when its
\* bulk endpoints are open and await the first command, however the bus was
\* reset before.
InStep ==
    phase = "idle" =>
       /\ address = known.address
       /\ known.configured <=> core.configuration = 1
       /\ known.configured <=> bulk = "armed"

\* A SETUP is served with both directions of the endpoint at rest: nothing is
\* armed, no packet is in the FIFO, and no completion of the transfer before
\* is still to be served, for it would be taken for one of the new transfer.
NewTransferIsClean ==
    pc = "setup" /\ epint /\ ~rst =>
       ~in.ena /\ ~out.ena /\ in.fifo.n = 0 /\ ~in.xfrc /\ ~out.xfrc

\* Every control transfer ends, with its status or with a refusal, unless the
\* host resets the bus.
TransfersEnd == phase \in {"in", "out", "statusIn", "statusOut"}
                   ~> phase \in {"idle", "reset"}
\* Every transfer is true: its own answer, its own request, its own outcome.
TransferIsOwn == AnswerIsOwn /\ HandledOnce

\* No transfer and no session meets what the one before it has left.
StartsClean == TypeOK /\ InStep /\ NewTransferIsClean

===============================================================================
