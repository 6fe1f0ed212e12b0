--------------------------- MODULE UsbControlProofs ---------------------------
(***************************************************************************)
(* Proofs about UsbControl for any packet length and any requests a host   *)
(* may make: whatever of the transfer before is still to be served when    *)
(* the next SETUP is in the FIFO, whenever the bus is reset, every         *)
(* transfer has its own answer and its own outcome, and the next one       *)
(* starts on an endpoint at rest.                                          *)
(***************************************************************************)
EXTENDS UsbControl, SequenceTheorems, TLAPS

-----------------------------------------------------------------------------
(* What may be in the receive FIFO *)

Setup     == [is |-> "setup", n |-> 8]
SetupDone == [is |-> "setupDone", n |-> 0]
Data(n)   == [is |-> "data", n |-> n]
DataDone  == [is |-> "dataDone", n |-> 0]

\* A SETUP has been sent, or has been read from the FIFO but for its end.
Tail2 == <<Setup, SetupDone>>
Tail1 == <<SetupDone>>

-----------------------------------------------------------------------------
(* What is left of a transfer whose last packet was exchanged, when rest is *)
(* what the next one has put in the FIFO                                    *)

AtRest == ~in.ena /\ ~out.ena /\ in.fifo.n = 0

\* A mask that was left open when the FIFO was flushed has nothing to write.
NothingToWrite == in.msk => in.xfer <= in.actual

NoneLeft(rest) == ~in.xfrc /\ ~out.xfrc /\ rx = rest

\* The end of a status from the device is still to be served.
StatusInLeft(rest) ==
    /\ in.xfrc /\ ~out.xfrc /\ rx = rest
    /\ in.xfer = 0 /\ in.siz = 0
    /\ core.residue = 0 /\ ~core.zlp
    /\ core.setup.req.wLength = 0 \/ ~IsIn(core.setup.req)

\* The status of the host in the FIFO, its data not read yet or read.
Late2(rest) == <<Data(0), DataDone>> \o rest
Late1(rest) == <<DataDone>> \o rest

\* The end of a status from the host.
StatusOutLeft(rest) ==
    /\ ~in.xfrc /\ out.xfer = 0
    /\ \/ ~out.xfrc /\ rx = Late2(rest)
       \/ ~out.xfrc /\ rx = Late1(rest)
       \/ out.xfrc /\ rx = rest

Left(rest) ==
    /\ AtRest /\ NothingToWrite /\ ~out.stup
    /\ NoneLeft(rest) \/ StatusInLeft(rest) \/ StatusOutLeft(rest)

\* The handler has read the interrupt of a SETUP and is about to serve it.
Taken == pc = "setup" /\ epint

Ended == Left(<<>>) /\ ~Taken

-----------------------------------------------------------------------------
(* A transfer before its request is served *)

Unserved == calls = 0 /\ got = 0 /\ recv = 0 /\ ~in.stall

SetupWaits == Unserved /\ ~Taken /\ Left(Tail2)

\* The SETUP was read in a run of the handler that has seen what is left, so
\* that it is served before the next run.
SetupRead ==
    /\ Unserved /\ ~Taken /\ Left(Tail1) /\ udc = cmd
    /\ \/ NoneLeft(Tail1)
       \/ StatusInLeft(Tail1) /\ pc \in {"out", "setup", "in"} /\ gint.in
       \/ out.xfrc /\ pc = "out" /\ gint.out
    /\ in.msk => \/ pc \in {"out", "setup", "in"} /\ gint.in
                 \/ pc = "fifo" /\ epint

SetupServed ==
    /\ Unserved /\ AtRest /\ NoneLeft(<<>>) /\ ~in.msk /\ udc = cmd
    /\ out.stup # Taken

Begun(p) ==
    /\ p = IF IsIn(cmd.req) THEN "in" ELSE IF IsOut(cmd.req) THEN "out" ELSE "statusIn"
    /\ SetupWaits \/ SetupRead \/ SetupServed

-----------------------------------------------------------------------------
(* A transfer after its request was served *)

Served == rx = <<>> /\ ~out.stup /\ ~Taken

Refused(p) ==
    /\ p \in {"in", "statusIn"}
    /\ Served /\ AtRest /\ NoneLeft(<<>>) /\ ~in.msk
    /\ in.stall /\ calls = 1 /\ ~ok

Answer == Least(cmd.req.len, cmd.req.wLength)

\* Bytes of the answer before the packet that is armed or was read.
Before == core.buf.off

Answering(p) ==
    /\ p \in {"in", "statusOut"}
    /\ Served /\ cmd.req.kind = "get" /\ calls = 1 /\ ok /\ ~in.stall
    /\ ~out.ena /\ ~out.xfrc
    /\ core.setup = cmd
    /\ core.buf.tag = cmd.tag /\ Before <= Answer /\ Before % MPS = 0
    /\ core.residue = Answer - Before
    /\ core.zlp <=> NeedsZlp(cmd.req) /\ Before < Answer
    /\ Before = Answer => NeedsZlp(cmd.req)
    /\ in.xfer = Least(Answer - Before, MPS)

\* The packet is armed; it is not in the FIFO yet, or it is.
PacketArmed(p) ==
    /\ Answering(p) /\ p = "in"
    /\ in.ena /\ ~in.xfrc /\ got = Before
    /\ \/ /\ in.siz = in.xfer /\ in.xfer > 0 /\ in.actual = 0
          /\ in.msk /\ in.fifo.n = 0 /\ in.buf = core.buf
       \/ /\ in.siz = 0 /\ ~in.msk /\ in.fifo.n = in.xfer
          /\ in.xfer > 0 => in.fifo.at = core.buf

\* The host has read it, the device has not noticed.
PacketRead(p) ==
    /\ Answering(p)
    /\ ~in.ena /\ in.xfrc /\ got = Before + in.xfer
    /\ in.siz = 0 /\ ~in.msk /\ in.fifo.n = 0
    /\ p = "statusOut" <=> in.xfer < MPS \/ got >= cmd.req.wLength

StatusOutArmed(p) ==
    /\ p = "statusOut"
    /\ Served /\ cmd.req.kind = "get" /\ calls = 1 /\ ok /\ ~in.stall
    /\ got = Answer
    /\ ~in.ena /\ in.fifo.n = 0 /\ ~in.xfrc /\ ~in.msk
    /\ out.ena /\ out.xfer = 0 /\ ~out.xfrc

\* The data of a request are awaited, or sent.
ForData ==
    /\ IsOut(cmd.req) /\ calls = 0 /\ ~in.stall
    /\ core.setup = cmd /\ core.residue = cmd.req.wLength /\ ~core.zlp
    /\ out.xfer = cmd.req.wLength /\ ~out.stup /\ ~Taken
    /\ ~in.ena /\ in.fifo.n = 0 /\ ~in.xfrc /\ ~in.msk

DataAwaited(p) ==
    /\ p = "out" /\ ForData /\ rx = <<>> /\ got = 0 /\ recv = 0
    /\ out.ena /\ out.siz = cmd.req.wLength /\ ~out.xfrc

DataSent(p) ==
    /\ p = "statusIn" /\ ForData /\ got = cmd.req.wLength
    /\ ~out.ena /\ out.siz = 0
    /\ \/ ~out.xfrc /\ recv = 0 /\ rx = <<Data(cmd.req.wLength), DataDone>>
       \/ ~out.xfrc /\ recv = cmd.req.wLength /\ rx = <<DataDone>>
       \/ out.xfrc /\ recv = cmd.req.wLength /\ rx = <<>>

StatusInArmed(p) ==
    /\ p = "statusIn"
    /\ Served /\ calls = 1 /\ ok /\ ~in.stall
    /\ ~IsIn(cmd.req) /\ core.setup = cmd
    /\ in.ena /\ ~in.xfrc /\ in.siz = 0 /\ in.xfer = 0 /\ in.fifo.n = 0 /\ ~in.msk
    /\ ~out.ena /\ ~out.xfrc
    /\ core.residue = 0 /\ ~core.zlp

-----------------------------------------------------------------------------
(* The invariant *)

\* Where the device is in a transfer whose host is in phase p.
Device(p) ==
    \/ p \in {"detached", "reset", "idle"} /\ Ended
    \/ Begun(p) \/ Refused(p)
    \/ PacketArmed(p) \/ PacketRead(p) \/ StatusOutArmed(p)
    \/ DataAwaited(p) \/ DataSent(p) \/ StatusInArmed(p)

\* The host may have reset the bus since, which the device has not noticed.
Situation == \E p \in Phases : Device(p) /\ (phase = p \/ (phase = "reset" /\ rst))

\* What the handler has read of the global status.
Snapshot ==
    /\ pc = "rx" /\ gint.rx => rx # <<>>
    /\ pc = "rx" => (gint.out <=> out.xfrc \/ out.stup)
    /\ pc = "out" /\ gint.out => out.xfrc \/ out.stup
    /\ pc = "rx" /\ gint.rx /\ rx = Tail2 => (in.xfrc \/ in.msk => gint.in)
    /\ pc = "fifo" /\ epint => in.msk /\ in.fifo.n = 0
    /\ pc # "idle" /\ gint.rst => rst

\* A change that the host has not been told of yet.
Untold == phase = "statusIn" /\ calls = 1 /\ ok

Agreed ==
    /\ phase = "reset" => known = Nobody
    /\ ~rst =>
          /\ address = IF Untold /\ cmd.req.kind = "address" THEN 1 ELSE known.address
          /\ core.configuration =
                IF known.configured \/ (Untold /\ cmd.req.kind = "configure")
                THEN 1 ELSE 0
          /\ core.configuration = 1 <=> bulk = "armed"
    /\ rst => phase = "reset"

Counts ==
    /\ own /\ calls <= 1
    /\ calls = 1 /\ IsOut(cmd.req) => recv = cmd.req.wLength
    /\ in.stall => calls = 1 /\ ~ok

\* The types of what TypeOK leaves to the situation.
Typed == TypeOK

IInv == Typed /\ Situation /\ Snapshot /\ Agreed /\ Counts

-----------------------------------------------------------------------------
(* The receive FIFO *)

LEMMA Shapes ==
    /\ Tail2 # <<>> /\ Tail1 # <<>> /\ Tail1 # Tail2
    /\ <<>> \o Tail2 = Tail2 /\ <<>> \o <<>> = <<>>
    /\ Len(Tail2) = 2 /\ Len(Tail1) = 1
    /\ Head(Tail2) = Setup /\ Tail(Tail2) = Tail1
    /\ Head(Tail1) = SetupDone /\ Tail(Tail1) = <<>>
BY DEF Tail2, Tail1

LEMMA Join21 ==
    ASSUME NEW a, NEW b, NEW c
    PROVE  <<a, b>> \o <<c>> = <<a, b, c>>
<1> DEFINE S == {a, b, c}
<1>1. \A i \in 1 .. 3 : (<<a, b>> \o <<c>>)[i] = <<a, b, c>>[i]
  OBVIOUS
<1>2. <<a, b, c>> \in Seq(S) /\ Len(<<a, b, c>>) = 3
  OBVIOUS
<1>3. <<a, b>> \o <<c>> \in Seq(S) /\ Len(<<a, b>> \o <<c>>) = 3
  OBVIOUS
<1>4. QED
  BY <1>1, <1>2, <1>3, SeqEqual

LEMMA Join11 ==
    ASSUME NEW a, NEW c
    PROVE  <<a>> \o <<c>> = <<a, c>>
<1> DEFINE S == {a, c}
<1>1. \A i \in 1 .. 2 : (<<a>> \o <<c>>)[i] = <<a, c>>[i]
  OBVIOUS
<1>2. <<a, c>> \in Seq(S) /\ Len(<<a, c>>) = 2
  OBVIOUS
<1>3. <<a>> \o <<c>> \in Seq(S) /\ Len(<<a>> \o <<c>>) = 2
  OBVIOUS
<1>4. QED
  BY <1>1, <1>2, <1>3, SeqEqual

LEMMA Join22 ==
    ASSUME NEW a, NEW b, NEW c, NEW d
    PROVE  <<a, b>> \o <<c, d>> = <<a, b, c, d>>
<1> DEFINE S == {a, b, c, d}
<1>1. \A i \in 1 .. 4 : (<<a, b>> \o <<c, d>>)[i] = <<a, b, c, d>>[i]
  OBVIOUS
<1>2. <<a, b, c, d>> \in Seq(S) /\ Len(<<a, b, c, d>>) = 4
  OBVIOUS
<1>3. <<a, b>> \o <<c, d>> \in Seq(S) /\ Len(<<a, b>> \o <<c, d>>) = 4
  OBVIOUS
<1>4. QED
  BY <1>1, <1>2, <1>3, SeqEqual

LEMMA Join12 ==
    ASSUME NEW a, NEW c, NEW d
    PROVE  <<a>> \o <<c, d>> = <<a, c, d>>
<1> DEFINE S == {a, c, d}
<1>1. \A i \in 1 .. 3 : (<<a>> \o <<c, d>>)[i] = <<a, c, d>>[i]
  OBVIOUS
<1>2. <<a, c, d>> \in Seq(S) /\ Len(<<a, c, d>>) = 3
  OBVIOUS
<1>3. <<a>> \o <<c, d>> \in Seq(S) /\ Len(<<a>> \o <<c, d>>) = 3
  OBVIOUS
<1>4. QED
  BY <1>1, <1>2, <1>3, SeqEqual

LEMMA Pieces ==
    ASSUME NEW a, NEW b, NEW c, NEW d
    PROVE  /\ Head(<<a, b, c, d>>) = a /\ Tail(<<a, b, c, d>>) = <<b, c, d>>
           /\ Head(<<a, b, c>>) = a /\ Tail(<<a, b, c>>) = <<b, c>>
           /\ Head(<<a, b>>) = a /\ Tail(<<a, b>>) = <<b>>
           /\ <<a, b, c, d>> # <<>> /\ <<a, b, c>> # <<>> /\ <<a, b>> # <<>>
           /\ Len(<<a, b, c, d>>) = 4 /\ Len(<<a, b, c>>) = 3 /\ Len(<<a, b>>) = 2
OBVIOUS

\* A status of the host, with what came after it.
LEMMA DataShapes ==
    ASSUME NEW d, NEW e, NEW rest \in {<<>>, Tail1, Tail2}
    PROVE  /\ <<d, e>> \o rest # <<>> /\ <<e>> \o rest # <<>>
           /\ Len(<<d, e>> \o rest) <= 4 /\ Len(<<e>> \o rest) <= 4
           /\ Head(<<d, e>> \o rest) = d /\ Tail(<<d, e>> \o rest) = <<e>> \o rest
           /\ Head(<<e>> \o rest) = e /\ Tail(<<e>> \o rest) = rest
           /\ <<d, e>> \o <<>> = <<d, e>> /\ <<e>> \o <<>> = <<e>>
<1>1. CASE rest = <<>>
  BY <1>1
<1>2. CASE rest = Tail1
  <2>1. <<d, e>> \o <<SetupDone>> = <<d, e, SetupDone>>
    BY Join21, Zenon
  <2>2. <<e>> \o <<SetupDone>> = <<e, SetupDone>>
    BY Join11, Zenon
  <2>3. <<d, e>> \o rest = <<d, e, SetupDone>> /\ <<e>> \o rest = <<e, SetupDone>>
    BY <1>2, <2>1, <2>2, Zenon DEF Tail1
  <2>4. <<d, e>> \o <<>> = <<d, e>> /\ <<e>> \o <<>> = <<e>>
    OBVIOUS
  <2> DEFINE x == <<d, e>> \o rest
             y == <<e>> \o rest
  <2>5. x = <<d, e, SetupDone>> /\ y = <<e, SetupDone>> /\ rest = Tail1
    BY <1>2, <2>3, Zenon
  <2> HIDE DEF x, y
  <2>6. /\ x # <<>> /\ y # <<>> /\ Len(x) <= 4 /\ Len(y) <= 4
        /\ Head(x) = d /\ Tail(x) = y /\ Head(y) = e /\ Tail(y) = rest
    BY <2>5, Pieces DEF Tail1
  <2>7. QED
    BY <2>4, <2>6, Zenon DEF x, y
<1>3. CASE rest = Tail2
  <2>1. <<d, e>> \o <<Setup, SetupDone>> = <<d, e, Setup, SetupDone>>
    BY Join22, Zenon
  <2>2. <<e>> \o <<Setup, SetupDone>> = <<e, Setup, SetupDone>>
    BY Join12, Zenon
  <2>3. <<d, e>> \o rest = <<d, e, Setup, SetupDone>> /\ <<e>> \o rest = <<e, Setup, SetupDone>>
    BY <1>3, <2>1, <2>2, Zenon DEF Tail2
  <2>4. <<d, e>> \o <<>> = <<d, e>> /\ <<e>> \o <<>> = <<e>>
    OBVIOUS
  <2> DEFINE x == <<d, e>> \o rest
             y == <<e>> \o rest
  <2>5. x = <<d, e, Setup, SetupDone>> /\ y = <<e, Setup, SetupDone>> /\ rest = Tail2
    BY <1>3, <2>3, Zenon
  <2> HIDE DEF x, y
  <2>6. /\ x # <<>> /\ y # <<>> /\ Len(x) <= 4 /\ Len(y) <= 4
        /\ Head(x) = d /\ Tail(x) = y /\ Head(y) = e /\ Tail(y) = rest
    BY <2>5, Pieces DEF Tail2
  <2>7. QED
    BY <2>4, <2>6, Zenon DEF x, y
<1>4. QED
  BY <1>1, <1>2, <1>3

LEMMA LateShapes ==
    ASSUME NEW rest \in {<<>>, Tail1, Tail2}
    PROVE  /\ Late2(rest) # <<>> /\ Late1(rest) # <<>>
           /\ Len(Late2(rest)) <= 4 /\ Len(Late1(rest)) <= 4
           /\ Head(Late2(rest)) = Data(0) /\ Tail(Late2(rest)) = Late1(rest)
           /\ Head(Late1(rest)) = DataDone /\ Tail(Late1(rest)) = rest
BY DataShapes, Zenon DEF Late2, Late1

\* What is put behind what the FIFO holds when a transfer has ended.
LEMMA LateJoin ==
    /\ <<>> \o Tail2 = Tail2
    /\ Late2(<<>>) \o Tail2 = Late2(Tail2) /\ Late1(<<>>) \o Tail2 = Late1(Tail2)
    /\ <<>> \o <<Data(0), DataDone>> = Late2(<<>>)
    /\ \A d, e : <<>> \o <<d, e>> = <<d, e>>
<1>1. Late2(<<>>) = <<Data(0), DataDone>> /\ Late1(<<>>) = <<DataDone>>
  BY DataShapes, Zenon DEF Late2, Late1
<1>2. <<>> \o Tail2 = Tail2 /\ \A d, e : <<>> \o <<d, e>> = <<d, e>>
  BY DEF Tail2
<1>3. QED
  BY <1>1, <1>2, Zenon DEF Late2, Late1

LEMMA Kind ==
    /\ Setup.is = "setup" /\ SetupDone.is = "setupDone" /\ DataDone.is = "dataDone"
    /\ \A n : Data(n).is = "data" /\ Data(n).n = n
    /\ Setup.n = 8 /\ SetupDone.n = 0 /\ DataDone.n = 0
BY DEF Setup, SetupDone, DataDone, Data

-----------------------------------------------------------------------------
(* Steps that leave a situation as it is *)

\* What a situation is about, but for where the handler is.
About == <<core, in, out, rx, udc, cmd, got, calls, ok, recv>>

LEMMA LeftStays ==
    ASSUME NEW rest, UNCHANGED <<core, in, out, rx>>
    PROVE  /\ Left(rest)' <=> Left(rest)
           /\ NoneLeft(rest)' <=> NoneLeft(rest)
           /\ StatusInLeft(rest)' <=> StatusInLeft(rest)
BY DEF Left, NoneLeft, StatusInLeft, StatusOutLeft, AtRest, NothingToWrite

LEMMA Stays ==
    ASSUME NEW p, Device(p), UNCHANGED About, Taken' <=> Taken,
           SetupRead => SetupRead'
    PROVE  Device(p)'
<1>0. UNCHANGED <<core, in, out, rx, udc, cmd, got, calls, ok, recv>>
  BY DEF About
<1>1. CASE p \in {"detached", "reset", "idle"} /\ Ended
  BY <1>0, <1>1, LeftStays DEF Device, Ended
<1>2. CASE Begun(p)
  <2>1. SetupWaits => SetupWaits'
    BY <1>0, LeftStays DEF SetupWaits, Unserved
  <2>2. SetupServed => SetupServed'
    BY <1>0 DEF SetupServed, Unserved, AtRest, NoneLeft
  <2>3. Begun(p)'
    BY <1>0, <1>2, <2>1, <2>2 DEF Begun
  <2>4. QED
    BY <2>3 DEF Device
<1>3. CASE Refused(p)
  BY <1>0, <1>3 DEF Device, Refused, Served, AtRest, NoneLeft
<1>4. CASE PacketArmed(p)
  BY <1>0, <1>4 DEF Device, PacketArmed, Answering, Served, Answer, Before
<1>5. CASE PacketRead(p)
  BY <1>0, <1>5 DEF Device, PacketRead, Answering, Served, Answer, Before
<1>6. CASE StatusOutArmed(p)
  BY <1>0, <1>6 DEF Device, StatusOutArmed, Served, Answer
<1>7. CASE DataAwaited(p)
  BY <1>0, <1>7 DEF Device, DataAwaited, ForData
<1>8. CASE DataSent(p)
  BY <1>0, <1>8 DEF Device, DataSent, ForData
<1>9. CASE StatusInArmed(p)
  BY <1>0, <1>9 DEF Device, StatusInArmed, Served
<1>10. QED
  BY <1>1, <1>2, <1>3, <1>4, <1>5, <1>6, <1>7, <1>8, <1>9 DEF Device

\* No situation but that of a SETUP to be served lets the handler serve one.
LEMMA TakenIsSetup ==
    ASSUME NEW p, Device(p), Taken
    PROVE  Begun(p) /\ SetupServed
BY DEF Device, Ended, Begun, SetupWaits, SetupRead, Refused, Served, PacketArmed,
   PacketRead, Answering, StatusOutArmed, DataAwaited, DataSent, ForData,
   StatusInArmed

-----------------------------------------------------------------------------
(* Full packets *)

\* A request the host makes keeps the rules.
LEMMA CommandTyped ==
    ASSUME NEW c \in Command
    PROVE  /\ c.req.wLength \in Nat /\ c.req.len \in Nat /\ c.req.kind \in Kinds
           /\ c.req.kind = "get" => 0 < c.req.wLength /\ 0 < c.req.len
           /\ IsOut(c.req) => 0 < c.req.wLength /\ c.req.wLength <= MPS
           /\ IsIn(c.req) => 0 < c.req.wLength
           /\ ~IsOut(c.req) /\ ~IsIn(c.req) => c.req.wLength = 0
<1>1. CASE c.req \in Requests
  BY <1>1, RequestsAssumption DEF Request, WellFormed, IsIn, IsOut
<1>2. CASE c.req = NoRequest
  BY <1>2 DEF NoRequest, Kinds, IsIn, IsOut
<1>3. QED
  BY <1>1, <1>2 DEF Command

\* Multiples of the length of a packet.
LEMMA Parts ==
    ASSUME NEW m \in Nat \ {0}, NEW x \in Nat, x % m = 0
    PROVE  \E k \in Int : x = k * m
<1>1. x = (x \div m) * m + (x % m)
  <2>1. m > 0 /\ m \in Nat /\ x \in Int
    OBVIOUS
  <2>2. QED
    BY <2>1
<1>2. x \div m \in Int
  OBVIOUS
<1>3. QED
  BY <1>1, <1>2

LEMMA NextPart ==
    ASSUME NEW m \in Nat \ {0}, NEW x \in Nat, x % m = 0
    PROVE  (x + m) % m = 0
<1>1. PICK k \in Int : x = k * m
  BY Parts
<1>2. x + m = (k + 1) * m
  BY <1>1
<1>3. ((k + 1) * m) % m = 0
  OBVIOUS
<1>4. QED
  BY <1>2, <1>3

\* There is none between two of them.
LEMMA NoneBetween ==
    ASSUME NEW m \in Nat \ {0}, NEW x \in Nat, NEW y \in Nat,
           x % m = 0, y % m = 0, x < y
    PROVE  y - x >= m
<1> SUFFICES ASSUME y - x < m
             PROVE  FALSE
  OBVIOUS
<1>1. PICK k \in Int : x = k * m
  BY Parts
<1>2. PICK j \in Int : y = j * m
  BY Parts
<1>3. y - x = (j - k) * m
  BY <1>1, <1>2
<1>4. j - k > 0 /\ j - k < 1
  BY <1>3
<1>5. QED
  BY <1>4

-----------------------------------------------------------------------------
(* The steps of the handler keep the situation *)

LEMMA EnterKeeps ==
    ASSUME NEW p, Device(p), EnterHandler
    PROVE  Device(p)'
<1>1. UNCHANGED About /\ pc = "idle" /\ pc' = "rx"
  BY DEF EnterHandler, About, coreVars, epVars, hostVars, histVars
<1>2. Taken' <=> Taken
  BY <1>1 DEF Taken
<1>3. SetupRead => SetupRead'
  BY <1>1, <1>2, LeftStays DEF SetupRead, About, Unserved, NoneLeft
<1>4. QED
  BY <1>1, <1>2, <1>3, Stays

LEMMA SkipRx ==
    ASSUME NEW p, Device(p), PopRx, ~gint.rx
    PROVE  Device(p)'
<1>1. UNCHANGED About /\ pc = "rx" /\ pc' = "out"
  BY DEF PopRx, About, hostVars
<1>2. Taken' <=> Taken
  BY <1>1 DEF Taken
<1>3. SetupRead => SetupRead'
  BY <1>1, <1>2, LeftStays DEF SetupRead, About, Unserved, NoneLeft
<1>4. QED
  BY <1>1, <1>2, <1>3, Stays

\* An entry of the FIFO is read.
Popped(e) ==
    /\ rx' = Tail(rx)
    /\ udc' = (IF e.is = "setup" THEN cmd ELSE udc)
    /\ recv' = (IF e.is = "data" THEN recv + e.n ELSE recv)
    /\ out' = [out EXCEPT !.xfrc = @ \/ e.is = "dataDone",
                          !.stup = @ \/ e.is = "setupDone"]

LEMMA PoppedOut ==
    ASSUME TypeOK, NEW e, Popped(e)
    PROVE  /\ out'.xfrc <=> (out.xfrc \/ e.is = "dataDone")
           /\ out'.stup <=> (out.stup \/ e.is = "setupDone")
           /\ out'.ena = out.ena /\ out'.siz = out.siz /\ out'.xfer = out.xfer
<1>1. DOMAIN out = {"ena", "siz", "xfrc", "stup", "xfer"}
  BY DEF TypeOK
<1>2. QED
  BY <1>1 DEF Popped

\* The end of a transfer in the FIFO, or the next SETUP behind it.
LEMMA PopLeft ==
    ASSUME TypeOK, NEW rest \in {<<>>, Tail1, Tail2}, Left(rest), rx # <<>>, rx # rest,
           NEW e, e = Head(rx), Popped(e), UNCHANGED <<core, in>>
    PROVE  Left(rest)' /\ UNCHANGED <<udc, recv>>
<1>1. StatusOutLeft(rest)
  BY DEF Left, NoneLeft, StatusInLeft
<1>2. CASE rx = Late2(rest)
  <2>1. e = Data(0) /\ rx' = Late1(rest)
    BY <1>2, LateShapes DEF Popped
  <2>2. e.is = "data" /\ e.n = 0
    BY <2>1, Kind
  <2>3. udc' = udc /\ recv' = recv
    BY <2>2 DEF Popped, TypeOK
  <2>4. (out'.xfrc <=> out.xfrc) /\ (out'.stup <=> out.stup)
    BY <2>2, PoppedOut
  <2>5. QED
    BY <1>1, <1>2, <2>1, <2>3, <2>4, PoppedOut DEF Left, StatusOutLeft, AtRest, NothingToWrite
<1>3. CASE rx = Late1(rest)
  <2>1. e = DataDone /\ rx' = rest
    BY <1>3, LateShapes DEF Popped
  <2>2. e.is = "dataDone"
    BY <2>1, Kind
  <2>3. udc' = udc /\ recv' = recv
    BY <2>2 DEF Popped
  <2>4. out'.xfrc /\ (out'.stup <=> out.stup)
    BY <2>2, PoppedOut
  <2>5. QED
    BY <1>1, <2>1, <2>3, <2>4, PoppedOut DEF Left, StatusOutLeft, AtRest, NothingToWrite
<1>4. QED
  BY <1>1, <1>2, <1>3 DEF StatusOutLeft

LEMMA LateIsNot == Late2(Tail2) # Tail2 /\ Late1(Tail2) # Tail2
<1>1. Head(Late2(Tail2)).is = "data" /\ Head(Late1(Tail2)).is = "dataDone"
  BY LateShapes, Kind
<1>2. Head(Tail2).is = "setup"
  BY Shapes, Kind
<1>3. QED
  BY <1>1, <1>2

\* The SETUP itself: the handler knows of what is left before it.
LEMMA PopSetup ==
    ASSUME TypeOK, Snapshot, SetupWaits, rx = Tail2, pc = "rx", gint.rx, pc' = "out",
           NEW e, e = Head(rx), Popped(e),
           UNCHANGED <<core, in, cmd, got, calls, gint, epint>>
    PROVE  SetupRead'
<1>1. e.is = "setup" /\ rx' = Tail1 /\ udc' = cmd'
  BY Shapes, Kind DEF Popped
<1>2. recv' = recv /\ (out'.xfrc <=> out.xfrc) /\ (out'.stup <=> out.stup)
  BY <1>1, PoppedOut DEF Popped
<1>3. Left(Tail2) /\ Unserved
  BY DEF SetupWaits
<1>4. ~StatusOutLeft(Tail2) \/ out.xfrc
  BY LateIsNot DEF StatusOutLeft
<1>5. (in.xfrc \/ in.msk => gint.in) /\ (gint.out <=> out.xfrc \/ out.stup)
  BY DEF Snapshot
<1>6. /\ NoneLeft(Tail2) => NoneLeft(Tail1)'
      /\ StatusInLeft(Tail2) => StatusInLeft(Tail1)' /\ gint'.in
      /\ StatusOutLeft(Tail2) => StatusOutLeft(Tail1)' /\ out'.xfrc /\ gint'.out
  <2>1. NoneLeft(Tail2) => NoneLeft(Tail1)'
    BY <1>1, <1>2 DEF NoneLeft
  <2>2. StatusInLeft(Tail2) => StatusInLeft(Tail1)' /\ gint'.in
    BY <1>1, <1>2, <1>5 DEF StatusInLeft
  <2>3. StatusOutLeft(Tail2) => StatusOutLeft(Tail1)' /\ out'.xfrc /\ gint'.out
    BY <1>1, <1>2, <1>4, <1>5, PoppedOut DEF StatusOutLeft
  <2>4. QED
    BY <2>1, <2>2, <2>3
<1>7. AtRest' /\ NothingToWrite' /\ ~out'.stup
  BY <1>2, <1>3, PoppedOut DEF Left, AtRest, NothingToWrite
<1>8. Left(Tail1)'
  BY <1>3, <1>6, <1>7 DEF Left
<1>9. Unserved' /\ ~Taken'
  BY <1>2, <1>3 DEF Unserved, Taken
<1>10. in'.msk => pc' = "out" /\ gint'.in
  BY <1>5
<1>11. QED
  BY <1>1, <1>3, <1>6, <1>8, <1>9, <1>10 DEF SetupRead, Left

LEMMA PopKeeps ==
    ASSUME TypeOK, Snapshot, NEW p, Device(p), PopRx, gint.rx
    PROVE  Device(p)'
<1> DEFINE e == Head(rx)
<1>1. /\ Popped(e) /\ pc = "rx" /\ pc' = "out"
      /\ UNCHANGED <<core, in, cmd, got, calls, ok, gint, epint>>
  BY DEF PopRx, Popped, hostVars
<1>2. rx # <<>> /\ ~Taken /\ ~Taken'
  BY <1>1 DEF Snapshot, Taken
<1> HIDE DEF e
<1>3. CASE p \in {"detached", "reset", "idle"} /\ Ended
  <2>1. Left(<<>>)'
    BY <1>1, <1>2, <1>3, PopLeft DEF Ended, e
  <2>2. QED
    BY <1>2, <1>3, <2>1 DEF Device, Ended
<1>4. CASE Begun(p) /\ SetupWaits /\ rx # Tail2
  <2>1. Left(Tail2)' /\ UNCHANGED <<udc, recv>>
    BY <1>1, <1>2, <1>4, PopLeft DEF SetupWaits, e
  <2>2. SetupWaits'
    BY <1>1, <1>2, <1>4, <2>1 DEF SetupWaits, Unserved
  <2>3. QED
    BY <1>1, <1>4, <2>2 DEF Device, Begun
<1>5. CASE Begun(p) /\ SetupWaits /\ rx = Tail2
  <2>1. SetupRead'
    BY <1>1, <1>5, PopSetup DEF e
  <2>2. QED
    BY <1>1, <1>5, <2>1 DEF Device, Begun
<1>6. CASE Begun(p) /\ SetupRead
  <2>1. NoneLeft(Tail1) /\ ~in.msk /\ AtRest /\ ~out.stup /\ Unserved /\ udc = cmd
    BY <1>1, <1>6 DEF SetupRead, Left
  <2>2. e = SetupDone /\ rx' = <<>>
    BY <1>1, <2>1, Shapes DEF NoneLeft, Popped, e
  <2>3. recv' = recv /\ udc' = udc
    BY <1>1, <2>2, Kind DEF Popped
  <2>4. out'.stup /\ ~out'.xfrc /\ out'.ena = out.ena
    BY <1>1, <2>1, <2>2, PoppedOut, Kind DEF NoneLeft
  <2>5. SetupServed'
    BY <1>1, <1>2, <2>1, <2>2, <2>3, <2>4 DEF SetupServed, Unserved, AtRest, NoneLeft
  <2>6. QED
    BY <1>1, <1>6, <2>5 DEF Device, Begun
<1>7. CASE DataSent(p)
  <2>1. cmd.req.wLength \in Nat
    BY CommandTyped DEF TypeOK
  <2>2. CASE ~out.xfrc /\ recv = 0 /\ rx = <<Data(cmd.req.wLength), DataDone>>
    <3>1. e = Data(cmd.req.wLength) /\ rx' = <<DataDone>>
      BY <1>1, <2>2 DEF Popped, e
    <3>2. e.is = "data" /\ e.n = cmd.req.wLength
      BY <3>1, Kind
    <3>3. recv' = cmd.req.wLength
      BY <1>1, <2>1, <2>2, <3>2 DEF Popped
    <3>4. (out'.xfrc <=> out.xfrc) /\ (out'.stup <=> out.stup)
      BY <1>1, <3>2, PoppedOut
    <3>5. DataSent(p)'
      BY <1>1, <1>2, <1>7, <2>2, <3>1, <3>3, <3>4, PoppedOut DEF DataSent, ForData
    <3>6. QED
      BY <3>5 DEF Device
  <2>3. CASE ~out.xfrc /\ recv = cmd.req.wLength /\ rx = <<DataDone>>
    <3>1. e = DataDone /\ rx' = <<>>
      BY <1>1, <2>3 DEF Popped, e
    <3>2. recv' = recv /\ out'.xfrc /\ (out'.stup <=> out.stup)
      BY <1>1, <3>1, Kind, PoppedOut DEF Popped
    <3>3. DataSent(p)'
      BY <1>1, <1>2, <1>7, <2>3, <3>1, <3>2, PoppedOut DEF DataSent, ForData
    <3>4. QED
      BY <3>3 DEF Device
  <2>4. QED
    BY <1>2, <1>7, <2>2, <2>3 DEF DataSent
<1>8. CASE ~(p \in {"detached", "reset", "idle"} /\ Ended) /\ ~DataSent(p) /\ ~Begun(p)
  BY <1>2, <1>8 DEF Device, Refused, PacketArmed, PacketRead, Answering, Served,
     StatusOutArmed, DataAwaited, StatusInArmed
<1>9. CASE Begun(p) /\ SetupServed
  BY <1>2, <1>9 DEF SetupServed, NoneLeft
<1>10. QED
  BY <1>3, <1>4, <1>5, <1>6, <1>7, <1>8, <1>9 DEF Begun

LEMMA SkipOut ==
    ASSUME TypeOK, NEW p, Device(p), ServeOut, ~gint.out
    PROVE  Device(p)'
<1>1. UNCHANGED About /\ pc = "out" /\ pc' = "setup" /\ epint' = FALSE /\ UNCHANGED gint
  BY DEF ServeOut, About, epVars, hostVars
<1>2. Taken' <=> Taken
  BY <1>1 DEF Taken
<1>3. SetupRead => SetupRead'
  BY <1>1, <1>2, LeftStays DEF SetupRead, About, Unserved, NoneLeft
<1>4. QED
  BY <1>1, <1>2, <1>3, Stays

\* A completion that is not one of the data of a request: of a status, or of
\* a SETUP.
LEMMA OutLeft ==
    ASSUME TypeOK, NEW rest, Left(rest) \/ (AtRest /\ NoneLeft(rest)),
           ServeOut, gint.out
    PROVE  /\ UNCHANGED <<core, in, address, bulk, calls, ok>>
           /\ out'.xfer = out.xfer /\ ~out'.xfrc /\ ~out'.stup /\ out'.ena = out.ena
           /\ epint' = out.stup
<1>1. DOMAIN out = {"ena", "siz", "xfrc", "stup", "xfer"}
  BY DEF TypeOK
<1>2. out.xfrc => out.xfer = 0
  BY DEF Left, NoneLeft, StatusInLeft, StatusOutLeft
<1>3. CASE ~out.xfrc
  BY <1>1, <1>3 DEF ServeOut, Acknowledge
<1>4. CASE out.xfrc
  BY <1>1, <1>2, <1>4 DEF ServeOut, Acknowledge, ReadSetup
<1>5. QED
  BY <1>3, <1>4

\* The data of a request are complete: it is handled.
LEMMA OutHandled ==
    ASSUME TypeOK, NEW p, DataSent(p), out.xfrc, ServeOut, gint.out
    PROVE  Refused(p)' \/ StatusInArmed(p)'
<1> DEFINE r == cmd.req
           o == [Acknowledge(out) EXCEPT !.xfer = 0]
           next == [core EXCEPT !.buf.off = @ + out.xfer, !.residue = 0]
<1>1. /\ r.wLength \in Nat /\ r.wLength > 0 /\ out.xfer = r.wLength /\ out.siz = 0
      /\ core.residue = r.wLength /\ core.setup = cmd /\ IsOut(r) /\ calls = 0
      /\ p = "statusIn" /\ ~core.zlp /\ rx = <<>> /\ ~out.ena /\ ~out.stup
  BY CommandTyped DEF DataSent, ForData, TypeOK
<1>2. out.xfer - out.siz # 0 /\ out.xfer # 0 /\ core.residue - (out.xfer - out.siz) = 0
      /\ out.xfer - out.siz = out.xfer
  BY <1>1
<1>3. OutComplete(o, out.xfer)
  BY <1>2 DEF ServeOut
<1>4. /\ Handle(r) /\ out' = o
      /\ core' = [next EXCEPT !.buf.off = 0, !.configuration = Configuration(r)]
      /\ in' = IF Accepts(r) THEN StartWrite(in, core.buf, 0) ELSE Stall(in)
  BY <1>1, <1>2, <1>3 DEF OutComplete
<1>5. /\ core'.setup = cmd /\ core'.residue = 0 /\ core'.zlp = core.zlp
      /\ calls' = 1 /\ (ok' <=> Accepts(r))
  BY <1>1, <1>4 DEF TypeOK, Handle, Least
<1>6. ~out'.ena /\ ~out'.xfrc /\ ~out'.stup
  BY <1>1, <1>4 DEF TypeOK, Acknowledge
<1>7. UNCHANGED <<cmd, rx>> /\ pc' = "setup" /\ epint' = out.stup
  BY DEF ServeOut, hostVars
<1>8. ~Taken' /\ Served'
  BY <1>1, <1>6, <1>7 DEF Taken, Served
<1>9. CASE Accepts(r)
  <2>1. Least(0, MPS) = 0
    BY SizesAssumption DEF Least
  <2>2. in' = [in EXCEPT !.buf = core.buf, !.xfer = 0, !.actual = 0, !.siz = 0,
                         !.ena = TRUE, !.msk = @ \/ 0 > 0]
    BY <1>4, <1>9, <2>1, Zenon DEF StartWrite
  <2>3. /\ in'.ena /\ in'.siz = 0 /\ in'.xfer = 0 /\ (in'.msk <=> in.msk)
        /\ (in'.xfrc <=> in.xfrc) /\ in'.fifo = in.fifo /\ (in'.stall <=> in.stall)
    BY <2>2 DEF TypeOK
  <2>4. ~in.msk /\ ~in.xfrc /\ in.fifo.n = 0 /\ ~in.stall
    BY DEF DataSent, ForData
  <2>5. ok' /\ ~IsIn(r)
    BY <1>1, <1>5, <1>9 DEF IsIn, IsOut
  <2>6. StatusInArmed(p)'
    BY <1>1, <1>5, <1>6, <1>7, <1>8, <2>3, <2>4, <2>5 DEF StatusInArmed
  <2>7. QED
    BY <2>6
<1>10. CASE ~Accepts(r)
  <2>1. in' = [in EXCEPT !.stall = TRUE]
    BY <1>4, <1>10 DEF Stall
  <2>2. in'.stall /\ in'.ena = in.ena /\ in'.fifo = in.fifo /\ in'.xfrc = in.xfrc
        /\ in'.msk = in.msk
    BY <2>1 DEF TypeOK
  <2>3. Refused(p)'
    BY <1>1, <1>5, <1>6, <1>7, <1>8, <1>10, <2>2
       DEF Refused, AtRest, NoneLeft, DataSent, ForData
  <2>4. QED
    BY <2>3
<1>11. QED
  BY <1>9, <1>10

LEMMA OutKeeps ==
    ASSUME TypeOK, Snapshot, NEW p, Device(p), ServeOut, gint.out
    PROVE  Device(p)'
<1>1. /\ pc = "out" /\ pc' = "setup" /\ (out.xfrc \/ out.stup)
      /\ UNCHANGED <<udc, rx, gint, cmd, got, recv>>
  BY DEF ServeOut, Snapshot, hostVars
<1>2. ~Taken
  BY <1>1 DEF Taken
<1>3. ASSUME NEW rest, Left(rest)
      PROVE  Left(rest)' /\ ~Taken' /\ UNCHANGED <<core, in, calls>> /\ ~out'.xfrc
             /\ (StatusOutLeft(rest) /\ out.xfrc => NoneLeft(rest)')
             /\ (NoneLeft(rest) => NoneLeft(rest)')
  <2>1. /\ UNCHANGED <<core, in, calls>> /\ out'.xfer = out.xfer
        /\ ~out'.xfrc /\ ~out'.stup /\ out'.ena = out.ena /\ epint' = out.stup
    BY <1>3, OutLeft
  <2>2. ~out.stup
    BY <1>3 DEF Left
  <2>3. NoneLeft(rest) => NoneLeft(rest)'
    BY <1>1, <2>1 DEF NoneLeft
  <2>4. StatusInLeft(rest) => StatusInLeft(rest)'
    BY <1>1, <2>1 DEF StatusInLeft
  <2>5. StatusOutLeft(rest) /\ out.xfrc => NoneLeft(rest)'
    BY <1>1, <2>1 DEF NoneLeft, StatusOutLeft
  <2>6. AtRest' /\ NothingToWrite'
    BY <1>3, <2>1 DEF Left, AtRest, NothingToWrite
  <2>7. Left(rest)'
    BY <1>1, <1>3, <2>1, <2>2, <2>3, <2>4, <2>5, <2>6 DEF Left
  <2>8. QED
    BY <2>1, <2>2, <2>3, <2>5, <2>7 DEF Taken
<1>4. CASE p \in {"detached", "reset", "idle"} /\ Ended
  BY <1>3, <1>4 DEF Device, Ended
<1>5. CASE Begun(p) /\ SetupWaits
  <2>1. SetupWaits'
    BY <1>1, <1>3, <1>5 DEF SetupWaits, Unserved
  <2>2. QED
    BY <1>1, <1>5, <2>1 DEF Device, Begun
<1>6. CASE Begun(p) /\ SetupRead
  <2>1. Left(Tail1)' /\ ~Taken' /\ UNCHANGED <<core, in, calls>> /\ ~out'.xfrc
    BY <1>3, <1>6 DEF SetupRead
  <2>2. NoneLeft(Tail1)'
    <3>1. out.xfrc
      BY <1>1, <1>6 DEF SetupRead, Left
    <3>2. StatusOutLeft(Tail1)
      BY <1>6, <3>1 DEF SetupRead, Left, NoneLeft, StatusInLeft
    <3>3. QED
      BY <1>3, <1>6, <3>1, <3>2 DEF SetupRead
  <2>3. in'.msk => pc' = "setup" /\ gint'.in
    BY <1>1, <1>6, <2>1 DEF SetupRead
  <2>4. SetupRead'
    BY <1>1, <1>6, <2>1, <2>2, <2>3 DEF SetupRead, Unserved
  <2>5. QED
    BY <1>1, <1>6, <2>4 DEF Device, Begun
<1>7. CASE Begun(p) /\ SetupServed
  <2>1. /\ UNCHANGED <<core, in, calls>> /\ ~out'.xfrc /\ ~out'.stup
        /\ out'.ena = out.ena /\ epint' = out.stup
    BY <1>7, OutLeft DEF SetupServed
  <2>2. out.stup
    BY <1>1, <1>7 DEF SetupServed, NoneLeft
  <2>3. Taken'
    BY <1>1, <2>1, <2>2 DEF Taken
  <2>4. SetupServed'
    BY <1>1, <1>7, <2>1, <2>3 DEF SetupServed, Unserved, AtRest, NoneLeft
  <2>5. QED
    BY <1>1, <1>7, <2>4 DEF Device, Begun
<1>8. CASE DataSent(p)
  <2>1. out.xfrc
    BY <1>1, <1>8 DEF DataSent, ForData
  <2>2. QED
    BY <1>8, <2>1, OutHandled DEF Device
<1>9. CASE Refused(p) \/ PacketArmed(p) \/ PacketRead(p) \/ StatusOutArmed(p)
           \/ DataAwaited(p) \/ StatusInArmed(p)
  BY <1>1, <1>9 DEF Refused, PacketArmed, PacketRead, Answering, Served, NoneLeft,
     StatusOutArmed, DataAwaited, ForData, StatusInArmed
<1>10. QED
  BY <1>4, <1>5, <1>6, <1>7, <1>8, <1>9 DEF Device, Begun

LEMMA SkipSetup ==
    ASSUME NEW p, Device(p), ServeSetup, ~epint
    PROVE  Device(p)'
<1>1. UNCHANGED About /\ pc = "setup" /\ pc' = "in" /\ UNCHANGED <<gint, epint>>
  BY DEF ServeSetup, About, epVars, hostVars
<1>2. Taken' <=> Taken
  BY <1>1 DEF Taken
<1>3. SetupRead => SetupRead'
  BY <1>1, <1>2, LeftStays DEF SetupRead, About, Unserved, NoneLeft
<1>4. QED
  BY <1>1, <1>2, <1>3, Stays

\* What a request finds when it is served, and what it leaves alone.
LEMMA AtSetup ==
    ASSUME TypeOK, NEW p, Device(p), ServeSetup, epint
    PROVE  /\ SetupComplete /\ udc = cmd /\ rx' = <<>>
           /\ UNCHANGED <<udc, rx, cmd, got, recv>> /\ ~Taken'
           /\ calls = 0 /\ got = 0 /\ recv = 0 /\ ~in.stall
           /\ ~in.ena /\ ~out.ena /\ in.fifo.n = 0 /\ ~in.xfrc /\ ~out.xfrc
           /\ ~in.msk /\ ~out.stup
           /\ p = IF IsIn(cmd.req) THEN "in" ELSE IF IsOut(cmd.req) THEN "out" ELSE "statusIn"
<1>1. Taken /\ SetupComplete /\ UNCHANGED <<udc, rx, cmd, got, recv>> /\ pc' = "in"
  BY DEF ServeSetup, Taken, hostVars
<1>2. Begun(p) /\ SetupServed
  BY <1>1, TakenIsSetup
<1>3. QED
  BY <1>1, <1>2 DEF Taken, Begun, SetupServed, Unserved, AtRest, NoneLeft

LEMMA SetupForData ==
    ASSUME TypeOK, NEW p, Device(p), ServeSetup, epint, IsOut(cmd.req)
    PROVE  DataAwaited(p)'
<1> DEFINE w == cmd.req.wLength
<1>1. w \in Nat /\ 0 < w /\ w <= MPS /\ ~IsIn(cmd.req)
  BY CommandTyped DEF TypeOK, IsIn, IsOut
<1>2. Least(w, MPS) = w /\ w # 0
  BY <1>1, SizesAssumption DEF Least
<1>3. /\ core' = [core EXCEPT !.setup = cmd, !.buf = [tag |-> cmd.tag, off |-> 0],
                              !.residue = w, !.len = w, !.zlp = FALSE]
      /\ out' = StartRead(out, w) /\ in' = ReadSpoilsIn(in, w)
      /\ UNCHANGED <<address, bulk, calls, ok>>
  BY AtSetup DEF SetupComplete
<1>4. core'.setup = cmd /\ core'.residue = w /\ ~core'.zlp
  BY <1>3 DEF TypeOK
<1>5. /\ out'.ena /\ out'.siz = w /\ out'.xfer = w /\ out'.xfrc = out.xfrc
      /\ out'.stup = out.stup
  BY <1>2, <1>3 DEF TypeOK, StartRead
<1>6. /\ in'.ena = in.ena /\ in'.fifo = in.fifo /\ in'.xfrc = in.xfrc
      /\ in'.msk = in.msk /\ in'.stall = in.stall
  BY <1>2, <1>3 DEF TypeOK, ReadSpoilsIn
<1>7. QED
  BY <1>1, <1>3, <1>4, <1>5, <1>6, AtSetup DEF DataAwaited, ForData

\* The answer is armed, its first packet still to be written.
LEMMA SetupAnswers ==
    ASSUME TypeOK, NEW p, Device(p), ServeSetup, epint, cmd.req.kind = "get"
    PROVE  PacketArmed(p)'
<1> DEFINE r == udc.req
           n == Least(r.len, r.wLength)
           m == IF r.kind = "get" THEN n ELSE 0
           at == [tag |-> udc.tag, off |-> 0]
           new == [core EXCEPT !.setup = udc, !.buf = at, !.residue = r.wLength,
                               !.len = r.wLength, !.zlp = FALSE]
<1>0. udc = cmd /\ SetupComplete
  BY AtSetup
<1>1. r.wLength \in Nat /\ 0 < r.wLength /\ r.len \in Nat /\ 0 < r.len
      /\ IsIn(r) /\ ~IsOut(r) /\ Accepts(r)
  BY <1>0, CommandTyped DEF TypeOK, IsIn, IsOut, Accepts, ToDevice
<1>2. n \in Nat /\ 0 < n /\ Least(n, MPS) \in Nat /\ 0 < Least(n, MPS)
  BY <1>1, SizesAssumption DEF Least
<1>3. /\ Handle(r) /\ UNCHANGED out /\ in' = StartWrite(in, at, n)
      /\ core' = [new EXCEPT !.residue = m, !.len = r.len,
                             !.zlp = r.kind = "get" /\ NeedsZlp(r),
                             !.configuration = Configuration(r)]
  <2>1. /\ Handle(r) /\ UNCHANGED out /\ in' = StartWrite(in, new.buf, m)
        /\ core' = [new EXCEPT !.residue = m, !.len = r.len,
                               !.zlp = r.kind = "get" /\ NeedsZlp(r),
                               !.configuration = Configuration(r)]
    BY <1>0, <1>1, Zenon DEF SetupComplete
  <2>2. new.buf = at /\ m = n
    BY <1>0 DEF TypeOK
  <2>3. QED
    BY <2>1, <2>2, Zenon
<1>4. /\ core'.setup = udc /\ core'.buf = at /\ core'.residue = n
      /\ (core'.zlp <=> NeedsZlp(r)) /\ calls' = 1 /\ ok'
  <2>1. core'.setup = udc /\ core'.buf = at /\ core'.residue = n
    BY <1>0, <1>3 DEF TypeOK
  <2>2. core'.zlp <=> NeedsZlp(r)
    <3>1. "zlp" \in DOMAIN new
      BY DEF TypeOK
    <3>2. core'.zlp = (r.kind = "get" /\ NeedsZlp(r))
      BY <1>3, <3>1
    <3>3. QED
      BY <1>0, <3>2
  <2>3. calls' = 1 /\ ok'
    BY <1>0, <1>1, <1>3, AtSetup DEF Handle, Least
  <2>4. QED
    BY <2>1, <2>2, <2>3
<1>5. /\ in'.ena /\ in'.buf = at /\ in'.xfer = Least(n, MPS) /\ in'.siz = Least(n, MPS)
      /\ in'.actual = 0 /\ in'.msk /\ in'.fifo = in.fifo /\ in'.xfrc = in.xfrc
      /\ in'.stall = in.stall
  BY <1>2, <1>3 DEF TypeOK, StartWrite
<1>6. Answer' = n /\ Before' = 0 /\ 0 % MPS = 0
  BY <1>0, <1>4, AtSetup, SizesAssumption DEF Answer, Before
<1>7. p = "in" /\ Served'
  BY <1>0, <1>1, <1>3, AtSetup DEF Served
<1>8. Answering(p)'
  BY <1>0, <1>2, <1>3, <1>4, <1>5, <1>6, <1>7, AtSetup DEF Answering
<1>9. QED
  BY <1>0, <1>2, <1>4, <1>5, <1>6, <1>7, <1>8, AtSetup DEF PacketArmed

\* A request without data is acknowledged.
LEMMA SetupAcknowledges ==
    ASSUME TypeOK, NEW p, Device(p), ServeSetup, epint,
           ~IsOut(cmd.req), cmd.req.kind # "get", Accepts(cmd.req)
    PROVE  StatusInArmed(p)'
<1> DEFINE r == udc.req
           n == Least(r.len, r.wLength)
           m == IF r.kind = "get" THEN n ELSE 0
           new == [core EXCEPT !.setup = udc, !.buf = [tag |-> udc.tag, off |-> 0],
                               !.residue = r.wLength, !.len = r.wLength, !.zlp = FALSE]
<1>1. /\ udc = cmd /\ SetupComplete /\ m = 0 /\ ~IsIn(r) /\ ~IsOut(r) /\ Accepts(r)
      /\ r.kind # "get"
  BY AtSetup DEF Accepts, ToDevice, IsIn
<1>2. /\ Handle(r) /\ UNCHANGED out /\ in' = StartWrite(in, new.buf, m)
      /\ core' = [new EXCEPT !.residue = m, !.len = r.len,
                             !.zlp = r.kind = "get" /\ NeedsZlp(r),
                             !.configuration = Configuration(r)]
  BY <1>1, Zenon DEF SetupComplete
<1>3. core'.setup = udc /\ core'.residue = 0
  BY <1>1, <1>2 DEF TypeOK
<1>4. ~core'.zlp
  <2>1. "zlp" \in DOMAIN new
    BY DEF TypeOK
  <2>2. core'.zlp = (r.kind = "get" /\ NeedsZlp(r))
    BY <1>2, <2>1
  <2>3. QED
    BY <1>1, <2>2
<1>5. calls' = 1 /\ ok'
  BY <1>1, <1>2, AtSetup DEF Handle, Least
<1>6. /\ in'.ena /\ in'.siz = 0 /\ in'.xfer = 0 /\ in'.fifo = in.fifo
      /\ in'.xfrc = in.xfrc /\ in'.stall = in.stall /\ (in'.msk <=> in.msk)
  <2>1. Least(0, MPS) = 0
    BY SizesAssumption DEF Least
  <2>2. in' = [in EXCEPT !.buf = new.buf, !.xfer = 0, !.actual = 0, !.siz = 0,
                         !.ena = TRUE, !.msk = @ \/ 0 > 0]
    BY <1>1, <1>2, <2>1, Zenon DEF StartWrite
  <2>3. QED
    BY <2>2 DEF TypeOK
<1>7. p = "statusIn" /\ Served'
  BY <1>1, <1>2, AtSetup DEF Served
<1>8. QED
  BY <1>1, <1>2, <1>3, <1>4, <1>5, <1>6, <1>7, AtSetup DEF StatusInArmed

LEMMA SetupRefuses ==
    ASSUME TypeOK, NEW p, Device(p), ServeSetup, epint,
           ~IsOut(cmd.req), ~Accepts(cmd.req)
    PROVE  Refused(p)'
<1>1. Handle(cmd.req) /\ UNCHANGED out /\ in' = Stall(in)
  BY AtSetup DEF SetupComplete
<1>2. calls' = 1 /\ ~ok'
  BY <1>1, AtSetup DEF Handle, Least
<1>3. /\ in'.stall /\ in'.ena = in.ena /\ in'.fifo = in.fifo /\ in'.xfrc = in.xfrc
      /\ in'.msk = in.msk
  BY <1>1 DEF TypeOK, Stall
<1>4. p \in {"in", "statusIn"} /\ Served' /\ rx' = <<>>
  BY <1>1, AtSetup DEF Served
<1>5. QED
  BY <1>1, <1>2, <1>3, <1>4, AtSetup DEF Refused, AtRest, NoneLeft

LEMMA SetupKeeps ==
    ASSUME TypeOK, NEW p, Device(p), ServeSetup
    PROVE  Device(p)'
<1>1. CASE ~epint
  BY <1>1, SkipSetup
<1>2. CASE epint
  BY <1>2, SetupForData, SetupAnswers, SetupAcknowledges, SetupRefuses DEF Device
<1>3. QED
  BY <1>1, <1>2

LEMMA SkipIn ==
    ASSUME TypeOK, NEW p, Device(p), ServeIn, ~(gint.in /\ in.xfrc)
    PROVE  Device(p)'
<1>1. /\ UNCHANGED About /\ pc = "in" /\ pc' = "fifo" /\ epint' = (gint.in /\ TxEmpty)
      /\ UNCHANGED gint
  BY DEF ServeIn, About, hostVars, histVars
<1>2. Taken' <=> Taken
  BY <1>1 DEF Taken
<1>3. SetupRead => SetupRead'
  <2>1. SUFFICES ASSUME SetupRead
                 PROVE  SetupRead'
    OBVIOUS
  <2>2. NoneLeft(Tail1) /\ (in.msk => gint.in) /\ in.fifo.n = 0
    BY <1>1, <2>1 DEF SetupRead, Left, AtRest, StatusInLeft
  <2>3. in.msk => epint'
    <3>1. in.msk => gint.in /\ TxEmpty
      BY <2>2 DEF TxEmpty
    <3>2. QED
      BY <1>1, <3>1, Zenon
  <2>4. QED
    BY <1>1, <1>2, <2>1, <2>2, <2>3, LeftStays
       DEF SetupRead, About, Unserved, NoneLeft
<1>4. QED
  BY <1>1, <1>2, <1>3, Stays

\* A completion of the IN endpoint: what it was and what is done next.
Completed(n, left) ==
    /\ core' = [core EXCEPT !.buf.off = @ + n, !.residue = left,
                            !.zlp = @ /\ left # 0]
    /\ in' = InNext([in EXCEPT !.xfrc = FALSE, !.actual = n, !.xfer = 0], left, core')
    /\ out' = AfterStatus(OutNext(left))

LEMMA InCompletes ==
    ASSUME ServeIn, gint.in, in.xfrc,
           NEW n, n = in.xfer - in.siz, NEW left, left = core.residue - n
    PROVE  /\ Completed(n, left) /\ pc = "in" /\ pc' = "fifo"
           /\ epint' = (gint.in /\ TxEmpty)
           /\ UNCHANGED <<udc, rx, gint, cmd, got, calls, ok, recv>>
<1>1. core' = [core EXCEPT !.buf.off = @ + n, !.residue = left,
                           !.zlp = @ /\ left # 0]
  BY DEF ServeIn
<1>2. /\ in' = InNext([in EXCEPT !.xfrc = FALSE, !.actual = n, !.xfer = 0], left, core')
      /\ out' = AfterStatus(OutNext(left))
  BY DEF ServeIn
<1>3. QED
  BY <1>1, <1>2, Zenon DEF ServeIn, Completed, hostVars, histVars

LEMMA CompletedCore ==
    ASSUME TypeOK, NEW n \in Int, NEW left \in Int, Completed(n, left)
    PROVE  /\ core'.buf = [core.buf EXCEPT !.off = @ + n]
           /\ core'.buf.off = core.buf.off + n /\ core'.buf.tag = core.buf.tag
           /\ core'.residue = left /\ core'.setup = core.setup
           /\ core'.zlp <=> core.zlp /\ left # 0
           /\ core'.configuration = core.configuration
BY DEF Completed, TypeOK, Where

\* A room for SETUP packets changes nothing the situation is about.
LEMMA AfterStatusOut ==
    ASSUME NEW o, DOMAIN o = {"ena", "siz", "xfrc", "stup", "xfer"}
    PROVE  LET a == AfterStatus(o)
           IN a.ena = o.ena /\ a.xfrc = o.xfrc /\ a.stup = o.stup /\ a.xfer = o.xfer
BY DEF AfterStatus, ReadSetup

\* The end of a status from the device, which may be of the transfer before.
LEMMA InLeft ==
    ASSUME TypeOK, NEW rest, Left(rest), ServeIn, gint.in, in.xfrc
    PROVE  /\ Left(rest)' /\ NoneLeft(rest)' /\ ~Taken'
           /\ in'.msk = in.msk /\ in'.stall = in.stall /\ in'.fifo = in.fifo
<1>1. StatusInLeft(rest) /\ AtRest /\ ~out.stup
  BY DEF Left, NoneLeft, StatusOutLeft
<1>2. in.xfer - in.siz = 0 /\ core.residue - 0 = 0 /\ ~core.zlp
  BY <1>1 DEF StatusInLeft
<1>3. /\ Completed(0, 0) /\ pc' = "fifo" /\ UNCHANGED rx
  BY <1>2, InCompletes
<1>4. in' = [in EXCEPT !.xfrc = FALSE, !.actual = 0, !.xfer = 0]
  BY <1>2, <1>3 DEF Completed, InNext
<1>5. /\ ~in'.xfrc /\ in'.actual = 0 /\ in'.xfer = 0 /\ in'.ena = in.ena
      /\ in'.fifo = in.fifo /\ in'.msk = in.msk /\ in'.stall = in.stall
  BY <1>4 DEF TypeOK
<1>6. out' = AfterStatus(out)
  BY <1>1, <1>3 DEF Completed, OutNext, StatusInLeft
<1>7. DOMAIN out = {"ena", "siz", "xfrc", "stup", "xfer"}
  BY DEF TypeOK
<1>8. out'.ena = out.ena /\ out'.xfrc = out.xfrc /\ out'.stup = out.stup
  BY <1>6, <1>7 DEF AfterStatus, ReadSetup
<1>9. NoneLeft(rest)'
  BY <1>1, <1>3, <1>5, <1>8 DEF NoneLeft, StatusInLeft
<1>10. AtRest' /\ NothingToWrite' /\ ~out'.stup
  BY <1>1, <1>5, <1>8 DEF AtRest, NothingToWrite
<1>11. QED
  BY <1>3, <1>5, <1>9, <1>10 DEF Left, Taken

\* A packet of the answer has been read: the next one is armed, or one of no
\* length that ends the answer, or the status of the host is awaited.
LEMMA InAnswers ==
    ASSUME TypeOK, NEW p, PacketRead(p), ServeIn, gint.in, in.xfrc
    PROVE  PacketArmed(p)' \/ StatusOutArmed(p)'
<1> DEFINE n == in.xfer
           left == core.residue - n
           r == cmd.req
           i == [in EXCEPT !.xfrc = FALSE, !.actual = n, !.xfer = 0]
<1>1. /\ Answering(p) /\ ~in.ena /\ got = Before + n /\ in.siz = 0 /\ ~in.msk
      /\ in.fifo.n = 0 /\ (p = "statusOut" <=> n < MPS \/ got >= r.wLength)
      /\ rx = <<>> /\ ~out.stup /\ ~Taken /\ r.kind = "get" /\ calls = 1 /\ ok /\ ~in.stall
      /\ ~out.ena /\ ~out.xfrc
      /\ core.setup = cmd /\ core.buf.tag = cmd.tag /\ p \in {"in", "statusOut"}
  BY DEF PacketRead, Answering, Served
<1>2. /\ Before <= Answer /\ Before % MPS = 0 /\ core.residue = Answer - Before
      /\ (core.zlp <=> NeedsZlp(r) /\ Before < Answer)
      /\ (Before = Answer => NeedsZlp(r))
      /\ n = Least(Answer - Before, MPS)
  BY <1>1 DEF Answering
<1>3. /\ Before \in Nat /\ Answer \in Nat /\ n \in Nat /\ r.wLength \in Nat
      /\ r.len \in Nat /\ r.wLength > 0 /\ MPS \in Nat /\ MPS > 0
      /\ Answer = Least(r.len, r.wLength)
  BY <1>1, CommandTyped, SizesAssumption DEF TypeOK, Where, Before, Answer, Least
<1>4. left \in Int /\ left = Answer - Before - n /\ left >= 0
  BY <1>2, <1>3 DEF Least
<1>5. /\ Completed(n, left) /\ pc' = "fifo" /\ UNCHANGED <<rx, cmd, got, calls, ok, udc>>
  <2>1. n = in.xfer - in.siz
    BY <1>1, <1>3
  <2>2. QED
    BY <2>1, InCompletes
<1>6. /\ core'.buf = [core.buf EXCEPT !.off = @ + n] /\ Before' = Before + n
      /\ core'.buf.tag = core.buf.tag
      /\ core'.residue = left /\ core'.setup = core.setup
      /\ (core'.zlp <=> core.zlp /\ left # 0)
  BY <1>3, <1>4, <1>5, CompletedCore DEF Before
<1>7. Answer' = Answer /\ ~Taken'
  BY <1>5 DEF Answer, Taken
<1>8. DOMAIN out = {"ena", "siz", "xfrc", "stup", "xfer"}
  BY DEF TypeOK
<1>9. CASE left # 0
  <2>1. n = MPS /\ Before + MPS < Answer /\ Before < Answer
    BY <1>2, <1>3, <1>4, <1>9 DEF Least
  <2>2. (Before + MPS) % MPS = 0
    BY <1>2, <1>3, SizesAssumption, NextPart
  <2>3. p = "in"
    BY <1>1, <1>3, <2>1 DEF Least
  <2>4. in' = StartWrite(i, core'.buf, left) /\ out' = AfterStatus(out)
    BY <1>5, <1>9 DEF Completed, InNext, OutNext
  <2>5. left > 0 /\ Least(left, MPS) > 0 /\ Least(left, MPS) \in Nat
    BY <1>3, <1>4, <1>9 DEF Least
  <2>6. /\ in'.ena /\ ~in'.xfrc /\ in'.siz = Least(left, MPS) /\ in'.xfer = Least(left, MPS)
        /\ in'.actual = 0 /\ in'.msk /\ in'.fifo = in.fifo /\ in'.buf = core'.buf
        /\ in'.stall = in.stall
    BY <2>4, <2>5 DEF StartWrite, TypeOK
  <2>7. ~out'.ena /\ ~out'.xfrc /\ ~out'.stup
    BY <1>1, <1>8, <2>4 DEF AfterStatus, ReadSetup
  <2>8. core'.zlp <=> NeedsZlp(r) /\ Before' < Answer
    BY <1>2, <1>3, <1>6, <1>9, <2>1
  <2>9. left = Answer - (Before + n) /\ Before + n # Answer
    BY <1>3, <1>4, <1>9
  <2>10. Answering(p)'
    BY <1>1, <1>5, <1>6, <1>7, <2>1, <2>2, <2>3, <2>6, <2>7, <2>8, <2>9, <1>3
       DEF Answering, Served
  <2>11. QED
    BY <1>1, <1>5, <1>6, <2>3, <2>5, <2>6, <2>10 DEF PacketArmed
<1>10. CASE left = 0 /\ core.zlp
  <2>1. NeedsZlp(r) /\ Before < Answer /\ Answer = r.len /\ Answer < r.wLength
        /\ Answer % MPS = 0 /\ n = Answer - Before
    BY <1>2, <1>3, <1>4, <1>10 DEF NeedsZlp, Least
  <2>2. Answer - Before >= MPS
    BY <1>2, <1>3, <2>1, SizesAssumption, NoneBetween
  <2>3. p = "in"
    BY <1>1, <1>2, <1>3, <2>1, <2>2 DEF Least
  <2>4. in' = StartWrite(i, core'.buf, 0) /\ out' = AfterStatus(out)
    BY <1>5, <1>10 DEF Completed, InNext, OutNext
  <2>5. Least(0, MPS) = 0
    BY <1>3 DEF Least
  <2>6. in' = [i EXCEPT !.buf = core'.buf, !.xfer = 0, !.actual = 0, !.siz = 0,
                        !.ena = TRUE, !.msk = @ \/ 0 > 0]
    BY <2>4, <2>5, Zenon DEF StartWrite
  <2>7. /\ in'.ena /\ ~in'.xfrc /\ in'.siz = 0 /\ in'.xfer = 0
        /\ ~in'.msk /\ in'.fifo = in.fifo /\ in'.stall = in.stall
    BY <1>1, <2>6 DEF TypeOK
  <2>8. ~out'.ena /\ ~out'.xfrc /\ ~out'.stup
    BY <1>1, <1>8, <2>4 DEF AfterStatus, ReadSetup
  <2>9. Before' = Answer /\ ~core'.zlp /\ core'.residue = Answer - Answer
    BY <1>3, <1>6, <1>10, <2>1
  <2>10. Least(Answer - Answer, MPS) = 0 /\ Answer <= Answer /\ ~(Answer < Answer)
    BY <1>3 DEF Least
  <2>11. Answering(p)'
    BY <1>1, <1>5, <1>6, <1>7, <2>1, <2>3, <2>7, <2>8, <2>9, <2>10
       DEF Answering, Served
  <2>12. QED
    BY <1>1, <1>3, <1>5, <2>1, <2>3, <2>7, <2>9, <2>11 DEF PacketArmed
<1>11. CASE left = 0 /\ ~core.zlp
  <2>1. n = Answer - Before /\ got = Answer
    BY <1>1, <1>2, <1>3, <1>4, <1>11
  <2>2. p = "statusOut"
    <3>1. CASE n < MPS
      BY <1>1, <3>1
    <3>2. CASE ~(n < MPS)
      <4>1. n = MPS /\ Before < Answer /\ Answer = Before + MPS
        BY <1>2, <1>3, <2>1, <3>2 DEF Least
      <4>2. Answer % MPS = 0
        <5>1. (Before + MPS) % MPS = 0
          BY <1>2, <1>3, SizesAssumption, NextPart
        <5>2. QED
          BY <4>1, <5>1
      <4>3. Answer >= r.wLength
        <5>1. ~NeedsZlp(r)
          BY <1>2, <1>11, <4>1
        <5>2. CASE r.wLength > r.len
          <6>1. Answer = r.len
            BY <1>3, <5>2 DEF Least
          <6>2. r.len % MPS = 0
            BY <4>2, <6>1
          <6>3. QED
            BY <5>1, <5>2, <6>2 DEF NeedsZlp
        <5>3. CASE ~(r.wLength > r.len)
          BY <1>3, <5>3 DEF Least
        <5>4. QED
          BY <5>2, <5>3
      <4>4. QED
        BY <1>1, <2>1, <4>3
    <3>3. QED
      BY <3>1, <3>2
  <2>3. IsIn(r) /\ r.wLength # 0
    BY <1>1, <1>3 DEF IsIn
  <2>4. in' = i /\ out' = AfterStatus(StartRead(out, 0))
    BY <1>1, <1>5, <1>11, <2>3 DEF Completed, InNext, OutNext
  <2>5. /\ in'.ena = in.ena /\ ~in'.xfrc /\ in'.msk = in.msk /\ in'.fifo = in.fifo
        /\ in'.stall = in.stall
    BY <2>4 DEF TypeOK
  <2>6. out'.ena /\ out'.xfer = 0 /\ out'.xfrc = out.xfrc /\ out'.stup = out.stup
    BY <1>8, <2>4 DEF AfterStatus, ReadSetup, StartRead
  <2>7. StatusOutArmed(p)'
    BY <1>1, <1>5, <1>7, <2>1, <2>2, <2>5, <2>6 DEF StatusOutArmed, Served
  <2>8. QED
    BY <2>7
<1>12. QED
  BY <1>9, <1>10, <1>11

LEMMA InKeeps ==
    ASSUME TypeOK, NEW p, Device(p), ServeIn
    PROVE  Device(p)'
<1>1. CASE ~(gint.in /\ in.xfrc)
  BY <1>1, SkipIn
<1>2. CASE gint.in /\ in.xfrc
  <2>0. /\ pc = "in" /\ pc' = "fifo" /\ epint' = (gint.in /\ TxEmpty)
        /\ UNCHANGED <<udc, rx, gint, cmd, got, calls, ok, recv>>
    BY DEF ServeIn, hostVars, histVars
  <2>1. CASE p \in {"detached", "reset", "idle"} /\ Ended
    BY <1>2, <2>1, InLeft DEF Device, Ended
  <2>2. CASE Begun(p) /\ SetupWaits
    <3>1. SetupWaits'
      BY <1>2, <2>0, <2>2, InLeft DEF SetupWaits, Unserved
    <3>2. QED
      BY <2>0, <2>2, <3>1 DEF Device, Begun
  <2>3. CASE Begun(p) /\ SetupRead
    <3>1. /\ Left(Tail1)' /\ NoneLeft(Tail1)' /\ ~Taken' /\ in'.stall = in.stall
          /\ in'.msk = in.msk /\ in'.fifo = in.fifo
      BY <1>2, <2>3, InLeft DEF SetupRead
    <3>2. in'.msk => epint'
      <4>1. in.fifo.n = 0
        BY <2>3 DEF SetupRead, Left, AtRest
      <4>2. in'.msk => gint.in /\ TxEmpty
        BY <1>2, <3>1, <4>1 DEF TxEmpty
      <4>3. QED
        BY <2>0, <4>2, Zenon
    <3>3. SetupRead'
      BY <2>0, <2>3, <3>1, <3>2 DEF SetupRead, Unserved
    <3>4. QED
      BY <2>0, <2>3, <3>3 DEF Device, Begun
  <2>4. CASE PacketRead(p)
    BY <1>2, <2>4, InAnswers DEF Device
  <2>5. CASE (Begun(p) /\ SetupServed) \/ Refused(p) \/ PacketArmed(p) \/ StatusOutArmed(p)
             \/ DataAwaited(p) \/ DataSent(p) \/ StatusInArmed(p)
    BY <1>2, <2>5 DEF SetupServed, Refused, NoneLeft, PacketArmed, StatusOutArmed,
       DataAwaited, DataSent, ForData, StatusInArmed
  <2>6. QED
    BY <2>1, <2>2, <2>3, <2>4, <2>5 DEF Device, Begun
<1>3. QED
  BY <1>1, <1>2

LEMMA SkipFifo ==
    ASSUME NEW p, Device(p), FillFifo, ~epint
    PROVE  Device(p)'
<1>1. UNCHANGED About /\ pc = "fifo" /\ pc' = "reset"
  BY DEF FillFifo, About, coreVars, hostVars, histVars
<1>2. Taken' <=> Taken
  BY <1>1 DEF Taken
<1>3. SetupRead => SetupRead'
  BY <1>1, <1>2, LeftStays DEF SetupRead, About, Unserved, NoneLeft
<1>4. QED
  BY <1>1, <1>2, <1>3, Stays

\* The armed packet is written, or a mask without a packet is closed.
LEMMA FifoKeeps ==
    ASSUME TypeOK, Snapshot, NEW p, Device(p), FillFifo, epint
    PROVE  Device(p)'
<1> DEFINE n == in.xfer - in.actual
           write == n > 0 /\ in.fifo.n = 0
<1>1. /\ pc = "fifo" /\ pc' = "reset" /\ in.msk /\ in.fifo.n = 0 /\ ~Taken /\ ~Taken'
      /\ UNCHANGED <<core, udc, out, rx, cmd, got, calls, ok, recv, gint, epint>>
  BY DEF FillFifo, Snapshot, Taken, coreVars, hostVars, histVars
<1>2. in' = [in EXCEPT !.fifo = IF write THEN [at |-> in.buf, n |-> n] ELSE @,
                       !.actual = IF write THEN in.xfer ELSE @,
                       !.siz = IF write THEN 0 ELSE @,
                       !.buf.off = IF write THEN @ + n ELSE @,
                       !.msk = @ /\ n > 0 /\ ~write]
  BY DEF FillFifo
<1>3. /\ in'.ena = in.ena /\ in'.xfrc = in.xfrc /\ in'.stall = in.stall
      /\ in'.xfer = in.xfer
      /\ in'.fifo = IF write THEN [at |-> in.buf, n |-> n] ELSE in.fifo
      /\ in'.actual = IF write THEN in.xfer ELSE in.actual
      /\ in'.siz = IF write THEN 0 ELSE in.siz
  BY <1>2 DEF TypeOK
<1>4. ~in'.msk
  <2>1. in'.msk = (in.msk /\ n > 0 /\ ~write)
    BY <1>2 DEF TypeOK
  <2>2. QED
    BY <1>1, <2>1
<1>5. in.xfer \in Nat /\ in.actual \in Nat
  BY DEF TypeOK
<1>6. ASSUME NEW rest, Left(rest)
      PROVE  Left(rest)' /\ (NoneLeft(rest) => NoneLeft(rest)')
             /\ (StatusInLeft(rest) => StatusInLeft(rest)')
  <2>1. ~write
    BY <1>1, <1>5, <1>6 DEF Left, NothingToWrite
  <2>2. in'.fifo = in.fifo /\ in'.siz = in.siz /\ in'.actual = in.actual
    BY <1>3, <2>1
  <2>3. NoneLeft(rest) => NoneLeft(rest)'
    BY <1>1, <1>3 DEF NoneLeft
  <2>4. StatusInLeft(rest) => StatusInLeft(rest)'
    BY <1>1, <1>3, <2>2 DEF StatusInLeft
  <2>5. StatusOutLeft(rest) => StatusOutLeft(rest)'
    BY <1>1, <1>3 DEF StatusOutLeft
  <2>6. AtRest' /\ NothingToWrite'
    BY <1>1, <1>3, <1>4, <1>6, <2>2 DEF Left, AtRest, NothingToWrite
  <2>7. QED
    BY <1>1, <1>6, <2>3, <2>4, <2>5, <2>6 DEF Left
<1>7. CASE p \in {"detached", "reset", "idle"} /\ Ended
  BY <1>1, <1>6, <1>7 DEF Device, Ended
<1>8. CASE Begun(p) /\ SetupWaits
  <2>1. SetupWaits'
    BY <1>1, <1>3, <1>6, <1>8 DEF SetupWaits, Unserved
  <2>2. QED
    BY <1>1, <1>8, <2>1 DEF Device, Begun
<1>9. CASE Begun(p) /\ SetupRead
  <2>1. NoneLeft(Tail1)
    BY <1>1, <1>9 DEF SetupRead
  <2>2. SetupRead'
    BY <1>1, <1>3, <1>4, <1>6, <1>9, <2>1 DEF SetupRead, Unserved
  <2>3. QED
    BY <1>1, <1>9, <2>2 DEF Device, Begun
<1>10. CASE PacketArmed(p)
  <2>1. /\ in.siz = in.xfer /\ in.xfer > 0 /\ in.actual = 0 /\ in.buf = core.buf
        /\ Answering(p) /\ p = "in" /\ in.ena /\ ~in.xfrc /\ got = Before
    BY <1>1, <1>10 DEF PacketArmed
  <2>2. write /\ n = in.xfer
    BY <1>1, <1>5, <2>1
  <2>3. /\ in'.siz = 0 /\ in'.fifo.n = in'.xfer /\ in'.fifo.at = core'.buf
    BY <1>1, <1>3, <2>1, <2>2
  <2>4. Answering(p)'
    BY <1>1, <1>3, <2>1 DEF Answering, Served, Answer, Before
  <2>5. PacketArmed(p)'
    BY <1>1, <1>3, <1>4, <2>1, <2>3, <2>4 DEF PacketArmed, Before
  <2>6. QED
    BY <2>5 DEF Device
<1>11. CASE (Begun(p) /\ SetupServed) \/ Refused(p) \/ PacketRead(p) \/ StatusOutArmed(p)
            \/ DataAwaited(p) \/ DataSent(p) \/ StatusInArmed(p)
  BY <1>1, <1>11 DEF SetupServed, Refused, PacketRead, StatusOutArmed,
     DataAwaited, DataSent, ForData, StatusInArmed
<1>12. QED
  BY <1>7, <1>8, <1>9, <1>10, <1>11 DEF Device, Begun

LEMMA SkipReset ==
    ASSUME NEW p, Device(p), ServeReset, ~gint.rst
    PROVE  Device(p)'
<1>1. UNCHANGED About /\ pc = "reset" /\ pc' = "idle"
  BY DEF ServeReset, About, coreVars, epVars, hostVars, histVars
<1>2. Taken' <=> Taken
  BY <1>1 DEF Taken
<1>3. SetupRead => SetupRead'
  BY <1>1, <1>2, LeftStays DEF SetupRead, About, Unserved, NoneLeft
<1>4. QED
  BY <1>1, <1>2, <1>3, Stays

\* After a reset nothing is left, but for the mask.
LEMMA ResetEnds ==
    ASSUME ServeReset, gint.rst
    PROVE  Ended'
<1>1. /\ pc' = "idle" /\ rx' = <<>>
      /\ in' = [ena |-> FALSE, siz |-> 0, fifo |-> Empty, xfrc |-> FALSE,
                msk |-> in.msk, stall |-> FALSE, buf |-> Empty.at,
                xfer |-> 0, actual |-> 0]
      /\ out' = ReadSetup([ena |-> FALSE, siz |-> 0, xfrc |-> FALSE,
                           stup |-> FALSE, xfer |-> 0])
  BY DEF ServeReset
<1>2. /\ ~in'.ena /\ ~in'.xfrc /\ in'.xfer = 0 /\ in'.actual = 0 /\ in'.fifo.n = 0
      /\ ~out'.ena /\ ~out'.xfrc /\ ~out'.stup
  BY <1>1 DEF ReadSetup, Empty
<1>3. QED
  BY <1>1, <1>2 DEF Ended, Left, NoneLeft, AtRest, NothingToWrite, Taken

-----------------------------------------------------------------------------
(* The steps of the host keep the situation *)

\* While no reset is unnoticed, the situation is that of the phase.
LEMMA OfPhase ==
    ASSUME Situation, ~rst
    PROVE  Device(phase)
BY DEF Situation

LEMMA HandlerKeeps ==
    ASSUME TypeOK, Situation, Snapshot, Agreed, Handler
    PROVE  Situation'
<1>1. PICK p \in Phases : Device(p) /\ (phase = p \/ (phase = "reset" /\ rst))
  BY DEF Situation
<1>2. phase' = phase
  BY DEF Handler, EnterHandler, PopRx, ServeOut, ServeSetup, ServeIn, FillFifo,
     ServeReset, hostVars
<1>3. CASE ServeReset /\ gint.rst
  <2>1. pc # "idle"
    BY <1>3 DEF ServeReset
  <2>2. phase = "reset"
    BY <1>3, <2>1 DEF Snapshot, Agreed
  <2>3. Device("reset")'
    BY <1>3, ResetEnds DEF Device
  <2>4. QED
    BY <1>2, <2>2, <2>3 DEF Situation, Phases
<1>4. CASE ~(ServeReset /\ gint.rst)
  <2>1. Device(p)'
    BY <1>1, <1>4, EnterKeeps, SkipRx, PopKeeps, SkipOut, OutKeeps, SetupKeeps, InKeeps,
       SkipFifo, FifoKeeps, SkipReset DEF Handler
  <2>2. rst' = rst
    BY <1>4 DEF Handler, EnterHandler, PopRx, ServeOut, ServeSetup, ServeIn, FillFifo,
       ServeReset
  <2>3. QED
    BY <1>1, <1>2, <2>1, <2>2 DEF Situation
<1>5. QED
  BY <1>3, <1>4

LEMMA BusResetKeeps ==
    ASSUME Situation, BusReset
    PROVE  Situation'
<1>1. PICK p \in Phases : Device(p) /\ (phase = p \/ (phase = "reset" /\ rst))
  BY DEF Situation
<1>2. UNCHANGED About /\ UNCHANGED <<pc, gint, epint>> /\ phase' = "reset" /\ rst'
  BY DEF BusReset, About, coreVars, epVars, isrVars, histVars
<1>3. Taken' <=> Taken
  BY <1>2 DEF Taken
<1>4. SetupRead => SetupRead'
  BY <1>2, <1>3, LeftStays DEF SetupRead, About, Unserved, NoneLeft
<1>5. Device(p)'
  BY <1>1, <1>2, <1>3, <1>4, Stays
<1>6. QED
  BY <1>1, <1>2, <1>5 DEF Situation

\* A SETUP follows an ended transfer only.
LEMMA SendSetupKeeps ==
    ASSUME TypeOK, Situation, NEW r \in Requests, SendSetup(r)
    PROVE  Situation' /\ SetupWaits' /\ Ended
<1>1. /\ phase \in {"reset", "idle"} /\ ~rst /\ cmd'.req = r
      /\ UNCHANGED <<core, out, pc, epint, udc, gint>> /\ calls' = 0 /\ got' = 0 /\ recv' = 0
      /\ in' = [in EXCEPT !.stall = FALSE]
      /\ rx' = rx \o Tail2
  BY DEF SendSetup, coreVars, isrVars, Tail2, Setup, SetupDone
<1>2. Ended
  BY <1>1, OfPhase DEF Device, Begun, Refused, PacketArmed, PacketRead, Answering,
     StatusOutArmed, DataAwaited, DataSent, StatusInArmed
<1>3. /\ ~in'.stall /\ in'.ena = in.ena /\ in'.fifo = in.fifo /\ in'.xfrc = in.xfrc
      /\ in'.msk = in.msk /\ in'.xfer = in.xfer /\ in'.actual = in.actual
      /\ in'.siz = in.siz
  BY <1>1 DEF TypeOK
<1>4. /\ NoneLeft(<<>>) => NoneLeft(Tail2)'
      /\ StatusInLeft(<<>>) => StatusInLeft(Tail2)'
      /\ StatusOutLeft(<<>>) => StatusOutLeft(Tail2)'
  <2>1. NoneLeft(<<>>) => NoneLeft(Tail2)'
    BY <1>1, <1>3, LateJoin DEF NoneLeft
  <2>2. StatusInLeft(<<>>) => StatusInLeft(Tail2)'
    BY <1>1, <1>3, LateJoin DEF StatusInLeft
  <2>3. StatusOutLeft(<<>>) => StatusOutLeft(Tail2)'
    BY <1>1, <1>3, LateJoin DEF StatusOutLeft
  <2>4. QED
    BY <2>1, <2>2, <2>3
<1>5. Left(Tail2)' /\ ~Taken'
  BY <1>1, <1>2, <1>3, <1>4 DEF Ended, Left, AtRest, NothingToWrite, Taken
<1>6. SetupWaits'
  BY <1>1, <1>3, <1>5 DEF SetupWaits, Unserved
<1>7. PICK q \in {"in", "out", "statusIn"} :
           /\ phase' = q
           /\ q = IF IsIn(r) THEN "in" ELSE IF IsOut(r) THEN "out" ELSE "statusIn"
  BY DEF SendSetup, IsIn, IsOut
<1>8. Begun(q)'
  BY <1>1, <1>6, <1>7 DEF Begun
<1>9. Situation'
  BY <1>7, <1>8 DEF Situation, Device, Phases
<1>10. QED
  BY <1>2, <1>6, <1>9

\* The situations in which a packet can be exchanged or a halt is met.
LEMMA OfReadData ==
    ASSUME TypeOK, Situation, Agreed, ReadData
    PROVE  PacketArmed("in") /\ in.siz = 0 /\ in.ena /\ phase = "in" /\ ~rst
<1>1. phase = "in" /\ in.ena /\ in.siz = 0
  BY DEF ReadData, InReady
<1>2. ~rst /\ Device("in")
  BY <1>1, OfPhase DEF Agreed
<1>3. QED
  BY <1>1, <1>2 DEF Device, Begun, SetupWaits, SetupRead, SetupServed, Left, AtRest,
     Refused, PacketRead, StatusOutArmed, DataAwaited, DataSent, StatusInArmed

LEMMA OfReadStatus ==
    ASSUME TypeOK, Situation, Agreed, ReadStatus
    PROVE  StatusInArmed("statusIn") /\ phase = "statusIn" /\ ~rst
<1>1. phase = "statusIn" /\ in.ena
  BY DEF ReadStatus, InReady
<1>2. ~rst /\ Device("statusIn")
  BY <1>1, OfPhase DEF Agreed
<1>3. QED
  BY <1>1, <1>2 DEF Device, Begun, SetupWaits, SetupRead, SetupServed, Left, AtRest,
     Refused, PacketArmed, PacketRead, Answering, StatusOutArmed, DataAwaited,
     DataSent, ForData

LEMMA OfTakeStall ==
    ASSUME TypeOK, Situation, Agreed, TakeStall
    PROVE  Refused(phase) /\ ~rst
<1>1. phase \in {"in", "statusIn"} /\ in.stall
  BY DEF TakeStall
<1>2. ~rst /\ Device(phase)
  BY <1>1, OfPhase DEF Agreed
<1>3. QED
  BY <1>1, <1>2 DEF Device, Begun, SetupWaits, SetupRead, SetupServed, Unserved,
     PacketArmed, PacketRead, Answering, StatusOutArmed, DataAwaited,
     DataSent, ForData, StatusInArmed

LEMMA OfSendStatus ==
    ASSUME TypeOK, Situation, Agreed, SendStatus
    PROVE  StatusOutArmed("statusOut") /\ phase = "statusOut" /\ out.ena /\ ~rst
<1>1. phase = "statusOut" /\ out.ena
  BY DEF SendStatus, TakeOut
<1>2. ~rst /\ Device("statusOut")
  BY <1>1, OfPhase DEF Agreed
<1>3. QED
  BY <1>1, <1>2 DEF Device, Begun, Refused, PacketArmed, PacketRead, Answering,
     DataAwaited, DataSent, StatusInArmed

LEMMA OfSendData ==
    ASSUME TypeOK, Situation, Agreed, SendData
    PROVE  /\ DataAwaited("out") /\ phase = "out" /\ ~rst
           /\ cmd.req.wLength \in Nat /\ TakeOut(cmd.req.wLength)
           /\ got' = cmd.req.wLength /\ phase' = "statusIn"
<1>1. phase = "out" /\ out.ena
  BY DEF SendData, TakeOut
<1>2. ~rst /\ Device("out")
  BY <1>1, OfPhase DEF Agreed
<1>3. DataAwaited("out")
  BY <1>1, <1>2 DEF Device, Begun, SetupWaits, SetupRead, SetupServed, Left, AtRest,
     Refused, PacketArmed, PacketRead, Answering, StatusOutArmed, DataSent,
     StatusInArmed
<1>4. cmd.req.wLength \in Nat /\ cmd.req.wLength <= MPS /\ got = 0
  BY <1>3, CommandTyped DEF TypeOK, DataAwaited, ForData
<1>5. Least(MPS, cmd.req.wLength - got) = cmd.req.wLength /\ 0 + cmd.req.wLength = cmd.req.wLength
  BY <1>4, SizesAssumption DEF Least
<1>6. QED
  BY <1>1, <1>2, <1>3, <1>4, <1>5 DEF SendData

LEMMA ReadDataKeeps ==
    ASSUME TypeOK, Situation, Agreed, ReadData
    PROVE  /\ \E q \in {"in", "statusOut"} : phase' = q /\ PacketRead(q)'
           /\ Situation' /\ (own => own')
<1>1. /\ PacketArmed("in") /\ Answering("in") /\ in.siz = 0 /\ ~in.msk /\ got = Before
      /\ in.fifo.n = in.xfer /\ (in.xfer > 0 => in.fifo.at = core.buf)
  BY OfReadData DEF PacketArmed
<1>2. /\ in' = [in EXCEPT !.ena = FALSE, !.fifo = Empty, !.xfrc = TRUE]
      /\ got' = got + in.fifo.n
      /\ phase' = IF in.fifo.n < MPS \/ got' >= cmd.req.wLength THEN "statusOut" ELSE "in"
      /\ UNCHANGED <<core, out, rx, udc, cmd, calls, ok, recv, pc, gint, epint>>
      /\ own' = (own /\ \/ in.fifo.n = 0
                        \/ in.fifo.at = [tag |-> cmd.tag, off |-> got])
  BY DEF ReadData, PacketGone, coreVars, isrVars, histVars
<1>3. /\ ~in'.ena /\ in'.xfrc /\ in'.fifo.n = 0 /\ in'.siz = 0 /\ ~in'.msk
      /\ in'.xfer = in.xfer /\ in'.stall = in.stall
  BY <1>1, <1>2 DEF TypeOK, Empty
<1>4. PICK q \in {"in", "statusOut"} :
           /\ phase' = q
           /\ q = "statusOut" <=> in.xfer < MPS \/ got' >= cmd.req.wLength
  BY <1>1, <1>2
<1>5. Before' = Before /\ Answer' = Answer /\ got' = Before + in.xfer
  BY <1>1, <1>2 DEF Before, Answer
<1>6. Answering(q)'
  BY <1>1, <1>2, <1>3, <1>5 DEF Answering, Served, Taken
<1>7. PacketRead(q)'
  BY <1>2, <1>3, <1>4, <1>5, <1>6 DEF PacketRead
<1>8. in.fifo.n = 0 \/ in.fifo.at = [tag |-> cmd.tag, off |-> got]
  <2>1. core.buf = [tag |-> cmd.tag, off |-> got]
    BY <1>1 DEF Answering, Before, TypeOK, Where
  <2>2. in.xfer = 0 \/ in.xfer > 0
    BY DEF TypeOK
  <2>3. QED
    BY <1>1, <2>1, <2>2
<1>9. own => own'
  BY <1>2, <1>8, Zenon
<1>10. QED
  BY <1>4, <1>7, <1>9 DEF Situation, Device, Phases

LEMMA ReadStatusKeeps ==
    ASSUME TypeOK, Situation, Agreed, ReadStatus
    PROVE  Situation' /\ phase' = "idle" /\ (own => own')
<1>1. StatusInArmed("statusIn")
  BY OfReadStatus
<1>2. /\ in' = [in EXCEPT !.ena = FALSE, !.fifo = Empty, !.xfrc = TRUE]
      /\ phase' = "idle" /\ own' = (own /\ in.fifo.n = 0)
      /\ UNCHANGED <<core, out, rx, pc, epint>>
  BY DEF ReadStatus, PacketGone, coreVars, isrVars
<1>3. /\ ~in'.ena /\ in'.xfrc /\ in'.fifo.n = 0 /\ in'.siz = in.siz /\ in'.msk = in.msk
      /\ in'.xfer = in.xfer
  BY <1>2 DEF TypeOK, Empty
<1>4. StatusInLeft(<<>>)'
  <2>1. core.setup = cmd /\ ~IsIn(cmd.req)
    BY <1>1 DEF StatusInArmed
  <2>2. QED
    BY <1>1, <1>2, <1>3, <2>1 DEF StatusInArmed, StatusInLeft, Served
<1>5. AtRest' /\ NothingToWrite' /\ ~out'.stup /\ ~Taken'
  BY <1>1, <1>2, <1>3 DEF AtRest, NothingToWrite, StatusInArmed, Served, Taken
<1>6. Ended'
  BY <1>4, <1>5 DEF Ended, Left
<1>7. own => own'
  BY <1>1, <1>2 DEF StatusInArmed
<1>8. QED
  BY <1>2, <1>6, <1>7 DEF Situation, Device, Phases

LEMMA TakeStallKeeps ==
    ASSUME TypeOK, Situation, Agreed, TakeStall
    PROVE  Situation'
<1>1. Refused(phase)
  BY OfTakeStall
<1>2. UNCHANGED <<core, in, out, rx, pc, epint>> /\ phase' = "idle"
  BY DEF TakeStall, coreVars, epVars, isrVars
<1>3. Ended'
  BY <1>1, <1>2 DEF Refused, Served, Ended, Left, NoneLeft, AtRest, NothingToWrite, Taken
<1>4. QED
  BY <1>2, <1>3 DEF Situation, Device, Phases

LEMMA SendStatusKeeps ==
    ASSUME TypeOK, Situation, Agreed, SendStatus
    PROVE  Situation'
<1>1. StatusOutArmed("statusOut") /\ rx = <<>>
  BY OfSendStatus DEF StatusOutArmed, Served
<1>2. /\ out' = [out EXCEPT !.ena = FALSE, !.siz = @ - 0]
      /\ rx' = rx \o <<Data(0), DataDone>>
      /\ phase' = "idle" /\ UNCHANGED <<core, in, pc, epint>>
  BY DEF SendStatus, TakeOut, Data, DataDone, coreVars, isrVars
<1>3. rx' = Late2(<<>>)
  BY <1>1, <1>2, LateJoin, Zenon
<1>4. ~out'.ena /\ out'.xfrc = out.xfrc /\ out'.stup = out.stup /\ out'.xfer = out.xfer
  BY <1>2 DEF TypeOK
<1>5. StatusOutLeft(<<>>)'
  BY <1>1, <1>2, <1>3, <1>4 DEF StatusOutArmed, StatusOutLeft
<1>6. AtRest' /\ NothingToWrite' /\ ~out'.stup /\ ~Taken'
  BY <1>1, <1>2, <1>4 DEF AtRest, NothingToWrite, StatusOutArmed, Served, Taken
<1>7. Ended'
  BY <1>5, <1>6 DEF Ended, Left
<1>8. QED
  BY <1>2, <1>7 DEF Situation, Device, Phases

LEMMA SendDataKeeps ==
    ASSUME TypeOK, Situation, Agreed, SendData
    PROVE  Situation'
<1> DEFINE w == cmd.req.wLength
<1>1. /\ DataAwaited("out") /\ w \in Nat /\ TakeOut(w) /\ got' = w
      /\ phase' = "statusIn" /\ rx = <<>>
  BY OfSendData DEF DataAwaited
<1>2. /\ out' = [out EXCEPT !.ena = FALSE, !.siz = @ - w]
      /\ rx' = rx \o <<Data(w), DataDone>>
  BY <1>1 DEF TakeOut, Data, DataDone
<1>3. UNCHANGED <<core, in, cmd, calls, recv, pc, epint>>
  BY DEF SendData, coreVars, isrVars, histVars
<1>4. <<>> \o <<Data(w), DataDone>> = <<Data(w), DataDone>>
  BY LateJoin
<1>5. rx' = <<Data(w), DataDone>>
  BY <1>1, <1>2, <1>4, Zenon
<1>6. out.siz = w
  BY <1>1 DEF DataAwaited
<1>7. /\ ~out'.ena /\ out'.siz = 0 /\ out'.xfrc = out.xfrc /\ out'.stup = out.stup
      /\ out'.xfer = out.xfer
  BY <1>1, <1>2, <1>6 DEF TypeOK
<1>8. DataSent("statusIn")'
  BY <1>1, <1>3, <1>5, <1>7 DEF DataAwaited, DataSent, ForData, Taken
<1>9. QED
  BY <1>1, <1>8 DEF Situation, Device, Phases

-----------------------------------------------------------------------------
(* What a situation says of the state, and what the steps that serve do *)

LEMMA RxShort ==
    ASSUME NEW p, Device(p)
    PROVE  Len(rx) <= 4
<1>1. CASE \E rest \in {<<>>, Tail1, Tail2} : Left(rest)
  <2>1. PICK rest \in {<<>>, Tail1, Tail2} : Left(rest)
    BY <1>1
  <2>2. rx = rest \/ rx = Late2(rest) \/ rx = Late1(rest)
    BY <2>1 DEF Left, NoneLeft, StatusInLeft, StatusOutLeft
  <2>3. Len(rest) <= 4
    BY Shapes
  <2>4. QED
    BY <2>2, <2>3, LateShapes
<1>2. CASE rx = <<>>
  BY <1>2
<1>3. CASE DataSent(p)
  <2> DEFINE x == <<Data(cmd.req.wLength), DataDone>>
             y == <<DataDone>>
  <2>1. Len(x) <= 4 /\ Len(y) <= 4
    OBVIOUS
  <2>2. rx = x \/ rx = y \/ rx = <<>>
    BY <1>3 DEF DataSent
  <2> HIDE DEF x, y
  <2>3. QED
    BY <1>2, <2>1, <2>2
<1>4. QED
  BY <1>1, <1>2, <1>3 DEF Device, Ended, Begun, SetupWaits, SetupRead, SetupServed,
     NoneLeft, Refused, Served, PacketArmed, PacketRead, Answering, StatusOutArmed,
     DataAwaited, StatusInArmed

\* With a SETUP at the head nothing is armed.
LEMMA Tail2AtRest ==
    ASSUME NEW p, Device(p), rx = Tail2
    PROVE  AtRest
<1>1. /\ Tail2 # <<>> /\ Tail2 # <<DataDone>>
      /\ \A n : Tail2 # <<Data(n), DataDone>>
  <2>1. Head(Tail2).is = "setup"
    BY Shapes, Kind
  <2>2. Head(<<DataDone>>).is = "dataDone"
    BY Kind
  <2>3. \A n : Head(<<Data(n), DataDone>>).is = "data"
    BY Kind
  <2>4. QED
    BY <2>1, <2>2, <2>3, Shapes
<1>2. QED
  BY <1>1 DEF Device, Ended, Begun, SetupWaits, SetupRead, SetupServed, Left,
     NoneLeft, Refused, Served, PacketArmed, PacketRead, Answering, StatusOutArmed,
     DataAwaited, DataSent, StatusInArmed

\* Bytes are counted for a request that awaits them only.
LEMMA PopCounts ==
    ASSUME TypeOK, Snapshot, NEW p, Device(p), PopRx
    PROVE  recv' = recv \/ (calls = 0 /\ recv' \in Nat)
<1> DEFINE e == Head(rx)
<1>1. CASE ~gint.rx
  BY <1>1 DEF PopRx
<1>2. CASE gint.rx
  <2>1. Popped(e) /\ rx # <<>> /\ UNCHANGED <<core, in>>
    BY <1>2 DEF PopRx, Popped, Snapshot
  <2> HIDE DEF e
  <2>2. CASE \E rest \in {<<>>, Tail1, Tail2} : Left(rest) /\ rx # rest
    <3>1. PICK rest \in {<<>>, Tail1, Tail2} : Left(rest) /\ rx # rest
      BY <2>2
    <3>2. QED
      BY <2>1, <3>1, PopLeft DEF e
  <2>3. CASE rx \in {Tail1, Tail2}
    <3>1. e.is # "data"
      BY <2>3, Shapes, Kind DEF e
    <3>2. QED
      BY <2>1, <3>1 DEF Popped
  <2>4. CASE DataSent(p)
    <3>1. cmd.req.wLength \in Nat /\ recv \in Nat /\ calls = 0
      BY <2>4, CommandTyped DEF TypeOK, DataSent, ForData
    <3>2. e = Data(cmd.req.wLength) \/ e = DataDone
      BY <2>1, <2>4 DEF DataSent, e
    <3>3. (e.is = "data" /\ e.n = cmd.req.wLength) \/ e.is = "dataDone"
      BY <3>2, Kind
    <3>4. QED
      BY <2>1, <3>1, <3>3 DEF Popped
  <2>5. QED
    BY <2>1, <2>2, <2>3, <2>4 DEF Device, Ended, Begun, SetupWaits, SetupRead, SetupServed,
       NoneLeft, Refused, Served, PacketArmed, PacketRead, Answering, StatusOutArmed,
       DataAwaited, StatusInArmed
<1>3. QED
  BY <1>1, <1>2

\* A run of the OUT block handles a request when its data are complete, and
\* leaves all but the endpoint alone otherwise.
LEMMA OutDoes ==
    ASSUME TypeOK, Snapshot, NEW p, Device(p), ServeOut
    PROVE  \/ /\ UNCHANGED <<core, in, address, bulk, calls, ok>>
              /\ out'.siz \in Nat /\ out'.xfer \in Nat
              /\ out' \in [ena : BOOLEAN, siz : Nat, xfrc : BOOLEAN,
                           stup : BOOLEAN, xfer : Nat]
           \/ DataSent(p) /\ out.xfrc /\ gint.out
<1>1. CASE ~gint.out
  BY <1>1 DEF ServeOut, epVars, TypeOK
<1>2. CASE gint.out /\ ~DataSent(p)
  <2>1. out.xfrc => out.xfer = 0
    BY <1>2 DEF Device, Ended, Begun, SetupWaits, SetupRead, SetupServed, Left, NoneLeft,
       StatusInLeft, StatusOutLeft, Refused, PacketArmed, PacketRead, Answering,
       StatusOutArmed, DataAwaited, StatusInArmed
  <2>2. out' = Acknowledge(out) \/ out' = ReadSetup(Acknowledge(out))
    BY <1>2, <2>1 DEF ServeOut
  <2>3. UNCHANGED <<core, in, address, bulk, calls, ok>>
    BY <1>2, <2>1 DEF ServeOut
  <2>4. QED
    BY <2>2, <2>3, SizesAssumption DEF TypeOK, Acknowledge, ReadSetup
<1>3. CASE gint.out /\ DataSent(p) /\ ~out.xfrc
  BY <1>3 DEF ServeOut, Acknowledge, TypeOK
<1>4. QED
  BY <1>1, <1>2, <1>3

LEMMA OutHandles ==
    ASSUME TypeOK, NEW p, DataSent(p), out.xfrc, ServeOut, gint.out
    PROVE  /\ p = "statusIn" /\ IsOut(cmd.req) /\ Handle(cmd.req) /\ calls = 0 /\ calls' = 1
           /\ recv' = cmd.req.wLength /\ UNCHANGED cmd /\ core'.residue = 0
           /\ out' = [Acknowledge(out) EXCEPT !.xfer = 0]
           /\ core' = [[core EXCEPT !.buf.off = @ + out.xfer, !.residue = 0]
                       EXCEPT !.buf.off = 0, !.configuration = Configuration(cmd.req)]
           /\ in' = IF Accepts(cmd.req) THEN StartWrite(in, core.buf, 0) ELSE Stall(in)
<1> DEFINE r == cmd.req
           o == [Acknowledge(out) EXCEPT !.xfer = 0]
<1>1. /\ r.wLength \in Nat /\ r.wLength > 0 /\ out.xfer = r.wLength /\ out.siz = 0
      /\ core.residue = r.wLength /\ core.setup = cmd /\ IsOut(r) /\ calls = 0
      /\ p = "statusIn" /\ recv = r.wLength
  BY CommandTyped DEF DataSent, ForData, TypeOK
<1>2. /\ out.xfer - out.siz # 0 /\ out.xfer # 0 /\ core.residue - (out.xfer - out.siz) = 0
      /\ out.xfer - out.siz = out.xfer /\ core.residue - out.xfer = 0
  BY <1>1
<1>3. OutComplete(o, out.xfer) /\ UNCHANGED <<cmd, recv>>
  BY <1>2 DEF ServeOut, hostVars
<1>4. /\ Handle(r) /\ out' = o
      /\ core' = [[core EXCEPT !.buf.off = @ + out.xfer, !.residue = 0]
                  EXCEPT !.buf.off = 0, !.configuration = Configuration(r)]
      /\ in' = IF Accepts(r) THEN StartWrite(in, core.buf, 0) ELSE Stall(in)
  BY <1>1, <1>2, <1>3 DEF OutComplete
<1>5. core'.residue = 0 /\ calls' = 1
  BY <1>1, <1>4 DEF TypeOK, Handle, Least
<1>6. QED
  BY <1>1, <1>3, <1>4, <1>5

-----------------------------------------------------------------------------
(* What the handler has read *)

LEMMA Grown ==
    ASSUME TypeOK, Situation, NEW r \in Requests, SendSetup(r), rx # <<>>
    PROVE  rx' # <<>> /\ rx' # Tail2
<1>1. Ended /\ rx' = rx \o Tail2
  BY SendSetupKeeps DEF SendSetup, Tail2, Setup, SetupDone
<1>2. rx = Late2(<<>>) \/ rx = Late1(<<>>)
  BY <1>1 DEF Ended, Left, NoneLeft, StatusInLeft, StatusOutLeft
<1>3. rx' = Late2(Tail2) \/ rx' = Late1(Tail2)
  BY <1>1, <1>2, LateJoin
<1>4. QED
  BY <1>3, LateShapes, LateIsNot

\* No packet is exchanged while something is in the receive FIFO.
LEMMA OneAtATime ==
    ASSUME TypeOK, Situation, Agreed,
           ReadData \/ ReadStatus \/ SendStatus \/ SendData
    PROVE  rx = <<>>
<1>1. CASE ReadData
  BY <1>1, OfReadData DEF PacketArmed, Answering, Served
<1>2. CASE ReadStatus
  BY <1>2, OfReadStatus DEF StatusInArmed, Served
<1>3. CASE SendStatus
  BY <1>3, OfSendStatus DEF StatusOutArmed, Served
<1>4. CASE SendData
  BY <1>4, OfSendData DEF DataAwaited
<1>5. QED
  BY <1>1, <1>2, <1>3, <1>4

LEMMA HostKeepsSnapshot ==
    ASSUME TypeOK, Situation, Snapshot, Agreed, Host
    PROVE  Snapshot'
<1>1. UNCHANGED <<pc, gint, epint>>
  BY DEF Host, BusReset, SendSetup, ReadData, ReadStatus, TakeStall, SendStatus,
     SendData, isrVars
<1>2. rst => rst'
  BY DEF Host, BusReset, SendSetup, ReadData, ReadStatus, TakeStall, SendStatus, SendData
<1>3. (out'.xfrc <=> out.xfrc) /\ (out'.stup <=> out.stup)
  <2>1. UNCHANGED out \/ \E n : TakeOut(n)
    BY DEF Host, BusReset, SendSetup, ReadData, ReadStatus, TakeStall, SendStatus,
       SendData, epVars
  <2>2. QED
    BY <2>1 DEF TakeOut, TypeOK
<1>4. /\ in'.msk = in.msk
      /\ in.fifo.n = 0 => in'.fifo.n = 0
  <2>1. UNCHANGED in \/ PacketGone \/ in' = [in EXCEPT !.stall = FALSE]
    BY DEF Host, BusReset, SendSetup, ReadData, ReadStatus, TakeStall, SendStatus,
       SendData, epVars
  <2>2. DOMAIN in = {"ena", "siz", "fifo", "xfrc", "msk", "stall", "buf", "xfer", "actual"}
    BY DEF TypeOK
  <2>3. CASE UNCHANGED in
    BY <2>3
  <2>4. CASE PacketGone
    BY <2>2, <2>4 DEF PacketGone, Empty
  <2>5. CASE in' = [in EXCEPT !.stall = FALSE]
    BY <2>2, <2>5
  <2>6. QED
    BY <2>1, <2>3, <2>4, <2>5
<1>5. CASE pc = "rx" /\ gint.rx
  <2>1. rx # <<>>
    BY <1>5 DEF Snapshot
  <2>2. CASE \E r \in Requests : SendSetup(r)
    <3>1. rx' # <<>> /\ rx' # Tail2
      BY <2>1, <2>2, Grown
    <3>2. QED
      BY <1>1, <1>2, <1>3, <1>4, <1>5, <3>1 DEF Snapshot
  <2>3. CASE BusReset \/ TakeStall
    <3>1. UNCHANGED <<in, rx>>
      BY <2>3 DEF BusReset, TakeStall, epVars
    <3>2. QED
      BY <1>1, <1>2, <1>3, <1>4, <3>1 DEF Snapshot
  <2>4. QED
    BY <2>1, <2>2, <2>3, OneAtATime DEF Host
<1>6. CASE ~(pc = "rx" /\ gint.rx)
  BY <1>1, <1>2, <1>3, <1>4, <1>6 DEF Snapshot
<1>7. QED
  BY <1>5, <1>6

LEMMA HandlerKeepsSnapshot ==
    ASSUME TypeOK, Situation, Snapshot, Handler
    PROVE  Snapshot'
<1>1. CASE EnterHandler
  <2>1. /\ pc' = "rx" /\ gint' = Pending /\ UNCHANGED <<rx, in, out, rst>>
    BY <1>1 DEF EnterHandler, epVars
  <2>2. /\ gint'.rx <=> rx # <<>>
        /\ gint'.out <=> out.xfrc \/ out.stup
        /\ gint'.in <=> in.xfrc \/ TxEmpty
        /\ gint'.rst <=> rst
    BY <2>1 DEF Pending
  <2>3. rx = Tail2 => in.fifo.n = 0
    BY Tail2AtRest DEF Situation, AtRest
  <2>4. rx = Tail2 /\ (in.xfrc \/ in.msk) => gint'.in
    BY <2>2, <2>3 DEF TxEmpty
  <2>5. QED
    BY <2>1, <2>2, <2>4 DEF Snapshot
<1>2. CASE PopRx
  <2>1. /\ pc = "rx" /\ pc' = "out" /\ UNCHANGED <<gint, rst>>
    BY <1>2 DEF PopRx
  <2>2. gint.out => out.xfrc \/ out.stup
    BY <2>1 DEF Snapshot
  <2>3. gint.out => out'.xfrc \/ out'.stup
    <3>1. CASE gint.rx
      <4>1. Popped(Head(rx))
        BY <1>2, <3>1 DEF PopRx, Popped
      <4>2. QED
        BY <2>2, <4>1, PoppedOut
    <3>2. CASE ~gint.rx
      BY <1>2, <2>2, <3>2 DEF PopRx
    <3>3. QED
      BY <3>1, <3>2
  <2>4. QED
    BY <2>1, <2>3 DEF Snapshot
<1>3. CASE ServeOut
  BY <1>3 DEF ServeOut, Snapshot
<1>4. CASE ServeSetup
  BY <1>4 DEF ServeSetup, Snapshot
<1>5. CASE ServeIn
  <2>1. pc' = "fifo" /\ UNCHANGED <<gint, rst>> /\ epint' = (gint.in /\ TxEmpty) /\ pc = "in"
    BY <1>5 DEF ServeIn
  <2>2. epint' => in.msk /\ in.fifo.n = 0
    BY <2>1, Zenon DEF TxEmpty
  <2>3. (in.msk => in'.msk) /\ in'.fifo = in.fifo
    <3>1. CASE ~(gint.in /\ in.xfrc)
      BY <1>5, <3>1 DEF ServeIn
    <3>2. CASE gint.in /\ in.xfrc
      <4> DEFINE n == in.xfer - in.siz
                 i == [in EXCEPT !.xfrc = FALSE, !.actual = n, !.xfer = 0]
      <4>1. PICK left : in' = InNext(i, left, core')
        BY <1>5, <3>2, InCompletes DEF Completed
      <4>2. in' = i \/ \E at, m : in' = StartWrite(i, at, m)
        BY <4>1 DEF InNext
      <4>3. (i.msk <=> in.msk) /\ i.fifo = in.fifo
            /\ DOMAIN i = {"ena", "siz", "fifo", "xfrc", "msk", "stall", "buf", "xfer", "actual"}
        BY DEF TypeOK
      <4> HIDE DEF i
      <4>4. QED
        BY <4>2, <4>3 DEF StartWrite
    <3>3. QED
      BY <3>1, <3>2
  <2>4. QED
    BY <2>1, <2>2, <2>3 DEF Snapshot
<1>6. CASE FillFifo
  BY <1>6 DEF FillFifo, Snapshot
<1>7. CASE ServeReset
  BY <1>7 DEF ServeReset, Snapshot
<1>8. QED
  BY <1>1, <1>2, <1>3, <1>4, <1>5, <1>6, <1>7 DEF Handler

-----------------------------------------------------------------------------
(* Calls, verdicts, and what the host is told *)

\* What the block of the SETUP does.
LEMMA SetupDoes ==
    ASSUME TypeOK, NEW p, Device(p), ServeSetup
    PROVE  \/ UNCHANGED <<core, in, out, address, bulk, calls, ok>>
           \/ /\ IsOut(cmd.req) /\ UNCHANGED <<address, bulk, calls, ok>>
              /\ calls = 0 /\ in'.stall = in.stall
              /\ core'.configuration = core.configuration
           \/ /\ p = IF IsIn(cmd.req) THEN "in" ELSE "statusIn"
              /\ ~IsOut(cmd.req) /\ Handle(cmd.req) /\ calls = 0 /\ calls' = 1
              /\ core'.configuration = Configuration(cmd.req)
              /\ in'.stall => ~ok'
<1> DEFINE r == udc.req
           n == IF r.kind = "get" THEN Least(r.len, r.wLength) ELSE 0
           new == [core EXCEPT !.setup = udc, !.buf = [tag |-> udc.tag, off |-> 0],
                               !.residue = r.wLength, !.len = r.wLength, !.zlp = FALSE]
<1>1. CASE ~epint
  BY <1>1 DEF ServeSetup, epVars
<1>2. CASE epint /\ IsOut(cmd.req)
  <2>1. /\ UNCHANGED <<address, bulk, calls, ok>> /\ calls = 0
        /\ core' = new /\ in' = ReadSpoilsIn(in, r.wLength)
    BY <1>2, AtSetup DEF SetupComplete
  <2>2. core'.configuration = core.configuration /\ in'.stall = in.stall
    BY <2>1 DEF ReadSpoilsIn, TypeOK
  <2>3. QED
    BY <1>2, <2>1, <2>2
<1>3. CASE epint /\ ~IsOut(cmd.req)
  <2>1. SetupComplete /\ udc = cmd /\ calls = 0 /\ ~in.stall
        /\ p = IF IsIn(cmd.req) THEN "in" ELSE "statusIn"
    BY <1>3, AtSetup
  <2>2. Handle(r) /\ calls' = 1 /\ (ok' <=> Accepts(r))
    BY <1>3, <2>1 DEF SetupComplete, Handle, Least
  <2>3. CASE Accepts(r)
    <3>1. /\ core' = [new EXCEPT !.residue = n, !.len = r.len,
                                 !.zlp = r.kind = "get" /\ NeedsZlp(r),
                                 !.configuration = Configuration(r)]
          /\ in' = StartWrite(in, new.buf, n)
      BY <1>3, <2>1, <2>3, Zenon DEF SetupComplete
    <3>2. core'.configuration = Configuration(r)
      BY <3>1 DEF TypeOK
    <3>3. in'.stall = in.stall
      <4>1. \A at, m : StartWrite(in, at, m).stall = in.stall
        BY DEF StartWrite, TypeOK
      <4>2. QED
        BY <3>1, <4>1
    <3>4. QED
      BY <1>3, <2>1, <2>2, <3>2, <3>3
  <2>4. CASE ~Accepts(r)
    <3>1. core' = new /\ in' = Stall(in)
      BY <1>3, <2>1, <2>4, Zenon DEF SetupComplete
    <3>2. core'.configuration = core.configuration
      BY <3>1 DEF TypeOK
    <3>3. Configuration(r) = core.configuration
      BY <2>4 DEF Accepts, ToDevice, Configuration, Configures
    <3>4. QED
      BY <1>3, <2>1, <2>2, <2>4, <3>2, <3>3
  <2>5. QED
    BY <2>3, <2>4
<1>4. QED
  BY <1>1, <1>2, <1>3

\* The other blocks but the reset's.
LEMMA InDoes ==
    ASSUME TypeOK, ServeIn
    PROVE  /\ UNCHANGED <<address, bulk, calls, ok, recv, cmd>>
           /\ core'.configuration = core.configuration
           /\ in'.stall = in.stall
<1>1. UNCHANGED <<address, bulk, calls, ok, recv, cmd>>
  BY DEF ServeIn, histVars, hostVars
<1>2. CASE ~(gint.in /\ in.xfrc)
  BY <1>1, <1>2 DEF ServeIn
<1>3. CASE gint.in /\ in.xfrc
  <2> DEFINE n == in.xfer - in.siz
             left == core.residue - n
             i == [in EXCEPT !.xfrc = FALSE, !.actual = n, !.xfer = 0]
  <2>1. n \in Int /\ left \in Int
    BY DEF TypeOK
  <2>2. Completed(n, left)
    BY <1>3, InCompletes
  <2>3. core'.configuration = core.configuration
    BY <2>1, <2>2, CompletedCore
  <2>4. in' = i \/ \E at, m : in' = StartWrite(i, at, m)
    BY <2>2 DEF Completed, InNext
  <2>5. i.stall = in.stall
        /\ DOMAIN i = {"ena", "siz", "fifo", "xfrc", "msk", "stall", "buf", "xfer", "actual"}
    BY DEF TypeOK
  <2> HIDE DEF i
  <2>6. in'.stall = in.stall
    BY <2>4, <2>5 DEF StartWrite
  <2>7. QED
    BY <1>1, <2>3, <2>6
<1>4. QED
  BY <1>2, <1>3

LEMMA FifoDoes ==
    ASSUME TypeOK, FillFifo
    PROVE  in'.stall = in.stall
BY DEF FillFifo, TypeOK

LEMMA HostCounts ==
    ASSUME TypeOK, Situation, Agreed, Counts, Host
    PROVE  Counts'
<1>1. CASE \E r \in Requests : SendSetup(r)
  BY <1>1, SendSetupKeeps DEF SendSetup, Counts, SetupWaits, Unserved
<1>2. CASE ReadData
  <2>1. in'.stall = in.stall
    BY <1>2 DEF ReadData, PacketGone, TypeOK
  <2>2. QED
    BY <1>2, <2>1, ReadDataKeeps DEF ReadData, Counts, histVars
<1>3. CASE ReadStatus
  <2>1. in'.stall = in.stall
    BY <1>3 DEF ReadStatus, PacketGone, TypeOK
  <2>2. QED
    BY <1>3, <2>1, ReadStatusKeeps DEF ReadStatus, Counts, histVars
<1>4. CASE BusReset \/ TakeStall \/ SendStatus \/ SendData
  <2>1. UNCHANGED <<in, cmd, own, calls, ok, recv>>
    BY <1>4 DEF BusReset, TakeStall, SendStatus, SendData, histVars, epVars
  <2>2. QED
    BY <2>1 DEF Counts
<1>5. QED
  BY <1>1, <1>2, <1>3, <1>4 DEF Host

LEMMA HandlerCounts ==
    ASSUME TypeOK, Situation, Snapshot, Counts, Handler
    PROVE  Counts'
<1>0. PICK p : Device(p)
  BY DEF Situation
<1>1. UNCHANGED <<cmd, own>>
  BY DEF Handler, EnterHandler, PopRx, ServeOut, ServeSetup, ServeIn, FillFifo,
     ServeReset, hostVars
<1>2. CASE EnterHandler
  BY <1>1, <1>2 DEF EnterHandler, Counts, histVars, epVars
<1>3. CASE PopRx
  BY <1>0, <1>1, <1>3, PopCounts DEF PopRx, Counts
<1>4. CASE ServeOut
  <2>1. CASE UNCHANGED <<in, calls, ok>>
    BY <1>1, <1>4, <2>1 DEF ServeOut, Counts
  <2>2. CASE DataSent(p) /\ out.xfrc /\ gint.out
    <3>1. /\ Handle(cmd.req) /\ calls' = 1 /\ recv' = cmd.req.wLength
          /\ in' = IF Accepts(cmd.req) THEN StartWrite(in, core.buf, 0) ELSE Stall(in)
      BY <1>4, <2>2, OutHandles
    <3>2. Accepts(cmd.req) => in'.stall = in.stall
      BY <3>1 DEF StartWrite, TypeOK
    <3>3. ~in.stall /\ (ok' <=> Accepts(cmd.req))
      BY <2>2, <3>1 DEF DataSent, ForData, Handle
    <3>4. QED
      BY <1>1, <3>1, <3>2, <3>3 DEF Counts
  <2>3. QED
    BY <1>0, <1>4, <2>1, <2>2, OutDoes
<1>5. CASE ServeSetup
  <2>1. recv' = recv
    BY <1>5 DEF ServeSetup
  <2>2. QED
    BY <1>0, <1>1, <1>5, <2>1, SetupDoes DEF Counts
<1>6. CASE ServeIn
  BY <1>1, <1>6, InDoes DEF Counts
<1>7. CASE FillFifo
  BY <1>1, <1>7, FifoDoes DEF FillFifo, Counts, histVars
<1>8. CASE ServeReset
  BY <1>1, <1>8 DEF ServeReset, Counts, histVars, epVars
<1>9. QED
  BY <1>2, <1>3, <1>4, <1>5, <1>6, <1>7, <1>8 DEF Handler

-----------------------------------------------------------------------------
(* The address and the configuration *)

LEMMA HostAgrees ==
    ASSUME TypeOK, Situation, Agreed, Counts, Host
    PROVE  Agreed'
<1>1. UNCHANGED <<address, bulk, core>>
  BY DEF Host, BusReset, SendSetup, ReadData, ReadStatus, TakeStall, SendStatus,
     SendData, coreVars
<1>2. CASE BusReset
  BY <1>2 DEF BusReset, Agreed
<1>3. ASSUME ~BusReset
      PROVE  /\ UNCHANGED rst /\ ~rst /\ phase' # "reset"
             /\ address = IF Untold /\ cmd.req.kind = "address" THEN 1 ELSE known.address
             /\ core.configuration =
                   IF known.configured \/ (Untold /\ cmd.req.kind = "configure")
                   THEN 1 ELSE 0
             /\ core.configuration = 1 <=> bulk = "armed"
  <2>1. UNCHANGED rst /\ ~rst
    BY <1>3 DEF Host, SendSetup, ReadData, ReadStatus, TakeStall, SendStatus, SendData, Agreed
  <2>2. phase' # "reset"
    BY <1>3 DEF Host, SendSetup, ReadData, ReadStatus, TakeStall, SendStatus, SendData
  <2>3. QED
    BY <2>1, <2>2 DEF Agreed
<1>4. CASE \E r \in Requests : SendSetup(r)
  <2>1. ~Untold /\ ~Untold' /\ known' = known /\ ~BusReset
    BY <1>4 DEF SendSetup, Untold, BusReset
  <2>2. QED
    BY <1>1, <1>3, <2>1 DEF Agreed
<1>5. CASE ReadData
  <2>1. ~Untold /\ ~Untold' /\ known' = known /\ ~BusReset
    BY <1>5 DEF ReadData, Untold, BusReset
  <2>2. QED
    BY <1>1, <1>3, <2>1 DEF Agreed
<1>6. CASE ReadStatus
  <2>1. calls = 1 /\ ok /\ phase = "statusIn"
    BY <1>6, OfReadStatus DEF StatusInArmed
  <2>2. Untold /\ ~Untold' /\ ~BusReset /\ UNCHANGED cmd
    BY <1>6, <2>1 DEF ReadStatus, Untold, BusReset
  <2>3. known' = CASE cmd.req.kind = "address"   -> [known EXCEPT !.address = 1]
                   [] cmd.req.kind = "configure" -> [known EXCEPT !.configured = TRUE]
                   [] OTHER -> known
    BY <1>6 DEF ReadStatus
  <2>4. /\ known'.address = IF cmd.req.kind = "address" THEN 1 ELSE known.address
        /\ known'.configured <=> known.configured \/ cmd.req.kind = "configure"
    <3>1. DOMAIN known = {"address", "configured"}
      BY DEF TypeOK
    <3>2. CASE cmd.req.kind = "address"
      BY <2>3, <3>1, <3>2
    <3>3. CASE cmd.req.kind = "configure"
      BY <2>3, <3>1, <3>3
    <3>4. CASE cmd.req.kind # "address" /\ cmd.req.kind # "configure"
      BY <2>3, <3>4
    <3>5. QED
      BY <3>2, <3>3, <3>4
  <2>5. QED
    BY <1>1, <1>3, <2>2, <2>4 DEF Agreed
<1>7. CASE TakeStall
  <2>1. ~Untold /\ ~Untold' /\ known' = known /\ ~BusReset
    BY <1>7, OfTakeStall DEF TakeStall, Untold, BusReset, Refused
  <2>2. QED
    BY <1>1, <1>3, <2>1 DEF Agreed
<1>8. CASE SendStatus
  <2>1. ~Untold /\ ~Untold' /\ known' = known /\ ~BusReset
    BY <1>8 DEF SendStatus, Untold, BusReset
  <2>2. QED
    BY <1>1, <1>3, <2>1 DEF Agreed
<1>9. CASE SendData
  <2>1. calls = 0
    BY <1>9, OfSendData DEF DataAwaited, ForData
  <2>2. ~Untold /\ ~Untold' /\ known' = known /\ ~BusReset
    BY <1>9, <2>1 DEF SendData, Untold, BusReset, histVars
  <2>3. QED
    BY <1>1, <1>3, <2>2 DEF Agreed
<1>10. QED
  BY <1>2, <1>4, <1>5, <1>6, <1>7, <1>8, <1>9 DEF Host

\* A step that changes neither, nor the verdict.
LEMMA AgreedStays ==
    ASSUME Agreed,
           UNCHANGED <<address, bulk, core.configuration, calls, ok, phase, known, cmd, rst>>
    PROVE  Agreed'
BY DEF Agreed, Untold

\* A request was handled and accepted or not, its status not told yet.
LEMMA AgreedHandles ==
    ASSUME TypeOK, Agreed, NEW p, phase = p \/ (phase = "reset" /\ rst),
           p = IF IsIn(cmd.req) THEN "in" ELSE "statusIn",
           Handle(cmd.req), calls = 0, calls' = 1,
           core'.configuration = Configuration(cmd.req),
           UNCHANGED <<phase, known, cmd, rst>>
    PROVE  Agreed'
<1>1. ~Untold
  BY DEF Untold
<1>2. CASE rst
  BY <1>2 DEF Agreed
<1>3. CASE ~rst
  <2>1. phase = p /\ phase # "reset"
    BY <1>3
  <2>2. /\ address = known.address
        /\ core.configuration = IF known.configured THEN 1 ELSE 0
        /\ core.configuration = 1 <=> bulk = "armed"
    BY <1>1, <1>3 DEF Agreed
  <2>3. CASE cmd.req.kind = "address" \/ cmd.req.kind = "configure"
    <3>1. phase = "statusIn" /\ Accepts(cmd.req)
      BY <2>1, <2>3 DEF IsIn, Accepts, ToDevice
    <3>2. Untold'
      BY <3>1 DEF Untold, Handle
    <3>3. QED
      BY <1>3, <2>1, <2>2, <2>3, <3>2 DEF Agreed, Handle, Configuration, Configures
  <2>4. CASE cmd.req.kind # "address" /\ cmd.req.kind # "configure"
    BY <1>3, <2>1, <2>2, <2>4 DEF Agreed, Handle, Configuration, Configures
  <2>5. QED
    BY <2>3, <2>4
<1>4. QED
  BY <1>2, <1>3

LEMMA HandlerAgrees ==
    ASSUME TypeOK, Situation, Snapshot, Agreed, Counts, Handler
    PROVE  Agreed'
<1>0. PICK p : Device(p) /\ (phase = p \/ (phase = "reset" /\ rst))
  BY DEF Situation
<1>1. UNCHANGED <<cmd, phase, known>>
  BY DEF Handler, EnterHandler, PopRx, ServeOut, ServeSetup, ServeIn, FillFifo,
     ServeReset, hostVars
<1>2. CASE EnterHandler \/ PopRx \/ FillFifo
  <2>1. UNCHANGED <<address, bulk, core, calls, ok, rst>>
    BY <1>2 DEF EnterHandler, PopRx, FillFifo, coreVars, histVars
  <2>2. QED
    BY <1>1, <2>1, AgreedStays
<1>3. CASE ServeOut
  <2>0. UNCHANGED rst
    BY <1>3 DEF ServeOut
  <2>1. CASE UNCHANGED <<core, address, bulk, calls, ok>>
    BY <1>1, <2>0, <2>1, AgreedStays
  <2>2. CASE DataSent(p) /\ out.xfrc /\ gint.out
    <3>1. /\ p = "statusIn" /\ IsOut(cmd.req) /\ Handle(cmd.req) /\ calls = 0 /\ calls' = 1
          /\ core' = [[core EXCEPT !.buf.off = @ + out.xfer, !.residue = 0]
                      EXCEPT !.buf.off = 0, !.configuration = Configuration(cmd.req)]
      BY <1>3, <2>2, OutHandles
    <3>2. core'.configuration = Configuration(cmd.req) /\ ~IsIn(cmd.req)
      BY <3>1 DEF TypeOK, IsIn, IsOut
    <3>3. QED
      BY <1>0, <1>1, <2>0, <3>1, <3>2, AgreedHandles
  <2>3. QED
    BY <1>0, <1>3, <2>1, <2>2, OutDoes
<1>4. CASE ServeSetup
  <2>0. UNCHANGED rst
    BY <1>4 DEF ServeSetup
  <2>1. CASE UNCHANGED <<address, bulk, core.configuration, calls, ok>>
    BY <1>1, <2>0, <2>1, AgreedStays
  <2>2. CASE /\ p = IF IsIn(cmd.req) THEN "in" ELSE "statusIn"
             /\ Handle(cmd.req) /\ calls = 0 /\ calls' = 1
             /\ core'.configuration = Configuration(cmd.req)
    BY <1>0, <1>1, <2>0, <2>2, AgreedHandles
  <2>3. QED
    BY <1>0, <1>4, <2>1, <2>2, SetupDoes
<1>5. CASE ServeIn
  <2>1. UNCHANGED rst
    BY <1>5 DEF ServeIn
  <2>2. QED
    BY <1>1, <1>5, <2>1, InDoes, AgreedStays
<1>6. CASE ServeReset /\ ~gint.rst
  <2>1. UNCHANGED <<address, bulk, core, calls, ok, rst>>
    BY <1>6 DEF ServeReset, coreVars, histVars
  <2>2. QED
    BY <1>1, <2>1, AgreedStays
<1>7. CASE ServeReset /\ gint.rst
  <2>1. rst /\ phase = "reset" /\ known = Nobody
    BY <1>7 DEF ServeReset, Snapshot, Agreed
  <2>2. address' = 0 /\ bulk' = "closed" /\ core' = ResetCore
    BY <1>7 DEF ServeReset
  <2>3. core'.configuration = 0
    BY <2>2 DEF ResetCore, TypeOK
  <2>4. ~Untold' /\ phase' = "reset" /\ known' = Nobody
    BY <1>1, <2>1 DEF Untold
  <2>5. Nobody.address = 0 /\ ~Nobody.configured
    BY DEF Nobody
  <2>6. rst' = FALSE
    BY <1>7 DEF ServeReset
  <2>7. QED
    BY <2>2, <2>3, <2>4, <2>5, <2>6 DEF Agreed
<1>8. QED
  BY <1>2, <1>3, <1>4, <1>5, <1>6, <1>7 DEF Handler

-----------------------------------------------------------------------------
(* The types *)

CoreType == [setup : Command, buf : Where, residue : Nat, len : Nat,
             zlp : BOOLEAN, configuration : 0 .. 1]
InType   == [ena : BOOLEAN, siz : 0 .. MPS, fifo : Packet, xfrc : BOOLEAN,
             msk : BOOLEAN, stall : BOOLEAN, buf : Where,
             xfer : 0 .. MPS, actual : 0 .. MPS]
OutType  == [ena : BOOLEAN, siz : Nat, xfrc : BOOLEAN, stup : BOOLEAN, xfer : Nat]

LEMMA Constants ==
    /\ MPS \in Nat /\ MPS > 0 /\ SetupRoom \in Nat
    /\ Empty \in Packet /\ Empty.at \in Where
    /\ [tag |-> 0, req |-> NoRequest] \in Command
BY SizesAssumption DEF Empty, Packet, Where, Command, NoRequest

\* The calls of the driver.
LEMMA WriteTyped ==
    ASSUME NEW i \in InType, NEW at \in Where, NEW n \in Nat
    PROVE  StartWrite(i, at, n) \in InType
<1> DEFINE m == Least(n, MPS)
           msk == i.msk \/ m > 0
<1>1. m \in 0 .. MPS /\ 0 \in 0 .. MPS
  BY Constants DEF Least
<1>2. msk \in BOOLEAN
  OBVIOUS
<1>3. StartWrite(i, at, n) = [i EXCEPT !.buf = at, !.xfer = m, !.actual = 0, !.siz = m,
                                       !.ena = TRUE, !.msk = msk]
  BY DEF StartWrite, InType
<1> HIDE DEF m, msk
<1>4. QED
  BY <1>1, <1>2, <1>3 DEF InType

LEMMA ReadTyped ==
    ASSUME NEW o \in OutType, NEW i \in InType, NEW n \in Nat
    PROVE  /\ StartRead(o, n) \in OutType /\ ReadSetup(o) \in OutType
           /\ ReadSpoilsIn(i, n) \in InType /\ Stall(i) \in InType
<1>1. Least(n, MPS) \in 0 .. MPS /\ Least(n, MPS) \in Nat
  BY Constants DEF Least
<1>2. StartRead(o, n) \in OutType /\ ReadSetup(o) \in OutType
  BY <1>1, Constants DEF StartRead, ReadSetup, OutType
<1>3. ReadSpoilsIn(i, n) \in InType /\ Stall(i) \in InType
  BY <1>1 DEF ReadSpoilsIn, Stall, InType
<1>4. QED
  BY <1>2, <1>3

\* What a request handler may change.
LEMMA HandleTyped ==
    ASSUME TypeOK, NEW r, Handle(r), calls = 0
    PROVE  calls' \in 0 .. 2 /\ ok' \in BOOLEAN /\ address' \in 0 .. 1
           /\ bulk' \in {"closed", "armed"} /\ Configuration(r) \in 0 .. 1
<1>1. calls' = 1
  BY DEF Handle, Least
<1>2. QED
  BY <1>1 DEF TypeOK, Handle, Accepts, Configuration

LEMMA SetupTyped ==
    ASSUME TypeOK, NEW p, Device(p), ServeSetup
    PROVE  /\ core' \in CoreType /\ in' \in InType /\ out' \in OutType
           /\ calls' \in 0 .. 2 /\ ok' \in BOOLEAN /\ address' \in 0 .. 1
           /\ bulk' \in {"closed", "armed"}
<1> DEFINE r == udc.req
           n == IF r.kind = "get" THEN Least(r.len, r.wLength) ELSE 0
           new == [core EXCEPT !.setup = udc, !.buf = [tag |-> udc.tag, off |-> 0],
                               !.residue = r.wLength, !.len = r.wLength, !.zlp = FALSE]
<1>0. /\ core \in CoreType /\ in \in InType /\ out \in OutType /\ udc \in Command
      /\ r.wLength \in Nat /\ r.len \in Nat /\ udc.tag \in 0 .. 1
  BY CommandTyped DEF TypeOK, CoreType, InType, OutType, Command
<1>1. n \in Nat
  BY <1>0 DEF Least
<1>2. new \in CoreType /\ new.buf \in Where
  BY <1>0 DEF CoreType, Where
<1> HIDE DEF new, n
<1>3. CASE ~epint
  BY <1>0, <1>3 DEF ServeSetup, epVars, TypeOK
<1>4. CASE epint
  <2>1. SetupComplete /\ calls = 0
    BY <1>4, AtSetup
  <2>2. CASE IsOut(r)
    <3>1. /\ core' = new /\ out' = StartRead(out, r.wLength)
          /\ in' = ReadSpoilsIn(in, r.wLength) /\ UNCHANGED <<address, bulk, calls, ok>>
      BY <2>1, <2>2, Zenon DEF SetupComplete, new
    <3>2. QED
      BY <1>0, <1>2, <3>1, ReadTyped DEF TypeOK
  <2>3. CASE ~IsOut(r) /\ Accepts(r)
    <3>1. /\ Handle(r) /\ UNCHANGED out
          /\ core' = [new EXCEPT !.residue = n, !.len = r.len,
                                 !.zlp = r.kind = "get" /\ NeedsZlp(r),
                                 !.configuration = Configuration(r)]
          /\ in' = StartWrite(in, new.buf, n)
      BY <2>1, <2>3, Zenon DEF SetupComplete, new, n
    <3>2. Configuration(r) \in 0 .. 1 /\ (r.kind = "get" /\ NeedsZlp(r)) \in BOOLEAN
      BY <2>1, <3>1, HandleTyped
    <3>3. core' \in CoreType
      BY <1>0, <1>1, <1>2, <3>1, <3>2 DEF CoreType
    <3>4. QED
      BY <1>0, <1>1, <1>2, <2>1, <3>1, <3>3, WriteTyped, HandleTyped
  <2>4. CASE ~IsOut(r) /\ ~Accepts(r)
    <3>1. Handle(r) /\ UNCHANGED out /\ core' = new /\ in' = Stall(in)
      BY <2>1, <2>4, Zenon DEF SetupComplete, new
    <3>2. QED
      BY <1>0, <1>2, <2>1, <3>1, ReadTyped, HandleTyped
  <2>5. QED
    BY <2>2, <2>3, <2>4
<1>5. QED
  BY <1>3, <1>4

\* Nothing of the packet armed is left in its endpoint when it completes.
LEMMA InWhole ==
    ASSUME TypeOK, NEW p, Device(p), in.xfrc
    PROVE  in.siz = 0 /\ core.residue - in.xfer \in Nat
<1>1. CASE \E rest : StatusInLeft(rest)
  BY <1>1 DEF StatusInLeft
<1>2. CASE PacketRead(p)
  <2>1. /\ Answer - Before \in Nat /\ core.residue = Answer - Before
        /\ in.xfer = Least(Answer - Before, MPS)
    BY <1>2, CommandTyped DEF PacketRead, Answering, TypeOK, Where, Answer, Before, Least
  <2>2. QED
    BY <1>2, <2>1, Constants DEF PacketRead, Least
<1>3. QED
  BY <1>1, <1>2 DEF Device, Ended, Begun, SetupWaits, SetupRead, SetupServed, Left, NoneLeft,
     StatusOutLeft, Refused, PacketArmed, StatusOutArmed, DataAwaited, DataSent, ForData,
     StatusInArmed

LEMMA InTyped ==
    ASSUME TypeOK, NEW p, Device(p), ServeIn
    PROVE  core' \in CoreType /\ in' \in InType /\ out' \in OutType
<1> DEFINE n == in.xfer
           left == core.residue - n
           i == [in EXCEPT !.xfrc = FALSE, !.actual = n, !.xfer = 0]
<1>0. core \in CoreType /\ in \in InType /\ out \in OutType
  BY DEF TypeOK, CoreType, InType, OutType
<1>1. CASE ~(gint.in /\ in.xfrc)
  BY <1>0, <1>1 DEF ServeIn
<1>2. CASE gint.in /\ in.xfrc
  <2>1. n = in.xfer - in.siz /\ n \in Nat /\ left \in Nat /\ n \in 0 .. MPS
    BY <1>0, <1>2, InWhole DEF InType
  <2>2. Completed(n, left)
    BY <1>2, <2>1, InCompletes
  <2>3. core' = [core EXCEPT !.buf.off = @ + n, !.residue = left, !.zlp = @ /\ left # 0]
    BY <2>2 DEF Completed
  <2>4. core' \in CoreType /\ core'.buf \in Where
    <3>1. [core.buf EXCEPT !.off = @ + n] \in Where
      BY <1>0, <2>1 DEF CoreType, Where
    <3>2. core' = [core EXCEPT !.buf = [core.buf EXCEPT !.off = @ + n], !.residue = left,
                               !.zlp = @ /\ left # 0]
      BY <1>0, <2>3 DEF CoreType
    <3>3. (core.zlp /\ left # 0) \in BOOLEAN
      OBVIOUS
    <3>4. QED
      BY <1>0, <2>1, <3>1, <3>2, <3>3 DEF CoreType
  <2>5. i \in InType
    <3>1. 0 \in 0 .. MPS
      BY Constants
    <3>2. QED
      BY <1>0, <2>1, <3>1 DEF InType
  <2>6. in' = i \/ in' = StartWrite(i, core'.buf, left) \/ in' = StartWrite(i, core'.buf, 0)
    BY <2>2 DEF Completed, InNext
  <2> HIDE DEF i, left, n
  <2>7. in' \in InType
    BY <2>1, <2>4, <2>5, <2>6, WriteTyped
  <2>8. OutNext(left) \in OutType
    BY <1>0, ReadTyped DEF OutNext
  <2>9. out' \in OutType
    BY <2>2, <2>8, <1>0, ReadTyped DEF Completed, AfterStatus
  <2>10. QED
    BY <2>4, <2>7, <2>9
<1>3. QED
  BY <1>1, <1>2

LEMMA FifoTyped ==
    ASSUME TypeOK, FillFifo
    PROVE  in' \in InType
<1> DEFINE n == in.xfer - in.actual
           write == n > 0 /\ in.fifo.n = 0
<1>0. in \in InType
  BY DEF TypeOK, InType
<1>1. CASE ~epint
  BY <1>0, <1>1 DEF FillFifo
<1>2. CASE epint
  <2>1. in' = [in EXCEPT !.fifo = IF write THEN [at |-> in.buf, n |-> n] ELSE @,
                         !.actual = IF write THEN in.xfer ELSE @,
                         !.siz = IF write THEN 0 ELSE @,
                         !.buf.off = IF write THEN @ + n ELSE @,
                         !.msk = @ /\ n > 0 /\ ~write]
    BY <1>2 DEF FillFifo
  <2>2. CASE write
    <3>1. n \in Nat
      BY <1>0, <2>2 DEF InType
    <3>2. [at |-> in.buf, n |-> n] \in Packet /\ in.buf.off + n \in Nat
      BY <1>0, <3>1 DEF InType, Packet, Where
    <3>3. in' = [in EXCEPT !.fifo = [at |-> in.buf, n |-> n], !.actual = in.xfer,
                           !.siz = 0, !.buf.off = @ + n, !.msk = @ /\ n > 0 /\ ~write]
      BY <2>1, <2>2, Zenon
    <3> DEFINE msk == in.msk /\ n > 0 /\ ~write
               buf == [in.buf EXCEPT !.off = @ + n]
               packet == [at |-> in.buf, n |-> n]
    <3>4. msk \in BOOLEAN /\ buf \in Where /\ packet \in Packet /\ 0 \in 0 .. MPS
      BY <1>0, <3>2, Constants DEF InType, Where
    <3>5. in' = [in EXCEPT !.fifo = packet, !.actual = in.xfer,
                           !.siz = 0, !.buf = buf, !.msk = msk]
      BY <1>0, <3>3 DEF InType
    <3> HIDE DEF msk, buf, packet
    <3>6. QED
      BY <1>0, <3>4, <3>5 DEF InType
  <2>3. CASE ~write
    <3>1. in' = [in EXCEPT !.fifo = @, !.actual = @, !.siz = @, !.buf.off = @,
                           !.msk = @ /\ n > 0 /\ ~write]
      BY <2>1, <2>3, Zenon
    <3>2. QED
      BY <1>0, <3>1 DEF InType, Where
  <2>4. QED
    BY <2>2, <2>3
<1>3. QED
  BY <1>1, <1>2

LEMMA OutTyped ==
    ASSUME TypeOK, Snapshot, NEW p, Device(p), ServeOut
    PROVE  /\ core' \in CoreType /\ in' \in InType /\ out' \in OutType
           /\ calls' \in 0 .. 2 /\ ok' \in BOOLEAN /\ address' \in 0 .. 1
           /\ bulk' \in {"closed", "armed"} /\ epint' \in BOOLEAN
<1>0. core \in CoreType /\ in \in InType /\ out \in OutType
  BY DEF TypeOK, CoreType, InType, OutType
<1>1. epint' \in BOOLEAN
  BY DEF ServeOut, TypeOK
<1>2. CASE UNCHANGED <<core, in, address, bulk, calls, ok>> /\ out' \in OutType
  BY <1>0, <1>1, <1>2 DEF TypeOK
<1>3. CASE DataSent(p) /\ out.xfrc /\ gint.out
  <2>1. /\ Handle(cmd.req) /\ calls = 0
        /\ out' = [Acknowledge(out) EXCEPT !.xfer = 0]
        /\ core' = [[core EXCEPT !.buf.off = @ + out.xfer, !.residue = 0]
                    EXCEPT !.buf.off = 0, !.configuration = Configuration(cmd.req)]
        /\ in' = IF Accepts(cmd.req) THEN StartWrite(in, core.buf, 0) ELSE Stall(in)
    BY <1>3, OutHandles
  <2>2. in' \in InType
    BY <1>0, <2>1, WriteTyped, ReadTyped DEF CoreType
  <2>3. out' \in OutType
    BY <1>0, <2>1 DEF Acknowledge, OutType
  <2>4. core' \in CoreType
    <3>1. Configuration(cmd.req) \in 0 .. 1
      BY <2>1, HandleTyped
    <3> DEFINE buf == [core.buf EXCEPT !.off = 0]
    <3>2. buf \in Where
      BY <1>0 DEF CoreType, Where
    <3>3. core' = [core EXCEPT !.buf = buf, !.residue = 0,
                               !.configuration = Configuration(cmd.req)]
      BY <1>0, <2>1 DEF CoreType, Where
    <3> HIDE DEF buf
    <3>4. QED
      BY <1>0, <3>1, <3>2, <3>3 DEF CoreType
  <2>5. QED
    BY <1>1, <2>1, <2>2, <2>3, <2>4, HandleTyped
<1>4. QED
  BY <1>2, <1>3, OutDoes DEF OutType

\* The types, without those of the FIFO.
Rest ==
    /\ core \in CoreType /\ udc \in Command /\ in \in InType /\ out \in OutType
    /\ address \in 0 .. 1 /\ bulk \in {"closed", "armed"}
    /\ pc \in {"idle", "rx", "out", "setup", "in", "fifo", "reset"}
    /\ gint \in [rx : BOOLEAN, out : BOOLEAN, in : BOOLEAN, rst : BOOLEAN]
    /\ rst \in BOOLEAN /\ epint \in BOOLEAN
    /\ phase \in Phases /\ cmd \in Command /\ got \in Nat
    /\ known \in [address : 0 .. 1, configured : BOOLEAN]
    /\ own \in BOOLEAN
    /\ calls \in 0 .. 2 /\ ok \in BOOLEAN /\ recv \in Nat

LEMMA RestIsAll == TypeOK <=> Rest /\ Len(rx) <= 4
BY DEF TypeOK, Rest, CoreType, InType, OutType

LEMMA HandlerTyped ==
    ASSUME TypeOK, Situation, Snapshot, Handler
    PROVE  Rest'
<1>0. Rest
  BY RestIsAll
<1>1. PICK p : Device(p)
  BY DEF Situation
<1>2. UNCHANGED <<phase, cmd, got, known, own>>
  BY DEF Handler, EnterHandler, PopRx, ServeOut, ServeSetup, ServeIn, FillFifo,
     ServeReset, hostVars
<1>3. CASE EnterHandler
  <2>1. Pending \in [rx : BOOLEAN, out : BOOLEAN, in : BOOLEAN, rst : BOOLEAN]
    BY <1>0 DEF Rest, Pending, TxEmpty, InType, OutType
  <2>2. UNCHANGED <<core, udc, address, bulk, in, out, rst, epint, calls, ok, recv>>
        /\ pc' = "rx" /\ gint' = Pending
    BY <1>3 DEF EnterHandler, coreVars, epVars, histVars
  <2>3. QED
    BY <1>0, <1>2, <2>1, <2>2 DEF Rest
<1>4. CASE PopRx
  <2>1. UNCHANGED <<core, in, rst, address, bulk, gint, epint, calls, ok>> /\ pc' = "out"
    BY <1>4 DEF PopRx
  <2>2. recv' \in Nat
    BY <1>0, <1>1, <1>4, PopCounts DEF Rest
  <2>3. udc' \in Command
    BY <1>0, <1>4 DEF PopRx, Rest
  <2>4. out' \in OutType
    <3>1. CASE ~gint.rx
      BY <1>0, <1>4, <3>1 DEF PopRx, Rest
    <3>2. CASE gint.rx
      <4> DEFINE xfrc == out.xfrc \/ Head(rx).is = "dataDone"
                 stup == out.stup \/ Head(rx).is = "setupDone"
      <4>1. out' = [out EXCEPT !.xfrc = xfrc, !.stup = stup]
        BY <1>4, <3>2 DEF PopRx
      <4>2. xfrc \in BOOLEAN /\ stup \in BOOLEAN
        OBVIOUS
      <4> HIDE DEF xfrc, stup
      <4>3. QED
        BY <1>0, <4>1, <4>2 DEF Rest, OutType
    <3>3. QED
      BY <3>1, <3>2
  <2>5. QED
    BY <1>0, <1>2, <2>1, <2>2, <2>3, <2>4 DEF Rest
<1>5. CASE ServeOut
  <2>1. UNCHANGED <<udc, rst, gint, recv>> /\ pc' = "setup"
    BY <1>5 DEF ServeOut
  <2>2. QED
    BY <1>0, <1>1, <1>2, <1>5, <2>1, OutTyped DEF Rest
<1>6. CASE ServeSetup
  <2>1. UNCHANGED <<udc, rst, gint, epint, recv>> /\ pc' = "in"
    BY <1>6 DEF ServeSetup
  <2>2. QED
    BY <1>0, <1>1, <1>2, <1>6, <2>1, SetupTyped DEF Rest
<1>7. CASE ServeIn
  <2>1. UNCHANGED <<udc, rst, address, bulk, gint, calls, ok, recv>> /\ pc' = "fifo"
    BY <1>7 DEF ServeIn, histVars
  <2>2. epint' \in BOOLEAN
    BY <1>7 DEF ServeIn, TxEmpty
  <2>3. QED
    BY <1>0, <1>1, <1>2, <1>7, <2>1, <2>2, InTyped DEF Rest
<1>8. CASE FillFifo
  <2>1. UNCHANGED <<core, udc, address, bulk, out, rst, gint, epint, calls, ok, recv>>
        /\ pc' = "reset"
    BY <1>8 DEF FillFifo, coreVars, histVars
  <2>2. QED
    BY <1>0, <1>2, <1>8, <2>1, FifoTyped DEF Rest
<1>9. CASE ServeReset /\ ~gint.rst
  <2>1. UNCHANGED <<core, udc, address, bulk, in, out, rst, gint, epint, calls, ok, recv>>
        /\ pc' = "idle"
    BY <1>9 DEF ServeReset, coreVars, epVars, histVars
  <2>2. QED
    BY <1>0, <1>2, <2>1 DEF Rest
<1>10. CASE ServeReset /\ gint.rst
  <2>1. UNCHANGED <<gint, epint, calls, ok, recv>> /\ pc' = "idle" /\ rst' = FALSE
        /\ udc' = [tag |-> 0, req |-> NoRequest] /\ address' = 0 /\ bulk' = "closed"
        /\ core' = [core EXCEPT !.configuration = 0]
    BY <1>10 DEF ServeReset, histVars, ResetCore
  <2>2. in' \in InType
    <3>1. in' = [ena |-> FALSE, siz |-> 0, fifo |-> Empty, xfrc |-> FALSE,
                 msk |-> in.msk, stall |-> FALSE, buf |-> Empty.at,
                 xfer |-> 0, actual |-> 0]
      BY <1>10 DEF ServeReset
    <3>2. in.msk \in BOOLEAN /\ 0 \in 0 .. MPS
      BY <1>0, Constants DEF Rest, InType
    <3>3. QED
      BY <3>1, <3>2, Constants DEF InType
  <2>3. out' \in OutType
    <3> DEFINE o == [ena |-> FALSE, siz |-> 0, xfrc |-> FALSE, stup |-> FALSE, xfer |-> 0]
    <3>1. o \in OutType /\ out' = ReadSetup(o)
      BY <1>10 DEF ServeReset, OutType
    <3> HIDE DEF o
    <3>2. QED
      BY <1>0, <3>1, ReadTyped DEF Rest
  <2>4. core' \in CoreType /\ udc' \in Command
    BY <1>0, <2>1, Constants DEF Rest, CoreType
  <2>5. /\ address' \in 0 .. 1 /\ bulk' \in {"closed", "armed"}
        /\ pc' \in {"idle", "rx", "out", "setup", "in", "fifo", "reset"}
        /\ UNCHANGED <<gint, epint, calls, ok, recv>>
    BY <2>1
  <2>6. rst' \in BOOLEAN
    BY <2>1, Zenon
  <2>7. QED
    BY <1>0, <1>2, <2>2, <2>3, <2>4, <2>5, <2>6 DEF Rest
<1>11. QED
  BY <1>3, <1>4, <1>5, <1>6, <1>7, <1>8, <1>9, <1>10 DEF Handler

LEMMA HostTyped ==
    ASSUME TypeOK, Situation, Agreed, Host
    PROVE  Rest'
<1>0. Rest
  BY RestIsAll
<1>1. UNCHANGED <<core, udc, address, bulk, pc, gint, epint>>
  BY DEF Host, BusReset, SendSetup, ReadData, ReadStatus, TakeStall, SendStatus,
     SendData, coreVars, isrVars
<1>2. CASE BusReset
  BY <1>0, <1>1, <1>2 DEF BusReset, epVars, histVars, Rest, Phases, Nobody
<1>3. ASSUME NEW r \in Requests, SendSetup(r)
      PROVE  Rest'
  <2>1. /\ cmd' = [tag |-> 1 - cmd.tag, req |-> r] /\ in' = [in EXCEPT !.stall = FALSE]
        /\ got' = 0 /\ own' = TRUE /\ calls' = 0 /\ ok' = FALSE /\ recv' = 0
        /\ UNCHANGED <<out, rst, known>>
    BY <1>3 DEF SendSetup
  <2>2. cmd' \in Command
    <3>1. cmd.tag \in 0 .. 1
      BY <1>0 DEF Rest, Command
    <3>2. 1 - cmd.tag \in 0 .. 1
      BY <3>1
    <3>3. QED
      BY <2>1, <3>2 DEF Command
  <2>3. in' \in InType
    BY <1>0, <2>1 DEF Rest, InType
  <2>4. phase' \in Phases
    BY <1>3 DEF SendSetup, Phases
  <2>5. /\ got' \in Nat /\ calls' \in 0 .. 2 /\ recv' \in Nat
        /\ UNCHANGED <<out, rst, known>>
    BY <2>1
  <2>6. own' \in BOOLEAN /\ ok' \in BOOLEAN
    BY <2>1, Zenon
  <2>7. QED
    BY <1>0, <1>1, <2>2, <2>3, <2>4, <2>5, <2>6 DEF Rest
<1>4. ASSUME PacketGone
      PROVE  in' \in InType
  BY <1>0, <1>4, Constants DEF PacketGone, Rest, InType
<1>5. CASE ReadData
  <2>1. /\ PacketGone /\ got' = got + in.fifo.n
        /\ phase' = IF in.fifo.n < MPS \/ got' >= cmd.req.wLength THEN "statusOut" ELSE "in"
        /\ own' = (own /\ \/ in.fifo.n = 0
                          \/ in.fifo.at = [tag |-> cmd.tag, off |-> got])
        /\ UNCHANGED <<out, rst, cmd, known, calls, ok, recv>>
    BY <1>5 DEF ReadData, histVars
  <2>2. got' \in Nat /\ phase' \in Phases
    BY <1>0, <2>1 DEF Rest, InType, Packet, Phases
  <2>3. own' \in BOOLEAN
    BY <2>1
  <2>4. QED
    BY <1>0, <1>1, <1>4, <2>1, <2>2, <2>3 DEF Rest
<1>6. CASE ReadStatus
  <2>1. /\ PacketGone /\ phase' = "idle" /\ own' = (own /\ in.fifo.n = 0)
        /\ UNCHANGED <<out, rst, cmd, got, calls, ok, recv>>
    BY <1>6 DEF ReadStatus, histVars
  <2>2. known' \in [address : 0 .. 1, configured : BOOLEAN]
    <3>1. \/ known' = [known EXCEPT !.address = 1]
          \/ known' = [known EXCEPT !.configured = TRUE]
          \/ known' = known
      BY <1>6, Zenon DEF ReadStatus
    <3>2. known \in [address : 0 .. 1, configured : BOOLEAN] /\ 1 \in 0 .. 1
      BY <1>0 DEF Rest
    <3>3. [known EXCEPT !.address = 1] \in [address : 0 .. 1, configured : BOOLEAN]
      BY <3>2
    <3>4. [known EXCEPT !.configured = TRUE] \in [address : 0 .. 1, configured : BOOLEAN]
      BY <3>2
    <3>5. QED
      BY <3>1, <3>2, <3>3, <3>4
  <2>3. own' \in BOOLEAN
    BY <2>1
  <2>4. QED
    BY <1>0, <1>1, <1>4, <2>1, <2>2, <2>3 DEF Rest, Phases
<1>7. CASE TakeStall
  BY <1>0, <1>1, <1>7 DEF TakeStall, epVars, histVars, Rest, Phases
<1>8. CASE SendStatus
  <2>1. out' = [out EXCEPT !.ena = FALSE, !.siz = @ - 0]
    BY <1>8 DEF SendStatus, TakeOut
  <2>2. out' \in OutType
    <3>1. out.siz - 0 \in Nat
      BY <1>0 DEF Rest, OutType
    <3>2. QED
      BY <1>0, <2>1, <3>1 DEF Rest, OutType
  <2>3. QED
    BY <1>0, <1>1, <1>8, <2>2 DEF SendStatus, histVars, Rest, Phases
<1>9. CASE SendData
  <2>1. /\ TakeOut(cmd.req.wLength) /\ out.siz = cmd.req.wLength /\ cmd.req.wLength \in Nat
        /\ got' = cmd.req.wLength /\ phase' = "statusIn"
    BY <1>9, OfSendData DEF DataAwaited
  <2>2. out.siz - cmd.req.wLength \in Nat
    BY <2>1
  <2>3. out' \in OutType
    BY <1>0, <2>1, <2>2 DEF Rest, OutType, TakeOut
  <2>4. UNCHANGED <<in, rst, cmd, known, own, calls, ok, recv>>
    BY <1>9 DEF SendData, histVars
  <2>5. QED
    BY <1>0, <1>1, <2>1, <2>3, <2>4 DEF Rest, Phases
<1>10. QED
  BY <1>2, <1>3, <1>5, <1>6, <1>7, <1>8, <1>9 DEF Host

-----------------------------------------------------------------------------
(* The theorems *)

LEMMA ShortFifo ==
    ASSUME Situation
    PROVE  Len(rx) <= 4
BY RxShort DEF Situation

LEMMA StartsWell == Init => IInv
<1> SUFFICES ASSUME Init
             PROVE  IInv
  OBVIOUS
<1> DEFINE none == [tag |-> 0, req |-> NoRequest]
<1>1. /\ core = [setup |-> none, buf |-> Empty.at, residue |-> 0,
                 len |-> 0, zlp |-> FALSE, configuration |-> 0]
      /\ udc = none /\ cmd = none
      /\ in = [ena |-> FALSE, siz |-> 0, fifo |-> Empty, xfrc |-> FALSE,
               msk |-> FALSE, stall |-> FALSE, buf |-> Empty.at,
               xfer |-> 0, actual |-> 0]
      /\ out = [ena |-> FALSE, siz |-> 0, xfrc |-> FALSE, stup |-> FALSE, xfer |-> 0]
      /\ rx = <<>> /\ rst = FALSE /\ address = 0 /\ bulk = "closed"
      /\ pc = "idle" /\ epint = FALSE
      /\ gint = [rx |-> FALSE, out |-> FALSE, in |-> FALSE, rst |-> FALSE]
      /\ phase = "detached" /\ got = 0 /\ known = Nobody /\ own = TRUE
      /\ calls = 0 /\ ok = FALSE /\ recv = 0
  BY DEF Init
<1>2. /\ ~in.ena /\ ~in.xfrc /\ ~in.msk /\ in.fifo.n = 0 /\ ~in.stall
      /\ ~out.ena /\ ~out.xfrc /\ ~out.stup
  BY <1>1 DEF Empty
<1>3. Situation
  <2>1. Ended
    BY <1>1, <1>2 DEF Ended, Left, NoneLeft, AtRest, NothingToWrite, Taken
  <2>2. QED
    BY <1>1, <2>1 DEF Situation, Device, Phases
<1>4. Snapshot
  BY <1>1 DEF Snapshot
<1>5. Agreed
  BY <1>1 DEF Agreed, Untold, Nobody
<1>6. Counts
  BY <1>1, <1>2 DEF Counts
<1>7. TypeOK
  <2>1. none \in Command /\ Empty \in Packet /\ Empty.at \in Where /\ 0 \in 0 .. MPS
    BY Constants
  <2>2. core \in CoreType /\ udc \in Command /\ cmd \in Command
    BY <1>1, <2>1 DEF CoreType
  <2>3. in \in InType
    BY <1>1, <2>1 DEF InType
  <2>4. out \in OutType
    BY <1>1 DEF OutType
  <2>5. /\ address \in 0 .. 1 /\ bulk \in {"closed", "armed"}
        /\ pc \in {"idle", "rx", "out", "setup", "in", "fifo", "reset"}
        /\ phase \in Phases /\ got \in Nat /\ calls \in 0 .. 2 /\ recv \in Nat
    BY <1>1 DEF Phases
  <2>6. /\ gint \in [rx : BOOLEAN, out : BOOLEAN, in : BOOLEAN, rst : BOOLEAN]
        /\ rst \in BOOLEAN /\ epint \in BOOLEAN /\ own \in BOOLEAN /\ ok \in BOOLEAN
    BY <1>1
  <2>7. known \in [address : 0 .. 1, configured : BOOLEAN]
    BY <1>1 DEF Nobody
  <2>8. Len(rx) <= 4
    BY <1>3, ShortFifo
  <2>9. QED
    BY <2>2, <2>3, <2>4, <2>5, <2>6, <2>7, <2>8, RestIsAll DEF Rest
<1>8. QED
  BY <1>3, <1>4, <1>5, <1>6, <1>7 DEF IInv, Typed

LEMMA HostInv ==
    ASSUME IInv, Host
    PROVE  IInv'
<1>1. TypeOK /\ Situation /\ Snapshot /\ Agreed /\ Counts
  BY DEF IInv, Typed
<1>2. Situation'
  BY <1>1, BusResetKeeps, SendSetupKeeps, ReadDataKeeps, ReadStatusKeeps, TakeStallKeeps,
     SendStatusKeeps, SendDataKeeps DEF Host
<1>3. Snapshot' /\ Agreed' /\ Counts' /\ Rest'
  BY <1>1, HostKeepsSnapshot, HostAgrees, HostCounts, HostTyped
<1>4. (Len(rx) <= 4)'
  BY <1>2, ShortFifo, PTL
<1>5. TypeOK'
  BY <1>3, <1>4, RestIsAll, PTL
<1>6. QED
  BY <1>2, <1>3, <1>5 DEF IInv, Typed

LEMMA HandlerInv ==
    ASSUME IInv, Handler
    PROVE  IInv'
<1>1. TypeOK /\ Situation /\ Snapshot /\ Agreed /\ Counts
  BY DEF IInv, Typed
<1>2. Situation'
  BY <1>1, HandlerKeeps
<1>3. Snapshot' /\ Agreed' /\ Counts' /\ Rest'
  BY <1>1, HandlerKeepsSnapshot, HandlerAgrees, HandlerCounts, HandlerTyped
<1>4. (Len(rx) <= 4)'
  BY <1>2, ShortFifo, PTL
<1>5. TypeOK'
  BY <1>3, <1>4, RestIsAll, PTL
<1>6. QED
  BY <1>2, <1>3, <1>5 DEF IInv, Typed

LEMMA StutterInv ==
    ASSUME IInv, UNCHANGED vars
    PROVE  IInv'
<1>1. TypeOK /\ Situation /\ Snapshot /\ Agreed /\ Counts
  BY DEF IInv, Typed
<1>2. UNCHANGED <<core, udc, in, out, rx, rst, address, bulk, pc, gint, epint,
                  phase, cmd, got, known, own, calls, ok, recv>>
  BY DEF vars, coreVars, epVars, isrVars, hostVars, histVars
<1>3. Situation'
  <2>1. PICK p \in Phases : Device(p) /\ (phase = p \/ (phase = "reset" /\ rst))
    BY <1>1 DEF Situation
  <2>2. UNCHANGED About /\ (Taken' <=> Taken)
    BY <1>2 DEF About, Taken
  <2>3. SetupRead => SetupRead'
    BY <1>2, <2>2, LeftStays DEF SetupRead, Unserved, NoneLeft
  <2>4. Device(p)'
    BY <2>1, <2>2, <2>3, Stays
  <2>5. QED
    BY <1>2, <2>1, <2>4 DEF Situation
<1>4. Snapshot'
  BY <1>1, <1>2 DEF Snapshot
<1>5. Agreed'
  BY <1>1, <1>2 DEF Agreed, Untold
<1>6. Counts'
  BY <1>1, <1>2 DEF Counts
<1>7. TypeOK'
  BY <1>1, <1>2, RestIsAll DEF Rest, TypeOK
<1>8. QED
  BY <1>3, <1>4, <1>5, <1>6, <1>7 DEF IInv, Typed

\* Every transfer is where the phase of its host says, whatever of the one
\* before is still to be served and whenever the bus is reset.
THEOREM Invariant == Spec => []IInv
<1>1. IInv /\ [Next]_vars => IInv'
  BY HostInv, HandlerInv, StutterInv DEF Next
<1>2. QED
  BY <1>1, StartsWell, PTL DEF Spec

\* What the host reads is the next part of the answer to its own request, it
\* has all of them when it takes the data for complete, the request handler
\* was called once, with all data, and the host is told what it said.
THEOREM OwnTransfer == Spec => []TransferIsOwn
<1>1. IInv => TransferIsOwn
  <2> SUFFICES ASSUME IInv
               PROVE  TransferIsOwn
    OBVIOUS
  <2>1. own /\ calls <= 1 /\ (calls = 1 /\ IsOut(cmd.req) => recv = cmd.req.wLength)
        /\ (in.stall => calls = 1 /\ ~ok)
    BY DEF IInv, Counts
  <2>2. phase = "statusOut" => got = AnswerLength(cmd.req) /\ calls = 1 /\ ok
    <3>1. SUFFICES ASSUME phase = "statusOut"
                   PROVE  got = AnswerLength(cmd.req) /\ calls = 1 /\ ok
      OBVIOUS
    <3>2. ~rst /\ Device("statusOut")
      BY <3>1, OfPhase DEF IInv, Agreed
    <3>3. CASE StatusOutArmed("statusOut")
      BY <3>3 DEF StatusOutArmed, Answer, AnswerLength
    <3>4. CASE PacketRead("statusOut")
      <4>1. /\ calls = 1 /\ ok /\ got = Before + in.xfer
            /\ in.xfer = Least(Answer - Before, MPS)
            /\ Before <= Answer
            /\ in.xfer < MPS \/ got >= cmd.req.wLength
        BY <3>4 DEF PacketRead, Answering
      <4>2. /\ Before \in Nat /\ Answer \in Nat /\ Answer <= cmd.req.wLength
            /\ cmd.req.wLength \in Nat /\ MPS \in Nat
        BY CommandTyped, Constants DEF IInv, Typed, TypeOK, Where, Before, Answer, Least
      <4>3. got = Answer
        BY <4>1, <4>2 DEF Least
      <4>4. QED
        BY <4>1, <4>3 DEF Answer, AnswerLength
    <3>5. QED
      BY <3>2, <3>3, <3>4 DEF Device, Begun, Refused, PacketArmed, DataAwaited, DataSent,
         StatusInArmed
  <2>3. QED
    BY <2>1, <2>2 DEF TransferIsOwn, AnswerIsOwn, HandledOnce
<1>2. QED
  BY <1>1, Invariant, PTL

\* Between two transfers host and device agree on the address and on the
\* configuration, and a SETUP is served on an endpoint at rest.
THEOREM CleanStart == Spec => []StartsClean
<1>1. IInv => StartsClean
  <2> SUFFICES ASSUME IInv
               PROVE  StartsClean
    OBVIOUS
  <2>1. TypeOK
    BY DEF IInv, Typed
  <2>2. InStep
    <3>1. SUFFICES ASSUME phase = "idle"
                   PROVE  /\ address = known.address
                          /\ known.configured <=> core.configuration = 1
                          /\ known.configured <=> bulk = "armed"
      BY DEF InStep
    <3>2. ~rst /\ ~Untold
      BY <3>1 DEF IInv, Agreed, Untold
    <3>3. QED
      BY <3>2 DEF IInv, Agreed
  <2>3. NewTransferIsClean
    <3>1. SUFFICES ASSUME pc = "setup", epint, ~rst
                   PROVE  ~in.ena /\ ~out.ena /\ in.fifo.n = 0 /\ ~in.xfrc /\ ~out.xfrc
      BY DEF NewTransferIsClean
    <3>2. PICK p : Device(p)
      BY DEF IInv, Situation
    <3>3. SetupServed
      BY <3>1, <3>2, TakenIsSetup DEF Taken
    <3>4. QED
      BY <3>3 DEF SetupServed, AtRest, NoneLeft
  <2>4. QED
    BY <2>1, <2>2, <2>3 DEF StartsClean
<1>2. QED
  BY <1>1, Invariant, PTL

=============================================================================
