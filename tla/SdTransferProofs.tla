--------------------------- MODULE SdTransferProofs ---------------------------
(***************************************************************************)
(* Proofs about SdTransfer for any sectors, any block and address size,    *)
(* any calls and any errors, when calls do not overlap (SoleClient):       *)
(* success means that the right data arrived, unless a command was lost or *)
(* a write ran dry, which the code does not report in the first place;     *)
(* operations start on a card that is ready, and no transfer outlives its  *)
(* call, whatever flags the calls before left behind.                      *)
(***************************************************************************)
EXTENDS SdTransfer, TLAPS

\* One caller: the calls of all tasks and of the USB interrupt exclude each
\* other.
SoleClient == \E c \in Clients : Clients = {c}

\* The 32 bits of a byte address reach every sector.
SectorsFit == \A s \in Sectors : s * SectorSize < AddressSpace

\* The card is then sent the sector that was asked for.
LEMMA NoAlias == SectorsFit => \A s \in Sectors : CardSector(s) = s
<1> SUFFICES ASSUME SectorsFit, NEW s \in Sectors PROVE CardSector(s) = s
  OBVIOUS
<1> DEFINE x == s * SectorSize
           q == x \div SectorSize
<1>1. s \in Nat /\ SectorSize \in Nat /\ SectorSize > 0
  BY SectorsAssumption, SizeAssumption
<1>2. x \in Nat /\ x < AddressSpace /\ AddressSpace \in Nat
  BY <1>1, SizeAssumption DEF SectorsFit
<1>3. x % AddressSpace = x
  <2> HIDE DEF x
  <2> QED
    BY <1>2
<1>4. q = s
  BY <1>1
<1> QED
  BY <1>3, <1>4 DEF CardSector

-----------------------------------------------------------------------------

\* The variables keep their types: what a step changes, it changes within them.
LEMMA TypeStep == SectorsFit /\ TypeOK /\ [Next]_vars => TypeOK'
<1> SUFFICES ASSUME SectorsFit, TypeOK, [Next]_vars PROVE TypeOK'
  OBVIOUS
<1>1. ASSUME NEW c \in Clients, NEW k \in Kinds, NEW s \in Sectors, Call(c, k, s)
      PROVE  TypeOK'
  <2>1. pc' \in [Clients -> PC]
    BY <1>1 DEF TypeOK, Call, Runs, PC
  <2>2. kind' \in [Clients -> AllKinds]
    BY <1>1, KindsAssumption DEF TypeOK, Call
  <2>3. sector' \in [Clients -> Sectors]
    BY <1>1 DEF TypeOK, Call
  <2>4. status' \in [Clients -> {"ok", "error"}]
    BY <1>1 DEF TypeOK, Call
  <2>5. moved' \in [Clients -> Sectors \cup {None}]
    BY <1>1 DEF TypeOK, Call
  <2>6. fault' \in [Clients -> SUBSET Faults]
    BY <1>1 DEF TypeOK, Call
  <2> QED
    BY <1>1, <2>1, <2>2, <2>3, <2>4, <2>5, <2>6
    DEF TypeOK, Call, flagVars, sdioVars, irqVars, cardVars
<1>2. ASSUME NEW c \in Clients, Start(c)
      PROVE  TypeOK'
  <2>1. pc' \in [Clients -> PC]
    BY <1>2 DEF TypeOK, Start, Runs, PC
  <2>2. TransferError' \in {"ok", "error"}
    BY <1>2 DEF TypeOK, Start
  <2>3. TransferEnd' \in 0 .. 1
    BY <1>2 DEF TypeOK, Start
  <2>4. StopCondition' \in 0 .. 1
    BY <1>2 DEF TypeOK, Start
  <2>5. dpath' \in {"idle", "read", "readCrc", "write", "writeCrc"}
    BY <1>2 DEF TypeOK, Start
  <2> QED
    BY <1>2, <2>1, <2>2, <2>3, <2>4, <2>5
    DEF TypeOK, Start, irqVars, cardVars, histVars
<1>3. ASSUME NEW c \in Clients, Config(c)
      PROVE  TypeOK'
  <2>1. pc' \in [Clients -> PC]
    BY <1>3 DEF TypeOK, Config, Runs, PC
  <2>2. cmd' \in [Clients -> Commands]
    BY <1>3 DEF TypeOK, Config, Commands
  <2>3. itOn' \in BOOLEAN
    BY <1>3 DEF TypeOK, Config
  <2>4. dmaFor' \in Clients \cup {None}
    BY <1>3 DEF TypeOK, Config
  <2>5. fifo' \in BOOLEAN
    BY <1>3 DEF TypeOK, Config
  <2> QED
    BY <1>3, <2>1, <2>2, <2>3, <2>4, <2>5
    DEF TypeOK, Config, flagVars, irqVars, cardVars, histVars
<1>4. ASSUME NEW c \in Clients, Arm(c)
      PROVE  TypeOK'
  <2>1. pc' \in [Clients -> PC]
    BY <1>4 DEF TypeOK, Arm, Runs, PC
  <2>2. dpath' \in {"idle", "read", "readCrc", "write", "writeCrc"}
    BY <1>4 DEF TypeOK, Arm
  <2> QED
    BY <1>4, <2>1, <2>2 DEF TypeOK, Arm, flagVars, irqVars, cardVars, histVars
<1>5. ASSUME NEW c \in Clients, Send(c)
      PROVE  TypeOK'
  <2>1. pc' \in [Clients -> PC]
    BY <1>5 DEF TypeOK, Send, Runs, PC
  <2>2. resp' \in Commands \cup {"none", "timeout", "ready"}
    BY <1>5 DEF TypeOK, Send, Answered, Refused, Lost, Commands
  <2>3. card' \in CardStates
    BY <1>5 DEF TypeOK, Send, Answered, Refused, Lost, React, CardStates, cardVars
  <2>4. cardAt' \in Sectors
    BY <1>5, NoAlias DEF TypeOK, Send, Answered, Refused, Lost, React, cardVars
  <2>5. cardFor' \in Clients \cup {None}
    BY <1>5 DEF TypeOK, Send, Answered, Refused, Lost, React, cardVars
  <2>6. fault' \in [Clients -> SUBSET Faults]
    BY <1>5 DEF TypeOK, Send, Answered, Refused, Lost, Faults
  <2> QED
    BY <1>5, <2>1, <2>2, <2>3, <2>4, <2>5, <2>6
    DEF TypeOK, Send, flagVars, irqVars
<1>6. ASSUME NEW c \in Clients, StartResp(c)
      PROVE  TypeOK'
  <2>1. pc' \in [Clients -> PC]
    BY <1>6 DEF TypeOK, StartResp, Answer, Runs, PC, NextPlace
  <2>2. cmd' \in [Clients -> Commands]
    BY <1>6 DEF TypeOK, StartResp, NextCommand, Commands
  <2>3. resp' \in Commands \cup {"none", "timeout", "ready"}
    BY <1>6 DEF TypeOK, StartResp, Answer
  <2> QED
    BY <1>6, <2>1, <2>2, <2>3
    DEF TypeOK, StartResp, flagVars, irqVars, cardVars, histVars
<1>7. ASSUME NEW c \in Clients, StopResp(c)
      PROVE  TypeOK'
  <2>1. pc' \in [Clients -> PC]
    BY <1>7 DEF TypeOK, StopResp, Answer, Runs, PC
  <2>2. resp' \in Commands \cup {"none", "timeout", "ready"}
    BY <1>7 DEF TypeOK, StopResp, Answer
  <2>3. StopCondition' \in 0 .. 1
    BY <1>7 DEF TypeOK, StopResp
  <2>4. status' \in [Clients -> {"ok", "error"}]
    BY <1>7 DEF TypeOK, StopResp
  <2> QED
    BY <1>7, <2>1, <2>2, <2>3, <2>4
    DEF TypeOK, StopResp, irqVars, cardVars, histVars
<1>8. ASSUME NEW c \in Clients, StatusResp(c)
      PROVE  TypeOK'
  <2>1. pc' \in [Clients -> PC]
    BY <1>8 DEF TypeOK, StatusResp, Answer, Runs, PC
  <2>2. resp' \in Commands \cup {"none", "timeout", "ready"}
    BY <1>8 DEF TypeOK, StatusResp, Answer
  <2> QED
    BY <1>8, <2>1, <2>2
    DEF TypeOK, StatusResp, flagVars, irqVars, cardVars, histVars
<1>9. ASSUME NEW c \in Clients, Wait(c)
      PROVE  TypeOK'
  <2>1. pc' \in [Clients -> PC]
    BY <1>9 DEF TypeOK, Wait, Runs, PC
  <2> QED
    BY <1>9, <2>1
    DEF TypeOK, Wait, flagVars, sdioVars, irqVars, cardVars, histVars
<1>10. ASSUME NEW c \in Clients, Clear(c)
      PROVE  TypeOK'
  <2>1. pc' \in [Clients -> PC]
    BY <1>10 DEF TypeOK, Clear, Runs, PC
  <2>2. DMAEndOfTransfer' \in 0 .. 1
    BY <1>10 DEF TypeOK, Clear
  <2> QED
    BY <1>10, <2>1, <2>2
    DEF TypeOK, Clear, sdioVars, irqVars, cardVars, histVars
<1>11. ASSUME NEW c \in Clients, WaitActive(c)
      PROVE  TypeOK'
  <2>1. pc' \in [Clients -> PC]
    BY <1>11 DEF TypeOK, WaitActive, Runs, PC
  <2> QED
    BY <1>11, <2>1
    DEF TypeOK, WaitActive, flagVars, sdioVars, irqVars, cardVars, histVars
<1>12. ASSUME NEW c \in Clients, Stop(c)
      PROVE  TypeOK'
  <2>1. pc' \in [Clients -> PC]
    BY <1>12 DEF TypeOK, Stop, Runs, PC
  <2>2. cmd' \in [Clients -> Commands]
    BY <1>12 DEF TypeOK, Stop, Commands
  <2> QED
    BY <1>12, <2>1, <2>2
    DEF TypeOK, Stop, flagVars, sdioVars, irqVars, cardVars, histVars
<1>13. ASSUME NEW c \in Clients, Result(c)
      PROVE  TypeOK'
  <2>1. pc' \in [Clients -> PC]
    BY <1>13 DEF TypeOK, Result, Runs, PC
  <2>2. status' \in [Clients -> {"ok", "error"}]
    BY <1>13 DEF TypeOK, Result
  <2>3. cmd' \in [Clients -> Commands]
    BY <1>13 DEF TypeOK, Result, Commands
  <2> QED
    BY <1>13, <2>1, <2>2, <2>3
    DEF TypeOK, Result, flagVars, sdioVars, irqVars, cardVars, histVars
<1>14. ASSUME NEW c \in Clients, Return(c)
      PROVE  TypeOK'
  <2>1. pc' \in [Clients -> PC]
    BY <1>14 DEF TypeOK, Return, Runs, PC
  <2> QED
    BY <1>14, <2>1
    DEF TypeOK, Return, flagVars, sdioVars, irqVars, cardVars, histVars
<1>15. ASSUME ReadBytes
      PROVE  TypeOK'
  <2>1. dpath' \in {"idle", "read", "readCrc", "write", "writeCrc"}
    BY <1>15 DEF TypeOK, ReadBytes
  <2>2. fifo' \in BOOLEAN
    BY <1>15 DEF TypeOK, ReadBytes
  <2> QED
    BY <1>15, <2>1, <2>2
    DEF TypeOK, ReadBytes, clientVars, flagVars, irqVars, cardVars, histVars
<1>16. ASSUME ReadDone
      PROVE  TypeOK'
  <2>1. moved' \in [Clients -> Sectors \cup {None}]
    BY <1>16 DEF TypeOK, ReadDone, DmaEnd
  <2>2. dmaFor' \in Clients \cup {None}
    BY <1>16 DEF TypeOK, ReadDone, DmaEnd
  <2>3. dmaIrq' \in BOOLEAN
    BY <1>16 DEF TypeOK, ReadDone, DmaEnd
  <2>4. fifo' \in BOOLEAN
    BY <1>16 DEF TypeOK, ReadDone
  <2> QED
    BY <1>16, <2>1, <2>2, <2>3, <2>4
    DEF TypeOK, ReadDone, clientVars, flagVars, cardVars
<1>17. ASSUME WriteBytes
      PROVE  TypeOK'
  <2>1. moved' \in [Clients -> Sectors \cup {None}]
    BY <1>17 DEF TypeOK, WriteBytes, DmaEnd
  <2>2. dmaFor' \in Clients \cup {None}
    BY <1>17 DEF TypeOK, WriteBytes, DmaEnd
  <2>3. dmaIrq' \in BOOLEAN
    BY <1>17 DEF TypeOK, WriteBytes, DmaEnd
  <2>4. dpath' \in {"idle", "read", "readCrc", "write", "writeCrc"}
    BY <1>17 DEF TypeOK, WriteBytes
  <2> QED
    BY <1>17, <2>1, <2>2, <2>3, <2>4
    DEF TypeOK, WriteBytes, clientVars, flagVars, cardVars
<1>18. ASSUME DataEnd
      PROVE  TypeOK'
  <2>1. dpath' \in {"idle", "read", "readCrc", "write", "writeCrc"}
    BY <1>18 DEF TypeOK, DataEnd
  <2>2. dataIrq' \in {"none", "end", "error"}
    BY <1>18 DEF TypeOK, DataEnd, Raise
  <2>3. card' \in CardStates
    BY <1>18 DEF TypeOK, DataEnd, CardStates
  <2> QED
    BY <1>18, <2>1, <2>2, <2>3
    DEF TypeOK, DataEnd, clientVars, flagVars, histVars
<1>19. ASSUME DataError
      PROVE  TypeOK'
  <2>1. dpath' \in {"idle", "read", "readCrc", "write", "writeCrc"}
    BY <1>19 DEF TypeOK, DataError
  <2>2. dataIrq' \in {"none", "end", "error"}
    BY <1>19 DEF TypeOK, DataError, Raise
  <2>3. card' \in CardStates
    BY <1>19 DEF TypeOK, DataError, CardStates
  <2>4. fault' \in [Clients -> SUBSET Faults]
    BY <1>19 DEF TypeOK, DataError, Faults
  <2> QED
    BY <1>19, <2>1, <2>2, <2>3, <2>4
    DEF TypeOK, DataError, clientVars, flagVars
<1>20. ASSUME DataTimeout
      PROVE  TypeOK'
  <2>1. dpath' \in {"idle", "read", "readCrc", "write", "writeCrc"}
    BY <1>20 DEF TypeOK, DataTimeout
  <2>2. dataIrq' \in {"none", "end", "error"}
    BY <1>20 DEF TypeOK, DataTimeout, Raise
  <2> QED
    BY <1>20, <2>1, <2>2
    DEF TypeOK, DataTimeout, clientVars, flagVars, cardVars, histVars
<1>21. ASSUME Programmed
      PROVE  TypeOK'
  <2>1. card' \in CardStates
    BY <1>21 DEF TypeOK, Programmed, CardStates
  <2> QED
    BY <1>21, <2>1
    DEF TypeOK, Programmed, clientVars, flagVars, sdioVars, irqVars, histVars
<1>22. ASSUME DataInterrupt
      PROVE  TypeOK'
  <2>1. dataIrq' \in {"none", "end", "error"}
    BY <1>22 DEF TypeOK, DataInterrupt
  <2>2. TransferError' \in {"ok", "error"}
    BY <1>22 DEF TypeOK, DataInterrupt
  <2>3. TransferEnd' \in 0 .. 1
    BY <1>22 DEF TypeOK, DataInterrupt
  <2>4. itOn' \in BOOLEAN
    BY <1>22 DEF TypeOK, DataInterrupt
  <2> QED
    BY <1>22, <2>1, <2>2, <2>3, <2>4
    DEF TypeOK, DataInterrupt, clientVars, cardVars, histVars
<1>23. ASSUME DmaInterrupt
      PROVE  TypeOK'
  <2>1. dmaIrq' \in BOOLEAN
    BY <1>23 DEF TypeOK, DmaInterrupt
  <2>2. DMAEndOfTransfer' \in 0 .. 1
    BY <1>23 DEF TypeOK, DmaInterrupt
  <2> QED
    BY <1>23, <2>1, <2>2
    DEF TypeOK, DmaInterrupt, clientVars, sdioVars, cardVars, histVars
<1>24. ASSUME Underrun
      PROVE  TypeOK'
  <2>1. dpath' \in {"idle", "read", "readCrc", "write", "writeCrc"}
    BY <1>24 DEF TypeOK, Underrun
  <2>2. card' \in CardStates
    BY <1>24 DEF TypeOK, Underrun, CardStates
  <2>3. fault' \in [Clients -> SUBSET Faults]
    BY <1>24 DEF TypeOK, Underrun, Faults
  <2> QED
    BY <1>24, <2>1, <2>2, <2>3
    DEF TypeOK, Underrun, clientVars, flagVars, irqVars
<1>25. ASSUME UNCHANGED vars
      PROVE  TypeOK'
  BY <1>25
  DEF vars, TypeOK, clientVars, flagVars, sdioVars, irqVars, cardVars, histVars
<1> QED
  BY <1>1, <1>2, <1>3, <1>4, <1>5, <1>6, <1>7, <1>8, <1>9, <1>10, <1>11,
     <1>12, <1>13, <1>14, <1>15, <1>16, <1>17, <1>18, <1>19, <1>20, <1>21,
     <1>22, <1>23, <1>24, <1>25
  DEF Next, Body, Hardware

-----------------------------------------------------------------------------

\* The states of the card along a call: ready until it has the command that
\* starts the transfer, and ready again when the call returns.
CardInv(c) ==
    /\ pc[c] \in {"idle", "start", "config", "done"} => card = "tran"
    /\ pc[c] \in {"send", "resp"} /\ cmd[c] \in {"len", "app", "count"} =>
          card = "tran"
    /\ pc[c] = "send" /\ cmd[c] = "go" => card = "tran"
    /\ pc[c] = "arm" => cmd[c] = "go"
    /\ pc[c] = "arm" /\ IsRead(kind[c]) => card = "tran"
    /\ pc[c] = "resp" /\ cmd[c] = "status" /\ resp = "ready" => card = "tran"

\* The states of the data path along a call: of the call's own direction, and
\* at rest from the end of the second loop of the wait.
PathInv(c) ==
    /\ dpath # "idle" => (IsRead(kind[c]) <=> dpath \in {"read", "readCrc"})
    /\ pc[c] \in {"idle", "start", "config", "stop", "result", "done"} =>
          dpath = "idle"
    /\ pc[c] \in {"send", "resp"} /\ cmd[c] \in {"stop", "status"} =>
          dpath = "idle"
    /\ pc[c] \in {"idle", "start", "config", "done"} => ~fifo

LEMMA CardStep ==
  ASSUME NEW c, Clients = {c}, TypeOK, CardInv(c), [Next]_vars
  PROVE  CardInv(c)'
<1> c \in Clients
  OBVIOUS
<1>1. ASSUME NEW k \in Kinds, NEW s \in Sectors, Call(c, k, s)
      PROVE  CardInv(c)'
  BY <1>1 DEF Call, Runs, CardInv, cardVars
<1>2. ASSUME Start(c)
      PROVE  CardInv(c)'
  BY <1>2 DEF Start, Runs, CardInv, cardVars
<1>3. ASSUME Config(c)
      PROVE  CardInv(c)'
  BY <1>3 DEF Config, Runs, CardInv, cardVars
<1>4. ASSUME Arm(c)
      PROVE  CardInv(c)'
  BY <1>4 DEF Arm, Runs, CardInv, cardVars
<1>5. ASSUME Send(c)
      PROVE  CardInv(c)'
  BY <1>5
  DEF Send, Answered, Refused, Lost, React, Accepts, Runs, TypeOK, CardInv,
      cardVars
<1>6. ASSUME StartResp(c)
      PROVE  CardInv(c)'
  <2>1. CASE resp # cmd[c]
    BY <1>6, <2>1 DEF StartResp, Answer, Runs, TypeOK, CardInv
  <2>2. CASE resp = cmd[c]
    <3>1. /\ pc' = [pc EXCEPT ![c] = NextPlace(cmd[c], kind[c])]
          /\ cmd' = [cmd EXCEPT ![c] = NextCommand(cmd[c], kind[c])]
          /\ pc[c] = "resp" /\ cmd[c] \in {"len", "app", "count", "go"}
          /\ card' = card /\ kind' = kind
      BY <1>6, <2>2 DEF StartResp, Answer, Runs, TypeOK, Commands, cardVars
    <3>2. CASE cmd[c] = "go"
      <4>1. pc'[c] \in {"wait", "arm"} /\ cmd'[c] = "go"
        BY <3>1, <3>2 DEF TypeOK, NextPlace, NextCommand
      <4>2. pc'[c] = "arm" => ~IsRead(kind'[c])
        BY <3>1, <3>2 DEF TypeOK, NextPlace
      <4> QED
        BY <4>1, <4>2 DEF CardInv
    <3>3. CASE cmd[c] # "go"
      <4>1. card' = "tran"
        BY <3>1, <3>3 DEF CardInv
      <4>2. pc'[c] = "arm" => cmd'[c] = "go"
        BY <3>1, <3>3 DEF TypeOK, NextPlace, NextCommand, IsRead
      <4> QED
        BY <4>1, <4>2 DEF CardInv
    <3> QED
      BY <3>2, <3>3
  <2> QED
    BY <2>1, <2>2
<1>7. ASSUME StopResp(c)
      PROVE  CardInv(c)'
  BY <1>7 DEF StopResp, Answer, Runs, CardInv
<1>8. ASSUME StatusResp(c)
      PROVE  CardInv(c)'
  BY <1>8 DEF StatusResp, Answer, CardIsReady, Runs, CardInv, cardVars
<1>9. ASSUME Wait(c)
      PROVE  CardInv(c)'
  BY <1>9 DEF Wait, Runs, CardInv, cardVars
<1>10. ASSUME Clear(c)
      PROVE  CardInv(c)'
  BY <1>10 DEF Clear, Runs, CardInv
<1>11. ASSUME WaitActive(c)
      PROVE  CardInv(c)'
  BY <1>11 DEF WaitActive, Active, Runs, CardInv
<1>12. ASSUME Stop(c)
      PROVE  CardInv(c)'
  BY <1>12 DEF Stop, Runs, TypeOK, CardInv
<1>13. ASSUME Result(c)
      PROVE  CardInv(c)'
  BY <1>13 DEF Result, Runs, TypeOK, CardInv
<1>14. ASSUME Return(c)
      PROVE  CardInv(c)'
  BY <1>14 DEF Return, Runs, CardInv, cardVars
<1>15. ASSUME ReadBytes
      PROVE  CardInv(c)'
  BY <1>15 DEF ReadBytes, CardInv, clientVars, cardVars
<1>16. ASSUME ReadDone
      PROVE  CardInv(c)'
  BY <1>16 DEF ReadDone, DmaEnd, CardInv, clientVars, cardVars
<1>17. ASSUME WriteBytes
      PROVE  CardInv(c)'
  BY <1>17 DEF WriteBytes, DmaEnd, CardInv, clientVars, cardVars
<1>18. ASSUME DataEnd
      PROVE  CardInv(c)'
  BY <1>18 DEF DataEnd, Raise, CardInv, clientVars
<1>19. ASSUME DataError
      PROVE  CardInv(c)'
  BY <1>19 DEF DataError, Raise, CardInv, clientVars
<1>20. ASSUME DataTimeout
      PROVE  CardInv(c)'
  BY <1>20 DEF DataTimeout, Raise, CardInv, clientVars, cardVars
<1>21. ASSUME Programmed
      PROVE  CardInv(c)'
  BY <1>21 DEF Programmed, CardInv, clientVars, cardVars
<1>22. ASSUME DataInterrupt
      PROVE  CardInv(c)'
  BY <1>22 DEF DataInterrupt, CardInv, clientVars, cardVars
<1>23. ASSUME DmaInterrupt
      PROVE  CardInv(c)'
  BY <1>23 DEF DmaInterrupt, CardInv, clientVars, sdioVars, cardVars
<1>24. ASSUME Underrun
      PROVE  CardInv(c)'
  BY <1>24 DEF Underrun, CardInv, clientVars
<1>25. ASSUME UNCHANGED vars
      PROVE  CardInv(c)'
  BY <1>25 DEF vars, CardInv, clientVars, sdioVars, cardVars
<1> QED
  BY <1>1, <1>2, <1>3, <1>4, <1>5, <1>6, <1>7, <1>8, <1>9, <1>10, <1>11,
     <1>12, <1>13, <1>14, <1>15, <1>16, <1>17, <1>18, <1>19, <1>20, <1>21,
     <1>22, <1>23, <1>24, <1>25
  DEF Next, Body, Hardware

LEMMA PathStep ==
  ASSUME NEW c, Clients = {c}, TypeOK, CardInv(c), PathInv(c), [Next]_vars
  PROVE  PathInv(c)'
<1> c \in Clients
  OBVIOUS
<1>1. ASSUME NEW k \in Kinds, NEW s \in Sectors, Call(c, k, s)
      PROVE  PathInv(c)'
  BY <1>1 DEF Call, Runs, PathInv, sdioVars
<1>2. ASSUME Start(c)
      PROVE  PathInv(c)'
  BY <1>2 DEF Start, Runs, PathInv, sdioVars
<1>3. ASSUME Config(c)
      PROVE  PathInv(c)'
  BY <1>3 DEF Config, Runs, PathInv
<1>4. ASSUME Arm(c)
      PROVE  PathInv(c)'
  BY <1>4 DEF Arm, Runs, CardInv, PathInv
<1>5. ASSUME Send(c)
      PROVE  PathInv(c)'
  BY <1>5 DEF Send, Answered, Refused, Lost, React, Accepts, Runs, PathInv
<1>6. ASSUME StartResp(c)
      PROVE  PathInv(c)'
  BY <1>6 DEF StartResp, Answer, NextPlace, NextCommand, Runs, TypeOK, PathInv
<1>7. ASSUME StopResp(c)
      PROVE  PathInv(c)'
  BY <1>7 DEF StopResp, Answer, Runs, PathInv
<1>8. ASSUME StatusResp(c)
      PROVE  PathInv(c)'
  BY <1>8 DEF StatusResp, Answer, CardIsReady, Runs, PathInv
<1>9. ASSUME Wait(c)
      PROVE  PathInv(c)'
  BY <1>9 DEF Wait, Runs, PathInv, sdioVars
<1>10. ASSUME Clear(c)
      PROVE  PathInv(c)'
  BY <1>10 DEF Clear, Runs, PathInv, sdioVars
<1>11. ASSUME WaitActive(c)
      PROVE  PathInv(c)'
  BY <1>11 DEF WaitActive, Active, Runs, TypeOK, PathInv, sdioVars
<1>12. ASSUME Stop(c)
      PROVE  PathInv(c)'
  BY <1>12 DEF Stop, Runs, TypeOK, PathInv, sdioVars
<1>13. ASSUME Result(c)
      PROVE  PathInv(c)'
  BY <1>13 DEF Result, Runs, PathInv, sdioVars
<1>14. ASSUME Return(c)
      PROVE  PathInv(c)'
  BY <1>14 DEF Return, Runs, PathInv, sdioVars
<1>15. ASSUME ReadBytes
      PROVE  PathInv(c)'
  BY <1>15 DEF ReadBytes, PathInv, clientVars, sdioVars
<1>16. ASSUME ReadDone
      PROVE  PathInv(c)'
  BY <1>16 DEF ReadDone, DmaEnd, PathInv, clientVars
<1>17. ASSUME WriteBytes
      PROVE  PathInv(c)'
  BY <1>17 DEF WriteBytes, DmaEnd, PathInv, clientVars
<1>18. ASSUME DataEnd
      PROVE  PathInv(c)'
  BY <1>18 DEF DataEnd, Raise, PathInv, clientVars
<1>19. ASSUME DataError
      PROVE  PathInv(c)'
  BY <1>19 DEF DataError, Raise, PathInv, clientVars
<1>20. ASSUME DataTimeout
      PROVE  PathInv(c)'
  BY <1>20 DEF DataTimeout, Raise, PathInv, clientVars
<1>21. ASSUME Programmed
      PROVE  PathInv(c)'
  BY <1>21 DEF Programmed, PathInv, clientVars, sdioVars
<1>22. ASSUME DataInterrupt
      PROVE  PathInv(c)'
  BY <1>22 DEF DataInterrupt, PathInv, clientVars, sdioVars
<1>23. ASSUME DmaInterrupt
      PROVE  PathInv(c)'
  BY <1>23 DEF DmaInterrupt, PathInv, clientVars, sdioVars
<1>24. ASSUME Underrun
      PROVE  PathInv(c)'
  BY <1>24 DEF Underrun, PathInv, clientVars
<1>25. ASSUME UNCHANGED vars
      PROVE  PathInv(c)'
  BY <1>25 DEF vars, PathInv, clientVars, sdioVars
<1> QED
  BY <1>1, <1>2, <1>3, <1>4, <1>5, <1>6, <1>7, <1>8, <1>9, <1>10, <1>11,
     <1>12, <1>13, <1>14, <1>15, <1>16, <1>17, <1>18, <1>19, <1>20, <1>21,
     <1>22, <1>23, <1>24, <1>25
  DEF Next, Body, Hardware

-----------------------------------------------------------------------------

\* A call that has met none of the faults that are not reported.
Clean(c) == "command" \notin fault[c] /\ "underrun" \notin fault[c]

\* Everything is set up for a transfer of c that has not begun.
Ready(c) ==
    /\ TransferError = "ok" /\ dataIrq = "none" /\ itOn
    /\ dmaFor = c /\ ~fifo
    /\ "data" \notin fault[c]

\* The words of c's transfer are in its buffer, or on their way there.
Intact(c) ==
    /\ "data" \notin fault[c]
    /\ IF fifo THEN dmaFor = c ELSE moved[c] = cardAt

\* The transfer of c: it runs, its CRC is awaited, it has ended well, or it has
\* failed and the interrupt says so.
Running(c) ==
    /\ dpath \in {"read", "write"}
    /\ card \in {"data", "dataMulti", "rcv", "rcvMulti"} /\ cardFor = c
    /\ Ready(c)
Checking(c) ==
    /\ dpath \in {"readCrc", "writeCrc"}
    /\ TransferError = "ok" /\ dataIrq = "none" /\ itOn
    /\ Intact(c)
Succeeded(c) ==
    /\ dpath = "idle"
    /\ TransferError = "ok" /\ dataIrq \in {"none", "end"}
    /\ Intact(c)
Failed ==
    /\ dpath = "idle"
    /\ \/ dataIrq = "error"
       \/ dataIrq = "none" /\ TransferError = "error"

Transfer(c) ==
    /\ cardAt = sector[c]
    /\ Running(c) \/ Checking(c) \/ Succeeded(c) \/ Failed

\* A write whose command was accepted and whose data path is not armed yet.
Accepted(c) ==
    /\ Ready(c) /\ dpath = "idle"
    /\ card \in {"rcv", "rcvMulti"} /\ cardFor = c /\ cardAt = sector[c]

DataInv(c) ==
    /\ pc[c] \in {"idle", "start", "config", "done"} => dataIrq = "none"
    /\ pc[c] \in {"start", "config"} => "data" \notin fault[c]
    /\ pc[c] = "config" => TransferError = "ok"
    /\ pc[c] \in {"send", "resp"} /\ cmd[c] \in {"len", "app", "count"} =>
          Ready(c) /\ dpath = "idle"
    /\ pc[c] \in {"send", "resp"} /\ cmd[c] \in {"app", "count"} =>
          ~IsRead(kind[c])
    /\ pc[c] = "arm" /\ IsRead(kind[c]) => Ready(c) /\ dpath = "idle"
    /\ pc[c] = "send" /\ cmd[c] = "go" =>
          Ready(c) /\ dpath = IF IsRead(kind[c]) THEN "read" ELSE "idle"
    /\ pc[c] = "resp" /\ cmd[c] \in {"len", "app", "count", "go"} /\ Clean(c) =>
          resp = cmd[c]
    /\ pc[c] = "resp" /\ cmd[c] = "go" /\ Clean(c) =>
          IF IsRead(kind[c]) THEN Transfer(c) ELSE Accepted(c)
    /\ pc[c] = "arm" /\ ~IsRead(kind[c]) /\ Clean(c) => Accepted(c)
    /\ pc[c] \in {"wait", "clear", "active", "stop", "result"} /\ Clean(c) =>
          Transfer(c)
    /\ pc[c] \in {"send", "resp"} /\ cmd[c] = "stop" /\ Clean(c) => Transfer(c)
    /\ \/ pc[c] \in {"send", "resp"} /\ cmd[c] = "status"
       \/ pc[c] = "done"
       => (Clean(c) /\ status[c] = "ok" => cardAt = sector[c] /\ Intact(c))

LEMMA DataStep ==
  ASSUME NEW c, Clients = {c}, SectorsFit, TypeOK, CardInv(c), PathInv(c),
         DataInv(c), [Next]_vars
  PROVE  DataInv(c)'
<1> c \in Clients /\ c # None
  BY ClientsAssumption DEF Clients
<1> USE DEF Clean, Ready, Intact, Running, Checking, Succeeded, Failed, Transfer,
            Accepted
<1>1. ASSUME NEW k \in Kinds, NEW s \in Sectors, Call(c, k, s)
      PROVE  DataInv(c)'
  BY <1>1 DEF Call, Runs, TypeOK, DataInv, irqVars
<1>2. ASSUME Start(c)
      PROVE  DataInv(c)'
  BY <1>2 DEF Start, Runs, DataInv, irqVars, histVars
<1>3. ASSUME Config(c)
      PROVE  DataInv(c)'
  BY <1>3
  DEF Config, Runs, TypeOK, PathInv, DataInv, flagVars, irqVars, histVars
<1>4. ASSUME Arm(c)
      PROVE  DataInv(c)'
  BY <1>4
  DEF Arm, Runs, TypeOK, CardInv, DataInv, flagVars, irqVars, cardVars,
      histVars
<1>5. ASSUME Send(c)
      PROVE  DataInv(c)'
  <2>1. /\ pc[c] = "send" /\ pc' = [pc EXCEPT ![c] = "resp"]
        /\ UNCHANGED <<kind, sector, cmd, status, TransferError, itOn, dpath,
                       fifo, dmaFor, dataIrq, moved>>
    BY <1>5 DEF Send, Runs, flagVars, irqVars
  <2>2. pc'[c] = "resp" /\ cmd[c] \in Commands
    BY <2>1 DEF TypeOK
  <2>3. CASE Answered(c)
    <3>1. fault' = fault
      BY <2>3 DEF Answered
    <3>2. CASE cmd[c] \in {"len", "app", "count"}
      <4>1. resp' = cmd[c]
        BY <2>3, <3>2 DEF Answered
      <4> QED
        BY <2>1, <2>2, <3>1, <3>2, <4>1 DEF DataInv
    <3>3. CASE cmd[c] = "go"
      <4>1. resp' = cmd[c] /\ cardAt' = CardSector(sector[c]) /\ cardFor' = c
        BY <2>3, <3>3 DEF Answered, React
      <4>2. cardAt' = sector'[c]
        BY <2>1, <4>1, NoAlias DEF TypeOK
      <4>3. card' \in (IF IsRead(kind[c]) THEN {"data", "dataMulti"}
                                         ELSE {"rcv", "rcvMulti"})
        BY <2>3, <3>3 DEF Answered, React, IsRead
      <4> QED
        BY <2>1, <2>2, <3>1, <3>3, <4>1, <4>2, <4>3 DEF DataInv, IsRead
    <3>4. CASE cmd[c] = "stop"
      <4>1. cardAt' = cardAt /\ dpath = "idle"
        BY <2>1, <2>3, <3>4 DEF Answered, React, PathInv
      <4> QED
        BY <2>1, <2>2, <3>1, <3>4, <4>1 DEF DataInv
    <3>5. CASE cmd[c] = "status"
      <4>1. cardAt' = cardAt
        BY <2>3, <3>5 DEF Answered, React
      <4> QED
        BY <2>1, <2>2, <3>1, <3>5, <4>1 DEF DataInv
    <3> QED
      BY <2>2, <3>2, <3>3, <3>4, <3>5 DEF Commands
  <2>4. CASE Refused(c)
    <3>1. fault' = fault /\ UNCHANGED <<card, cardAt, cardFor>>
      BY <2>4 DEF Refused, cardVars
    <3>2. cmd[c] = "stop"
      BY <2>1, <2>2, <2>4 DEF Refused, Accepts, CardInv, Commands
    <3> QED
      BY <2>1, <2>2, <3>1, <3>2 DEF DataInv
  <2>5. CASE Lost(c)
    <3>1. "command" \in fault'[c] /\ ("data" \notin fault[c] => "data" \notin fault'[c])
      BY <2>5 DEF Lost, TypeOK
    <3> QED
      BY <2>1, <2>2, <3>1 DEF DataInv
  <2> QED
    BY <1>5, <2>3, <2>4, <2>5 DEF Send
<1>6. ASSUME StartResp(c)
      PROVE  DataInv(c)'
  <2>1. /\ pc[c] = "resp" /\ cmd[c] \in {"len", "app", "count", "go"}
        /\ UNCHANGED <<kind, sector, status, TransferError, itOn, dpath, fifo,
                       dmaFor, dataIrq, card, cardAt, cardFor, moved, fault>>
    BY <1>6
    DEF StartResp, Answer, Runs, flagVars, irqVars, cardVars, histVars, TypeOK,
        Commands
  <2>2. CASE resp # cmd[c]
    <3>1. pc'[c] = "wait" /\ ~Clean(c)
      BY <1>6, <2>1, <2>2 DEF StartResp, Answer, Runs, TypeOK, DataInv
    <3> QED
      BY <2>1, <3>1 DEF DataInv
  <2>3. CASE resp = cmd[c]
    <3>1. /\ pc' = [pc EXCEPT ![c] = NextPlace(cmd[c], kind[c])]
          /\ cmd' = [cmd EXCEPT ![c] = NextCommand(cmd[c], kind[c])]
      BY <1>6, <2>3 DEF StartResp, Answer, Runs
    <3>2. CASE cmd[c] = "go"
      <4>1. pc'[c] = (IF IsRead(kind[c]) THEN "wait" ELSE "arm")
        BY <3>1, <3>2 DEF TypeOK, NextPlace
      <4> QED
        BY <2>1, <3>2, <4>1 DEF DataInv, IsRead
    <3>3. CASE cmd[c] # "go"
      <4>1. Ready(c) /\ dpath = "idle"
        BY <2>1, <3>3 DEF DataInv
      <4>2. \/ pc'[c] = "arm" /\ IsRead(kind[c])
            \/ /\ pc'[c] = "send" /\ cmd'[c] \in {"app", "count", "go"}
               /\ ~IsRead(kind[c])
        <5>1. CASE cmd[c] = "len"
          <6>1. pc'[c] = (IF IsRead(kind[c]) THEN "arm" ELSE "send")
            BY <3>1, <5>1 DEF TypeOK, NextPlace
          <6>2. cmd'[c] \in {"app", "go"}
            BY <3>1, <5>1 DEF TypeOK, NextCommand
          <6> QED
            BY <6>1, <6>2
        <5>2. CASE cmd[c] \in {"app", "count"}
          <6>1. pc'[c] = "send" /\ cmd'[c] \in {"count", "go"}
            BY <3>1, <5>2 DEF TypeOK, NextPlace, NextCommand
          <6>2. ~IsRead(kind[c])
            BY <2>1, <5>2 DEF DataInv
          <6> QED
            BY <6>1, <6>2
        <5> QED
          BY <2>1, <3>3, <5>1, <5>2
      <4> QED
        BY <2>1, <4>1, <4>2 DEF DataInv, IsRead
    <3> QED
      BY <3>2, <3>3
  <2> QED
    BY <2>2, <2>3
<1>7. ASSUME StopResp(c)
      PROVE  DataInv(c)'
  BY <1>7 DEF StopResp, Answer, Runs, DataInv, irqVars, cardVars, histVars
<1>8. ASSUME StatusResp(c)
      PROVE  DataInv(c)'
  BY <1>8
  DEF StatusResp, Answer, CardIsReady, Runs, MayRun, DataInv, irqVars,
      cardVars, histVars
<1>9. ASSUME Wait(c)
      PROVE  DataInv(c)'
  BY <1>9
  DEF Wait, Runs, DataInv, flagVars, sdioVars, irqVars, cardVars, histVars
<1>10. ASSUME Clear(c)
      PROVE  DataInv(c)'
  BY <1>10
  DEF Clear, Runs, DataInv, flagVars, sdioVars, irqVars, cardVars, histVars
<1>11. ASSUME WaitActive(c)
      PROVE  DataInv(c)'
  BY <1>11
  DEF WaitActive, Active, Runs, DataInv, flagVars, sdioVars, irqVars, cardVars,
      histVars
<1>12. ASSUME Stop(c)
      PROVE  DataInv(c)'
  BY <1>12
  DEF Stop, Runs, TypeOK, DataInv, flagVars, sdioVars, irqVars, cardVars,
      histVars
<1>13. ASSUME Result(c)
      PROVE  DataInv(c)'
  BY <1>13
  DEF Result, Runs, MayRun, TypeOK, PathInv, DataInv, sdioVars, cardVars,
      histVars
<1>14. ASSUME Return(c)
      PROVE  DataInv(c)'
  BY <1>14 DEF Return, Runs, DataInv, sdioVars, irqVars, cardVars, histVars
<1>15. ASSUME ReadBytes
      PROVE  DataInv(c)'
  BY <1>15
  DEF ReadBytes, TypeOK, CardInv, DataInv, clientVars, flagVars, sdioVars,
      irqVars, cardVars, histVars
<1>16. ASSUME ReadDone
      PROVE  DataInv(c)'
  BY <1>16
  DEF ReadDone, DmaEnd, TypeOK, DataInv, clientVars, flagVars, cardVars
<1>17. ASSUME WriteBytes
      PROVE  DataInv(c)'
  BY <1>17
  DEF WriteBytes, DmaEnd, TypeOK, PathInv, DataInv, clientVars, flagVars,
      cardVars
<1>18. ASSUME DataEnd
      PROVE  DataInv(c)'
  BY <1>18 DEF DataEnd, Raise, PathInv, DataInv, clientVars, flagVars, histVars
<1>19. ASSUME DataError
      PROVE  DataInv(c)'
  <2>1. /\ dpath # "idle" /\ dpath' = "idle"
        /\ UNCHANGED <<pc, kind, sector, cmd, status, resp, TransferError, itOn,
                       fifo, dmaFor, cardAt, cardFor, moved>>
    BY <1>19 DEF DataError, clientVars, flagVars
  <2>2. Clean(c)' <=> Clean(c)
    BY <1>19 DEF DataError, TypeOK
  <2>3. Transfer(c) => Transfer(c)'
    <3> SUFFICES ASSUME Transfer(c) PROVE Transfer(c)'
      OBVIOUS
    <3>1. itOn
      BY <2>1
    <3>2. dataIrq' = "error"
      BY <1>19, <3>1 DEF DataError, Raise
    <3>3. /\ cardAt = sector[c] /\ dpath' = "idle"
          /\ cardAt' = cardAt /\ sector' = sector
      BY <2>1
    <3> QED
      BY <3>2, <3>3
  <2>4. CASE pc[c] = "send"
    <3>1. cmd[c] \in {"stop", "status"} => dpath = "idle"
      BY <2>4 DEF PathInv
    <3>2. cmd[c] \in {"len", "app", "count", "go"} => card = "tran"
      BY <2>4 DEF CardInv
    <3>3. card # "tran"
      BY <1>19 DEF DataError
    <3> QED
      BY <2>1, <3>1, <3>2, <3>3 DEF TypeOK, Commands
  <2>5. CASE pc[c] = "resp"
    <3>1. cmd[c] \notin {"stop", "status"}
      BY <2>1, <2>5 DEF PathInv
    <3>2. cmd[c] \notin {"len", "app", "count"}
      BY <2>1, <2>5 DEF DataInv
    <3>3. cmd[c] = "go"
      BY <3>1, <3>2 DEF TypeOK, Commands
    <3> QED
      BY <2>1, <2>2, <2>3, <2>5, <3>3 DEF DataInv, IsRead
  <2>6. CASE pc[c] = "arm"
    <3>1. ~IsRead(kind[c]) /\ ~Clean(c)
      BY <2>1, <2>6 DEF DataInv
    <3> QED
      BY <2>1, <2>2, <2>6, <3>1 DEF DataInv, IsRead
  <2>7. CASE pc[c] \in {"wait", "clear", "active"}
    BY <2>1, <2>2, <2>3, <2>7 DEF DataInv
  <2>8. pc[c] \notin {"idle", "start", "config", "stop", "result", "done"}
    BY <2>1 DEF PathInv
  <2> QED
    BY <2>4, <2>5, <2>6, <2>7, <2>8 DEF TypeOK, PC
<1>20. ASSUME DataTimeout
      PROVE  DataInv(c)'
  BY <1>20 DEF DataTimeout, Raise, PathInv, DataInv, clientVars, histVars
<1>21. ASSUME Programmed
      PROVE  DataInv(c)'
  BY <1>21
  DEF Programmed, DataInv, clientVars, flagVars, sdioVars, irqVars, histVars
<1>22. ASSUME DataInterrupt
      PROVE  DataInv(c)'
  BY <1>22 DEF DataInterrupt, DataInv, clientVars, cardVars, histVars
<1>23. ASSUME DmaInterrupt
      PROVE  DataInv(c)'
  BY <1>23 DEF DmaInterrupt, DataInv, clientVars, sdioVars, cardVars, histVars
<1>24. ASSUME Underrun
      PROVE  DataInv(c)'
  <2>1. /\ dpath = "write" /\ dpath' = "idle" /\ card \in {"rcv", "rcvMulti"}
        /\ fault' = [fault EXCEPT ![cardFor] = @ \cup {"underrun"}]
        /\ UNCHANGED <<pc, kind, sector, cmd, status, resp, TransferError, itOn,
                       fifo, dmaFor, dataIrq, cardAt, cardFor, moved>>
    BY <1>24 DEF Underrun, clientVars, flagVars, irqVars
  <2>2. ~IsRead(kind[c])
    BY <2>1 DEF PathInv
  <2>3. pc[c] # "send"
    <3>1. pc[c] = "send" => cmd[c] \notin {"stop", "status"}
      BY <2>1 DEF PathInv
    <3>2. pc[c] = "send" => cmd[c] \notin {"len", "app", "count", "go"}
      BY <2>1 DEF CardInv
    <3> QED
      BY <3>1, <3>2 DEF TypeOK, Commands
  <2>4. pc[c] = "resp" => cmd[c] = "go"
    <3>1. pc[c] = "resp" => cmd[c] \notin {"stop", "status"}
      BY <2>1 DEF PathInv
    <3>2. pc[c] = "resp" => cmd[c] \notin {"len", "app", "count"}
      BY <2>1 DEF CardInv
    <3> QED
      BY <3>1, <3>2 DEF TypeOK, Commands
  <2>5. pc[c] \in {"resp", "arm", "wait", "clear", "active"}
    BY <2>1, <2>3 DEF PathInv, TypeOK, PC
  <2>6. Clean(c) => cardFor = c
    <3> SUFFICES ASSUME Clean(c) PROVE cardFor = c
      OBVIOUS
    <3>1. pc[c] \notin {"resp", "arm"}
      BY <2>1, <2>2, <2>4 DEF DataInv
    <3>2. Transfer(c)
      BY <2>5, <3>1 DEF DataInv
    <3> QED
      BY <2>1, <3>2
  <2>7. ~Clean(c)'
    BY <2>1, <2>6 DEF TypeOK
  <2> QED
    BY <2>1, <2>2, <2>4, <2>5, <2>7 DEF DataInv, IsRead
<1>25. ASSUME UNCHANGED vars
      PROVE  DataInv(c)'
  BY <1>25
  DEF vars, DataInv, clientVars, flagVars, sdioVars, irqVars, cardVars,
      histVars
<1> QED
  BY <1>1, <1>2, <1>3, <1>4, <1>5, <1>6, <1>7, <1>8, <1>9, <1>10, <1>11,
     <1>12, <1>13, <1>14, <1>15, <1>16, <1>17, <1>18, <1>19, <1>20, <1>21,
     <1>22, <1>23, <1>24, <1>25
  DEF Next, Body, Hardware

-----------------------------------------------------------------------------

\* A call that nothing has gone wrong in.
Faultless(c) == fault[c] = {}

\* The flags and the card of a call that nothing has gone wrong in: no error is
\* recorded or on its way, and the card of a call of several blocks waits for
\* the command that stops it, which the call is going to send.
ErrorInv(c) ==
    /\ card # "tran" => cardFor = c
    /\ \/ pc[c] \in {"config", "arm", "wait", "clear", "active", "stop"}
       \/ pc[c] \in {"send", "resp"} /\ cmd[c] \in {"len", "app", "count", "go"}
       => StopCondition = IF IsMulti(kind[c]) THEN 1 ELSE 0
    /\ pc[c] \in {"send", "resp"} /\ cmd[c] = "stop" => IsMulti(kind[c])
    /\ Faultless(c) =>
          /\ pc[c] # "idle" => status[c] = "ok"
          /\ pc[c] \notin {"idle", "start"} =>
                TransferError = "ok" /\ dataIrq # "error"
          /\ \/ pc[c] \in {"wait", "clear", "active", "stop"}
             \/ pc[c] = "arm" /\ ~IsRead(kind[c])
             \/ pc[c] = "resp" /\ cmd[c] = "go"
             \/ pc[c] = "send" /\ cmd[c] = "stop"
             => (IsMulti(kind[c]) => card \in {"dataMulti", "rcvMulti"})
          /\ pc[c] = "resp" /\ cmd[c] = "stop" => resp = "stop"

\* A data path is never armed for a card that knows nothing of it, unless a
\* command was lost.
LEMMA NoTimeoutUnlessLost ==
  ASSUME NEW c, Clients = {c}, TypeOK, PathInv(c), DataInv(c), DataTimeout
  PROVE  ~Clean(c)
<1> SUFFICES ASSUME Clean(c) PROVE FALSE
  OBVIOUS
<1>1. /\ dpath \in {"read", "write"} /\ card \in {"tran", "prg"}
      /\ ~(pc[c] \in {"send", "resp"} /\ cmd[c] = "go")
  BY DEF DataTimeout
<1>2. pc[c] \in {"wait", "clear", "active"}
  <2>1. pc[c] \in PC /\ cmd[c] \in Commands
    BY DEF TypeOK
  <2>2. pc[c] \notin {"send", "resp"}
    BY <1>1, <2>1 DEF PathInv, DataInv, Commands
  <2>3. pc[c] # "arm"
    BY <1>1 DEF DataInv, Accepted
  <2> QED
    BY <1>1, <2>1, <2>2, <2>3 DEF PathInv, PC
<1>3. Transfer(c)
  BY <1>2 DEF DataInv
<1> QED
  BY <1>1, <1>3 DEF Transfer, Running, Checking, Succeeded, Failed

LEMMA ErrorStep ==
  ASSUME NEW c, Clients = {c}, TypeOK, CardInv(c), PathInv(c), DataInv(c),
         ErrorInv(c), [Next]_vars
  PROVE  ErrorInv(c)'
<1> c \in Clients
  OBVIOUS
<1> USE DEF Faultless
<1>1. ASSUME NEW k \in Kinds, NEW s \in Sectors, Call(c, k, s)
      PROVE  ErrorInv(c)'
  BY <1>1 DEF Call, Runs, TypeOK, ErrorInv, flagVars, cardVars
<1>2. ASSUME Start(c)
      PROVE  ErrorInv(c)'
  BY <1>2
  DEF Start, Runs, TypeOK, DataInv, ErrorInv, irqVars, cardVars, histVars
<1>3. ASSUME Config(c)
      PROVE  ErrorInv(c)'
  BY <1>3
  DEF Config, Runs, TypeOK, ErrorInv, flagVars, irqVars, cardVars, histVars
<1>4. ASSUME Arm(c)
      PROVE  ErrorInv(c)'
  BY <1>4
  DEF Arm, Runs, TypeOK, CardInv, ErrorInv, flagVars, irqVars, cardVars,
      histVars
<1>5. ASSUME Send(c)
      PROVE  ErrorInv(c)'
  <2>1. /\ pc[c] = "send" /\ pc' = [pc EXCEPT ![c] = "resp"]
        /\ UNCHANGED <<kind, sector, cmd, status, TransferError, StopCondition,
                       dataIrq>>
    BY <1>5 DEF Send, Runs, flagVars, irqVars
  <2>2. pc'[c] = "resp" /\ cmd[c] \in Commands
    BY <2>1 DEF TypeOK
  <2>3. card' # "tran" => cardFor' = c
    BY <1>5 DEF Send, Answered, Refused, Lost, React, ErrorInv, cardVars
  <2>4. CASE Faultless(c)'
    <3>1. Faultless(c) /\ (Answered(c) \/ Refused(c))
      BY <1>5, <2>4 DEF Send, Answered, Refused, Lost, TypeOK
    <3>2. cmd[c] = "go" /\ IsMulti(kind[c]) => card' \in {"dataMulti", "rcvMulti"}
      <4>1. cmd[c] = "go" => Answered(c)
        BY <2>1, <3>1 DEF Refused, Accepts, CardInv
      <4> QED
        BY <4>1 DEF Answered, React, IsMulti
    <3>3. cmd[c] = "stop" => resp' = "stop"
      BY <2>1, <3>1 DEF Answered, Refused, Accepts, ErrorInv
    <3> QED
      BY <2>1, <2>2, <2>3, <3>1, <3>2, <3>3 DEF ErrorInv, Commands
  <2>5. CASE ~Faultless(c)'
    BY <2>1, <2>2, <2>3, <2>5 DEF ErrorInv
  <2> QED
    BY <2>4, <2>5
<1>6. ASSUME StartResp(c)
      PROVE  ErrorInv(c)'
  <2>1. /\ pc[c] = "resp" /\ cmd[c] \in {"len", "app", "count", "go"}
        /\ UNCHANGED <<kind, status, TransferError, StopCondition, dataIrq,
                       card, cardFor, fault>>
    BY <1>6
    DEF StartResp, Answer, Runs, flagVars, irqVars, cardVars, histVars, TypeOK,
        Commands
  <2>2. CASE resp # cmd[c]
    <3>1. pc'[c] = "wait" /\ cmd' = cmd /\ ~Faultless(c)
      BY <1>6, <2>1, <2>2 DEF StartResp, Answer, Runs, TypeOK, DataInv, Clean
    <3> QED
      BY <2>1, <3>1 DEF ErrorInv
  <2>3. CASE resp = cmd[c]
    <3>1. /\ pc' = [pc EXCEPT ![c] = NextPlace(cmd[c], kind[c])]
          /\ cmd' = [cmd EXCEPT ![c] = NextCommand(cmd[c], kind[c])]
      BY <1>6, <2>3 DEF StartResp, Answer, Runs
    <3>2. CASE cmd[c] = "go"
      <4>1. pc'[c] \in {"wait", "arm"}
        BY <3>1, <3>2 DEF TypeOK, NextPlace
      <4> QED
        BY <2>1, <3>2, <4>1 DEF ErrorInv
    <3>3. CASE cmd[c] # "go"
      <4>1. \/ pc'[c] = "arm" /\ IsRead(kind[c])
            \/ pc'[c] = "send" /\ cmd'[c] \in {"app", "count", "go"}
        BY <2>1, <3>1, <3>3 DEF TypeOK, NextPlace, NextCommand
      <4> QED
        BY <2>1, <4>1 DEF ErrorInv
    <3> QED
      BY <3>2, <3>3
  <2> QED
    BY <2>2, <2>3
<1>7. ASSUME StopResp(c)
      PROVE  ErrorInv(c)'
  BY <1>7
  DEF StopResp, Answer, Runs, TypeOK, ErrorInv, irqVars, cardVars, histVars
<1>8. ASSUME StatusResp(c)
      PROVE  ErrorInv(c)'
  BY <1>8
  DEF StatusResp, Answer, CardIsReady, Runs, TypeOK, ErrorInv, flagVars,
      irqVars, cardVars, histVars
<1>9. ASSUME Wait(c)
      PROVE  ErrorInv(c)'
  BY <1>9 DEF Wait, Runs, ErrorInv, flagVars, irqVars, cardVars, histVars
<1>10. ASSUME Clear(c)
      PROVE  ErrorInv(c)'
  BY <1>10 DEF Clear, Runs, ErrorInv, irqVars, cardVars, histVars
<1>11. ASSUME WaitActive(c)
      PROVE  ErrorInv(c)'
  BY <1>11
  DEF WaitActive, Runs, ErrorInv, flagVars, irqVars, cardVars, histVars
<1>12. ASSUME Stop(c)
      PROVE  ErrorInv(c)'
  BY <1>12
  DEF Stop, MustStop, Runs, TypeOK, ErrorInv, flagVars, irqVars, cardVars,
      histVars
<1>13. ASSUME Result(c)
      PROVE  ErrorInv(c)'
  BY <1>13
  DEF Result, Runs, TypeOK, ErrorInv, flagVars, irqVars, cardVars, histVars
<1>14. ASSUME Return(c)
      PROVE  ErrorInv(c)'
  BY <1>14 DEF Return, Runs, ErrorInv, flagVars, irqVars, cardVars, histVars
<1>15. ASSUME ReadBytes
      PROVE  ErrorInv(c)'
  BY <1>15
  DEF ReadBytes, ErrorInv, clientVars, flagVars, irqVars, cardVars, histVars
<1>16. ASSUME ReadDone
      PROVE  ErrorInv(c)'
  BY <1>16 DEF ReadDone, DmaEnd, ErrorInv, clientVars, flagVars, cardVars
<1>17. ASSUME WriteBytes
      PROVE  ErrorInv(c)'
  BY <1>17 DEF WriteBytes, DmaEnd, ErrorInv, clientVars, flagVars, cardVars
<1>18. ASSUME DataEnd
      PROVE  ErrorInv(c)'
  BY <1>18
  DEF DataEnd, Raise, TypeOK, ErrorInv, clientVars, flagVars, histVars
<1>19. ASSUME DataError
      PROVE  ErrorInv(c)'
  <2>1. ~Faultless(c)'
    BY <1>19 DEF DataError, TypeOK, ErrorInv
  <2> QED
    BY <1>19, <2>1 DEF DataError, ErrorInv, clientVars, flagVars
<1>20. ASSUME DataTimeout
      PROVE  ErrorInv(c)'
  <2>1. ~Faultless(c)
    BY <1>20, NoTimeoutUnlessLost DEF Clean
  <2> QED
    BY <1>20, <2>1
    DEF DataTimeout, ErrorInv, clientVars, flagVars, cardVars, histVars
<1>21. ASSUME Programmed
      PROVE  ErrorInv(c)'
  BY <1>21
  DEF Programmed, ErrorInv, clientVars, flagVars, sdioVars, irqVars,
      histVars
<1>22. ASSUME DataInterrupt
      PROVE  ErrorInv(c)'
  BY <1>22 DEF DataInterrupt, TypeOK, ErrorInv, clientVars, cardVars, histVars
<1>23. ASSUME DmaInterrupt
      PROVE  ErrorInv(c)'
  BY <1>23
  DEF DmaInterrupt, ErrorInv, clientVars, sdioVars, cardVars, histVars
<1>24. ASSUME Underrun
      PROVE  ErrorInv(c)'
  <2>1. ~Faultless(c)'
    BY <1>24 DEF Underrun, TypeOK, ErrorInv
  <2> QED
    BY <1>24, <2>1 DEF Underrun, ErrorInv, clientVars, flagVars, irqVars
<1>25. ASSUME UNCHANGED vars
      PROVE  ErrorInv(c)'
  BY <1>25
  DEF vars, ErrorInv, clientVars, flagVars, sdioVars, irqVars, cardVars,
      histVars
<1> QED
  BY <1>1, <1>2, <1>3, <1>4, <1>5, <1>6, <1>7, <1>8, <1>9, <1>10, <1>11,
     <1>12, <1>13, <1>14, <1>15, <1>16, <1>17, <1>18, <1>19, <1>20, <1>21,
     <1>22, <1>23, <1>24, <1>25
  DEF Next, Body, Hardware

-----------------------------------------------------------------------------

\* Only a write runs dry.
DryInv(c) == IsRead(kind[c]) => "underrun" \notin fault[c]

LEMMA DryStep ==
  ASSUME NEW c, Clients = {c}, TypeOK, PathInv(c), DryInv(c), [Next]_vars
  PROVE  DryInv(c)'
<1> c \in Clients
  OBVIOUS
<1>1. ASSUME NEW k \in Kinds, NEW s \in Sectors, Call(c, k, s)
      PROVE  DryInv(c)'
  BY <1>1 DEF Call, TypeOK, DryInv
<1>2. ASSUME Send(c)
      PROVE  DryInv(c)'
  BY <1>2 DEF Send, Answered, Refused, Lost, TypeOK, DryInv
<1>3. ASSUME DataError
      PROVE  DryInv(c)'
  BY <1>3 DEF DataError, clientVars, TypeOK, DryInv
<1>4. ASSUME Underrun
      PROVE  DryInv(c)'
  BY <1>4 DEF Underrun, clientVars, PathInv, DryInv
<1>5. ASSUME UNCHANGED <<kind, fault>>
      PROVE  DryInv(c)'
  BY <1>5 DEF DryInv
<1>6. ASSUME Start(c) \/ Config(c) \/ Arm(c) \/ StartResp(c) \/ StopResp(c)
             \/ StatusResp(c) \/ Wait(c) \/ Clear(c) \/ WaitActive(c) \/ Stop(c)
             \/ Result(c) \/ Return(c)
      PROVE  UNCHANGED <<kind, fault>>
  BY <1>6
  DEF Start, Config, Arm, StartResp, StopResp, StatusResp, Wait, Clear,
      WaitActive, Stop, Result, Return, histVars
<1>7. ASSUME ReadBytes \/ ReadDone \/ WriteBytes \/ DataEnd \/ DataTimeout
             \/ Programmed \/ DataInterrupt \/ DmaInterrupt \/ UNCHANGED vars
      PROVE  UNCHANGED <<kind, fault>>
  BY <1>7
  DEF ReadBytes, ReadDone, WriteBytes, DataEnd, DataTimeout, Programmed,
      DataInterrupt, DmaInterrupt, vars, clientVars, histVars
<1> QED
  BY <1>1, <1>2, <1>3, <1>4, <1>5, <1>6, <1>7 DEF Next, Body, Hardware

-----------------------------------------------------------------------------

\* What holds throughout when calls do not overlap.
IInv(c) ==
    TypeOK /\ CardInv(c) /\ PathInv(c) /\ DataInv(c) /\ ErrorInv(c) /\ DryInv(c)

LEMMA TypeInit == Init => TypeOK
<1> SUFFICES ASSUME Init PROVE TypeOK
  OBVIOUS
<1>1. pc \in [Clients -> PC] /\ kind \in [Clients -> AllKinds]
  BY DEF Init, PC, AllKinds
<1>2. cmd \in [Clients -> Commands] /\ status \in [Clients -> {"ok", "error"}]
  BY DEF Init, Commands
<1>3. moved \in [Clients -> Sectors \cup {None}]
  BY DEF Init
<1>4. fault \in [Clients -> SUBSET Faults]
  BY DEF Init
<1>5. itOn \in BOOLEAN /\ fifo \in BOOLEAN /\ dmaIrq \in BOOLEAN
  BY DEF Init
<1> QED
  BY <1>1, <1>2, <1>3, <1>4, <1>5 DEF Init, TypeOK, CardStates

LEMMA InvInit == ASSUME NEW c \in Clients, Init PROVE IInv(c)
<1>1. pc[c] = "idle" /\ card = "tran" /\ dpath = "idle" /\ dataIrq = "none"
  BY DEF Init
<1>2. ~fifo
  BY DEF Init
<1> QED
  BY <1>1, <1>2, TypeInit
  DEF Init, IInv, CardInv, PathInv, DataInv, ErrorInv, DryInv, Faultless

LEMMA Invariance ==
  ASSUME NEW c, Clients = {c}, SectorsFit
  PROVE  Spec => []IInv(c)
<1>1. Init => IInv(c)
  BY InvInit
<1>2. IInv(c) /\ [Next]_vars => IInv(c)'
  BY TypeStep, CardStep, PathStep, DataStep, ErrorStep, DryStep DEF IInv
<1> QED
  BY <1>1, <1>2, PTL DEF Spec

-----------------------------------------------------------------------------

\* The variables of the driver, the card and the calls keep their types: any
\* number of clients may call at any time.
THEOREM TypeCorrect == SectorsFit => (Spec => []TypeOK)
<1> SUFFICES ASSUME SectorsFit PROVE Spec => []TypeOK
  OBVIOUS
<1> QED
  BY TypeInit, TypeStep, PTL DEF Spec

\* The flags, the stream and the data path that a call leaves behind, whatever
\* failed in it, never make a later call believe in data that did not arrive:
\* success means the right sector, intact, unless the call itself met a fault that
\* its result does not report, which a read does only when a command is lost.
THEOREM DataCorrect == SoleClient /\ SectorsFit => (Spec => []DataArrived)
<1> SUFFICES ASSUME NEW c, Clients = {c}, SectorsFit PROVE Spec => []DataArrived
  BY DEF SoleClient
<1>1. IInv(c) => DataArrived
  BY DEF IInv, PathInv, DataInv, DryInv, DataArrived, Unreported, Clean, Intact
<1> QED
  BY <1>1, Invariance, PTL

\* Every operation begins on a card in its transfer state, also after a call
\* that failed.
THEOREM AlwaysReady == SoleClient /\ SectorsFit => (Spec => []CardReady)
<1> SUFFICES ASSUME NEW c, Clients = {c}, SectorsFit PROVE Spec => []CardReady
  BY DEF SoleClient
<1>1. IInv(c) => CardReady
  BY DEF IInv, CardInv, CardReady
<1> QED
  BY <1>1, Invariance, PTL

\* Nothing is written to a caller's buffer after its call has returned.
THEOREM BufferReleased == SoleClient /\ SectorsFit => (Spec => []NoLateTransfer)
<1> SUFFICES ASSUME NEW c, Clients = {c}, SectorsFit
             PROVE  Spec => []NoLateTransfer
  BY DEF SoleClient
<1>1. IInv(c) => NoLateTransfer
  BY DEF IInv, PathInv, NoLateTransfer
<1> QED
  BY <1>1, Invariance, PTL

\* What a call leaves behind is clean, for the operation that comes next.
THEOREM NextIsUnharmed == SoleClient /\ SectorsFit => (Spec => []LeftClean)
<1> SUFFICES ASSUME SoleClient, SectorsFit PROVE Spec => []LeftClean
  OBVIOUS
<1> QED
  BY TypeCorrect, AlwaysReady, BufferReleased, PTL DEF LeftClean

\* disk_read and disk_write, when calls do not overlap: an error is reported only
\* by a call that met one; nothing that the calls before it left in the flags
\* makes a call that went well report an error.
THEOREM ErrorsAreTrue == SoleClient /\ SectorsFit => (Spec => []NoFalseError)
<1> SUFFICES ASSUME NEW c, Clients = {c}, SectorsFit
             PROVE  Spec => []NoFalseError
  BY DEF SoleClient
<1>1. IInv(c) => NoFalseError
  BY DEF IInv, ErrorInv, Faultless, NoFalseError
<1> QED
  BY <1>1, Invariance, PTL
=============================================================================
