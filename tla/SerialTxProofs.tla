---------------------------- MODULE SerialTxProofs ----------------------------
(***************************************************************************)
(* Proofs about SerialTx when every sender holds xTxMutex (Guarded), for   *)
(* any number of console tasks and messages and any printf_ buffer:        *)
(*   - the flag and the registers of the stream are consistent, so that no *)
(*     message is lost in a register the stream does not accept;           *)
(*   - a buffer is written while the stream reads it only in the first     *)
(*     cache half, by an echo or behind one;                               *)
(*   - messages reach the line in order, and one that is missing was       *)
(*     spoiled by an echo.                                                 *)
(***************************************************************************)
EXTENDS SerialTx, TLAPS

\* The mutex has at most one task in the send path.
MutexInv == \A t \in Tasks : pc[t] # "idle" => mutex = t

\* What the position of the sending task says about the flag and the stream.
StreamInv ==
    /\ dmaOn \/ tc => busy = 1
    /\ ~(dmaOn /\ tc)
    /\ busy = 1 => dmaOn \/ tc \/ \E t \in Tasks : SettingUp(t)
    /\ \A t \in Tasks : /\ SettingUp(t) => busy = 1 /\ ~dmaOn /\ ~tc
                        /\ pc[t] = "claim" => busy = 0

Inv ==
    /\ TypeOK
    /\ MutexInv
    /\ StreamInv

-----------------------------------------------------------------------------

USE LineLenAssumption, MaxSendsAssumption, NoneAssumption

\* A message written to a buffer keeps the types.
LEMMA FillType ==
  ASSUME TypeOK, NEW t \in Tasks, NEW j \in Jobs, NEW b \in Buffers,
         Fill(t, j, b)
  PROVE  /\ sent' \in [Tasks -> 0 .. MaxSends]
         /\ job' \in [Tasks -> Jobs]
         /\ src' \in [Tasks -> Buffers]
         /\ content' \in [Buffers -> Message]
<1>1. /\ sent' \in [Tasks -> 0 .. MaxSends]
      /\ job' \in [Tasks -> Jobs]
      /\ src' \in [Tasks -> Buffers]
  BY DEF TypeOK, Fill
<1>2. Latest(t)' \in Message
  BY <1>1 DEF Latest, Message
<1>3. content' \in [Buffers -> Message]
  BY <1>2 DEF TypeOK, Fill
<1> QED
  BY <1>1, <1>3

\* The variables keep their types: what a step changes, it changes within them.
LEMMA TypeStep == TypeOK /\ [Next]_vars => TypeOK'
<1> SUFFICES ASSUME TypeOK, [Next]_vars PROVE TypeOK'
  OBVIOUS
<1> Consoles \cup Writers \subseteq Tasks
  BY DEF Tasks
<1>1. ASSUME NEW t \in Consoles \cup Writers, TakeMutex(t) PROVE TypeOK'
  <2>1. pc' \in [Tasks -> PC]
    BY <1>1 DEF TypeOK, TakeMutex, Runs, PC
  <2>2. mutex' \in Consoles \cup Writers \cup {None}
    BY <1>1 DEF TypeOK, TakeMutex
  <2> QED
    BY <1>1, <2>1, <2>2
    DEF TypeOK, TakeMutex, taskVars, bufVars, dmaVars, histVars
<1>2. ASSUME NEW t \in Consoles \cup Writers, GiveMutex(t) PROVE TypeOK'
  <2>1. pc' \in [Tasks -> PC]
    BY <1>2 DEF TypeOK, GiveMutex, Runs, PC
  <2>2. mutex' \in Consoles \cup Writers \cup {None}
    BY <1>2 DEF TypeOK, GiveMutex
  <2> QED
    BY <1>2, <2>1, <2>2
    DEF TypeOK, GiveMutex, taskVars, bufVars, dmaVars, histVars
<1>3. ASSUME NEW t \in Consoles \cup Writers, CopyChunk(t) PROVE TypeOK'
  <2>1. pc' \in [Tasks -> PC]
    BY <1>3 DEF TypeOK, CopyChunk, Runs, PC
  <2>2. "string" \in Jobs /\ Cache(cacheIdx) \in Buffers /\ Fill(t, "string", Cache(cacheIdx))
    BY <1>3 DEF TypeOK, CopyChunk, Jobs, Buffers, Cache
  <2>3. /\ sent' \in [Tasks -> 0 .. MaxSends]
        /\ job' \in [Tasks -> Jobs]
        /\ src' \in [Tasks -> Buffers]
        /\ content' \in [Buffers -> Message]
    BY <2>2, FillType
  <2> QED
    BY <1>3, <2>1, <2>3
    DEF TypeOK, CopyChunk, taskVars, bufVars, dmaVars, histVars
<1>4. ASSUME NEW t \in Consoles \cup Writers, PokeChar(t) PROVE TypeOK'
  <2>1. pc' \in [Tasks -> PC]
    BY <1>4 DEF TypeOK, PokeChar, Runs, PC
  <2>2. "char" \in Jobs /\ Cache(0) \in Buffers /\ Fill(t, "char", Cache(0))
    BY <1>4 DEF TypeOK, PokeChar, Jobs, Buffers, Cache
  <2>3. /\ sent' \in [Tasks -> 0 .. MaxSends]
        /\ job' \in [Tasks -> Jobs]
        /\ src' \in [Tasks -> Buffers]
        /\ content' \in [Buffers -> Message]
    BY <2>2, FillType
  <2> QED
    BY <1>4, <2>1, <2>3
    DEF TypeOK, PokeChar, taskVars, bufVars, dmaVars, histVars
<1>5. ASSUME NEW t \in Tasks, StartPrint(t) PROVE TypeOK'
  <2>1. pc' \in [Tasks -> PC]
    BY <1>5 DEF TypeOK, StartPrint, Home, Runs, PC
  <2>2. job' \in [Tasks -> Jobs]
    BY <1>5 DEF TypeOK, StartPrint, Jobs
  <2>3. sent' \in [Tasks -> 0 .. MaxSends]
    BY <1>5 DEF TypeOK, StartPrint
  <2> QED
    BY <1>5, <2>1, <2>2, <2>3
    DEF TypeOK, StartPrint, taskVars, bufVars, dmaVars, histVars
<1>6. ASSUME NEW t \in Tasks, Written(t) PROVE TypeOK'
  <2>1. pc' \in [Tasks -> PC]
    BY <1>6 DEF TypeOK, Written, Runs, PC
  <2> QED
    BY <1>6, <2>1
    DEF TypeOK, Written, taskVars, bufVars, dmaVars, histVars
<1>7. ASSUME NEW t \in Tasks, PutChar(t) PROVE TypeOK'
  <2>1. pc' \in [Tasks -> PC]
    BY <1>7 DEF TypeOK, PutChar, Runs, PC
  <2>2. content' \in [Buffers -> Message]
    <3>1. Latest(t) \in Message
      BY DEF TypeOK, Latest, Message
    <3> QED
      BY <1>7, <3>1 DEF TypeOK, PutChar
  <2>3. lineIdx' \in 0 .. IndexBound
    BY <1>7 DEF TypeOK, PutChar, IndexBound
  <2> QED
    BY <1>7, <2>1, <2>2, <2>3
    DEF TypeOK, PutChar, taskVars, bufVars, dmaVars, histVars
<1>8. ASSUME NEW t \in Tasks, CheckLine(t) PROVE TypeOK'
  <2>1. pc' \in [Tasks -> PC]
    BY <1>8 DEF TypeOK, CheckLine, Runs, PC
  <2>2. src' \in [Tasks -> Buffers]
    BY <1>8 DEF TypeOK, CheckLine, Buffers, Line
  <2> QED
    BY <1>8, <2>1, <2>2
    DEF TypeOK, CheckLine, taskVars, bufVars, dmaVars, histVars
<1>9. ASSUME NEW t \in Tasks, TestBusy(t) PROVE TypeOK'
  <2>1. pc' \in [Tasks -> PC]
    BY <1>9 DEF TypeOK, TestBusy, Runs, PC
  <2> QED
    BY <1>9, <2>1
    DEF TypeOK, TestBusy, taskVars, bufVars, dmaVars, histVars
<1>10. ASSUME NEW t \in Tasks, ClaimBusy(t) PROVE TypeOK'
  <2>1. pc' \in [Tasks -> PC]
    BY <1>10 DEF TypeOK, ClaimBusy, Runs, PC
  <2>2. busy' \in 0 .. 1
    BY <1>10 DEF TypeOK, ClaimBusy
  <2> QED
    BY <1>10, <2>1, <2>2
    DEF TypeOK, ClaimBusy, taskVars, bufVars, dmaVars, histVars
<1>11. ASSUME NEW t \in Tasks, SetAddress(t) PROVE TypeOK'
  <2>1. pc' \in [Tasks -> PC]
    BY <1>11 DEF TypeOK, SetAddress, Runs, PC
  <2>2. m0ar' \in Buffers
    BY <1>11 DEF TypeOK, SetAddress
  <2> QED
    BY <1>11, <2>1, <2>2
    DEF TypeOK, SetAddress, taskVars, bufVars, dmaVars, histVars
<1>12. ASSUME NEW t \in Tasks, SetCount(t) PROVE TypeOK'
  <2>1. pc' \in [Tasks -> PC]
    BY <1>12 DEF TypeOK, SetCount, Runs, PC
  <2>2. count' \in 0 .. 1
    BY <1>12 DEF TypeOK, SetCount
  <2> QED
    BY <1>12, <2>1, <2>2
    DEF TypeOK, SetCount, taskVars, bufVars, dmaVars, histVars
<1>13. ASSUME NEW t \in Tasks, EnableStream(t) PROVE TypeOK'
  <2>1. pc' \in [Tasks -> PC]
    BY <1>13 DEF TypeOK, EnableStream, Runs, PC
  <2>2. dmaOn' \in BOOLEAN /\ flight' \in Message
    BY <1>13 DEF TypeOK, EnableStream
  <2> QED
    BY <1>13, <2>1, <2>2
    DEF TypeOK, EnableStream, taskVars, bufVars, dmaVars, histVars
<1>14. ASSUME NEW t \in Tasks, AfterSend(t) PROVE TypeOK'
  <2>1. pc' \in [Tasks -> PC]
    BY <1>14 DEF TypeOK, AfterSend, Home, Runs, PC
  <2>2. cacheIdx' \in 0 .. 1
    BY <1>14 DEF TypeOK, AfterSend, NextHalf
  <2>3. block' \in 0 .. 1
    BY <1>14 DEF TypeOK, AfterSend, NextHalf
  <2>4. lineIdx' \in 0 .. IndexBound
    BY <1>14 DEF TypeOK, AfterSend, IndexBound
  <2> QED
    BY <1>14, <2>1, <2>2, <2>3, <2>4
    DEF TypeOK, AfterSend, taskVars, bufVars, dmaVars, histVars
<1>15. ASSUME TransferEnd PROVE TypeOK'
  <2>1. count' \in 0 .. 1
    BY <1>15 DEF TransferEnd
  <2>2. dmaOn' \in BOOLEAN /\ tc' \in BOOLEAN
    BY <1>15 DEF TransferEnd
  <2>3. PICK m \in {flight, content[m0ar]} :
             /\ wire' = IF m.task = None THEN wire
                        ELSE [wire EXCEPT ![m.task] = m.no]
             /\ spoiled' = IF m = flight THEN spoiled
                           ELSE spoiled \cup {[lost |-> flight, by |-> m]}
    BY <1>15 DEF TransferEnd
  <2>4. m \in Message
    BY DEF TypeOK
  <2>5. wire' \in [Tasks -> 0 .. MaxSends]
    BY <2>3, <2>4 DEF TypeOK, Message
  <2>6. spoiled' \subseteq [lost : Message, by : Message]
    BY <2>3, <2>4 DEF TypeOK
  <2> QED
    BY <1>15, <2>1, <2>2, <2>5, <2>6
    DEF TypeOK, TransferEnd, taskVars, bufVars, dmaVars, histVars
<1>16. ASSUME TxInterrupt PROVE TypeOK'
  <2>1. busy' \in 0 .. 1
    BY <1>16 DEF TxInterrupt, ReleaseBusy
  <2>2. dmaOn' \in BOOLEAN /\ tc' \in BOOLEAN
    BY <1>16 DEF TxInterrupt
  <2> QED
    BY <1>16, <2>1, <2>2
    DEF TypeOK, TxInterrupt, taskVars, bufVars, dmaVars, histVars
<1>17. ASSUME UNCHANGED vars PROVE TypeOK'
  BY <1>17 DEF vars, TypeOK, taskVars, bufVars, dmaVars, histVars
<1> QED
  BY <1>1, <1>2, <1>3, <1>4, <1>5, <1>6, <1>7, <1>8, <1>9,
     <1>10, <1>11, <1>12, <1>13, <1>14, <1>15, <1>16, <1>17
  DEF Next, Body

-----------------------------------------------------------------------------

\* Only the holder of the mutex is away from "idle".
LEMMA Alone ==
  ASSUME MutexInv, NEW t \in Tasks, pc[t] # "idle"
  PROVE  mutex = t /\ \A u \in Tasks : u # t => pc[u] = "idle"
  BY DEF MutexInv

\* A step inside the locked region keeps the mutex where it is.
LEMMA LockedStep ==
  ASSUME TypeOK, MutexInv, NEW t \in Tasks, NEW p \in PC, pc[t] # "idle",
         pc' = [pc EXCEPT ![t] = p], mutex' = mutex
  PROVE  MutexInv'
  BY DEF TypeOK, MutexInv

\* A step outside the set-up that leaves flag and stream alone.
LEMMA QuietStep ==
  ASSUME TypeOK, StreamInv, NEW t \in Tasks, NEW p \in PC,
         pc' = [pc EXCEPT ![t] = p], ~SettingUp(t),
         p \notin {"claim", "address", "count", "enable"},
         UNCHANGED <<busy, dmaOn, tc>>
  PROVE  StreamInv'
<1>1. \A u \in Tasks : SettingUp(u)' <=> SettingUp(u)
  BY DEF TypeOK, SettingUp
<1>2. \A u \in Tasks : pc'[u] = "claim" => pc[u] = "claim"
  BY DEF TypeOK
<1> QED
  BY <1>1, <1>2 DEF StreamInv

LEMMA InvInit == Init => Inv
<1> SUFFICES ASSUME Init PROVE Inv
  OBVIOUS
<1>1. TypeOK
  <2>1. /\ pc \in [Tasks -> PC]
        /\ job \in [Tasks -> Jobs]
        /\ src \in [Tasks -> Buffers]
        /\ content \in [Buffers -> Message]
    BY DEF Init, PC, Jobs, Buffers, Cache, Message, Welcome
  <2>2. /\ sent \in [Tasks -> 0 .. MaxSends]
        /\ wire \in [Tasks -> 0 .. MaxSends]
        /\ lineIdx \in 0 .. IndexBound
    BY DEF Init, IndexBound
  <2>3. dmaOn \in BOOLEAN /\ tc \in BOOLEAN
    BY DEF Init
  <2>4. flight \in Message
    <3>1. flight = Welcome
      BY DEF Init
    <3> QED
      BY <3>1 DEF Message, Jobs, Welcome
  <2>5. /\ mutex \in Consoles \cup Writers \cup {None}
        /\ cacheIdx \in 0 .. 1 /\ block \in 0 .. 1
        /\ busy \in 0 .. 1 /\ count \in 0 .. 1 /\ m0ar \in Buffers
        /\ spoiled = {}
    BY DEF Init, Buffers, Cache
  <2> QED
    BY <2>1, <2>2, <2>3, <2>4, <2>5 DEF TypeOK
<1>2. MutexInv
  BY DEF Init, MutexInv
<1>3. StreamInv
  BY DEF Init, StreamInv, SettingUp
<1> QED
  BY <1>1, <1>2, <1>3 DEF Inv

\* The guarded send path keeps flag, registers and stream consistent.
LEMMA InvStep == Guarded /\ Inv /\ [Next]_vars => Inv'
<1> SUFFICES ASSUME Guarded, Inv, [Next]_vars PROVE Inv'
  OBVIOUS
<1> TypeOK /\ MutexInv /\ StreamInv
  BY DEF Inv
<1> Tasks = Consoles \cup Writers
  BY DEF Tasks, Guarded
<1>0. TypeOK'
  BY TypeStep
<1>1. ASSUME NEW t \in Tasks, TakeMutex(t) PROVE MutexInv' /\ StreamInv'
  <2>1. MutexInv'
    BY <1>1, NoneAssumption DEF TakeMutex, Runs, MutexInv, TypeOK
  <2>2. ~SettingUp(t) /\ UNCHANGED <<busy, dmaOn, tc>>
    BY <1>1 DEF TakeMutex, Runs, SettingUp, dmaVars
  <2>3. PICK p \in {"key", "locked"} : pc' = [pc EXCEPT ![t] = p]
    BY <1>1 DEF TakeMutex, Runs
  <2>4. p \in PC /\ p \notin {"claim", "address", "count", "enable"}
    BY DEF PC
  <2> QED
    BY <2>1, <2>2, <2>3, <2>4, QuietStep
<1>2. ASSUME NEW t \in Tasks, GiveMutex(t) PROVE MutexInv' /\ StreamInv'
  <2>1. MutexInv'
    BY <1>2, Alone DEF GiveMutex, Runs, MutexInv, TypeOK
  <2>2. ~SettingUp(t) /\ UNCHANGED <<busy, dmaOn, tc>>
    BY <1>2 DEF GiveMutex, Runs, SettingUp, dmaVars
  <2>3. pc' = [pc EXCEPT ![t] = "idle"] /\ "idle" \in PC
    BY <1>2 DEF GiveMutex, Runs, PC
  <2> QED
    BY <2>1, <2>2, <2>3, QuietStep
<1>3. ASSUME NEW t \in Tasks, CopyChunk(t) PROVE MutexInv' /\ StreamInv'
  <2>1. pc' = [pc EXCEPT ![t] = "copy"] /\ "copy" \in PC
    BY <1>3 DEF CopyChunk, Runs, PC
  <2>2. pc[t] # "idle" /\ ~SettingUp(t)
    BY <1>3 DEF CopyChunk, Runs, SettingUp
  <2>3. UNCHANGED <<mutex, busy, dmaOn, tc>>
    BY <1>3 DEF CopyChunk, dmaVars
  <2> QED
    BY <2>1, <2>2, <2>3, LockedStep, QuietStep
<1>4. ASSUME NEW t \in Tasks, PokeChar(t) PROVE MutexInv' /\ StreamInv'
  <2>1. pc' = [pc EXCEPT ![t] = "poke"] /\ "poke" \in PC
    BY <1>4 DEF PokeChar, Runs, PC
  <2>2. pc[t] # "idle" /\ ~SettingUp(t)
    BY <1>4 DEF PokeChar, Runs, SettingUp
  <2>3. UNCHANGED <<mutex, busy, dmaOn, tc>>
    BY <1>4 DEF PokeChar, dmaVars
  <2> QED
    BY <2>1, <2>2, <2>3, LockedStep, QuietStep
<1>5. ASSUME NEW t \in Tasks, StartPrint(t) PROVE MutexInv' /\ StreamInv'
  <2>1. pc' = [pc EXCEPT ![t] = "char"] /\ "char" \in PC
    BY <1>5 DEF StartPrint, Home, Runs, PC, Guarded
  <2>2. pc[t] # "idle" /\ ~SettingUp(t)
    BY <1>5 DEF StartPrint, Home, Runs, SettingUp, Guarded
  <2>3. UNCHANGED <<mutex, busy, dmaOn, tc>>
    BY <1>5 DEF StartPrint, dmaVars
  <2> QED
    BY <2>1, <2>2, <2>3, LockedStep, QuietStep
<1>6. ASSUME NEW t \in Tasks, Written(t) PROVE MutexInv' /\ StreamInv'
  <2>1. pc' = [pc EXCEPT ![t] = "test"] /\ "test" \in PC
    BY <1>6 DEF Written, Runs, PC
  <2>2. pc[t] # "idle" /\ ~SettingUp(t)
    BY <1>6 DEF Written, Runs, SettingUp
  <2>3. UNCHANGED <<mutex, busy, dmaOn, tc>>
    BY <1>6 DEF Written, dmaVars
  <2> QED
    BY <2>1, <2>2, <2>3, LockedStep, QuietStep
<1>7. ASSUME NEW t \in Tasks, PutChar(t) PROVE MutexInv' /\ StreamInv'
  <2>1. pc' = [pc EXCEPT ![t] = "check"] /\ "check" \in PC
    BY <1>7 DEF PutChar, Runs, PC
  <2>2. pc[t] # "idle" /\ ~SettingUp(t)
    BY <1>7 DEF PutChar, Runs, SettingUp
  <2>3. UNCHANGED <<mutex, busy, dmaOn, tc>>
    BY <1>7 DEF PutChar, dmaVars
  <2> QED
    BY <2>1, <2>2, <2>3, LockedStep, QuietStep
<1>8. ASSUME NEW t \in Tasks, CheckLine(t) PROVE MutexInv' /\ StreamInv'
  <2>1. PICK p \in {"test", "char"} : pc' = [pc EXCEPT ![t] = p]
    BY <1>8 DEF CheckLine, Runs
  <2>2. pc[t] # "idle" /\ ~SettingUp(t) /\ p \in PC
    BY <1>8 DEF CheckLine, Runs, SettingUp, PC
  <2>3. UNCHANGED <<mutex, busy, dmaOn, tc>>
    BY <1>8 DEF CheckLine, dmaVars
  <2> QED
    BY <2>1, <2>2, <2>3, LockedStep, QuietStep
<1>9. ASSUME NEW t \in Tasks, AfterSend(t) PROVE MutexInv' /\ StreamInv'
  <2>1. pc' = [pc EXCEPT ![t] = "locked"] /\ "locked" \in PC
    BY <1>9 DEF AfterSend, Home, Runs, PC
  <2>2. pc[t] # "idle" /\ ~SettingUp(t)
    BY <1>9 DEF AfterSend, Home, Runs, SettingUp
  <2>3. UNCHANGED <<mutex, busy, dmaOn, tc>>
    BY <1>9 DEF AfterSend, dmaVars
  <2> QED
    BY <2>1, <2>2, <2>3, LockedStep, QuietStep
<1>10. ASSUME NEW t \in Tasks, TestBusy(t) PROVE MutexInv' /\ StreamInv'
  <2>1. pc' = [pc EXCEPT ![t] = "claim"] /\ pc[t] # "idle"
    BY <1>10 DEF TestBusy, Runs
  <2>2. MutexInv'
    BY <1>10, <2>1, LockedStep DEF TestBusy, PC
  <2>3. StreamInv'
    BY <1>10, <2>1, Alone
    DEF TestBusy, Runs, StreamFree, StreamInv, SettingUp, TypeOK, dmaVars
  <2> QED
    BY <2>2, <2>3
<1>11. ASSUME NEW t \in Tasks, ClaimBusy(t) PROVE MutexInv' /\ StreamInv'
  <2>1. pc' = [pc EXCEPT ![t] = "address"] /\ pc[t] # "idle"
    BY <1>11 DEF ClaimBusy, Runs
  <2>2. MutexInv'
    BY <1>11, <2>1, LockedStep DEF ClaimBusy, PC
  <2>3. StreamInv'
    BY <1>11, <2>1, Alone
    DEF ClaimBusy, Runs, StreamInv, SettingUp, TypeOK, dmaVars
  <2> QED
    BY <2>2, <2>3
<1>12. ASSUME NEW t \in Tasks, SetAddress(t) PROVE MutexInv' /\ StreamInv'
  <2>1. pc' = [pc EXCEPT ![t] = "count"] /\ pc[t] # "idle"
    BY <1>12 DEF SetAddress, Runs
  <2>2. MutexInv'
    BY <1>12, <2>1, LockedStep DEF SetAddress, PC
  <2>3. StreamInv'
    BY <1>12, <2>1, Alone
    DEF SetAddress, Runs, StreamInv, SettingUp, TypeOK, dmaVars
  <2> QED
    BY <2>2, <2>3
<1>13. ASSUME NEW t \in Tasks, SetCount(t) PROVE MutexInv' /\ StreamInv'
  <2>1. pc' = [pc EXCEPT ![t] = "enable"] /\ pc[t] # "idle"
    BY <1>13 DEF SetCount, Runs
  <2>2. MutexInv'
    BY <1>13, <2>1, LockedStep DEF SetCount, PC
  <2>3. StreamInv'
    BY <1>13, <2>1, Alone
    DEF SetCount, Runs, StreamInv, SettingUp, TypeOK, dmaVars
  <2> QED
    BY <2>2, <2>3
<1>14. ASSUME NEW t \in Tasks, EnableStream(t) PROVE MutexInv' /\ StreamInv'
  <2>1. pc' = [pc EXCEPT ![t] = "done"] /\ pc[t] # "idle"
    BY <1>14 DEF EnableStream, Runs
  <2>2. MutexInv'
    BY <1>14, <2>1, LockedStep DEF EnableStream, PC
  <2>3. StreamInv'
    BY <1>14, <2>1, Alone
    DEF EnableStream, Runs, StreamInv, SettingUp, TypeOK, dmaVars
  <2> QED
    BY <2>2, <2>3
<1>15. ASSUME TransferEnd PROVE MutexInv' /\ StreamInv'
  BY <1>15 DEF TransferEnd, MutexInv, StreamInv, SettingUp, taskVars
<1>16. ASSUME TxInterrupt PROVE MutexInv' /\ StreamInv'
  BY <1>16 DEF TxInterrupt, ReleaseBusy, MutexInv, StreamInv, SettingUp, taskVars
<1>17. ASSUME UNCHANGED vars PROVE MutexInv' /\ StreamInv'
  BY <1>17
  DEF vars, taskVars, dmaVars, MutexInv, StreamInv, SettingUp
<1> QED
  BY <1>0, <1>1, <1>2, <1>3, <1>4, <1>5, <1>6, <1>7, <1>8, <1>9, <1>10, <1>11, <1>12, <1>13, <1>14, <1>15, <1>16, <1>17
  DEF Inv, Next, Body
-----------------------------------------------------------------------------
(* The double buffers *)

\* The buffer that belongs to what t is sending.
Source(t) ==
    IF job[t] = "print" THEN Line(block)
    ELSE IF job[t] = "string" THEN Cache(cacheIdx) ELSE Cache(0)

\* The buffer a task hands over is the half its double buffer points at, or the
\* first half of an echo; it holds the task's message until the stream is given
\* that half and started.
HandingOver(t) ==
    pc[t] \in {"copy", "poke", "test", "claim", "address", "count", "enable"}

HalfTask(t) ==
    /\ pc[t] = "copy" => job[t] = "string"
    /\ pc[t] = "poke" => job[t] = "char"
    /\ pc[t] \in {"char", "check"} => job[t] = "print"
    /\ pc[t] = "check" => content[Line(block)] = Latest(t)
    /\ HandingOver(t) => src[t] = Source(t) /\ content[src[t]] = Latest(t)
    /\ pc[t] = "done" => src[t] = Source(t) /\ (dmaOn => flight = Latest(t))
    /\ pc[t] \in {"count", "enable", "done"} => m0ar = src[t]

\* Once its caller has switched halves the stream reads neither current half,
\* unless it sends an echo.
HalfStream ==
    dmaOn /\ (\A t \in Tasks : pc[t] # "done") =>
        /\ m0ar # Line(block)
        /\ m0ar = Cache(cacheIdx) => flight.job = "char"
        /\ flight.job = "char" => m0ar = Cache(0)
        /\ flight.job = "print" => m0ar \notin {Cache(0), Cache(1)}

HalfInv == (\A t \in Tasks : HalfTask(t)) /\ HalfStream

LEMMA HalfInit == Init => HalfInv
  BY DEF Init, HalfInv, HalfTask, HandingOver, HalfStream, Welcome, Cache, Line

\* All a step of task t leaves to be shown: the other tasks are idle.
LEMMA OneTask ==
  ASSUME NEW t \in Tasks, \A u \in Tasks : u # t => pc'[u] = "idle",
         HalfTask(t)', HalfStream'
  PROVE  HalfInv'
  BY DEF HalfInv, HalfTask, HandingOver

\* A step that leaves the stream and both indices alone.
LEMMA StreamKept ==
  ASSUME TypeOK, HalfInv, NEW t \in Tasks, pc[t] # "done",
         \A u \in Tasks : u # t => pc[u] = "idle",
         UNCHANGED <<cacheIdx, block>>,
         dmaOn' => dmaOn /\ UNCHANGED <<m0ar, flight>>
  PROVE  HalfStream'
  BY DEF HalfInv, HalfStream, Source, Line, Cache

\* The latest message of a task that sent, wrote and chose nothing.
LEMMA LatestKept ==
  ASSUME NEW t \in Tasks, UNCHANGED <<sent, job>> PROVE Latest(t)' = Latest(t)
  BY DEF Latest

\* What a task has just written is its latest message, in the buffer it will
\* hand over, and nothing else was written.
LEMMA FillHolds ==
  ASSUME TypeOK, NEW t \in Tasks, NEW j \in Jobs, NEW b \in Buffers,
         Fill(t, j, b)
  PROVE  /\ job'[t] = j /\ src'[t] = b /\ content'[b] = Latest(t)'
         /\ sent'[t] = sent[t] + 1
         /\ \A u \in Tasks : u # t => sent'[u] = sent[u] /\ job'[u] = job[u]
         /\ \A a \in Buffers : a # b => content'[a] = content[a]
  BY DEF TypeOK, Fill

\* Filling, sending and switching keep the halves of the two buffers apart.
LEMMA HalfStep == Guarded /\ Inv /\ HalfInv /\ [Next]_vars => HalfInv'
<1> SUFFICES ASSUME Guarded, Inv, HalfInv, [Next]_vars PROVE HalfInv'
  OBVIOUS
<1> TypeOK /\ MutexInv /\ StreamInv
  BY DEF Inv
<1> Tasks = Consoles \cup Writers
  BY DEF Tasks, Guarded
<1>1. ASSUME NEW t \in Tasks, TakeMutex(t) PROVE HalfInv'
  <2>1. \A u \in Tasks : u # t => pc[u] = "idle" /\ pc'[u] = "idle"
    BY <1>1, NoneAssumption DEF TakeMutex, Runs, TypeOK, MutexInv
  <2>2. /\ pc'[t] \in {"key", "locked"} /\ pc[t] # "done"
        /\ UNCHANGED <<cacheIdx, block, dmaOn, m0ar, flight>>
    BY <1>1 DEF TakeMutex, Runs, TypeOK, bufVars, dmaVars, histVars
  <2>3. HalfTask(t)'
    BY <2>2 DEF HalfTask, HandingOver
  <2>4. HalfStream'
    BY <2>1, <2>2, StreamKept
  <2> QED
    BY <2>1, <2>3, <2>4, OneTask
<1>2. ASSUME NEW t \in Tasks, GiveMutex(t) PROVE HalfInv'
  <2>1. \A u \in Tasks : u # t => pc[u] = "idle" /\ pc'[u] = "idle"
    BY <1>2, Alone DEF GiveMutex, Runs, TypeOK
  <2>2. /\ pc'[t] = "idle" /\ pc[t] # "done"
        /\ UNCHANGED <<cacheIdx, block, dmaOn, m0ar, flight>>
    BY <1>2 DEF GiveMutex, Runs, TypeOK, bufVars, dmaVars, histVars
  <2>3. HalfTask(t)'
    BY <2>2 DEF HalfTask, HandingOver
  <2>4. HalfStream'
    BY <2>1, <2>2, StreamKept
  <2> QED
    BY <2>1, <2>3, <2>4, OneTask
<1>3. ASSUME NEW t \in Tasks, StartPrint(t) PROVE HalfInv'
  <2>1. \A u \in Tasks : u # t => pc[u] = "idle" /\ pc'[u] = "idle"
    BY <1>3, Alone DEF StartPrint, Runs, TypeOK, Home
  <2>2. /\ pc'[t] = "char" /\ job'[t] = "print" /\ pc[t] # "done"
        /\ UNCHANGED <<cacheIdx, block, dmaOn, m0ar, flight>>
    BY <1>3 DEF StartPrint, Runs, Home, TypeOK, bufVars, dmaVars, histVars
  <2>3. HalfTask(t)'
    BY <2>2 DEF HalfTask, HandingOver
  <2>4. HalfStream'
    BY <2>1, <2>2, StreamKept
  <2> QED
    BY <2>1, <2>3, <2>4, OneTask
<1>4. ASSUME NEW t \in Tasks, Written(t) PROVE HalfInv'
  <2>1. \A u \in Tasks : u # t => pc[u] = "idle" /\ pc'[u] = "idle"
    BY <1>4, Alone DEF Written, Runs, TypeOK
  <2>2. /\ pc[t] \in {"copy", "poke"} /\ pc'[t] = "test"
        /\ UNCHANGED <<sent, job, src, content, cacheIdx, block, dmaOn, m0ar, flight>>
    BY <1>4 DEF Written, Runs, TypeOK, bufVars, dmaVars, histVars
  <2>3. HalfTask(t)'
    BY <2>2, LatestKept DEF HalfInv, HalfTask, HandingOver, Source
  <2>4. HalfStream'
    BY <2>1, <2>2, StreamKept
  <2> QED
    BY <2>1, <2>3, <2>4, OneTask
<1>5. ASSUME NEW t \in Tasks, PutChar(t) PROVE HalfInv'
  <2>1. \A u \in Tasks : u # t => pc[u] = "idle" /\ pc'[u] = "idle"
    BY <1>5, Alone DEF PutChar, Runs, TypeOK
  <2>2. /\ pc[t] = "char" /\ pc'[t] = "check"
        /\ content' = [content EXCEPT ![Line(block)] = Latest(t)]
        /\ UNCHANGED <<sent, job, cacheIdx, block, dmaOn, m0ar, flight>>
    BY <1>5 DEF PutChar, Runs, TypeOK, dmaVars, histVars
  <2>3. Line(block) \in Buffers
    BY DEF TypeOK, Buffers, Line
  <2>4. HalfTask(t)'
    BY <2>2, <2>3, LatestKept DEF HalfInv, HalfTask, HandingOver, TypeOK
  <2>5. HalfStream'
    BY <2>1, <2>2, StreamKept
  <2> QED
    BY <2>1, <2>4, <2>5, OneTask
<1>6. ASSUME NEW t \in Tasks, CheckLine(t) PROVE HalfInv'
  <2>1. \A u \in Tasks : u # t => pc[u] = "idle" /\ pc'[u] = "idle"
    BY <1>6, Alone DEF CheckLine, Runs, TypeOK
  <2>2. /\ pc[t] = "check" /\ job[t] = "print"
        /\ \/ pc'[t] = "test" /\ src'[t] = Line(block)
           \/ pc'[t] = "char"
        /\ UNCHANGED <<sent, job, content, cacheIdx, block, dmaOn, m0ar, flight>>
    BY <1>6 DEF CheckLine, Runs, TypeOK, HalfInv, HalfTask, bufVars, dmaVars, histVars
  <2>3. HalfTask(t)'
    BY <2>2, LatestKept DEF HalfInv, HalfTask, HandingOver, Source
  <2>4. HalfStream'
    BY <2>1, <2>2, StreamKept
  <2> QED
    BY <2>1, <2>3, <2>4, OneTask
<1>7. ASSUME NEW t \in Tasks, TestBusy(t) PROVE HalfInv'
  <2>1. \A u \in Tasks : u # t => pc[u] = "idle" /\ pc'[u] = "idle"
    BY <1>7, Alone DEF TestBusy, Runs, TypeOK
  <2>2. /\ pc[t] = "test" /\ pc'[t] = "claim"
        /\ UNCHANGED <<sent, job, src, content, cacheIdx, block, dmaOn, m0ar, flight>>
    BY <1>7 DEF TestBusy, Runs, TypeOK, bufVars, dmaVars, histVars
  <2>3. HalfTask(t)'
    BY <2>2, LatestKept DEF HalfInv, HalfTask, HandingOver, Source
  <2>4. HalfStream'
    BY <2>1, <2>2, StreamKept
  <2> QED
    BY <2>1, <2>3, <2>4, OneTask
<1>8. ASSUME NEW t \in Tasks, ClaimBusy(t) PROVE HalfInv'
  <2>1. \A u \in Tasks : u # t => pc[u] = "idle" /\ pc'[u] = "idle"
    BY <1>8, Alone DEF ClaimBusy, Runs, TypeOK
  <2>2. /\ pc[t] = "claim" /\ pc'[t] = "address"
        /\ UNCHANGED <<sent, job, src, content, cacheIdx, block, dmaOn, m0ar, flight>>
    BY <1>8 DEF ClaimBusy, Runs, TypeOK, bufVars, dmaVars, histVars
  <2>3. HalfTask(t)'
    BY <2>2, LatestKept DEF HalfInv, HalfTask, HandingOver, Source
  <2>4. HalfStream'
    BY <2>1, <2>2, StreamKept
  <2> QED
    BY <2>1, <2>3, <2>4, OneTask
<1>9. ASSUME NEW t \in Tasks, SetAddress(t) PROVE HalfInv'
  <2>1. \A u \in Tasks : u # t => pc[u] = "idle" /\ pc'[u] = "idle"
    BY <1>9, Alone DEF SetAddress, Runs, TypeOK
  <2>2. /\ pc[t] = "address" /\ pc'[t] = "count" /\ ~dmaOn
        /\ UNCHANGED <<sent, job, src, content, cacheIdx, block, dmaOn, flight>>
    BY <1>9 DEF SetAddress, Runs, TypeOK, StreamInv, SettingUp, bufVars, histVars
  <2>3. m0ar' = src[t]
    BY <1>9, <2>2 DEF SetAddress
  <2>4. HalfTask(t)'
    BY <2>2, <2>3, LatestKept DEF HalfInv, HalfTask, HandingOver, Source
  <2>5. HalfStream'
    BY <2>2 DEF HalfStream
  <2> QED
    BY <2>1, <2>4, <2>5, OneTask
<1>10. ASSUME NEW t \in Tasks, SetCount(t) PROVE HalfInv'
  <2>1. \A u \in Tasks : u # t => pc[u] = "idle" /\ pc'[u] = "idle"
    BY <1>10, Alone DEF SetCount, Runs, TypeOK
  <2>2. /\ pc[t] = "count" /\ pc'[t] = "enable"
        /\ UNCHANGED <<sent, job, src, content, cacheIdx, block, dmaOn, m0ar, flight>>
    BY <1>10 DEF SetCount, Runs, TypeOK, bufVars, dmaVars, histVars
  <2>3. HalfTask(t)'
    BY <2>2, LatestKept DEF HalfInv, HalfTask, HandingOver, Source
  <2>4. HalfStream'
    BY <2>1, <2>2, StreamKept
  <2> QED
    BY <2>1, <2>3, <2>4, OneTask
<1>11. ASSUME NEW t \in Tasks, EnableStream(t) PROVE HalfInv'
  <2>1. \A u \in Tasks : u # t => pc[u] = "idle" /\ pc'[u] = "idle"
    BY <1>11, Alone DEF EnableStream, Runs, TypeOK
  <2>2. /\ pc[t] = "enable" /\ pc'[t] = "done" /\ ~dmaOn
        /\ UNCHANGED <<sent, job, src, content, cacheIdx, block, m0ar>>
    BY <1>11 DEF EnableStream, Runs, TypeOK, StreamInv, SettingUp, bufVars
  <2>3. flight' = content[m0ar]
    BY <1>11, <2>2 DEF EnableStream
  <2>4. HalfTask(t)'
    BY <2>2, <2>3, LatestKept DEF HalfInv, HalfTask, HandingOver, Source
  <2>5. HalfStream'
    BY <2>2 DEF HalfStream
  <2> QED
    BY <2>1, <2>4, <2>5, OneTask
<1>12. ASSUME NEW t \in Tasks, AfterSend(t) PROVE HalfInv'
  <2>1. \A u \in Tasks : u # t => pc[u] = "idle" /\ pc'[u] = "idle"
    BY <1>12, Alone DEF AfterSend, Runs, TypeOK, Home
  <2>2. /\ pc[t] = "done" /\ pc'[t] = "locked"
        /\ UNCHANGED <<dmaOn, m0ar, flight>>
    BY <1>12 DEF AfterSend, Home, Runs, TypeOK, dmaVars, histVars
  <2>3. HalfTask(t)'
    BY <2>2 DEF HalfTask, HandingOver
  <2>4. m0ar = Source(t) /\ (dmaOn => flight = Latest(t))
    BY <2>2 DEF HalfInv, HalfTask
  <2>5. job[t] \in {"string", "char", "print"} /\ cacheIdx \in 0 .. 1 /\ block \in 0 .. 1
    BY DEF TypeOK, Jobs
  <2>6. /\ cacheIdx' = IF job[t] = "string" THEN 1 - cacheIdx ELSE cacheIdx
        /\ block' = IF job[t] = "print" THEN 1 - block ELSE block
    BY <1>12 DEF AfterSend, NextHalf
  <2>7. HalfStream'
    BY <2>2, <2>4, <2>5, <2>6 DEF HalfStream, Source, Line, Cache, Latest
  <2> QED
    BY <2>1, <2>3, <2>7, OneTask
<1>13. ASSUME NEW t \in Tasks, CopyChunk(t) PROVE HalfInv'
  <2>1. \A u \in Tasks : u # t => pc[u] = "idle" /\ pc'[u] = "idle"
    BY <1>13, Alone DEF CopyChunk, Runs, TypeOK
  <2>2. "string" \in Jobs /\ Cache(cacheIdx) \in Buffers /\ Fill(t, "string", Cache(cacheIdx))
    BY <1>13 DEF CopyChunk, TypeOK, Jobs, Buffers, Cache
  <2>3. pc'[t] = "copy" /\ pc[t] # "done" /\ UNCHANGED <<cacheIdx, block, dmaOn, m0ar, flight>>
    BY <1>13 DEF CopyChunk, Runs, TypeOK, dmaVars, histVars
  <2>4. HalfTask(t)'
    BY <2>2, <2>3, FillHolds DEF HalfTask, HandingOver, Source
  <2>5. HalfStream'
    BY <2>1, <2>3, StreamKept
  <2> QED
    BY <2>1, <2>4, <2>5, OneTask
<1>14. ASSUME NEW t \in Tasks, PokeChar(t) PROVE HalfInv'
  <2>1. \A u \in Tasks : u # t => pc[u] = "idle" /\ pc'[u] = "idle"
    BY <1>14, Alone DEF PokeChar, Runs, TypeOK
  <2>2. "char" \in Jobs /\ Cache(0) \in Buffers /\ Fill(t, "char", Cache(0))
    BY <1>14 DEF PokeChar, TypeOK, Jobs, Buffers, Cache
  <2>3. pc'[t] = "poke" /\ pc[t] # "done" /\ UNCHANGED <<cacheIdx, block, dmaOn, m0ar, flight>>
    BY <1>14 DEF PokeChar, Runs, TypeOK, dmaVars, histVars
  <2>4. HalfTask(t)'
    BY <2>2, <2>3, FillHolds DEF HalfTask, HandingOver, Source
  <2>5. HalfStream'
    BY <2>1, <2>3, StreamKept
  <2> QED
    BY <2>1, <2>4, <2>5, OneTask
<1>15. ASSUME TransferEnd PROVE HalfInv'
  BY <1>15
  DEF TransferEnd, HalfInv, HalfTask, HandingOver, HalfStream, Source, Latest,
      taskVars, bufVars
<1>16. ASSUME TxInterrupt PROVE HalfInv'
  BY <1>16
  DEF TxInterrupt, HalfInv, HalfTask, HandingOver, HalfStream, Source, Latest,
      taskVars, bufVars, histVars
<1>17. ASSUME UNCHANGED vars PROVE HalfInv'
  BY <1>17
  DEF vars, HalfInv, HalfTask, HandingOver, HalfStream, Source, Latest,
      taskVars, bufVars, dmaVars, histVars
<1> QED
  BY <1>1, <1>2, <1>3, <1>4, <1>5, <1>6, <1>7, <1>8, <1>9, <1>10, <1>11, <1>12, <1>13, <1>14, <1>15, <1>16, <1>17
  DEF Next, Body

\* A task that writes a half is alone: the stream is on that half only to send an
\* echo, or the half is the first one and the task echoes.
LEMMA HalvesApart ==
  ASSUME Inv, HalfInv PROVE OnlyEchoRaces
<1> SUFFICES ASSUME dmaOn, NEW t \in Tasks, m0ar \in Writing(t)
             PROVE  m0ar = Cache(0) /\ (pc[t] = "poke" \/ flight.job = "char")
  BY DEF OnlyEchoRaces
<1>1. pc[t] \in {"copy", "poke", "char"}
  BY DEF Writing
<1>2. HalfStream /\ \A u \in Tasks : pc[u] # "done"
  BY <1>1, Alone DEF Inv, HalfInv
<1>3. CASE pc[t] = "copy"
  BY <1>2, <1>3 DEF Writing, HalfStream
<1>4. CASE pc[t] = "poke"
  BY <1>4 DEF Writing
<1>5. CASE pc[t] = "char"
  BY <1>2, <1>5 DEF Writing, HalfStream
<1> QED
  BY <1>1, <1>3, <1>4, <1>5

-----------------------------------------------------------------------------
(* The place in the buffer of printf_ *)

\* Where a task is from the start of a send to its return.
Sending(t) == pc[t] \in {"char", "check", "test", "claim", "address", "count",
                        "enable", "done"}

\* The place is inside the buffer while characters are stored, and at its start
\* while nobody prints.
LineInv ==
    /\ \A t \in Tasks :
          /\ pc[t] \in {"char", "check"} => job[t] = "print"
          /\ pc[t] = "char" => lineIdx < LineLen
          /\ pc[t] = "check" => lineIdx <= LineLen
    /\ lineIdx # 0 => \E t \in Tasks : Sending(t) /\ job[t] = "print"

LEMMA LineInit == Init => LineInv
  BY DEF Init, LineInv

\* One task sends at a time, and starts a line of printf_ with the place at 0.
LEMMA LineStep == Guarded /\ Inv /\ LineInv /\ [Next]_vars => LineInv'
<1> SUFFICES ASSUME Guarded, Inv, LineInv, [Next]_vars PROVE LineInv'
  OBVIOUS
<1> TypeOK /\ MutexInv
  BY DEF Inv
<1> Tasks = Consoles \cup Writers
  BY DEF Tasks, Guarded
<1> USE DEF Sending
<1>1. ASSUME NEW t \in Tasks, TakeMutex(t) PROVE LineInv'
  <2>1. \A u \in Tasks : u # t => pc[u] = "idle" /\ pc'[u] = "idle"
    BY <1>1, NoneAssumption DEF TakeMutex, Runs, MutexInv, TypeOK
  <2> QED
    BY <1>1, <2>1, LineLenAssumption
    DEF TakeMutex, Runs, LineInv, TypeOK, bufVars
<1>2. ASSUME NEW t \in Tasks, GiveMutex(t) PROVE LineInv'
  <2>1. \A u \in Tasks : u # t => pc[u] = "idle" /\ pc'[u] = "idle"
    BY <1>2, Alone DEF GiveMutex, Runs, TypeOK
  <2> QED
    BY <1>2, <2>1, LineLenAssumption
    DEF GiveMutex, Runs, LineInv, TypeOK, bufVars
<1>3. ASSUME NEW t \in Tasks, CopyChunk(t) PROVE LineInv'
  <2>1. \A u \in Tasks : u # t => pc[u] = "idle" /\ pc'[u] = "idle"
    BY <1>3, Alone DEF CopyChunk, Runs, TypeOK
  <2> QED
    BY <1>3, <2>1, LineLenAssumption
    DEF CopyChunk, Runs, Fill, LineInv, TypeOK, bufVars
<1>4. ASSUME NEW t \in Tasks, PokeChar(t) PROVE LineInv'
  <2>1. \A u \in Tasks : u # t => pc[u] = "idle" /\ pc'[u] = "idle"
    BY <1>4, Alone DEF PokeChar, Runs, TypeOK
  <2> QED
    BY <1>4, <2>1, LineLenAssumption
    DEF PokeChar, Runs, Fill, LineInv, TypeOK, bufVars
<1>5. ASSUME NEW t \in Tasks, StartPrint(t) PROVE LineInv'
  <2>1. \A u \in Tasks : u # t => pc[u] = "idle" /\ pc'[u] = "idle"
    BY <1>5, Alone DEF StartPrint, Runs, TypeOK, Home, Guarded
  <2> QED
    BY <1>5, <2>1, LineLenAssumption
    DEF StartPrint, Runs, Home, Guarded, LineInv, TypeOK, bufVars
<1>6. ASSUME NEW t \in Tasks, Written(t) PROVE LineInv'
  <2>1. \A u \in Tasks : u # t => pc[u] = "idle" /\ pc'[u] = "idle"
    BY <1>6, Alone DEF Written, Runs, TypeOK
  <2> QED
    BY <1>6, <2>1, LineLenAssumption
    DEF Written, Runs, LineInv, TypeOK, bufVars
<1>7. ASSUME NEW t \in Tasks, PutChar(t) PROVE LineInv'
  <2>1. \A u \in Tasks : u # t => pc[u] = "idle" /\ pc'[u] = "idle"
    BY <1>7, Alone DEF PutChar, Runs, TypeOK
  <2> QED
    BY <1>7, <2>1, LineLenAssumption
    DEF PutChar, Runs, LineInv, TypeOK, bufVars
<1>8. ASSUME NEW t \in Tasks, CheckLine(t) PROVE LineInv'
  <2>1. \A u \in Tasks : u # t => pc[u] = "idle" /\ pc'[u] = "idle"
    BY <1>8, Alone DEF CheckLine, Runs, TypeOK
  <2> QED
    BY <1>8, <2>1, LineLenAssumption
    DEF CheckLine, Runs, LineFull, LineInv, TypeOK, bufVars
<1>9. ASSUME NEW t \in Tasks, TestBusy(t) PROVE LineInv'
  <2>1. \A u \in Tasks : u # t => pc[u] = "idle" /\ pc'[u] = "idle"
    BY <1>9, Alone DEF TestBusy, Runs, TypeOK
  <2> QED
    BY <1>9, <2>1, LineLenAssumption
    DEF TestBusy, Runs, LineInv, TypeOK, bufVars
<1>10. ASSUME NEW t \in Tasks, ClaimBusy(t) PROVE LineInv'
  <2>1. \A u \in Tasks : u # t => pc[u] = "idle" /\ pc'[u] = "idle"
    BY <1>10, Alone DEF ClaimBusy, Runs, TypeOK
  <2> QED
    BY <1>10, <2>1, LineLenAssumption
    DEF ClaimBusy, Runs, LineInv, TypeOK, bufVars
<1>11. ASSUME NEW t \in Tasks, SetAddress(t) PROVE LineInv'
  <2>1. \A u \in Tasks : u # t => pc[u] = "idle" /\ pc'[u] = "idle"
    BY <1>11, Alone DEF SetAddress, Runs, TypeOK
  <2> QED
    BY <1>11, <2>1, LineLenAssumption
    DEF SetAddress, Runs, LineInv, TypeOK, bufVars
<1>12. ASSUME NEW t \in Tasks, SetCount(t) PROVE LineInv'
  <2>1. \A u \in Tasks : u # t => pc[u] = "idle" /\ pc'[u] = "idle"
    BY <1>12, Alone DEF SetCount, Runs, TypeOK
  <2> QED
    BY <1>12, <2>1, LineLenAssumption
    DEF SetCount, Runs, LineInv, TypeOK, bufVars
<1>13. ASSUME NEW t \in Tasks, EnableStream(t) PROVE LineInv'
  <2>1. \A u \in Tasks : u # t => pc[u] = "idle" /\ pc'[u] = "idle"
    BY <1>13, Alone DEF EnableStream, Runs, TypeOK
  <2> QED
    BY <1>13, <2>1, LineLenAssumption
    DEF EnableStream, Runs, LineInv, TypeOK, bufVars
<1>14. ASSUME NEW t \in Tasks, AfterSend(t) PROVE LineInv'
  <2>1. \A u \in Tasks : u # t => pc[u] = "idle" /\ pc'[u] = "idle"
    BY <1>14, Alone DEF AfterSend, Runs, TypeOK, Home
  <2> QED
    BY <1>14, <2>1, LineLenAssumption
    DEF AfterSend, Runs, Home, NextHalf, LineInv, TypeOK, bufVars
<1>15. ASSUME TransferEnd PROVE LineInv'
  BY <1>15 DEF TransferEnd, taskVars, bufVars, LineInv
<1>16. ASSUME TxInterrupt PROVE LineInv'
  BY <1>16 DEF TxInterrupt, taskVars, bufVars, LineInv
<1>17. ASSUME UNCHANGED vars PROVE LineInv'
  BY <1>17 DEF vars, taskVars, bufVars, LineInv
<1> QED
  BY <1>1, <1>2, <1>3, <1>4, <1>5, <1>6, <1>7, <1>8, <1>9,
     <1>10, <1>11, <1>12, <1>13, <1>14, <1>15, <1>16, <1>17
  DEF Next, Body

-----------------------------------------------------------------------------
(* The messages on their way *)

\* t has written its latest message over the one that is being sent: either is
\* an echo and neither a line of printf_.
Raced(t) ==
    /\ pc[t] \in {"copy", "poke", "test"}
    /\ content[m0ar] = Latest(t)
    /\ "char" \in {flight.job, job[t]}
    /\ "print" \notin {flight.job, job[t]}

\* t holds a message that the stream was not started with yet.
Preparing(t) ==
    pc[t] \in {"copy", "poke", "char", "check", "test", "claim", "address",
              "count", "enable"}

\* A message of t that is not on the line has been spoiled, or is being sent, or
\* is still in the hands of t.
Accounted(t, n) ==
    \/ Spoilt(t, n)
    \/ dmaOn /\ flight.task = t /\ flight.no = n
    \/ Preparing(t) /\ n = sent[t]

WireInv ==
    /\ dmaOn => content[m0ar] = flight \/ \E t \in Tasks : Raced(t)
    /\ dmaOn => \A t \in Tasks : flight.task = t =>
                   wire[t] <= flight.no /\ flight.no <= sent[t]
    /\ \A t \in Tasks :
          /\ wire[t] <= sent[t]
          /\ \A n \in wire[t] + 1 .. sent[t] : Accounted(t, n)

LEMMA WireInit == Init => WireInv
<1> SUFFICES ASSUME Init PROVE WireInv
  OBVIOUS
<1>1. /\ content[m0ar] = flight /\ flight.task \notin Tasks
      /\ \A t \in Tasks : wire[t] = 0 /\ sent[t] = 0
  BY NoneAssumption DEF Init, Welcome, Buffers, Cache
<1> QED
  BY <1>1 DEF WireInv

\* A step of t that starts no message and ends none.
LEMMA WireQuiet ==
  ASSUME TypeOK, WireInv, NEW t \in Tasks,
         \A u \in Tasks : u # t => pc'[u] = "idle",
         \A u \in Tasks : u # t => pc[u] = "idle",
         UNCHANGED <<job, sent, wire, spoiled, flight>>,
         Preparing(t) => Preparing(t)',
         dmaOn' <=> dmaOn,
         dmaOn => m0ar' = m0ar /\ content'[m0ar] = content[m0ar],
         dmaOn /\ pc[t] \in {"copy", "poke", "test"} =>
            pc'[t] \in {"copy", "poke", "test"}
  PROVE  WireInv'
<1>1. \A u \in Tasks : dmaOn /\ Raced(u) => Raced(u)'
  BY DEF Raced, Latest
<1>2. \A u \in Tasks, n \in Nat : Accounted(u, n) => Accounted(u, n)'
  BY DEF Accounted, Spoilt, Preparing
<1>3. \A u \in Tasks : \A n \in wire[u] + 1 .. sent[u] : n \in Nat
  BY DEF TypeOK
<1> QED
  BY <1>1, <1>2, <1>3 DEF WireInv

\* t begins a message: sent[t] grows, and what is being sent is untouched or
\* raced.
LEMMA WireNew ==
  ASSUME TypeOK, WireInv, NEW t \in Tasks,
         \A u \in Tasks : u # t => pc'[u] = "idle",
         \A u \in Tasks : u # t => pc[u] = "idle",
         ~Preparing(t), Preparing(t)',
         sent'[t] = sent[t] + 1,
         \A u \in Tasks : u # t => sent'[u] = sent[u],
         UNCHANGED <<wire, spoiled, flight, m0ar, dmaOn>>,
         dmaOn => content'[m0ar] = content[m0ar] \/ Raced(t)'
  PROVE  WireInv'
<1>1. dmaOn => content[m0ar] = flight
  BY DEF WireInv, Raced, Preparing
<1>2. \A u \in Tasks, n \in Nat :
         Accounted(u, n) /\ (u = t => n # sent[t] + 1) => Accounted(u, n)'
  BY DEF Accounted, Spoilt, Preparing
<1>3. \A n : n = sent[t] + 1 => Accounted(t, n)'
  BY DEF Accounted
<1>4. \A u \in Tasks : wire[u] \in Nat /\ sent[u] \in Nat /\ wire[u] <= sent[u]
  BY DEF TypeOK, WireInv
<1>5. ASSUME NEW u \in Tasks, NEW n \in wire'[u] + 1 .. sent'[u]
      PROVE  Accounted(u, n)'
  <2>1. CASE u = t /\ n = sent[t] + 1
    BY <1>3, <2>1
  <2>2. CASE ~(u = t /\ n = sent[t] + 1)
    <3>1. n \in Nat /\ n \in wire[u] + 1 .. sent[u]
      BY <1>4, <2>2
    <3>2. Accounted(u, n)
      BY <3>1 DEF WireInv
    <3> QED
      BY <1>2, <2>2, <3>1, <3>2
  <2> QED
    BY <2>1, <2>2
<1>6. \A u \in Tasks : wire'[u] <= sent'[u]
  BY <1>4
<1>7. dmaOn => \A u \in Tasks : flight.task = u =>
                  wire'[u] <= flight.no /\ flight.no <= sent'[u]
  <2>1. flight.no \in Nat
    BY DEF TypeOK, Message
  <2> QED
    BY <1>4, <2>1 DEF WireInv
<1>8. dmaOn => content'[m0ar] = flight \/ \E u \in Tasks : Raced(u)'
  BY <1>1
<1> QED
  BY <1>5, <1>6, <1>7, <1>8 DEF WireInv

\* A message that was overwritten while it was sent, with an echo on either side.
LEMMA NewlySpoilt ==
  ASSUME NEW t, NEW n, NEW m,
         spoiled' = spoiled \cup {[lost |-> flight, by |-> m]},
         flight.task = t, flight.no = n,
         "char" \in {flight.job, m.job}, "print" \notin {flight.job, m.job}
  PROVE  Spoilt(t, n)'
<1> DEFINE s == [lost |-> flight, by |-> m]
<1>1. s \in spoiled' /\ s.lost = flight /\ s.by = m
  OBVIOUS
<1> HIDE DEF s
<1> QED
  BY <1>1 DEF Spoilt

\* What the end of a transfer puts on the line: a message of some task that is at
\* least as new as what the line has of it, and every older one that is missing
\* is accounted for without it.
LEMMA TransferSends ==
  ASSUME TypeOK, MutexInv, WireInv, TransferEnd
  PROVE  /\ \A t \in Tasks :
               /\ wire[t] <= wire'[t] /\ wire'[t] <= sent[t]
               /\ \A n \in wire[t] + 1 .. wire'[t] - 1 : Spoilt(t, n)'
         /\ \A t \in Tasks : \A n \in wire'[t] + 1 .. sent[t] :
               Accounted(t, n)'
<1> DEFINE Older(t, n) == flight.task = t /\ flight.no = n
<1>0. /\ dmaOn /\ ~dmaOn' /\ UNCHANGED <<pc, job, src, sent, content, m0ar, flight>>
  BY DEF TransferEnd, taskVars, bufVars
<1>1. PICK m \in {flight, content[m0ar]} :
         /\ wire' = IF m.task = None THEN wire
                    ELSE [wire EXCEPT ![m.task] = m.no]
         /\ spoiled' = IF m = flight THEN spoiled
                       ELSE spoiled \cup {[lost |-> flight, by |-> m]}
  BY DEF TransferEnd
<1>2. /\ m \in Message /\ flight \in Message
      /\ \A t \in Tasks : wire[t] \in Nat /\ sent[t] \in Nat /\ wire[t] <= sent[t]
  BY DEF TypeOK, WireInv
<1>3. m.task \in Tasks \cup {None} /\ m.no \in Nat /\ flight.no \in Nat
  BY <1>2 DEF Message
<1>4. \A t \in Tasks, n \in Nat : Spoilt(t, n) => Spoilt(t, n)'
  <2>1. spoiled \subseteq spoiled'
    BY <1>1
  <2> QED
    BY <2>1 DEF Spoilt
<1>5. \A t \in Tasks : wire'[t] = IF m.task = t THEN m.no ELSE wire[t]
  BY <1>1, <1>3, NoneAssumption DEF TypeOK
<1>6. CASE m = flight
  <2>1. \A t \in Tasks : m.task = t => wire[t] <= m.no /\ m.no <= sent[t]
    BY <1>0, <1>6 DEF WireInv
  <2>2. \A t \in Tasks, n \in Nat :
           n \in wire[t] + 1 .. sent[t] /\ ~(m.task = t /\ n = m.no) =>
              Spoilt(t, n)' \/ (Preparing(t) /\ n = sent[t])
    BY <1>4, <1>6 DEF WireInv, Accounted
  <2>3. ASSUME NEW t \in Tasks
        PROVE  /\ wire[t] <= wire'[t] /\ wire'[t] <= sent[t]
               /\ \A n \in wire[t] + 1 .. wire'[t] - 1 : Spoilt(t, n)'
    BY <1>2, <1>3, <1>5, <2>1, <2>2
  <2>4. ASSUME NEW t \in Tasks, NEW n \in wire'[t] + 1 .. sent[t]
        PROVE  Accounted(t, n)'
    <3>1. n \in Nat /\ n \in wire[t] + 1 .. sent[t] /\ ~(m.task = t /\ n = m.no)
      BY <1>2, <1>3, <1>5, <2>3
    <3>2. Spoilt(t, n)' \/ (Preparing(t) /\ n = sent[t])
      BY <2>2, <3>1
    <3> QED
      BY <1>0, <3>2 DEF Accounted, Preparing
  <2> QED
    BY <2>3, <2>4
<1>7. CASE m # flight
  <2>1. PICK u \in Tasks : Raced(u) /\ m = Latest(u)
    BY <1>0, <1>7 DEF WireInv, Raced
  <2>2. /\ m.task = u /\ m.no = sent[u] /\ m.job = job[u]
        /\ \A t \in Tasks : t # u => ~Preparing(t)
    BY <2>1, Alone DEF Latest, Raced, Preparing
  <2>3. \A t \in Tasks, n \in Nat :
           flight.task = t /\ flight.no = n => Spoilt(t, n)'
    BY <1>1, <1>7, <2>1, <2>2, NewlySpoilt DEF Raced
  <2>4. \A t \in Tasks, n \in Nat :
           n \in wire[t] + 1 .. sent[t] /\ ~(t = u /\ n = sent[u]) =>
              Spoilt(t, n)'
    BY <1>4, <2>2, <2>3 DEF WireInv, Accounted
  <2>5. ASSUME NEW t \in Tasks
        PROVE  /\ wire[t] <= wire'[t] /\ wire'[t] <= sent[t]
               /\ \A n \in wire[t] + 1 .. wire'[t] - 1 : Spoilt(t, n)'
    BY <1>2, <1>5, <2>2, <2>4
  <2>6. ASSUME NEW t \in Tasks, NEW n \in wire'[t] + 1 .. sent[t]
        PROVE  Accounted(t, n)'
    <3>1. n \in Nat /\ n \in wire[t] + 1 .. sent[t] /\ t # u
      BY <1>2, <1>5, <2>2
    <3> QED
      BY <2>4, <3>1 DEF Accounted
  <2> QED
    BY <2>5, <2>6
<1> QED
  BY <1>6, <1>7

\* What is handed over reaches the line next, unless an echo races with it.
LEMMA WireStep ==
  Guarded /\ Inv /\ HalfInv /\ WireInv /\ [Next]_vars => WireInv'
<1> SUFFICES ASSUME Guarded, Inv, HalfInv, WireInv, [Next]_vars PROVE WireInv'
  OBVIOUS
<1> TypeOK /\ MutexInv /\ StreamInv
  BY DEF Inv
<1> Tasks = Consoles \cup Writers
  BY DEF Tasks, Guarded
<1>1. ASSUME NEW t \in Tasks, TakeMutex(t) PROVE WireInv'
  <2>1. \A u \in Tasks : u # t => pc[u] = "idle" /\ pc'[u] = "idle"
    BY <1>1, NoneAssumption DEF TakeMutex, Runs, TypeOK, MutexInv
  <2>2. /\ pc[t] = "idle" /\ pc'[t] \in {"key", "locked"}
        /\ UNCHANGED <<job, sent, wire, spoiled, flight, dmaOn, content, m0ar>>
    BY <1>1 DEF TakeMutex, Runs, TypeOK, bufVars, dmaVars, histVars
  <2>3. dmaOn => m0ar' = m0ar /\ content'[m0ar] = content[m0ar]
    BY <2>2
  <2>4. Preparing(t) => Preparing(t)'
    BY <2>2 DEF Preparing
  <2> QED
    BY <2>1, <2>2, <2>3, <2>4, WireQuiet
<1>2. ASSUME NEW t \in Tasks, GiveMutex(t) PROVE WireInv'
  <2>1. \A u \in Tasks : u # t => pc[u] = "idle" /\ pc'[u] = "idle"
    BY <1>2, Alone DEF GiveMutex, Runs, TypeOK
  <2>2. /\ pc[t] = "locked" /\ pc'[t] = "idle"
        /\ UNCHANGED <<job, sent, wire, spoiled, flight, dmaOn, content, m0ar>>
    BY <1>2 DEF GiveMutex, Runs, TypeOK, bufVars, dmaVars, histVars
  <2>3. dmaOn => m0ar' = m0ar /\ content'[m0ar] = content[m0ar]
    BY <2>2
  <2>4. Preparing(t) => Preparing(t)'
    BY <2>2 DEF Preparing
  <2> QED
    BY <2>1, <2>2, <2>3, <2>4, WireQuiet
<1>3. ASSUME NEW t \in Tasks, StartPrint(t) PROVE WireInv'
  <2>1. \A u \in Tasks : u # t => pc[u] = "idle" /\ pc'[u] = "idle"
    BY <1>3, Alone DEF StartPrint, Runs, TypeOK, Home
  <2>2. /\ pc[t] = "locked" /\ pc'[t] = "char"
        /\ sent' = [sent EXCEPT ![t] = @ + 1]
        /\ UNCHANGED <<content, dmaOn, m0ar, flight, wire, spoiled>>
    BY <1>3 DEF StartPrint, Runs, Home, TypeOK, bufVars, dmaVars, histVars
  <2>3. sent'[t] = sent[t] + 1 /\ \A u \in Tasks : u # t => sent'[u] = sent[u]
    BY <2>2 DEF TypeOK
  <2>4. ~Preparing(t) /\ Preparing(t)'
    BY <2>2 DEF Preparing
  <2> QED
    BY <2>1, <2>2, <2>3, <2>4, WireNew
<1>4. ASSUME NEW t \in Tasks, Written(t) PROVE WireInv'
  <2>1. \A u \in Tasks : u # t => pc[u] = "idle" /\ pc'[u] = "idle"
    BY <1>4, Alone DEF Written, Runs, TypeOK
  <2>2. /\ pc[t] \in {"copy", "poke"} /\ pc'[t] = "test"
        /\ UNCHANGED <<job, sent, wire, spoiled, flight, dmaOn, content, m0ar>>
    BY <1>4 DEF Written, Runs, TypeOK, bufVars, dmaVars, histVars
  <2>3. dmaOn => m0ar' = m0ar /\ content'[m0ar] = content[m0ar]
    BY <2>2
  <2>4. Preparing(t) => Preparing(t)'
    BY <2>2 DEF Preparing
  <2> QED
    BY <2>1, <2>2, <2>3, <2>4, WireQuiet
<1>5. ASSUME NEW t \in Tasks, PutChar(t) PROVE WireInv'
  <2>1. \A u \in Tasks : u # t => pc[u] = "idle" /\ pc'[u] = "idle"
    BY <1>5, Alone DEF PutChar, Runs, TypeOK
  <2>2. /\ pc[t] = "char" /\ pc'[t] = "check"
        /\ UNCHANGED <<job, sent, wire, spoiled, flight, dmaOn, m0ar>>
    BY <1>5 DEF PutChar, Runs, TypeOK, bufVars, dmaVars, histVars
  <2>3. dmaOn => content'[m0ar] = content[m0ar]
    <3>1. content' = [content EXCEPT ![Line(block)] = Latest(t)]
      BY <1>5 DEF PutChar
    <3>2. dmaOn => m0ar # Line(block)
      BY <2>1, <2>2 DEF HalfInv, HalfStream
    <3> QED
      BY <3>1, <3>2 DEF TypeOK
  <2>4. Preparing(t) => Preparing(t)'
    BY <2>2 DEF Preparing
  <2> QED
    BY <2>1, <2>2, <2>3, <2>4, WireQuiet
<1>6. ASSUME NEW t \in Tasks, CheckLine(t) PROVE WireInv'
  <2>1. \A u \in Tasks : u # t => pc[u] = "idle" /\ pc'[u] = "idle"
    BY <1>6, Alone DEF CheckLine, Runs, TypeOK
  <2>2. /\ pc[t] = "check" /\ pc'[t] \in {"test", "char"}
        /\ UNCHANGED <<job, sent, wire, spoiled, flight, dmaOn, content, m0ar>>
    BY <1>6 DEF CheckLine, Runs, TypeOK, bufVars, dmaVars, histVars
  <2>3. dmaOn => m0ar' = m0ar /\ content'[m0ar] = content[m0ar]
    BY <2>2
  <2>4. Preparing(t) => Preparing(t)'
    BY <2>2 DEF Preparing
  <2> QED
    BY <2>1, <2>2, <2>3, <2>4, WireQuiet
<1>7. ASSUME NEW t \in Tasks, TestBusy(t) PROVE WireInv'
  <2>1. \A u \in Tasks : u # t => pc[u] = "idle" /\ pc'[u] = "idle"
    BY <1>7, Alone DEF TestBusy, Runs, TypeOK
  <2>2. /\ pc[t] = "test" /\ busy = 0 /\ pc'[t] = "claim"
        /\ UNCHANGED <<job, sent, wire, spoiled, flight, dmaOn, content, m0ar>>
    BY <1>7 DEF TestBusy, Runs, StreamFree, TypeOK, bufVars, dmaVars, histVars
  <2>3. ~dmaOn
    BY <2>2 DEF StreamInv
  <2>4. Preparing(t) => Preparing(t)'
    BY <2>2 DEF Preparing
  <2> QED
    BY <2>1, <2>2, <2>3, <2>4, WireQuiet
<1>8. ASSUME NEW t \in Tasks, ClaimBusy(t) PROVE WireInv'
  <2>1. \A u \in Tasks : u # t => pc[u] = "idle" /\ pc'[u] = "idle"
    BY <1>8, Alone DEF ClaimBusy, Runs, TypeOK
  <2>2. /\ pc[t] = "claim" /\ pc'[t] = "address"
        /\ UNCHANGED <<job, sent, wire, spoiled, flight, dmaOn, content, m0ar>>
    BY <1>8 DEF ClaimBusy, Runs, TypeOK, bufVars, dmaVars, histVars
  <2>3. dmaOn => m0ar' = m0ar /\ content'[m0ar] = content[m0ar]
    BY <2>2
  <2>4. Preparing(t) => Preparing(t)'
    BY <2>2 DEF Preparing
  <2> QED
    BY <2>1, <2>2, <2>3, <2>4, WireQuiet
<1>9. ASSUME NEW t \in Tasks, SetAddress(t) PROVE WireInv'
  <2>1. \A u \in Tasks : u # t => pc[u] = "idle" /\ pc'[u] = "idle"
    BY <1>9, Alone DEF SetAddress, Runs, TypeOK
  <2>2. /\ pc[t] = "address" /\ pc'[t] = "count"
        /\ UNCHANGED <<job, sent, wire, spoiled, flight, dmaOn, content>>
    BY <1>9 DEF SetAddress, Runs, TypeOK, bufVars, dmaVars, histVars
  <2>3. dmaOn => m0ar' = m0ar /\ content'[m0ar] = content[m0ar]
    BY <2>2 DEF StreamInv, SettingUp
  <2>4. Preparing(t) => Preparing(t)'
    BY <2>2 DEF Preparing
  <2> QED
    BY <2>1, <2>2, <2>3, <2>4, WireQuiet
<1>10. ASSUME NEW t \in Tasks, SetCount(t) PROVE WireInv'
  <2>1. \A u \in Tasks : u # t => pc[u] = "idle" /\ pc'[u] = "idle"
    BY <1>10, Alone DEF SetCount, Runs, TypeOK
  <2>2. /\ pc[t] = "count" /\ pc'[t] = "enable"
        /\ UNCHANGED <<job, sent, wire, spoiled, flight, dmaOn, content, m0ar>>
    BY <1>10 DEF SetCount, Runs, TypeOK, bufVars, dmaVars, histVars
  <2>3. dmaOn => m0ar' = m0ar /\ content'[m0ar] = content[m0ar]
    BY <2>2
  <2>4. Preparing(t) => Preparing(t)'
    BY <2>2 DEF Preparing
  <2> QED
    BY <2>1, <2>2, <2>3, <2>4, WireQuiet
<1>11. ASSUME NEW t \in Tasks, EnableStream(t) PROVE WireInv'
  <2>1. \A u \in Tasks : u # t => pc[u] = "idle" /\ pc'[u] = "idle"
    BY <1>11, Alone DEF EnableStream, Runs, TypeOK
  <2>2. /\ pc[t] = "enable" /\ pc'[t] = "done" /\ ~dmaOn /\ dmaOn'
        /\ UNCHANGED <<job, sent, content, m0ar, wire, spoiled>>
    BY <1>11 DEF EnableStream, Runs, TypeOK, StreamInv, SettingUp, bufVars
  <2>3. flight' = content[m0ar] /\ flight' = Latest(t)
    BY <1>11, <2>2 DEF EnableStream, HalfInv, HalfTask, HandingOver
  <2>4. flight'.task = t /\ flight'.no = sent[t]
    BY <2>3 DEF Latest
  <2>5. \A u \in Tasks, n \in Nat : Accounted(u, n) => Accounted(u, n)'
    BY <2>1, <2>2, <2>4 DEF Accounted, Spoilt, Preparing
  <2>6. \A u \in Tasks : wire[u] <= sent[u] /\ sent[u] <= sent[u]
    BY DEF WireInv, TypeOK
  <2>7. \A u \in Tasks : \A n \in wire[u] + 1 .. sent[u] : n \in Nat
    BY DEF TypeOK
  <2> QED
    BY <2>2, <2>3, <2>4, <2>5, <2>6, <2>7 DEF WireInv
<1>12. ASSUME NEW t \in Tasks, AfterSend(t) PROVE WireInv'
  <2>1. \A u \in Tasks : u # t => pc[u] = "idle" /\ pc'[u] = "idle"
    BY <1>12, Alone DEF AfterSend, Runs, TypeOK, Home
  <2>2. /\ pc[t] = "done" /\ pc'[t] = "locked"
        /\ UNCHANGED <<job, sent, wire, spoiled, flight, dmaOn, content, m0ar>>
    BY <1>12 DEF AfterSend, Runs, Home, TypeOK, bufVars, dmaVars, histVars
  <2>3. dmaOn => m0ar' = m0ar /\ content'[m0ar] = content[m0ar]
    BY <2>2
  <2>4. Preparing(t) => Preparing(t)'
    BY <2>2 DEF Preparing
  <2> QED
    BY <2>1, <2>2, <2>3, <2>4, WireQuiet
<1>13. ASSUME NEW t \in Tasks, CopyChunk(t) PROVE WireInv'
  <2>1. \A u \in Tasks : u # t => pc[u] = "idle" /\ pc'[u] = "idle"
    BY <1>13, Alone DEF CopyChunk, Runs, TypeOK
  <2>2. "string" \in Jobs /\ Cache(cacheIdx) \in Buffers /\ Fill(t, "string", Cache(cacheIdx))
    BY <1>13 DEF CopyChunk, TypeOK, Jobs, Buffers, Cache
  <2>3. /\ pc[t] = "locked" /\ pc'[t] = "copy"
        /\ UNCHANGED <<dmaOn, m0ar, flight, wire, spoiled>>
    BY <1>13 DEF CopyChunk, Runs, TypeOK, dmaVars, histVars
  <2>4. /\ content'[Cache(cacheIdx)] = Latest(t)' /\ job'[t] = "string"
        /\ sent'[t] = sent[t] + 1
        /\ \A u \in Tasks : u # t => sent'[u] = sent[u]
        /\ \A a \in Buffers : a # Cache(cacheIdx) => content'[a] = content[a]
    BY <2>2, FillHolds
  <2>5. dmaOn /\ m0ar = Cache(cacheIdx) => Raced(t)'
    <3>1. dmaOn => HalfStream /\ \A u \in Tasks : pc[u] # "done"
      BY <2>1, <2>3 DEF HalfInv
    <3>2. dmaOn /\ m0ar = Cache(cacheIdx) => "print" \notin {flight.job, "string"}
      BY <3>1 DEF HalfStream, TypeOK
    <3>3. dmaOn /\ m0ar = Cache(cacheIdx) => "char" \in {flight.job, "string"}
      BY <3>1 DEF HalfStream
    <3> QED
      BY <2>3, <2>4, <3>2, <3>3 DEF Raced
  <2>6. dmaOn => content'[m0ar] = content[m0ar] \/ Raced(t)'
    BY <2>4, <2>5 DEF TypeOK
  <2>7. ~Preparing(t) /\ Preparing(t)'
    BY <2>3 DEF Preparing
  <2> QED
    BY <2>1, <2>3, <2>4, <2>6, <2>7, WireNew
<1>14. ASSUME NEW t \in Tasks, PokeChar(t) PROVE WireInv'
  <2>1. \A u \in Tasks : u # t => pc[u] = "idle" /\ pc'[u] = "idle"
    BY <1>14, Alone DEF PokeChar, Runs, TypeOK
  <2>2. "char" \in Jobs /\ Cache(0) \in Buffers /\ Fill(t, "char", Cache(0))
    BY <1>14 DEF PokeChar, TypeOK, Jobs, Buffers, Cache
  <2>3. /\ pc[t] = "key" /\ pc'[t] = "poke"
        /\ UNCHANGED <<dmaOn, m0ar, flight, wire, spoiled>>
    BY <1>14 DEF PokeChar, Runs, TypeOK, dmaVars, histVars
  <2>4. /\ content'[Cache(0)] = Latest(t)' /\ job'[t] = "char"
        /\ sent'[t] = sent[t] + 1
        /\ \A u \in Tasks : u # t => sent'[u] = sent[u]
        /\ \A a \in Buffers : a # Cache(0) => content'[a] = content[a]
    BY <2>2, FillHolds
  <2>5. dmaOn /\ m0ar = Cache(0) => Raced(t)'
    <3>1. dmaOn => HalfStream /\ \A u \in Tasks : pc[u] # "done"
      BY <2>1, <2>3 DEF HalfInv
    <3>2. dmaOn /\ m0ar = Cache(0) => "print" \notin {flight.job, "char"}
      BY <3>1 DEF HalfStream, TypeOK
    <3>3. dmaOn /\ m0ar = Cache(0) => "char" \in {flight.job, "char"}
      BY <3>1 DEF HalfStream
    <3> QED
      BY <2>3, <2>4, <3>2, <3>3 DEF Raced
  <2>6. dmaOn => content'[m0ar] = content[m0ar] \/ Raced(t)'
    BY <2>4, <2>5 DEF TypeOK
  <2>7. ~Preparing(t) /\ Preparing(t)'
    BY <2>3 DEF Preparing
  <2> QED
    BY <2>1, <2>3, <2>4, <2>6, <2>7, WireNew
<1>15. ASSUME TransferEnd PROVE WireInv'
  <2>1. ~dmaOn' /\ sent' = sent
    BY <1>15 DEF TransferEnd, taskVars
  <2> QED
    BY <1>15, <2>1, TransferSends DEF WireInv
<1>16. ASSUME TxInterrupt PROVE WireInv'
  <2>1. ~dmaOn /\ ~dmaOn' /\ UNCHANGED <<pc, sent, wire, spoiled>>
    BY <1>16 DEF TxInterrupt, StreamInv, taskVars, histVars
  <2> QED
    BY <2>1 DEF WireInv, Accounted, Spoilt, Preparing
<1>17. ASSUME UNCHANGED vars PROVE WireInv'
  BY <1>17
  DEF vars, taskVars, bufVars, dmaVars, histVars, WireInv, Raced, Latest,
      Accounted, Spoilt, Preparing
<1> QED
  BY <1>1, <1>2, <1>3, <1>4, <1>5, <1>6, <1>7, <1>8, <1>9, <1>10, <1>11, <1>12, <1>13, <1>14, <1>15, <1>16, <1>17
  DEF Next, Body

-----------------------------------------------------------------------------

\* The variables keep their types, whoever prints and echoes.
THEOREM TypeCorrect == Spec => []TypeOK
<1>1. Init => TypeOK
  BY InvInit DEF Inv
<1>2. TypeOK /\ [Next]_vars => TypeOK'
  BY TypeStep
<1> QED
  BY <1>1, <1>2, PTL DEF Spec

\* mcu_uart_send_buffer_dma, when every sender holds xTxMutex: the busy flag
\* is up exactly while the stream is being set up, runs, or has its interrupt
\* pending.
THEOREM FlagExact == Guarded => (Spec => []BusyExact)
<1> SUFFICES ASSUME Guarded PROVE Spec => []BusyExact
  OBVIOUS
<1>1. Inv => BusyExact
  BY DEF Inv, StreamInv, BusyExact
<1> QED
  BY <1>1, InvInit, InvStep, PTL DEF Spec

\* The same senders never write a register of the stream while it is enabled:
\* no message is lost in a write the hardware ignores.
THEOREM SetupAccepted == Guarded => (Spec => []NoLostSetup)
<1> SUFFICES ASSUME Guarded PROVE Spec => []NoLostSetup
  OBVIOUS
<1>1. Inv => NoLostSetup
  BY DEF Inv, StreamInv, NoLostSetup
<1> QED
  BY <1>1, InvInit, InvStep, PTL DEF Spec

\* vSerialPutString, xSerialPutChar and _putchar, when every sender holds
\* xTxMutex: a buffer is written while it is sent only in the first cache half,
\* and only by an echo or behind one.
THEOREM DoubleBuffersSafe == Guarded => (Spec => []OnlyEchoRaces)
<1> SUFFICES ASSUME Guarded PROVE Spec => []OnlyEchoRaces
  OBVIOUS
<1>1. Init => Inv /\ HalfInv
  BY InvInit, HalfInit
<1>2. Guarded /\ Inv /\ HalfInv /\ [Next]_vars => (Inv /\ HalfInv)'
  BY InvStep, HalfStep
<1>3. Inv /\ HalfInv => OnlyEchoRaces
  BY HalvesApart
<1> QED
  BY <1>1, <1>2, <1>3, PTL DEF Spec

\* With every sender under xTxMutex the parts agree: besides the busy flag and the
\* stream, the place in the buffer of printf_ is always inside it, and when the
\* stream is at rest nothing that was handed over is missing on the line but
\* what an echo has spoiled.
THEOREM PartsAgree == Guarded => (Spec => []SendersAgree)
<1> SUFFICES ASSUME Guarded PROVE Spec => []SendersAgree
  OBVIOUS
<1> DEFINE All == Inv /\ HalfInv /\ LineInv /\ WireInv
<1>1. Init => All
  BY InvInit, HalfInit, LineInit, WireInit
<1>2. All /\ [Next]_vars => All'
  BY InvStep, HalfStep, LineStep, WireStep
<1>3. All => SendersAgree
  <2> SUFFICES ASSUME All PROVE SendersAgree
    OBVIOUS
  <2>1. TypeOK /\ BusyExact
    BY DEF Inv, StreamInv, BusyExact
  <2>2. LineInBounds
    BY DEF LineInv, LineInBounds
  <2>3. NothingLost
    BY DEF WireInv, Accounted, Preparing, NothingLost
  <2> QED
    BY <2>1, <2>2, <2>3 DEF SendersAgree
<1> HIDE DEF All
<1> QED
  BY <1>1, <1>2, <1>3, PTL DEF Spec

\* With every sender under xTxMutex the messages of each task reach the line in
\* their order, and one that is missing in between was spoiled by an echo.
THEOREM InOrder == Guarded => (Spec => WireInOrder)
<1> SUFFICES ASSUME Guarded PROVE Spec => WireInOrder
  OBVIOUS
<1> DEFINE All == Inv /\ HalfInv /\ WireInv
           Ordered == \A t \in Tasks : wire'[t] # wire[t] =>
                         /\ wire'[t] > wire[t]
                         /\ \A n \in wire[t] + 1 .. wire'[t] - 1 : Spoilt(t, n)'
<1>1. Init => All
  BY InvInit, HalfInit, WireInit
<1>2. All /\ [Next]_vars => All'
  BY InvStep, HalfStep, WireStep
<1>3. All /\ [Next]_vars => [Ordered]_vars
  <2> SUFFICES ASSUME All, Next, NEW t \in Tasks, wire'[t] # wire[t]
               PROVE  /\ wire'[t] > wire[t]
                      /\ \A n \in wire[t] + 1 .. wire'[t] - 1 : Spoilt(t, n)'
    OBVIOUS
  <2>1. CASE TransferEnd
    <3>1. wire[t] \in Nat /\ wire'[t] \in Nat
      <4>1. TypeOK /\ TypeOK'
        BY <1>2 DEF Inv
      <4> QED
        BY <4>1 DEF TypeOK
    <3>2. /\ wire[t] <= wire'[t]
          /\ \A n \in wire[t] + 1 .. wire'[t] - 1 : Spoilt(t, n)'
      BY <2>1, TransferSends DEF Inv
    <3> QED
      BY <3>1, <3>2
  <2>2. CASE ~TransferEnd
    <3>1. wire' = wire
      BY <2>2
      DEF Next, Body, TakeMutex, GiveMutex, CopyChunk, PokeChar, StartPrint,
          Written, PutChar, CheckLine, TestBusy, ClaimBusy, SetAddress,
          SetCount, EnableStream, AfterSend, TxInterrupt, histVars
    <3> QED
      BY <3>1
  <2> QED
    BY <2>1, <2>2
<1> HIDE DEF All, Ordered
<1>4. Spec => [][Ordered]_vars
  BY <1>1, <1>2, <1>3, PTL DEF Spec
<1> QED
  BY <1>4 DEF WireInOrder, Ordered
=============================================================================
