----------------------------- MODULE PlayProofs -----------------------------
(***************************************************************************)
(* Proofs about a play, whose two halves are components of their own: the  *)
(* player that fills one half of music_buffer while the other is heard     *)
(* (DacPlayer), and the file system that it reads the blocks from          *)
(* (FatVolume).  The two models share no name.                             *)
(*                                                                         *)
(* Part 1, DacPlayer when plays do not overlap (SoleOwner), for every file *)
(* length, block size and number of plays, card errors included.           *)
(* NoDataRace, OnePermit and HeardInOrder are not inductive: they hold     *)
(* because of what each position of the task implies about the queue, the  *)
(* DMA stream, the position of the file and the contents of the halves.    *)
(* IInv collects that, per concern.                                        *)
(*                                                                         *)
(* Part 2, FatVolume for every set of contents of the card, cluster and    *)
(* sector size, length of a directory and number of plays, lists, swaps    *)
(* and faults: InVolume, TakenIsFile and ListIsFresh.  What the program    *)
(* finds is right because its mount makes it read the limits and the       *)
(* window again (FreshInv), and because what f_open, f_read and f_readdir  *)
(* have passed is what they should have (SearchInv to ListingInv).         *)
(***************************************************************************)
EXTENDS DacPlayer, FatVolume, FiniteSetTheorems, SequenceTheorems, TLAPS

(***************************************************************************)
(* Part 1: the player.                                                     *)
(***************************************************************************)
\* The task works for the latest play, on its queue.
OwnerInv(t) ==
    /\ pc[t] # "idle" => own[t] = plays /\ plays > 0
    /\ pc[t] \notin {"idle", "create"} => handle = plays
    /\ pc[t] = "wait" => waitq[t] = handle
    /\ pc[t] = "fill" => dst[t] = flag

\* The DAC is clocked from Setup to StopClock.
ClockInv(t) ==
    /\ pc[t] \in {"idle", "create", "open", "header", "setup"} => ~clock
    /\ pc[t] \in Loop \cup {"prime"} => clock

\* The permit is in one place, and never missing inside the loop.
PermitInv(t) ==
    /\ pc[t] = "prime" => ~dmaOn /\ ~tc
    /\ pc[t] = "arm" => tokens[handle] = 0 /\ ~dmaOn /\ ~tc
    /\ pc[t] \in Loop \ {"arm"} =>
          \/ tokens[handle] = 1 /\ ~dmaOn /\ ~tc
          \/ tokens[handle] = 0 /\ dmaOn /\ ~tc
          \/ tokens[handle] = 0 /\ ~dmaOn /\ tc

\* The DMA plays the half that the task has just left.
HalfInv(t) == pc[t] \in Loop /\ dmaOn => dmaHalf = 1 - flag

\* A transfer in progress is at the position that has been heard.
TransferInv ==
    clock /\ dmaOn =>
        LET b == buf[dmaHalf] IN
        /\ b.play = plays /\ plays > 0
        /\ Position = b.from + dmaAt
        /\ dmaLeft > 0
        /\ b.len = dmaAt + dmaLeft
        /\ b.from + b.len <= FileLen

\* Where the samples handed to the DMA end.
Frontier ==
    IF dmaOn THEN buf[dmaHalf].from + buf[dmaHalf].len ELSE Position

\* The file is read from where the samples handed to the DMA end.
FileInv(t) ==
    /\ pc[t] \in {"create", "open", "header", "setup", "prime"} =>
          heard.play < plays
    /\ pc[t] \in {"header", "setup", "prime"} \cup Loop => fpPlay = plays
    /\ pc[t] \in {"setup", "prime"} => fpNext = Header
    /\ pc[t] \in {"read", "fill"} => fpNext = Frontier
    /\ pc[t] \in {"scale", "wait", "arm"} =>
          /\ buf[flag].play = plays
          /\ buf[flag].from = Frontier
          /\ buf[flag].len = br[t]
          /\ fpNext = Frontier + br[t]
    /\ pc[t] \in {"wait", "arm"} => br[t] > 0
    /\ pc[t] \in {"exit", "silence"} /\ clock => fpNext = Frontier

HeardInv == heard.play <= plays /\ heard.pos <= FileLen

IInv ==
    /\ TypeOK
    /\ TransferInv
    /\ HeardInv
    /\ \A t \in Players : /\ OwnerInv(t)
                          /\ ClockInv(t)
                          /\ PermitInv(t)
                          /\ HalfInv(t)
                          /\ FileInv(t)

-----------------------------------------------------------------------------

USE FileLenAssumption, BlockAssumption, MaxPlaysAssumption,
    CardErrorsAssumption

\* The header never runs past the file.
LEMMA HeaderType == Header \in 0 .. FileLen /\ Header \in 0 .. Block
BY DEF Header

\* The sample counter of a transfer stays inside a half of the buffer; the
\* other variables keep their types by the shape of the actions.
LEMMA TypeStep == TypeOK /\ TransferInv /\ [Next]_vars => TypeOK'
<1> SUFFICES ASSUME TypeOK, TransferInv, [Next]_vars PROVE TypeOK'
  OBVIOUS
<1>1. ASSUME NEW t \in Players, Play(t) PROVE TypeOK'
  <2>1. pc' \in [Players -> PC]
    BY <1>1, HeaderType DEF TypeOK, Play, Goto, PC
  <2>2. own' \in [Players -> 0 .. MaxPlays] /\ plays' \in 0 .. MaxPlays
    BY <1>1, HeaderType DEF TypeOK, Play
  <2> QED
    BY <1>1, <2>1, <2>2 DEF TypeOK, Play, taskVars, fileVars, dmaVars
<1>2. ASSUME NEW t \in Players, CreateQueue(t) PROVE TypeOK'
  <2>1. pc' \in [Players -> PC]
    BY <1>2, HeaderType DEF TypeOK, CreateQueue, Goto, PC
  <2>2. handle' \in 0 .. MaxPlays /\ tokens' \in [0 .. MaxPlays -> 0 .. 1]
    BY <1>2, HeaderType DEF TypeOK, CreateQueue
  <2> QED
    BY <1>2, <2>1, <2>2 DEF TypeOK, CreateQueue, taskVars, fileVars, dmaVars
<1>3. ASSUME NEW t \in Players, OpenFile(t) PROVE TypeOK'
  <2>1. pc' \in [Players -> PC]
    BY <1>3, HeaderType DEF TypeOK, OpenFile, Goto, PC
  <2>2. fpPlay' \in 0 .. MaxPlays /\ fpNext' \in 0 .. FileLen
    BY <1>3 DEF TypeOK, OpenFile
  <2>3. fpOpen' \in BOOLEAN
    BY <1>3 DEF OpenFile
  <2> QED
    BY <1>3, <2>1, <2>2, <2>3 DEF TypeOK, OpenFile, taskVars, fileVars, dmaVars
<1>4. ASSUME NEW t \in Players, ReadHeader(t) PROVE TypeOK'
  <2>1. pc' \in [Players -> PC]
    BY <1>4, HeaderType DEF TypeOK, ReadHeader, Goto, PC
  <2>2. fpOpen' \in BOOLEAN /\ fpNext' \in 0 .. FileLen
    BY <1>4, HeaderType DEF TypeOK, ReadHeader
  <2>3. buf' \in [Halves -> Samples]
    <3> DEFINE first == [play |-> fpPlay, from |-> 0, len |-> Header]
    <3>1. first \in Samples
      BY HeaderType DEF TypeOK, Samples
    <3>2. buf' = [buf EXCEPT ![0] = first] \/ buf' = buf
      BY <1>4 DEF ReadHeader
    <3> QED
      BY <3>1, <3>2 DEF TypeOK
  <2>4. UNCHANGED <<taskVars, plays, handle, tokens, fpPlay, flag, dmaVars, tc,
                    clock, heard>>
    BY <1>4 DEF ReadHeader
  <2> QED
    BY <2>1, <2>2, <2>3, <2>4 DEF TypeOK, taskVars, dmaVars
<1>5. ASSUME NEW t \in Players, Setup(t) PROVE TypeOK'
  <2>1. pc' \in [Players -> PC]
    BY <1>5, HeaderType DEF TypeOK, Setup, Goto, PC
  <2>2. dmaLeft' \in 0 .. Block
    BY <1>5 DEF Setup
  <2>3. dmaOn' \in BOOLEAN /\ tc' \in BOOLEAN /\ clock' \in BOOLEAN
    BY <1>5 DEF Setup
  <2> QED
    BY <1>5, <2>1, <2>2, <2>3 DEF TypeOK, Setup, taskVars, fileVars, dmaVars
<1>6. ASSUME NEW t \in Players, Prime(t) PROVE TypeOK'
  <2>1. pc' \in [Players -> PC]
    BY <1>6, HeaderType DEF TypeOK, Prime, Goto, PC
  <2>2. tokens' \in [0 .. MaxPlays -> 0 .. 1]
    BY <1>6, HeaderType DEF TypeOK, Prime, Send
  <2> QED
    BY <1>6, <2>1, <2>2 DEF TypeOK, Prime, taskVars, fileVars, dmaVars
<1>7. ASSUME NEW t \in Players, ReadBlock(t) PROVE TypeOK'
  <2>1. pc' \in [Players -> PC]
    BY <1>7, HeaderType DEF TypeOK, ReadBlock, Goto, PC
  <2>2. br' \in [Players -> 0 .. Block]
    BY <1>7 DEF TypeOK, ReadBlock
  <2>3. dst' \in [Players -> Halves]
    BY <1>7 DEF TypeOK, ReadBlock
  <2> QED
    BY <1>7, <2>1, <2>2, <2>3 DEF TypeOK, ReadBlock, taskVars, fileVars, dmaVars
<1>8. ASSUME NEW t \in Players, FillBlock(t) PROVE TypeOK'
  <2>1. pc' \in [Players -> PC]
    BY <1>8, HeaderType DEF TypeOK, FillBlock, Goto, PC
  <2>2. br' \in [Players -> 0 .. Block]
    BY <1>8, HeaderType DEF TypeOK, FillBlock, Available
  <2>3. fpNext' \in 0 .. FileLen
    BY <1>8, HeaderType DEF TypeOK, FillBlock, Available
  <2>4. buf' \in [Halves -> Samples]
    <3>1. PICK n \in 0 .. Available :
             buf' = [buf EXCEPT ![dst[t]] =
                        [play |-> fpPlay, from |-> fpNext, len |-> n]]
      BY <1>8 DEF FillBlock
    <3> DEFINE next == [play |-> fpPlay, from |-> fpNext, len |-> n]
    <3>2. n \in 0 .. Block
      BY <3>1 DEF TypeOK, Available
    <3>3. next \in Samples
      BY <3>2 DEF TypeOK, Samples
    <3> QED
      BY <3>1, <3>3 DEF TypeOK
  <2>5. fpOpen' \in BOOLEAN
    BY <1>8 DEF FillBlock
  <2>6. UNCHANGED <<own, dst, waitq, plays, handle, tokens, fpPlay, flag,
                    dmaVars, tc, clock, heard>>
    BY <1>8 DEF FillBlock
  <2> QED
    BY <2>1, <2>2, <2>3, <2>4, <2>5, <2>6 DEF TypeOK, dmaVars
<1>9. ASSUME NEW t \in Players, ScaleBlock(t) PROVE TypeOK'
  <2>1. pc' \in [Players -> PC]
    BY <1>9, HeaderType DEF TypeOK, ScaleBlock, AtEnd, Goto, PC
  <2>2. waitq' \in [Players -> 0 .. MaxPlays]
    BY <1>9, HeaderType DEF TypeOK, ScaleBlock, AtEnd
  <2> QED
    BY <1>9, <2>1, <2>2 DEF TypeOK, ScaleBlock, AtEnd, taskVars, fileVars, dmaVars
<1>10. ASSUME NEW t \in Players, AwaitToken(t) PROVE TypeOK'
  <2>1. pc' \in [Players -> PC]
    BY <1>10, HeaderType DEF TypeOK, AwaitToken, Goto, PC
  <2>2. tokens' \in [0 .. MaxPlays -> 0 .. 1]
    BY <1>10, HeaderType DEF TypeOK, AwaitToken
  <2> QED
    BY <1>10, <2>1, <2>2 DEF TypeOK, AwaitToken, taskVars, fileVars, dmaVars
<1>11. ASSUME NEW t \in Players, StartDma(t) PROVE TypeOK'
  <2>1. pc' \in [Players -> PC]
    BY <1>11, HeaderType DEF TypeOK, StartDma, OtherHalf, Goto, PC
  <2>2. dmaAt' \in 0 .. Block /\ dmaLeft' \in 0 .. Block /\ dmaHalf' \in Halves
    BY <1>11, HeaderType DEF TypeOK, StartDma, OtherHalf
  <2>3. flag' \in Halves /\ tc' \in BOOLEAN
    BY <1>11, HeaderType DEF TypeOK, StartDma, OtherHalf, Halves
  <2> QED
    BY <1>11, <2>1, <2>2, <2>3 DEF TypeOK, StartDma, OtherHalf, taskVars, fileVars, dmaVars
<1>12. ASSUME NEW t \in Players, Unmount(t) PROVE TypeOK'
  <2>1. pc' \in [Players -> PC]
    BY <1>12, HeaderType DEF TypeOK, Unmount, Goto, PC
  <2> QED
    BY <1>12, <2>1 DEF TypeOK, Unmount, taskVars, fileVars, dmaVars
<1>13. ASSUME NEW t \in Players, StopClock(t) PROVE TypeOK'
  <2>1. pc' \in [Players -> PC]
    BY <1>13, HeaderType DEF TypeOK, StopClock, Goto, PC
  <2> QED
    BY <1>13, <2>1 DEF TypeOK, StopClock, taskVars, fileVars, dmaVars
<1>14. ASSUME Sample PROVE TypeOK'
  <2>1. buf[dmaHalf] \in Samples
    BY <1>14, HeaderType DEF TypeOK
  <2>2. heard' \in [play : 0 .. MaxPlays, pos : Nat]
    BY <1>14, <2>1, HeaderType DEF TypeOK, Sample, Samples
  <2>3. dmaAt' \in 0 .. Block /\ dmaLeft' \in 0 .. Block
    BY <1>14, <2>1, HeaderType DEF TypeOK, Sample, TransferInv, Samples
  <2>4. tc' \in BOOLEAN
    BY <1>14, <2>1, HeaderType DEF TypeOK, Sample
  <2> QED
    BY <1>14, <2>1, <2>2, <2>3, <2>4 DEF TypeOK, Sample, taskVars, fileVars, dmaVars
<1>15. ASSUME TransferComplete PROVE TypeOK'
  <2>1. tokens' \in [0 .. MaxPlays -> 0 .. 1]
    BY <1>15, HeaderType DEF TypeOK, TransferComplete, ClearPending, Send
  <2> QED
    BY <1>15, <2>1 DEF TypeOK, TransferComplete, ClearPending, taskVars, fileVars, dmaVars
<1>16. ASSUME Remount PROVE TypeOK'
  BY <1>16 DEF TypeOK, Remount, taskVars, fileVars, dmaVars
<1>17. ASSUME UNCHANGED vars PROVE TypeOK'
  BY <1>17 DEF vars, TypeOK, taskVars, fileVars, dmaVars
<1> QED
  BY <1>1, <1>2, <1>3, <1>4, <1>5, <1>6, <1>7, <1>8, <1>9, <1>10, <1>11,
     <1>12, <1>13, <1>14, <1>15, <1>16, <1>17 DEF Next, Body

\* IInv is inductive.
LEMMA InvStep == SoleOwner /\ IInv /\ [Next]_vars => IInv'
<1> SUFFICES ASSUME NEW p, Players = {p}, IInv, [Next]_vars PROVE IInv'
  BY DEF SoleOwner
<1> DEFINE Task == /\ OwnerInv(p) /\ ClockInv(p) /\ PermitInv(p)
                   /\ HalfInv(p) /\ FileInv(p)
<1> HIDE DEF Task
<1>a. Task
  BY DEF Task, IInv
<1>b. TypeOK'
  BY TypeStep DEF IInv
<1>c. SUFFICES TransferInv' /\ HeardInv' /\ Task'
  BY <1>b DEF Task, IInv
<1>d. TypeOK /\ TransferInv /\ HeardInv
  BY DEF IInv
<1>1. ASSUME Play(p) PROVE TransferInv' /\ HeardInv' /\ Task'
  <2>1. TransferInv'
    BY <1>1, <1>a, <1>b, <1>d DEF Play, Goto, taskVars, fileVars, dmaVars, TypeOK, Task, TransferInv, Position, ClockInv
  <2>2. HeardInv'
    BY <1>1, <1>a, <1>b, <1>d DEF Play, Goto, taskVars, fileVars, dmaVars, TypeOK, Task, HeardInv
  <2>3. OwnerInv(p)'
    BY <1>1, <1>a, <1>b, <1>d DEF Play, Goto, taskVars, fileVars, dmaVars, TypeOK, Task, OwnerInv
  <2>4. ClockInv(p)'
    BY <1>1, <1>a, <1>b, <1>d DEF Play, Goto, taskVars, fileVars, dmaVars, TypeOK, Task, ClockInv, Loop
  <2>5. PermitInv(p)'
    BY <1>1, <1>a, <1>b, <1>d DEF Play, Goto, taskVars, fileVars, dmaVars, TypeOK, Task, PermitInv, Loop, OwnerInv
  <2>6. HalfInv(p)'
    BY <1>1, <1>a, <1>b, <1>d DEF Play, Goto, taskVars, fileVars, dmaVars, TypeOK, Task, HalfInv, Loop, Halves
  <2>7. FileInv(p)'
    <3>1. pc'[p] = "create" /\ heard' = heard /\ plays' = plays + 1
      BY <1>1, <1>d DEF Play, Goto, TypeOK
    <3>2. heard.play < plays + 1
      BY <1>d DEF HeardInv, TypeOK
    <3> QED
      BY <3>1, <3>2 DEF FileInv, Loop
  <2> QED
    BY <2>1, <2>2, <2>3, <2>4, <2>5, <2>6, <2>7 DEF Task
<1>2. ASSUME CreateQueue(p) PROVE TransferInv' /\ HeardInv' /\ Task'
  <2>1. TransferInv'
    BY <1>2, <1>a, <1>b, <1>d DEF CreateQueue, Goto, taskVars, fileVars, dmaVars, TypeOK, Task, TransferInv, Position, ClockInv
  <2>2. HeardInv'
    BY <1>2, <1>a, <1>b, <1>d DEF CreateQueue, Goto, taskVars, fileVars, dmaVars, TypeOK, Task, HeardInv
  <2>3. OwnerInv(p)'
    BY <1>2, <1>a, <1>b, <1>d DEF CreateQueue, Goto, taskVars, fileVars, dmaVars, TypeOK, Task, OwnerInv
  <2>4. ClockInv(p)'
    BY <1>2, <1>a, <1>b, <1>d DEF CreateQueue, Goto, taskVars, fileVars, dmaVars, TypeOK, Task, ClockInv, Loop
  <2>5. PermitInv(p)'
    BY <1>2, <1>a, <1>b, <1>d DEF CreateQueue, Goto, taskVars, fileVars, dmaVars, TypeOK, Task, PermitInv, Loop, OwnerInv
  <2>6. HalfInv(p)'
    BY <1>2, <1>a, <1>b, <1>d DEF CreateQueue, Goto, taskVars, fileVars, dmaVars, TypeOK, Task, HalfInv, Loop, Halves
  <2>7. FileInv(p)'
    BY <1>2, <1>a, <1>b, <1>d DEF CreateQueue, Goto, taskVars, fileVars, dmaVars, TypeOK, Task, FileInv, Position, Frontier, ClockInv, Loop, OwnerInv
  <2> QED
    BY <2>1, <2>2, <2>3, <2>4, <2>5, <2>6, <2>7 DEF Task
<1>3. ASSUME OpenFile(p) PROVE TransferInv' /\ HeardInv' /\ Task'
  <2>1. TransferInv'
    BY <1>3, <1>a, <1>b, <1>d DEF OpenFile, Goto, taskVars, fileVars, dmaVars, TypeOK, Task, TransferInv, Position, ClockInv
  <2>2. HeardInv'
    BY <1>3, <1>a, <1>b, <1>d DEF OpenFile, Goto, taskVars, fileVars, dmaVars, TypeOK, Task, HeardInv
  <2>3. OwnerInv(p)'
    BY <1>3, <1>a, <1>b, <1>d DEF OpenFile, Goto, taskVars, fileVars, dmaVars, TypeOK, Task, OwnerInv
  <2>4. ClockInv(p)'
    BY <1>3, <1>a, <1>b, <1>d DEF OpenFile, Goto, taskVars, fileVars, dmaVars, TypeOK, Task, ClockInv, Loop
  <2>5. PermitInv(p)'
    BY <1>3, <1>a, <1>b, <1>d DEF OpenFile, Goto, taskVars, fileVars, dmaVars, TypeOK, Task, PermitInv, Loop, OwnerInv
  <2>6. HalfInv(p)'
    BY <1>3, <1>a, <1>b, <1>d DEF OpenFile, Goto, taskVars, fileVars, dmaVars, TypeOK, Task, HalfInv, Loop, Halves
  <2>7. FileInv(p)'
    BY <1>3, <1>a, <1>b, <1>d DEF OpenFile, Goto, taskVars, fileVars, dmaVars, TypeOK, Task, FileInv, Position, Frontier, ClockInv, Loop, OwnerInv
  <2> QED
    BY <2>1, <2>2, <2>3, <2>4, <2>5, <2>6, <2>7 DEF Task
<1>4. ASSUME ReadHeader(p) PROVE TransferInv' /\ HeardInv' /\ Task'
  <2>1. TransferInv'
    BY <1>4, <1>a, <1>b, <1>d DEF ReadHeader, Goto, taskVars, fileVars, dmaVars, TypeOK, Task, TransferInv, Position, ClockInv
  <2>2. HeardInv'
    BY <1>4, <1>a, <1>b, <1>d DEF ReadHeader, Goto, taskVars, fileVars, dmaVars, TypeOK, Task, HeardInv
  <2>3. OwnerInv(p)'
    BY <1>4, <1>a, <1>b, <1>d DEF ReadHeader, Goto, taskVars, fileVars, dmaVars, TypeOK, Task, OwnerInv
  <2>4. ClockInv(p)'
    BY <1>4, <1>a, <1>b, <1>d DEF ReadHeader, Goto, taskVars, fileVars, dmaVars, TypeOK, Task, ClockInv, Loop
  <2>5. PermitInv(p)'
    BY <1>4, <1>a, <1>b, <1>d DEF ReadHeader, Goto, taskVars, fileVars, dmaVars, TypeOK, Task, PermitInv, Loop, OwnerInv
  <2>6. HalfInv(p)'
    BY <1>4, <1>a, <1>b, <1>d DEF ReadHeader, Goto, taskVars, fileVars, dmaVars, TypeOK, Task, HalfInv, Loop, Halves
  <2>7. FileInv(p)'
    BY <1>4, <1>a, <1>b, <1>d DEF ReadHeader, Goto, taskVars, fileVars, dmaVars, TypeOK, Task, FileInv, Position, Frontier, ClockInv, Loop, OwnerInv
  <2> QED
    BY <2>1, <2>2, <2>3, <2>4, <2>5, <2>6, <2>7 DEF Task
<1>5. ASSUME Setup(p) PROVE TransferInv' /\ HeardInv' /\ Task'
  <2>1. TransferInv'
    BY <1>5, <1>a, <1>b, <1>d DEF Setup, Goto, taskVars, fileVars, dmaVars, TypeOK, Task, TransferInv, Position, ClockInv
  <2>2. HeardInv'
    BY <1>5, <1>a, <1>b, <1>d DEF Setup, Goto, taskVars, fileVars, dmaVars, TypeOK, Task, HeardInv
  <2>3. OwnerInv(p)'
    BY <1>5, <1>a, <1>b, <1>d DEF Setup, Goto, taskVars, fileVars, dmaVars, TypeOK, Task, OwnerInv
  <2>4. ClockInv(p)'
    BY <1>5, <1>a, <1>b, <1>d DEF Setup, Goto, taskVars, fileVars, dmaVars, TypeOK, Task, ClockInv, Loop
  <2>5. PermitInv(p)'
    BY <1>5, <1>a, <1>b, <1>d DEF Setup, Goto, taskVars, fileVars, dmaVars, TypeOK, Task, PermitInv, Loop, OwnerInv
  <2>6. HalfInv(p)'
    BY <1>5, <1>a, <1>b, <1>d DEF Setup, Goto, taskVars, fileVars, dmaVars, TypeOK, Task, HalfInv, Loop, Halves
  <2>7. FileInv(p)'
    BY <1>5, <1>a, <1>b, <1>d DEF Setup, Goto, taskVars, fileVars, dmaVars, TypeOK, Task, FileInv, Position, Frontier, ClockInv, Loop, OwnerInv
  <2> QED
    BY <2>1, <2>2, <2>3, <2>4, <2>5, <2>6, <2>7 DEF Task
<1>6. ASSUME Prime(p) PROVE TransferInv' /\ HeardInv' /\ Task'
  <2>1. TransferInv'
    BY <1>6, <1>a, <1>b, <1>d DEF Prime, Goto, taskVars, fileVars, dmaVars, TypeOK, Task, TransferInv, Position, ClockInv
  <2>2. HeardInv'
    BY <1>6, <1>a, <1>b, <1>d DEF Prime, Goto, taskVars, fileVars, dmaVars, TypeOK, Task, HeardInv
  <2>3. OwnerInv(p)'
    BY <1>6, <1>a, <1>b, <1>d DEF Prime, Goto, taskVars, fileVars, dmaVars, TypeOK, Task, OwnerInv
  <2>4. ClockInv(p)'
    BY <1>6, <1>a, <1>b, <1>d DEF Prime, Goto, taskVars, fileVars, dmaVars, TypeOK, Task, ClockInv, Loop
  <2>5. PermitInv(p)'
    BY <1>6, <1>a, <1>b, <1>d
    DEF Prime, Send, Goto, TypeOK, Task, PermitInv, Loop, dmaVars
  <2>6. HalfInv(p)'
    BY <1>6, <1>a
    DEF Prime, Goto, Task, PermitInv, HalfInv, Loop, dmaVars
  <2>7. FileInv(p)'
    <3>1. pc[p] = "prime" /\ pc'[p] = "read"
      BY <1>6, <1>d DEF Prime, Goto, TypeOK
    <3>3. ~dmaOn /\ ~dmaOn'
      BY <1>6, <1>a, <3>1 DEF Prime, Task, PermitInv, dmaVars
    <3>2. Position' = Header /\ fpNext' = Header /\ fpPlay' = plays'
      BY <1>6, <1>a, <1>d, <3>1, HeaderType
      DEF Prime, Task, FileInv, Position, fileVars, TypeOK, Header
    <3> QED
      BY <3>1, <3>2, <3>3 DEF FileInv, Frontier
  <2> QED
    BY <2>1, <2>2, <2>3, <2>4, <2>5, <2>6, <2>7 DEF Task
<1>7. ASSUME ReadBlock(p) PROVE TransferInv' /\ HeardInv' /\ Task'
  <2>1. TransferInv'
    BY <1>7, <1>a, <1>b, <1>d DEF ReadBlock, Goto, taskVars, fileVars, dmaVars, TypeOK, Task, TransferInv, Position, ClockInv
  <2>2. HeardInv'
    BY <1>7, <1>a, <1>b, <1>d DEF ReadBlock, Goto, taskVars, fileVars, dmaVars, TypeOK, Task, HeardInv
  <2>3. OwnerInv(p)'
    BY <1>7, <1>a, <1>b, <1>d DEF ReadBlock, Goto, taskVars, fileVars, dmaVars, TypeOK, Task, OwnerInv
  <2>4. ClockInv(p)'
    BY <1>7, <1>a, <1>b, <1>d DEF ReadBlock, Goto, taskVars, fileVars, dmaVars, TypeOK, Task, ClockInv, Loop
  <2>5. PermitInv(p)'
    BY <1>7, <1>a, <1>b, <1>d DEF ReadBlock, Goto, taskVars, fileVars, dmaVars, TypeOK, Task, PermitInv, Loop, OwnerInv
  <2>6. HalfInv(p)'
    BY <1>7, <1>a, <1>b, <1>d DEF ReadBlock, Goto, taskVars, fileVars, dmaVars, TypeOK, Task, HalfInv, Loop, Halves
  <2>7. FileInv(p)'
    BY <1>7, <1>a, <1>b, <1>d DEF ReadBlock, Goto, taskVars, fileVars, dmaVars, TypeOK, Task, FileInv, Position, Frontier, ClockInv, Loop, OwnerInv
  <2> QED
    BY <2>1, <2>2, <2>3, <2>4, <2>5, <2>6, <2>7 DEF Task
<1>8. ASSUME FillBlock(p) PROVE TransferInv' /\ HeardInv' /\ Task'
  <2>1. TransferInv'
    <3>1. clock /\ pc[p] = "fill" /\ dst[p] = flag /\ flag \in Halves
      BY <1>8, <1>a, <1>d DEF FillBlock, Goto, Task, ClockInv, OwnerInv, Loop,
                              TypeOK
    <3>2. dmaOn => dmaHalf # dst[p]
      BY <1>a, <3>1 DEF Task, HalfInv, Loop, Halves
    <3>3. dmaOn => buf'[dmaHalf] = buf[dmaHalf]
      BY <1>8, <1>d, <3>2 DEF FillBlock, TypeOK
    <3> QED
      BY <1>8, <1>d, <3>3 DEF FillBlock, TransferInv, Position, dmaVars
  <2>2. HeardInv'
    BY <1>8, <1>a, <1>b, <1>d DEF FillBlock, Goto, taskVars, fileVars, dmaVars, TypeOK, Task, HeardInv
  <2>3. OwnerInv(p)'
    BY <1>8, <1>a, <1>b, <1>d DEF FillBlock, Goto, taskVars, fileVars, dmaVars, TypeOK, Task, OwnerInv
  <2>4. ClockInv(p)'
    BY <1>8, <1>a, <1>b, <1>d DEF FillBlock, Goto, taskVars, fileVars, dmaVars, TypeOK, Task, ClockInv, Loop
  <2>5. PermitInv(p)'
    BY <1>8, <1>a, <1>b, <1>d DEF FillBlock, Goto, taskVars, fileVars, dmaVars, TypeOK, Task, PermitInv, Loop, OwnerInv
  <2>6. HalfInv(p)'
    BY <1>8, <1>a, <1>b, <1>d DEF FillBlock, Goto, taskVars, fileVars, dmaVars, TypeOK, Task, HalfInv, Loop, Halves
  <2>7. FileInv(p)'
    <3>1. /\ pc[p] = "fill" /\ pc'[p] = "scale"
          /\ dst[p] = flag /\ flag \in Halves
      BY <1>8, <1>a, <1>d DEF FillBlock, Goto, Task, OwnerInv, TypeOK
    <3>2. dmaOn => dmaHalf # dst[p]
      BY <1>a, <3>1 DEF Task, HalfInv, Loop, Halves
    <3>3. Frontier' = Frontier
      BY <1>8, <1>d, <3>2 DEF FillBlock, TypeOK, Frontier, Position, dmaVars
    <3>4. PICK n \in 0 .. Available :
             /\ br' = [br EXCEPT ![p] = n]
             /\ buf' = [buf EXCEPT ![dst[p]] =
                           [play |-> fpPlay, from |-> fpNext, len |-> n]]
             /\ fpNext' = fpNext + n
      BY <1>8 DEF FillBlock
    <3>5. br'[p] = n
      BY <1>d, <3>4 DEF TypeOK
    <3>6. buf'[flag] = [play |-> fpPlay, from |-> fpNext, len |-> n]
      BY <1>d, <3>1, <3>4 DEF TypeOK
    <3>7. fpPlay = plays /\ fpNext = Frontier
      BY <1>a, <3>1 DEF Task, FileInv, Loop
    <3>8. UNCHANGED <<flag, plays, fpPlay>>
      BY <1>8 DEF FillBlock
    <3>9. /\ fpPlay' = plays' /\ fpNext' = Frontier' + br'[p]
          /\ buf'[flag'] = [play |-> plays', from |-> Frontier',
                            len |-> br'[p]]
      BY <3>3, <3>4, <3>5, <3>6, <3>7, <3>8
    <3> QED
      BY <3>1, <3>9 DEF FileInv, Loop
  <2> QED
    BY <2>1, <2>2, <2>3, <2>4, <2>5, <2>6, <2>7 DEF Task
<1>9. ASSUME ScaleBlock(p) PROVE TransferInv' /\ HeardInv' /\ Task'
  <2>1. TransferInv'
    BY <1>9, <1>a, <1>b, <1>d DEF ScaleBlock, AtEnd, Goto, taskVars, fileVars, dmaVars, TypeOK, Task, TransferInv, Position, ClockInv
  <2>2. HeardInv'
    BY <1>9, <1>a, <1>b, <1>d DEF ScaleBlock, AtEnd, Goto, taskVars, fileVars, dmaVars, TypeOK, Task, HeardInv
  <2>3. OwnerInv(p)'
    BY <1>9, <1>a, <1>b, <1>d DEF ScaleBlock, AtEnd, Goto, taskVars, fileVars, dmaVars, TypeOK, Task, OwnerInv
  <2>4. ClockInv(p)'
    BY <1>9, <1>a, <1>b, <1>d DEF ScaleBlock, AtEnd, Goto, taskVars, fileVars, dmaVars, TypeOK, Task, ClockInv, Loop
  <2>5. PermitInv(p)'
    BY <1>9, <1>a, <1>b, <1>d DEF ScaleBlock, AtEnd, Goto, taskVars, fileVars, dmaVars, TypeOK, Task, PermitInv, Loop, OwnerInv
  <2>6. HalfInv(p)'
    BY <1>9, <1>a, <1>b, <1>d DEF ScaleBlock, AtEnd, Goto, taskVars, fileVars, dmaVars, TypeOK, Task, HalfInv, Loop, Halves
  <2>7. FileInv(p)'
    <3>1. /\ pc[p] = "scale" /\ br[p] \in 0 .. Block
          /\ \/ br[p] = 0 /\ pc'[p] = "exit"
             \/ br[p] # 0 /\ pc'[p] = "wait"
      BY <1>9, <1>d DEF ScaleBlock, AtEnd, Goto, TypeOK
    <3>2. Frontier' = Frontier
      BY <1>9 DEF ScaleBlock, AtEnd, Frontier, Position, dmaVars
    <3>3. /\ buf[flag].play = plays /\ buf[flag].from = Frontier
          /\ buf[flag].len = br[p] /\ fpNext = Frontier + br[p]
          /\ fpPlay = plays
      BY <1>a, <3>1 DEF Task, FileInv, Loop
    <3>4. UNCHANGED <<buf, flag, br, plays, fpNext, fpPlay>>
      BY <1>9 DEF ScaleBlock, AtEnd, fileVars
    <3>5. buf[flag] \in Samples
      BY <1>d DEF TypeOK
    <3>6. br[p] = 0 => fpNext = Frontier
      BY <3>3, <3>5 DEF Samples
    <3>7. br[p] # 0 => br[p] > 0
      BY <3>1
    <3>8. CASE br[p] = 0
      BY <3>1, <3>2, <3>4, <3>6, <3>8 DEF FileInv, Loop
    <3>9. CASE br[p] # 0
      BY <3>1, <3>2, <3>3, <3>4, <3>7, <3>9 DEF FileInv, Loop
    <3> QED
      BY <3>8, <3>9
  <2> QED
    BY <2>1, <2>2, <2>3, <2>4, <2>5, <2>6, <2>7 DEF Task
<1>10. ASSUME AwaitToken(p) PROVE TransferInv' /\ HeardInv' /\ Task'
  <2>1. TransferInv'
    BY <1>10, <1>a, <1>b, <1>d DEF AwaitToken, Goto, taskVars, fileVars, dmaVars, TypeOK, Task, TransferInv, Position, ClockInv
  <2>2. HeardInv'
    BY <1>10, <1>a, <1>b, <1>d DEF AwaitToken, Goto, taskVars, fileVars, dmaVars, TypeOK, Task, HeardInv
  <2>3. OwnerInv(p)'
    BY <1>10, <1>a, <1>b, <1>d DEF AwaitToken, Goto, taskVars, fileVars, dmaVars, TypeOK, Task, OwnerInv
  <2>4. ClockInv(p)'
    BY <1>10, <1>a, <1>b, <1>d DEF AwaitToken, Goto, taskVars, fileVars, dmaVars, TypeOK, Task, ClockInv, Loop
  <2>5. PermitInv(p)'
    BY <1>10, <1>a, <1>b, <1>d DEF AwaitToken, Goto, taskVars, fileVars, dmaVars, TypeOK, Task, PermitInv, Loop, OwnerInv
  <2>6. HalfInv(p)'
    BY <1>10, <1>a, <1>b, <1>d DEF AwaitToken, Goto, taskVars, fileVars, dmaVars, TypeOK, Task, HalfInv, Loop, Halves
  <2>7. FileInv(p)'
    BY <1>10, <1>a, <1>b, <1>d DEF AwaitToken, Goto, taskVars, fileVars, dmaVars, TypeOK, Task, FileInv, Position, Frontier, ClockInv, Loop, OwnerInv
  <2> QED
    BY <2>1, <2>2, <2>3, <2>4, <2>5, <2>6, <2>7 DEF Task
<1>11. ASSUME StartDma(p) PROVE TransferInv' /\ HeardInv' /\ Task'
  <2>1. TransferInv'
    <3>1. pc[p] = "arm" /\ ~dmaOn /\ flag \in Halves
      BY <1>11, <1>a, <1>d DEF StartDma, OtherHalf, Goto, Task, PermitInv, TypeOK
    <3>2. /\ buf[flag].play = plays /\ buf[flag].from = Position
          /\ buf[flag].len = br[p] /\ fpNext = Position + br[p] /\ br[p] > 0
          /\ plays > 0
      BY <1>a, <3>1 DEF Task, FileInv, OwnerInv, Frontier
    <3>3. /\ dmaHalf' = flag /\ dmaAt' = 0 /\ dmaLeft' = br[p] /\ buf' = buf
          /\ plays' = plays /\ Position' = Position
      BY <1>11 DEF StartDma, OtherHalf, Position
    <3>4. br[p] \in Nat /\ fpNext <= FileLen /\ buf[flag] \in Samples
      BY <1>d, <3>1 DEF TypeOK
    <3> QED
      BY <3>2, <3>3, <3>4 DEF TransferInv, Samples
  <2>2. HeardInv'
    BY <1>11, <1>a, <1>b, <1>d DEF StartDma, OtherHalf, Goto, taskVars, fileVars, dmaVars, TypeOK, Task, HeardInv
  <2>3. OwnerInv(p)'
    BY <1>11, <1>a, <1>b, <1>d DEF StartDma, OtherHalf, Goto, taskVars, fileVars, dmaVars, TypeOK, Task, OwnerInv
  <2>4. ClockInv(p)'
    BY <1>11, <1>a, <1>b, <1>d DEF StartDma, OtherHalf, Goto, taskVars, fileVars, dmaVars, TypeOK, Task, ClockInv, Loop
  <2>5. PermitInv(p)'
    BY <1>11, <1>a, <1>b, <1>d DEF StartDma, OtherHalf, Goto, taskVars, fileVars, dmaVars, TypeOK, Task, PermitInv, Loop, OwnerInv
  <2>6. HalfInv(p)'
    BY <1>11, <1>a, <1>b, <1>d DEF StartDma, OtherHalf, Goto, taskVars, fileVars, dmaVars, TypeOK, Task, HalfInv, Loop, Halves
  <2>7. FileInv(p)'
    <3>1. pc[p] = "arm" /\ pc'[p] = "read" /\ ~dmaOn /\ dmaOn'
      BY <1>11, <1>a, <1>d DEF StartDma, OtherHalf, Goto, Task, PermitInv, TypeOK
    <3>2. /\ buf[flag].play = plays /\ buf[flag].from = Frontier
          /\ buf[flag].len = br[p] /\ fpNext = Frontier + br[p]
          /\ fpPlay = plays
      BY <1>a, <3>1 DEF Task, FileInv, Loop
    <3>3. dmaHalf' = flag /\ UNCHANGED <<buf, plays, fpNext, fpPlay>>
      BY <1>11 DEF StartDma, OtherHalf, fileVars
    <3>4. Frontier' = fpNext
      BY <3>1, <3>2, <3>3 DEF Frontier
    <3> QED
      BY <3>1, <3>2, <3>3, <3>4 DEF FileInv, Loop
  <2> QED
    BY <2>1, <2>2, <2>3, <2>4, <2>5, <2>6, <2>7 DEF Task
<1>12. ASSUME Unmount(p) PROVE TransferInv' /\ HeardInv' /\ Task'
  <2>1. TransferInv'
    BY <1>12, <1>a, <1>b, <1>d DEF Unmount, Goto, taskVars, fileVars, dmaVars, TypeOK, Task, TransferInv, Position, ClockInv
  <2>2. HeardInv'
    BY <1>12, <1>a, <1>b, <1>d DEF Unmount, Goto, taskVars, fileVars, dmaVars, TypeOK, Task, HeardInv
  <2>3. OwnerInv(p)'
    BY <1>12, <1>a, <1>b, <1>d DEF Unmount, Goto, taskVars, fileVars, dmaVars, TypeOK, Task, OwnerInv
  <2>4. ClockInv(p)'
    BY <1>12, <1>a, <1>b, <1>d DEF Unmount, Goto, taskVars, fileVars, dmaVars, TypeOK, Task, ClockInv, Loop
  <2>5. PermitInv(p)'
    BY <1>12, <1>a, <1>b, <1>d DEF Unmount, Goto, taskVars, fileVars, dmaVars, TypeOK, Task, PermitInv, Loop, OwnerInv
  <2>6. HalfInv(p)'
    BY <1>12, <1>a, <1>b, <1>d DEF Unmount, Goto, taskVars, fileVars, dmaVars, TypeOK, Task, HalfInv, Loop, Halves
  <2>7. FileInv(p)'
    BY <1>12, <1>a, <1>b, <1>d DEF Unmount, Goto, taskVars, fileVars, dmaVars, TypeOK, Task, FileInv, Position, Frontier, ClockInv, Loop, OwnerInv
  <2> QED
    BY <2>1, <2>2, <2>3, <2>4, <2>5, <2>6, <2>7 DEF Task
<1>13. ASSUME StopClock(p) PROVE TransferInv' /\ HeardInv' /\ Task'
  <2>1. TransferInv'
    BY <1>13, <1>a, <1>b, <1>d DEF StopClock, Goto, taskVars, fileVars, dmaVars, TypeOK, Task, TransferInv, Position, ClockInv
  <2>2. HeardInv'
    BY <1>13, <1>a, <1>b, <1>d DEF StopClock, Goto, taskVars, fileVars, dmaVars, TypeOK, Task, HeardInv
  <2>3. OwnerInv(p)'
    BY <1>13, <1>a, <1>b, <1>d DEF StopClock, Goto, taskVars, fileVars, dmaVars, TypeOK, Task, OwnerInv
  <2>4. ClockInv(p)'
    BY <1>13, <1>a, <1>b, <1>d DEF StopClock, Goto, taskVars, fileVars, dmaVars, TypeOK, Task, ClockInv, Loop
  <2>5. PermitInv(p)'
    BY <1>13, <1>a, <1>b, <1>d DEF StopClock, Goto, taskVars, fileVars, dmaVars, TypeOK, Task, PermitInv, Loop, OwnerInv
  <2>6. HalfInv(p)'
    BY <1>13, <1>a, <1>b, <1>d DEF StopClock, Goto, taskVars, fileVars, dmaVars, TypeOK, Task, HalfInv, Loop, Halves
  <2>7. FileInv(p)'
    BY <1>13, <1>a, <1>b, <1>d DEF StopClock, Goto, taskVars, fileVars, dmaVars, TypeOK, Task, FileInv, Position, Frontier, ClockInv, Loop, OwnerInv
  <2> QED
    BY <2>1, <2>2, <2>3, <2>4, <2>5, <2>6, <2>7 DEF Task
<1>14. ASSUME Sample PROVE TransferInv' /\ HeardInv' /\ Task'
  <2> DEFINE b == buf[dmaHalf]
  <2>1. clock /\ dmaOn /\ clock' = clock /\ b \in Samples
    BY <1>14, <1>d DEF Sample, TypeOK
  <2>2. /\ b.play = plays /\ Position = b.from + dmaAt /\ dmaLeft > 0
        /\ b.len = dmaAt + dmaLeft /\ b.from + b.len <= FileLen
        /\ plays > 0
    BY <1>d, <2>1 DEF TransferInv
  <2>3. /\ dmaAt' = dmaAt + 1 /\ dmaLeft' = dmaLeft - 1
        /\ dmaOn' = (dmaLeft > 1)
        /\ UNCHANGED <<pc, taskVars, plays, handle, tokens, fileVars, flag, buf,
                       dmaHalf>>
    BY <1>14 DEF Sample
  <2>4. heard' = [play |-> plays, pos |-> Position + 1]
    BY <1>14, <1>d, <2>2 DEF Sample, TypeOK, Samples
  <2>5. Position' = Position + 1 /\ Position \in Nat
    BY <1>d, <2>3, <2>4, HeaderType DEF Position, TypeOK
  <2>6. dmaAt \in Nat /\ dmaLeft \in Nat /\ b.from \in Nat /\ b.len \in Nat
    BY <1>d, <2>1 DEF TypeOK, Samples
  <2>7. Frontier' = Frontier
    <3>1. CASE dmaLeft > 1
      BY <2>1, <2>3, <3>1 DEF Frontier
    <3>2. CASE dmaLeft = 1
      BY <2>1, <2>2, <2>3, <2>5, <2>6, <3>2 DEF Frontier
    <3> QED
      BY <2>2, <2>6, <3>1, <3>2
  <2>8. TransferInv'
    <3> SUFFICES ASSUME dmaOn' PROVE TransferInv'
      BY DEF TransferInv
    <3>1. dmaLeft > 1
      BY <2>3
    <3> QED
      BY <2>2, <2>3, <2>5, <2>6, <3>1 DEF TransferInv
  <2>9. HeardInv'
    <3>1. heard'.play = plays /\ heard'.pos = Position + 1
      BY <2>4
    <3>2. plays' = plays /\ plays \in Nat
      BY <1>d, <2>3 DEF TypeOK
    <3>3. Position + 1 <= FileLen
      BY <2>2, <2>5, <2>6
    <3> QED
      BY <3>1, <3>2, <3>3 DEF HeardInv
  <2>10. OwnerInv(p)' /\ ClockInv(p)' /\ HalfInv(p)'
    BY <1>a, <2>1, <2>3
    DEF Task, OwnerInv, ClockInv, HalfInv, taskVars, Loop
  <2>11. PermitInv(p)'
    <3>1. pc[p] \notin {"prime", "arm"}
      BY <1>a, <2>1 DEF Task, PermitInv
    <3>2. pc[p] \in Loop => tokens[handle] = 0 /\ ~tc
      BY <1>a, <2>1, <3>1 DEF Task, PermitInv
    <3>3. tc' = (tc \/ dmaLeft = 1)
      BY <1>14 DEF Sample
    <3>4. dmaOn' = ~(dmaLeft = 1)
      BY <2>2, <2>3, <2>6
    <3> QED
      BY <2>3, <3>1, <3>2, <3>3, <3>4 DEF PermitInv
  <2>12. FileInv(p)'
    <3>1. pc[p] \notin {"create", "open", "header", "setup", "prime"}
      BY <1>a, <2>1 DEF Task, ClockInv, PermitInv
    <3> QED
      BY <1>a, <2>1, <2>3, <2>7, <3>1 DEF Task, FileInv, taskVars, fileVars
  <2> QED
    BY <2>8, <2>9, <2>10, <2>11, <2>12 DEF Task
<1>15. ASSUME TransferComplete PROVE TransferInv' /\ HeardInv' /\ Task'
  <2>1. TransferInv'
    BY <1>15, <1>a, <1>b, <1>d DEF TransferComplete, ClearPending, taskVars, fileVars, dmaVars, TypeOK, Task, TransferInv, Position, ClockInv
  <2>2. HeardInv'
    BY <1>15, <1>a, <1>b, <1>d DEF TransferComplete, ClearPending, taskVars, fileVars, dmaVars, TypeOK, Task, HeardInv
  <2>3. OwnerInv(p)'
    BY <1>15, <1>a, <1>b, <1>d DEF TransferComplete, ClearPending, taskVars, fileVars, dmaVars, TypeOK, Task, OwnerInv
  <2>4. ClockInv(p)'
    BY <1>15, <1>a, <1>b, <1>d DEF TransferComplete, ClearPending, taskVars, fileVars, dmaVars, TypeOK, Task, ClockInv, Loop
  <2>5. PermitInv(p)'
    <3>1. pc[p] \in Loop => tokens[handle] = 0 /\ ~dmaOn /\ pc[p] # "arm"
      BY <1>15, <1>a DEF TransferComplete, ClearPending, Task, PermitInv
    <3>2. pc[p] # "prime"
      BY <1>15, <1>a DEF TransferComplete, ClearPending, Task, PermitInv
    <3>3. /\ tokens'[handle] = 1 /\ tc' = FALSE
          /\ UNCHANGED <<pc, handle, dmaOn>>
      BY <1>15, <1>d DEF TransferComplete, ClearPending, Send, TypeOK, dmaVars
    <3> QED
      BY <3>1, <3>2, <3>3 DEF PermitInv, Loop
  <2>6. HalfInv(p)'
    BY <1>15, <1>a, <1>b, <1>d DEF TransferComplete, ClearPending, taskVars, fileVars, dmaVars, TypeOK, Task, HalfInv, Loop, Halves
  <2>7. FileInv(p)'
    BY <1>15, <1>a, <1>b, <1>d DEF TransferComplete, ClearPending, taskVars, fileVars, dmaVars, TypeOK, Task, FileInv, Position, Frontier, ClockInv, Loop, OwnerInv
  <2> QED
    BY <2>1, <2>2, <2>3, <2>4, <2>5, <2>6, <2>7 DEF Task
<1>16. ASSUME Remount PROVE TransferInv' /\ HeardInv' /\ Task'
  <2>1. TransferInv'
    BY <1>16, <1>a, <1>b, <1>d DEF Remount, taskVars, fileVars, dmaVars, TypeOK, Task, TransferInv, Position, ClockInv
  <2>2. HeardInv'
    BY <1>16, <1>a, <1>b, <1>d DEF Remount, taskVars, fileVars, dmaVars, TypeOK, Task, HeardInv
  <2>3. OwnerInv(p)'
    BY <1>16, <1>a, <1>b, <1>d DEF Remount, taskVars, fileVars, dmaVars, TypeOK, Task, OwnerInv
  <2>4. ClockInv(p)'
    BY <1>16, <1>a, <1>b, <1>d DEF Remount, taskVars, fileVars, dmaVars, TypeOK, Task, ClockInv, Loop
  <2>5. PermitInv(p)'
    BY <1>16, <1>a, <1>b, <1>d DEF Remount, taskVars, fileVars, dmaVars, TypeOK, Task, PermitInv, Loop, OwnerInv
  <2>6. HalfInv(p)'
    BY <1>16, <1>a, <1>b, <1>d DEF Remount, taskVars, fileVars, dmaVars, TypeOK, Task, HalfInv, Loop, Halves
  <2>7. FileInv(p)'
    BY <1>16, <1>a, <1>b, <1>d DEF Remount, taskVars, fileVars, dmaVars, TypeOK, Task, FileInv, Position, Frontier, ClockInv, Loop, OwnerInv
  <2> QED
    BY <2>1, <2>2, <2>3, <2>4, <2>5, <2>6, <2>7 DEF Task
<1>17. ASSUME UNCHANGED vars PROVE TransferInv' /\ HeardInv' /\ Task'
  BY <1>17, <1>a, <1>d DEF vars, taskVars, fileVars, dmaVars, Task, TransferInv, HeardInv, OwnerInv, ClockInv, PermitInv, HalfInv, FileInv, Position, Frontier
<1> QED
  BY <1>1, <1>2, <1>3, <1>4, <1>5, <1>6, <1>7, <1>8, <1>9, <1>10, <1>11, <1>12, <1>13, <1>14, <1>15, <1>16, <1>17 DEF Next, Body

LEMMA InvInit == Init => IInv
<1> SUFFICES ASSUME Init PROVE IInv
  OBVIOUS
<1> USE HeaderType DEF Init
<1>1. TypeOK
  <2>1. pc \in [Players -> PC] /\ flag \in Halves /\ dmaHalf \in Halves
        /\ dst \in [Players -> Halves]
    BY DEF PC, Halves
  <2>2. /\ own \in [Players -> 0 .. MaxPlays] /\ br \in [Players -> 0 .. Block]
        /\ waitq \in [Players -> 0 .. MaxPlays]
        /\ tokens \in [0 .. MaxPlays -> 0 .. 1]
    OBVIOUS
  <2>3. buf \in [Halves -> Samples]
    BY DEF Samples
  <2>4. /\ plays \in 0 .. MaxPlays /\ handle \in 0 .. MaxPlays
        /\ fpPlay \in 0 .. MaxPlays /\ fpNext \in 0 .. FileLen
        /\ dmaAt \in 0 .. Block /\ dmaLeft \in 0 .. Block
    OBVIOUS
  <2>5. heard \in [play : 0 .. MaxPlays, pos : Nat]
    OBVIOUS
  <2> QED
    BY <2>1, <2>2, <2>3, <2>4, <2>5 DEF TypeOK
<1>2. TransferInv /\ HeardInv
  BY DEF TransferInv, HeardInv
<1>3. ASSUME NEW t \in Players
      PROVE  OwnerInv(t) /\ ClockInv(t) /\ PermitInv(t) /\ HalfInv(t)
             /\ FileInv(t)
  BY DEF OwnerInv, ClockInv, PermitInv, HalfInv, FileInv, Loop
<1> QED
  BY <1>1, <1>2, <1>3 DEF IInv

\* As long as plays do not overlap, IInv holds in every reachable state.
THEOREM Invariance == SoleOwner => (Spec => []IInv)
<1> SUFFICES ASSUME SoleOwner PROVE Spec => []IInv
  OBVIOUS
<1>1. IInv /\ [Next]_vars => IInv'
  BY InvStep
<1> QED
  BY <1>1, InvInit, PTL DEF Spec

\* Type correctness: in particular no transfer runs past the end of a half of
\* music_buffer and the read position never leaves the file.
THEOREM TypeCorrect == SoleOwner => (Spec => []TypeOK)
<1>1. IInv => TypeOK
  BY DEF IInv
<1> QED
  BY <1>1, Invariance, PTL

\* The CPU never writes the half of music_buffer that the DMA is playing.
THEOREM BufferSafety == SoleOwner => (Spec => []NoDataRace)
<1> SUFFICES ASSUME SoleOwner PROVE Spec => []NoDataRace
  OBVIOUS
<1>1. IInv => NoDataRace
  <2> SUFFICES ASSUME NEW p, Players = {p}, IInv, dmaOn, clock
               PROVE  dmaHalf \notin Writing(p)
    BY DEF SoleOwner, NoDataRace
  <2>1. OwnerInv(p) /\ ClockInv(p) /\ HalfInv(p) /\ flag \in Halves
    BY DEF IInv, TypeOK
  <2>2. pc[p] # "header"
    BY <2>1 DEF ClockInv
  <2>3. pc[p] \in {"fill", "scale"} => dmaHalf # flag
    BY <2>1 DEF HalfInv, Halves, Loop
  <2>4. pc[p] = "fill" => dst[p] = flag
    BY <2>1 DEF OwnerInv
  <2> QED
    BY <2>2, <2>3, <2>4 DEF Writing
<1> QED
  BY <1>1, Invariance, PTL

\* There is exactly one permit to start a transfer while the loop runs.
THEOREM PermitSafety == SoleOwner => (Spec => []OnePermit)
<1> SUFFICES ASSUME SoleOwner PROVE Spec => []OnePermit
  OBVIOUS
<1>1. IInv => OnePermit
  <2> SUFFICES ASSUME NEW p, Players = {p}, IInv, pc[p] \in Loop
               PROVE  \E x \in Permits : Permits = {x}
    BY DEF SoleOwner, OnePermit
  <2>1. PermitInv(p)
    BY DEF IInv
  <2>2. CASE pc[p] = "arm"
    <3>1. tokens[handle] = 0 /\ ~dmaOn /\ ~tc
      BY <2>1, <2>2 DEF PermitInv
    <3>2. Permits = {"task"}
      BY <2>2, <3>1 DEF Permits
    <3> QED
      BY <3>2
  <2>3. CASE pc[p] # "arm"
    <3>1. \/ tokens[handle] = 1 /\ ~dmaOn /\ ~tc
          \/ tokens[handle] = 0 /\ dmaOn /\ ~tc
          \/ tokens[handle] = 0 /\ ~dmaOn /\ tc
      BY <2>1, <2>3 DEF PermitInv
    <3>2. CASE tokens[handle] = 1 /\ ~dmaOn /\ ~tc
      <4>1. Permits = {"queued"}
        BY <2>3, <3>2 DEF Permits
      <4> QED
        BY <4>1
    <3>3. CASE tokens[handle] = 0 /\ dmaOn /\ ~tc
      <4>1. Permits = {"transfer"}
        BY <2>3, <3>3 DEF Permits
      <4> QED
        BY <4>1
    <3>4. CASE tokens[handle] = 0 /\ ~dmaOn /\ tc
      <4>1. Permits = {"interrupt"}
        BY <2>3, <3>4 DEF Permits
      <4> QED
        BY <4>1
    <3> QED
      BY <3>1, <3>2, <3>3, <3>4
  <2> QED
    BY <2>2, <2>3
<1> QED
  BY <1>1, Invariance, PTL

\* The three together: the double buffer and its permit are safe in every play.
THEOREM DoubleBufferSafe == SoleOwner => (Spec => []BufferSafe)
<1> SUFFICES ASSUME SoleOwner PROVE Spec => []BufferSafe
  OBVIOUS
<1> QED
  BY TypeCorrect, BufferSafety, PermitSafety, PTL DEF BufferSafe

\* Every step of the player is a step of the stream a listener is promised, or
\* leaves what has been heard alone: no sample is lost, repeated or reordered
\* inside a play, whatever the card and the console do.
THEOREM StreamRefinement == SoleOwner => (Spec => HeardInOrder)
<1> SUFFICES ASSUME SoleOwner PROVE Spec => HeardInOrder
  OBVIOUS
<1>1. Init => Stream!StreamInit
  BY DEF Init, Stream!StreamInit, Stream!Silence
<1>2. IInv /\ [Next]_vars => [Stream!StreamNext]_heard
  <2> SUFFICES ASSUME IInv, Next, heard' # heard PROVE Stream!StreamNext
    BY DEF vars
  <2>1. Sample
    BY DEF Next, Body, Play, CreateQueue, OpenFile, ReadHeader, Setup, Prime,
           ReadBlock, FillBlock, ScaleBlock, AwaitToken, StartDma, Unmount,
           StopClock, TransferComplete, Remount
  <2>2. TypeOK /\ TransferInv /\ HeardInv
    BY DEF IInv
  <2> DEFINE b == buf[dmaHalf]
  <2>3. /\ b.play = plays /\ Position = b.from + dmaAt /\ dmaLeft > 0
        /\ b.len = dmaAt + dmaLeft /\ b.from + b.len <= FileLen
    BY <2>1, <2>2 DEF Sample, TransferInv
  <2>4. /\ b.from \in Nat /\ b.len \in Nat /\ dmaAt \in Nat /\ dmaLeft \in Nat
    BY <2>2 DEF TypeOK, Samples
  <2>5. heard' = [play |-> plays, pos |-> Position + 1]
    BY <2>1, <2>3 DEF Sample
  <2>6. Position < FileLen /\ Position \in Nat
    BY <2>3, <2>4
  <2>7. CASE heard.play = plays
    <3>1. Position = heard.pos
      BY <2>7 DEF Position
    <3>2. plays > 0
      BY <2>1, <2>2 DEF Sample, TransferInv
    <3>3. heard' = [heard EXCEPT !.pos = @ + 1]
      BY <2>2, <2>5, <2>7, <3>1 DEF TypeOK
    <3> QED
      BY <2>6, <2>7, <3>1, <3>2, <3>3 DEF Stream!StreamNext, Stream!NextSample
  <2>8. CASE heard.play # plays
    <3>1. heard.play < plays /\ Position = Header
      BY <2>2, <2>8 DEF HeardInv, TypeOK, Position
    <3> QED
      BY <2>5, <2>6, <3>1 DEF Stream!StreamNext, Stream!FirstSample
  <2> QED
    BY <2>7, <2>8
<1> QED
  BY <1>1, <1>2, Invariance, PTL DEF Spec, HeardInOrder, Stream!StreamSpec

\* A play that read its file to the end keeps at most one block unheard.
THEOREM TailLoss == SoleOwner => (Spec => TailLossBounded)
<1> SUFFICES ASSUME SoleOwner PROVE Spec => TailLossBounded
  OBVIOUS
<1>1. ASSUME IInv, [Next]_vars, clock, ~clock', fpNext = FileLen
      PROVE  Position + Block >= FileLen
  <2>1. PICK p \in Players : StopClock(p)
    BY <1>1 DEF Next, Body, Play, CreateQueue, OpenFile, ReadHeader, Setup,
                Prime, ReadBlock, FillBlock, ScaleBlock, AwaitToken, StartDma,
                Unmount, StopClock, Sample, TransferComplete, Remount, vars
  <2>2. Frontier = FileLen
    BY <1>1, <2>1 DEF IInv, FileInv, StopClock, Goto
  <2>3. TypeOK /\ TransferInv
    BY <1>1 DEF IInv
  <2>4. CASE ~dmaOn
    BY <2>2, <2>4 DEF Frontier
  <2>5. CASE dmaOn
    <3>1. /\ Position = buf[dmaHalf].from + dmaAt
          /\ buf[dmaHalf].from + buf[dmaHalf].len = FileLen
      BY <1>1, <2>2, <2>3, <2>5 DEF TransferInv, Frontier
    <3>2. /\ buf[dmaHalf].from \in Nat /\ buf[dmaHalf].len \in 0 .. Block
          /\ dmaAt \in Nat
      BY <2>3 DEF TypeOK, Samples
    <3> QED
      BY <3>1, <3>2
  <2> QED
    BY <2>4, <2>5
<1>2. IInv /\ [Next]_vars =>
         [clock /\ ~clock' /\ fpNext = FileLen =>
             Position + Block >= FileLen]_vars
  BY <1>1
<1> QED
  BY <1>2, Invariance, PTL DEF Spec, TailLossBounded

(***************************************************************************)
(* Part 2: the file system.                                                *)
(***************************************************************************)
\* What FatVolume asks of its constants.
Formatted == LayoutAssumption /\ SizesAssumption

\* Sectors a directory object can stand at, and the objects.
Sectors == {<<>>} \cup ({"data"} \X Nat \X Nat)
DirObjects == [open : BOOLEAN, id : Nat, dptr : Nat, clust : Nat, sect : Sectors]
FileObjects == [open : BOOLEAN, id : Nat, sclust : Nat, size : Nat, fptr : Nat,
                clust : Nat, err : BOOLEAN]

\* Types: of the file system and its objects, and of the programs.
FsTyped ==
    /\ card \in Volumes /\ vbr \in Volumes /\ fsid \in Nat
    /\ mounted \in BOOLEAN /\ valid \in BOOLEAN
    /\ dirs \in [{"current", "open"} -> DirObjects]
    /\ fp \in FileObjects
    /\ btr \in Nat /\ got \in Nat
    /\ res \in Results

Mounting == {"mount", "boot", "partition", "bpb"}
Ats == {"idle", "mount", "opendir", "ls_opendir", "open", "header", "loop", "unmount",
        "readdir", "listed"}
PlayerPcs  == {"find", "step", "cluster", "sector"}
ConsolePcs == {"entry", "skip", "move", "done"}
Pcs == Mounting \cup PlayerPcs \cup ConsolePcs \cup {"out", "validate"}

\* Where a task can be in the function its program has reached.
Stages(call) ==
    CASE call \in {"idle", "listed", "unmount"} -> {"out"}
      [] call \in {"mount", "opendir", "ls_opendir"} -> Mounting \cup {"out", "done"}
      [] call = "open" -> Mounting \cup {"out", "find", "step"}
      [] call \in {"header", "loop"} -> {"out", "validate", "cluster", "sector"}
      [] OTHER -> {"out", "validate", "entry", "skip", "move", "done"}

\* The functions of the two programs, and one of them at a time inside FatFs.
ProgramInv ==
    /\ at \in [Tasks -> Ats] /\ stage \in [Tasks -> Pcs]
    /\ \A t \in Tasks : stage[t] \in Stages(at[t])
    /\ at["player"] \notin {"ls_opendir", "readdir", "listed"} /\ stage["player"] # "done"
    /\ at["console"] \notin {"open", "header", "loop", "unmount"}
    /\ ~(Inside("player") /\ Inside("console"))

\* The geometry is that of the card, also where the window comes from, and a
\* mounted FAT has room for its clusters.
WindowInv ==
    win.sect # <<>> => win.vol \in Volumes /\ Geometry(win.vol) = Geometry(card)
GeometryInv ==
    /\ Geometry(vbr) = Geometry(card) /\ WindowInv
    /\ valid => FatHasRoom(vbr)
    /\ \A t \in Tasks : stage[t] = "bpb" => win.sect # <<>>
    /\ \A t \in Tasks : stage[t] \in (PlayerPcs \cup ConsolePcs) \ {"done"} => valid

\* The directory objects that will be used: while the walk goes on, and after an
\* f_opendir or an f_readdir of ls that told no error.
Live(d) ==
    IF d = "open" THEN stage["player"] \in {"find", "step"}
    ELSE \/ at["console"] = "readdir" /\ stage["console"] # "done"
         \/ at["console"] \in {"ls_opendir", "readdir"} /\ stage["console"] = "done" /\ res = "ok"

\* Such an object of this mount stands in a cluster of the volume, at the sector
\* that its offset says, or behind the end.
Standing(dp) ==
    /\ dp.clust \in Clusters(vbr)
    /\ dp.sect = <<"data", dp.clust, (dp.dptr \div EntriesPerSector) % Layout[vbr].csize>>
DirInv ==
    /\ \A d \in {"current", "open"} :
          /\ dirs[d].id <= fsid
          /\ Live(d) /\ dirs[d].open /\ dirs[d].id = fsid =>
                dirs[d].sect = <<>> \/ Standing(dirs[d])
    /\ stage["console"] \in {"entry", "skip", "move"} =>
          dirs["current"].open /\ dirs["current"].id = fsid
    /\ stage["player"] \in {"find", "step"} =>
          dirs["open"].open /\ dirs["open"].id = fsid /\ dirs["open"].sect # <<>>

\* What is left of a file and of a read.
ReadInv ==
    /\ fp.fptr <= fp.size
    /\ stage["player"] \in {"cluster", "sector"} => fp.fptr + btr <= fp.size

VolumeInv == FsTyped /\ ProgramInv /\ GeometryInv /\ DirInv /\ ReadInv /\ ~strayed

\* A task whose program has begun, and one for which the host has left the card
\* alone since.
Begun(t) == at[t] # "idle" /\ ~(at[t] = "mount" /\ stage[t] = "out")
Undisturbed(t) == at[t] # "idle" /\ during[t] = {card}

\* What a task that has begun sees of the card it has had since: its mount forgot
\* the volume, so the limits and the window were read since.  A volume that is
\* used is not looked for.
FreshInv ==
    /\ \A t \in Tasks : stage[t] \in {"boot", "partition", "bpb"} => ~valid
    /\ during \in [Tasks -> SUBSET Volumes]
    /\ \A t \in Tasks : at[t] # "idle" => card \in during[t]
    /\ \A t \in Tasks : Begun(t) =>
          /\ valid => vbr \in during[t] /\ (win.sect # <<>> => win.vol \in during[t])
          /\ \A u \in Tasks : stage[u] = "bpb" => win.vol \in during[t]

\* Entry i of the root directory is passed over by f_open.
Passed(i) == LET e == RootEntry(card, i) IN e # End /\ e.name # Name

\* A directory object that stands in the root directory of the card.
DirCluster(i) == Cluster(card, Layout[card].root, i \div (Layout[card].csize * EntriesPerSector))
InRoot(dp) == dp.dptr < MaxDir /\ dp.clust = DirCluster(dp.dptr)

\* f_open has passed over what it has passed.
SearchInv ==
    Undisturbed("player") /\ stage["player"] \in {"find", "step"} =>
        LET dp == dirs["open"] IN
        /\ InRoot(dp)
        /\ \A i \in 0 .. dp.dptr - 1 : Passed(i)
        /\ stage["player"] = "step" => Passed(dp.dptr)

\* The unit a file position is in, and the units up to one.
FileCluster(i) == Cluster(card, fp.sclust, i \div (Layout[card].csize * SectorSize))
FileUnits(n) == [i \in 1 .. n |-> UnitOf(card, FirstNamed(card), i - 1)]

\* The file object is that of the play's file, and what has been read is what it
\* has passed.
OfFile ==
    LET e == FirstNamed(card) IN
    /\ FatHasRoom(card) /\ Named(card) # {} /\ ~e.dir
    /\ fp.sclust = e.sclust /\ fp.size = e.size
    /\ taken = FileUnits(fp.fptr)
    /\ 0 .. fp.fptr - 1 \subseteq InChain(card, e)

ObjectInv ==
    Undisturbed("player") /\ at["player"] \in {"header", "loop"} =>
        /\ OfFile
        /\ fp.fptr > 0 /\ ~fp.err /\ stage["player"] # "sector" => fp.clust = FileCluster(fp.fptr - 1)
        /\ fp.err => hurt \/ taken = Files[card]

\* A read in progress: whole sectors, but for the end of the file.
ProgressInv ==
    /\ fp.fptr % SectorSize = 0 \/ fp.fptr = fp.size
    /\ stage["player"] \in {"cluster", "sector"} =>
          /\ btr % SectorSize = 0 \/ fp.fptr + btr = fp.size
          /\ got = 0 /\ btr = 0 => fp.fptr = fp.size
          /\ ~fp.err
    /\ stage["player"] = "sector" =>
          /\ btr > 0 /\ fp.fptr < fp.size
          /\ Undisturbed("player") => fp.clust = FileCluster(fp.fptr)

\* What a play that nothing hurt can rely on, and what it has read before its
\* file is open and when it ends.
PlayInv ==
    /\ at["player"] \in {"idle", "mount", "opendir", "open"} => taken = <<>>
    /\ Begun("player") /\ at["player"] # "idle" => mounted
    /\ at["player"] \in {"header", "loop"} /\ ~hurt => valid /\ fp.open /\ fp.id = fsid
    /\ Undisturbed("player") /\ at["player"] = "unmount" =>
          /\ IsPrefix(taken, Files[card])
          /\ ~hurt => taken = Files[card]
    /\ stage["player"] # "out" /\ at["player"] \in {"mount", "opendir", "open"} => got = 0
    /\ stage["player"] = "out" => btr = 0 /\ got = 0

\* The list so far is what the directory object of ls has passed, or all of the
\* directory when the object is behind the end.
Listing == Undisturbed("console") /\ ~rewound
Current == dirs["current"].open /\ dirs["current"].id = fsid
Told == stage["console"] = "done" /\ res = "ok"
Seen(list, n) ==
    list = DirUpTo(card, n) /\ \A i \in 0 .. n - 1 : RootEntry(card, i) # End
Reached(list) ==
    LET dp == dirs["current"] IN
    IF dp.sect = <<>> THEN list = Lists[card] ELSE InRoot(dp) /\ Seen(list, dp.dptr)

\* f_readdir: where it starts, at the entry it looks at, and when it has returned.
WalkInv ==
    Listing /\ at["console"] = "readdir" =>
        LET e == RootEntry(card, dirs["current"].dptr) IN
        /\ Current /\ stage["console"] # "done" => Reached(listed)
        /\ stage["console"] \in {"skip", "move"} => dirs["current"].sect # <<>>
        /\ stage["console"] = "skip" => e = Free
        /\ stage["console"] = "move" => fno = e /\ e \notin {End, Free}
        /\ Told /\ fno = End => listed = Lists[card]
        /\ Told /\ fno # End /\ Current => Reached(Append(listed, fno))

\* Before and behind the walk; a play that is in f_opendir rewinds.
ListingInv ==
    /\ Inside("player") /\ at["player"] = "opendir" /\ Begun("console") => rewound
    /\ at["console"] \in {"mount", "opendir", "ls_opendir"} => listed = <<>>
    /\ Listing /\ at["console"] = "ls_opendir" /\ Told /\ Current => Reached(<<>>)
    /\ Listing /\ at["console"] = "listed" => listed = Lists[card]

ListInv == WalkInv /\ ListingInv
-----------------------------------------------------------------------------
(* The volume *)

\* What the assumptions say of a content.
LEMMA ContentIs ==
    ASSUME Formatted, NEW v \in Volumes
    PROVE  /\ Layout[v].csize \in Nat \ {0} /\ Layout[v].fsize \in Nat
           /\ Layout[v].root \in Nat /\ Layout[v].nfat \in Nat /\ Layout[v].nfat > 2
           /\ \A c \in Clusters(v) : c \in Nat /\ c >= 2 /\ c < Layout[v].nfat
           /\ \A c \in Clusters(v) :
                 /\ Layout[v].next[c] \in Nat
                 /\ \A i \in 1 .. Layout[v].csize * EntriesPerSector :
                       Layout[v].entries[c][i].sclust \in Nat /\ Layout[v].entries[c][i].size \in Nat
<1>1. /\ Layout[v].csize \in Nat /\ Layout[v].csize > 0 /\ Layout[v].fsize \in Nat
      /\ Layout[v].root \in Nat /\ Layout[v].nfat \in Nat /\ Layout[v].nfat > 2
  BY DEF Formatted, LayoutAssumption
<1>2. \A c \in Clusters(v) : c \in Nat /\ c >= 2 /\ c < Layout[v].nfat
  BY <1>1 DEF Clusters
<1>3. /\ Layout[v].next \in [Clusters(v) -> Nat]
      /\ \A c \in Clusters(v) :
            \A i \in 1 .. Layout[v].csize * EntriesPerSector :
               Layout[v].entries[c][i].sclust \in Nat /\ Layout[v].entries[c][i].size \in Nat
  BY DEF Formatted, LayoutAssumption
<1>4. \A c \in Clusters(v) : Layout[v].next[c] \in Nat
  BY <1>3
<1>5. QED
  BY <1>1, <1>2, <1>3, <1>4

LEMMA SizesAre ==
    ASSUME Formatted
    PROVE  /\ FatPerSector \in Nat \ {0} /\ EntriesPerSector \in Nat \ {0}
           /\ SectorSize \in Nat \ {0} /\ MaxDir \in Nat \ {0}
           /\ Btr \in Nat \ {0} /\ Btr % SectorSize = 0
BY DEF Formatted, SizesAssumption

\* Contents of one geometry.
LEMMA GeometrySame ==
    ASSUME NEW v, NEW w, Geometry(v) = Geometry(w)
    PROVE  /\ Layout[v].csize = Layout[w].csize /\ Layout[v].nfat = Layout[w].nfat
           /\ Layout[v].fsize = Layout[w].fsize /\ Layout[v].root = Layout[w].root
           /\ Clusters(v) = Clusters(w)
           /\ FatHasRoom(v) = FatHasRoom(w)
<1>1. /\ Geometry(v).csize = Layout[v].csize /\ Geometry(w).csize = Layout[w].csize
      /\ Geometry(v).nfat = Layout[v].nfat /\ Geometry(w).nfat = Layout[w].nfat
      /\ Geometry(v).fsize = Layout[v].fsize /\ Geometry(w).fsize = Layout[w].fsize
      /\ Geometry(v).root = Layout[v].root /\ Geometry(w).root = Layout[w].root
  BY DEF Geometry
<1>2. QED
  BY <1>1 DEF Clusters, FatHasRoom

\* Division with a remainder.
LEMMA Divides ==
    ASSUME NEW a \in Int, NEW n \in Int, n > 0, NEW q \in Int, q = a \div n,
           NEW r \in Int, r = a % n
    PROVE  a = n * q + r
OBVIOUS

LEMMA QuotientIs ==
    ASSUME NEW a \in Int, NEW n \in Int, n > 0, NEW q \in Int, NEW r \in 0 .. n - 1,
           a = n * q + r
    PROVE  a \div n = q /\ a % n = r
OBVIOUS

LEMMA Quotient ==
    ASSUME NEW a \in Nat, NEW n \in Nat \ {0}
    PROVE  \E q \in Nat, r \in 0 .. n - 1 :
              a \div n = q /\ a % n = r /\ a = n * q + r
<1> DEFINE q == a \div n
           r == a % n
<1>1. q \in Nat /\ r \in 0 .. n - 1
  OBVIOUS
<1>2. a = n * q + r
  <2>1. q \in Int /\ r \in Int /\ a \in Int /\ n \in Int /\ n > 0
    BY <1>1
  <2>2. \A x, y \in Int : x = a \div n /\ y = a % n => a = n * x + y
    BY <2>1, Divides
  <2> SUFFICES ASSUME NEW x \in Int, NEW y \in Int, x = q, y = r
               PROVE  a = n * x + y
    BY <2>1
  <2>3. QED
    BY <2>2
<1> HIDE DEF q, r
<1>3. QED
  BY <1>1, <1>2 DEF q, r

LEMMA QuotientBelow ==
    ASSUME NEW a \in Nat, NEW n \in Nat \ {0}, NEW m \in Nat, a < m * n
    PROVE  a \div n < m
<1>1. PICK q \in Nat, r \in 0 .. n - 1 : a \div n = q /\ a = n * q + r
  BY Quotient
<1>2. SUFFICES ASSUME q >= m PROVE FALSE
  BY <1>1
<1>3. a >= n * q
  BY <1>1
<1>4. n * q >= n * m
  <2>1. q - m \in Nat
    BY <1>2
  <2>2. n * (q - m) >= 0
    BY <2>1
  <2>3. n * q = n * m + n * (q - m)
    BY <1>3
  <2>4. n * m \in Nat /\ n * q \in Nat /\ n * (q - m) \in Nat
    BY <1>3, <2>1
  <2>5. QED
    BY <2>2, <2>3, <2>4
<1>5. n * m = m * n /\ n * q \in Nat /\ n * m \in Nat
  BY <1>3
<1>6. QED
  BY <1>3, <1>4, <1>5

\* One more entry, sector or unit: it is in the same larger unit or the first of
\* the next.
LEMMA OneMore ==
    ASSUME NEW p \in Nat, NEW n \in Nat \ {0}
    PROVE  IF (p + 1) % n = 0 THEN (p + 1) \div n = p \div n + 1 /\ p % n = n - 1
           ELSE (p + 1) \div n = p \div n /\ (p + 1) % n = (p % n) + 1
<1>1. PICK q \in Nat, r \in 0 .. n - 1 : p \div n = q /\ p % n = r /\ p = n * q + r
  BY Quotient
<1>2. p + 1 \in Int /\ n \in Int /\ n > 0 /\ q \in Int /\ q + 1 \in Int
  OBVIOUS
<1>3. CASE r = n - 1
  <2>1. p + 1 = n * (q + 1) + 0 /\ 0 \in 0 .. n - 1
    BY <1>1, <1>3
  <2>2. (p + 1) \div n = q + 1 /\ (p + 1) % n = 0
    BY <1>2, <2>1, QuotientIs
  <2>3. QED
    BY <1>1, <1>3, <2>2
<1>4. CASE r # n - 1
  <2>1. p + 1 = n * q + (r + 1) /\ r + 1 \in 0 .. n - 1
    BY <1>1, <1>4
  <2>2. (p + 1) \div n = q /\ (p + 1) % n = r + 1
    BY <1>2, <2>1, QuotientIs
  <2>3. QED
    BY <1>1, <2>2
<1>5. QED
  BY <1>3, <1>4

\* The disk is asked for sectors of the volume.
LEMMA DiskStays ==
    ASSUME NEW sects, NEW ok \in BOOLEAN, Disk(sects, ok), ~strayed,
           \A s \in sects : OfVolume(s)
    PROVE  ~strayed' /\ hurt' = (at["player"] # "idle" /\ (hurt \/ ~ok))
BY DEF Disk

\* move_window: the window is that sector of the content the card has, or was
\* already, and nothing when the disk fails.
LEMMA WindowStays ==
    ASSUME NEW s, s # <<>>, NEW ok \in BOOLEAN, Window(s, ok), card' = card,
           ~strayed, OfVolume(s), WindowInv, card \in Volumes
    PROVE  /\ ~strayed' /\ WindowInv'
           /\ ok => win'.sect = s /\ win'.vol \in Volumes
                    /\ Geometry(win'.vol) = Geometry(card)
           /\ win' = win \/ win'.sect = <<>> \/ win'.vol = card
           /\ IF ok /\ win' = win THEN hurt' = hurt \/ hurt' = (at["player"] # "idle" /\ hurt)
              ELSE hurt' = (at["player"] # "idle" /\ (hurt \/ ~ok))
<1>1. CASE s = win.sect
  BY <1>1 DEF Window, diskVars, WindowInv
<1>2. CASE s # win.sect
  <2>1. /\ Disk({s}, ok)
        /\ win' = IF ok THEN [sect |-> s, vol |-> card] ELSE NoWindow
    BY <1>2 DEF Window
  <2>2. ~strayed' /\ hurt' = (at["player"] # "idle" /\ (hurt \/ ~ok))
    BY <2>1, DiskStays
  <2>3. CASE ok
    <3>1. win'.sect = s /\ win'.vol = card
      BY <2>1, <2>3
    <3>2. QED
      BY <2>2, <2>3, <3>1 DEF WindowInv
  <2>4. CASE ~ok
    <3>1. win'.sect = <<>>
      BY <2>1, <2>4 DEF NoWindow, Null
    <3>2. QED
      BY <2>2, <2>4, <3>1 DEF WindowInv
  <2>5. QED
    BY <2>3, <2>4
<1>3. QED
  BY <1>1, <1>2

\* get_fat.
LEMMA FatStays ==
    ASSUME Formatted, FsTyped, WindowInv, FatHasRoom(vbr),
           Geometry(vbr) = Geometry(card), ~strayed, card' = card,
           NEW c, NEW val, GetFat(c, val)
    PROVE  /\ ~strayed' /\ WindowInv' /\ val \in Nat \cup {-1}
           /\ win' = win \/ win'.sect = <<>> \/ win'.vol = card
           /\ \/ c \notin Clusters(vbr) /\ val = 1 /\ win' = win /\ hurt' = hurt
              \/ c \in Clusters(vbr) /\ val = -1 /\ hurt' = (at["player"] # "idle")
              \/ /\ c \in Clusters(vbr) /\ val = Layout[win'.vol].next[c]
                 /\ win'.sect # <<>> /\ win'.vol \in Volumes
                 /\ hurt' = hurt \/ hurt' = (at["player"] # "idle" /\ hurt)
<1>1. CASE c \notin Clusters(vbr)
  <2>1. val = 1 /\ UNCHANGED <<win, diskVars>>
    BY <1>1 DEF GetFat, InFat
  <2>2. win' = win /\ strayed' = strayed /\ hurt' = hurt
    BY <2>1 DEF diskVars
  <2>3. QED
    BY <1>1, <2>1, <2>2 DEF WindowInv
<1>2. CASE c \in Clusters(vbr)
  <2> DEFINE s == <<"fat", c \div FatPerSector>>
  <2>1. PICK ok \in BOOLEAN :
           /\ Window(s, ok)
           /\ val = IF ok THEN Layout[win'.vol].next[c] ELSE -1
    BY <1>2 DEF GetFat, InFat, DiskError
  <2>2. vbr \in Volumes /\ card \in Volumes
    BY DEF FsTyped
  <2>3. c \in Nat /\ c < Layout[vbr].nfat /\ Layout[vbr].nfat \in Nat /\ Layout[vbr].fsize \in Nat
    BY <1>2, <2>2, ContentIs
  <2>4. c < Layout[vbr].fsize * FatPerSector
    <3>1. Layout[vbr].fsize * FatPerSector >= Layout[vbr].nfat
      BY DEF FatHasRoom
    <3>2. Layout[vbr].fsize * FatPerSector \in Nat
      BY <2>3, SizesAre
    <3>3. QED
      BY <2>3, <3>1, <3>2
  <2>5. c \div FatPerSector < Layout[vbr].fsize
    BY <2>3, <2>4, SizesAre, QuotientBelow
  <2>6. OfVolume(s) /\ s # <<>>
    BY <2>5 DEF OfVolume
  <2> HIDE DEF s
  <2>7. /\ ~strayed' /\ WindowInv'
        /\ ok => win'.sect = s /\ win'.vol \in Volumes
                 /\ Geometry(win'.vol) = Geometry(card)
        /\ win' = win \/ win'.sect = <<>> \/ win'.vol = card
        /\ IF ok /\ win' = win THEN hurt' = hurt \/ hurt' = (at["player"] # "idle" /\ hurt)
           ELSE hurt' = (at["player"] # "idle" /\ (hurt \/ ~ok))
    BY <2>1, <2>2, <2>6, WindowStays
  <2>8. CASE ~ok
    BY <1>2, <2>1, <2>7, <2>8
  <2>9. CASE ok
    <3>1. Clusters(win'.vol) = Clusters(vbr)
      BY <2>7, <2>9, GeometrySame
    <3>2. Layout[win'.vol].next[c] \in Nat
      BY <1>2, <2>7, <2>9, <3>1, ContentIs
    <3>3. QED
      BY <1>2, <2>1, <2>6, <2>7, <2>9, <3>2
  <2>10. QED
    BY <2>8, <2>9
<1>3. QED
  BY <1>1, <1>2

\* The offset, sector and cluster of one directory object change.
Put(d, s, p, c) ==
    dirs' = [dirs EXCEPT ![d] = [dirs[d] EXCEPT !.sect = s, !.dptr = p, !.clust = c]]

LEMMA PutIs ==
    ASSUME FsTyped, NEW d \in {"current", "open"}, NEW s \in Sectors, NEW p \in Nat,
           NEW c \in Nat, Put(d, s, p, c)
    PROVE  /\ dirs' \in [{"current", "open"} -> DirObjects]
           /\ dirs'[d].sect = s /\ dirs'[d].dptr = p /\ dirs'[d].clust = c
           /\ dirs'[d].open = dirs[d].open /\ dirs'[d].id = dirs[d].id
           /\ \A u \in {"current", "open"} \ {d} : dirs'[u] = dirs[u]
<1>1. dirs \in [{"current", "open"} -> DirObjects]
  BY DEF FsTyped
<1>2. dirs[d] \in DirObjects
  BY <1>1
<1> DEFINE dp == [dirs[d] EXCEPT !.sect = s, !.dptr = p, !.clust = c]
<1>3. /\ dp \in DirObjects
      /\ dp.sect = s /\ dp.dptr = p /\ dp.clust = c
      /\ dp.open = dirs[d].open /\ dp.id = dirs[d].id
  BY <1>2 DEF DirObjects
<1>4. dirs' = [dirs EXCEPT ![d] = dp]
  BY DEF Put
<1> HIDE DEF dp
<1>5. dirs'[d] = dp /\ \A u \in {"current", "open"} \ {d} : dirs'[u] = dirs[u]
  BY <1>1, <1>4
<1>6. dirs' \in [{"current", "open"} -> DirObjects]
  BY <1>1, <1>3, <1>4
<1>7. QED
  BY <1>3, <1>5, <1>6

NewSector(p) == (p + 1) % EntriesPerSector = 0
NewCluster(p) ==
    NewSector(p) /\ ((p + 1) \div EntriesPerSector) % Layout[vbr].csize = 0

\* dir_next, case by case.
LEMMA NextIs ==
    ASSUME Formatted, NEW d \in {"current", "open"}, NEW r, DirNext(d, r), FsTyped
    PROVE  LET dp == dirs[d] IN
           \/ /\ dp.sect = <<>> \/ dp.dptr + 1 >= MaxDir
              /\ r = "nofile" /\ Put(d, <<>>, dp.dptr, dp.clust)
              /\ UNCHANGED <<win, diskVars>>
           \/ /\ dp.sect # <<>> /\ dp.dptr + 1 < MaxDir /\ ~NewCluster(dp.dptr)
              /\ r = "ok"
              /\ Put(d, IF NewSector(dp.dptr) THEN <<"data", dp.sect[2], dp.sect[3] + 1>>
                        ELSE dp.sect, dp.dptr + 1, dp.clust)
              /\ UNCHANGED <<win, diskVars>>
           \/ /\ dp.sect # <<>> /\ dp.dptr + 1 < MaxDir /\ NewCluster(dp.dptr)
              /\ \E val : /\ GetFat(dp.clust, val)
                          /\ \/ /\ val \in {0, 1, -1} /\ r = "error"
                                /\ \/ Put(d, <<>>, dp.dptr, dp.clust)
                                   \/ Put(d, <<"data", dp.sect[2], dp.sect[3] + 1>>, dp.dptr, dp.clust)
                             \/ /\ val \notin {0, 1, -1} /\ val >= Layout[vbr].nfat
                                /\ r = "nofile" /\ Put(d, <<>>, dp.dptr, dp.clust)
                             \/ /\ val \notin {0, 1, -1} /\ ~(val >= Layout[vbr].nfat)
                                /\ r = "ok" /\ Put(d, ClusterSector(val, 0), dp.dptr + 1, val)
<1> DEFINE dp == dirs[d]
           ofs == dp.dptr + 1
           Change(s, p, c) ==
              dirs' = [dirs EXCEPT ![d].sect = s, ![d].dptr = p, ![d].clust = c]
<1>1. dirs \in [{"current", "open"} -> DirObjects]
  BY DEF FsTyped
<1>2. \A s, p, c : Change(s, p, c) => Put(d, s, p, c)
  BY <1>1 DEF Put
<1>3. \/ /\ dp.sect = <<>> \/ ofs >= MaxDir
         /\ r = "nofile" /\ Change(<<>>, dp.dptr, dp.clust) /\ UNCHANGED <<win, diskVars>>
      \/ /\ dp.sect # <<>> /\ ofs < MaxDir /\ ~NewCluster(dp.dptr)
         /\ r = "ok"
         /\ Change(IF NewSector(dp.dptr) THEN <<"data", dp.sect[2], dp.sect[3] + 1>> ELSE dp.sect,
                   ofs, dp.clust)
         /\ UNCHANGED <<win, diskVars>>
      \/ /\ ~(dp.sect = <<>> \/ ofs >= MaxDir)
         /\ ~(dp.sect # <<>> /\ ofs < MaxDir /\ ~NewCluster(dp.dptr))
         /\ \E val \in FatValues :
               /\ GetFat(dp.clust, val)
               /\ CASE val \in {0, 1, -1} ->
                        r = "error" /\ Change(IF stage["console"] = "skip" /\ d = "current" THEN <<>>
                                              ELSE <<"data", dp.sect[2], dp.sect[3] + 1>>, dp.dptr, dp.clust)
                    [] val >= Layout[vbr].nfat -> r = "nofile" /\ Change(<<>>, dp.dptr, dp.clust)
                    [] OTHER -> r = "ok" /\ Change(ClusterSector(val, 0), ofs, val)
  BY DEF DirNext, Null, DiskError, NewSector, NewCluster
<1>4. dp.dptr \in Nat /\ MaxDir \in Nat
  BY <1>1, SizesAre DEF DirObjects
<1> HIDE DEF Change
<1>5. CASE dp.sect = <<>> \/ ofs >= MaxDir
  BY <1>2, <1>3, <1>5
<1>6. CASE dp.sect # <<>> /\ ~(ofs >= MaxDir) /\ ~NewCluster(dp.dptr)
  <2>1. ofs < MaxDir
    BY <1>4, <1>6
  <2>2. QED
    BY <1>2, <1>3, <1>6, <2>1
<1>7. CASE dp.sect # <<>> /\ ~(ofs >= MaxDir) /\ NewCluster(dp.dptr)
  <2>1. ofs < MaxDir
    BY <1>4, <1>7
  <2>2. PICK val \in FatValues :
               /\ GetFat(dp.clust, val)
               /\ CASE val \in {0, 1, -1} ->
                        r = "error" /\ Change(IF stage["console"] = "skip" /\ d = "current" THEN <<>>
                                              ELSE <<"data", dp.sect[2], dp.sect[3] + 1>>, dp.dptr, dp.clust)
                    [] val >= Layout[vbr].nfat -> r = "nofile" /\ Change(<<>>, dp.dptr, dp.clust)
                    [] OTHER -> r = "ok" /\ Change(ClusterSector(val, 0), ofs, val)
    BY <1>3, <1>7, <2>1
  <2>3. CASE val \in {0, 1, -1}
    <3>1. r = "error"
      <4>1. Layout[vbr].nfat \in Nat /\ Layout[vbr].nfat > 2
        BY ContentIs DEF FsTyped
      <4>2. ~(val >= Layout[vbr].nfat)
        BY <2>3, <4>1
      <4>3. QED
        BY <2>2, <2>3, <4>2
    <3>2. \/ Put(d, <<>>, dp.dptr, dp.clust)
          \/ Put(d, <<"data", dp.sect[2], dp.sect[3] + 1>>, dp.dptr, dp.clust)
      BY <1>2, <2>2, <2>3
    <3>3. QED
      BY <1>7, <2>1, <2>2, <2>3, <3>1, <3>2
  <2>4. CASE val \notin {0, 1, -1} /\ val >= Layout[vbr].nfat
    <3>1. r = "nofile" /\ Put(d, <<>>, dp.dptr, dp.clust)
      BY <1>2, <2>2, <2>4
    <3>2. QED
      BY <1>7, <2>1, <2>2, <2>4, <3>1
  <2>5. CASE val \notin {0, 1, -1} /\ ~(val >= Layout[vbr].nfat)
    <3>1. r = "ok" /\ Put(d, ClusterSector(val, 0), ofs, val)
      BY <1>2, <2>2, <2>5
    <3>2. QED
      BY <1>7, <2>1, <2>2, <2>5, <3>1
  <2>6. QED
    BY <2>3, <2>4, <2>5
<1>8. QED
  BY <1>5, <1>6, <1>7

\* dir_next of an object that stands in the volume: it stands at the next entry,
\* or there is none.
LEMMA NextStays ==
    ASSUME Formatted, FsTyped, WindowInv, FatHasRoom(vbr),
           Geometry(vbr) = Geometry(card), ~strayed, card' = card, vbr' = vbr,
           NEW d \in {"current", "open"}, NEW r, DirNext(d, r),
           dirs[d].sect = <<>> \/ Standing(dirs[d])
    PROVE  /\ ~strayed' /\ WindowInv'
           /\ dirs' \in [{"current", "open"} -> DirObjects]
           /\ \A u \in {"current", "open"} \ {d} : dirs'[u] = dirs[u]
           /\ dirs'[d].open = dirs[d].open /\ dirs'[d].id = dirs[d].id
           /\ r \in Results
           /\ r = "ok" => dirs'[d].sect # <<>> /\ Standing(dirs[d])'
           /\ r = "nofile" => dirs'[d].sect = <<>>
<1> DEFINE dp == dirs[d]
           E == EntriesPerSector
           c == Layout[vbr].csize
<1>1. /\ dp \in DirObjects /\ dp.dptr \in Nat /\ dp.clust \in Nat /\ dp.sect \in Sectors
      /\ vbr \in Volumes
  BY DEF FsTyped, DirObjects
<1>2. E \in Nat \ {0} /\ c \in Nat \ {0}
  BY <1>1, SizesAre, ContentIs
<1>3. {"ok", "nofile", "error"} = Results
  BY DEF Results
<1>4. CASE dp.sect = <<>> \/ dp.dptr + 1 >= MaxDir
  <2>1. r = "nofile" /\ Put(d, <<>>, dp.dptr, dp.clust) /\ UNCHANGED <<win, diskVars>>
    BY <1>1, <1>4, NextIs, SizesAre
  <2>2. ~strayed' /\ WindowInv'
    BY <2>1 DEF diskVars, WindowInv
  <2>3. <<>> \in Sectors
    BY DEF Sectors
  <2>4. QED
    BY <1>1, <1>3, <2>1, <2>2, <2>3, PutIs
<1>5. CASE dp.sect # <<>> /\ ~(dp.dptr + 1 >= MaxDir) /\ ~NewCluster(dp.dptr)
  <2> DEFINE s == IF NewSector(dp.dptr) THEN <<"data", dp.sect[2], dp.sect[3] + 1>> ELSE dp.sect
  <2>1. r = "ok" /\ Put(d, s, dp.dptr + 1, dp.clust) /\ UNCHANGED <<win, diskVars>>
    BY <1>1, <1>5, NextIs, SizesAre
  <2>2. ~strayed' /\ WindowInv'
    BY <2>1 DEF diskVars, WindowInv
  <2>3. /\ dp.clust \in Clusters(vbr)
        /\ dp.sect = <<"data", dp.clust, (dp.dptr \div E) % c>>
    BY <1>5 DEF Standing
  <2>4. PICK k \in Nat, i \in 0 .. E - 1 : dp.dptr \div E = k /\ dp.dptr % E = i
    BY <1>1, <1>2, Quotient
  <2>5. PICK q \in Nat, j \in 0 .. c - 1 : k \div c = q /\ k % c = j
    BY <1>2, Quotient
  <2>6. s = <<"data", dp.clust, ((dp.dptr + 1) \div E) % c>> /\ s \in Sectors
    <3>1. CASE NewSector(dp.dptr)
      <4>1. (dp.dptr + 1) \div E = k + 1
        BY <1>1, <1>2, <2>4, <3>1, OneMore DEF NewSector
      <4>2. (k + 1) % c # 0
        BY <1>5, <3>1, <4>1 DEF NewCluster
      <4>3. (k + 1) % c = j + 1
        BY <1>2, <2>5, <4>2, OneMore
      <4>4. dp.sect[2] = dp.clust /\ dp.sect[3] = j
        BY <2>3, <2>4, <2>5
      <4>5. s = <<"data", dp.clust, j + 1>>
        BY <3>1, <4>4
      <4>6. j + 1 \in Nat
        OBVIOUS
      <4>7. QED
        BY <1>1, <4>1, <4>3, <4>5, <4>6 DEF Sectors
    <3>2. CASE ~NewSector(dp.dptr)
      <4>1. (dp.dptr + 1) \div E = k
        BY <1>1, <1>2, <2>4, <3>2, OneMore DEF NewSector
      <4>2. QED
        BY <1>1, <2>3, <2>4, <3>2, <4>1
    <3>3. QED
      BY <3>1, <3>2
  <2> HIDE DEF s
  <2>7. /\ dirs' \in [{"current", "open"} -> DirObjects]
        /\ dirs'[d].sect = s /\ dirs'[d].dptr = dp.dptr + 1 /\ dirs'[d].clust = dp.clust
        /\ dirs'[d].open = dp.open /\ dirs'[d].id = dp.id
        /\ \A u \in {"current", "open"} \ {d} : dirs'[u] = dirs[u]
    <3>1. PICK n \in Nat : n = dp.dptr + 1
      BY <1>1
    <3>2. Put(d, s, n, dp.clust) /\ s \in Sectors /\ dp.clust \in Nat
      BY <1>1, <2>1, <2>6, <3>1
    <3>3. /\ dirs' \in [{"current", "open"} -> DirObjects]
          /\ dirs'[d].sect = s /\ dirs'[d].dptr = n /\ dirs'[d].clust = dp.clust
          /\ dirs'[d].open = dirs[d].open /\ dirs'[d].id = dirs[d].id
          /\ \A u \in {"current", "open"} \ {d} : dirs'[u] = dirs[u]
      BY <3>2, PutIs
    <3>4. QED
      BY <3>1, <3>3
  <2>8. Standing(dirs[d])'
    BY <2>3, <2>6, <2>7 DEF Standing
  <2>9. s # <<>>
    BY <2>6
  <2>10. QED
    BY <1>3, <2>1, <2>2, <2>7, <2>8, <2>9
<1>6. CASE dp.sect # <<>> /\ ~(dp.dptr + 1 >= MaxDir) /\ NewCluster(dp.dptr)
  <2>1. PICK val :
           /\ GetFat(dp.clust, val)
           /\ \/ /\ val \in {0, 1, -1} /\ r = "error"
                 /\ \/ Put(d, <<>>, dp.dptr, dp.clust)
                    \/ Put(d, <<"data", dp.sect[2], dp.sect[3] + 1>>, dp.dptr, dp.clust)
              \/ /\ val \notin {0, 1, -1} /\ val >= Layout[vbr].nfat
                 /\ r = "nofile" /\ Put(d, <<>>, dp.dptr, dp.clust)
              \/ /\ val \notin {0, 1, -1} /\ ~(val >= Layout[vbr].nfat)
                 /\ r = "ok" /\ Put(d, ClusterSector(val, 0), dp.dptr + 1, val)
    BY <1>1, <1>6, NextIs, SizesAre
  <2>2. ~strayed' /\ WindowInv' /\ val \in Nat \cup {-1}
    BY <2>1, FatStays
  <2>3. dp.sect[2] \in Nat /\ dp.sect[3] + 1 \in Nat
    BY <1>1, <1>6 DEF Sectors
  <2>4. CASE r = "error"
    <3>1. <<>> \in Sectors /\ <<"data", dp.sect[2], dp.sect[3] + 1>> \in Sectors
      BY <2>3 DEF Sectors
    <3>2. \E s \in Sectors : Put(d, s, dp.dptr, dp.clust)
      BY <2>1, <2>4, <3>1
    <3>3. QED
      BY <1>1, <1>3, <2>2, <2>4, <3>2, PutIs
  <2>5. CASE r = "nofile"
    <3>1. <<>> \in Sectors /\ Put(d, <<>>, dp.dptr, dp.clust)
      BY <2>1, <2>5 DEF Sectors
    <3>2. QED
      BY <1>1, <1>3, <2>2, <2>5, <3>1, PutIs
  <2>6. CASE r = "ok"
    <3>1. /\ val \notin {0, 1, -1} /\ ~(val >= Layout[vbr].nfat)
          /\ Put(d, ClusterSector(val, 0), dp.dptr + 1, val)
      BY <2>1, <2>6
    <3>2. Layout[vbr].nfat \in Nat
      BY <1>1, ContentIs
    <3>3. val \in Clusters(vbr) /\ val \in Nat
      BY <2>2, <3>1, <3>2 DEF Clusters
    <3>4. ClusterSector(val, 0) = <<"data", val, 0>>
      BY <3>3 DEF ClusterSector, InFat
    <3>5. <<"data", val, 0>> \in Sectors /\ <<"data", val, 0>> # <<>>
      BY <3>3 DEF Sectors
    <3>6. /\ dirs' \in [{"current", "open"} -> DirObjects]
          /\ dirs'[d].sect = <<"data", val, 0>> /\ dirs'[d].dptr = dp.dptr + 1
          /\ dirs'[d].clust = val
          /\ dirs'[d].open = dp.open /\ dirs'[d].id = dp.id
          /\ \A u \in {"current", "open"} \ {d} : dirs'[u] = dirs[u]
      BY <1>1, <3>1, <3>3, <3>4, <3>5, PutIs
    <3>7. ((dp.dptr + 1) \div E) % c = 0
      BY <1>6 DEF NewCluster
    <3>8. Standing(dirs[d])'
      BY <3>3, <3>6, <3>7 DEF Standing
    <3>9. QED
      BY <1>3, <2>2, <2>6, <3>5, <3>6, <3>8
  <2>7. QED
    BY <2>1, <2>4, <2>5, <2>6
<1>7. QED
  BY <1>4, <1>5, <1>6

-----------------------------------------------------------------------------
(* The programs *)

Belongs(t, a, p) ==
    IF t = "player" THEN a \notin {"ls_opendir", "readdir", "listed"} /\ p # "done"
    ELSE a \notin {"open", "header", "loop", "unmount"}

\* A task goes to a place in a function when no other is inside one, or comes out.
LEMMA Moved ==
    ASSUME ProgramInv, NEW t \in Tasks, NEW a \in Ats, NEW p \in Pcs, p \in Stages(a),
           at' = [at EXCEPT ![t] = a], stage' = [stage EXCEPT ![t] = p], Belongs(t, a, p),
           p \in {"out", "done"} \/ \A u \in Tasks \ {t} : ~Inside(u)
    PROVE  /\ ProgramInv' /\ at'[t] = a /\ stage'[t] = p
           /\ \A u \in Tasks \ {t} : at'[u] = at[u] /\ stage'[u] = stage[u]
<1>1. at \in [Tasks -> Ats] /\ stage \in [Tasks -> Pcs]
  BY DEF ProgramInv
<1>2. /\ at' \in [Tasks -> Ats] /\ stage' \in [Tasks -> Pcs]
      /\ at'[t] = a /\ stage'[t] = p
      /\ \A u \in Tasks \ {t} : at'[u] = at[u] /\ stage'[u] = stage[u]
  BY <1>1
<1>3. \A u \in Tasks : stage'[u] \in Stages(at'[u])
  BY <1>2 DEF ProgramInv
<1>4. Tasks = {"player", "console"}
  BY DEF Tasks
<1>5. /\ at'["player"] \notin {"ls_opendir", "readdir", "listed"} /\ stage'["player"] # "done"
      /\ at'["console"] \notin {"open", "header", "loop", "unmount"}
  BY <1>2, <1>4 DEF ProgramInv, Belongs
<1>6. ~(Inside("player")' /\ Inside("console")')
  BY <1>2, <1>4 DEF ProgramInv, Inside
<1>7. \A u \in Tasks : (stage[u] \in Stages(at[u]))'
  BY <1>3 DEF Stages
<1>8. QED
  BY <1>2, <1>5, <1>6, <1>7 DEF ProgramInv

\* Goto, inside the function.
LEMMA Went ==
    ASSUME ProgramInv, NEW t \in Tasks, Inside(t), NEW p \in Pcs, p \in Stages(at[t]),
           p = "done" => t # "player", Proceed(t, p), at' = at
    PROVE  /\ ProgramInv' /\ at' = at /\ stage'[t] = p
           /\ \A u \in Tasks \ {t} : stage'[u] = stage[u]
<1>1. at \in [Tasks -> Ats] /\ stage' = [stage EXCEPT ![t] = p]
  BY DEF ProgramInv, Proceed
<1>2. at[t] \in Ats /\ at' = [at EXCEPT ![t] = at[t]]
  BY <1>1
<1>3. Belongs(t, at[t], p)
  BY DEF ProgramInv, Belongs, Tasks
<1>4. \A u \in Tasks \ {t} : ~Inside(u)
  BY DEF ProgramInv, Tasks
<1>5. QED
  BY <1>1, <1>2, <1>3, <1>4, Moved

\* A function returns.
LEMMA Returned ==
    ASSUME FsTyped, ProgramInv, NEW t \in Tasks, Inside(t), NEW r \in Results,
           Return(t, r)
    PROVE  /\ ProgramInv'
           /\ res' \in Results /\ btr' \in Nat /\ got' \in Nat
           /\ res' = IF at[t] \in {"opendir", "ls_opendir", "readdir"} THEN r ELSE res
           /\ \A u \in Tasks \ {t} : at'[u] = at[u] /\ stage'[u] = stage[u]
           /\ t = "player" =>
                 stage'[t] = "out" /\ at'[t] = NextCall(r) /\ btr' = 0 /\ got' = 0
           /\ t # "player" =>
                 stage'[t] = "done" /\ at'[t] = at[t] /\ btr' = btr /\ got' = got
<1>1. /\ at \in [Tasks -> Ats] /\ stage \in [Tasks -> Pcs]
      /\ stage[t] \in Stages(at[t]) /\ stage[t] \notin {"out", "done"}
      /\ at["player"] \notin {"ls_opendir", "readdir", "listed"}
      /\ at["console"] \notin {"open", "header", "loop", "unmount"}
  BY DEF ProgramInv, Inside
<1>2. res' = IF at[t] \in {"opendir", "ls_opendir", "readdir"} THEN r ELSE res
  BY DEF Return
<1>3. res' \in Results
  BY <1>2 DEF FsTyped
<1>4. CASE t = "player"
  <2>1. /\ Proceed(t, "out") /\ at' = [at EXCEPT ![t] = NextCall(r)]
        /\ btr' = 0 /\ got' = 0
    BY <1>4 DEF Return
  <2>2. at["player"] \in {"mount", "opendir", "open", "header", "loop"}
    BY <1>1, <1>4 DEF Ats, Stages
  <2>3. NextCall(r) \in {"opendir", "open", "header", "loop", "unmount"}
    BY <2>2 DEF NextCall
  <2>4. "out" \in Pcs /\ "out" \in Stages(NextCall(r)) /\ NextCall(r) \in Ats
    BY <2>3 DEF Pcs, Stages, Ats, Mounting
  <2>5. Belongs(t, NextCall(r), "out")
    BY <1>4, <2>3 DEF Belongs
  <2>6. /\ ProgramInv' /\ at'[t] = NextCall(r) /\ stage'[t] = "out"
        /\ \A u \in Tasks \ {t} : at'[u] = at[u] /\ stage'[u] = stage[u]
    BY <2>1, <2>4, <2>5, Moved DEF Proceed
  <2>7. QED
    BY <1>2, <1>3, <1>4, <2>1, <2>6
<1>5. CASE t # "player"
  <2>1. Proceed(t, "done") /\ at' = at /\ btr' = btr /\ got' = got
    BY <1>5 DEF Return
  <2>2. t = "console"
    BY <1>5 DEF Tasks
  <2>3. "done" \in Pcs /\ "done" \in Stages(at[t])
    BY <1>1, <2>2 DEF Pcs, Stages, Ats, ConsolePcs
  <2>4. /\ ProgramInv' /\ stage'[t] = "done"
        /\ \A u \in Tasks \ {t} : stage'[u] = stage[u]
    BY <1>5, <2>1, <2>3, Went
  <2>5. QED
    BY <1>2, <1>3, <1>5, <2>1, <2>4 DEF FsTyped
<1>6. QED
  BY <1>4, <1>5

\* What a function that fails at its mount leaves behind.
LEMMA Refused ==
    ASSUME FsTyped, ProgramInv, NEW t \in Tasks, stage[t] \in Mounting, Refuse(t)
    PROVE  /\ Return(t, "error") /\ Inside(t) /\ "error" \in Results
           /\ dirs' \in [{"current", "open"} -> DirObjects] /\ fp' \in FileObjects
           /\ fp'.fptr = fp.fptr /\ fp'.size = fp.size
           /\ dirs'["open"] = dirs["open"]
           /\ dirs'["current"].id = dirs["current"].id
           /\ IF at[t] \in {"opendir", "ls_opendir"} THEN dirs'["current"].open = FALSE
              ELSE dirs' = dirs
           /\ at[t] # "open" => fp' = fp
<1>1. /\ Return(t, "error") /\ Inside(t) /\ "error" \in Results
  BY DEF Refuse, Inside, Mounting, Results
<1>2. dirs \in [{"current", "open"} -> DirObjects] /\ fp \in FileObjects
  BY DEF FsTyped
<1>3. /\ fp' \in FileObjects /\ fp'.fptr = fp.fptr /\ fp'.size = fp.size
      /\ at[t] # "open" => fp' = fp
  BY <1>2 DEF Refuse, FileObjects
<1>4. CASE at[t] \in {"opendir", "ls_opendir"}
  <2>1. dirs' = [dirs EXCEPT !["current"] = [dirs["current"] EXCEPT !.open = FALSE]]
    BY <1>2, <1>4 DEF Refuse
  <2>2. /\ [dirs["current"] EXCEPT !.open = FALSE] \in DirObjects
        /\ [dirs["current"] EXCEPT !.open = FALSE].open = FALSE
        /\ [dirs["current"] EXCEPT !.open = FALSE].id = dirs["current"].id
    BY <1>2 DEF DirObjects
  <2>3. QED
    BY <1>1, <1>2, <1>3, <1>4, <2>1, <2>2
<1>5. CASE at[t] \notin {"opendir", "ls_opendir"}
  BY <1>1, <1>2, <1>3, <1>5 DEF Refuse
<1>6. QED
  BY <1>4, <1>5

\* The root directory at its first entry.
LEMMA RootIs ==
    ASSUME Formatted, NEW v \in Volumes, NEW id \in Nat
    PROVE  LET start == RootStart(id, v) IN
           /\ start \in DirObjects /\ start.open /\ start.id = id /\ start.dptr = 0
           /\ start.clust = Layout[v].root
           /\ IF Layout[v].root \in Clusters(v) THEN start.sect = <<"data", Layout[v].root, 0>>
              ELSE start.sect = <<>>
<1>1. Layout[v].root \in Nat
  BY ContentIs
<1>2. <<"data", Layout[v].root, 0>> \in Sectors /\ <<>> \in Sectors
  BY <1>1 DEF Sectors
<1>3. QED
  BY <1>1, <1>2 DEF RootStart, Null, DirObjects

\* The directory objects when no task is inside a function any more and the one
\* that is shared stays as it was, comes to no life and keeps its mount, or is closed.
LEMMA DirAside ==
    ASSUME FsTyped, DirInv, fsid' \in Nat,
           (fsid' = fsid /\ vbr' = vbr) \/ fsid' = fsid + 1,
           \/ dirs' = dirs /\ (Live("current")' => Live("current"))
           \/ /\ dirs'["current"].open = FALSE /\ dirs'["open"] = dirs["open"]
              /\ dirs'["current"].id = dirs["current"].id,
           \A u \in Tasks : stage'[u] \in {"out", "done"}
    PROVE  DirInv'
<1>1. /\ dirs["current"].id \in Nat /\ dirs["open"].id \in Nat /\ fsid \in Nat
  BY DEF FsTyped, DirObjects
<1>2. \A d \in {"current", "open"} : dirs'[d].id = dirs[d].id /\ dirs'[d].id <= fsid'
  BY <1>1 DEF DirInv
<1>3. stage'["player"] \in {"out", "done"} /\ stage'["console"] \in {"out", "done"}
  BY DEF Tasks
<1>4. ~Live("open")'
  BY <1>3 DEF Live
<1>5. ASSUME Live("current")', dirs'["current"].open, dirs'["current"].id = fsid'
      PROVE  dirs'["current"].sect = <<>> \/ Standing(dirs["current"])'
  <2>1. dirs' = dirs /\ Live("current")
    BY <1>5
  <2>2. fsid' = fsid /\ vbr' = vbr
    BY <1>1, <1>2, <1>5 DEF DirInv
  <2>3. dirs["current"].open /\ dirs["current"].id = fsid
    BY <1>5, <2>1, <2>2
  <2>4. dirs["current"].sect = <<>> \/ Standing(dirs["current"])
    BY <2>1, <2>3 DEF DirInv
  <2>5. QED
    BY <2>1, <2>2, <2>4 DEF Standing
<1>6. QED
  BY <1>2, <1>3, <1>4, <1>5 DEF DirInv

\* A function that fails at its mount.
LEMMA RefusedIs ==
    ASSUME FsTyped, ProgramInv, DirInv, NEW t \in Tasks, stage[t] \in Mounting,
           Refuse(t), fsid' \in Nat,
           (fsid' = fsid /\ vbr' = vbr) \/ fsid' = fsid + 1
    PROVE  /\ ProgramInv' /\ DirInv'
           /\ dirs' \in [{"current", "open"} -> DirObjects] /\ fp' \in FileObjects
           /\ fp'.fptr = fp.fptr /\ fp'.size = fp.size
           /\ res' \in Results /\ btr' \in Nat /\ got' \in Nat
           /\ \A u \in Tasks \ {t} : at'[u] = at[u] /\ stage'[u] = stage[u]
           /\ stage'[t] \in {"out", "done"}
<1>1. /\ Return(t, "error") /\ "error" \in Results /\ Inside(t)
      /\ dirs' \in [{"current", "open"} -> DirObjects] /\ fp' \in FileObjects
      /\ fp'.fptr = fp.fptr /\ fp'.size = fp.size
      /\ dirs'["open"] = dirs["open"] /\ dirs'["current"].id = dirs["current"].id
      /\ IF at[t] \in {"opendir", "ls_opendir"} THEN dirs'["current"].open = FALSE
         ELSE dirs' = dirs
  BY Refused
<1>2. /\ ProgramInv' /\ res' \in Results /\ btr' \in Nat /\ got' \in Nat
      /\ res' = IF at[t] \in {"opendir", "ls_opendir", "readdir"} THEN "error" ELSE res
      /\ stage'[t] \in {"out", "done"} /\ (t # "player" => at'[t] = at[t])
      /\ \A u \in Tasks \ {t} : at'[u] = at[u] /\ stage'[u] = stage[u]
  BY <1>1, Returned
<1>3. \A u \in Tasks : stage'[u] \in {"out", "done"}
  BY <1>2 DEF ProgramInv, Inside, Mounting, Tasks
<1>4. at[t] \in {"mount", "opendir", "ls_opendir", "open"}
  BY DEF ProgramInv, Stages, Ats, Mounting
<1>5. CASE at[t] \in {"opendir", "ls_opendir"}
  BY <1>1, <1>2, <1>3, <1>5, DirAside
<1>6. CASE at[t] \in {"mount", "open"}
  <2>1. dirs' = dirs /\ res' = res
    BY <1>1, <1>2, <1>6
  <2>2. Live("current")' => Live("current")
    BY <1>2, <1>6, <2>1 DEF Live, Tasks
  <2>3. QED
    BY <1>1, <1>2, <1>3, <2>1, <2>2, DirAside
<1>7. QED
  BY <1>4, <1>5, <1>6

\* What a function does when its volume is mounted, as it was or anew.
LEMMA MountedIs ==
    ASSUME Formatted, FsTyped, ProgramInv, DirInv,
           NEW t \in Tasks, stage[t] \in Mounting, NEW id \in Nat, NEW v \in Volumes,
           Mounted(t, id, v), fsid' = id, vbr' = v,
           (id = fsid /\ v = vbr) \/ id = fsid + 1
    PROVE  /\ ProgramInv' /\ DirInv'
           /\ dirs' \in [{"current", "open"} -> DirObjects] /\ fp' \in FileObjects
           /\ fp'.fptr = fp.fptr /\ fp'.size = fp.size
           /\ res' \in Results /\ btr' \in Nat /\ got' \in Nat
           /\ \A u \in Tasks \ {t} : at'[u] = at[u] /\ stage'[u] = stage[u]
           /\ stage'[t] \in {"out", "done", "find"}
<1> DEFINE start == RootStart(id, v)
<1>1. /\ dirs \in [{"current", "open"} -> DirObjects] /\ fp \in FileObjects
      /\ res \in Results /\ btr \in Nat /\ got \in Nat /\ fsid \in Nat /\ vbr \in Volumes
  BY DEF FsTyped
<1>2. /\ start \in DirObjects /\ start.open /\ start.id = id
      /\ start.dptr = 0 /\ start.clust = Layout[v].root
      /\ start.sect # <<>> =>
            Layout[v].root \in Clusters(v) /\ start.sect = <<"data", Layout[v].root, 0>>
  BY RootIs
<1>3. (0 \div EntriesPerSector) % Layout[v].csize = 0
  <2>1. EntriesPerSector \in Nat \ {0} /\ Layout[v].csize \in Nat \ {0}
    BY SizesAre, ContentIs
  <2>2. 0 \div EntriesPerSector = 0
    BY <2>1
  <2>3. QED
    BY <2>1, <2>2
<1>4. Inside(t) /\ \A u \in Tasks \ {t} : ~Inside(u)
  BY DEF ProgramInv, Inside, Mounting, Tasks
<1>5. /\ at \in [Tasks -> Ats] /\ stage \in [Tasks -> Pcs] /\ stage[t] \in Stages(at[t])
      /\ at["player"] \notin {"ls_opendir", "readdir", "listed"}
      /\ at["console"] \notin {"open", "header", "loop", "unmount"}
  BY DEF ProgramInv
<1>6. at[t] \in {"mount", "opendir", "ls_opendir", "open"}
  BY <1>5 DEF Stages, Ats, Mounting
<1>7. \A u \in Tasks \ {t} : stage[u] \in {"out", "done"}
  BY <1>4 DEF Inside
<1> HIDE DEF start
<1>8. dirs["current"].id \in Nat /\ dirs["open"].id \in Nat
  BY <1>1 DEF DirObjects
<1>9. CASE at[t] = "mount" /\ Return(t, "ok") /\ UNCHANGED <<dirs, fp>>
  <2>1. "ok" \in Results
    BY DEF Results
  <2>2. /\ ProgramInv' /\ res' \in Results /\ btr' \in Nat /\ got' \in Nat /\ res' = res
        /\ stage'[t] \in {"out", "done"} /\ (t # "player" => at'[t] = at[t])
        /\ \A u \in Tasks \ {t} : at'[u] = at[u] /\ stage'[u] = stage[u]
    BY <1>4, <1>9, <2>1, Returned
  <2>3. \A u \in Tasks : stage'[u] \in {"out", "done"}
    BY <1>7, <2>2
  <2>4. Live("current")' => Live("current")
    BY <1>9, <2>2 DEF Live, Tasks
  <2>5. DirInv'
    BY <1>1, <1>9, <2>3, <2>4, DirAside
  <2>6. QED
    BY <1>1, <1>9, <2>2, <2>5
<1>10. CASE at[t] # "mount" /\ start.sect = <<>> /\ Refuse(t)
  BY <1>10, RefusedIs
<1>11. CASE /\ at[t] \in {"opendir", "ls_opendir"} /\ start.sect # <<>>
            /\ dirs' = [dirs EXCEPT !["current"] = start]
            /\ Return(t, "ok") /\ UNCHANGED fp
  <2>1. "ok" \in Results
    BY DEF Results
  <2>2. /\ ProgramInv' /\ res' \in Results /\ btr' \in Nat /\ got' \in Nat
        /\ stage'[t] \in {"out", "done"}
        /\ \A u \in Tasks \ {t} : at'[u] = at[u] /\ stage'[u] = stage[u]
    BY <1>4, <1>11, <2>1, Returned
  <2>3. \A u \in Tasks : stage'[u] \in {"out", "done"}
    BY <1>7, <2>2
  <2>4. /\ dirs' \in [{"current", "open"} -> DirObjects]
        /\ dirs'["current"] = start /\ dirs'["open"] = dirs["open"]
    BY <1>1, <1>2, <1>11
  <2>5. Standing(dirs["current"])'
    BY <1>2, <1>3, <1>11, <2>4 DEF Standing
  <2>6. stage'["player"] \in {"out", "done"} /\ stage'["console"] \in {"out", "done"}
    BY <2>3 DEF Tasks
  <2>7. \A d \in {"current", "open"} : dirs'[d].id <= fsid'
    BY <1>1, <1>2, <1>8, <2>4 DEF DirInv
  <2>8. ~Live("open")'
    BY <2>6 DEF Live
  <2>9. DirInv'
    BY <2>5, <2>6, <2>7, <2>8 DEF DirInv
  <2>10. QED
    BY <1>1, <1>11, <2>2, <2>4, <2>9
<1>12. CASE /\ at[t] = "open" /\ start.sect # <<>>
            /\ dirs' = [dirs EXCEPT !["open"] = start]
            /\ Proceed(t, "find") /\ Stay /\ UNCHANGED fp
  <2>1. t = "player" /\ at' = at /\ res' = res /\ btr' = btr /\ got' = got
    BY <1>5, <1>12 DEF Tasks, Stay
  <2>2. "find" \in Pcs /\ "find" \in Stages(at[t])
    BY <1>12 DEF Pcs, PlayerPcs, Stages
  <2>3. /\ ProgramInv' /\ stage'[t] = "find" /\ \A u \in Tasks \ {t} : stage'[u] = stage[u]
    BY <1>4, <1>12, <2>1, <2>2, Went
  <2>4. /\ dirs' \in [{"current", "open"} -> DirObjects]
        /\ dirs'["open"] = start /\ dirs'["current"] = dirs["current"]
    BY <1>1, <1>2, <1>12
  <2>5. Standing(dirs["open"])'
    BY <1>2, <1>3, <1>12, <2>4 DEF Standing
  <2>6. stage'["console"] = stage["console"] /\ stage["console"] \in {"out", "done"}
    BY <1>7, <2>1, <2>3 DEF Tasks
  <2>7. \A d \in {"current", "open"} : dirs'[d].id <= fsid'
    BY <1>1, <1>2, <1>8, <2>4 DEF DirInv
  <2>8. ASSUME Live("current")', dirs'["current"].open, dirs'["current"].id = fsid'
        PROVE  dirs'["current"].sect = <<>> \/ Standing(dirs["current"])'
    <3>1. Live("current")
      BY <2>1, <2>6, <2>8 DEF Live
    <3>2. id = fsid /\ v = vbr
      BY <1>1, <1>8, <2>4, <2>8 DEF DirInv
    <3>3. dirs["current"].sect = <<>> \/ Standing(dirs["current"])
      BY <2>4, <2>8, <3>1, <3>2 DEF DirInv
    <3>4. QED
      BY <2>4, <3>2, <3>3 DEF Standing
  <2>9. DirInv'
    BY <1>2, <1>12, <2>1, <2>4, <2>5, <2>6, <2>7, <2>8 DEF DirInv
  <2>10. QED
    BY <1>1, <1>12, <2>1, <2>3, <2>4, <2>9
<1>13. QED
  BY <1>9, <1>10, <1>11, <1>12 DEF Mounted, Null, start

\* One function at a time.
LEMMA OthersOut ==
    ASSUME ProgramInv, NEW t \in Tasks, Inside(t)
    PROVE  /\ \A u \in Tasks \ {t} : stage[u] \in {"out", "done"}
           /\ at[t] \in Ats /\ stage[t] \in Pcs /\ stage[t] \in Stages(at[t])
BY DEF ProgramInv, Inside, Tasks

\* The geometry after a step of t, when no other task is inside a function.
LEMMA GeometryKept ==
    ASSUME NEW t \in Tasks, (Geometry(vbr) = Geometry(card))', WindowInv',
           valid' => FatHasRoom(vbr)',
           \A u \in Tasks \ {t} : stage'[u] \in {"out", "done"},
           stage'[t] = "bpb" => win'.sect # <<>>,
           stage'[t] \in (PlayerPcs \cup ConsolePcs) \ {"done"} => valid'
    PROVE  GeometryInv'
<1>1. \A u \in Tasks : stage'[u] = "bpb" => win'.sect # <<>>
  OBVIOUS
<1>2. \A u \in Tasks : stage'[u] \in (PlayerPcs \cup ConsolePcs) \ {"done"} => valid'
  BY DEF PlayerPcs, ConsolePcs
<1>3. QED
  BY <1>1, <1>2 DEF GeometryInv

\* The directory objects after a step that leaves them as they are.
LEMMA DirKept ==
    ASSUME DirInv, dirs' = dirs, fsid' = fsid, vbr' = vbr,
           Live("current")' => Live("current"), Live("open")' => Live("open"),
           stage'["console"] \in {"entry", "skip", "move"} =>
              dirs["current"].open /\ dirs["current"].id = fsid,
           stage'["player"] \in {"find", "step"} => stage["player"] \in {"find", "step"}
    PROVE  DirInv'
<1>1. \A d \in {"current", "open"} :
         (Live(d) /\ dirs[d].open /\ dirs[d].id = fsid)' =>
            (dirs[d].sect = <<>> \/ Standing(dirs[d]))'
  <2>1. \A d \in {"current", "open"} : Live(d)' => Live(d)
    OBVIOUS
  <2>2. QED
    BY <2>1 DEF DirInv, Standing
<1>2. QED
  BY <1>1 DEF DirInv

LEMMA SwapKeeps ==
    ASSUME VolumeInv, Swap
    PROVE  VolumeInv'
<1>1. /\ card' \in Volumes /\ Geometry(card') = Geometry(card)
      /\ UNCHANGED <<diskVars, fsVars, win, dirs, readVars, at, stage, res, fno,
                     listVars>>
  BY DEF Swap
<1>2. UNCHANGED <<strayed, mounted, valid, fsid, vbr, win, dirs, fp, btr, got, at, stage, res, fno>>
  BY <1>1 DEF diskVars, fsVars, readVars
<1>3. FsTyped'
  BY <1>1, <1>2 DEF VolumeInv, FsTyped
<1>4. ProgramInv'
  BY <1>2 DEF VolumeInv, ProgramInv, Inside, Stages
<1>5. GeometryInv'
  BY <1>1, <1>2 DEF VolumeInv, GeometryInv, WindowInv
<1>6. DirInv'
  BY <1>2 DEF VolumeInv, DirInv, Live, Standing
<1>7. ReadInv'
  BY <1>2 DEF VolumeInv, ReadInv
<1>8. QED
  BY <1>2, <1>3, <1>4, <1>5, <1>6, <1>7 DEF VolumeInv

LEMMA StutterKeeps ==
    ASSUME VolumeInv, UNCHANGED fatVars
    PROVE  VolumeInv'
<1>1. UNCHANGED <<card, strayed, mounted, valid, fsid, vbr, win, dirs, fp, btr, got, at, stage, res, fno>>
  BY DEF fatVars, hostVars, diskVars, fsVars, readVars
<1>2. FsTyped' /\ ReadInv' /\ ~strayed'
  BY <1>1 DEF VolumeInv, FsTyped, ReadInv
<1>3. ProgramInv'
  BY <1>1 DEF VolumeInv, ProgramInv, Inside, Stages
<1>4. GeometryInv'
  BY <1>1 DEF VolumeInv, GeometryInv, WindowInv
<1>5. DirInv'
  BY <1>1 DEF VolumeInv, DirInv, Live, Standing
<1>6. QED
  BY <1>2, <1>3, <1>4, <1>5 DEF VolumeInv

\* A step of the programs between the functions: only at and pc of one task change.
LEMMA OutsideKeeps ==
    ASSUME VolumeInv, NEW t \in Tasks, NEW a \in Ats, "out" \in Stages(a),
           at' = [at EXCEPT ![t] = a], stage' = [stage EXCEPT ![t] = "out"], Belongs(t, a, "out"),
           stage[t] \in {"out", "done"}, a = "readdir" => at[t] = "readdir" \/ stage[t] = "done",
           t = "console" /\ a = "readdir" /\ stage[t] = "done" =>
              at[t] \in {"ls_opendir", "readdir"} /\ res = "ok",
           UNCHANGED <<card, strayed, mounted, valid, fsid, vbr, win, dirs, fp, btr, got, res, fno>>
    PROVE  VolumeInv'
<1>1. "out" \in Pcs
  BY DEF Pcs
<1>2. /\ ProgramInv' /\ at'[t] = a /\ stage'[t] = "out"
      /\ \A u \in Tasks \ {t} : at'[u] = at[u] /\ stage'[u] = stage[u]
  BY <1>1, Moved DEF VolumeInv
<1>3. FsTyped' /\ ReadInv' /\ ~strayed'
  <2>1. stage'["player"] \in {"cluster", "sector"} => stage["player"] \in {"cluster", "sector"}
    BY <1>2 DEF Tasks
  <2>2. QED
    BY <2>1 DEF VolumeInv, FsTyped, ReadInv
<1>4. GeometryInv'
  <2>1. \A u \in Tasks : stage'[u] = stage[u] \/ stage'[u] = "out"
    BY <1>2
  <2>2. "out" # "bpb" /\ "out" \notin PlayerPcs \cup ConsolePcs
    BY DEF PlayerPcs, ConsolePcs
  <2>3. /\ \A u \in Tasks : stage'[u] = "bpb" => win'.sect # <<>>
        /\ \A u \in Tasks : stage'[u] \in (PlayerPcs \cup ConsolePcs) \ {"done"} => valid'
    BY <2>1, <2>2 DEF VolumeInv, GeometryInv
  <2>4. QED
    BY <2>3 DEF VolumeInv, GeometryInv, WindowInv
<1>5. DirInv'
  <2>1. Live("open")' => Live("open")
    BY <1>2 DEF Live, Tasks
  <2>2. Live("current")' => Live("current")
    BY <1>2 DEF Live, Tasks
  <2>3. /\ stage'["console"] \in {"entry", "skip", "move"} => stage["console"] \in {"entry", "skip", "move"}
        /\ stage'["player"] \in {"find", "step"} => stage["player"] \in {"find", "step"}
    BY <1>2 DEF Tasks
  <2>4. stage["console"] \in {"entry", "skip", "move"} => dirs["current"].open /\ dirs["current"].id = fsid
    BY DEF VolumeInv, DirInv
  <2>5. QED
    BY <2>1, <2>2, <2>3, <2>4, DirKept DEF VolumeInv
<1>6. QED
  BY <1>2, <1>3, <1>4, <1>5 DEF VolumeInv

LEMMA CommandsKeep ==
    ASSUME VolumeInv, PlayCommand \/ LsCommand \/ EndList
    PROVE  VolumeInv'
<1>1. /\ stage["player"] \in Stages(at["player"]) /\ stage["console"] \in Stages(at["console"])
      /\ stage \in [Tasks -> Pcs] /\ "player" \in Tasks /\ "console" \in Tasks
  BY DEF VolumeInv, ProgramInv, Tasks
<1>2. /\ "mount" \in Ats /\ "idle" \in Ats /\ "out" \in Stages("mount") /\ "out" \in Stages("idle")
      /\ \A u \in {"player", "console"} : Belongs(u, "mount", "out") /\ Belongs(u, "idle", "out")
  BY DEF Ats, Stages, Belongs
<1>3. CASE PlayCommand
  <2>1. /\ at["player"] = "idle" /\ at' = [at EXCEPT !["player"] = "mount"] /\ stage' = stage
        /\ UNCHANGED <<card, strayed, mounted, valid, fsid, vbr, win, dirs, fp, btr, got, res, fno>>
    BY <1>3 DEF PlayCommand, fsVars
  <2>2. stage["player"] = "out"
    BY <1>1, <2>1 DEF Stages
  <2>3. stage' = [stage EXCEPT !["player"] = "out"]
    BY <1>1, <2>1, <2>2
  <2>4. QED
    BY <1>1, <1>2, <2>1, <2>2, <2>3, OutsideKeeps
<1>4. CASE LsCommand
  <2>1. /\ at["console"] = "idle" /\ at' = [at EXCEPT !["console"] = "mount"] /\ stage' = stage
        /\ UNCHANGED <<card, strayed, mounted, valid, fsid, vbr, win, dirs, fp, btr, got, res, fno>>
    BY <1>4 DEF LsCommand, fsVars, readVars, diskVars
  <2>2. stage["console"] = "out"
    BY <1>1, <2>1 DEF Stages
  <2>3. stage' = [stage EXCEPT !["console"] = "out"]
    BY <1>1, <2>1, <2>2
  <2>4. QED
    BY <1>1, <1>2, <2>1, <2>2, <2>3, OutsideKeeps
<1>5. CASE EndList
  <2>1. /\ at["console"] = "listed" /\ at' = [at EXCEPT !["console"] = "idle"] /\ stage' = stage
        /\ UNCHANGED <<card, strayed, mounted, valid, fsid, vbr, win, dirs, fp, btr, got, res, fno>>
    BY <1>5 DEF EndList, fsVars, readVars, diskVars, hostVars
  <2>2. stage["console"] = "out"
    BY <1>1, <2>1 DEF Stages
  <2>3. stage' = [stage EXCEPT !["console"] = "out"]
    BY <1>1, <2>1, <2>2
  <2>4. QED
    BY <1>1, <1>2, <2>1, <2>2, <2>3, OutsideKeeps
<1>6. QED
  BY <1>3, <1>4, <1>5

LEMMA ConsoleChecksKeeps ==
    ASSUME VolumeInv, ConsoleChecks
    PROVE  VolumeInv'
<1> DEFINE was == at["console"]
           a == CASE was = "mount" -> "opendir"
                  [] was = "opendir" -> "ls_opendir"
                  [] OTHER -> IF res # "ok" THEN "idle"
                              ELSE IF was = "readdir" /\ fno = End THEN "listed" ELSE "readdir"
<1>1. /\ at \in [Tasks -> Ats] /\ stage \in [Tasks -> Pcs] /\ "console" \in Tasks
      /\ stage["console"] \in Stages(was) /\ stage["console"] = "done"
      /\ was \notin {"open", "header", "loop", "unmount"} /\ was \in Ats
  BY DEF VolumeInv, ProgramInv, Tasks, ConsoleChecks
<1>2. was \in {"mount", "opendir", "ls_opendir", "readdir"}
  BY <1>1 DEF Stages, Ats
<1>3. at' = [at EXCEPT !["console"] = a] /\ stage' = [stage EXCEPT !["console"] = "out"]
  BY <1>1 DEF ConsoleChecks, Proceed
<1>4. /\ a \in {"opendir", "ls_opendir", "idle", "listed", "readdir"}
      /\ a = "readdir" => was \in {"ls_opendir", "readdir"} /\ res = "ok"
  BY <1>2
<1>5. UNCHANGED <<card, strayed, mounted, valid, fsid, vbr, win, dirs, fp, btr, got, res, fno>>
  BY DEF ConsoleChecks, fsVars, readVars, diskVars, hostVars
<1> HIDE DEF a
<1>6. a \in Ats /\ "out" \in Stages(a) /\ Belongs("console", a, "out")
  BY <1>4 DEF Ats, Stages, Belongs
<1>7. QED
  BY <1>1, <1>3, <1>4, <1>5, <1>6, OutsideKeeps

LEMMA VolumeInit ==
    ASSUME Formatted, FatInit
    PROVE  VolumeInv
<1>1. NoDir \in DirObjects /\ NoFile \in FileObjects /\ "ok" \in Results
  BY DEF NoDir, NoFile, DirObjects, FileObjects, Sectors, Null, Results
<1>2. FsTyped
  BY <1>1 DEF FatInit, FsTyped
<1>3. ProgramInv
  <2>1. "idle" \in Ats /\ "out" \in Pcs /\ "out" \in Stages("idle")
    BY DEF Ats, Pcs, Stages
  <2>2. at = [t \in Tasks |-> "idle"] /\ stage = [t \in Tasks |-> "out"]
    BY DEF FatInit
  <2>3. "player" \in Tasks /\ "console" \in Tasks
    BY DEF Tasks
  <2>4. QED
    BY <2>1, <2>2, <2>3 DEF ProgramInv, Inside
<1>4. stage["player"] = "out" /\ stage["console"] = "out" /\ at["console"] = "idle"
  BY DEF FatInit, Tasks
<1>5. GeometryInv
  <2>1. win.sect = <<>> /\ valid = FALSE /\ vbr = card
    BY DEF FatInit, NoWindow, Null
  <2>2. \A t \in Tasks : stage[t] = "out"
    BY DEF FatInit
  <2>3. QED
    BY <2>1, <2>2 DEF GeometryInv, WindowInv, PlayerPcs, ConsolePcs
<1>6. DirInv
  <2>1. ~Live("current") /\ ~Live("open")
    BY <1>4 DEF Live
  <2>2. \A d \in {"current", "open"} : dirs[d].id = 0
    BY DEF FatInit, NoDir
  <2>3. fsid = 0
    BY DEF FatInit
  <2>4. QED
    BY <1>4, <2>1, <2>2, <2>3 DEF DirInv
<1>7. ReadInv /\ ~strayed
  BY <1>4 DEF FatInit, ReadInv, NoFile
<1>8. QED
  BY <1>2, <1>3, <1>5, <1>6, <1>7 DEF VolumeInv

\* The next function begins: at its mount, or where it looks at its object.
LEMMA EnterKeeps ==
    ASSUME VolumeInv, NEW t \in Tasks, Enter(t)
    PROVE  VolumeInv'
<1>1. /\ at \in [Tasks -> Ats] /\ stage \in [Tasks -> Pcs] /\ at[t] \in Ats
      /\ at["player"] \notin {"ls_opendir", "readdir", "listed"} /\ stage["player"] # "done"
      /\ at["console"] \notin {"open", "header", "loop", "unmount"}
  BY DEF VolumeInv, ProgramInv
<1>2. stage[t] = "out" /\ \A u \in Tasks : stage[u] \in {"out", "done"}
  BY DEF Enter, Inside
<1>3. UNCHANGED <<card, strayed, fsid, vbr, win, dirs, fp, btr, got, res, fno>>
  BY DEF Enter, hostVars
<1>4. CASE at[t] = "unmount"
  <2>1. mounted' = FALSE /\ valid' = FALSE /\ at' = [at EXCEPT ![t] = "idle"] /\ stage' = stage
    BY <1>4 DEF Enter
  <2>2. t = "player"
    BY <1>1, <1>4 DEF Tasks
  <2>3. stage' = [stage EXCEPT ![t] = "out"] /\ "idle" \in Ats /\ "out" \in Pcs /\ "out" \in Stages("idle")
    BY <1>1, <1>2, <2>1 DEF Ats, Pcs, Stages
  <2>4. Belongs(t, "idle", "out")
    BY DEF Belongs
  <2>5. ProgramInv' /\ \A u \in Tasks \ {t} : at'[u] = at[u] /\ stage'[u] = stage[u]
    BY <2>1, <2>3, <2>4, Moved DEF VolumeInv
  <2>6. FsTyped' /\ ReadInv' /\ ~strayed'
    BY <1>3, <2>1 DEF VolumeInv, FsTyped, ReadInv
  <2>7. GeometryInv'
    <3>1. \A u \in Tasks : stage'[u] # "bpb" /\ stage'[u] \notin (PlayerPcs \cup ConsolePcs) \ {"done"}
      BY <1>2, <2>1 DEF PlayerPcs, ConsolePcs
    <3>2. QED
      BY <1>3, <2>1, <3>1 DEF VolumeInv, GeometryInv, WindowInv
  <2>8. at'["console"] = at["console"] /\ stage' = stage
    BY <2>1, <2>2, <2>5 DEF Tasks
  <2>9. /\ Live("current")' => Live("current")
        /\ Live("open")' => Live("open")
    BY <1>3, <2>8 DEF Live
  <2>10. DirInv'
    <3>1. stage["console"] \in {"entry", "skip", "move"} => dirs["current"].open /\ dirs["current"].id = fsid
      BY DEF VolumeInv, DirInv
    <3>2. QED
      BY <1>3, <2>8, <2>9, <3>1, DirKept DEF VolumeInv
  <2>11. QED
    BY <2>5, <2>6, <2>7, <2>10 DEF VolumeInv
<1>5. CASE at[t] # "unmount"
  <2>1. PICK p \in {"mount", "validate"} :
           /\ Proceed(t, p) /\ at' = at /\ mounted' \in {mounted, TRUE} /\ valid' \in {valid, FALSE}
           /\ IF p = "mount" THEN at[t] \in {"mount", "opendir", "ls_opendir", "open"}
              ELSE at[t] \in {"header", "loop", "readdir"}
    BY <1>5 DEF Enter, ForgetVolume
  <2>2. stage' = [stage EXCEPT ![t] = p] /\ p \in Pcs /\ p \in Stages(at[t]) /\ at' = [at EXCEPT ![t] = at[t]]
    BY <1>1, <2>1 DEF Proceed, Pcs, Mounting, Stages
  <2>3. Belongs(t, at[t], p)
    BY <1>1, <2>1 DEF Belongs, Tasks
  <2>4. \A u \in Tasks \ {t} : ~Inside(u)
    BY <1>2 DEF Inside
  <2>5. ProgramInv' /\ stage'[t] = p /\ \A u \in Tasks \ {t} : stage'[u] = stage[u]
    BY <1>1, <2>2, <2>3, <2>4, Moved DEF VolumeInv
  <2>6. \A u \in Tasks : stage'[u] \in {"out", "done", "mount", "validate"}
    BY <1>2, <2>5
  <2>7. stage'["player"] \in {"out", "done", "mount", "validate"} /\ stage'["console"] \in {"out", "done", "mount", "validate"}
    BY <2>6 DEF Tasks
  <2>8. FsTyped' /\ ReadInv' /\ ~strayed'
    BY <1>3, <2>1, <2>7 DEF VolumeInv, FsTyped, ReadInv
  <2>9. GeometryInv'
    <3>1. valid' => valid
      BY <2>1
    <3>2. \A u \in Tasks : stage'[u] # "bpb" /\ stage'[u] \notin (PlayerPcs \cup ConsolePcs) \ {"done"}
      BY <2>6 DEF PlayerPcs, ConsolePcs
    <3>3. QED
      BY <1>3, <3>1, <3>2 DEF VolumeInv, GeometryInv, WindowInv
  <2>10. /\ Live("open")' => Live("open")
    BY <2>7 DEF Live
  <2>11. Live("current")' => Live("current")
    <3>1. CASE t = "console"
      BY <1>2, <1>3, <2>1, <2>5, <3>1 DEF Live, Tasks
    <3>2. CASE t # "console"
      BY <1>3, <2>1, <2>5, <3>2 DEF Live, Tasks
    <3>3. QED
      BY <3>1, <3>2
  <2>12. DirInv'
    BY <1>3, <2>7, <2>10, <2>11, DirKept DEF VolumeInv
  <2>13. QED
    BY <2>5, <2>8, <2>9, <2>12 DEF VolumeInv
<1>6. QED
  BY <1>4, <1>5

\* mount_volume.
LEMMA MountVolumeKeeps ==
    ASSUME Formatted, VolumeInv, NEW t \in Tasks, MountVolume(t)
    PROVE  VolumeInv'
<1>1. /\ stage[t] = "mount" /\ stage[t] \in Mounting /\ Inside(t)
      /\ UNCHANGED <<card, mounted, fsid, vbr, win, fno>>
  BY DEF MountVolume, Mounting, Inside, hostVars
<1>2. /\ \A u \in Tasks \ {t} : stage[u] \in {"out", "done"}
      /\ at[t] \in Ats /\ stage[t] \in Stages(at[t])
  BY <1>1, OthersOut DEF VolumeInv
<1>3. at[t] \in {"mount", "opendir", "ls_opendir", "open"}
  BY <1>1, <1>2 DEF Stages, Ats
<1>4. /\ fsid \in Nat /\ vbr \in Volumes /\ card \in Volumes
      /\ mounted \in BOOLEAN /\ valid \in BOOLEAN /\ fp.fptr <= fp.size
      /\ fp \in FileObjects /\ dirs \in [{"current", "open"} -> DirObjects]
  BY DEF VolumeInv, FsTyped, ReadInv
<1>5. WindowInv' /\ (Geometry(vbr) = Geometry(card))'
  BY <1>1 DEF VolumeInv, GeometryInv, WindowInv
<1>6. valid' \in {valid, FALSE}
  BY DEF MountVolume
<1>7. ~strayed'
  BY DEF MountVolume, diskVars, Disk, VolumeInv
<1>8. ASSUME ProgramInv', DirInv', dirs' \in [{"current", "open"} -> DirObjects], fp' \in FileObjects,
             fp'.fptr = fp.fptr, fp'.size = fp.size,
             res' \in Results, btr' \in Nat, got' \in Nat,
             \A u \in Tasks \ {t} : stage'[u] = stage[u],
             stage'[t] \in {"out", "done", "boot"} \/ (stage'[t] = "find" /\ valid')
      PROVE  VolumeInv'
  <2>1. FsTyped'
    BY <1>1, <1>4, <1>6, <1>8 DEF FsTyped
  <2>2. GeometryInv'
    <3>1. valid' => FatHasRoom(vbr)'
      BY <1>1, <1>6 DEF VolumeInv, GeometryInv
    <3>2. \A u \in Tasks \ {t} : stage'[u] \in {"out", "done"}
      BY <1>2, <1>8
    <3>3. stage'[t] # "bpb" /\ (stage'[t] \in (PlayerPcs \cup ConsolePcs) \ {"done"} => valid')
      BY <1>8 DEF PlayerPcs, ConsolePcs
    <3>4. QED
      BY <1>5, <3>1, <3>2, <3>3, GeometryKept
  <2>3. ReadInv'
    <3>1. stage'["player"] \notin {"cluster", "sector"}
      BY <1>2, <1>8 DEF Tasks
    <3>2. QED
      BY <1>4, <1>8, <3>1 DEF ReadInv
  <2>4. QED
    BY <1>7, <1>8, <2>1, <2>2, <2>3 DEF VolumeInv
<1>9. CASE Refuse(t)
  <2>1. fsid' \in Nat /\ fsid' = fsid /\ vbr' = vbr
    BY <1>1, <1>4
  <2>2. QED
    BY <1>1, <1>8, <1>9, <2>1, RefusedIs DEF VolumeInv
<1>10. CASE Mounted(t, fsid, vbr) /\ valid /\ valid' = valid
  <2>1. fsid' = fsid /\ vbr' = vbr
    BY <1>1
  <2>2. QED
    BY <1>1, <1>4, <1>8, <1>10, <2>1, MountedIs DEF VolumeInv
<1>11. CASE Proceed(t, "boot") /\ Stay /\ UNCHANGED <<dirs, fp>>
  <2>1. UNCHANGED <<res, at, btr, got, dirs, fp>>
    BY <1>11 DEF Stay
  <2>2. "boot" \in Pcs /\ "boot" \in Stages(at[t])
    BY <1>3 DEF Pcs, Mounting, Stages
  <2>3. ProgramInv' /\ stage'[t] = "boot" /\ \A u \in Tasks \ {t} : stage'[u] = stage[u]
    BY <1>1, <1>11, <2>1, <2>2, Went DEF VolumeInv
  <2>4. /\ stage'["player"] \in {"out", "done", "boot"} /\ stage'["console"] \in {"out", "done", "boot"}
        /\ stage'["console"] = "done" => stage["console"] = "done"
    BY <1>2, <2>3 DEF Tasks
  <2>5. Live("open")' => Live("open")
    BY <2>4 DEF Live
  <2>6. Live("current")' => Live("current")
    <3>1. t = "console" => at["console"] # "readdir"
      BY <1>3
    <3>2. t # "console" => stage'["console"] = stage["console"]
      BY <2>3 DEF Tasks
    <3>3. QED
      BY <2>1, <2>3, <2>4, <3>1, <3>2 DEF Live
  <2>7. DirInv'
    BY <1>1, <2>1, <2>4, <2>5, <2>6, DirKept DEF VolumeInv
  <2>8. /\ res' \in Results /\ btr' \in Nat /\ got' \in Nat
    BY <2>1 DEF VolumeInv, FsTyped
  <2>9. QED
    BY <1>4, <1>8, <2>1, <2>3, <2>7, <2>8
<1>12. QED
  BY <1>9, <1>10, <1>11 DEF MountVolume

\* find_volume, check_fs.
LEMMA CheckFsKeeps ==
    ASSUME Formatted, VolumeInv, NEW t \in Tasks, CheckFs(t)
    PROVE  VolumeInv'
<1> DEFINE s == IF stage[t] = "boot" THEN <<"boot", 0>> ELSE <<"boot", 1>>
<1>1. PICK ok \in BOOLEAN :
         /\ stage[t] \in {"boot", "partition"} /\ Disk({s}, ok)
         /\ win' = IF ok THEN [sect |-> s, vol |-> card] ELSE NoWindow
         /\ IF ~ok THEN Refuse(t)
            ELSE /\ Proceed(t, IF stage[t] = "boot" /\ Layout[card].mbr THEN "partition" ELSE "bpb")
                 /\ Stay /\ UNCHANGED <<dirs, fp>>
  BY DEF CheckFs
<1>2. UNCHANGED <<card, mounted, valid, fsid, vbr, fno>>
  BY DEF CheckFs, hostVars, fsVars
<1>3. s # <<>> /\ s \in {<<"boot", 0>>, <<"boot", 1>>}
  OBVIOUS
<1> HIDE DEF s
<1>4. ~strayed'
  BY <1>1, <1>3, DiskStays DEF OfVolume, VolumeInv
<1>5. stage[t] \in Mounting /\ Inside(t)
  BY <1>1 DEF Mounting, Inside
<1>6. /\ \A u \in Tasks \ {t} : stage[u] \in {"out", "done"}
      /\ at[t] \in Ats /\ stage[t] \in Stages(at[t])
  BY <1>5, OthersOut DEF VolumeInv
<1>7. /\ fsid \in Nat /\ vbr \in Volumes /\ card \in Volumes
      /\ mounted \in BOOLEAN /\ valid \in BOOLEAN /\ fp.fptr <= fp.size
  BY DEF VolumeInv, FsTyped, ReadInv
<1>8. WindowInv' /\ (ok => win'.sect # <<>>)
  <2>1. CASE ok
    <3>1. win'.sect = s /\ win'.vol = card
      BY <1>1, <2>1
    <3>2. QED
      BY <1>2, <1>3, <1>7, <3>1 DEF WindowInv
  <2>2. CASE ~ok
    <3>1. win'.sect = <<>>
      BY <1>1, <2>2 DEF NoWindow, Null
    <3>2. QED
      BY <2>2, <3>1 DEF WindowInv
  <2>3. QED
    BY <2>1, <2>2
<1>9. (Geometry(vbr) = Geometry(card))' /\ (valid' => FatHasRoom(vbr)')
  BY <1>2 DEF VolumeInv, GeometryInv
<1>10. ASSUME ProgramInv', DirInv', dirs' \in [{"current", "open"} -> DirObjects], fp' \in FileObjects,
             fp'.fptr = fp.fptr, fp'.size = fp.size,
             res' \in Results, btr' \in Nat, got' \in Nat,
             \A u \in Tasks \ {t} : stage'[u] = stage[u],
             stage'[t] \in {"out", "done", "partition"} \/ (stage'[t] = "bpb" /\ ok)
      PROVE  VolumeInv'
  <2>1. FsTyped'
    BY <1>2, <1>7, <1>10 DEF FsTyped
  <2>2. GeometryInv'
    <3>1. \A u \in Tasks \ {t} : stage'[u] \in {"out", "done"}
      BY <1>6, <1>10
    <3>2. stage'[t] \notin (PlayerPcs \cup ConsolePcs) \ {"done"} /\ (stage'[t] = "bpb" => ok)
      BY <1>10 DEF PlayerPcs, ConsolePcs
    <3>3. QED
      BY <1>8, <1>9, <3>1, <3>2, GeometryKept
  <2>3. ReadInv'
    <3>1. stage'["player"] \notin {"cluster", "sector"}
      BY <1>6, <1>10 DEF Tasks
    <3>2. QED
      BY <1>7, <1>10, <3>1 DEF ReadInv
  <2>4. QED
    BY <1>4, <1>10, <2>1, <2>2, <2>3 DEF VolumeInv
<1>11. CASE ~ok
  <2>1. Refuse(t) /\ fsid' \in Nat /\ fsid' = fsid /\ vbr' = vbr
    BY <1>1, <1>2, <1>7, <1>11
  <2>2. QED
    BY <1>5, <1>10, <2>1, RefusedIs DEF VolumeInv
<1>12. CASE ok
  <2> DEFINE p == IF stage[t] = "boot" /\ Layout[card].mbr THEN "partition" ELSE "bpb"
  <2>1. Proceed(t, p) /\ UNCHANGED <<res, at, btr, got, dirs, fp>>
    BY <1>1, <1>12 DEF Stay
  <2>2. p \in {"partition", "bpb"}
    OBVIOUS
  <2> HIDE DEF p
  <2>3. at[t] \in {"mount", "opendir", "ls_opendir", "open"}
    BY <1>1, <1>6 DEF Stages, Ats
  <2>4. p \in Pcs /\ p \in Stages(at[t])
    BY <2>2, <2>3 DEF Pcs, Mounting, Stages
  <2>5. ProgramInv' /\ stage'[t] = p /\ \A u \in Tasks \ {t} : stage'[u] = stage[u]
    BY <1>5, <2>1, <2>2, <2>4, Went DEF VolumeInv
  <2>6. /\ stage'["player"] \in {"out", "done", "partition", "bpb"}
        /\ stage'["console"] \in {"out", "done", "partition", "bpb"}
        /\ stage'["console"] = "done" => stage["console"] = "done"
    BY <1>6, <2>2, <2>5 DEF Tasks
  <2>7. Live("open")' => Live("open")
    BY <2>6 DEF Live
  <2>8. Live("current")' => Live("current")
    <3>1. t = "console" => at["console"] # "readdir"
      BY <2>3
    <3>2. t # "console" => stage'["console"] = stage["console"]
      BY <2>5 DEF Tasks
    <3>3. QED
      BY <2>1, <2>5, <2>6, <3>1, <3>2 DEF Live
  <2>9. DirInv'
    BY <1>2, <2>1, <2>6, <2>7, <2>8, DirKept DEF VolumeInv
  <2>10. /\ res' \in Results /\ btr' \in Nat /\ got' \in Nat
         /\ fp' \in FileObjects /\ dirs' \in [{"current", "open"} -> DirObjects]
    BY <2>1 DEF VolumeInv, FsTyped
  <2>11. QED
    BY <1>10, <1>12, <2>1, <2>2, <2>5, <2>9, <2>10
<1>13. QED
  BY <1>11, <1>12

\* The boundaries and limits, and the rest of the function.
LEMMA ReadBpbKeeps ==
    ASSUME Formatted, VolumeInv, NEW t \in Tasks, ReadBpb(t)
    PROVE  VolumeInv'
<1>1. /\ stage[t] = "bpb" /\ stage[t] \in Mounting /\ Inside(t) /\ UNCHANGED <<card, mounted, fno>>
  BY DEF ReadBpb, Mounting, Inside, hostVars
<1>2. /\ \A u \in Tasks \ {t} : stage[u] \in {"out", "done"}
      /\ at[t] \in Ats /\ stage[t] \in Stages(at[t])
  BY <1>1, OthersOut DEF VolumeInv
<1>3. /\ fsid \in Nat /\ vbr \in Volumes /\ card \in Volumes
      /\ mounted \in BOOLEAN /\ valid \in BOOLEAN /\ fp.fptr <= fp.size
  BY DEF VolumeInv, FsTyped, ReadInv
<1>4. win.sect # <<>> /\ win.vol \in Volumes /\ Geometry(win.vol) = Geometry(card)
  BY <1>1 DEF VolumeInv, GeometryInv, WindowInv
<1>5. ASSUME ProgramInv', DirInv', dirs' \in [{"current", "open"} -> DirObjects], fp' \in FileObjects,
             fp'.fptr = fp.fptr, fp'.size = fp.size,
             res' \in Results, btr' \in Nat, got' \in Nat,
             \A u \in Tasks \ {t} : stage'[u] = stage[u],
             stage'[t] \in {"out", "done"} \/ (stage'[t] = "find" /\ valid'),
             ~strayed', WindowInv', valid' \in BOOLEAN, fsid' \in Nat, vbr' \in Volumes,
             (Geometry(vbr) = Geometry(card))', valid' => FatHasRoom(vbr)'
      PROVE  VolumeInv'
  <2>1. FsTyped'
    BY <1>1, <1>3, <1>5 DEF FsTyped
  <2>2. GeometryInv'
    <3>1. \A u \in Tasks \ {t} : stage'[u] \in {"out", "done"}
      BY <1>2, <1>5
    <3>2. stage'[t] # "bpb" /\ (stage'[t] \in (PlayerPcs \cup ConsolePcs) \ {"done"} => valid')
      BY <1>5 DEF PlayerPcs, ConsolePcs
    <3>3. QED
      BY <1>5, <3>1, <3>2, GeometryKept
  <2>3. ReadInv'
    <3>1. stage'["player"] \notin {"cluster", "sector"}
      BY <1>2, <1>5 DEF Tasks
    <3>2. QED
      BY <1>3, <1>5, <3>1 DEF ReadInv
  <2>4. QED
    BY <1>5, <2>1, <2>2, <2>3 DEF VolumeInv
<1>6. CASE ~FatHasRoom(win.vol)
  <2>1. Refuse(t) /\ UNCHANGED <<valid, fsid, vbr, win, strayed>>
    BY <1>6 DEF ReadBpb, diskVars
  <2>2. /\ WindowInv' /\ ~strayed' /\ (Geometry(vbr) = Geometry(card))'
        /\ valid' => FatHasRoom(vbr)'
    BY <1>1, <2>1 DEF VolumeInv, GeometryInv, WindowInv
  <2>3. /\ ProgramInv' /\ DirInv'
        /\ dirs' \in [{"current", "open"} -> DirObjects] /\ fp' \in FileObjects
        /\ fp'.fptr = fp.fptr /\ fp'.size = fp.size
        /\ res' \in Results /\ btr' \in Nat /\ got' \in Nat
        /\ \A u \in Tasks \ {t} : at'[u] = at[u] /\ stage'[u] = stage[u]
        /\ stage'[t] \in {"out", "done"}
    BY <1>1, <1>3, <2>1, RefusedIs DEF VolumeInv
  <2>4. QED
    BY <1>3, <1>5, <2>1, <2>2, <2>3
<1>7. CASE FatHasRoom(win.vol)
  <2>1. PICK ok \in BOOLEAN :
           /\ Window(<<"fsinfo">>, ok)
           /\ valid' = TRUE /\ fsid' = fsid + 1 /\ vbr' = win.vol
           /\ Mounted(t, fsid + 1, win.vol)
    BY <1>7 DEF ReadBpb
  <2>2. <<"fsinfo">> # <<>> /\ OfVolume(<<"fsinfo">>)
    BY DEF OfVolume
  <2>3. ~strayed' /\ WindowInv'
    BY <1>1, <1>3, <2>1, <2>2, WindowStays DEF VolumeInv, GeometryInv
  <2>4. fsid + 1 \in Nat
    BY <1>3
  <2>5. /\ ProgramInv' /\ DirInv'
        /\ dirs' \in [{"current", "open"} -> DirObjects] /\ fp' \in FileObjects
        /\ fp'.fptr = fp.fptr /\ fp'.size = fp.size
        /\ res' \in Results /\ btr' \in Nat /\ got' \in Nat
        /\ \A u \in Tasks \ {t} : at'[u] = at[u] /\ stage'[u] = stage[u]
        /\ stage'[t] \in {"out", "done", "find"}
    BY <1>1, <1>4, <2>1, <2>4, MountedIs DEF VolumeInv
  <2>6. (Geometry(vbr) = Geometry(card))' /\ FatHasRoom(vbr)'
    BY <1>1, <1>4, <1>7, <2>1
  <2>7. QED
    BY <1>4, <1>5, <2>1, <2>3, <2>4, <2>5, <2>6
<1>8. QED
  BY <1>6, <1>7

-----------------------------------------------------------------------------
(* Directories *)

LEMMA Multiples ==
    ASSUME NEW a \in Nat, NEW b \in Nat, a <= b, NEW n \in Nat
    PROVE  a * n <= b * n
<1>1. b - a \in Nat
  OBVIOUS
<1>2. (b - a) * n >= 0 /\ b * n = a * n + (b - a) * n
  BY <1>1
<1>3. a * n \in Nat /\ b * n \in Nat /\ (b - a) * n \in Nat
  BY <1>1
<1>4. QED
  BY <1>2, <1>3

LEMMA Product ==
    ASSUME NEW a \in Nat \ {0}, NEW b \in Nat \ {0}
    PROVE  a * b \in Nat \ {0}
<1>1. 1 \in Nat /\ 1 <= a /\ a \in Nat /\ b \in Nat
  OBVIOUS
<1>2. 1 * b <= a * b
  BY <1>1, Multiples
<1>3. QED
  BY <1>1, <1>2

\* The place of an entry in its cluster.
LEMMA PlaceIs ==
    ASSUME NEW j \in Nat, NEW c \in Nat \ {0}, j < c, NEW i \in Nat, NEW n \in Nat \ {0}, i < n
    PROVE  j * n + i + 1 \in 1 .. c * n
<1>1. (j + 1) * n <= c * n
  BY Multiples
<1>2. (j + 1) * n = j * n + n /\ j * n \in Nat /\ c * n \in Nat
  OBVIOUS
<1>3. QED
  BY <1>1, <1>2

\* The entry that a directory object of the volume stands at.
LEMMA EntryIs ==
    ASSUME Formatted, NEW dp \in DirObjects, vbr \in Volumes, Standing(dp),
           NEW w, w.vol \in Volumes, Geometry(w.vol) = Geometry(vbr),
           w.sect = dp.sect
    PROVE  /\ OfVolume(dp.sect) /\ dp.sect # <<>>
           /\ LET e == NextEntry(w, dp.dptr % EntriesPerSector) IN
              e.sclust \in Nat /\ e.size \in Nat
<1> DEFINE E == EntriesPerSector
           c == Layout[vbr].csize
           k == dp.dptr \div E
<1>1. /\ E \in Nat \ {0} /\ c \in Nat \ {0} /\ dp.dptr \in Nat
      /\ c = Layout[w.vol].csize /\ Clusters(w.vol) = Clusters(vbr)
  BY SizesAre, ContentIs, GeometrySame DEF DirObjects
<1>2. dp.clust \in Clusters(vbr) /\ dp.sect = <<"data", dp.clust, k % c>>
  BY DEF Standing
<1>3. k \in Nat /\ dp.dptr % E \in 0 .. E - 1
  BY <1>1, Quotient
<1>4. k % c \in 0 .. c - 1
  BY <1>1, <1>3
<1> HIDE DEF k
<1>5. dp.sect[1] = "data" /\ dp.sect[2] = dp.clust /\ dp.sect[3] = k % c
  BY <1>2
<1>6. OfVolume(dp.sect) /\ dp.sect # <<>>
  BY <1>1, <1>2, <1>4, <1>5 DEF OfVolume, InFat
<1>7. PICK j \in 0 .. c - 1, i \in 0 .. E - 1 : j = k % c /\ i = dp.dptr % E
  BY <1>3, <1>4
<1>8. j * E + i + 1 \in 1 .. c * E
  <2>1. j \in Nat /\ i \in Nat /\ j < c /\ i < E
    BY <1>1
  <2>2. QED
    BY <1>1, <2>1, PlaceIs
<1>9. NextEntry(w, i) = Layout[w.vol].entries[dp.clust][j * E + i + 1]
  <2>1. w.sect[2] = dp.clust /\ w.sect[3] = j
    BY <1>5, <1>7
  <2>2. NextEntry(w, i) = Layout[w.vol].entries[w.sect[2]][w.sect[3] * E + i + 1]
    BY DEF NextEntry
  <2>3. QED
    BY <2>1, <2>2
<1>10. \A n \in 1 .. c * E :
          Layout[w.vol].entries[dp.clust][n].sclust \in Nat /\ Layout[w.vol].entries[dp.clust][n].size \in Nat
  BY <1>1, <1>2, ContentIs
<1>11. QED
  BY <1>6, <1>7, <1>8, <1>9, <1>10

\* The directory objects after a step that may move one of them.
LEMMA DirChanged ==
    ASSUME DirInv, fsid' = fsid, vbr' = vbr,
           \A d \in {"current", "open"} :
              \/ dirs'[d] = dirs[d] /\ (Live(d)' => Live(d))
              \/ dirs'[d].id <= fsid' /\ (Live(d)' => dirs'[d].sect = <<>> \/ Standing(dirs[d])'),
           stage'["console"] \in {"entry", "skip", "move"} =>
              dirs'["current"].open /\ dirs'["current"].id = fsid,
           stage'["player"] \in {"find", "step"} =>
              dirs'["open"].open /\ dirs'["open"].id = fsid /\ dirs'["open"].sect # <<>>
    PROVE  DirInv'
<1>1. ASSUME NEW d \in {"current", "open"}
      PROVE  /\ dirs'[d].id <= fsid'
             /\ Live(d)' /\ dirs'[d].open /\ dirs'[d].id = fsid' =>
                   dirs'[d].sect = <<>> \/ Standing(dirs[d])'
  <2>1. CASE dirs'[d] = dirs[d] /\ (Live(d)' => Live(d))
    BY <2>1 DEF DirInv, Standing
  <2>2. CASE dirs'[d].id <= fsid' /\ (Live(d)' => dirs'[d].sect = <<>> \/ Standing(dirs[d])')
    BY <2>2
  <2>3. QED
    BY <2>1, <2>2
<1>2. QED
  BY <1>1 DEF DirInv

\* f_open, at an entry.
LEMMA OpenFindKeeps ==
    ASSUME Formatted, VolumeInv, OpenFind
    PROVE  VolumeInv'
<1> DEFINE dp == dirs["open"]
<1>1. /\ stage["player"] = "find" /\ "player" \in Tasks /\ Inside("player")
      /\ UNCHANGED <<card, mounted, valid, fsid, vbr>>
  BY DEF OpenFind, Inside, Tasks, hostVars, fsVars
<1>2. /\ stage["console"] \in {"out", "done"} /\ at["player"] \in Ats
      /\ stage["player"] \in Stages(at["player"])
  BY <1>1, OthersOut DEF VolumeInv, Tasks
<1>3. at["player"] = "open"
  BY <1>1, <1>2 DEF Stages, Ats, Mounting
<1>4. /\ fsid \in Nat /\ vbr \in Volumes /\ card \in Volumes /\ dp \in DirObjects
      /\ dirs \in [{"current", "open"} -> DirObjects] /\ fp \in FileObjects
      /\ mounted \in BOOLEAN /\ valid \in BOOLEAN /\ fp.fptr <= fp.size
      /\ res \in Results /\ btr \in Nat /\ got \in Nat
  BY DEF VolumeInv, FsTyped, ReadInv
<1>5. /\ Live("open") /\ dp.open /\ dp.id = fsid /\ dp.sect # <<>>
  BY <1>1 DEF VolumeInv, DirInv, Live
<1>6. Standing(dp)
  BY <1>5 DEF VolumeInv, DirInv
<1>7. /\ Geometry(vbr) = Geometry(card) /\ WindowInv /\ valid /\ FatHasRoom(vbr)
  BY <1>1, <1>2 DEF VolumeInv, GeometryInv, PlayerPcs
<1>8. OfVolume(dp.sect)
  <2>1. [sect |-> dp.sect, vol |-> vbr].sect = dp.sect /\ [sect |-> dp.sect, vol |-> vbr].vol = vbr
    OBVIOUS
  <2>2. QED
    BY <1>4, <1>6, <2>1, EntryIs
<1> DEFINE e == NextEntry(win', dp.dptr % EntriesPerSector)
           fail(r) == Return("player", r) /\ fp' = [fp EXCEPT !.open = FALSE]
<1>9. PICK ok \in BOOLEAN :
         /\ Window(dp.sect, ok)
         /\ \/ \E r \in {"error", "nofile"} : fail(r)
            \/ Proceed("player", "step") /\ Stay /\ UNCHANGED fp
            \/ /\ ok
               /\ fp' = [NoFile EXCEPT !.open = TRUE, !.id = fsid, !.sclust = e.sclust,
                                           !.size = e.size]
               /\ Return("player", "ok")
         /\ dirs' = IF stage'["player"] = "step" THEN dirs ELSE [dirs EXCEPT !["open"] = NoDir]
  BY DEF OpenFind
<1> HIDE DEF e, fail
<1>10. /\ ~strayed' /\ WindowInv'
       /\ ok => win'.sect = dp.sect /\ win'.vol \in Volumes
                /\ Geometry(win'.vol) = Geometry(card)
  BY <1>1, <1>4, <1>5, <1>7, <1>8, <1>9, WindowStays DEF VolumeInv
<1>11. ok => e.sclust \in Nat /\ e.size \in Nat
  BY <1>4, <1>6, <1>7, <1>10, EntryIs DEF e
<1>12. ASSUME ProgramInv', fp' \in FileObjects, fp'.fptr <= fp'.size,
              res' \in Results, btr' \in Nat, got' \in Nat,
              stage'["player"] \in {"out", "step"}, at'["console"] = at["console"],
              stage'["console"] = stage["console"], at["console"] # "idle" => res' = res
       PROVE  VolumeInv'
  <2>1. /\ NoDir \in DirObjects /\ NoDir.id = 0
    BY DEF NoDir, DirObjects, Sectors, Null
  <2>2. /\ dirs' \in [{"current", "open"} -> DirObjects] /\ dirs'["current"] = dirs["current"]
        /\ stage'["player"] = "step" => dirs'["open"] = dp
        /\ stage'["player"] = "out" => dirs'["open"].id = 0
    BY <1>4, <1>9, <1>12, <2>1
  <2>3. FsTyped'
    BY <1>1, <1>4, <1>12, <2>2 DEF FsTyped
  <2>4. GeometryInv'
    <3>1. \A u \in Tasks \ {"player"} : stage'[u] \in {"out", "done"}
      BY <1>2, <1>12 DEF Tasks
    <3>2. (Geometry(vbr) = Geometry(card))' /\ FatHasRoom(vbr)' /\ valid'
      BY <1>1, <1>7
    <3>3. stage'["player"] # "bpb"
      BY <1>12
    <3>4. QED
      BY <1>1, <1>10, <3>1, <3>2, <3>3, GeometryKept
  <2>5. DirInv'
    <3>1. Live("current")' => Live("current")
      <4>1. Live("current")' => at["console"] \in {"readdir", "ls_opendir"}
        BY <1>12 DEF Live
      <4>2. QED
        BY <1>12, <4>1 DEF Live
    <3>2. CASE stage'["player"] = "step"
      BY <1>1, <1>2, <1>5, <1>12, <2>2, <3>1, <3>2, DirChanged DEF VolumeInv, Live
    <3>3. CASE stage'["player"] = "out"
      <4>1. ~Live("open")' /\ 0 <= fsid'
        BY <1>1, <1>4, <3>3 DEF Live
      <4>2. QED
        BY <1>1, <1>2, <1>12, <2>2, <3>1, <3>3, <4>1, DirChanged DEF VolumeInv
    <3>4. QED
      BY <1>12, <3>2, <3>3
  <2>6. ReadInv'
    BY <1>12 DEF ReadInv
  <2>7. QED
    BY <1>10, <1>12, <2>3, <2>4, <2>5, <2>6 DEF VolumeInv
<1>13. ASSUME NEW r \in Results, Return("player", r)
       PROVE  /\ ProgramInv' /\ res' = res /\ res' \in Results /\ btr' \in Nat /\ got' \in Nat
              /\ stage'["player"] = "out" /\ at'["console"] = at["console"]
              /\ stage'["console"] = stage["console"]
  BY <1>1, <1>3, <1>13, Returned DEF VolumeInv, Tasks
<1>14. CASE \E r \in {"error", "nofile"} : fail(r)
  <2>1. PICK r \in {"error", "nofile"} : Return("player", r) /\ fp' = [fp EXCEPT !.open = FALSE]
    BY <1>14 DEF fail
  <2>2. r \in Results
    BY DEF Results
  <2>3. fp' \in FileObjects /\ fp'.fptr <= fp'.size
    BY <1>4, <2>1 DEF FileObjects
  <2>4. QED
    BY <1>12, <1>13, <2>1, <2>2, <2>3
<1>15. CASE Proceed("player", "step") /\ Stay /\ UNCHANGED fp
  <2>1. UNCHANGED <<res, at, btr, got, fp>>
    BY <1>15 DEF Stay
  <2>2. "step" \in Pcs /\ "step" \in Stages(at["player"])
    BY <1>3 DEF Pcs, PlayerPcs, Stages
  <2>3. ProgramInv' /\ stage'["player"] = "step" /\ stage'["console"] = stage["console"]
    BY <1>1, <1>15, <2>1, <2>2, Went DEF VolumeInv, Tasks
  <2>4. QED
    BY <1>4, <1>12, <2>1, <2>3
<1>16. CASE /\ ok
            /\ fp' = [NoFile EXCEPT !.open = TRUE, !.id = fsid, !.sclust = e.sclust,
                                        !.size = e.size]
            /\ Return("player", "ok")
  <2>1. fp' \in FileObjects /\ fp'.fptr = 0 /\ fp'.size = e.size
    BY <1>4, <1>11, <1>16 DEF FileObjects, NoFile
  <2>2. "ok" \in Results /\ 0 <= e.size
    BY <1>11, <1>16 DEF Results
  <2>3. QED
    BY <1>12, <1>13, <1>16, <2>1, <2>2
<1>17. QED
  BY <1>9, <1>14, <1>15, <1>16

\* f_open, behind an entry.
LEMMA OpenNextKeeps ==
    ASSUME Formatted, VolumeInv, OpenNext
    PROVE  VolumeInv'
<1> DEFINE dp == dirs["open"]
<1>1. /\ stage["player"] = "step" /\ "player" \in Tasks /\ Inside("player")
      /\ UNCHANGED <<card, mounted, valid, fsid, vbr>>
  BY DEF OpenNext, Inside, Tasks, hostVars, fsVars
<1>2. /\ stage["console"] \in {"out", "done"} /\ at["player"] \in Ats
      /\ stage["player"] \in Stages(at["player"])
  BY <1>1, OthersOut DEF VolumeInv, Tasks
<1>3. at["player"] = "open"
  BY <1>1, <1>2 DEF Stages, Ats, Mounting
<1>4. /\ fsid \in Nat /\ vbr \in Volumes /\ card \in Volumes
      /\ dirs \in [{"current", "open"} -> DirObjects] /\ fp \in FileObjects
      /\ mounted \in BOOLEAN /\ valid \in BOOLEAN /\ fp.fptr <= fp.size
      /\ res \in Results /\ btr \in Nat /\ got \in Nat
  BY DEF VolumeInv, FsTyped, ReadInv
<1>5. /\ Live("open") /\ dp.open /\ dp.id = fsid /\ dp.sect # <<>> /\ Standing(dp)
  BY <1>1 DEF VolumeInv, DirInv, Live
<1>6. /\ Geometry(vbr) = Geometry(card) /\ WindowInv /\ valid /\ FatHasRoom(vbr)
  BY <1>1 DEF VolumeInv, GeometryInv, PlayerPcs
<1>7. PICK r \in Results :
         /\ DirNext("open", r)
         /\ IF r = "ok" THEN Proceed("player", "find") /\ Stay /\ UNCHANGED fp
            ELSE Return("player", r) /\ fp' = [fp EXCEPT !.open = FALSE]
  BY DEF OpenNext
<1>8. /\ ~strayed' /\ WindowInv'
      /\ dirs' \in [{"current", "open"} -> DirObjects]
      /\ dirs'["current"] = dirs["current"]
      /\ dirs'["open"].open = dp.open /\ dirs'["open"].id = dp.id
      /\ r = "ok" => dirs'["open"].sect # <<>> /\ Standing(dirs["open"])'
  BY <1>1, <1>5, <1>6, <1>7, NextStays DEF VolumeInv
<1>9. ASSUME ProgramInv', fp' \in FileObjects, fp'.fptr = fp.fptr, fp'.size = fp.size,
             res' = res, btr' \in Nat, got' \in Nat,
             stage'["player"] = IF r = "ok" THEN "find" ELSE "out", at'["console"] = at["console"],
             stage'["console"] = stage["console"]
      PROVE  VolumeInv'
  <2>1. FsTyped'
    BY <1>1, <1>4, <1>8, <1>9 DEF FsTyped
  <2>2. GeometryInv'
    <3>1. \A u \in Tasks \ {"player"} : stage'[u] \in {"out", "done"}
      BY <1>2, <1>9 DEF Tasks
    <3>2. (Geometry(vbr) = Geometry(card))' /\ FatHasRoom(vbr)' /\ valid'
      BY <1>1, <1>6
    <3>3. stage'["player"] # "bpb"
      BY <1>9
    <3>4. QED
      BY <1>1, <1>8, <3>1, <3>2, <3>3, GeometryKept
  <2>3. DirInv'
    <3>1. Live("current")' => Live("current")
      BY <1>9 DEF Live
    <3>2. Live("open")' => Standing(dirs["open"])'
      BY <1>8, <1>9 DEF Live
    <3>3. dirs'["open"].id <= fsid'
      BY <1>1, <1>4, <1>5, <1>8
    <3>4. stage'["player"] \in {"find", "step"} =>
             dirs'["open"].open /\ dirs'["open"].id = fsid /\ dirs'["open"].sect # <<>>
      BY <1>5, <1>8, <1>9
    <3>5. QED
      BY <1>1, <1>2, <1>8, <1>9, <3>1, <3>2, <3>3, <3>4, DirChanged DEF VolumeInv
  <2>4. ReadInv'
    BY <1>4, <1>9 DEF ReadInv
  <2>5. QED
    BY <1>8, <1>9, <2>1, <2>2, <2>3, <2>4 DEF VolumeInv
<1>10. CASE r = "ok"
  <2>1. Proceed("player", "find") /\ UNCHANGED <<res, at, btr, got, fp>>
    BY <1>7, <1>10 DEF Stay
  <2>2. "find" \in Pcs /\ "find" \in Stages(at["player"])
    BY <1>3 DEF Pcs, PlayerPcs, Stages
  <2>3. ProgramInv' /\ stage'["player"] = "find" /\ stage'["console"] = stage["console"]
    BY <1>1, <2>1, <2>2, Went DEF VolumeInv, Tasks
  <2>4. QED
    BY <1>4, <1>9, <1>10, <2>1, <2>3
<1>11. CASE r # "ok"
  <2>1. Return("player", r) /\ fp' = [fp EXCEPT !.open = FALSE]
    BY <1>7, <1>11
  <2>2. /\ ProgramInv' /\ res' = res /\ btr' \in Nat /\ got' \in Nat
        /\ stage'["player"] = "out" /\ at'["console"] = at["console"]
        /\ stage'["console"] = stage["console"]
    BY <1>1, <1>3, <2>1, Returned DEF VolumeInv, Tasks
  <2>3. fp' \in FileObjects /\ fp'.fptr = fp.fptr /\ fp'.size = fp.size
    BY <1>4, <2>1 DEF FileObjects
  <2>4. QED
    BY <1>9, <1>11, <2>2, <2>3
<1>12. QED
  BY <1>10, <1>11

\* A step of f_readdir that leaves the volume and the object of f_open alone.
LEMMA ListKeeps ==
    ASSUME VolumeInv, Inside("console"), stage["console"] \notin {"mount", "boot", "partition", "bpb"},
           UNCHANGED <<card, mounted, valid, fsid, vbr, fp, btr, got>>, ~strayed', WindowInv',
           dirs' \in [{"current", "open"} -> DirObjects], dirs'["open"] = dirs["open"],
           dirs'["current"].id = dirs["current"].id,
           dirs'["current"].open = dirs["current"].open,
           NEW r \in Results, NEW p \in {"done", "entry", "skip", "move"},
           IF p = "done" THEN Return("console", r) ELSE Proceed("console", p) /\ Stay,
           p # "done" => valid /\ dirs["current"].open /\ dirs["current"].id = fsid,
           p # "done" \/ r = "ok" => dirs'["current"].sect = <<>> \/ Standing(dirs["current"])'
                                     \/ ~dirs["current"].open \/ dirs["current"].id # fsid
    PROVE  VolumeInv'
<1>1. /\ stage["player"] \in {"out", "done"} /\ at["console"] \in Ats /\ "console" \in Tasks
      /\ stage["console"] \in Stages(at["console"])
  BY OthersOut DEF VolumeInv, Tasks
<1>2. at["console"] = "readdir"
  <2>1. at["console"] \notin {"open", "header", "loop", "unmount"} /\ stage["console"] \notin {"out", "done"}
    BY DEF VolumeInv, ProgramInv, Inside
  <2>2. QED
    BY <1>1, <2>1 DEF Stages, Ats, Mounting
<1>3. /\ ProgramInv' /\ at'["console"] = "readdir" /\ stage'["console"] = p
      /\ stage'["player"] = stage["player"] /\ at'["player"] = at["player"]
      /\ res' \in Results /\ (p = "done" => res' = r) /\ btr' \in Nat /\ got' \in Nat
  <2>1. CASE p = "done"
    BY <1>1, <1>2, <2>1, Returned DEF VolumeInv, Tasks
  <2>2. CASE p # "done"
    <3>1. Proceed("console", p) /\ UNCHANGED <<res, at, btr, got>>
      BY <2>2 DEF Stay
    <3>2. p \in Pcs /\ p \in Stages(at["console"])
      BY <1>2 DEF Pcs, ConsolePcs, Stages
    <3>3. ProgramInv' /\ stage'["console"] = p /\ stage'["player"] = stage["player"]
      BY <1>1, <3>1, <3>2, Went DEF VolumeInv, Tasks
    <3>4. QED
      BY <1>2, <2>2, <3>1, <3>3 DEF VolumeInv, FsTyped
  <2>3. QED
    BY <2>1, <2>2
<1>4. FsTyped'
  BY <1>3 DEF VolumeInv, FsTyped
<1>5. GeometryInv'
  <2>1. \A u \in Tasks \ {"console"} : stage'[u] \in {"out", "done"}
    BY <1>1, <1>3 DEF Tasks
  <2>2. /\ (Geometry(vbr) = Geometry(card))' /\ (valid' => FatHasRoom(vbr)')
    BY DEF VolumeInv, GeometryInv
  <2>3. stage'["console"] # "bpb" /\ (stage'["console"] \in (PlayerPcs \cup ConsolePcs) \ {"done"} => valid')
    BY <1>3
  <2>4. QED
    BY <1>1, <2>1, <2>2, <2>3, GeometryKept
<1>6. DirInv'
  <2>1. ~Live("open")' /\ stage'["player"] \notin {"find", "step"}
    BY <1>1, <1>3 DEF Live
  <2>2. Live("current")' => p # "done" \/ r = "ok"
    BY <1>3 DEF Live
  <2>3. /\ \A d \in {"current", "open"} : dirs'[d].id <= fsid'
        /\ stage'["console"] \in {"entry", "skip", "move"} =>
              dirs'["current"].open /\ dirs'["current"].id = fsid
    BY <1>3 DEF VolumeInv, DirInv
  <2>4. Live("current")' /\ dirs'["current"].open /\ dirs'["current"].id = fsid' =>
           dirs'["current"].sect = <<>> \/ Standing(dirs["current"])'
    BY <2>2
  <2>5. QED
    BY <2>1, <2>3, <2>4 DEF DirInv
<1>7. ReadInv'
  BY <1>1, <1>3 DEF VolumeInv, ReadInv
<1>8. QED
  BY <1>3, <1>4, <1>5, <1>6, <1>7 DEF VolumeInv

\* f_readdir begins.
LEMMA ReaddirStartKeeps ==
    ASSUME Formatted, VolumeInv, ReaddirStart
    PROVE  VolumeInv'
<1> DEFINE dp == dirs["current"]
<1>1. PICK ok \in BOOLEAN :
         /\ stage["console"] = "validate" /\ Validate(dp, ok)
         /\ IF ok THEN Proceed("console", "entry") /\ Stay ELSE Return("console", "error")
  BY DEF ReaddirStart
<1>2. UNCHANGED <<card, mounted, valid, fsid, vbr, win, dirs, fp>> /\ Inside("console")
  BY <1>1 DEF ReaddirStart, hostVars, fsVars, Inside
<1>3. /\ ~strayed' /\ (ok => valid /\ dp.open /\ dp.id = fsid)
  BY <1>1 DEF Validate, Disk, diskVars, VolumeInv
<1>4. WindowInv' /\ dirs' \in [{"current", "open"} -> DirObjects]
  BY <1>2 DEF VolumeInv, GeometryInv, WindowInv, FsTyped
<1>5. at["console"] = "readdir"
  BY <1>1 DEF VolumeInv, ProgramInv, Stages, Ats, Mounting, Tasks
<1>6. Live("current")
  BY <1>1, <1>5 DEF Live
<1>7. dp.open /\ dp.id = fsid => dirs'["current"].sect = <<>> \/ Standing(dirs["current"])'
  BY <1>2, <1>6 DEF VolumeInv, DirInv, Standing
<1>8. UNCHANGED <<btr, got>>
  BY <1>1 DEF Stay, Return
<1>9. "error" \in Results
  BY DEF Results
<1>10. CASE ok
  BY <1>1, <1>2, <1>3, <1>4, <1>7, <1>8, <1>9, <1>10, ListKeeps
<1>11. CASE ~ok
  BY <1>1, <1>2, <1>3, <1>4, <1>7, <1>8, <1>9, <1>11, ListKeeps
<1>12. QED
  BY <1>10, <1>11

\* What dir_read and dir_next of f_readdir start from.
LEMMA ReadingIs ==
    ASSUME VolumeInv, stage["console"] \in {"entry", "skip", "move"}
    PROVE  LET dp == dirs["current"] IN
           /\ dp \in DirObjects /\ dp.open /\ dp.id = fsid
           /\ dp.sect = <<>> \/ Standing(dp)
           /\ valid /\ FatHasRoom(vbr) /\ Geometry(vbr) = Geometry(card) /\ WindowInv
           /\ Inside("console") /\ at["console"] = "readdir" /\ ~strayed
           /\ card \in Volumes /\ vbr \in Volumes
           /\ dirs \in [{"current", "open"} -> DirObjects]
<1>1. Inside("console") /\ "console" \in Tasks
  BY DEF Inside, Tasks
<1>2. at["console"] = "readdir"
  BY <1>1 DEF VolumeInv, ProgramInv, Stages, Ats, Mounting, Tasks
<1>3. Live("current") /\ dirs["current"].open /\ dirs["current"].id = fsid
  BY <1>2 DEF Live, VolumeInv, DirInv
<1>4. dirs["current"].sect = <<>> \/ Standing(dirs["current"])
  BY <1>3 DEF VolumeInv, DirInv
<1>5. valid /\ FatHasRoom(vbr) /\ Geometry(vbr) = Geometry(card) /\ WindowInv
  BY <1>1 DEF VolumeInv, GeometryInv, ConsolePcs
<1>6. QED
  BY <1>1, <1>2, <1>3, <1>4, <1>5 DEF VolumeInv, FsTyped

\* dir_read, at an entry.
LEMMA ReaddirEntryKeeps ==
    ASSUME Formatted, VolumeInv, ReaddirEntry
    PROVE  VolumeInv'
<1> DEFINE dp == dirs["current"]
           close == dirs' = [dirs EXCEPT !["current"].sect = <<>>]
<1>1. /\ stage["console"] = "entry"
      /\ UNCHANGED <<card, mounted, valid, fsid, vbr, fp, btr, got>>
  BY DEF ReaddirEntry, hostVars, fsVars, readVars
<1>2. /\ dp \in DirObjects /\ dp.open /\ dp.id = fsid
      /\ dp.sect = <<>> \/ Standing(dp)
      /\ valid /\ FatHasRoom(vbr) /\ Geometry(vbr) = Geometry(card) /\ WindowInv
      /\ Inside("console") /\ ~strayed
      /\ card \in Volumes /\ vbr \in Volumes
      /\ dirs \in [{"current", "open"} -> DirObjects]
  BY <1>1, ReadingIs
<1>3. "ok" \in Results /\ "error" \in Results /\ <<>> \in Sectors
  BY DEF Results, Sectors
<1>4. CASE dp.sect = <<>>
  <2>1. Return("console", "ok") /\ UNCHANGED <<win, dirs, strayed>>
    BY <1>4 DEF ReaddirEntry, Null, diskVars
  <2>2. WindowInv'
    BY <1>1, <1>2, <2>1 DEF WindowInv
  <2>3. QED
    BY <1>1, <1>2, <1>3, <1>4, <2>1, <2>2, ListKeeps
<1>5. CASE dp.sect # <<>>
  <2>1. PICK ok \in BOOLEAN :
           /\ Window(dp.sect, ok)
           /\ \/ close /\ \E r \in {"ok", "error"} : Return("console", r)
              \/ /\ dirs' = dirs
                 /\ \E p \in {"skip", "move"} : Proceed("console", p) /\ Stay
    BY <1>5 DEF ReaddirEntry, Null
  <2>2. OfVolume(dp.sect)
    <3>1. [sect |-> dp.sect, vol |-> vbr].sect = dp.sect /\ [sect |-> dp.sect, vol |-> vbr].vol = vbr
      OBVIOUS
    <3>2. QED
      BY <1>2, <1>5, <3>1, EntryIs
  <2>3. ~strayed' /\ WindowInv'
    BY <1>1, <1>2, <1>5, <2>1, <2>2, WindowStays
  <2>4. CASE close /\ \E r \in {"ok", "error"} : Return("console", r)
    <3>1. PICK r \in {"ok", "error"} : Return("console", r)
      BY <2>4
    <3>2. Put("current", <<>>, dp.dptr, dp.clust)
      BY <1>2, <2>4 DEF Put, DirObjects
    <3>3. dp.dptr \in Nat /\ dp.clust \in Nat
      BY <1>2 DEF DirObjects
    <3>4. /\ dirs' \in [{"current", "open"} -> DirObjects]
          /\ dirs'["current"].sect = <<>> /\ dirs'["open"] = dirs["open"]
          /\ dirs'["current"].open = dp.open /\ dirs'["current"].id = dp.id
      BY <1>3, <3>2, <3>3, PutIs DEF VolumeInv
    <3>5. r \in Results
      BY <1>3, <3>1
    <3>6. QED
      BY <1>1, <1>2, <2>3, <3>1, <3>4, <3>5, ListKeeps
  <2>5. CASE dirs' = dirs /\ \E p \in {"skip", "move"} : Proceed("console", p) /\ Stay
    <3>1. PICK p \in {"skip", "move"} : Proceed("console", p) /\ Stay
      BY <2>5
    <3>2. dirs'["current"].sect = <<>> \/ Standing(dirs["current"])'
      BY <1>1, <1>2, <2>5 DEF Standing
    <3>3. p \in {"done", "entry", "skip", "move"} /\ p # "done"
      BY <3>1
    <3>4. QED
      BY <1>1, <1>2, <1>3, <2>3, <2>5, <3>1, <3>2, <3>3, ListKeeps
  <2>6. QED
    BY <2>1, <2>4, <2>5
<1>6. QED
  BY <1>4, <1>5

\* dir_next, of f_readdir.
LEMMA ReaddirNextKeeps ==
    ASSUME Formatted, VolumeInv, ReaddirNext
    PROVE  VolumeInv'
<1> DEFINE dp == dirs["current"]
<1>1. /\ stage["console"] \in {"skip", "move"}
      /\ UNCHANGED <<card, mounted, valid, fsid, vbr, fp, btr, got>>
  BY DEF ReaddirNext, hostVars, fsVars, readVars
<1>2. /\ dp \in DirObjects /\ dp.open /\ dp.id = fsid
      /\ dp.sect = <<>> \/ Standing(dp)
      /\ valid /\ FatHasRoom(vbr) /\ Geometry(vbr) = Geometry(card) /\ WindowInv
      /\ Inside("console") /\ ~strayed
      /\ card \in Volumes /\ vbr \in Volumes
  BY <1>1, ReadingIs
<1>3. PICK r \in Results :
         /\ DirNext("current", r)
         /\ \/ r = "ok" /\ Proceed("console", "entry") /\ Stay
            \/ r # "error" /\ Return("console", "ok")
            \/ Return("console", "error")
  BY DEF ReaddirNext
<1>4. /\ ~strayed' /\ WindowInv'
      /\ dirs' \in [{"current", "open"} -> DirObjects]
      /\ dirs'["open"] = dirs["open"]
      /\ dirs'["current"].open = dp.open /\ dirs'["current"].id = dp.id
      /\ r # "error" => dirs'["current"].sect = <<>> \/ Standing(dirs["current"])'
  <2>1. /\ ~strayed' /\ WindowInv'
        /\ dirs' \in [{"current", "open"} -> DirObjects]
        /\ dirs'["open"] = dirs["open"]
        /\ dirs'["current"].open = dp.open /\ dirs'["current"].id = dp.id
        /\ r = "ok" => Standing(dirs["current"])'
        /\ r = "nofile" => dirs'["current"].sect = <<>>
    BY <1>1, <1>2, <1>3, NextStays DEF VolumeInv
  <2>2. QED
    BY <1>3, <2>1 DEF Results
<1>5. "ok" \in Results /\ "error" \in Results
  BY DEF Results
<1>6. CASE r = "ok" /\ Proceed("console", "entry") /\ Stay
  BY <1>1, <1>2, <1>4, <1>5, <1>6, ListKeeps
<1>7. CASE r # "error" /\ Return("console", "ok")
  BY <1>1, <1>2, <1>4, <1>5, <1>7, ListKeeps
<1>8. CASE Return("console", "error")
  BY <1>1, <1>2, <1>4, <1>5, <1>8, ListKeeps
<1>9. QED
  BY <1>3, <1>6, <1>7, <1>8

-----------------------------------------------------------------------------
(* f_read *)

\* A step of f_read.
LEMMA PlayKeeps ==
    ASSUME VolumeInv, stage["player"] \in {"validate", "cluster", "sector"},
           UNCHANGED <<card, mounted, valid, fsid, vbr, dirs>>, ~strayed', WindowInv',
           fp' \in FileObjects, fp'.fptr <= fp'.size,
           NEW r \in Results, NEW p \in {"out", "cluster", "sector"},
           IF p = "out" THEN Return("player", r)
           ELSE Proceed("player", p) /\ UNCHANGED <<res, at>> /\ btr' \in Nat /\ got' \in Nat,
           p # "out" => valid /\ fp'.fptr + btr' <= fp'.size
    PROVE  VolumeInv'
<1>1. /\ stage["console"] \in {"out", "done"} /\ at["player"] \in Ats /\ "player" \in Tasks
      /\ stage["player"] \in Stages(at["player"]) /\ Inside("player")
  <2>1. "player" \in Tasks /\ "console" \in Tasks \ {"player"} /\ Inside("player")
    BY DEF Tasks, Inside
  <2>2. QED
    BY <2>1, OthersOut DEF VolumeInv
<1>2. at["player"] \in {"header", "loop"}
  <2>1. at["player"] \notin {"ls_opendir", "readdir", "listed"}
    BY DEF VolumeInv, ProgramInv
  <2>2. QED
    BY <1>1, <2>1 DEF Stages, Ats, Mounting
<1>3. /\ ProgramInv' /\ stage'["player"] = p /\ stage'["console"] = stage["console"]
      /\ at'["console"] = at["console"] /\ res' = res /\ btr' \in Nat /\ got' \in Nat
  <2>1. CASE p = "out"
    BY <1>1, <1>2, <2>1, Returned DEF VolumeInv, Tasks
  <2>2. CASE p # "out"
    <3>1. Proceed("player", p) /\ UNCHANGED <<res, at>> /\ btr' \in Nat /\ got' \in Nat
      BY <2>2
    <3>2. p \in Pcs /\ p \in Stages(at["player"])
      BY <1>2 DEF Pcs, PlayerPcs, Stages
    <3>3. ProgramInv' /\ stage'["player"] = p /\ stage'["console"] = stage["console"]
      BY <1>1, <3>1, <3>2, Went DEF VolumeInv, Tasks
    <3>4. QED
      BY <3>1, <3>3
  <2>3. QED
    BY <2>1, <2>2
<1>4. FsTyped'
  BY <1>3 DEF VolumeInv, FsTyped
<1>5. GeometryInv'
  <2>1. \A u \in Tasks \ {"player"} : stage'[u] \in {"out", "done"}
    BY <1>1, <1>3 DEF Tasks
  <2>2. /\ (Geometry(vbr) = Geometry(card))' /\ (valid' => FatHasRoom(vbr)')
    BY DEF VolumeInv, GeometryInv
  <2>3. stage'["player"] # "bpb" /\ (stage'["player"] \in (PlayerPcs \cup ConsolePcs) \ {"done"} => valid')
    BY <1>3 DEF PlayerPcs, ConsolePcs
  <2>4. QED
    BY <1>1, <2>1, <2>2, <2>3, GeometryKept
<1>6. DirInv'
  <2>1. ~Live("open")' /\ stage'["player"] \notin {"find", "step"}
    BY <1>3 DEF Live
  <2>2. Live("current")' => Live("current")
    BY <1>3 DEF Live
  <2>3. QED
    BY <1>1, <1>3, <2>1, <2>2, DirKept DEF VolumeInv
<1>7. ReadInv'
  BY <1>3 DEF ReadInv
<1>8. QED
  BY <1>3, <1>4, <1>5, <1>6, <1>7 DEF VolumeInv

LEMMA ReadStartKeeps ==
    ASSUME Formatted, VolumeInv, ReadStart
    PROVE  VolumeInv'
<1>1. PICK ok \in BOOLEAN :
         /\ stage["player"] = "validate" /\ Validate(fp, ok)
         /\ IF ok /\ ~fp.err
            THEN /\ Proceed("player", "cluster") /\ btr' = MinOf(Btr, fp.size - fp.fptr)
                 /\ UNCHANGED <<res, at, got>>
            ELSE Return("player", "error")
  BY DEF ReadStart
<1>2. UNCHANGED <<card, mounted, valid, fsid, vbr, win, dirs, fp>>
  BY DEF ReadStart, hostVars, fsVars
<1>3. /\ ~strayed' /\ (ok => valid)
  BY <1>1 DEF Validate, Disk, diskVars, VolumeInv
<1>4. /\ WindowInv' /\ fp' \in FileObjects /\ fp'.fptr <= fp'.size
      /\ fp.fptr \in Nat /\ fp.size \in Nat /\ got \in Nat
  BY <1>2 DEF VolumeInv, GeometryInv, WindowInv, FsTyped, ReadInv, FileObjects
<1>5. "error" \in Results
  BY DEF Results
<1>6. CASE ok /\ ~fp.err
  <2>1. btr' \in Nat /\ fp.fptr + btr' <= fp.size
    BY <1>1, <1>2, <1>4, <1>6, SizesAre DEF MinOf
  <2>2. /\ Proceed("player", "cluster") /\ UNCHANGED <<res, at>> /\ got' \in Nat
    BY <1>1, <1>4, <1>6
  <2>3. QED
    BY <1>1, <1>2, <1>3, <1>4, <1>5, <1>6, <2>1, <2>2, PlayKeeps
<1>7. CASE ~(ok /\ ~fp.err)
  BY <1>1, <1>2, <1>3, <1>4, <1>5, <1>7, PlayKeeps
<1>8. QED
  BY <1>6, <1>7

LEMMA ReadClusterKeeps ==
    ASSUME Formatted, VolumeInv, ReadCluster
    PROVE  VolumeInv'
<1>1. stage["player"] = "cluster" /\ UNCHANGED <<card, mounted, valid, fsid, vbr, dirs>>
  BY DEF ReadCluster, hostVars, fsVars
<1>2. /\ fp \in FileObjects /\ fp.fptr <= fp.size /\ btr \in Nat /\ got \in Nat
      /\ fp.fptr + btr <= fp.size /\ fp.clust \in Nat /\ fp.sclust \in Nat
  BY <1>1 DEF VolumeInv, FsTyped, ReadInv, FileObjects
<1>3. valid /\ WindowInv /\ FatHasRoom(vbr) /\ Geometry(vbr) = Geometry(card)
  BY <1>1 DEF VolumeInv, GeometryInv, PlayerPcs, Tasks
<1>4. "ok" \in Results /\ "error" \in Results
  BY DEF Results
<1>5. CASE btr = 0
  <2>1. Return("player", "ok") /\ UNCHANGED <<fp, win, strayed>>
    BY <1>5 DEF ReadCluster, diskVars
  <2>2. WindowInv' /\ ~strayed'
    BY <1>1, <1>3, <2>1 DEF WindowInv, VolumeInv
  <2>3. QED
    BY <1>1, <1>2, <1>4, <2>1, <2>2, PlayKeeps
<1>6. CASE btr # 0
  <2>1. PICK val :
           /\ \/ GetFat(fp.clust, val)
              \/ val \in {fp.sclust, fp.clust} /\ UNCHANGED <<win, diskVars>>
           /\ IF val < 2 THEN Return("player", "error") /\ fp' = [fp EXCEPT !.err = TRUE]
              ELSE Proceed("player", "sector") /\ Stay /\ fp' = [fp EXCEPT !.clust = val]
    BY <1>6 DEF ReadCluster
  <2>2. ~strayed' /\ WindowInv' /\ val \in Nat \cup {-1}
    <3>1. CASE GetFat(fp.clust, val)
      BY <1>1, <1>3, <3>1, FatStays DEF VolumeInv
    <3>2. CASE val \in {fp.sclust, fp.clust} /\ UNCHANGED <<win, diskVars>>
      BY <1>1, <1>2, <1>3, <3>2 DEF diskVars, VolumeInv, WindowInv
    <3>3. QED
      BY <2>1, <3>1, <3>2
  <2>3. CASE val < 2
    <3>1. Return("player", "error") /\ fp' = [fp EXCEPT !.err = TRUE]
      BY <2>1, <2>3
    <3>2. fp' \in FileObjects /\ fp'.fptr <= fp'.size
      BY <1>2, <3>1 DEF FileObjects
    <3>3. QED
      BY <1>1, <1>4, <2>2, <3>1, <3>2, PlayKeeps
  <2>4. CASE ~(val < 2)
    <3>1. /\ Proceed("player", "sector") /\ UNCHANGED <<res, at, btr, got>>
          /\ fp' = [fp EXCEPT !.clust = val] /\ val \in Nat
      BY <2>1, <2>2, <2>4 DEF Stay
    <3>2. fp' \in FileObjects /\ fp'.fptr = fp.fptr /\ fp'.size = fp.size
      BY <1>2, <3>1 DEF FileObjects
    <3>3. btr' \in Nat /\ got' \in Nat /\ fp'.fptr <= fp'.size /\ fp'.fptr + btr' <= fp'.size
      BY <1>2, <3>1, <3>2
    <3>4. QED
      BY <1>1, <1>3, <1>4, <2>2, <3>1, <3>2, <3>3, PlayKeeps
  <2>5. QED
    BY <2>3, <2>4
<1>7. QED
  BY <1>5, <1>6

\* The sectors a read takes are sectors of the cluster, and what it takes is no
\* more than it was asked for.
LEMMA ClippedIs ==
    ASSUME Formatted, FsTyped, NEW whole \in Nat, whole > 0, whole = btr \div SectorSize,
           NEW csect \in Nat, csect < Layout[vbr].csize
    PROVE  LET cc == Clipped(whole, csect) IN
           /\ cc \in Nat /\ cc > 0 /\ cc <= whole /\ csect + cc <= Layout[vbr].csize
           /\ cc * SectorSize \in Nat /\ cc * SectorSize > 0 /\ cc * SectorSize <= btr
<1> DEFINE cc == Clipped(whole, csect)
<1>1. Layout[vbr].csize \in Nat /\ SectorSize \in Nat \ {0} /\ btr \in Nat
  BY ContentIs, SizesAre DEF FsTyped
<1>2. cc \in Nat /\ cc > 0 /\ cc <= whole /\ csect + cc <= Layout[vbr].csize
  BY <1>1 DEF Clipped, MinOf
<1> HIDE DEF cc
<1>3. cc * SectorSize <= whole * SectorSize
  BY <1>1, <1>2, Multiples
<1>4. PICK q \in Nat, m \in 0 .. SectorSize - 1 : btr \div SectorSize = q /\ btr = SectorSize * q + m
  BY <1>1, Quotient
<1>5. whole * SectorSize <= btr
  <2>1. whole = q
    BY <1>4
  <2>2. SectorSize * q \in Nat /\ q * SectorSize = SectorSize * q
    BY <1>1
  <2>3. QED
    BY <1>1, <1>4, <2>1, <2>2
<1>6. cc * SectorSize > 0 /\ cc * SectorSize \in Nat
  <2>1. 1 * SectorSize <= cc * SectorSize
    BY <1>1, <1>2, Multiples
  <2>2. QED
    BY <1>1, <1>2, <2>1
<1>7. whole * SectorSize \in Nat
  BY <1>1
<1>8. QED
  BY <1>1, <1>2, <1>3, <1>5, <1>6, <1>7 DEF cc

LEMMA ReadSectorKeeps ==
    ASSUME Formatted, VolumeInv, ReadSector
    PROVE  VolumeInv'
<1> DEFINE csect == (fp.fptr \div SectorSize) % Layout[vbr].csize
           sect == ClusterSector(fp.clust, csect)
           whole == btr \div SectorSize
           cc == Clipped(whole, csect)
           Abort == Return("player", "error") /\ fp' = [fp EXCEPT !.err = TRUE]
           Taken(n) == /\ btr' = btr - n /\ got' = got + n /\ Proceed("player", "cluster")
                       /\ UNCHANGED <<res, at>> /\ fp' = [fp EXCEPT !.fptr = fp.fptr + n]
<1>1. /\ stage["player"] = "sector" /\ UNCHANGED <<card, mounted, valid, fsid, vbr, dirs, win>>
  BY DEF ReadSector, hostVars, fsVars
<1>2. /\ fp \in FileObjects /\ fp.fptr <= fp.size /\ btr \in Nat /\ got \in Nat
      /\ fp.fptr + btr <= fp.size /\ fp.clust \in Nat /\ fp.fptr \in Nat /\ fp.size \in Nat
  BY <1>1 DEF VolumeInv, FsTyped, ReadInv, FileObjects
<1>3. valid /\ WindowInv' /\ vbr \in Volumes
  BY <1>1 DEF VolumeInv, GeometryInv, PlayerPcs, Tasks, WindowInv, FsTyped
<1>4. csect \in Nat /\ csect < Layout[vbr].csize /\ whole \in Nat
  <2>1. SectorSize \in Nat \ {0} /\ Layout[vbr].csize \in Nat \ {0}
    BY <1>3, SizesAre, ContentIs
  <2>2. whole \in Nat /\ fp.fptr \div SectorSize \in Nat
    BY <1>2, <2>1, Quotient
  <2>3. csect \in 0 .. Layout[vbr].csize - 1
    BY <2>1, <2>2
  <2>4. QED
    BY <2>1, <2>2, <2>3
<1>5. "error" \in Results
  BY DEF Results
<1>6. \/ sect = <<>> /\ Abort /\ UNCHANGED strayed
      \/ /\ sect # <<>> /\ whole > 0
         /\ \E ok \in BOOLEAN :
               /\ Disk({<<"data", fp.clust, csect + i>> : i \in 0 .. cc - 1}, ok)
               /\ IF ~ok THEN Abort ELSE Taken(cc * SectorSize)
      \/ /\ sect # <<>>
         /\ \E ok \in BOOLEAN : Disk({sect}, ok) /\ IF ~ok THEN Abort ELSE Taken(btr)
  BY DEF ReadSector, Null, diskVars
<1>7. sect # <<>> => InFat(fp.clust) /\ sect = <<"data", fp.clust, csect>>
  BY DEF ClusterSector, Null
<1> HIDE DEF csect, sect, whole, cc
<1>8. ASSUME ~strayed', Abort
      PROVE  VolumeInv'
  <2>1. fp' \in FileObjects /\ fp'.fptr <= fp'.size
    BY <1>2, <1>8 DEF FileObjects
  <2>2. QED
    BY <1>1, <1>3, <1>5, <1>8, <2>1, PlayKeeps
<1>9. ASSUME NEW n \in Nat, n <= btr, ~strayed', Taken(n)
      PROVE  VolumeInv'
  <2>1. fp' \in FileObjects /\ fp'.fptr = fp.fptr + n /\ fp'.size = fp.size
    BY <1>2, <1>9 DEF FileObjects
  <2>2. btr' \in Nat /\ got' \in Nat /\ fp'.fptr <= fp'.size /\ fp'.fptr + btr' <= fp'.size
    BY <1>2, <1>9, <2>1
  <2>3. QED
    BY <1>1, <1>3, <1>5, <1>9, <2>1, <2>2, PlayKeeps
<1>10. ASSUME NEW m \in Nat, csect + m < Layout[vbr].csize, sect # <<>>
       PROVE  OfVolume(<<"data", fp.clust, csect + m>>)
  BY <1>7, <1>10 DEF OfVolume
<1>11. CASE sect = <<>> /\ Abort /\ UNCHANGED strayed
  BY <1>8, <1>11 DEF VolumeInv
<1>12. CASE /\ sect # <<>> /\ whole > 0
            /\ \E ok \in BOOLEAN :
                  /\ Disk({<<"data", fp.clust, csect + i>> : i \in 0 .. cc - 1}, ok)
                  /\ IF ~ok THEN Abort ELSE Taken(cc * SectorSize)
  <2>1. PICK ok \in BOOLEAN :
           /\ Disk({<<"data", fp.clust, csect + i>> : i \in 0 .. cc - 1}, ok)
           /\ IF ~ok THEN Abort ELSE Taken(cc * SectorSize)
    BY <1>12
  <2>2. /\ cc \in Nat /\ csect + cc <= Layout[vbr].csize
        /\ cc * SectorSize \in Nat /\ cc * SectorSize <= btr
    BY <1>4, <1>12, ClippedIs DEF VolumeInv, cc, whole
  <2>3. Layout[vbr].csize \in Nat
    BY <1>3, ContentIs
  <2>4. \A i \in 0 .. cc - 1 : i \in Nat /\ csect + i < Layout[vbr].csize
    BY <1>4, <2>2, <2>3
  <2>5. \A s \in {<<"data", fp.clust, csect + i>> : i \in 0 .. cc - 1} : OfVolume(s)
    BY <1>10, <1>12, <2>4
  <2>6. ~strayed'
    BY <2>1, <2>5, DiskStays DEF VolumeInv
  <2>7. QED
    BY <1>8, <1>9, <2>1, <2>2, <2>6
<1>13. CASE /\ sect # <<>>
            /\ \E ok \in BOOLEAN : Disk({sect}, ok) /\ IF ~ok THEN Abort ELSE Taken(btr)
  <2>1. PICK ok \in BOOLEAN : Disk({sect}, ok) /\ IF ~ok THEN Abort ELSE Taken(btr)
    BY <1>13
  <2>2. OfVolume(sect)
    <3>1. csect + 0 = csect
      BY <1>4
    <3>2. QED
      BY <1>4, <1>7, <1>10, <1>13, <3>1
  <2>3. \A s \in {sect} : OfVolume(s)
    BY <2>2
  <2>4. ~strayed'
    BY <2>1, <2>3, DiskStays DEF VolumeInv
  <2>5. QED
    BY <1>2, <1>8, <1>9, <2>1, <2>4
<1>14. QED
  BY <1>6, <1>11, <1>12, <1>13

\* The state of the volume is an invariant.
LEMMA VolumeStep ==
    ASSUME Formatted, VolumeInv, [FatNext]_fatVars
    PROVE  VolumeInv'
<1>1. "player" \in Tasks /\ "console" \in Tasks
  BY DEF Tasks
<1>2. ASSUME NEW t \in Tasks, Call(t)
      PROVE  VolumeInv'
  BY <1>2, EnterKeeps, MountVolumeKeeps, CheckFsKeeps, ReadBpbKeeps DEF Call
<1>3. CASE Player
  BY <1>1, <1>2, <1>3, OpenFindKeeps, OpenNextKeeps, ReadStartKeeps, ReadClusterKeeps,
     ReadSectorKeeps DEF Player
<1>4. CASE Console
  BY <1>1, <1>2, <1>4, ReaddirStartKeeps, ReaddirEntryKeeps, ReaddirNextKeeps,
     ConsoleChecksKeeps, CommandsKeep DEF Console
<1>5. CASE Swap \/ PlayCommand \/ LsCommand
  BY <1>5, SwapKeeps, CommandsKeep
<1>6. CASE UNCHANGED fatVars
  BY <1>6, StutterKeeps
<1>7. QED
  BY <1>3, <1>4, <1>5, <1>6 DEF FatNext

\* Whatever stands in the FAT and in the directories, whatever the host exchanges
\* and wherever the card fails, FatFs reads only sectors of the volume (InVolume):
\* the sectors that clst2sect gives, those of the FAT for the clusters get_fat lets
\* through, and the sectors f_read and dir_next count up to inside a cluster.
THEOREM SectorsOfVolume == FatSpec => []InVolume
<1>0. Formatted
  BY LayoutAssumption, SizesAssumption DEF Formatted, LayoutAssumption, SizesAssumption
<1>1. FatInit => VolumeInv
  BY <1>0, VolumeInit
<1>2. VolumeInv /\ [FatNext]_fatVars => VolumeInv'
  BY <1>0, VolumeStep
<1>3. VolumeInv => InVolume
  BY DEF VolumeInv, InVolume
<1>4. QED
  BY <1>1, <1>2, <1>3, PTL DEF FatSpec

-----------------------------------------------------------------------------
(* Cluster chains and directories *)

\* A set of numbers that is not empty has a least one.
LEMMA LeastOne ==
    ASSUME NEW S \in SUBSET Nat, NEW x \in S
    PROVE  \E m \in S : \A y \in S : m <= y
<1> DEFINE Below == {n \in 0 .. x : \A y \in S : n <= y}
           up == [n \in Below |-> n + 1]
<1>1. SUFFICES ASSUME \A m \in S : \E y \in S : ~(m <= y) PROVE FALSE
  OBVIOUS
<1>2. ASSUME NEW n \in Below PROVE n + 1 \in Below
  <2>1. n \notin S
    BY <1>1
  <2>2. \A y \in S : n <= y /\ n # y /\ y \in Nat
    BY <2>1
  <2>3. \A y \in S : n + 1 <= y
    BY <2>2
  <2>4. QED
    BY <2>3
<1>3. IsFiniteSet(Below)
  <2>1. IsFiniteSet(0 .. x)
    BY FS_Interval
  <2>2. QED
    BY <2>1, FS_Subset
<1>4. 0 \in Below
  OBVIOUS
<1>5. \A n \in Below : n \in Nat
  OBVIOUS
<1> HIDE DEF Below
<1>6. up \in Injection(Below, Below)
  <2>1. up \in [Below -> Below] /\ \A n \in Below : up[n] = n + 1
    BY <1>2
  <2>2. \A m, n \in Below : up[m] = up[n] => m = n
    BY <1>5, <2>1
  <2> HIDE DEF up
  <2>3. QED
    BY <2>1, <2>2 DEF Injection, IsInjective
<1>7. \A n \in Below : up[n] # 0
  BY <1>5
<1> HIDE DEF up
<1>8. up \in Surjection(Below, Below)
  BY <1>3, <1>6, FS_Injection
<1>9. QED
  BY <1>4, <1>7, <1>8 DEF Surjection

\* The two recursions of the reference: a chain of clusters, and the entries of
\* the root directory that are not free.  One lemma serves both: what a recursion
\* starts with, what step k makes of it, and the function it defines up to n.
Start(what, c) == IF what = "chain" THEN c ELSE <<>>
StepOf(v, c) == IF c \in Clusters(v) THEN Layout[v].next[c] ELSE c
Grown(v, k, s) ==
    IF RootEntry(v, k - 1) = Free THEN s ELSE Append(s, RootEntry(v, k - 1))
Step(what, v, k, x) == IF what = "chain" THEN StepOf(v, x) ELSE Grown(v, k, x)
IsRecursion(what, v, c, n, f) ==
    f = [k \in 0 .. n |-> IF k = 0 THEN Start(what, c) ELSE Step(what, v, k, f[k - 1])]

Value(what, v, c, n) == (CHOOSE f : IsRecursion(what, v, c, n, f))[n]

LEMMA ClusterIs ==
    ASSUME NEW v, NEW c, NEW n \in Nat
    PROVE  Cluster(v, c, n) = Value("chain", v, c, n)
<1>1. \A x : Start("chain", x) = x
  BY DEF Start
<1>2. \A k, x : Step("chain", v, k, x) = StepOf(v, x)
  BY DEF Step
<1>3. \A f : IsRecursion("chain", v, c, n, f) <=>
                f = [k \in 0 .. n |-> IF k = 0 THEN c ELSE StepOf(v, f[k - 1])]
  BY <1>1, <1>2 DEF IsRecursion
<1>4. (CHOOSE f : IsRecursion("chain", v, c, n, f))
        = CHOOSE f : f = [k \in 0 .. n |-> IF k = 0 THEN c ELSE StepOf(v, f[k - 1])]
  BY <1>3
<1>5. QED
  BY <1>4 DEF Cluster, StepOf, Value

LEMMA DirUpToIs ==
    ASSUME NEW v, NEW n \in Nat
    PROVE  DirUpTo(v, n) = Value("entries", v, 0, n)
<1>1. Start("entries", 0) = <<>>
  BY DEF Start
<1>2. \A k, x : Step("entries", v, k, x) = Grown(v, k, x)
  BY DEF Step
<1>3. \A f : IsRecursion("entries", v, 0, n, f) <=>
                f = [k \in 0 .. n |-> IF k = 0 THEN <<>> ELSE Grown(v, k, f[k - 1])]
  BY <1>1, <1>2 DEF IsRecursion
<1>4. (CHOOSE f : IsRecursion("entries", v, 0, n, f))
        = CHOOSE f : f = [k \in 0 .. n |-> IF k = 0 THEN <<>> ELSE Grown(v, k, f[k - 1])]
  BY <1>3
<1>5. QED
  BY <1>4 DEF DirUpTo, Grown, Value

LEMMA RecursionExists ==
    ASSUME NEW what, NEW v, NEW c, NEW n \in Nat
    PROVE  \E f : IsRecursion(what, v, c, n, f)
<1> DEFINE None == {m \in Nat : ~ \E f : IsRecursion(what, v, c, m, f)}
<1>1. SUFFICES ASSUME n \in None PROVE FALSE
  OBVIOUS
<1>2. PICK m \in None : \A y \in None : m <= y
  <2>1. None \in SUBSET Nat
    OBVIOUS
  <2>2. QED
    BY <1>1, <2>1, LeastOne
<1>3. CASE m = 0
  <2> DEFINE f == [k \in 0 .. 0 |-> Start(what, c)]
  <2>1. f = [k \in 0 .. 0 |-> IF k = 0 THEN Start(what, c) ELSE Step(what, v, k, f[k - 1])]
    OBVIOUS
  <2>2. IsRecursion(what, v, c, 0, f)
    BY <2>1 DEF IsRecursion
  <2>3. QED
    BY <1>2, <1>3, <2>2
<1>4. CASE m # 0
  <2>1. m - 1 \in Nat /\ m \in Nat /\ m - 1 \notin None
    BY <1>2, <1>4
  <2>2. PICK f : IsRecursion(what, v, c, m - 1, f)
    BY <2>1
  <2> DEFINE g == [k \in 0 .. m |-> IF k = 0 THEN Start(what, c) ELSE Step(what, v, k, f[k - 1])]
  <2>3. \A k \in 0 .. m - 1 : f[k] = IF k = 0 THEN Start(what, c) ELSE Step(what, v, k, f[k - 1])
    BY <2>2 DEF IsRecursion
  <2>4. \A k \in 0 .. m - 1 : g[k] = f[k]
    BY <2>1, <2>3
  <2>5. \A k \in 1 .. m : k - 1 \in 0 .. m - 1 /\ g[k - 1] = f[k - 1]
    BY <2>1, <2>4, SMTT(30)
  <2>6. g = [k \in 0 .. m |-> IF k = 0 THEN Start(what, c) ELSE Step(what, v, k, g[k - 1])]
    <3>1. \A k \in 0 .. m :
             (IF k = 0 THEN Start(what, c) ELSE Step(what, v, k, f[k - 1]))
                 = (IF k = 0 THEN Start(what, c) ELSE Step(what, v, k, g[k - 1]))
      <4>1. \A k \in 0 .. m : k = 0 \/ k \in 1 .. m
        BY <2>1
      <4>2. QED
        BY <2>5, <4>1
    <3> HIDE DEF g
    <3>2. [k \in 0 .. m |-> IF k = 0 THEN Start(what, c) ELSE Step(what, v, k, f[k - 1])]
             = [k \in 0 .. m |-> IF k = 0 THEN Start(what, c) ELSE Step(what, v, k, g[k - 1])]
      BY <3>1
    <3>3. QED
      BY <3>2 DEF g
  <2>7. IsRecursion(what, v, c, m, g)
    BY <2>6 DEF IsRecursion
  <2>8. QED
    BY <1>2, <2>7
<1>5. QED
  BY <1>3, <1>4

LEMMA RecursionUnique ==
    ASSUME NEW what, NEW v, NEW c, NEW n \in Nat, NEW m \in Nat, n <= m,
           NEW f, IsRecursion(what, v, c, n, f), NEW g, IsRecursion(what, v, c, m, g)
    PROVE  \A k \in 0 .. n : f[k] = g[k]
<1> DEFINE Odd == {k \in 0 .. n : f[k] # g[k]}
<1>1. SUFFICES ASSUME NEW k \in Odd PROVE FALSE
  OBVIOUS
<1>2. PICK k0 \in Odd : \A y \in Odd : k0 <= y
  <2>1. Odd \in SUBSET Nat
    OBVIOUS
  <2>2. QED
    BY <1>1, <2>1, LeastOne
<1>3. /\ \A i \in 0 .. n : f[i] = IF i = 0 THEN Start(what, c) ELSE Step(what, v, i, f[i - 1])
      /\ \A i \in 0 .. m : g[i] = IF i = 0 THEN Start(what, c) ELSE Step(what, v, i, g[i - 1])
  BY DEF IsRecursion
<1>4. k0 \in 0 .. n /\ k0 \in 0 .. m /\ f[k0] # g[k0]
  BY <1>2
<1>5. k0 # 0
  BY <1>3, <1>4
<1>6. k0 - 1 \in 0 .. n /\ k0 - 1 \notin Odd
  BY <1>2, <1>4, <1>5
<1>7. f[k0 - 1] = g[k0 - 1]
  BY <1>6
<1>8. f[k0] = Step(what, v, k0, f[k0 - 1]) /\ g[k0] = Step(what, v, k0, g[k0 - 1])
  BY <1>3, <1>4, <1>5
<1>9. QED
  BY <1>4, <1>7, <1>8

\* A recursion, one step at a time.
LEMMA RecursionNext ==
    ASSUME NEW what, NEW v, NEW c, NEW n \in Nat
    PROVE  /\ Value(what, v, c, 0) = Start(what, c)
           /\ Value(what, v, c, n + 1) = Step(what, v, n + 1, Value(what, v, c, n))
<1> DEFINE upto(m) == CHOOSE f : IsRecursion(what, v, c, m, f)
<1>1. \A m \in Nat : IsRecursion(what, v, c, m, upto(m))
  BY RecursionExists
<1> HIDE DEF upto
<1>2. \A m \in Nat : \A i \in 0 .. m :
         upto(m)[i] = IF i = 0 THEN Start(what, c) ELSE Step(what, v, i, upto(m)[i - 1])
  BY <1>1 DEF IsRecursion
<1>3. upto(0)[0] = Start(what, c)
  BY <1>2
<1>4. n + 1 \in Nat /\ n + 1 \in 0 .. n + 1 /\ n \in 0 .. n /\ n <= n + 1 /\ n + 1 # 0 /\ (n + 1) - 1 = n
  OBVIOUS
<1>5. upto(n + 1)[n + 1] = Step(what, v, n + 1, upto(n + 1)[n])
  BY <1>2, <1>4
<1>6. upto(n)[n] = upto(n + 1)[n]
  BY <1>1, <1>4, RecursionUnique
<1>7. QED
  BY <1>3, <1>5, <1>6 DEF upto, Value

LEMMA ClusterNext ==
    ASSUME NEW v, NEW c, NEW n \in Nat
    PROVE  /\ Cluster(v, c, 0) = c
           /\ Cluster(v, c, n + 1) = StepOf(v, Cluster(v, c, n))
<1>1. \A m \in Nat : Cluster(v, c, m) = Value("chain", v, c, m)
  BY ClusterIs
<1>2. QED
  BY <1>1, RecursionNext DEF Start, Step

LEMMA DirUpToNext ==
    ASSUME NEW v, NEW n \in Nat
    PROVE  /\ DirUpTo(v, 0) = <<>>
           /\ DirUpTo(v, n + 1) =
                 IF RootEntry(v, n) = Free THEN DirUpTo(v, n)
                 ELSE Append(DirUpTo(v, n), RootEntry(v, n))
<1>1. \A m \in Nat : DirUpTo(v, m) = Value("entries", v, 0, m)
  BY DirUpToIs
<1>2. /\ DirUpTo(v, 0) = Start("entries", 0)
      /\ DirUpTo(v, n + 1) = Step("entries", v, n + 1, DirUpTo(v, n))
  BY <1>1, RecursionNext
<1>3. (n + 1) - 1 = n
  OBVIOUS
<1>4. QED
  BY <1>2, <1>3 DEF Start, Step, Grown

\* The first numbers of a set, and the first that is not in it.
LEMMA LeadingIs ==
    ASSUME NEW n \in Nat, NEW S, NEW k \in 0 .. n, 0 .. k - 1 \subseteq S, k < n => k \notin S
    PROVE  Leading(n, S) = k
<1> DEFINE P(m) == 0 .. m - 1 \subseteq S /\ (m < n => m \notin S)
<1>1. ASSUME NEW m \in 0 .. n, P(m) PROVE m = k
  <2>1. CASE m < k
    <3>1. m \in 0 .. k - 1 /\ m < n
      BY <2>1
    <3>2. QED
      BY <1>1, <3>1
  <2>2. CASE k < m
    <3>1. k \in 0 .. m - 1 /\ k < n
      BY <2>2
    <3>2. QED
      BY <1>1, <3>1
  <2>3. QED
    BY <2>1, <2>2
<1>2. P(k)
  OBVIOUS
<1>3. Leading(n, S) = CHOOSE m \in 0 .. n : P(m)
  BY DEF Leading
<1> HIDE DEF P
<1>4. QED
  BY <1>1, <1>2, <1>3

LEMMA LeadingExists ==
    ASSUME NEW n \in Nat, NEW S
    PROVE  /\ Leading(n, S) \in 0 .. n /\ 0 .. Leading(n, S) - 1 \subseteq S
           /\ Leading(n, S) < n => Leading(n, S) \notin S
<1> DEFINE Out == {k \in 0 .. n : k = n \/ k \notin S}
<1>1. PICK k \in Out : \A y \in Out : k <= y
  <2>1. n \in Out /\ Out \in SUBSET Nat
    OBVIOUS
  <2> HIDE DEF Out
  <2>2. QED
    BY <2>1, LeastOne
<1>2. k \in 0 .. n /\ (k < n => k \notin S)
  BY <1>1
<1>3. 0 .. k - 1 \subseteq S
  <2>1. ASSUME NEW i \in 0 .. k - 1, i \notin S PROVE FALSE
    <3>1. i \in 0 .. n /\ i < k
      BY <1>2
    <3>2. i \in Out
      BY <2>1, <3>1
    <3>3. QED
      BY <1>1, <1>2, <3>1, <3>2
  <2>2. QED
    BY <2>1
<1>4. Leading(n, S) = k
  BY <1>2, <1>3, LeadingIs
<1>5. QED
  BY <1>2, <1>3, <1>4

LEMMA LeadingAtLeast ==
    ASSUME NEW n \in Nat, NEW S, NEW k \in 0 .. n, 0 .. k - 1 \subseteq S
    PROVE  k <= Leading(n, S)
<1> DEFINE l == Leading(n, S)
<1>1. l \in 0 .. n /\ (l < n => l \notin S)
  BY LeadingExists
<1> HIDE DEF l
<1>2. SUFFICES ASSUME l < k PROVE FALSE
  BY <1>1 DEF l
<1>3. l \in 0 .. k - 1 /\ l < n
  BY <1>1, <1>2
<1>4. QED
  BY <1>1, <1>3

\* A place: unit i of sector j of cluster q, all counted from 0, where a cluster
\* has c sectors of n units.
Place(c, n, q, j, i) == n * (c * q + j) + i
IsAt(p, c, n, q, j, i) ==
    /\ p \div n = c * q + j /\ p % n = i /\ (p \div n) % c = j
    /\ p \div (c * n) = q /\ p % (c * n) = j * n + i

LEMMA PlaceOf ==
    ASSUME NEW c \in Nat \ {0}, NEW n \in Nat \ {0}, NEW q \in Nat, NEW j \in 0 .. c - 1,
           NEW i \in 0 .. n - 1, NEW p \in Nat, p = Place(c, n, q, j, i)
    PROVE  IsAt(p, c, n, q, j, i)
<1> USE DEF Place
<1>1. c * q + j \in Nat /\ c * n \in Nat /\ j * n \in Nat /\ j \in Nat /\ i \in Nat
  OBVIOUS
<1>2. p \div n = c * q + j /\ p % n = i
  BY <1>1, QuotientIs
<1>3. (c * q + j) % c = j
  BY <1>1, QuotientIs
<1>4. p = (c * n) * q + (j * n + i)
  <2>1. n * (c * q + j) = (c * n) * q + j * n
    OBVIOUS
  <2>2. (c * n) * q \in Nat /\ n * (c * q + j) \in Nat
    BY <1>1
  <2>3. QED
    BY <1>1, <2>1, <2>2
<1>5. j * n + i + 1 \in 1 .. c * n
  BY <1>1, PlaceIs
<1>6. j * n + i \in 0 .. c * n - 1 /\ c * n > 0
  BY <1>1, <1>5
<1>7. p \div (c * n) = q /\ p % (c * n) = j * n + i
  <2> DEFINE m == c * n
             r == j * n + i
  <2>1. m \in Int /\ m > 0 /\ r \in 0 .. m - 1 /\ p = m * q + r
    BY <1>1, <1>4, <1>6
  <2> HIDE DEF m, r
  <2>2. p \div m = q /\ p % m = r
    BY <2>1, QuotientIs
  <2>3. QED
    BY <2>2 DEF m, r
<1>8. QED
  BY <1>2, <1>3, <1>7 DEF IsAt

LEMMA PlaceExists ==
    ASSUME NEW c \in Nat \ {0}, NEW n \in Nat \ {0}, NEW p \in Nat
    PROVE  \E q \in Nat, j \in 0 .. c - 1, i \in 0 .. n - 1 :
               p = Place(c, n, q, j, i) /\ IsAt(p, c, n, q, j, i)
<1>1. PICK k \in Nat, i \in 0 .. n - 1 : p \div n = k /\ p % n = i /\ p = n * k + i
  BY Quotient
<1>2. PICK q \in Nat, j \in 0 .. c - 1 : k \div c = q /\ k % c = j /\ k = c * q + j
  BY Quotient
<1>3. p = Place(c, n, q, j, i)
  BY <1>1, <1>2 DEF Place
<1>4. QED
  BY <1>3, PlaceOf

\* The first place of a cluster.
LEMMA FirstPlace ==
    ASSUME NEW c \in Nat \ {0}, NEW n \in Nat \ {0}, NEW p \in Nat
    PROVE  p % (c * n) = 0 <=> p % n = 0 /\ (p \div n) % c = 0
<1>1. PICK q \in Nat, j \in 0 .. c - 1, i \in 0 .. n - 1 : IsAt(p, c, n, q, j, i)
  BY PlaceExists
<1>2. p % n = i /\ (p \div n) % c = j /\ p % (c * n) = j * n + i
  BY <1>1 DEF IsAt
<1>3. j * n + i = 0 <=> j = 0 /\ i = 0
  <2>1. j * n \in Nat /\ i \in Nat /\ j \in Nat
    OBVIOUS
  <2>2. j # 0 => j * n > 0
    <3>1. 1 <= j => 1 * n <= j * n
      BY <2>1, Multiples
    <3>2. QED
      BY <2>1, <3>1
  <2>3. QED
    BY <2>1, <2>2
<1>4. QED
  BY <1>2, <1>3

-----------------------------------------------------------------------------

(* The root directory and the file of the play *)

\* The entry that a directory object of the root directory stands at.
LEMMA RootEntryIs ==
    ASSUME Formatted, NEW v \in Volumes, NEW p \in Nat, NEW c \in Clusters(v),
           c = Cluster(v, Layout[v].root, p \div (Layout[v].csize * EntriesPerSector)),
           NEW w, w.vol = v,
           w.sect = <<"data", c, (p \div EntriesPerSector) % Layout[v].csize>>
    PROVE  NextEntry(w, p % EntriesPerSector) = RootEntry(v, p)
<1> DEFINE E == EntriesPerSector
           s == Layout[v].csize
<1>1. E \in Nat \ {0} /\ s \in Nat \ {0}
  BY SizesAre, ContentIs
<1>2. PICK q \in Nat, j \in 0 .. s - 1, i \in 0 .. E - 1 : IsAt(p, s, E, q, j, i)
  BY <1>1, PlaceExists
<1>3. p % E = i /\ (p \div E) % s = j /\ p % (s * E) = j * E + i
  BY <1>2 DEF IsAt
<1>4. w.sect[2] = c /\ w.sect[3] = j
  BY <1>3
<1>5. NextEntry(w, i) = Layout[v].entries[w.sect[2]][w.sect[3] * E + i + 1]
  BY DEF NextEntry
<1>6. NextEntry(w, i) = Layout[v].entries[c][(j * E + i) + 1]
  BY <1>4, <1>5
<1>7. RootEntry(v, p) = Layout[v].entries[c][(p % (s * E)) + 1]
  BY DEF RootEntry
<1>8. QED
  BY <1>3, <1>6, <1>7

\* Where the root directory ends.
LEMMA DirSizeIs ==
    ASSUME Formatted, NEW v, NEW k \in 0 .. MaxDir,
           \A i \in 0 .. k - 1 : RootEntry(v, i) # End,
           k < MaxDir => RootEntry(v, k) = End
    PROVE  DirSize(v) = k
<1> DEFINE S == {i \in 0 .. MaxDir - 1 : RootEntry(v, i) # End}
<1>1. MaxDir \in Nat
  BY SizesAre
<1>2. 0 .. k - 1 \subseteq S /\ (k < MaxDir => k \notin S)
  BY <1>1
<1> HIDE DEF S
<1>3. Leading(MaxDir, S) = k
  BY <1>1, <1>2, LeadingIs
<1>4. QED
  BY <1>3 DEF DirSize, S

LEMMA DirSizeMore ==
    ASSUME Formatted, NEW v, NEW p \in Nat, p < MaxDir,
           \A i \in 0 .. p : RootEntry(v, i) # End
    PROVE  p < DirSize(v)
<1> DEFINE S == {i \in 0 .. MaxDir - 1 : RootEntry(v, i) # End}
<1>1. MaxDir \in Nat
  BY SizesAre
<1>2. p + 1 \in 0 .. MaxDir /\ 0 .. (p + 1) - 1 \subseteq S
  BY <1>1
<1> HIDE DEF S
<1>3. p + 1 <= Leading(MaxDir, S) /\ Leading(MaxDir, S) \in 0 .. MaxDir
  BY <1>1, <1>2, LeadingAtLeast, LeadingExists
<1>4. p < Leading(MaxDir, S)
  BY <1>3
<1>5. QED
  BY <1>4 DEF DirSize, S

\* A directory without the name of the file.
LEMMA NoFileIs ==
    ASSUME Formatted, NEW v \in Volumes, NEW k \in 0 .. MaxDir,
           \A i \in 0 .. k - 1 : RootEntry(v, i) # End /\ RootEntry(v, i).name # Name,
           k < MaxDir => RootEntry(v, k) = End
    PROVE  Files[v] = <<>>
<1>1. DirSize(v) = k
  BY DirSizeIs
<1>2. Named(v) = {}
  BY <1>1 DEF Named
<1>3. Files[v] = FileIn(v)
  BY DEF Files
<1>4. QED
  BY <1>2, <1>3 DEF FileIn

\* The first entry of the name.
LEMMA FirstNamedIs ==
    ASSUME Formatted, NEW v, NEW p \in Nat, p < MaxDir,
           \A i \in 0 .. p - 1 : RootEntry(v, i) # End /\ RootEntry(v, i).name # Name,
           RootEntry(v, p) # End, RootEntry(v, p).name = Name
    PROVE  Named(v) # {} /\ FirstNamed(v) = RootEntry(v, p)
<1> DEFINE N == Named(v)
           Least(i) == \A j \in N : i <= j
<1>1. \A i \in 0 .. p : i \in 0 .. p - 1 \/ i = p
  OBVIOUS
<1>2. p < DirSize(v) /\ DirSize(v) \in Nat
  <2>1. \A i \in 0 .. p : RootEntry(v, i) # End
    BY <1>1
  <2>2. p < DirSize(v)
    BY <2>1, DirSizeMore
  <2>3. DirSize(v) \in Nat
    BY SizesAre, LeadingExists DEF DirSize
  <2>4. QED
    BY <2>2, <2>3
<1>3. p \in N
  BY <1>2 DEF Named
<1>4. \A i \in N : i \in Nat /\ ~(i \in 0 .. p - 1)
  BY <1>2 DEF Named
<1>5. \A i \in N : p <= i
  BY <1>4
<1>6. \A i \in N : Least(i) => i = p
  <2>1. ASSUME NEW i \in N, Least(i) PROVE i = p
    <3>1. i <= p /\ p <= i /\ i \in Nat
      BY <1>3, <1>4, <1>5, <2>1
    <3>2. QED
      BY <3>1
  <2>2. QED
    BY <2>1
<1>7. FirstNamed(v) = RootEntry(v, CHOOSE i \in N : Least(i))
  BY DEF FirstNamed
<1>8. Least(p)
  BY <1>5
<1> HIDE DEF N, Least
<1>9. (CHOOSE i \in N : Least(i)) = p
  BY <1>3, <1>6, <1>8
<1>10. QED
  BY <1>3, <1>7, <1>9 DEF N

\* The units of the file of the play, as a sequence.
FileUnit(i) == UnitOf(card, FirstNamed(card), i)
AllUnits == {FileUnit(i) : i \in Nat}

LEMMA UnitsAre ==
    ASSUME NEW n \in Nat
    PROVE  /\ FileUnits(n) \in Seq(AllUnits) /\ Len(FileUnits(n)) = n
           /\ \A i \in 1 .. n : FileUnits(n)[i] = FileUnit(i - 1)
<1> DEFINE s == [i \in 1 .. n |-> FileUnit(i - 1)]
<1>1. \A i \in 1 .. n : FileUnit(i - 1) \in AllUnits
  BY DEF AllUnits
<1>2. s \in Seq(AllUnits) /\ Len(s) = n /\ \A i \in 1 .. n : s[i] = FileUnit(i - 1)
  BY <1>1
<1>3. FileUnits(n) = s
  BY DEF FileUnits, FileUnit
<1>4. QED
  BY <1>2, <1>3

LEMMA UnitsPrefix ==
    ASSUME NEW n \in Nat, NEW m \in Nat, n <= m
    PROVE  IsPrefix(FileUnits(n), FileUnits(m))
<1> DEFINE s == FileUnits(n)
           t == FileUnits(m)
<1>1. /\ s \in Seq(AllUnits) /\ Len(s) = n /\ t \in Seq(AllUnits) /\ Len(t) = m
      /\ \A i \in 1 .. n : s[i] = FileUnit(i - 1)
      /\ \A i \in 1 .. m : t[i] = FileUnit(i - 1)
  BY UnitsAre
<1> HIDE DEF s, t
<1>2. \A i \in 1 .. n : s[i] = t[i]
  <2>1. \A i \in 1 .. n : i \in 1 .. m
    OBVIOUS
  <2>2. QED
    BY <1>1, <2>1
<1>3. SubSeq(s, 1, n) \in Seq(AllUnits) /\ SubSeq(t, 1, n) \in Seq(AllUnits)
  BY <1>1
<1>4. /\ Len(SubSeq(s, 1, n)) = n /\ Len(SubSeq(t, 1, n)) = n
      /\ \A i \in 1 .. n : SubSeq(s, 1, n)[i] = s[i] /\ SubSeq(t, 1, n)[i] = t[i]
  BY <1>1
<1>5. SubSeq(s, 1, n) = SubSeq(t, 1, n)
  BY <1>2, <1>3, <1>4, SeqEqual
<1>6. QED
  BY <1>1, <1>5 DEF IsPrefix, s, t

\* What has been read and what is read next.
LEMMA UnitsGrow ==
    ASSUME NEW p \in Nat, NEW n \in Nat, NEW more, NEW S, more \in Seq(S), Len(more) = n,
           \A i \in 1 .. n : more[i] = FileUnit(p + i - 1)
    PROVE  FileUnits(p) \o more = FileUnits(p + n)
<1> DEFINE s == FileUnits(p)
           t == FileUnits(p + n)
           All == AllUnits \cup S
<1>1. p + n \in Nat
  OBVIOUS
<1>2. /\ s \in Seq(AllUnits) /\ Len(s) = p /\ t \in Seq(AllUnits) /\ Len(t) = p + n
      /\ \A i \in 1 .. p : s[i] = FileUnit(i - 1)
      /\ \A i \in 1 .. p + n : t[i] = FileUnit(i - 1)
  BY <1>1, UnitsAre
<1> HIDE DEF s, t
<1>3. s \in Seq(All) /\ t \in Seq(All) /\ more \in Seq(All)
  BY <1>2
<1>4. \A i \in 1 .. p : s[i] = t[i]
  <2>1. \A i \in 1 .. p : i \in 1 .. p + n
    OBVIOUS
  <2>2. QED
    BY <1>2, <2>1
<1>5. \A i \in 1 .. n : t[p + i] = more[i]
  <2>1. \A i \in 1 .. n : p + i \in 1 .. p + n
    OBVIOUS
  <2>2. QED
    BY <1>2, <2>1
<1> HIDE DEF All
<1>6. /\ s \o more \in Seq(All) /\ Len(s \o more) = p + n
      /\ \A i \in 1 .. p + n : (s \o more)[i] = IF i <= p THEN s[i] ELSE more[i - p]
  BY <1>2, <1>3, ConcatProperties
<1>7. ASSUME NEW i \in 1 .. p + n PROVE (s \o more)[i] = t[i]
  <2>1. CASE i <= p
    BY <1>4, <1>6, <2>1
  <2>2. CASE ~(i <= p)
    <3>1. i - p \in 1 .. n /\ p + (i - p) = i
      BY <2>2
    <3>2. t[p + (i - p)] = more[i - p]
      BY <1>5, <3>1
    <3>3. QED
      BY <1>6, <2>2, <3>1, <3>2
  <2>3. QED
    BY <2>1, <2>2
<1>8. s \o more = t
  BY <1>2, <1>3, <1>6, <1>7, SeqEqual
<1>9. QED
  BY <1>8 DEF s, t

\* Unit i behind a sector boundary of the file: as long as it is in the cluster.
LEMMA UnitIs ==
    ASSUME Formatted, NEW v \in Volumes, NEW e, NEW p \in Nat, p % SectorSize = 0,
           NEW i \in Nat,
           ((p \div SectorSize) % Layout[v].csize) + i \div SectorSize < Layout[v].csize
    PROVE  LET c == Cluster(v, e.sclust, p \div (Layout[v].csize * SectorSize))
               j == (p \div SectorSize) % Layout[v].csize IN
           /\ UnitOf(v, e, p + i) = <<v, c, j + i \div SectorSize, i % SectorSize>>
           /\ (p + i) \div (Layout[v].csize * SectorSize) = p \div (Layout[v].csize * SectorSize)
<1> DEFINE S == SectorSize
           z == Layout[v].csize
<1>1. S \in Nat \ {0} /\ z \in Nat \ {0}
  BY SizesAre, ContentIs
<1>2. PICK q \in Nat, j \in 0 .. z - 1, i0 \in 0 .. S - 1 :
             p = Place(z, S, q, j, i0) /\ IsAt(p, z, S, q, j, i0)
  BY <1>1, PlaceExists
<1>3. p % S = i0 /\ (p \div S) % z = j /\ p \div (z * S) = q
  BY <1>2 DEF IsAt
<1>4. PICK a \in Nat, b \in 0 .. S - 1 : i \div S = a /\ i % S = b /\ i = S * a + b
  BY <1>1, Quotient
<1>5. j + a \in 0 .. z - 1 /\ i0 = 0
  BY <1>1, <1>3, <1>4
<1>6. p + i = Place(z, S, q, j + a, b) /\ p + i \in Nat
  <2>1. p = S * (z * q + j)
    BY <1>1, <1>2, <1>5 DEF Place
  <2>2. S * (z * q + (j + a)) = S * (z * q + j) + S * a
    BY <1>1
  <2>3. S * (z * q + j) \in Nat /\ S * a \in Nat
    BY <1>1
  <2>4. QED
    BY <1>4, <2>1, <2>2, <2>3 DEF Place
<1>7. IsAt(p + i, z, S, q, j + a, b)
  BY <1>1, <1>5, <1>6, PlaceOf
<1>8. /\ (p + i) \div (z * S) = q /\ (p + i) % (z * S) = (j + a) * S + b /\ (p + i) % S = b
  BY <1>7 DEF IsAt
<1>9. ((j + a) * S + b) \div S = j + a
  <2> DEFINE x == j + a
             m == x * S + b
  <2>1. x \in Int /\ m \in Int /\ m = S * x + b /\ S \in Int /\ S > 0
    BY <1>1, <1>5
  <2> HIDE DEF x, m
  <2>2. m \div S = x
    BY <2>1, QuotientIs
  <2>3. QED
    BY <2>2 DEF m, x
<1>10. UnitOf(v, e, p + i) = <<v, Cluster(v, e.sclust, q), j + a, b>>
  BY <1>8, <1>9 DEF UnitOf
<1>11. QED
  BY <1>3, <1>4, <1>8, <1>10

\* The file of the play, when its entry is a file.
LEMMA FilesIs ==
    ASSUME Formatted, card \in Volumes, FatHasRoom(card), Named(card) # {},
           ~FirstNamed(card).dir
    PROVE  Files[card] =
              FileUnits(Leading(FirstNamed(card).size, InChain(card, FirstNamed(card))))
<1>1. Files[card] = FileIn(card)
  BY DEF Files
<1>2. FileIn(card) = UnitsIn(card, FirstNamed(card))
  BY DEF FileIn
<1>3. QED
  BY <1>1, <1>2 DEF UnitsIn, FileUnits

\* dir_next in the root directory, read from the card as it is: the next entry, or
\* there is none, or a fault came.
LEMMA NextInRoot ==
    ASSUME Formatted, FsTyped, WindowInv, FatHasRoom(vbr), ~strayed, card' = card,
           vbr = card, win.sect # <<>> => win.vol = card,
           NEW d \in {"current", "open"}, NEW r, DirNext(d, r),
           dirs[d].sect # <<>>, Standing(dirs[d]), InRoot(dirs[d])
    PROVE  LET p == dirs[d].dptr IN
           /\ r = "ok" => dirs'[d].dptr = p + 1 /\ InRoot(dirs'[d])
           /\ r = "nofile" => p + 1 >= MaxDir \/ RootEntry(card, p + 1) = End
           /\ r = "error" => \/ p + 1 < MaxDir /\ RootEntry(card, p + 1) = End
                             \/ hurt' = (at["player"] # "idle")
           /\ at["player"] # "idle" /\ hurt => hurt'
           /\ r \in Results
<1> DEFINE dp == dirs[d]
           p == dp.dptr
           E == EntriesPerSector
           c == Layout[vbr].csize
           root == Layout[card].root
<1>1. /\ dp \in DirObjects /\ p \in Nat /\ dp.clust \in Nat /\ dp.sect \in Sectors
      /\ vbr \in Volumes /\ card \in Volumes
  BY DEF FsTyped, DirObjects
<1>2. E \in Nat \ {0} /\ c \in Nat \ {0} /\ c = Layout[card].csize /\ c * E \in Nat \ {0}
  <2>1. E \in Nat \ {0} /\ c \in Nat \ {0} /\ c = Layout[card].csize
    BY <1>1, SizesAre, ContentIs
  <2>2. c * E > 0
    <3>1. 1 * E <= c * E
      BY <2>1, Multiples
    <3>2. QED
      BY <2>1, <3>1
  <2>3. QED
    BY <2>1, <2>2
<1>3. {"ok", "nofile", "error"} = Results
  BY DEF Results
<1>4. p < MaxDir /\ dp.clust = Cluster(card, root, p \div (c * E)) /\ dp.clust \in Clusters(card)
  BY <1>2 DEF InRoot, DirCluster, Standing
<1>5. MaxDir \in Nat /\ p + 1 \in Nat
  BY <1>1, SizesAre
<1>6. NewCluster(p) <=> (p + 1) % (c * E) = 0
  <2>1. PICK n \in Nat : n = p + 1
    BY <1>5
  <2>2. n % (c * E) = 0 <=> n % E = 0 /\ (n \div E) % c = 0
    BY <1>2, FirstPlace
  <2>3. QED
    BY <1>2, <2>1, <2>2 DEF NewCluster, NewSector
<1>7. IF NewCluster(p) THEN (p + 1) \div (c * E) = p \div (c * E) + 1
      ELSE (p + 1) \div (c * E) = p \div (c * E)
  <2> DEFINE m == c * E
  <2>1. m \in Nat \ {0}
    BY <1>2
  <2> HIDE DEF m
  <2>2. IF (p + 1) % m = 0 THEN (p + 1) \div m = p \div m + 1 ELSE (p + 1) \div m = p \div m
    BY <1>1, <2>1, OneMore
  <2>3. QED
    BY <1>6, <2>2 DEF m
<1>8. DirCluster(p + 1) = IF NewCluster(p) THEN StepOf(card, dp.clust) ELSE dp.clust
  <2> DEFINE q == p \div (c * E)
  <2>1. q \in Nat
    BY <1>1, <1>2, Quotient
  <2>2. DirCluster(p + 1) = Cluster(card, root, (p + 1) \div (c * E))
    BY <1>2 DEF DirCluster
  <2> HIDE DEF q
  <2>3. Cluster(card, root, q + 1) = StepOf(card, Cluster(card, root, q))
    BY <2>1, ClusterNext
  <2>4. QED
    BY <1>4, <1>7, <2>2, <2>3 DEF q
<1>9. DirCluster(p + 1) \notin Clusters(card) => RootEntry(card, p + 1) = End
  BY DEF DirCluster, RootEntry
<1> HIDE DEF dp, p
<1>10. CASE p + 1 >= MaxDir
  <2>1. r = "nofile" /\ UNCHANGED <<win, diskVars>>
    BY <1>5, <1>10, NextIs DEF dp, p
  <2>2. hurt' = hurt
    BY <2>1 DEF diskVars
  <2>3. QED
    BY <1>3, <1>10, <2>1, <2>2 DEF dp, p
<1>11. CASE ~(p + 1 >= MaxDir) /\ ~NewCluster(p)
  <2> DEFINE s == IF NewSector(p) THEN <<"data", dp.sect[2], dp.sect[3] + 1>> ELSE dp.sect
  <2>1. r = "ok" /\ Put(d, s, p + 1, dp.clust) /\ UNCHANGED <<win, diskVars>>
    BY <1>5, <1>11, NextIs DEF dp, p
  <2>2. hurt' = hurt
    BY <2>1 DEF diskVars
  <2>3. dirs'[d].dptr = p + 1 /\ dirs'[d].clust = dp.clust
    BY <2>1 DEF Put, FsTyped, DirObjects, dp, p
  <2>4. InRoot(dirs'[d])
    BY <1>5, <1>8, <1>11, <2>3 DEF InRoot
  <2>5. QED
    BY <1>3, <2>1, <2>2, <2>3, <2>4 DEF dp, p
<1>12. CASE ~(p + 1 >= MaxDir) /\ NewCluster(p)
  <2>1. PICK val :
           /\ GetFat(dp.clust, val)
           /\ \/ /\ val \in {0, 1, -1} /\ r = "error"
              \/ /\ val \notin {0, 1, -1} /\ val >= Layout[vbr].nfat /\ r = "nofile"
              \/ /\ val \notin {0, 1, -1} /\ ~(val >= Layout[vbr].nfat)
                 /\ r = "ok" /\ Put(d, ClusterSector(val, 0), p + 1, val)
    BY <1>5, <1>12, NextIs DEF dp, p
  <2>2. /\ val \in Nat \cup {-1}
        /\ win' = win \/ win'.sect = <<>> \/ win'.vol = card
        /\ \/ dp.clust \notin Clusters(vbr) /\ val = 1 /\ win' = win /\ hurt' = hurt
           \/ dp.clust \in Clusters(vbr) /\ val = -1 /\ hurt' = (at["player"] # "idle")
           \/ /\ dp.clust \in Clusters(vbr) /\ val = Layout[win'.vol].next[dp.clust]
              /\ win'.sect # <<>> /\ win'.vol \in Volumes
              /\ hurt' = hurt \/ hurt' = (at["player"] # "idle" /\ hurt)
    BY <2>1, FatStays
  <2>3. at["player"] # "idle" /\ hurt => hurt'
    BY <2>2
  <2>4. CASE val = -1 /\ hurt' = (at["player"] # "idle")
    <3>1. r = "error"
      <4>1. Layout[vbr].nfat \in Nat
        BY <1>1, ContentIs
      <4>2. QED
        BY <2>1, <2>4, <4>1
    <3>2. QED
      BY <1>3, <2>3, <2>4, <3>1 DEF dp, p
  <2>5. CASE val # -1
    <3>1. val = Layout[card].next[dp.clust] /\ val \in Nat
      BY <1>4, <2>2, <2>5
    <3>2. DirCluster(p + 1) = val
      BY <1>4, <1>8, <1>12, <3>1 DEF StepOf
    <3>3. val \in {0, 1} \/ val >= Layout[vbr].nfat => val \notin Clusters(card)
      <4>1. Layout[vbr].nfat \in Nat
        BY <1>1, ContentIs
      <4>2. QED
        BY <3>1, <4>1 DEF Clusters
    <3>4. r # "ok" => RootEntry(card, p + 1) = End
      BY <1>9, <2>1, <2>5, <3>2, <3>3
    <3>5. p + 1 < MaxDir
      BY <1>5, <1>12
    <3>6. r = "ok" => dirs'[d].dptr = p + 1 /\ dirs'[d].clust = val
      BY <2>1, <2>5 DEF Put, FsTyped, DirObjects
    <3>7. r = "ok" => InRoot(dirs'[d])
      BY <3>2, <3>5, <3>6 DEF InRoot
    <3>8. QED
      BY <1>3, <2>1, <2>3, <3>4, <3>5, <3>6, <3>7 DEF dp, p
  <2>6. val = -1 => hurt' = (at["player"] # "idle")
    <3>1. Layout[card].next[dp.clust] \in Nat
      BY <1>1, <1>4, ContentIs
    <3>2. QED
      BY <1>4, <2>2, <3>1
  <2>7. QED
    BY <2>4, <2>5, <2>6
<1>13. QED
  BY <1>10, <1>11, <1>12

-----------------------------------------------------------------------------
(* What a task has had since it began *)

LEMMA InsideBegun ==
    ASSUME ProgramInv, NEW t \in Tasks, Inside(t)
    PROVE  /\ Begun(t) /\ at[t] # "idle"
           /\ stage[t] \in Mounting => at[t] \in {"mount", "opendir", "ls_opendir", "open"}
<1>1. stage[t] \in Stages(at[t]) /\ stage[t] \notin {"out", "done"} /\ at[t] \in Ats
  BY DEF ProgramInv, Inside
<1>2. at[t] # "idle"
  BY <1>1 DEF Stages
<1>3. stage[t] \in Mounting => at[t] \in {"mount", "opendir", "ls_opendir", "open"}
  BY <1>1 DEF Stages, Mounting, Ats
<1>4. QED
  BY <1>1, <1>2, <1>3 DEF Begun

\* A step of t inside a function.
LEMMA FreshInside ==
    ASSUME FsTyped, ProgramInv, FreshInv, NEW t \in Tasks, Inside(t),
           card' = card, during' = during,
           \A u \in Tasks \ {t} : at'[u] = at[u] /\ stage'[u] = stage[u],
           win' = win \/ win'.sect = <<>> \/ win'.vol = card,
           valid' => (valid /\ vbr' = vbr) \/ (stage[t] = "bpb" /\ vbr' = win.vol),
           stage'[t] \in {"boot", "partition", "bpb"} => ~valid',
           stage'[t] = "bpb" => win'.vol = card
    PROVE  FreshInv'
<1>1. Begun(t) /\ at[t] # "idle"
  BY InsideBegun
<1>2. \A u \in Tasks \ {t} : stage'[u] \in {"out", "done"}
  BY OthersOut
<1>3. \A u \in Tasks : at'[u] # "idle" => at[u] # "idle"
  BY <1>1
<1>4. \A u \in Tasks : Begun(u)' => Begun(u)
  <2>1. \A u \in Tasks : u = t \/ (at'[u] = at[u] /\ stage'[u] = stage[u])
    OBVIOUS
  <2>2. QED
    BY <1>1, <2>1 DEF Begun
<1>5. \A u \in Tasks : stage'[u] \in {"boot", "partition", "bpb"} => u = t
  BY <1>2
<1>6. ASSUME NEW u \in Tasks, Begun(u)
      PROVE  /\ valid' => vbr' \in during[u] /\ (win'.sect # <<>> => win'.vol \in during[u])
             /\ \A x \in Tasks : stage'[x] = "bpb" => win'.vol \in during[u]
  <2>1. card \in during[u] /\ at[u] # "idle"
    BY <1>6 DEF FreshInv, Begun
  <2>2. valid => vbr \in during[u] /\ (win.sect # <<>> => win.vol \in during[u])
    BY <1>6 DEF FreshInv
  <2>3. stage[t] = "bpb" => win.vol \in during[u]
    BY <1>6 DEF FreshInv
  <2>4. QED
    BY <1>5, <2>1, <2>2, <2>3
<1>7. QED
  BY <1>3, <1>4, <1>5, <1>6 DEF FreshInv

\* What a step inside a function leaves to the other task.
LEMMA InsideStep ==
    ASSUME ProgramInv, NEW t \in Tasks, MountVolume(t) \/ CheckFs(t) \/ ReadBpb(t)
    PROVE  /\ \A u \in Tasks \ {t} : at'[u] = at[u] /\ stage'[u] = stage[u]
           /\ card' = card /\ during' = during /\ mounted' = mounted /\ taken' = taken
           /\ fno' = fno /\ listed' = listed /\ rewound' = rewound
           /\ Inside(t) /\ stage[t] \in Mounting
<1>1. at \in [Tasks -> Ats] /\ stage \in [Tasks -> Pcs]
  BY DEF ProgramInv
<1>2. ASSUME NEW r, Return(t, r)
      PROVE  \A u \in Tasks \ {t} : at'[u] = at[u] /\ stage'[u] = stage[u]
  BY <1>1, <1>2 DEF Return, Proceed, Tasks
<1>3. ASSUME NEW p, Proceed(t, p), Stay
      PROVE  \A u \in Tasks \ {t} : at'[u] = at[u] /\ stage'[u] = stage[u]
  BY <1>1, <1>3 DEF Stay, Proceed
<1>4. ASSUME NEW id, NEW v, Mounted(t, id, v)
      PROVE  \A u \in Tasks \ {t} : at'[u] = at[u] /\ stage'[u] = stage[u]
  BY <1>2, <1>3, <1>4 DEF Mounted, Refuse
<1>5. CASE MountVolume(t)
  BY <1>2, <1>3, <1>4, <1>5 DEF MountVolume, Refuse, hostVars, listVars, Inside, Mounting
<1>6. CASE CheckFs(t)
  BY <1>2, <1>3, <1>6
  DEF CheckFs, Refuse, hostVars, fsVars, listVars, Inside, Mounting
<1>7. CASE ReadBpb(t)
  BY <1>2, <1>4, <1>7 DEF ReadBpb, Refuse, hostVars, listVars, Inside, Mounting
<1>8. QED
  BY <1>5, <1>6, <1>7

\* mount_volume, check_fs and the boot sector: what a task has had stays what it reads.
LEMMA FreshMounting ==
    ASSUME Formatted, VolumeInv, VolumeInv', FreshInv, NEW t \in Tasks,
           MountVolume(t) \/ CheckFs(t) \/ ReadBpb(t)
    PROVE  FreshInv'
<1>1. /\ \A u \in Tasks \ {t} : at'[u] = at[u] /\ stage'[u] = stage[u]
      /\ card' = card /\ during' = during /\ Inside(t) /\ stage[t] \in Mounting
  BY InsideStep DEF VolumeInv
<1>2. stage \in [Tasks -> Pcs]
  BY DEF VolumeInv, ProgramInv
<1>3. ASSUME NEW r, Return(t, r) PROVE stage'[t] \in {"out", "done"}
  BY <1>2, <1>3 DEF Return, Proceed
<1>4. ASSUME NEW id, NEW v, Mounted(t, id, v) PROVE stage'[t] \in {"out", "done", "find"}
  BY <1>2, <1>3, <1>4 DEF Mounted, Refuse, Proceed
<1>5. CASE MountVolume(t)
  <2>1. win' = win /\ vbr' = vbr /\ (valid' => valid)
    BY <1>5 DEF MountVolume
  <2>2. stage'[t] \in {"out", "done", "find"} \/ (stage'[t] = "boot" /\ ~valid')
    BY <1>2, <1>3, <1>4, <1>5 DEF MountVolume, Refuse, Proceed
  <2>3. QED
    BY <1>1, <2>1, <2>2, FreshInside DEF VolumeInv
<1>6. CASE CheckFs(t)
  <2>1. valid' = valid /\ vbr' = vbr
    BY <1>6 DEF CheckFs, fsVars
  <2>2. ~valid
    BY <1>6 DEF CheckFs, FreshInv
  <2>3. PICK ok \in BOOLEAN :
           /\ win' = IF ok THEN [sect |-> IF stage[t] = "boot" THEN <<"boot", 0>> ELSE <<"boot", 1>>,
                                 vol |-> card] ELSE NoWindow
           /\ ~ok => Refuse(t)
    BY <1>6 DEF CheckFs
  <2>4. CASE ok
    BY <1>1, <2>1, <2>2, <2>3, <2>4, FreshInside DEF VolumeInv
  <2>5. CASE ~ok
    <3>1. stage'[t] \in {"out", "done"}
      BY <1>3, <2>3, <2>5 DEF Refuse
    <3>2. win'.sect = <<>>
      BY <2>3, <2>5 DEF NoWindow, Null
    <3>3. QED
      BY <1>1, <2>1, <2>2, <3>1, <3>2, FreshInside DEF VolumeInv
  <2>6. QED
    BY <2>4, <2>5
<1>7. CASE ReadBpb(t)
  <2>1. stage'[t] \in {"out", "done", "find"}
    BY <1>3, <1>4, <1>7 DEF ReadBpb, Refuse
  <2>2. stage[t] = "bpb" /\ (valid' => (valid /\ vbr' = vbr) \/ vbr' = win.vol)
    BY <1>7 DEF ReadBpb
  <2>3. win' = win \/ win'.sect = <<>> \/ win'.vol = card
    BY <1>7 DEF ReadBpb, Window, NoWindow, Null
  <2>4. QED
    BY <1>1, <2>1, <2>2, <2>3, FreshInside DEF VolumeInv
<1>8. QED
  BY <1>5, <1>6, <1>7

\* A step that reads nothing, lets no task begin unless the volume is forgotten, and
\* leaves the card alone.
LEMMA FreshAside ==
    ASSUME FreshInv, UNCHANGED <<card, during, vbr, win>>, valid' => valid,
           \A u \in Tasks : at'[u] # "idle" => at[u] # "idle",
           \A u \in Tasks : Begun(u)' => Begun(u) \/ (~valid' /\ \A x \in Tasks : stage'[x] # "bpb"),
           \A u \in Tasks : stage'[u] \in {"boot", "partition", "bpb"} => stage'[u] = stage[u]
    PROVE  FreshInv'
<1>1. ASSUME NEW u \in Tasks, Begun(u)'
      PROVE  /\ valid' => vbr \in during[u] /\ (win.sect # <<>> => win.vol \in during[u])
             /\ \A x \in Tasks : stage'[x] = "bpb" => win.vol \in during[u]
  <2>1. CASE Begun(u)
    BY <2>1 DEF FreshInv
  <2>2. CASE ~valid' /\ \A x \in Tasks : stage'[x] # "bpb"
    BY <2>2
  <2>3. QED
    BY <1>1, <2>1, <2>2
<1>2. \A u \in Tasks : stage'[u] \in {"boot", "partition", "bpb"} => ~valid'
  BY DEF FreshInv
<1>3. QED
  BY <1>1, <1>2 DEF FreshInv

LEMMA FreshInit ==
    ASSUME FatInit
    PROVE  FreshInv
<1>1. /\ \A t \in Tasks : stage[t] = "out" /\ at[t] = "idle"
      /\ during \in [Tasks -> SUBSET Volumes]
  BY DEF FatInit
<1>2. \A t \in Tasks : ~Begun(t)
  BY <1>1 DEF Begun
<1>3. QED
  BY <1>1, <1>2 DEF FreshInv

\* The host, the commands and the calls.
LEMMA FreshOutside ==
    ASSUME VolumeInv, FreshInv,
           Swap \/ PlayCommand \/ LsCommand \/ EndList \/ ConsoleChecks
    PROVE  FreshInv'
<1>1. /\ at \in [Tasks -> Ats] /\ stage \in [Tasks -> Pcs]
      /\ \A t \in Tasks : stage[t] \in Stages(at[t])
      /\ card \in Volumes /\ during \in [Tasks -> SUBSET Volumes]
      /\ "player" \in Tasks /\ "console" \in Tasks
  BY DEF VolumeInv, FsTyped, ProgramInv, FreshInv, Tasks
<1>2. CASE Swap
  <2>1. PICK v \in Volumes \ {card} :
           /\ card' = v
           /\ during' = [t \in Tasks |-> IF at[t] = "idle" THEN {} ELSE during[t] \cup {v}]
    BY <1>2 DEF Swap
  <2>2. UNCHANGED <<valid, vbr, win, at, stage>>
    BY <1>2 DEF Swap, fsVars
  <2>3. during' \in [Tasks -> SUBSET Volumes]
    BY <1>1, <2>1
  <2>4. \A t \in Tasks : at'[t] # "idle" => card' \in during'[t] /\ \A x \in during[t] : x \in during'[t]
    BY <2>1, <2>2
  <2>5. \A t \in Tasks : Begun(t)' => Begun(t) /\ at'[t] # "idle"
    BY <2>2 DEF Begun
  <2>6. QED
    BY <2>2, <2>3, <2>4, <2>5 DEF FreshInv
<1>3. ASSUME NEW t \in Tasks, at[t] = "idle", at' = [at EXCEPT ![t] = "mount"],
             during' = [during EXCEPT ![t] = {card}],
             UNCHANGED <<card, valid, vbr, win, stage>>
      PROVE  FreshInv'
  <2>1. stage[t] = "out" /\ at'[t] = "mount" /\ during'[t] = {card}
    BY <1>1, <1>3 DEF Stages
  <2>2. \A u \in Tasks \ {t} : at'[u] = at[u] /\ during'[u] = during[u]
    BY <1>1, <1>3
  <2>3. during' \in [Tasks -> SUBSET Volumes]
    BY <1>1, <1>3
  <2>4. ~Begun(t)'
    BY <1>3, <2>1 DEF Begun
  <2>5. \A u \in Tasks : Begun(u)' => Begun(u) /\ during'[u] = during[u]
    BY <1>3, <2>2, <2>4 DEF Begun
  <2>6. \A u \in Tasks : at'[u] # "idle" => card' \in during'[u]
    BY <1>3, <2>1, <2>2 DEF FreshInv
  <2>7. QED
    BY <1>3, <2>3, <2>5, <2>6 DEF FreshInv
<1>4. CASE PlayCommand
  BY <1>1, <1>3, <1>4 DEF PlayCommand, fsVars
<1>5. CASE LsCommand
  BY <1>1, <1>3, <1>5 DEF LsCommand, fsVars
<1>6. CASE EndList \/ ConsoleChecks
  <2>1. UNCHANGED <<card, during, valid, vbr, win>> /\ at["console"] # "idle"
    BY <1>1, <1>6 DEF EndList, ConsoleChecks, hostVars, fsVars, Stages
  <2>2. /\ stage' = stage \/ stage' = [stage EXCEPT !["console"] = "out"]
        /\ \E a : at' = [at EXCEPT !["console"] = a] /\ a # "mount"
    <3>1. CASE EndList
      <4>1. at' = [at EXCEPT !["console"] = "idle"] /\ stage' = stage /\ "idle" # "mount"
        BY <3>1 DEF EndList
      <4>2. QED
        BY <4>1
    <3>2. CASE ConsoleChecks
      <4>1. at["console"] \in {"mount", "opendir", "ls_opendir", "readdir"}
        BY <1>1, <3>2 DEF ConsoleChecks, Stages, Ats, VolumeInv, ProgramInv
      <4>2. PICK a : /\ at' = [at EXCEPT !["console"] = a]
                     /\ a = CASE at["console"] = "mount" -> "opendir"
                              [] at["console"] = "opendir" -> "ls_opendir"
                              [] OTHER -> IF res # "ok" THEN "idle"
                                          ELSE IF at["console"] = "readdir" /\ fno = End THEN "listed"
                                          ELSE "readdir"
        BY <1>1, <3>2 DEF ConsoleChecks
      <4>3. a # "mount"
        BY <4>1, <4>2
      <4>4. QED
        BY <3>2, <4>2, <4>3 DEF ConsoleChecks, Proceed
    <3>3. QED
      BY <1>6, <3>1, <3>2
  <2>3. PICK a : at' = [at EXCEPT !["console"] = a] /\ a # "mount"
    BY <2>2
  <2>4. /\ at'["console"] = a /\ at'["player"] = at["player"]
        /\ stage'["player"] = stage["player"] /\ stage'["console"] \in {stage["console"], "out"}
    BY <1>1, <2>2, <2>3
  <2>5. \A u \in Tasks : /\ at'[u] # "idle" => at[u] # "idle"
                         /\ stage'[u] \in {"boot", "partition", "bpb"} => stage'[u] = stage[u]
    BY <2>1, <2>4 DEF Tasks
  <2>6. Begun("console")' => Begun("console")
    BY <1>6, <2>1, <2>2, <2>3, <2>4 DEF Begun, EndList, ConsoleChecks
  <2>7. Begun("player")' => Begun("player")
    BY <2>4 DEF Begun
  <2>8. \A u \in Tasks : Begun(u)' => Begun(u)
    BY <2>6, <2>7 DEF Tasks
  <2>9. QED
    BY <2>1, <2>5, <2>8, FreshAside
<1>7. QED
  BY <1>2, <1>4, <1>5, <1>6

LEMMA FreshEnter ==
    ASSUME VolumeInv, FreshInv, NEW t \in Tasks, Enter(t)
    PROVE  FreshInv'
<1>1. /\ at \in [Tasks -> Ats] /\ stage \in [Tasks -> Pcs]
      /\ stage[t] = "out" /\ at[t] # "idle" /\ \A u \in Tasks : stage[u] \in {"out", "done"}
      /\ UNCHANGED <<card, during, vbr, win>>
  BY DEF VolumeInv, ProgramInv, Enter, Inside, hostVars
<1>2. CASE at[t] = "unmount"
  <2>1. valid' = FALSE /\ at' = [at EXCEPT ![t] = "idle"] /\ stage' = stage
    BY <1>2 DEF Enter
  <2>2. \A u \in Tasks : at'[u] # "idle" => at[u] # "idle"
    BY <1>1, <2>1
  <2>3. \A u \in Tasks : stage'[u] \notin {"boot", "partition", "bpb"}
    BY <1>1, <2>1
  <2>4. QED
    BY <1>1, <2>1, <2>2, <2>3, FreshAside
<1>3. CASE at[t] # "unmount"
  <2>1. PICK p \in {"mount", "validate"} :
           /\ Proceed(t, p) /\ at' = at /\ (valid' => valid) /\ (at[t] = "mount" => ~valid')
    BY <1>3 DEF Enter, ForgetVolume
  <2>2. stage' = [stage EXCEPT ![t] = p]
    BY <2>1 DEF Proceed
  <2>3. stage'[t] = p /\ \A u \in Tasks \ {t} : stage'[u] = stage[u]
    BY <1>1, <2>2
  <2>4. \A u \in Tasks : stage'[u] \notin {"boot", "partition", "bpb"}
    BY <1>1, <2>3
  <2>5. \A u \in Tasks : Begun(u)' => Begun(u) \/ ~valid'
    BY <1>1, <2>1, <2>3 DEF Begun
  <2>6. QED
    BY <1>1, <2>1, <2>4, <2>5, FreshAside
<1>4. QED
  BY <1>2, <1>3

\* The functions behind the mount: their steps read from the card, of the FAT, of a
\* directory and of a file.
LEMMA FreshReading ==
    ASSUME Formatted, VolumeInv, FreshInv,
           \/ OpenFind \/ OpenNext \/ ReadStart \/ ReadCluster \/ ReadSector
           \/ ReaddirStart \/ ReaddirEntry \/ ReaddirNext
    PROVE  FreshInv'
<1>1. /\ at \in [Tasks -> Ats] /\ stage \in [Tasks -> Pcs]
      /\ "player" \in Tasks /\ "console" \in Tasks
  BY DEF VolumeInv, ProgramInv, Tasks
<1>2. UNCHANGED <<card, during, valid, vbr>>
  BY DEF OpenFind, OpenNext, ReadStart, ReadCluster, ReadSector,
         ReaddirStart, ReaddirEntry, ReaddirNext, hostVars, fsVars
<1>3. ASSUME NEW s, NEW ok, Window(s, ok)
      PROVE  win' = win \/ win'.sect = <<>> \/ win'.vol = card
  BY <1>3 DEF Window, NoWindow, Null
<1>4. ASSUME NEW c, NEW val, GetFat(c, val)
      PROVE  win' = win \/ win'.sect = <<>> \/ win'.vol = card
  BY <1>3, <1>4 DEF GetFat
<1>5. ASSUME NEW d \in {"current", "open"}, NEW r, DirNext(d, r)
      PROVE  win' = win \/ win'.sect = <<>> \/ win'.vol = card
  BY <1>4, <1>5, NextIs DEF VolumeInv
<1>6. win' = win \/ win'.sect = <<>> \/ win'.vol = card
  <2>1. CASE OpenFind \/ ReaddirEntry
    BY <1>3, <2>1 DEF OpenFind, ReaddirEntry
  <2>2. CASE OpenNext \/ ReaddirNext
    BY <1>5, <2>2 DEF OpenNext, ReaddirNext
  <2>3. CASE ReadCluster
    BY <1>4, <2>3 DEF ReadCluster
  <2>4. CASE ReadStart \/ ReadSector \/ ReaddirStart
    BY <2>4 DEF ReadStart, ReadSector, ReaddirStart
  <2>5. QED
    BY <2>1, <2>2, <2>3, <2>4
<1>7. ASSUME NEW t \in Tasks, NEW r, Return(t, r)
      PROVE  /\ \A u \in Tasks \ {t} : at'[u] = at[u] /\ stage'[u] = stage[u]
             /\ stage'[t] \notin {"boot", "partition", "bpb"}
  BY <1>1, <1>7 DEF Return, Proceed, Tasks
<1>8. ASSUME NEW t \in Tasks, NEW p \in PlayerPcs \cup ConsolePcs, Proceed(t, p), at' = at
      PROVE  /\ \A u \in Tasks \ {t} : at'[u] = at[u] /\ stage'[u] = stage[u]
             /\ stage'[t] \notin {"boot", "partition", "bpb"}
  BY <1>1, <1>8 DEF Proceed, Tasks, PlayerPcs, ConsolePcs
<1>9. \E t \in Tasks :
         /\ Inside(t) /\ \A u \in Tasks \ {t} : at'[u] = at[u] /\ stage'[u] = stage[u]
         /\ stage'[t] \notin {"boot", "partition", "bpb"}
  <2>1. {"find", "step", "cluster", "sector", "entry", "skip", "move"} \subseteq PlayerPcs \cup ConsolePcs
    BY DEF PlayerPcs, ConsolePcs
  <2>2. CASE OpenFind \/ OpenNext
    <3>1. Inside("player")
      BY <2>2 DEF OpenFind, OpenNext, Inside
    <3>2. (\E r : Return("player", r)) \/ \E p \in {"find", "step"} : Proceed("player", p) /\ at' = at
      BY <2>2 DEF OpenFind, OpenNext, Stay
    <3>3. QED
      BY <1>1, <1>7, <1>8, <2>1, <3>1, <3>2
  <2>3. CASE ReadStart \/ ReadCluster
    <3>1. Inside("player")
      BY <2>3 DEF ReadStart, ReadCluster, Inside
    <3>2. \/ \E r : Return("player", r)
          \/ \E p \in {"cluster", "sector"} : Proceed("player", p) /\ at' = at
      BY <2>3 DEF ReadStart, ReadCluster, Stay
    <3>3. QED
      BY <1>1, <1>7, <1>8, <2>1, <3>1, <3>2
  <2>4. CASE ReadSector
    <3>1. Inside("player")
      BY <2>4 DEF ReadSector, Inside
    <3>2. (\E r : Return("player", r)) \/ (Proceed("player", "cluster") /\ at' = at)
      BY <2>4 DEF ReadSector
    <3>3. QED
      BY <1>1, <1>7, <1>8, <2>1, <3>1, <3>2
  <2>5. CASE ReaddirStart \/ ReaddirEntry \/ ReaddirNext
    <3>1. Inside("console")
      BY <2>5 DEF ReaddirStart, ReaddirEntry, ReaddirNext, Inside
    <3>2. \/ \E r : Return("console", r)
          \/ \E p \in {"entry", "skip", "move"} : Proceed("console", p) /\ at' = at
      BY <2>5 DEF ReaddirStart, ReaddirEntry, ReaddirNext, Stay
    <3>3. QED
      BY <1>1, <1>7, <1>8, <2>1, <3>1, <3>2
  <2>6. QED
    BY <2>2, <2>3, <2>4, <2>5
<1>10. QED
  BY <1>2, <1>6, <1>9, FreshInside DEF VolumeInv

LEMMA FreshStep ==
    ASSUME Formatted, VolumeInv, VolumeInv', FreshInv, [FatNext]_fatVars
    PROVE  FreshInv'
<1>1. "player" \in Tasks /\ "console" \in Tasks
  BY DEF Tasks
<1>2. ASSUME NEW t \in Tasks, Call(t)
      PROVE  FreshInv'
  BY <1>2, FreshEnter, FreshMounting DEF Call
<1>3. CASE Player
  BY <1>1, <1>2, <1>3, FreshReading DEF Player
<1>4. CASE Console
  BY <1>1, <1>2, <1>4, FreshReading, FreshOutside DEF Console
<1>5. CASE Swap \/ PlayCommand \/ LsCommand
  BY <1>5, FreshOutside
<1>6. CASE UNCHANGED fatVars
  <2>1. UNCHANGED <<card, during, valid, vbr, win, at, stage>>
    BY <1>6 DEF fatVars, hostVars, fsVars
  <2>2. QED
    BY <2>1, FreshAside DEF Begun
<1>7. QED
  BY <1>3, <1>4, <1>5, <1>6 DEF FatNext

-----------------------------------------------------------------------------
(* What a play has read *)

LEMMA RootEntryTyped ==
    ASSUME Formatted, NEW v \in Volumes, NEW i \in Nat
    PROVE  RootEntry(v, i).size \in Nat /\ RootEntry(v, i).sclust \in Nat
<1> DEFINE m == Layout[v].csize * EntriesPerSector
           c == Cluster(v, Layout[v].root, i \div m)
<1>1. m \in Nat \ {0}
  <2>1. EntriesPerSector \in Nat \ {0} /\ Layout[v].csize \in Nat \ {0}
    BY SizesAre, ContentIs
  <2>2. 1 * EntriesPerSector <= m
    BY <2>1, Multiples
  <2>3. QED
    BY <2>1, <2>2
<1>2. RootEntry(v, i) = IF c \in Clusters(v) THEN Layout[v].entries[c][(i % m) + 1] ELSE End
  BY DEF RootEntry
<1>3. \A d \in Clusters(v) : \A k \in 1 .. m :
         Layout[v].entries[d][k].sclust \in Nat /\ Layout[v].entries[d][k].size \in Nat
  BY ContentIs
<1> HIDE DEF m, c
<1>4. (i % m) + 1 \in 1 .. m
  BY <1>1
<1>5. End.size = 0 /\ End.sclust = 0
  BY DEF End, Marker
<1>6. CASE c \in Clusters(v)
  BY <1>2, <1>3, <1>4, <1>6
<1>7. CASE c \notin Clusters(v)
  BY <1>2, <1>5, <1>7
<1>8. QED
  BY <1>6, <1>7

LEMMA FirstNamedTyped ==
    ASSUME Formatted, NEW v \in Volumes, Named(v) # {}
    PROVE  FirstNamed(v).size \in Nat /\ FirstNamed(v).sclust \in Nat
<1> DEFINE N == Named(v)
<1>1. N \subseteq Nat
  <2>1. DirSize(v) \in Nat
    BY SizesAre, LeadingExists DEF DirSize
  <2>2. QED
    BY <2>1 DEF Named
<1>2. \E i \in N : \A j \in N : i <= j
  BY <1>1, LeastOne
<1>3. (CHOOSE i \in N : \A j \in N : i <= j) \in N
  BY <1>2
<1>4. FirstNamed(v) = RootEntry(v, CHOOSE i \in N : \A j \in N : i <= j)
  BY DEF FirstNamed
<1> HIDE DEF N
<1>5. QED
  BY <1>1, <1>3, <1>4, RootEntryTyped

\* Nothing is the beginning of every file.
LEMMA EmptyPrefix ==
    ASSUME Formatted, NEW v \in Volumes
    PROVE  IsPrefix(<<>>, Files[v])
<1> DEFINE f == Files[v]
<1>1. f = FileIn(v)
  BY DEF Files
<1>2. \E n \in Nat : Len(f) = n /\ SubSeq(f, 1, 0) = <<>>
  <2>1. CASE f = <<>>
    BY <2>1
  <2>2. CASE f # <<>>
    <3>1. Named(v) # {} /\ f = UnitsIn(v, FirstNamed(v))
      BY <1>1, <2>2 DEF FileIn
    <3> DEFINE n == Leading(FirstNamed(v).size, InChain(v, FirstNamed(v)))
               u(i) == UnitOf(v, FirstNamed(v), i - 1)
               s == [i \in 1 .. n |-> u(i)]
    <3>2. n \in Nat
      BY <3>1, FirstNamedTyped, LeadingExists
    <3>3. f = s
      BY <3>1 DEF UnitsIn
    <3> HIDE DEF n, u
    <3>4. Len(s) = n /\ SubSeq(s, 1, 0) = <<>>
      <4>1. s \in Seq({u(i) : i \in 1 .. n})
        BY <3>2
      <4>2. QED
        BY <3>2, <4>1
    <3>5. QED
      BY <3>2, <3>3, <3>4
  <2>3. QED
    BY <2>1, <2>2
<1> HIDE DEF f
<1>3. Len(<<>>) = 0 /\ SubSeq(<<>>, 1, 0) = <<>>
  OBVIOUS
<1>4. IsPrefix(<<>>, f)
  BY <1>2, <1>3 DEF IsPrefix
<1>5. QED
  BY <1>4 DEF f

LEMMA InChainIs ==
    ASSUME fp.sclust = FirstNamed(card).sclust, fp.size = FirstNamed(card).size, fp.size \in Nat,
           NEW i \in Nat
    PROVE  i \in InChain(card, FirstNamed(card)) <=>
              i < fp.size /\ FileCluster(i) \in Clusters(card)
<1> DEFINE e == FirstNamed(card)
           u == UnitOf(card, e, i)
<1>1. u[2] = FileCluster(i)
  BY DEF FileCluster, UnitOf
<1>2. i \in 0 .. e.size - 1 <=> i < fp.size
  OBVIOUS
<1>3. i \in InChain(card, e) <=> i \in 0 .. e.size - 1 /\ u[2] \in Clusters(card)
  BY DEF InChain
<1> HIDE DEF e, u
<1>4. QED
  BY <1>1, <1>2, <1>3 DEF e

\* What has been read is the beginning of the file, and all of it where the size or
\* the chain of clusters ends.
LEMMA OfFileIs ==
    ASSUME Formatted, FsTyped, ReadInv, OfFile
    PROVE  /\ IsPrefix(taken, Files[card])
           /\ fp.fptr = fp.size \/ FileCluster(fp.fptr) \notin Clusters(card) => taken = Files[card]
<1> DEFINE e == FirstNamed(card)
           S == InChain(card, e)
           n == Leading(e.size, S)
<1>1. /\ card \in Volumes /\ fp.fptr \in Nat /\ fp.size \in Nat /\ fp.fptr <= fp.size
      /\ fp.fptr \in 0 .. fp.size
  BY DEF FsTyped, FileObjects, ReadInv
<1>2. /\ fp.sclust = e.sclust /\ fp.size = e.size
      /\ taken = FileUnits(fp.fptr) /\ 0 .. fp.fptr - 1 \subseteq S
  BY DEF OfFile
<1>3. Files[card] = FileUnits(n)
  BY <1>1, FilesIs DEF OfFile
<1> HIDE DEF n, S
<1>4. n \in 0 .. fp.size /\ fp.fptr <= n
  BY <1>1, <1>2, LeadingExists, LeadingAtLeast DEF n
<1>5. IsPrefix(taken, Files[card])
  BY <1>1, <1>2, <1>3, <1>4, UnitsPrefix
<1>6. ASSUME fp.fptr = fp.size \/ FileCluster(fp.fptr) \notin Clusters(card)
      PROVE  taken = Files[card]
  <2>1. fp.fptr < e.size => fp.fptr \notin S
    BY <1>1, <1>2, <1>6, InChainIs DEF S
  <2>2. n = fp.fptr
    BY <1>1, <1>2, <2>1, LeadingIs DEF n
  <2>3. QED
    BY <1>2, <1>3, <2>2
<1>7. QED
  BY <1>5, <1>6

PlayerInv == SearchInv /\ ObjectInv /\ ProgressInv /\ PlayInv

\* A step that leaves the player where it is, with its file and its directory object:
\* the volume is forgotten only in a play that is hurt.
LEMMA PlayerAside ==
    ASSUME PlayerInv, at'["player"] = at["player"], stage'["player"] = stage["player"],
           UNCHANGED <<card, fp, btr, got, taken>>, dirs'["open"] = dirs["open"],
           during'["player"] = during["player"],
           mounted => mounted', at["player"] # "idle" /\ hurt => hurt',
           at["player"] \in {"header", "loop"} /\ valid /\ ~hurt' => valid' /\ fsid' = fsid
    PROVE  PlayerInv'
<1>1. Undisturbed("player")' <=> Undisturbed("player")
  BY DEF Undisturbed
<1>2. SearchInv'
  BY <1>1 DEF PlayerInv, SearchInv, InRoot, DirCluster, Passed
<1>3. OfFile' <=> OfFile
  BY DEF OfFile, FileUnits
<1>4. ObjectInv'
  BY <1>1, <1>3 DEF PlayerInv, ObjectInv, FileCluster
<1>5. ProgressInv'
  BY <1>1 DEF PlayerInv, ProgressInv, FileCluster
<1>6. Begun("player")' <=> Begun("player")
  BY DEF Begun
<1>7. PlayInv'
  BY <1>1, <1>6 DEF PlayerInv, PlayInv
<1>8. QED
  BY <1>2, <1>4, <1>5, <1>7 DEF PlayerInv

LEMMA PlayerInit ==
    ASSUME Formatted, FatInit
    PROVE  PlayerInv
<1>1. /\ at["player"] = "idle" /\ stage["player"] = "out"
      /\ fp = NoFile /\ btr = 0 /\ got = 0 /\ taken = <<>>
  BY DEF FatInit, Tasks
<1>2. fp.fptr = 0 /\ fp.size = 0
  BY <1>1 DEF NoFile
<1>3. ~Undisturbed("player") /\ ~Begun("player")
  BY <1>1 DEF Undisturbed, Begun
<1>4. QED
  BY <1>1, <1>2, <1>3 DEF PlayerInv, SearchInv, ObjectInv, ProgressInv, PlayInv

\* The host, which exchanges the card under a play, and the commands.
LEMMA PlayerOutside ==
    ASSUME VolumeInv, FreshInv, PlayerInv,
           Swap \/ PlayCommand \/ LsCommand \/ EndList \/ ConsoleChecks
    PROVE  PlayerInv'
<1>1. /\ at \in [Tasks -> Ats] /\ stage \in [Tasks -> Pcs]
      /\ \A t \in Tasks : stage[t] \in Stages(at[t])
      /\ during \in [Tasks -> SUBSET Volumes]
      /\ "player" \in Tasks /\ "console" \in Tasks
  BY DEF VolumeInv, ProgramInv, FreshInv, Tasks
<1>2. CASE Swap
  <2>1. PICK v \in Volumes \ {card} :
           /\ card' = v
           /\ during' = [t \in Tasks |-> IF at[t] = "idle" THEN {} ELSE during[t] \cup {v}]
    BY <1>2 DEF Swap
  <2>2. UNCHANGED <<mounted, valid, fsid, fp, btr, got, taken, at, stage, hurt>>
    BY <1>2 DEF Swap, fsVars, readVars, diskVars
  <2>3. ~Undisturbed("player")'
    BY <1>1, <2>1, <2>2 DEF Undisturbed, FreshInv
  <2>4. Begun("player")' <=> Begun("player")
    BY <2>2 DEF Begun
  <2>5. SearchInv' /\ ObjectInv'
    BY <2>3 DEF SearchInv, ObjectInv
  <2>6. ProgressInv'
    BY <2>2, <2>3 DEF PlayerInv, ProgressInv
  <2>7. PlayInv'
    BY <2>2, <2>3, <2>4 DEF PlayerInv, PlayInv
  <2>8. QED
    BY <2>5, <2>6, <2>7 DEF PlayerInv
<1>3. CASE PlayCommand
  <2>1. /\ at'["player"] = "mount" /\ stage' = stage /\ stage["player"] = "out" /\ taken' = <<>>
        /\ UNCHANGED <<mounted, valid, fsid, fp, btr, got>>
    BY <1>1, <1>3 DEF PlayCommand, fsVars, Stages
  <2>2. ~Begun("player")'
    BY <2>1 DEF Begun
  <2>3. SearchInv' /\ ObjectInv'
    BY <2>1 DEF SearchInv, ObjectInv
  <2>4. ProgressInv'
    BY <2>1 DEF PlayerInv, ProgressInv
  <2>5. PlayInv'
    BY <2>1, <2>2 DEF PlayerInv, PlayInv
  <2>6. QED
    BY <2>3, <2>4, <2>5 DEF PlayerInv
<1>4. CASE LsCommand \/ EndList \/ ConsoleChecks
  <2>1. UNCHANGED <<card, mounted, valid, fsid, fp, btr, got, taken, hurt, dirs>>
    BY <1>4 DEF LsCommand, EndList, ConsoleChecks, hostVars, fsVars, readVars,
                diskVars
  <2>2. during'["player"] = during["player"]
    BY <1>1, <1>4 DEF LsCommand, EndList, ConsoleChecks, hostVars
  <2>3. at'["player"] = at["player"] /\ stage'["player"] = stage["player"]
    BY <1>1, <1>4 DEF LsCommand, EndList, ConsoleChecks, Proceed
  <2>4. QED
    BY <2>1, <2>2, <2>3, PlayerAside
<1>5. QED
  BY <1>2, <1>3, <1>4

\* A play that is hurt stays hurt.
LEMMA HurtStays ==
    ASSUME at["player"] # "idle", hurt
    PROVE  /\ \A sects, ok : Disk(sects, ok) => hurt'
           /\ \A s, ok : Window(s, ok) => hurt'
           /\ \A c, val : GetFat(c, val) => hurt'
           /\ \A obj, ok : Validate(obj, ok) => hurt'
           /\ UNCHANGED diskVars => hurt'
<1>1. UNCHANGED diskVars => hurt'
  BY DEF diskVars
<1>2. \A sects, ok : Disk(sects, ok) => hurt'
  BY DEF Disk
<1>3. \A s, ok : Window(s, ok) => hurt'
  BY <1>2 DEF Window, diskVars
<1>4. \A c, val : GetFat(c, val) => hurt'
  BY <1>3 DEF GetFat, diskVars
<1>5. \A obj, ok : Validate(obj, ok) => hurt'
  BY <1>2 DEF Validate, diskVars
<1>6. QED
  BY <1>1, <1>2, <1>3, <1>4, <1>5

LEMMA HurtNext ==
    ASSUME Formatted, FsTyped, NEW d \in {"current", "open"}, NEW r, DirNext(d, r),
           at["player"] # "idle", hurt
    PROVE  hurt'
BY NextIs, HurtStays

\* The console's steps leave the player's file, and forget the volume only with a
\* mount or a fault.
LEMMA PlayerBesideCalls ==
    ASSUME Formatted, VolumeInv, FreshInv, PlayerInv, Call("console")
    PROVE  PlayerInv'
<1>1. /\ at \in [Tasks -> Ats] /\ stage \in [Tasks -> Pcs]
      /\ \A t \in Tasks : stage[t] \in Stages(at[t])
      /\ at["console"] \notin {"open", "header", "loop", "unmount"}
      /\ "player" \in Tasks /\ "console" \in Tasks
      /\ dirs \in [{"current", "open"} -> DirObjects]
  BY DEF VolumeInv, ProgramInv, FsTyped, Tasks
<1>2. CASE Enter("console")
  <2>1. UNCHANGED <<card, during, fsid, dirs, fp, btr, got>>
    BY <1>2 DEF Enter, hostVars
  <2>2. /\ taken' = taken /\ at' = at /\ (\E p : Proceed("console", p))
        /\ mounted => mounted'
        /\ valid' = valid \/ at["console"] = "mount"
        /\ hurt' = (at'["player"] # "idle" /\ (hurt \/ at["console"] = "mount"))
    BY <1>1, <1>2 DEF Enter
  <2>3. stage'["player"] = stage["player"]
    BY <1>1, <2>2 DEF Proceed
  <2>4. at["player"] \in {"header", "loop"} /\ valid /\ ~hurt' => valid' /\ fsid' = fsid
    BY <2>1, <2>2
  <2>5. at["player"] # "idle" /\ hurt => hurt'
    BY <2>2
  <2>6. QED
    BY <2>1, <2>2, <2>3, <2>4, <2>5, PlayerAside
<1>3. CASE MountVolume("console") \/ CheckFs("console") \/ ReadBpb("console")
  <2>1. /\ at'["player"] = at["player"] /\ stage'["player"] = stage["player"]
        /\ UNCHANGED <<card, during, mounted, taken>> /\ stage["console"] \in Mounting
    BY <1>1, <1>3, InsideStep DEF VolumeInv
  <2>2. at["console"] # "open"
    BY <1>1
  <2>3. ASSUME NEW r, Return("console", r) PROVE UNCHANGED <<btr, got>>
    BY <2>3 DEF Return
  <2>4. ASSUME Refuse("console") PROVE UNCHANGED <<fp, btr, got>> /\ dirs'["open"] = dirs["open"]
    BY <1>1, <2>2, <2>3, <2>4 DEF Refuse
  <2>5. ASSUME NEW id, NEW v, Mounted("console", id, v)
        PROVE  UNCHANGED <<fp, btr, got>> /\ dirs'["open"] = dirs["open"]
    BY <1>1, <2>2, <2>3, <2>4, <2>5 DEF Mounted
  <2>6. UNCHANGED <<fp, btr, got>> /\ dirs'["open"] = dirs["open"]
    <3>1. CASE MountVolume("console")
      BY <2>4, <2>5, <3>1 DEF MountVolume, Stay
    <3>2. CASE CheckFs("console")
      BY <2>4, <3>2 DEF CheckFs, Stay
    <3>3. CASE ReadBpb("console")
      BY <2>4, <2>5, <3>3 DEF ReadBpb
    <3>4. QED
      BY <1>3, <3>1, <3>2, <3>3
  <2>7. at["player"] # "idle" /\ hurt => hurt'
    <3>1. CASE MountVolume("console")
      BY <3>1, HurtStays DEF MountVolume
    <3>2. CASE CheckFs("console")
      BY <3>2, HurtStays DEF CheckFs
    <3>3. CASE ReadBpb("console")
      BY <3>3, HurtStays DEF ReadBpb
    <3>4. QED
      BY <1>3, <3>1, <3>2, <3>3
  <2>8. at["player"] \in {"header", "loop"} /\ valid /\ ~hurt' => valid' /\ fsid' = fsid
    <3>1. CASE MountVolume("console")
      <4>1. \/ valid' = valid
            \/ Disk({}, FALSE)
        BY <3>1 DEF MountVolume
      <4>2. fsid' = fsid
        BY <3>1 DEF MountVolume
      <4>3. QED
        BY <4>1, <4>2 DEF Disk
    <3>2. CASE CheckFs("console")
      BY <3>2 DEF CheckFs, fsVars
    <3>3. CASE ReadBpb("console")
      <4>1. ~valid
        BY <1>1, <3>3 DEF ReadBpb, FreshInv
      <4>2. QED
        BY <4>1
    <3>4. QED
      BY <1>3, <3>1, <3>2, <3>3
  <2>9. during'["player"] = during["player"]
    BY <2>1
  <2>10. QED
    BY <2>1, <2>6, <2>7, <2>8, <2>9, PlayerAside
<1>4. QED
  BY <1>2, <1>3 DEF Call

LEMMA PlayerBesideList ==
    ASSUME Formatted, VolumeInv, PlayerInv, ReaddirStart \/ ReaddirEntry \/ ReaddirNext
    PROVE  PlayerInv'
<1>1. /\ at \in [Tasks -> Ats] /\ stage \in [Tasks -> Pcs]
      /\ "player" \in Tasks /\ "console" \in Tasks
      /\ dirs \in [{"current", "open"} -> DirObjects]
  BY DEF VolumeInv, ProgramInv, FsTyped, Tasks
<1>2. UNCHANGED <<card, during, mounted, valid, fsid, fp, taken>>
  BY DEF ReaddirStart, ReaddirEntry, ReaddirNext, hostVars, fsVars, readVars
<1>3. ASSUME NEW r, Return("console", r)
      PROVE  UNCHANGED <<btr, got, at>> /\ stage'["player"] = stage["player"]
  BY <1>1, <1>3 DEF Return, Proceed
<1>4. ASSUME NEW p, Proceed("console", p), Stay
      PROVE  UNCHANGED <<btr, got, at>> /\ stage'["player"] = stage["player"]
  BY <1>1, <1>4 DEF Proceed, Stay
<1>5. CASE ReaddirStart
  <2>1. UNCHANGED <<btr, got, at>> /\ stage'["player"] = stage["player"] /\ dirs' = dirs
    BY <1>3, <1>4, <1>5 DEF ReaddirStart
  <2>2. at["player"] # "idle" /\ hurt => hurt'
    BY <1>5, HurtStays DEF ReaddirStart
  <2>3. QED
    BY <1>2, <2>1, <2>2, PlayerAside
<1>6. CASE ReaddirEntry
  <2>1. /\ UNCHANGED <<btr, got, at>> /\ stage'["player"] = stage["player"]
        /\ dirs' = dirs \/ dirs' = [dirs EXCEPT !["current"].sect = <<>>]
    BY <1>3, <1>4, <1>6 DEF ReaddirEntry, Null
  <2>2. dirs'["open"] = dirs["open"]
    BY <1>1, <2>1
  <2>3. at["player"] # "idle" /\ hurt => hurt'
    BY <1>6, HurtStays DEF ReaddirEntry
  <2>4. QED
    BY <1>2, <2>1, <2>2, <2>3, PlayerAside
<1>7. CASE ReaddirNext
  <2>1. UNCHANGED <<btr, got, at>> /\ stage'["player"] = stage["player"]
    BY <1>3, <1>4, <1>7 DEF ReaddirNext
  <2>2. PICK r \in Results : DirNext("current", r)
    BY <1>7 DEF ReaddirNext
  <2>3. dirs'["open"] = dirs["open"]
    <3>1. \E s, p, c : Put("current", s, p, c)
      BY <2>2, NextIs DEF VolumeInv
    <3>2. QED
      BY <1>1, <3>1 DEF Put
  <2>4. at["player"] # "idle" /\ hurt => hurt'
    BY <2>2, HurtNext DEF VolumeInv
  <2>5. QED
    BY <1>2, <2>1, <2>3, <2>4, PlayerAside
<1>8. QED
  BY <1>5, <1>6, <1>7

\* The player calls the next function.
LEMMA PlayerEnter ==
    ASSUME VolumeInv, PlayerInv, Enter("player")
    PROVE  PlayerInv'
<1>1. /\ at \in [Tasks -> Ats] /\ stage \in [Tasks -> Pcs] /\ "player" \in Tasks
      /\ at["player"] \notin {"ls_opendir", "readdir", "listed", "idle"} /\ stage["player"] = "out"
      /\ UNCHANGED <<card, during, fsid, dirs, fp, btr, got>>
  BY DEF VolumeInv, ProgramInv, Tasks, Enter, hostVars
<1>2. btr = 0 /\ got = 0
  BY <1>1 DEF PlayerInv, PlayInv
<1>3. CASE at["player"] = "unmount"
  <2>1. at'["player"] = "idle" /\ taken' = <<>> /\ stage' = stage
    BY <1>1, <1>3 DEF Enter
  <2>2. ~Begun("player")' /\ ~Undisturbed("player")'
    BY <2>1 DEF Begun, Undisturbed
  <2>3. SearchInv' /\ ObjectInv'
    BY <2>2 DEF SearchInv, ObjectInv
  <2>4. ProgressInv'
    BY <1>1, <2>1 DEF PlayerInv, ProgressInv
  <2>5. PlayInv'
    BY <1>1, <1>2, <2>1, <2>2 DEF PlayInv
  <2>6. QED
    BY <2>3, <2>4, <2>5 DEF PlayerInv
<1>4. CASE at["player"] # "unmount"
  <2>1. PICK p \in {"mount", "validate"} :
           /\ Proceed("player", p) /\ at' = at /\ taken' = taken
           /\ IF p = "mount" THEN at["player"] \in {"mount", "opendir", "open"}
              ELSE at["player"] \in {"header", "loop"} /\ valid' = valid
           /\ mounted' = mounted \/ mounted'
           /\ at["player"] = "mount" => mounted'
           /\ hurt' = hurt \/ hurt' = (at'["player"] # "idle" /\ hurt)
    BY <1>1, <1>4 DEF Enter
  <2>2. stage'["player"] = p
    BY <1>1, <2>1 DEF Proceed
  <2>3. Undisturbed("player")' <=> Undisturbed("player")
    BY <1>1, <2>1 DEF Undisturbed
  <2>4. SearchInv'
    BY <2>2 DEF SearchInv
  <2>5. OfFile' <=> OfFile
    BY <1>1, <2>1 DEF OfFile, FileUnits
  <2>6. hurt' <=> hurt
    <3>1. at'["player"] # "idle"
      BY <1>1, <2>1
    <3>2. CASE hurt' = hurt
      BY <3>2
    <3>3. CASE hurt' = (at'["player"] # "idle" /\ hurt)
      BY <3>1, <3>3
    <3>4. QED
      BY <2>1, <3>2, <3>3
  <2>7. ObjectInv'
    BY <1>1, <2>1, <2>3, <2>5, <2>6 DEF PlayerInv, ObjectInv, FileCluster
  <2>8. ProgressInv'
    BY <1>1, <2>2 DEF PlayerInv, ProgressInv
  <2>9. Begun("player") \/ at["player"] = "mount"
    BY <1>1 DEF Begun
  <2>10. mounted'
    BY <1>1, <2>1, <2>9 DEF PlayerInv, PlayInv
  <2>11. PlayInv'
    BY <1>1, <1>2, <1>4, <2>1, <2>2, <2>6, <2>10 DEF PlayerInv, PlayInv
  <2>12. QED
    BY <2>4, <2>7, <2>8, <2>11 DEF PlayerInv
<1>5. QED
  BY <1>3, <1>4

\* A step of the player before its file is open.
LEMMA PlayerBefore ==
    ASSUME PlayerInv, Begun("player"), at["player"] \in {"mount", "opendir", "open"},
           UNCHANGED <<card, during, mounted, taken>>,
           fp'.fptr = fp.fptr, fp'.size = fp.size,
           stage'["player"] \in Mounting \cup {"out", "find", "step"}, SearchInv',
           \/ at'["player"] \in {"mount", "opendir", "open"}
           \/ /\ at'["player"] = "unmount" /\ IsPrefix(<<>>, Files[card])
              /\ Undisturbed("player") /\ ~hurt' => Files[card] = <<>>,
           IF stage'["player"] = "out" THEN btr' = 0 /\ got' = 0 ELSE got' = got /\ stage["player"] # "out"
    PROVE  PlayerInv'
<1>1. taken = <<>> /\ mounted
  BY DEF PlayerInv, PlayInv
<1>2. ObjectInv'
  BY DEF ObjectInv
<1>3. stage'["player"] \notin {"cluster", "sector"}
  BY DEF Mounting
<1>4. ProgressInv'
  BY <1>3 DEF PlayerInv, ProgressInv
<1>5. Undisturbed("player")' => Undisturbed("player")
  BY DEF Undisturbed
<1>6. stage'["player"] # "out" => got' = 0
  BY DEF PlayerInv, PlayInv
<1>7. PlayInv'
  BY <1>1, <1>5, <1>6 DEF PlayInv
<1>8. QED
  BY <1>2, <1>4, <1>7 DEF PlayerInv

\* What a task that nobody has disturbed knows of the volume it uses.
LEMMA SeesCard ==
    ASSUME FreshInv, NEW t \in Tasks, Begun(t), Undisturbed(t)
    PROVE  /\ valid => vbr = card /\ (win.sect # <<>> => win.vol = card)
           /\ stage[t] = "bpb" => win.vol = card
BY DEF FreshInv, Undisturbed

\* A content whose root directory has no cluster.
LEMMA NoRoot ==
    ASSUME Formatted, NEW v \in Volumes, Layout[v].root \notin Clusters(v)
    PROVE  RootEntry(v, 0) = End /\ Files[v] = <<>>
<1>1. EntriesPerSector \in Nat \ {0} /\ Layout[v].csize \in Nat \ {0} /\ MaxDir \in Nat \ {0}
  BY SizesAre, ContentIs
<1>2. 0 \div (Layout[v].csize * EntriesPerSector) = 0
  <2>1. 1 * EntriesPerSector <= Layout[v].csize * EntriesPerSector
    BY <1>1, Multiples
  <2> DEFINE m == Layout[v].csize * EntriesPerSector
  <2>2. m \in Nat \ {0}
    BY <1>1, <2>1
  <2> HIDE DEF m
  <2>3. 0 \div m = 0
    BY <2>2
  <2>4. QED
    BY <2>3 DEF m
<1>3. Cluster(v, Layout[v].root, 0) = Layout[v].root
  BY ClusterNext
<1>4. RootEntry(v, 0) = End
  BY <1>2, <1>3 DEF RootEntry
<1>5. 0 \in 0 .. MaxDir /\ \A i \in 0 .. 0 - 1 : FALSE
  BY <1>1
<1>6. QED
  BY <1>4, <1>5, NoFileIs

\* The root directory is where a search begins.
LEMMA AtRoot ==
    ASSUME Formatted, card \in Volumes, NEW id \in Nat
    PROVE  InRoot(RootStart(id, card))
<1>1. EntriesPerSector \in Nat \ {0} /\ Layout[card].csize \in Nat \ {0} /\ MaxDir \in Nat \ {0}
  BY SizesAre, ContentIs
<1>2. 0 \div (Layout[card].csize * EntriesPerSector) = 0
  <2>1. 1 * EntriesPerSector <= Layout[card].csize * EntriesPerSector
    BY <1>1, Multiples
  <2> DEFINE m == Layout[card].csize * EntriesPerSector
  <2>2. m \in Nat \ {0}
    BY <1>1, <2>1
  <2> HIDE DEF m
  <2>3. 0 \div m = 0
    BY <2>2
  <2>4. QED
    BY <2>3 DEF m
<1>3. DirCluster(0) = Layout[card].root
  BY <1>2, ClusterNext DEF DirCluster
<1>4. QED
  BY <1>1, <1>3 DEF InRoot, RootStart

\* mount_volume of the player: the root directory, or no file.
LEMMA PlayerMounted ==
    ASSUME Formatted, VolumeInv, FreshInv, PlayerInv, stage["player"] \in Mounting,
           UNCHANGED <<card, during, mounted, taken>>, NEW id \in Nat, NEW v \in Volumes,
           Mounted("player", id, v), Undisturbed("player") => v = card
    PROVE  PlayerInv'
<1>1. Inside("player") /\ "player" \in Tasks
  BY DEF Inside, Mounting, Tasks
<1>2. /\ Begun("player") /\ at["player"] \in {"mount", "opendir", "open"}
      /\ dirs \in [{"current", "open"} -> DirObjects] /\ fp \in FileObjects /\ card \in Volumes
      /\ stage \in [Tasks -> Pcs]
  BY <1>1, InsideBegun DEF VolumeInv, ProgramInv, FsTyped
<1>3. "ok" \in Results /\ "error" \in Results
  BY DEF Results
<1>4. ASSUME NEW r \in Results, Return("player", r)
      PROVE  stage'["player"] = "out" /\ at'["player"] = NextCall(r) /\ btr' = 0 /\ got' = 0 /\ SearchInv'
  <2>1. stage'["player"] = "out" /\ at'["player"] = NextCall(r) /\ btr' = 0 /\ got' = 0
    BY <1>1, <1>4, Returned DEF VolumeInv
  <2>2. QED
    BY <2>1 DEF SearchInv
<1> DEFINE start == RootStart(id, v)
<1>5. CASE at["player"] = "mount" /\ Return("player", "ok") /\ UNCHANGED <<dirs, fp>>
  <2>1. at'["player"] = "opendir"
    BY <1>3, <1>4, <1>5 DEF NextCall
  <2>2. QED
    BY <1>2, <1>3, <1>4, <1>5, <2>1, PlayerBefore
<1>6. CASE at["player"] # "mount" /\ start.sect = Null /\ Refuse("player")
  <2>1. Return("player", "error") /\ fp'.fptr = fp.fptr /\ fp'.size = fp.size
    BY <1>1, <1>6, Refused DEF VolumeInv
  <2>2. at'["player"] = IF at["player"] = "opendir" THEN "open" ELSE "unmount"
    BY <1>2, <1>3, <1>4, <1>6, <2>1 DEF NextCall
  <2>3. Layout[v].root \notin Clusters(v)
    BY <1>6, RootIs DEF Null
  <2>4. Undisturbed("player") => Files[card] = <<>>
    BY <2>3, NoRoot
  <2>5. IsPrefix(<<>>, Files[card])
    BY <1>2, EmptyPrefix
  <2>6. QED
    BY <1>2, <1>3, <1>4, <2>1, <2>2, <2>4, <2>5, PlayerBefore
<1>7. CASE at["player"] = "opendir" /\ Return("player", "ok") /\ UNCHANGED fp
  <2>1. at'["player"] = "open"
    BY <1>3, <1>4, <1>7 DEF NextCall
  <2>2. QED
    BY <1>2, <1>3, <1>4, <1>7, <2>1, PlayerBefore
<1>8. CASE /\ at["player"] = "open"
           /\ dirs' = [dirs EXCEPT !["open"] = start]
           /\ Proceed("player", "find") /\ Stay /\ UNCHANGED fp
  <2>1. stage'["player"] = "find" /\ UNCHANGED <<at, btr, got, fp>> /\ dirs'["open"] = start
    BY <1>1, <1>2, <1>8 DEF Proceed, Stay
  <2>2. SearchInv'
    <3>1. ASSUME Undisturbed("player")'
          PROVE  InRoot(dirs["open"])' /\ dirs'["open"].dptr = 0
      <4>1. v = card
        BY <2>1, <3>1 DEF Undisturbed
      <4>2. InRoot(start) /\ start.dptr = 0
        BY <1>2, <4>1, AtRoot, RootIs
      <4>3. QED
        BY <2>1, <4>2 DEF InRoot, DirCluster
    <3>2. \A i \in 0 .. 0 - 1 : FALSE
      OBVIOUS
    <3>3. QED
      BY <2>1, <3>1, <3>2 DEF SearchInv, InRoot, DirCluster
  <2>3. stage["player"] # "out"
    BY DEF Mounting
  <2>4. QED
    BY <1>2, <1>8, <2>1, <2>2, <2>3, PlayerBefore
<1>9. at["player"] # "ls_opendir"
  BY <1>2
<1>10. QED
  BY <1>5, <1>6, <1>7, <1>8, <1>9 DEF Mounted

\* A player that gives up at its mount: it is hurt, or there is no file.
LEMMA PlayerRefused ==
    ASSUME Formatted, VolumeInv, PlayerInv, stage["player"] \in Mounting,
           UNCHANGED <<card, during, mounted, taken>>, Refuse("player"),
           Undisturbed("player") /\ ~hurt' => Files[card] = <<>>
    PROVE  PlayerInv'
<1>1. Inside("player") /\ "player" \in Tasks /\ "error" \in Results
  BY DEF Inside, Mounting, Tasks, Results
<1>2. /\ Begun("player") /\ at["player"] \in {"mount", "opendir", "open"} /\ card \in Volumes
  BY <1>1, InsideBegun DEF VolumeInv, ProgramInv, FsTyped
<1>3. Return("player", "error") /\ fp'.fptr = fp.fptr /\ fp'.size = fp.size
  BY <1>1, Refused DEF VolumeInv
<1>4. stage'["player"] = "out" /\ at'["player"] = NextCall("error") /\ btr' = 0 /\ got' = 0
  BY <1>1, <1>3, Returned DEF VolumeInv
<1>5. at'["player"] \in {"opendir", "open", "unmount"}
  BY <1>2, <1>4 DEF NextCall
<1>6. SearchInv' /\ IsPrefix(<<>>, Files[card])
  BY <1>2, <1>4, EmptyPrefix DEF SearchInv
<1>7. QED
  BY <1>2, <1>3, <1>4, <1>5, <1>6, PlayerBefore

LEMMA PlayerMounting ==
    ASSUME Formatted, VolumeInv, FreshInv, PlayerInv,
           MountVolume("player") \/ CheckFs("player") \/ ReadBpb("player")
    PROVE  PlayerInv'
<1>1. /\ UNCHANGED <<card, during, mounted, taken>> /\ Inside("player") /\ stage["player"] \in Mounting
      /\ "player" \in Tasks
  BY InsideStep DEF VolumeInv, Tasks
<1>2. /\ Begun("player") /\ at["player"] \in {"mount", "opendir", "open"} /\ at["player"] # "idle"
      /\ fsid \in Nat /\ vbr \in Volumes /\ card \in Volumes /\ stage \in [Tasks -> Pcs]
  BY <1>1, InsideBegun DEF VolumeInv, ProgramInv, FsTyped
<1>3. mounted
  BY <1>2 DEF PlayerInv, PlayInv
<1>4. ASSUME NEW p \in Mounting, Proceed("player", p), Stay, UNCHANGED fp
      PROVE  PlayerInv'
  <2>1. stage'["player"] = p /\ UNCHANGED <<at, btr, got>> /\ p \notin {"find", "step", "out"}
    BY <1>1, <1>2, <1>4 DEF Proceed, Stay, Mounting
  <2>2. SearchInv'
    BY <2>1 DEF SearchInv
  <2>3. stage["player"] # "out"
    BY <1>1 DEF Mounting
  <2>4. QED
    BY <1>1, <1>2, <1>4, <2>1, <2>2, <2>3, PlayerBefore
<1>5. CASE MountVolume("player")
  <2>1. CASE Mounted("player", fsid, vbr) /\ valid
    <3>1. Undisturbed("player") => vbr = card
      BY <1>1, <1>2, <2>1, SeesCard
    <3>2. QED
      BY <1>1, <1>2, <2>1, <3>1, PlayerMounted
  <2>2. CASE Proceed("player", "boot") /\ Stay /\ UNCHANGED fp
    BY <1>4, <2>2 DEF Mounting
  <2>3. QED
    BY <1>3, <1>5, <2>1, <2>2 DEF MountVolume
<1>6. CASE CheckFs("player")
  <2>1. CASE (\E s : Disk(s, FALSE)) /\ Refuse("player")
    <3>1. hurt'
      BY <1>2, <2>1 DEF Disk
    <3>2. QED
      BY <1>1, <2>1, <3>1, PlayerRefused
  <2>2. CASE (\E p \in {"partition", "bpb"} : Proceed("player", p)) /\ Stay /\ UNCHANGED fp
    BY <1>4, <2>2 DEF Mounting
  <2>3. QED
    BY <1>6, <2>1, <2>2 DEF CheckFs
<1>7. CASE ReadBpb("player")
  <2>1. /\ win.sect # <<>> /\ win.vol \in Volumes
        /\ Undisturbed("player") => win.vol = card
    <3>1. stage["player"] = "bpb"
      BY <1>7 DEF ReadBpb
    <3>2. Undisturbed("player") => win.vol = card
      BY <1>1, <1>2, <3>1, SeesCard
    <3>3. QED
      BY <1>1, <3>1, <3>2 DEF VolumeInv, GeometryInv, WindowInv
  <2>2. CASE ~FatHasRoom(win.vol) /\ Refuse("player")
    <3>1. Undisturbed("player") => Files[card] = <<>>
      BY <1>2, <2>1, <2>2 DEF Files, FileIn
    <3>2. QED
      BY <1>1, <2>2, <3>1, PlayerRefused
  <2>3. CASE Mounted("player", fsid + 1, win.vol)
    <3>1. fsid + 1 \in Nat
      BY <1>2
    <3>2. QED
      BY <1>1, <2>1, <2>3, <3>1, PlayerMounted
  <2>4. QED
    BY <1>7, <2>2, <2>3 DEF ReadBpb
<1>8. QED
  BY <1>5, <1>6, <1>7

\* What f_open's search starts from.
LEMMA SearchingIs ==
    ASSUME VolumeInv, stage["player"] \in {"find", "step"}
    PROVE  LET dp == dirs["open"] IN
           /\ dp \in DirObjects /\ dp.dptr \in Nat /\ dp.sect # <<>> /\ Standing(dp)
           /\ at["player"] = "open" /\ Begun("player") /\ Inside("player") /\ "player" \in Tasks
           /\ valid /\ FatHasRoom(vbr) /\ Geometry(vbr) = Geometry(card) /\ WindowInv
           /\ card \in Volumes /\ vbr \in Volumes /\ fsid \in Nat /\ ~strayed
           /\ fp \in FileObjects /\ stage \in [Tasks -> Pcs]
<1>1. "player" \in Tasks /\ Inside("player")
  BY DEF Tasks, Inside
<1>2. at["player"] = "open"
  <2>1. stage["player"] \in Stages(at["player"]) /\ at["player"] \in Ats
    BY <1>1 DEF VolumeInv, ProgramInv
  <2>2. QED
    BY <2>1 DEF Stages, Ats, Mounting
<1>3. Begun("player")
  BY <1>2 DEF Begun
<1>4. /\ dirs["open"].open /\ dirs["open"].id = fsid /\ dirs["open"].sect # <<>> /\ Live("open")
  BY DEF VolumeInv, DirInv, Live
<1>5. Standing(dirs["open"])
  BY <1>4 DEF VolumeInv, DirInv
<1>6. valid /\ FatHasRoom(vbr) /\ Geometry(vbr) = Geometry(card) /\ WindowInv
  BY <1>1 DEF VolumeInv, GeometryInv, PlayerPcs
<1>7. QED
  BY <1>1, <1>2, <1>3, <1>4, <1>5, <1>6 DEF VolumeInv, ProgramInv, FsTyped, DirObjects

\* f_open gives up: the name is not there, or the play is hurt.
LEMMA PlayerNotFound ==
    ASSUME Formatted, VolumeInv, PlayerInv, stage["player"] \in {"find", "step"},
           UNCHANGED <<card, during, mounted, taken>>,
           NEW r \in Results, r # "ok", Return("player", r), fp'.fptr = fp.fptr, fp'.size = fp.size,
           Undisturbed("player") /\ ~hurt' => Files[card] = <<>>
    PROVE  PlayerInv'
<1>1. /\ at["player"] = "open" /\ Begun("player") /\ Inside("player") /\ "player" \in Tasks
      /\ card \in Volumes
  BY SearchingIs
<1>2. stage'["player"] = "out" /\ at'["player"] = "unmount" /\ btr' = 0 /\ got' = 0
  BY <1>1, Returned DEF VolumeInv, NextCall
<1>3. SearchInv'
  BY <1>2 DEF SearchInv
<1>4. IsPrefix(<<>>, Files[card])
  BY <1>1, EmptyPrefix
<1>5. QED
  BY <1>1, <1>2, <1>3, <1>4, PlayerBefore

LEMMA PlayerFind ==
    ASSUME Formatted, VolumeInv, FreshInv, FreshInv', PlayerInv, OpenFind
    PROVE  PlayerInv'
<1> DEFINE dp == dirs["open"]
           p == dp.dptr
           e == NextEntry(win', p % EntriesPerSector)
<1>1. stage["player"] = "find" /\ UNCHANGED <<card, during, mounted, valid, fsid, vbr, taken>>
  BY DEF OpenFind, hostVars, fsVars
<1>2. /\ dp \in DirObjects /\ p \in Nat /\ dp.sect # <<>> /\ Standing(dp)
      /\ at["player"] = "open" /\ Begun("player") /\ Inside("player") /\ "player" \in Tasks
      /\ valid /\ FatHasRoom(vbr) /\ Geometry(vbr) = Geometry(card) /\ WindowInv
      /\ card \in Volumes /\ vbr \in Volumes /\ fsid \in Nat /\ ~strayed
      /\ fp \in FileObjects /\ stage \in [Tasks -> Pcs]
  BY <1>1, SearchingIs
<1> DEFINE named == e.name = Name
<1>3. PICK ok \in BOOLEAN :
         /\ Window(dp.sect, ok)
         /\ \/ /\ ~ok \/ (ok /\ (e = End \/ (named /\ e.dir)))
               /\ \E r \in {"error", "nofile"} : Return("player", r) /\ fp' = [fp EXCEPT !.open = FALSE]
            \/ /\ ok /\ e # End /\ ~named
               /\ Proceed("player", "step") /\ Stay /\ UNCHANGED fp
            \/ /\ ok /\ e # End /\ named /\ ~e.dir
               /\ fp' = [NoFile EXCEPT !.open = TRUE, !.id = fsid, !.sclust = e.sclust, !.size = e.size]
               /\ Return("player", "ok")
         /\ stage'["player"] = "step" => dirs' = dirs
  BY DEF OpenFind
<1> HIDE DEF e, named
<1>4. OfVolume(dp.sect)
  <2>1. [sect |-> dp.sect, vol |-> vbr].sect = dp.sect /\ [sect |-> dp.sect, vol |-> vbr].vol = vbr
    OBVIOUS
  <2>2. QED
    BY <1>2, <2>1, EntryIs
<1>5. ok => win'.sect = dp.sect /\ win'.vol \in Volumes /\ Geometry(win'.vol) = Geometry(card)
  BY <1>1, <1>2, <1>3, <1>4, WindowStays
<1>6. ~ok => hurt'
  BY <1>1, <1>2, <1>3, <1>4, WindowStays
<1>7. at'["player"] # "idle" /\ Begun("player")'
  <2>1. ASSUME NEW r \in Results, Return("player", r)
        PROVE  at'["player"] # "idle" /\ stage'["player"] = "out" /\ at'["player"] # "mount"
    BY <1>2, <2>1, Returned DEF VolumeInv, NextCall
  <2>2. {"ok", "error", "nofile"} = Results
    BY DEF Results
  <2>3. QED
    BY <1>2, <1>3, <2>1, <2>2 DEF Begun, Stay
<1>8. Undisturbed("player") /\ ok => vbr = card /\ win'.vol = card
  BY <1>1, <1>2, <1>5, <1>7 DEF FreshInv, Undisturbed
<1>9. Undisturbed("player") => InRoot(dp) /\ \A i \in 0 .. p - 1 : Passed(i)
  BY <1>1 DEF PlayerInv, SearchInv
<1>10. Undisturbed("player") /\ ok => e = RootEntry(card, p)
  <2> SUFFICES ASSUME Undisturbed("player"), ok PROVE e = RootEntry(card, p)
    OBVIOUS
  <2> DEFINE c == dp.clust
  <2>1. c \in Clusters(card) /\ dp.sect = <<"data", c, (p \div EntriesPerSector) % Layout[card].csize>>
    BY <1>2, <1>8 DEF Standing
  <2>2. c = Cluster(card, Layout[card].root, p \div (Layout[card].csize * EntriesPerSector))
    BY <1>9 DEF InRoot, DirCluster
  <2>3. win'.sect = dp.sect /\ win'.vol = card
    BY <1>5, <1>8
  <2> HIDE DEF dp, p, c
  <2>4. QED
    BY <1>2, <2>1, <2>2, <2>3, RootEntryIs DEF e
<1>11. Undisturbed("player") => \A i \in 0 .. p - 1 :
             RootEntry(card, i) # End /\ RootEntry(card, i).name # Name
  BY <1>9 DEF Passed
<1>12. Undisturbed("player") => p < MaxDir /\ p \in 0 .. MaxDir
  BY <1>2, <1>9, SizesAre DEF InRoot
<1> HIDE DEF dp, p
<1>13. CASE /\ ~ok \/ (ok /\ (e = End \/ (named /\ e.dir)))
            /\ \E r \in {"error", "nofile"} : Return("player", r) /\ fp' = [fp EXCEPT !.open = FALSE]
  <2>1. PICK r \in {"error", "nofile"} : Return("player", r) /\ fp' = [fp EXCEPT !.open = FALSE]
    BY <1>13
  <2>2. r \in Results /\ r # "ok"
    BY DEF Results
  <2>3. fp'.fptr = fp.fptr /\ fp'.size = fp.size
    BY <1>2, <2>1 DEF FileObjects
  <2>4. ASSUME Undisturbed("player"), ~hurt' PROVE Files[card] = <<>>
    <3>1. ok /\ (e = End \/ (named /\ e.dir))
      BY <1>6, <1>13, <2>4
    <3>2. CASE e = End
      BY <1>2, <1>10, <1>11, <1>12, <2>4, <3>1, <3>2, NoFileIs
    <3>3. CASE e # End /\ named /\ e.dir
      <4>1. FirstNamed(card) = RootEntry(card, p)
        BY <1>2, <1>10, <1>11, <1>12, <2>4, <3>1, <3>3, FirstNamedIs DEF named
      <4>2. FirstNamed(card).dir
        BY <1>10, <2>4, <3>1, <3>3, <4>1
      <4>3. QED
        BY <1>2, <4>2 DEF Files, FileIn
    <3>4. QED
      BY <3>1, <3>2, <3>3
  <2>5. QED
    BY <1>1, <2>1, <2>2, <2>3, <2>4, PlayerNotFound
<1>14. CASE ok /\ e # End /\ ~named /\ Proceed("player", "step") /\ Stay /\ UNCHANGED fp
  <2>1. stage'["player"] = "step" /\ UNCHANGED <<at, btr, got, dirs>>
    BY <1>2, <1>3, <1>14 DEF Proceed, Stay
  <2>2. Undisturbed("player")' => Undisturbed("player")
    BY <1>1, <2>1 DEF Undisturbed
  <2>3. Undisturbed("player") => Passed(p)
    BY <1>10, <1>14 DEF Passed, named
  <2>4. SearchInv'
    BY <1>1, <1>9, <2>1, <2>2, <2>3 DEF SearchInv, InRoot, DirCluster, Passed, dp, p
  <2>5. QED
    BY <1>1, <1>2, <1>14, <2>1, <2>4, PlayerBefore
<1>15. CASE /\ ok /\ e # End /\ named /\ ~e.dir
            /\ fp' = [NoFile EXCEPT !.open = TRUE, !.id = fsid, !.sclust = e.sclust, !.size = e.size]
            /\ Return("player", "ok")
  <2>1. stage'["player"] = "out" /\ at'["player"] = "header" /\ btr' = 0 /\ got' = 0
    <3>1. "ok" \in Results
      BY DEF Results
    <3>2. QED
      BY <1>2, <1>15, <3>1, Returned DEF VolumeInv, NextCall
  <2>2. fp'.open /\ fp'.id = fsid /\ fp'.sclust = e.sclust /\ fp'.size = e.size /\ fp'.fptr = 0 /\ ~fp'.err
    BY <1>15 DEF NoFile
  <2>3. taken' = <<>> /\ mounted'
    BY <1>1, <1>2 DEF PlayerInv, PlayInv
  <2>4. SearchInv'
    BY <2>1 DEF SearchInv
  <2>5. ASSUME Undisturbed("player") PROVE OfFile'
    <3>1. Named(card) # {} /\ FirstNamed(card) = e
      BY <1>2, <1>10, <1>11, <1>12, <1>15, <2>5, FirstNamedIs DEF named
    <3>2. FatHasRoom(card)
      BY <1>2, <1>8, <1>15, <2>5
    <3>3. <<>> = FileUnits(0) /\ 0 .. 0 - 1 \subseteq InChain(card, FirstNamed(card))
      <4>1. Len(FileUnits(0)) = 0 /\ FileUnits(0) \in Seq(AllUnits)
        BY UnitsAre
      <4>2. QED
        BY <4>1
    <3>4. QED
      BY <1>1, <1>15, <2>2, <2>3, <3>1, <3>2, <3>3 DEF OfFile, FileUnits
  <2>6. Undisturbed("player")' => Undisturbed("player")
    BY <1>1, <1>2 DEF Undisturbed
  <2>7. ObjectInv'
    BY <2>2, <2>5, <2>6 DEF ObjectInv
  <2>8. ProgressInv'
    <3>1. 0 % SectorSize = 0
      BY SizesAre
    <3>2. QED
      BY <2>1, <2>2, <3>1 DEF ProgressInv
  <2>9. PlayInv'
    BY <1>1, <1>2, <2>1, <2>2, <2>3 DEF PlayInv
  <2>10. QED
    BY <2>4, <2>7, <2>8, <2>9 DEF PlayerInv
<1>16. QED
  BY <1>3, <1>13, <1>14, <1>15

LEMMA PlayerNext ==
    ASSUME Formatted, VolumeInv, FreshInv, PlayerInv, OpenNext
    PROVE  PlayerInv'
<1> DEFINE dp == dirs["open"]
           p == dp.dptr
<1>1. stage["player"] = "step" /\ UNCHANGED <<card, during, mounted, valid, fsid, vbr, taken>>
  BY DEF OpenNext, hostVars, fsVars
<1>2. /\ dp \in DirObjects /\ p \in Nat /\ dp.sect # <<>> /\ Standing(dp)
      /\ at["player"] = "open" /\ Begun("player") /\ Inside("player") /\ "player" \in Tasks
      /\ valid /\ FatHasRoom(vbr) /\ WindowInv
      /\ card \in Volumes /\ ~strayed
      /\ fp \in FileObjects /\ stage \in [Tasks -> Pcs]
  BY <1>1, SearchingIs
<1>3. PICK r \in Results :
         /\ DirNext("open", r)
         /\ IF r = "ok" THEN Proceed("player", "find") /\ Stay /\ UNCHANGED fp
            ELSE Return("player", r) /\ fp' = [fp EXCEPT !.open = FALSE]
  BY DEF OpenNext
<1>4. Undisturbed("player") => InRoot(dp) /\ \A i \in 0 .. p : Passed(i)
  <2>1. \A i \in 0 .. p : i \in 0 .. p - 1 \/ i = p
    BY <1>2
  <2>2. QED
    BY <1>1, <2>1 DEF PlayerInv, SearchInv
<1>5. ASSUME Undisturbed("player")
      PROVE  /\ r = "ok" => dirs'["open"].dptr = p + 1 /\ InRoot(dirs["open"])'
             /\ r # "ok" /\ ~hurt' => p + 1 >= MaxDir \/ RootEntry(card, p + 1) = End
  <2>1. vbr = card /\ (win.sect # <<>> => win.vol = card)
    BY <1>2, <1>5, SeesCard
  <2>2. /\ r = "ok" => dirs'["open"].dptr = p + 1 /\ InRoot(dirs'["open"])
        /\ r = "nofile" => p + 1 >= MaxDir \/ RootEntry(card, p + 1) = End
        /\ r = "error" => \/ p + 1 < MaxDir /\ RootEntry(card, p + 1) = End
                          \/ hurt' = (at["player"] # "idle")
    BY <1>1, <1>2, <1>3, <1>4, <1>5, <2>1, NextInRoot DEF VolumeInv
  <2>3. r \in {"ok", "nofile", "error"}
    BY DEF Results
  <2>4. InRoot(dirs'["open"]) => InRoot(dirs["open"])'
    BY <1>1 DEF InRoot, DirCluster
  <2>5. QED
    BY <1>2, <2>2, <2>3, <2>4
<1>6. CASE r = "ok"
  <2>1. stage'["player"] = "find" /\ UNCHANGED <<at, btr, got, fp>>
    BY <1>2, <1>3, <1>6 DEF Proceed, Stay
  <2>2. Undisturbed("player")' => Undisturbed("player")
    BY <1>1, <2>1 DEF Undisturbed
  <2>3. Undisturbed("player") => \A i \in 0 .. (p + 1) - 1 : Passed(i)'
    BY <1>1, <1>2, <1>4 DEF Passed
  <2>4. SearchInv'
    BY <1>5, <1>6, <2>1, <2>2, <2>3 DEF SearchInv
  <2>5. QED
    BY <1>1, <1>2, <2>1, <2>4, PlayerBefore
<1>7. CASE r # "ok"
  <2>1. Return("player", r) /\ fp' = [fp EXCEPT !.open = FALSE]
    BY <1>3, <1>7
  <2>2. fp'.fptr = fp.fptr /\ fp'.size = fp.size
    BY <1>2, <2>1 DEF FileObjects
  <2>3. ASSUME Undisturbed("player"), ~hurt' PROVE Files[card] = <<>>
    <3>1. p + 1 >= MaxDir \/ RootEntry(card, p + 1) = End
      BY <1>5, <1>7, <2>3
    <3>2. p < MaxDir /\ MaxDir \in Nat
      BY <1>4, <2>3, SizesAre DEF InRoot
    <3>3. p + 1 \in 0 .. MaxDir /\ (p + 1 < MaxDir => RootEntry(card, p + 1) = End)
      BY <1>2, <3>1, <3>2
    <3>4. \A i \in 0 .. (p + 1) - 1 :
                 RootEntry(card, i) # End /\ RootEntry(card, i).name # Name
      BY <1>2, <1>4, <2>3 DEF Passed
    <3> HIDE DEF dp, p
    <3>5. QED
      BY <1>2, <3>3, <3>4, NoFileIs
  <2>4. QED
    BY <1>1, <1>7, <2>1, <2>2, <2>3, PlayerNotFound
<1>8. QED
  BY <1>6, <1>7

\* What f_read starts from.
LEMMA PlayingIs ==
    ASSUME VolumeInv, stage["player"] \in {"validate", "cluster", "sector"}
    PROVE  /\ at["player"] \in {"header", "loop"} /\ Begun("player") /\ Inside("player")
           /\ "player" \in Tasks /\ card \in Volumes /\ vbr \in Volumes
           /\ fp \in FileObjects /\ fp.fptr \in Nat /\ fp.size \in Nat /\ fp.fptr <= fp.size
           /\ fp.clust \in Nat /\ fp.sclust \in Nat /\ btr \in Nat /\ got \in Nat
           /\ stage \in [Tasks -> Pcs]
           /\ stage["player"] # "validate" =>
                  /\ valid /\ FatHasRoom(vbr) /\ fp.fptr + btr <= fp.size
                  /\ Geometry(vbr) = Geometry(card) /\ WindowInv
<1>1. "player" \in Tasks /\ Inside("player")
  BY DEF Tasks, Inside
<1>2. at["player"] \in {"header", "loop"}
  <2>1. stage["player"] \in Stages(at["player"]) /\ at["player"] \in Ats
        /\ at["player"] \notin {"ls_opendir", "readdir", "listed"}
    BY <1>1 DEF VolumeInv, ProgramInv
  <2>2. QED
    BY <2>1 DEF Stages, Ats, Mounting
<1>3. Begun("player")
  BY <1>2 DEF Begun
<1>4. stage["player"] # "validate" =>
          /\ valid /\ FatHasRoom(vbr)
          /\ Geometry(vbr) = Geometry(card) /\ WindowInv
  BY <1>1 DEF VolumeInv, GeometryInv, PlayerPcs
<1>5. QED
  BY <1>1, <1>2, <1>3, <1>4 DEF VolumeInv, ProgramInv, FsTyped, FileObjects, ReadInv

\* f_read returns: what makes the loop stop is the end of the file, or the play is hurt.
LEMMA PlayerReturns ==
    ASSUME Formatted, VolumeInv, PlayerInv, stage["player"] \in {"validate", "cluster", "sector"},
           UNCHANGED <<card, during, mounted, valid, fsid, taken>>,
           NEW r \in Results, Return("player", r), hurt => hurt',
           fp' = [fp EXCEPT !.err = TRUE] \/ (fp' = fp /\ stage["player"] # "sector"),
           fp' # fp => r # "ok",
           Undisturbed("player") /\ ~hurt' /\ (r # "ok" \/ got = 0) => taken = Files[card]
    PROVE  PlayerInv'
<1>1. /\ at["player"] \in {"header", "loop"} /\ Begun("player") /\ Inside("player")
      /\ "player" \in Tasks /\ fp \in FileObjects
  BY PlayingIs
<1>2. /\ stage'["player"] = "out" /\ btr' = 0 /\ got' = 0
      /\ at'["player"] = IF r = "ok" THEN IF at["player"] = "loop" /\ got = 0 THEN "unmount" ELSE "loop"
                         ELSE IF at["player"] = "loop" /\ got # 0 THEN "loop" ELSE "unmount"
  <2>1. stage'["player"] = "out" /\ btr' = 0 /\ got' = 0 /\ at'["player"] = NextCall(r)
    BY <1>1, Returned DEF VolumeInv
  <2>2. QED
    BY <1>1, <2>1 DEF NextCall
<1>3. /\ fp'.open = fp.open /\ fp'.id = fp.id /\ fp'.sclust = fp.sclust /\ fp'.size = fp.size
      /\ fp'.fptr = fp.fptr /\ fp'.clust = fp.clust
      /\ fp'.err => fp.err \/ r # "ok"
      /\ ~fp'.err => ~fp.err /\ stage["player"] # "sector"
  <2>1. CASE fp' = fp /\ stage["player"] # "sector"
    BY <2>1
  <2>2. CASE fp' = [fp EXCEPT !.err = TRUE]
    <3>1. /\ fp'.open = fp.open /\ fp'.id = fp.id /\ fp'.sclust = fp.sclust /\ fp'.size = fp.size
          /\ fp'.fptr = fp.fptr /\ fp'.clust = fp.clust /\ fp'.err = TRUE
      BY <1>1, <2>2 DEF FileObjects
    <3>2. fp = [fp EXCEPT !.err = TRUE] => fp.err
      BY <1>1 DEF FileObjects
    <3>3. QED
      BY <2>2, <3>1, <3>2
  <2>3. QED
    BY <2>1, <2>2
<1>4. at'["player"] # "idle" /\ (Undisturbed("player")' => Undisturbed("player"))
  BY <1>1, <1>2 DEF Undisturbed
<1>5. SearchInv'
  BY <1>2 DEF SearchInv
<1>6. OfFile => OfFile'
  BY <1>3 DEF OfFile, FileUnits
<1>7. ObjectInv'
  <2> SUFFICES ASSUME Undisturbed("player")
               PROVE  /\ OfFile'
                      /\ fp'.fptr > 0 /\ ~fp'.err => fp'.clust = FileCluster(fp.fptr - 1)'
                      /\ fp'.err => hurt' \/ taken = Files[card]
    BY <1>2, <1>4 DEF ObjectInv, FileCluster
  <2>1. /\ OfFile
        /\ fp.fptr > 0 /\ ~fp.err /\ stage["player"] # "sector" => fp.clust = FileCluster(fp.fptr - 1)
        /\ fp.err => hurt \/ taken = Files[card]
    BY <1>1 DEF PlayerInv, ObjectInv
  <2>2. QED
    BY <1>3, <1>6, <2>1 DEF FileCluster
<1>8. ProgressInv'
  BY <1>2, <1>3 DEF PlayerInv, ProgressInv
<1>9. PlayInv'
  <2>1. mounted /\ (~hurt => valid /\ fp.open /\ fp.id = fsid)
    BY <1>1 DEF PlayerInv, PlayInv
  <2>2. Undisturbed("player") => IsPrefix(taken, Files[card])
    BY <1>1, OfFileIs DEF PlayerInv, ObjectInv, VolumeInv
  <2>3. at'["player"] = "unmount" => r # "ok" \/ got = 0
    BY <1>2
  <2>4. QED
    BY <1>2, <1>3, <1>4, <2>1, <2>2, <2>3 DEF PlayInv
<1>10. QED
  BY <1>5, <1>7, <1>8, <1>9 DEF PlayerInv

\* f_read goes on.
LEMMA PlayerReads ==
    ASSUME VolumeInv, PlayerInv, stage["player"] \in {"validate", "cluster", "sector"},
           UNCHANGED <<card, during, mounted, valid, fsid, at>>,
           NEW p \in {"cluster", "sector"}, Proceed("player", p), hurt => hurt',
           fp'.open = fp.open, fp'.id = fp.id, ~fp'.err,
           Undisturbed("player") => OfFile',
           Undisturbed("player") /\ p = "cluster" /\ fp'.fptr > 0 => fp'.clust = FileCluster(fp.fptr - 1)',
           ProgressInv'
    PROVE  PlayerInv'
<1>1. /\ at["player"] \in {"header", "loop"} /\ Begun("player") /\ "player" \in Tasks
      /\ stage \in [Tasks -> Pcs]
  BY PlayingIs
<1>2. stage'["player"] = p
  BY <1>1 DEF Proceed
<1>3. Undisturbed("player")' => Undisturbed("player")
  BY DEF Undisturbed
<1>4. SearchInv'
  BY <1>2 DEF SearchInv
<1>5. ObjectInv'
  BY <1>2, <1>3 DEF ObjectInv
<1>6. PlayInv'
  BY <1>1, <1>2 DEF PlayerInv, PlayInv
<1>7. QED
  BY <1>4, <1>5, <1>6 DEF PlayerInv

LEMMA PlayerReadStart ==
    ASSUME Formatted, VolumeInv, PlayerInv, ReadStart
    PROVE  PlayerInv'
<1>1. PICK ok \in BOOLEAN :
         /\ stage["player"] = "validate" /\ Validate(fp, ok)
         /\ IF ok /\ ~fp.err
            THEN /\ Proceed("player", "cluster") /\ btr' = MinOf(Btr, fp.size - fp.fptr)
                 /\ UNCHANGED <<res, at, got>>
            ELSE Return("player", "error")
  BY DEF ReadStart
<1>2. UNCHANGED <<card, during, mounted, valid, fsid, vbr, fp, taken>>
  BY DEF ReadStart, hostVars, fsVars
<1>3. /\ at["player"] \in {"header", "loop"} /\ at["player"] # "idle"
      /\ fp.fptr \in Nat /\ fp.size \in Nat /\ fp.fptr <= fp.size /\ "player" \in Tasks
      /\ stage \in [Tasks -> Pcs]
  BY <1>1, PlayingIs
<1>4. hurt => hurt'
  BY <1>1, <1>3, HurtStays
<1>5. OfFile' <=> OfFile
  BY <1>2 DEF OfFile, FileUnits
<1>6. CASE ok /\ ~fp.err
  <2>1. Undisturbed("player") => OfFile /\ (fp.fptr > 0 => fp.clust = FileCluster(fp.fptr - 1))
    BY <1>1, <1>3, <1>6 DEF PlayerInv, ObjectInv
  <2>2. ProgressInv'
    <3>1. Btr \in Nat \ {0} /\ Btr % SectorSize = 0
      BY SizesAre
    <3>2. \/ btr' = Btr
          \/ btr' = fp.size - fp.fptr
      BY <1>1, <1>6 DEF MinOf
    <3>3. btr' % SectorSize = 0 \/ fp.fptr + btr' = fp.size
      BY <1>3, <3>1, <3>2
    <3>4. btr' = 0 => fp.fptr = fp.size
      BY <1>3, <3>1, <3>2
    <3>5. stage'["player"] = "cluster"
      BY <1>1, <1>3, <1>6 DEF Proceed
    <3>6. QED
      BY <1>2, <1>6, <3>3, <3>4, <3>5 DEF PlayerInv, ProgressInv
  <2>3. Proceed("player", "cluster") /\ at' = at
    BY <1>1, <1>6
  <2>4. Undisturbed("player") /\ fp'.fptr > 0 => fp'.clust = FileCluster(fp.fptr - 1)'
    BY <1>2, <2>1 DEF FileCluster
  <2>5. QED
    BY <1>1, <1>2, <1>4, <1>5, <1>6, <2>1, <2>2, <2>3, <2>4, PlayerReads
<1>7. CASE ~(ok /\ ~fp.err)
  <2>1. Return("player", "error") /\ "error" \in Results
    BY <1>1, <1>7 DEF Results
  <2>2. ASSUME Undisturbed("player"), ~hurt' PROVE taken = Files[card]
    <3>1. valid /\ fp.open /\ fp.id = fsid
      BY <1>3, <1>4, <2>2 DEF PlayerInv, PlayInv
    <3>2. ok
      BY <1>1, <1>3, <2>2, <3>1 DEF Validate, Disk
    <3>3. fp.err
      BY <1>7, <3>2
    <3>4. QED
      BY <1>3, <1>4, <2>2, <3>3 DEF PlayerInv, ObjectInv
  <2>3. stage["player"] # "sector"
    BY <1>1
  <2>4. QED
    BY <1>1, <1>2, <1>4, <2>1, <2>2, <2>3, PlayerReturns
<1>8. QED
  BY <1>6, <1>7

\* The cluster of the next unit.
LEMMA NextCluster ==
    ASSUME Formatted, card \in Volumes, fp \in FileObjects
    PROVE  /\ FileCluster(0) = fp.sclust
           /\ fp.fptr > 0 =>
                 FileCluster(fp.fptr) =
                    IF fp.fptr % (Layout[card].csize * SectorSize) = 0
                    THEN StepOf(card, FileCluster(fp.fptr - 1)) ELSE FileCluster(fp.fptr - 1)
<1> DEFINE m == Layout[card].csize * SectorSize
<1>1. m \in Nat \ {0}
  <2>1. SectorSize \in Nat \ {0} /\ Layout[card].csize \in Nat \ {0}
    BY SizesAre, ContentIs
  <2>2. QED
    BY <2>1, Product
<1>2. \A i : FileCluster(i) = Cluster(card, fp.sclust, i \div m)
  BY DEF FileCluster
<1> HIDE DEF m
<1>3. FileCluster(0) = fp.sclust
  <2>1. 0 \div m = 0
    BY <1>1
  <2>2. QED
    BY <1>2, <2>1, ClusterNext
<1>4. ASSUME fp.fptr > 0
      PROVE  FileCluster(fp.fptr) = IF fp.fptr % m = 0 THEN StepOf(card, FileCluster(fp.fptr - 1))
                                    ELSE FileCluster(fp.fptr - 1)
  <2>1. fp.fptr \in Nat
    BY DEF FileObjects
  <2>2. PICK p \in Nat : p = fp.fptr - 1 /\ fp.fptr = p + 1
    BY <1>4, <2>1
  <2>3. PICK q \in Nat : q = p \div m
    <3>1. PICK k \in Nat, i \in 0 .. m - 1 : p \div m = k /\ p % m = i /\ p = m * k + i
      BY <1>1, Quotient
    <3>2. QED
      BY <3>1
  <2>4. fp.fptr \div m = IF fp.fptr % m = 0 THEN q + 1 ELSE q
    <3>1. IF (p + 1) % m = 0 THEN (p + 1) \div m = p \div m + 1 /\ p % m = m - 1
          ELSE (p + 1) \div m = p \div m /\ (p + 1) % m = (p % m) + 1
      BY <1>1, OneMore
    <3>2. QED
      BY <2>2, <2>3, <3>1
  <2>5. FileCluster(fp.fptr - 1) = Cluster(card, fp.sclust, q)
    BY <1>2, <2>2, <2>3
  <2>6. FileCluster(fp.fptr) = Cluster(card, fp.sclust, fp.fptr \div m)
    BY <1>2
  <2>7. QED
    BY <2>4, <2>5, <2>6, ClusterNext
<1>5. QED
  BY <1>3, <1>4 DEF m

LEMMA PlayerReadCluster ==
    ASSUME Formatted, VolumeInv, FreshInv, PlayerInv, ReadCluster
    PROVE  PlayerInv'
<1> DEFINE boundary == fp.fptr % (Layout[vbr].csize * SectorSize) = 0
<1>1. stage["player"] = "cluster" /\ UNCHANGED <<card, during, mounted, valid, fsid, vbr, taken>>
  BY DEF ReadCluster, hostVars, fsVars
<1>2. /\ at["player"] \in {"header", "loop"} /\ at["player"] # "idle" /\ Begun("player")
      /\ "player" \in Tasks /\ card \in Volumes /\ vbr \in Volumes
      /\ fp \in FileObjects /\ fp.fptr \in Nat /\ fp.size \in Nat /\ fp.fptr <= fp.size
      /\ fp.clust \in Nat /\ fp.sclust \in Nat /\ btr \in Nat /\ got \in Nat /\ stage \in [Tasks -> Pcs]
      /\ valid /\ FatHasRoom(vbr) /\ fp.fptr + btr <= fp.size
      /\ Geometry(vbr) = Geometry(card) /\ WindowInv /\ ~strayed
  BY <1>1, PlayingIs DEF VolumeInv
<1>3. /\ fp.fptr % SectorSize = 0 \/ fp.fptr = fp.size
      /\ btr % SectorSize = 0 \/ fp.fptr + btr = fp.size
      /\ got = 0 /\ btr = 0 => fp.fptr = fp.size
      /\ ~fp.err
  BY <1>1 DEF PlayerInv, ProgressInv
<1>4. Undisturbed("player") => OfFile /\ (fp.fptr > 0 => fp.clust = FileCluster(fp.fptr - 1))
  BY <1>1, <1>2, <1>3 DEF PlayerInv, ObjectInv
<1>5. Undisturbed("player") => vbr = card
  BY <1>2, SeesCard
<1>6. Undisturbed("player") /\ (fp.fptr = fp.size \/ FileCluster(fp.fptr) \notin Clusters(card)) =>
         taken = Files[card]
  BY <1>4, OfFileIs DEF VolumeInv
<1>7. CASE btr = 0
  <2>1. Return("player", "ok") /\ fp' = fp /\ UNCHANGED diskVars /\ "ok" \in Results
    BY <1>7 DEF ReadCluster, Results
  <2>2. hurt => hurt'
    BY <2>1 DEF diskVars
  <2>3. Undisturbed("player") /\ got = 0 => taken = Files[card]
    BY <1>3, <1>6, <1>7
  <2>4. QED
    BY <1>1, <2>1, <2>2, <2>3, PlayerReturns
<1>8. CASE btr # 0
  <2>1. PICK val :
           /\ IF boundary /\ fp.fptr # 0 THEN GetFat(fp.clust, val)
              ELSE val = (IF boundary THEN fp.sclust ELSE fp.clust) /\ UNCHANGED <<win, diskVars>>
           /\ IF val < 2 THEN Return("player", "error") /\ fp' = [fp EXCEPT !.err = TRUE]
              ELSE Proceed("player", "sector") /\ Stay /\ fp' = [fp EXCEPT !.clust = val]
    BY <1>8 DEF ReadCluster
  <2>2. hurt => hurt'
    BY <1>2, <2>1, HurtStays
  <2>3. fp.fptr < fp.size
    BY <1>2, <1>8
  <2>4. Undisturbed("player") => val = FileCluster(fp.fptr) \/ (val = -1 /\ hurt')
    <3> SUFFICES ASSUME Undisturbed("player") PROVE val = FileCluster(fp.fptr) \/ (val = -1 /\ hurt')
      OBVIOUS
    <3>1. CASE boundary /\ fp.fptr # 0
      <4>1. fp.clust = FileCluster(fp.fptr - 1) /\ fp.fptr > 0
        BY <1>2, <1>4, <3>1
      <4>2. fp.fptr - 1 \in 0 .. fp.fptr - 1
        BY <1>2, <4>1
      <4>3. fp.clust \in Clusters(card)
        BY <1>2, <1>4, <4>1, <4>2, InChainIs DEF OfFile
      <4>4. FileCluster(fp.fptr) = StepOf(card, fp.clust)
        BY <1>2, <1>5, <3>1, <4>1, NextCluster
      <4>5. StepOf(card, fp.clust) = Layout[card].next[fp.clust]
        BY <4>3 DEF StepOf
      <4>6. GetFat(fp.clust, val)
        BY <2>1, <3>1
      <4>7. /\ win' = win \/ win'.sect = <<>> \/ win'.vol = card
            /\ \/ fp.clust \notin Clusters(vbr)
               \/ val = -1 /\ hurt' = (at["player"] # "idle")
               \/ val = Layout[win'.vol].next[fp.clust] /\ win'.sect # <<>>
        BY <1>1, <1>2, <4>6, FatStays DEF VolumeInv
      <4>8. win.sect # <<>> => win.vol = card
        BY <1>2, SeesCard
      <4>9. QED
        BY <1>2, <1>5, <4>3, <4>4, <4>5, <4>7, <4>8
    <3>2. CASE boundary /\ fp.fptr = 0
      BY <1>2, <2>1, <3>2, NextCluster
    <3>3. CASE ~boundary
      <4>1. fp.fptr > 0
        <5>1. 0 % (Layout[vbr].csize * SectorSize) = 0
          <6>1. SectorSize \in Nat \ {0} /\ Layout[vbr].csize \in Nat \ {0}
            BY <1>2, SizesAre, ContentIs
          <6>2. Layout[vbr].csize * SectorSize \in Nat \ {0}
            BY <6>1, Product
          <6>3. PICK m \in Nat \ {0} : m = Layout[vbr].csize * SectorSize
            BY <6>2
          <6>4. 0 % m = 0
            OBVIOUS
          <6>5. QED
            BY <6>3, <6>4
        <5>2. QED
          BY <1>2, <3>3, <5>1
      <4>2. FileCluster(fp.fptr) = FileCluster(fp.fptr - 1)
        BY <1>2, <1>5, <3>3, <4>1, NextCluster
      <4>3. QED
        BY <1>4, <2>1, <3>3, <4>1, <4>2
    <3>4. QED
      BY <3>1, <3>2, <3>3
  <2>5. val \in Int
    <3>1. CASE boundary /\ fp.fptr # 0
      BY <1>1, <1>2, <2>1, <3>1, FatStays DEF VolumeInv
    <3>2. CASE ~(boundary /\ fp.fptr # 0)
      BY <1>2, <2>1, <3>2
    <3>3. QED
      BY <3>1, <3>2
  <2>6. CASE val < 2
    <3>1. Return("player", "error") /\ fp' = [fp EXCEPT !.err = TRUE] /\ "error" \in Results
      BY <2>1, <2>6 DEF Results
    <3>2. Undisturbed("player") /\ ~hurt' => taken = Files[card]
      <4>1. \A c \in Clusters(card) : c >= 2
        BY <1>2, ContentIs
      <4>2. val \notin Clusters(card)
        BY <2>5, <2>6, <4>1, ContentIs, <1>2
      <4>3. QED
        BY <1>6, <2>4, <4>2
    <3>3. QED
      BY <1>1, <2>2, <3>1, <3>2, PlayerReturns
  <2>7. CASE ~(val < 2)
    <3>1. Proceed("player", "sector") /\ UNCHANGED <<res, at, btr, got>> /\ fp' = [fp EXCEPT !.clust = val]
      BY <2>1, <2>7 DEF Stay
    <3>2. /\ fp'.open = fp.open /\ fp'.id = fp.id /\ fp'.sclust = fp.sclust /\ fp'.size = fp.size
          /\ fp'.fptr = fp.fptr /\ fp'.clust = val /\ fp'.err = fp.err
      BY <1>2, <3>1 DEF FileObjects
    <3>3. Undisturbed("player") => OfFile'
      BY <1>1, <1>4, <3>2 DEF OfFile, FileUnits
    <3>4. stage'["player"] = "sector"
      BY <1>2, <3>1 DEF Proceed
    <3>5. Undisturbed("player") => val = FileCluster(fp.fptr)
      BY <2>4, <2>7
    <3>6. ProgressInv'
      <4>1. Undisturbed("player")' => fp'.clust = FileCluster(fp.fptr)'
        BY <1>1, <3>1, <3>2, <3>5 DEF FileCluster, Undisturbed
      <4>2. btr' = btr /\ got' = got /\ btr' > 0
        BY <1>2, <1>8, <3>1
      <4>3. QED
        BY <1>3, <2>3, <3>2, <3>4, <4>1, <4>2 DEF ProgressInv
    <3>7. UNCHANGED at
      BY <3>1
    <3> HIDE DEF boundary
    <3>8. QED
      BY <1>1, <1>3, <2>2, <3>1, <3>2, <3>3, <3>6, <3>7, PlayerReads
  <2>8. QED
    BY <2>6, <2>7
<1>9. QED
  BY <1>7, <1>8

\* Whole sectors make whole sectors.
LEMMA WholeSum ==
    ASSUME NEW S \in Nat \ {0}, NEW a \in Nat, NEW b \in Nat, a % S = 0, b % S = 0
    PROVE  (a + b) % S = 0 /\ (b <= a => (a - b) % S = 0)
<1>1. PICK q \in Nat, r \in 0 .. S - 1 : a \div S = q /\ a % S = r /\ a = S * q + r
  BY Quotient
<1>2. PICK u \in Nat, s \in 0 .. S - 1 : b \div S = u /\ b % S = s /\ b = S * u + s
  BY Quotient
<1>3. r = 0 /\ s = 0
  BY <1>1, <1>2
<1>4. S * (q + u) = S * q + S * u /\ S * (q - u) = S * q - S * u
  OBVIOUS
<1>5. S * q \in Nat /\ S * u \in Nat
  OBVIOUS
<1>6. a + b = S * (q + u) + 0 /\ a - b = S * (q - u) + 0
  BY <1>1, <1>2, <1>3, <1>4, <1>5
<1>7. /\ a + b \in Int /\ a - b \in Int /\ S \in Int /\ S > 0 /\ q + u \in Int /\ q - u \in Int
      /\ 0 \in 0 .. S - 1
  OBVIOUS
<1>8. (a + b) % S = 0
  BY <1>6, <1>7, QuotientIs
<1>9. (a - b) % S = 0
  BY <1>6, <1>7, QuotientIs
<1>10. QED
  BY <1>8, <1>9

\* n units of the cluster have been read.
LEMMA PlayerTakes ==
    ASSUME Formatted, VolumeInv, FreshInv, PlayerInv, stage["player"] = "sector",
           UNCHANGED <<card, during, mounted, valid, fsid, vbr, at>>, hurt => hurt',
           fp.clust \in Clusters(vbr), NEW n \in Nat \ {0}, n <= btr,
           n % SectorSize = 0 \/ n = btr,
           NEW csect \in Nat, csect = (fp.fptr \div SectorSize) % Layout[vbr].csize,
           \A i \in 0 .. n - 1 : csect + i \div SectorSize < Layout[vbr].csize,
           taken' = taken \o UnitsOf(card, fp.clust, csect, n),
           btr' = btr - n, got' = got + n, Proceed("player", "cluster"),
           fp' = [fp EXCEPT !.fptr = fp.fptr + n]
    PROVE  PlayerInv'
<1>1. /\ at["player"] \in {"header", "loop"} /\ at["player"] # "idle" /\ Begun("player")
      /\ "player" \in Tasks /\ card \in Volumes
      /\ fp \in FileObjects /\ fp.fptr \in Nat /\ fp.size \in Nat /\ fp.fptr <= fp.size
      /\ btr \in Nat /\ got \in Nat /\ stage \in [Tasks -> Pcs]
      /\ valid /\ fp.fptr + btr <= fp.size
      /\ Geometry(vbr) = Geometry(card)
  BY PlayingIs
<1>2. /\ fp.fptr % SectorSize = 0 /\ fp.fptr < fp.size
      /\ btr % SectorSize = 0 \/ fp.fptr + btr = fp.size
      /\ ~fp.err
      /\ Undisturbed("player") => fp.clust = FileCluster(fp.fptr)
  BY <1>1 DEF PlayerInv, ProgressInv
<1>3. SectorSize \in Nat \ {0} /\ Layout[card].csize \in Nat \ {0}
  BY <1>1, SizesAre, ContentIs
<1>4. /\ fp'.open = fp.open /\ fp'.id = fp.id /\ fp'.sclust = fp.sclust /\ fp'.size = fp.size
      /\ fp'.fptr = fp.fptr + n /\ fp'.clust = fp.clust /\ fp'.err = fp.err
  BY <1>1 DEF FileObjects
<1>5. /\ fp.fptr + n \in Nat /\ fp.fptr + n <= fp.size /\ fp.fptr + n > 0
      /\ fp'.fptr + btr' = fp.fptr + btr /\ btr' \in Nat
  <2>1. btr' \in Nat /\ btr - n \in Nat
    BY <1>1
  <2>2. (fp.fptr + n) + (btr - n) = fp.fptr + btr
    BY <1>1
  <2>3. fp.fptr + n \in Nat /\ fp.fptr + n <= fp.size /\ fp.fptr + n > 0
    BY <1>1, SMTT(30)
  <2> QED
    BY <1>4, <2>1, <2>2, <2>3
<1>6. stage'["player"] = "cluster"
  BY <1>1 DEF Proceed
<1> DEFINE e == FirstNamed(card)
           m == Layout[card].csize * SectorSize
           more == UnitsOf(card, fp.clust, csect, n)
<1>7. ASSUME Undisturbed("player")
      PROVE  /\ OfFile'
             /\ fp'.clust = FileCluster(fp.fptr - 1)'
  <2>1. /\ OfFile /\ Named(card) # {} /\ fp.sclust = e.sclust /\ fp.size = e.size
        /\ taken = FileUnits(fp.fptr) /\ 0 .. fp.fptr - 1 \subseteq InChain(card, e)
    BY <1>1, <1>7 DEF PlayerInv, ObjectInv, OfFile
  <2>2. Clusters(card) = Clusters(vbr) /\ Layout[vbr].csize = Layout[card].csize
    BY <1>1, GeometrySame
  <2>3. fp.clust = Cluster(card, e.sclust, fp.fptr \div m)
    BY <1>2, <1>7, <2>1 DEF FileCluster
  <2>4. ASSUME NEW i \in 0 .. n - 1
        PROVE  /\ FileUnit(fp.fptr + i) = <<card, fp.clust, csect + i \div SectorSize, i % SectorSize>>
               /\ FileCluster(fp.fptr + i) = fp.clust
               /\ fp.fptr + i \in InChain(card, e)
    <3>1. i \in Nat /\ ((fp.fptr \div SectorSize) % Layout[card].csize) + i \div SectorSize < Layout[card].csize
      BY <2>2
    <3>2. /\ UnitOf(card, e, fp.fptr + i) = <<card, fp.clust, csect + i \div SectorSize, i % SectorSize>>
          /\ (fp.fptr + i) \div m = fp.fptr \div m
      BY <1>1, <1>2, <2>2, <2>3, <3>1, UnitIs, SMTT(30)
    <3> HIDE DEF m
    <3>3. FileCluster(fp.fptr + i) = fp.clust
      BY <2>1, <2>3, <3>2 DEF FileCluster, m
    <3>4. fp.fptr + i \in Nat /\ fp.fptr + i < fp.size
      BY <1>1, <3>1, SMTT(30)
    <3>5. fp.fptr + i \in InChain(card, e)
      BY <1>1, <2>1, <2>2, <3>3, <3>4, InChainIs
    <3>6. QED
      BY <3>2, <3>3, <3>5 DEF FileUnit
  <2> HIDE DEF e, m
  <2>5. taken' = FileUnits(fp.fptr + n)
    <3> DEFINE S == {<<card, fp.clust, csect + (i - 1) \div SectorSize, (i - 1) % SectorSize>> : i \in 1 .. n}
    <3>1. more = [i \in 1 .. n |-> <<card, fp.clust, csect + (i - 1) \div SectorSize, (i - 1) % SectorSize>>]
      BY DEF UnitsOf
    <3>2. more \in Seq(S) /\ Len(more) = n
      <4>1. \A i \in 1 .. n : more[i] \in S
        BY <3>1
      <4>2. more = [i \in 1 .. n |-> more[i]]
        BY <3>1
      <4> HIDE DEF more, S
      <4>3. more \in [1 .. n -> S]
        BY <4>1, <4>2
      <4>4. n \in Nat
        OBVIOUS
      <4> HIDE <3>1, <4>1, <4>2
      <4>5. more \in Seq(S)
        BY <4>3, <4>4, SeqDef
      <4>6. DOMAIN more = 1 .. n
        BY <4>3
      <4>7. 1 .. n = 1 .. Len(more) /\ Len(more) \in Nat
        BY <4>5, <4>6, LenProperties
      <4> HIDE DEF S
      <4>8. Len(more) = n
        BY <4>4, <4>7
      <4>9. QED
        BY <4>5, <4>8
    <3>3. ASSUME NEW i \in 1 .. n PROVE more[i] = FileUnit(fp.fptr + i - 1)
      <4>1. PICK k \in 0 .. n - 1 : k = i - 1
        BY <3>3
      <4>2. fp.fptr + i - 1 = fp.fptr + k
        BY <1>1, <4>1
      <4>3. FileUnit(fp.fptr + k) = <<card, fp.clust, csect + k \div SectorSize, k % SectorSize>>
        BY <2>4
      <4>4. more[i] = <<card, fp.clust, csect + k \div SectorSize, k % SectorSize>>
        BY <3>1, <4>1
      <4>5. QED
        BY <4>2, <4>3, <4>4
    <3> HIDE DEF S, more
    <3>4. FileUnits(fp.fptr) \o more = FileUnits(fp.fptr + n)
      BY <1>1, <3>2, <3>3, UnitsGrow
    <3>5. QED
      BY <2>1, <3>4 DEF more
  <2>6. 0 .. fp.fptr + n - 1 \subseteq InChain(card, e)
    <3> SUFFICES ASSUME NEW i \in 0 .. fp.fptr + n - 1 PROVE i \in InChain(card, e)
      OBVIOUS
    <3>1. CASE i < fp.fptr
      BY <1>1, <2>1, <3>1
    <3>2. CASE ~(i < fp.fptr)
      <4>1. i - fp.fptr \in 0 .. n - 1 /\ fp.fptr + (i - fp.fptr) = i
        BY <1>1, <3>2, SMTT(30)
      <4>2. QED
        BY <2>4, <4>1
    <3>3. QED
      BY <3>1, <3>2
  <2>7. OfFile'
    <3>1. FatHasRoom(card) /\ ~e.dir
      BY <2>1 DEF OfFile, e
    <3>2. taken' = FileUnits(fp.fptr)'
      BY <1>4, <2>5 DEF FileUnits
    <3>3. 0 .. fp'.fptr - 1 \subseteq InChain(card, e)
      <4>1. fp'.fptr - 1 = fp.fptr + n - 1
        <5>1. PICK p \in Nat : p = fp.fptr
          BY <1>1
        <5>2. fp'.fptr = p + n
          BY <1>4, <5>1
        <5>3. QED
          BY <5>1, <5>2, SMTT(30)
      <4>2. QED
        BY <2>6, <4>1
    <3>4. QED
      BY <1>4, <2>1, <3>1, <3>2, <3>3 DEF OfFile, e
  <2>8. FileCluster(fp.fptr + n - 1) = fp.clust
    <3>1. n - 1 \in 0 .. n - 1 /\ fp.fptr + n - 1 = fp.fptr + (n - 1)
      BY <1>1
    <3>2. FileCluster(fp.fptr + (n - 1)) = fp.clust
      BY <2>4, <3>1
    <3>3. QED
      BY <3>1, <3>2
  <2>9. FileCluster(fp.fptr - 1)' = FileCluster(fp.fptr + n - 1)
    <3>1. fp'.fptr - 1 = fp.fptr + n - 1
      <4>1. PICK p \in Nat : p = fp.fptr
        BY <1>1
      <4>2. fp'.fptr = p + n
        BY <1>4, <4>1
      <4>3. QED
        BY <4>1, <4>2
    <3>2. FileCluster(fp.fptr - 1)' = FileCluster(fp'.fptr - 1)
      BY <1>4 DEF FileCluster
    <3>3. QED
      BY <3>1, <3>2
  <2>10. QED
    BY <1>4, <2>7, <2>8, <2>9
<1>8. ProgressInv'
  <2>1. fp'.fptr % SectorSize = 0 \/ fp'.fptr = fp'.size
    <3>1. PICK p \in Nat : p = fp.fptr /\ p % SectorSize = 0
      BY <1>1, <1>2
    <3>2. ASSUME NEW b \in Nat, b % SectorSize = 0 PROVE (p + b) % SectorSize = 0
      BY <1>3, <3>1, <3>2, WholeSum
    <3>3. CASE n % SectorSize = 0
      BY <1>4, <3>1, <3>2, <3>3
    <3>4. CASE n = btr
      <4>1. CASE btr % SectorSize = 0
        BY <1>1, <1>4, <3>1, <3>2, <3>4, <4>1
      <4>2. CASE fp.fptr + btr = fp.size
        BY <1>4, <3>4, <4>2
      <4>3. QED
        BY <1>2, <4>1, <4>2
    <3>5. QED
      BY <3>3, <3>4
  <2>2. btr' % SectorSize = 0 \/ fp'.fptr + btr' = fp'.size
    <3>1. CASE fp.fptr + btr = fp.size
      BY <1>4, <1>5, <3>1
    <3>2. CASE btr % SectorSize = 0
      BY <1>1, <1>3, <3>2, WholeSum
    <3>3. QED
      BY <1>2, <3>1, <3>2
  <2>3. got' > 0
    BY <1>1
  <2>4. QED
    BY <1>2, <1>4, <1>6, <2>1, <2>2, <2>3 DEF ProgressInv
<1>9. QED
  BY <1>2, <1>4, <1>7, <1>8, PlayerReads

LEMMA PlayerReadSector ==
    ASSUME Formatted, VolumeInv, FreshInv, PlayerInv, ReadSector
    PROVE  PlayerInv'
<1> DEFINE csect == (fp.fptr \div SectorSize) % Layout[vbr].csize
           sect == ClusterSector(fp.clust, csect)
           whole == btr \div SectorSize
           cc == Clipped(whole, csect)
           Abort == Return("player", "error") /\ fp' = [fp EXCEPT !.err = TRUE] /\ taken' = taken
           Taken(n) == /\ taken' = taken \o UnitsOf(card, sect[2], sect[3], n)
                       /\ btr' = btr - n /\ got' = got + n /\ Proceed("player", "cluster")
                       /\ UNCHANGED <<res, at>> /\ fp' = [fp EXCEPT !.fptr = fp.fptr + n]
<1>1. stage["player"] = "sector" /\ UNCHANGED <<card, during, mounted, valid, fsid, vbr>>
  BY DEF ReadSector, hostVars, fsVars
<1>2. /\ at["player"] # "idle" /\ Begun("player") /\ card \in Volumes /\ vbr \in Volumes
      /\ fp.fptr \in Nat /\ fp.size \in Nat /\ btr \in Nat /\ valid
      /\ Geometry(vbr) = Geometry(card)
  BY <1>1, PlayingIs
<1>3. /\ btr > 0
      /\ Undisturbed("player") => fp.clust = FileCluster(fp.fptr)
  BY <1>1 DEF PlayerInv, ProgressInv
<1>4. /\ SectorSize \in Nat \ {0} /\ Layout[vbr].csize \in Nat \ {0}
      /\ csect \in Nat /\ csect < Layout[vbr].csize /\ whole \in Nat
  <2>1. SectorSize \in Nat \ {0} /\ Layout[vbr].csize \in Nat \ {0}
    BY <1>2, SizesAre, ContentIs
  <2>2. whole \in Nat /\ fp.fptr \div SectorSize \in Nat
    BY <1>2, <2>1, Quotient
  <2>3. csect \in 0 .. Layout[vbr].csize - 1
    BY <2>1, <2>2
  <2>4. QED
    BY <2>1, <2>2, <2>3
<1>5. "error" \in Results
  BY DEF Results
<1>6. \/ sect = <<>> /\ Abort /\ UNCHANGED diskVars
      \/ /\ sect # <<>> /\ whole > 0
         /\ \E ok \in BOOLEAN :
               /\ Disk({<<"data", fp.clust, csect + i>> : i \in 0 .. cc - 1}, ok)
               /\ IF ~ok THEN Abort ELSE Taken(cc * SectorSize)
      \/ /\ sect # <<>> /\ whole = 0
         /\ \E ok \in BOOLEAN : Disk({sect}, ok) /\ IF ~ok THEN Abort ELSE Taken(btr)
  BY DEF ReadSector, Null
<1>7. IF fp.clust \in Clusters(vbr) THEN sect = <<"data", fp.clust, csect>> ELSE sect = <<>>
  BY DEF ClusterSector, Null, InFat
<1>8. /\ sect # <<>> => fp.clust \in Clusters(vbr) /\ sect[2] = fp.clust /\ sect[3] = csect
      /\ sect = <<>> => fp.clust \notin Clusters(vbr)
  BY <1>7
<1> HIDE DEF csect, sect, whole, cc
<1>9. ASSUME Abort, hurt => hurt', sect = <<>> \/ hurt'
      PROVE  PlayerInv'
  <2>1. ASSUME Undisturbed("player"), ~hurt'
        PROVE  taken = Files[card]
    <3>1. fp.clust \notin Clusters(card) /\ fp.clust = FileCluster(fp.fptr)
      BY <1>2, <1>3, <1>8, <1>9, <2>1, GeometrySame
    <3>2. OfFile
      BY <1>1, <2>1, PlayingIs DEF PlayerInv, ObjectInv
    <3>3. QED
      BY <3>1, <3>2, OfFileIs DEF VolumeInv
  <2>2. "error" # "ok"
    OBVIOUS
  <2>3. QED
    BY <1>1, <1>5, <1>9, <2>1, <2>2, PlayerReturns
<1>10. ASSUME NEW n \in Nat \ {0}, n <= btr, n % SectorSize = 0 \/ n = btr, Taken(n),
                hurt => hurt', sect # <<>>,
              \A i \in 0 .. n - 1 : csect + i \div SectorSize < Layout[vbr].csize
       PROVE  PlayerInv'
  <2>1. taken' = taken \o UnitsOf(card, fp.clust, csect, n) /\ fp.clust \in Clusters(vbr)
    BY <1>8, <1>10
  <2>2. csect = (fp.fptr \div SectorSize) % Layout[vbr].csize
    BY DEF csect
  <2>3. QED
    BY <1>1, <1>4, <1>10, <2>1, <2>2, PlayerTakes
<1>11. CASE sect = <<>> /\ Abort /\ UNCHANGED diskVars
  BY <1>2, <1>9, <1>11, HurtStays
<1>12. CASE /\ sect # <<>> /\ whole > 0
            /\ \E ok \in BOOLEAN :
                  /\ Disk({<<"data", fp.clust, csect + i>> : i \in 0 .. cc - 1}, ok)
                  /\ IF ~ok THEN Abort ELSE Taken(cc * SectorSize)
  <2>1. PICK ok \in BOOLEAN :
           /\ Disk({<<"data", fp.clust, csect + i>> : i \in 0 .. cc - 1}, ok)
           /\ IF ~ok THEN Abort ELSE Taken(cc * SectorSize)
    BY <1>12
  <2>2. /\ cc \in Nat /\ csect + cc <= Layout[vbr].csize
        /\ cc * SectorSize \in Nat \ {0} /\ cc * SectorSize <= btr
    BY <1>2, <1>4, <1>12, ClippedIs DEF VolumeInv, cc, whole
  <2>3. hurt => hurt'
    BY <1>2, <2>1, HurtStays
  <2>4. CASE ~ok
    BY <1>2, <1>9, <2>1, <2>3, <2>4 DEF Disk
  <2>5. CASE ok
    <3>1. (cc * SectorSize) % SectorSize = 0
      <4> DEFINE x == cc * SectorSize
      <4>1. x \in Int /\ x = SectorSize * cc + 0 /\ cc \in Int /\ SectorSize \in Int /\ SectorSize > 0
            /\ 0 \in 0 .. SectorSize - 1
        BY <1>4, <2>2
      <4> HIDE DEF x
      <4>2. x % SectorSize = 0
        BY <4>1, QuotientIs
      <4>3. QED
        BY <4>2 DEF x
    <3>2. ASSUME NEW i \in 0 .. cc * SectorSize - 1
          PROVE  csect + i \div SectorSize < Layout[vbr].csize
      <4>1. i \in Nat /\ i < cc * SectorSize
        BY <2>2, <3>2
      <4>2. PICK q \in Nat : q = i \div SectorSize
        BY <1>4, <4>1, Quotient
      <4>3. q < cc
        BY <1>4, <2>2, <4>1, <4>2, QuotientBelow
      <4>4. csect + q < Layout[vbr].csize
        BY <1>4, <2>2, <4>3
      <4>5. QED
        BY <4>2, <4>4
    <3>3. QED
      BY <1>10, <1>12, <2>1, <2>2, <2>3, <2>5, <3>1, <3>2
  <2>6. QED
    BY <2>4, <2>5
<1>13. CASE /\ sect # <<>> /\ whole = 0
            /\ \E ok \in BOOLEAN : Disk({sect}, ok) /\ IF ~ok THEN Abort ELSE Taken(btr)
  <2>1. PICK ok \in BOOLEAN : Disk({sect}, ok) /\ IF ~ok THEN Abort ELSE Taken(btr)
    BY <1>13
  <2>2. hurt => hurt'
    BY <1>2, <2>1, HurtStays
  <2>3. CASE ~ok
    BY <1>2, <1>9, <2>1, <2>2, <2>3 DEF Disk
  <2>4. CASE ok
    <3>1. btr < SectorSize
      <4>1. PICK q \in Nat, r \in 0 .. SectorSize - 1 :
               btr \div SectorSize = q /\ btr % SectorSize = r /\ btr = SectorSize * q + r
        BY <1>2, <1>4, Quotient
      <4>2. q = 0
        BY <1>13, <4>1 DEF whole
      <4>3. QED
        BY <1>4, <4>1, <4>2
    <3>2. ASSUME NEW i \in 0 .. btr - 1
          PROVE  csect + i \div SectorSize < Layout[vbr].csize
      <4>1. i \in Nat /\ i = SectorSize * 0 + i /\ i \in 0 .. SectorSize - 1
        BY <1>2, <1>4, <3>1, <3>2
      <4>2. i \div SectorSize = 0
        BY <1>4, <4>1, QuotientIs
      <4>3. QED
        BY <1>4, <4>2
    <3>3. btr \in Nat \ {0} /\ btr <= btr
      BY <1>2, <1>3
    <3>4. QED
      BY <1>10, <1>13, <2>1, <2>2, <2>4, <3>2, <3>3
  <2>5. QED
    BY <2>3, <2>4
<1>14. QED
  BY <1>6, <1>11, <1>12, <1>13

LEMMA PlayerStep ==
    ASSUME Formatted, VolumeInv, FreshInv, FreshInv', PlayerInv, [FatNext]_fatVars
    PROVE  PlayerInv'
<1>1. CASE Player
  BY <1>1, PlayerEnter, PlayerMounting, PlayerFind, PlayerNext, PlayerReadStart, PlayerReadCluster,
     PlayerReadSector DEF Player, Call
<1>2. CASE Console
  BY <1>2, PlayerBesideCalls, PlayerBesideList, PlayerOutside DEF Console
<1>3. CASE Swap \/ PlayCommand \/ LsCommand
  BY <1>3, PlayerOutside
<1>4. CASE UNCHANGED fatVars
  <2>1. UNCHANGED <<card, during, at, stage, fp, btr, got, taken, dirs, mounted, hurt, valid, fsid>>
    BY <1>4 DEF fatVars, hostVars, diskVars, fsVars, readVars
  <2>2. QED
    BY <2>1, PlayerAside
<1>5. QED
  BY <1>1, <1>2, <1>3, <1>4 DEF FatNext

\* As long as the host leaves the card alone, what a play has read is the beginning of
\* its file, in order and without a gap, and when nothing failed and no ls came it ends
\* with the whole file (TakenIsFile): the walk of f_open finds the first entry of the
\* name, f_read follows the chain of the clusters, and what is cached of the volume was
\* read from the card the play has had.
THEOREM TakenOfFile == FatSpec => []TakenIsFile
<1>0. Formatted
  BY LayoutAssumption, SizesAssumption DEF Formatted, LayoutAssumption, SizesAssumption
<1>1. FatInit => VolumeInv /\ FreshInv /\ PlayerInv
  BY <1>0, VolumeInit, FreshInit, PlayerInit
<1>2. VolumeInv /\ FreshInv /\ PlayerInv /\ [FatNext]_fatVars => VolumeInv' /\ FreshInv' /\ PlayerInv'
  BY <1>0, VolumeStep, FreshStep, PlayerStep
<1>3. VolumeInv /\ FreshInv /\ PlayerInv => TakenIsFile
  <2> SUFFICES ASSUME VolumeInv, FreshInv, PlayerInv, NEW v \in Volumes, during["player"] = {v}
               PROVE  /\ IsPrefix(taken, Files[v])
                      /\ at["player"] = "unmount" /\ ~hurt => taken = Files[v]
    BY DEF TakenIsFile
  <2>1. at["player"] \in {"idle", "mount", "opendir", "open", "header", "loop", "unmount"}
    BY DEF VolumeInv, ProgramInv, Ats, Tasks
  <2>2. CASE at["player"] \in {"idle", "mount", "opendir", "open"}
    <3>1. taken = <<>> /\ at["player"] # "unmount"
      BY <2>2 DEF PlayerInv, PlayInv
    <3>2. QED
      BY <1>0, <3>1, EmptyPrefix
  <2>3. CASE at["player"] \in {"header", "loop", "unmount"}
    <3>1. v = card /\ Undisturbed("player")
      BY <2>3 DEF FreshInv, Undisturbed, Tasks
    <3>2. CASE at["player"] = "unmount"
      BY <3>1, <3>2 DEF PlayerInv, PlayInv
    <3>3. CASE at["player"] \in {"header", "loop"}
      BY <1>0, <3>1, <3>3, OfFileIs DEF PlayerInv, ObjectInv, VolumeInv
    <3>4. QED
      BY <2>3, <3>2, <3>3
  <2>4. QED
    BY <2>1, <2>2, <2>3
<1>4. QED
  BY <1>1, <1>2, <1>3, PTL DEF FatSpec

-----------------------------------------------------------------------------
(* The list *)

\* A step that leaves the console where it is: its directory object and res are as they
\* were, or the list is rewound; a new mount makes the object one of an earlier mount.
LEMMA ListAside ==
    ASSUME ListInv, at'["console"] = at["console"], stage'["console"] = stage["console"],
           UNCHANGED <<card, fno, listed>>, during'["console"] = during["console"],
           at["console"] # "idle" /\ rewound => rewound',
           \/ /\ dirs'["current"] = dirs["current"] /\ res' = res
              /\ fsid' = fsid \/ dirs["current"].id # fsid'
           \/ Begun("console") => rewound',
           Inside("player")' /\ at'["player"] = "opendir" /\ Begun("console") => rewound'
    PROVE  ListInv'
<1>1. Listing' => Listing
  BY DEF Listing, Undisturbed
<1>2. Begun("console")' <=> Begun("console")
  BY DEF Begun
<1>3. CASE Begun("console") /\ rewound'
  BY <1>2, <1>3 DEF ListInv, WalkInv, ListingInv, Listing
<1>4. CASE ~Begun("console")
  BY <1>2, <1>4 DEF ListInv, WalkInv, ListingInv, Begun
<1>5. CASE /\ dirs'["current"] = dirs["current"] /\ res' = res
           /\ fsid' = fsid \/ dirs["current"].id # fsid'
  <2>1. (Current' => Current) /\ (Told' <=> Told)
    BY <1>5 DEF Current, Told
  <2>2. Reached(listed) => Reached(listed)'
    BY <1>5 DEF Reached, Seen, InRoot, DirCluster
  <2>3. Reached(<<>>) => Reached(<<>>)'
    BY <1>5 DEF Reached, Seen, InRoot, DirCluster
  <2>4. Reached(Append(listed, fno)) => Reached(Append(listed, fno))'
    BY <1>5 DEF Reached, Seen, InRoot, DirCluster
  <2>5. WalkInv'
    BY <1>1, <1>5, <2>1, <2>2, <2>4 DEF ListInv, WalkInv
  <2>6. ListingInv'
    BY <1>1, <1>2, <2>1, <2>3 DEF ListInv, ListingInv
  <2>7. QED
    BY <2>5, <2>6 DEF ListInv
<1>6. QED
  BY <1>3, <1>4, <1>5

LEMMA ListInit ==
    ASSUME FatInit
    PROVE  ListInv
<1>1. at["console"] = "idle" /\ at["player"] = "idle"
  BY DEF FatInit, Tasks
<1>2. QED
  BY <1>1 DEF ListInv, WalkInv, ListingInv

\* The player's steps.
LEMMA ListBeside ==
    ASSUME Formatted, VolumeInv, ListInv, Player
    PROVE  ListInv'
<1>1. /\ at \in [Tasks -> Ats] /\ stage \in [Tasks -> Pcs]
      /\ at["player"] \notin {"ls_opendir", "readdir"}
      /\ "player" \in Tasks /\ "console" \in Tasks
      /\ dirs \in [{"current", "open"} -> DirObjects] /\ fsid \in Nat
      /\ dirs["current"].id <= fsid /\ dirs["current"].id \in Nat
  BY DEF VolumeInv, ProgramInv, FsTyped, Tasks, DirInv, DirObjects
<1>2. ASSUME NEW r, Return("player", r)
      PROVE  /\ at'["console"] = at["console"] /\ stage'["console"] = stage["console"]
             /\ ~Inside("player")' /\ (at["player"] # "opendir" => res' = res)
  BY <1>1, <1>2 DEF Return, Proceed, Inside
<1>3. ASSUME NEW p, Proceed("player", p), Stay
      PROVE  at' = at /\ stage'["console"] = stage["console"] /\ res' = res
  BY <1>1, <1>3 DEF Stay, Proceed
<1>4. ASSUME at'["console"] = at["console"], stage'["console"] = stage["console"],
             UNCHANGED <<card, fno, listed, during>>,
             rewound' = rewound, Inside("player"), Inside("player")' => at' = at,
             at["player"] # "opendir" => /\ dirs'["current"] = dirs["current"] /\ res' = res
                                         /\ fsid' = fsid \/ fsid' = fsid + 1
      PROVE  ListInv'
  <2>1. at["player"] = "opendir" /\ Begun("console") => rewound
    BY <1>4 DEF ListInv, ListingInv
  <2>2. fsid' = fsid + 1 => dirs["current"].id # fsid'
    BY <1>1
  <2>3. QED
    BY <1>4, <2>1, <2>2, ListAside
<1>5. CASE Enter("player")
  <2>1. UNCHANGED <<card, fno, listed, during, dirs, res, fsid>>
    BY <1>5 DEF Enter, hostVars
  <2>2. /\ at'["console"] = at["console"] /\ stage'["console"] = stage["console"]
        /\ at'["player"] = at["player"] \/ at'["player"] = "idle"
    BY <1>1, <1>5 DEF Enter, Proceed
  <2>3. rewound' <=> (at["console"] # "idle" /\ (rewound \/ at["player"] = "opendir"))
    BY <1>5 DEF Enter
  <2>4. at["console"] # "idle" /\ rewound => rewound'
    BY <2>2, <2>3
  <2>5. at'["player"] = "opendir" /\ Begun("console") => rewound'
    BY <2>2, <2>3 DEF Begun
  <2>6. QED
    BY <2>1, <2>2, <2>4, <2>5, ListAside
<1>6. CASE MountVolume("player") \/ CheckFs("player") \/ ReadBpb("player")
  <2>1. /\ at'["console"] = at["console"] /\ stage'["console"] = stage["console"]
        /\ UNCHANGED <<card, fno, listed, during, rewound>> /\ Inside("player")
    BY <1>1, <1>6, InsideStep DEF VolumeInv
  <2>2. ASSUME Refuse("player")
        PROVE  /\ Inside("player")' => at' = at
               /\ at["player"] # "opendir" => dirs'["current"] = dirs["current"] /\ res' = res
    BY <1>1, <1>2, <2>2 DEF Refuse
  <2>3. ASSUME NEW p, Proceed("player", p), Stay, dirs' = dirs
        PROVE  /\ Inside("player")' => at' = at
               /\ at["player"] # "opendir" => dirs'["current"] = dirs["current"] /\ res' = res
    BY <1>3, <2>3
  <2>4. ASSUME NEW id, NEW v, Mounted("player", id, v)
        PROVE  /\ Inside("player")' => at' = at
               /\ at["player"] # "opendir" => dirs'["current"] = dirs["current"] /\ res' = res
    <3> DEFINE start == RootStart(id, v)
    <3>1. \/ Return("player", "ok") /\ dirs' = dirs
          \/ Refuse("player")
          \/ at["player"] = "opendir" /\ Return("player", "ok")
          \/ dirs' = [dirs EXCEPT !["open"] = start] /\ Proceed("player", "find") /\ Stay
      BY <1>1, <2>4 DEF Mounted
    <3> HIDE DEF start
    <3>2. dirs' = [dirs EXCEPT !["open"] = start] => dirs'["current"] = dirs["current"]
      BY <1>1
    <3>3. QED
      BY <1>2, <1>3, <2>2, <3>1, <3>2
  <2>5. fsid' = fsid \/ fsid' = fsid + 1
    BY <1>6 DEF MountVolume, CheckFs, fsVars, ReadBpb
  <2>6. /\ Inside("player")' => at' = at
        /\ at["player"] # "opendir" => dirs'["current"] = dirs["current"] /\ res' = res
    <3>1. CASE MountVolume("player")
      BY <2>2, <2>3, <2>4, <3>1 DEF MountVolume
    <3>2. CASE CheckFs("player")
      BY <2>2, <2>3, <3>2 DEF CheckFs
    <3>3. CASE ReadBpb("player")
      BY <2>2, <2>4, <3>3 DEF ReadBpb
    <3>4. QED
      BY <1>6, <3>1, <3>2, <3>3
  <2>7. QED
    BY <1>4, <2>1, <2>5, <2>6
<1>7. CASE OpenFind \/ OpenNext
  <2>1. /\ UNCHANGED <<card, fno, listed, during, rewound, fsid>> /\ stage["player"] \in {"find", "step"}
    BY <1>7 DEF OpenFind, OpenNext, hostVars, fsVars, listVars
  <2>2. Inside("player") /\ at["player"] = "open"
    BY <2>1, SearchingIs
  <2>3. /\ at'["console"] = at["console"] /\ stage'["console"] = stage["console"]
        /\ (Inside("player")' => at' = at) /\ res' = res
    <3>1. CASE OpenFind
      BY <1>2, <1>3, <2>2, <3>1 DEF OpenFind
    <3>2. CASE OpenNext
      BY <1>2, <1>3, <2>2, <3>2 DEF OpenNext
    <3>3. QED
      BY <1>7, <3>1, <3>2
  <2>4. dirs'["current"] = dirs["current"]
    <3>1. CASE OpenFind
      BY <1>1, <3>1 DEF OpenFind
    <3>2. CASE OpenNext
      <4>1. PICK r \in Results : DirNext("open", r)
        BY <3>2 DEF OpenNext
      <4>2. \E s, p, c : Put("open", s, p, c)
        BY <4>1, NextIs DEF VolumeInv
      <4>3. QED
        BY <1>1, <4>2 DEF Put
    <3>3. QED
      BY <1>7, <3>1, <3>2
  <2>5. QED
    BY <1>4, <2>1, <2>2, <2>3, <2>4
<1>8. CASE ReadStart \/ ReadCluster \/ ReadSector
  <2>1. /\ UNCHANGED <<card, fno, listed, during, rewound, fsid, dirs>>
        /\ stage["player"] \in {"validate", "cluster", "sector"}
    BY <1>8 DEF ReadStart, ReadCluster, ReadSector, hostVars, fsVars, listVars
  <2>2. Inside("player") /\ at["player"] \in {"header", "loop"}
    BY <2>1, PlayingIs
  <2>3. /\ at'["console"] = at["console"] /\ stage'["console"] = stage["console"]
        /\ (Inside("player")' => at' = at) /\ res' = res
    <3>1. \/ Return("player", "error") \/ Return("player", "ok")
          \/ (\E p : Proceed("player", p)) /\ UNCHANGED <<at, res>>
      BY <1>8 DEF ReadStart, ReadCluster, ReadSector, Stay
    <3>2. (\E p : Proceed("player", p)) => stage'["console"] = stage["console"]
      BY <1>1 DEF Proceed
    <3>3. QED
      BY <1>2, <2>2, <3>1, <3>2
  <2>4. QED
    BY <1>4, <2>1, <2>2, <2>3
<1>9. QED
  BY <1>5, <1>6, <1>7, <1>8 DEF Player, Call

\* The host, the commands and the console's own steps between the calls.
LEMMA ListOutside ==
    ASSUME VolumeInv, FreshInv, ListInv,
           Swap \/ PlayCommand \/ LsCommand \/ EndList
    PROVE  ListInv'
<1>1. /\ at \in [Tasks -> Ats] /\ stage \in [Tasks -> Pcs]
      /\ \A t \in Tasks : stage[t] \in Stages(at[t])
      /\ during \in [Tasks -> SUBSET Volumes]
      /\ "player" \in Tasks /\ "console" \in Tasks
  BY DEF VolumeInv, ProgramInv, FreshInv, Tasks
<1>2. CASE Swap
  <2>1. PICK v \in Volumes \ {card} :
           /\ card' = v
           /\ during' = [t \in Tasks |-> IF at[t] = "idle" THEN {} ELSE during[t] \cup {v}]
    BY <1>2 DEF Swap
  <2>2. UNCHANGED <<at, stage, listed, rewound>>
    BY <1>2 DEF Swap, listVars
  <2>3. ~Listing'
    BY <1>1, <2>1, <2>2 DEF Listing, Undisturbed, FreshInv
  <2>4. (Begun("console")' <=> Begun("console")) /\ (Inside("player")' <=> Inside("player"))
    BY <2>2 DEF Begun, Inside
  <2>5. QED
    BY <2>2, <2>3, <2>4 DEF ListInv, WalkInv, ListingInv
<1>3. CASE PlayCommand
  <2>1. /\ UNCHANGED <<card, fno, listed, dirs, res, fsid, rewound, stage>>
        /\ during'["console"] = during["console"]
        /\ at'["console"] = at["console"] /\ at'["player"] = "mount"
    BY <1>1, <1>3 DEF PlayCommand, fsVars
  <2>2. QED
    BY <2>1, ListAside
<1>4. CASE LsCommand
  <2>1. at'["console"] = "mount" /\ stage'["console"] = "out" /\ listed' = <<>>
    BY <1>1, <1>4 DEF LsCommand, Stages
  <2>2. ~Begun("console")'
    BY <2>1 DEF Begun
  <2>3. QED
    BY <2>1, <2>2 DEF ListInv, WalkInv, ListingInv
<1>5. CASE EndList
  <2>1. at'["console"] = "idle"
    BY <1>1, <1>5 DEF EndList
  <2>2. ~Begun("console")'
    BY <2>1 DEF Begun
  <2>3. QED
    BY <2>1, <2>2 DEF ListInv, WalkInv, ListingInv
<1>6. QED
  BY <1>2, <1>3, <1>4, <1>5

LEMMA ListChecks ==
    ASSUME VolumeInv, ListInv, ConsoleChecks
    PROVE  ListInv'
<1>1. /\ at \in [Tasks -> Ats] /\ stage \in [Tasks -> Pcs]
      /\ \A t \in Tasks : stage[t] \in Stages(at[t])
      /\ "player" \in Tasks /\ "console" \in Tasks
      /\ at["console"] \notin {"open", "header", "loop", "unmount"}
  BY DEF VolumeInv, ProgramInv, Tasks
<1>2. /\ stage["console"] = "done" /\ stage'["console"] = "out" /\ stage'["player"] = stage["player"]
      /\ UNCHANGED <<card, during, dirs, res, fno, fsid, rewound>> /\ at'["player"] = at["player"]
  BY <1>1 DEF ConsoleChecks, Proceed, hostVars, fsVars
<1>3. at["console"] \in {"mount", "opendir", "ls_opendir", "readdir"}
  BY <1>1, <1>2 DEF Stages, Ats, Mounting
<1>4. /\ at["console"] = "mount" => at'["console"] = "opendir"
      /\ at["console"] = "opendir" => at'["console"] = "ls_opendir"
      /\ at["console"] = "ls_opendir" => at'["console"] = IF res # "ok" THEN "idle" ELSE "readdir"
      /\ at["console"] = "readdir" =>
            at'["console"] = IF res # "ok" THEN "idle" ELSE IF fno = End THEN "listed" ELSE "readdir"
  BY <1>1 DEF ConsoleChecks
<1>5. listed' = IF at'["console"] = "idle" THEN <<>>
                ELSE IF at["console"] = "readdir" /\ fno # End THEN Append(listed, fno) ELSE listed
  BY DEF ConsoleChecks
<1>6. Begun("console") /\ at["console"] # "idle"
  BY <1>2, <1>3 DEF Begun
<1>7. Inside("player")' <=> Inside("player")
  BY <1>2 DEF Inside
<1>8. /\ Listing' => Listing
      /\ Current' <=> Current
      /\ Reached(<<>>) => Reached(<<>>)'
      /\ \A l : Reached(l) /\ listed' = l => Reached(listed)'
  BY <1>2, <1>6 DEF Listing, Undisturbed, Current, Reached, Seen, InRoot, DirCluster
<1>9. Told <=> res = "ok"
  BY <1>2 DEF Told
<1>10. at["console"] \in {"mount", "opendir", "ls_opendir"} => listed = <<>>
  BY DEF ListInv, ListingInv
<1>11. ~Told'
  BY <1>2 DEF Told
<1>12. WalkInv'
  <2> SUFFICES ASSUME Listing', at'["console"] = "readdir", Current'
               PROVE  Reached(listed)'
    BY <1>2, <1>11 DEF WalkInv
  <2>1. CASE at["console"] = "ls_opendir"
    <3>1. res = "ok" /\ listed' = <<>>
      BY <1>4, <1>5, <1>10, <2>1
    <3>2. Reached(<<>>)
      BY <1>8, <1>9, <2>1, <3>1 DEF ListInv, ListingInv
    <3>3. QED
      BY <1>8, <3>1, <3>2
  <2>2. CASE at["console"] = "readdir"
    <3>1. res = "ok" /\ fno # End /\ listed' = Append(listed, fno)
      BY <1>4, <1>5, <2>2
    <3>2. Reached(Append(listed, fno))
      BY <1>8, <1>9, <2>2, <3>1 DEF ListInv, WalkInv
    <3>3. QED
      BY <1>8, <3>1, <3>2
  <2>3. QED
    BY <1>3, <1>4, <2>1, <2>2
<1>13. ListingInv'
  <2>1. Inside("player")' /\ at'["player"] = "opendir" /\ Begun("console")' => rewound'
    BY <1>2, <1>6, <1>7 DEF ListInv, ListingInv
  <2>2. at'["console"] \in {"mount", "opendir", "ls_opendir"} => listed' = <<>>
    BY <1>3, <1>4, <1>5, <1>10
  <2>3. ASSUME Listing', at'["console"] = "listed" PROVE listed' = Lists[card]'
    <3>1. at["console"] = "readdir" /\ res = "ok" /\ fno = End
      BY <1>3, <1>4, <2>3
    <3>2. listed' = listed /\ listed = Lists[card]
      BY <1>5, <1>8, <1>9, <2>3, <3>1 DEF ListInv, WalkInv
    <3>3. QED
      BY <1>2, <3>2
  <2>4. QED
    BY <1>11, <2>1, <2>2, <2>3 DEF ListingInv
<1>14. QED
  BY <1>12, <1>13 DEF ListInv

\* The console calls the next function.
LEMMA ListEnter ==
    ASSUME VolumeInv, ListInv, Enter("console")
    PROVE  ListInv'
<1>1. /\ at \in [Tasks -> Ats] /\ stage \in [Tasks -> Pcs]
      /\ "player" \in Tasks /\ "console" \in Tasks
      /\ at["console"] \notin {"open", "header", "loop", "unmount"}
  BY DEF VolumeInv, ProgramInv, Tasks
<1>2. /\ UNCHANGED <<card, during, fsid, dirs, res, fno, listed, at>>
      /\ at["console"] # "idle" /\ stage["console"] = "out" /\ ~Inside("player")
      /\ \E p \in {"mount", "validate"} : Proceed("console", p)
  BY <1>1 DEF Enter, hostVars
<1>3. rewound' <=> rewound
  BY <1>2 DEF Enter
<1>4. stage'["player"] = stage["player"] /\ stage'["console"] \in {"mount", "validate"}
  BY <1>1, <1>2 DEF Proceed
<1>5. ~Inside("player")'
  BY <1>2, <1>4 DEF Inside
<1>6. /\ Listing' => Listing
      /\ Current' <=> Current
      /\ Reached(listed) => Reached(listed)'
  BY <1>2, <1>3 DEF Listing, Undisturbed, Current, Reached, Seen, InRoot, DirCluster
<1>7. ~Told'
  BY <1>4 DEF Told
<1>8. WalkInv'
  BY <1>2, <1>4, <1>6, <1>7 DEF ListInv, WalkInv
<1>9. ListingInv'
  BY <1>2, <1>5, <1>6, <1>7 DEF ListInv, ListingInv
<1>10. QED
  BY <1>8, <1>9 DEF ListInv

\* The mount of ls, and its f_opendir: the first entry of the root directory of the card.
LEMMA ListMounting ==
    ASSUME Formatted, VolumeInv, FreshInv, ListInv,
           MountVolume("console") \/ CheckFs("console") \/ ReadBpb("console")
    PROVE  ListInv'
<1>1. "console" \in Tasks /\ "player" \in Tasks
  BY DEF Tasks
<1>2. /\ at'["player"] = at["player"] /\ stage'["player"] = stage["player"]
      /\ UNCHANGED <<card, during, fno, listed, rewound>>
      /\ Inside("console") /\ stage["console"] \in Mounting
  BY <1>1, InsideStep DEF VolumeInv, Tasks
<1>3. /\ at \in [Tasks -> Ats] /\ stage \in [Tasks -> Pcs]
      /\ Begun("console") /\ at["console"] \in {"mount", "opendir", "ls_opendir"}
      /\ ~Inside("player") /\ fsid \in Nat /\ card \in Volumes
      /\ dirs \in [{"current", "open"} -> DirObjects]
  BY <1>1, <1>2, InsideBegun DEF VolumeInv, ProgramInv, FsTyped
<1>4. ASSUME NEW r, Return("console", r)
      PROVE  at' = at /\ (at["console"] = "ls_opendir" => res' = r)
  BY <1>4 DEF Return
<1>5. ASSUME NEW p \in {"boot", "partition", "bpb"}, Proceed("console", p), Stay
      PROVE  at' = at /\ ~Told'
  BY <1>3, <1>1, <1>5 DEF Stay, Proceed, Told
<1>6. ASSUME Refuse("console")
      PROVE  at' = at /\ (at["console"] = "ls_opendir" => ~Told')
  BY <1>4, <1>6 DEF Refuse, Told
<1>7. ASSUME NEW id \in Nat, NEW v, Mounted("console", id, v), Undisturbed("console") => v = card
      PROVE  at' = at /\ (Undisturbed("console") /\ at["console"] = "ls_opendir" => ~Told' \/ Reached(<<>>)')
  <2> DEFINE start == RootStart(id, v)
  <2>1. \/ at["console"] = "mount" /\ Return("console", "ok")
        \/ Refuse("console")
        \/ start.sect # <<>> /\ dirs' = [dirs EXCEPT !["current"] = start] /\ Return("console", "ok")
    BY <1>3, <1>7 DEF Mounted, Null
  <2> HIDE DEF start
  <2>2. CASE start.sect # <<>> /\ dirs' = [dirs EXCEPT !["current"] = start] /\ Return("console", "ok")
    <3>1. at' = at /\ dirs'["current"] = start
      BY <1>3, <1>4, <2>2
    <3>2. ASSUME Undisturbed("console") PROVE Reached(<<>>)'
      <4>1. start = RootStart(id, card)
        BY <1>7, <3>2 DEF start
      <4>2. InRoot(start) /\ start.dptr = 0
        BY <1>3, <4>1, AtRoot, RootIs
      <4>3. DirUpTo(card, 0) = <<>>
        BY DirUpToNext
      <4>4. Seen(<<>>, 0)
        BY <4>3 DEF Seen
      <4>5. QED
        BY <1>2, <2>2, <3>1, <4>2, <4>4 DEF Reached, Seen, InRoot, DirCluster
    <3>3. QED
      BY <3>1, <3>2
  <2>3. QED
    BY <1>4, <1>6, <2>1, <2>2
<1>8. at' = at /\ (Undisturbed("console") /\ at["console"] = "ls_opendir" => ~Told' \/ Reached(<<>>)')
  <2>1. CASE MountVolume("console")
    <3>1. CASE Mounted("console", fsid, vbr) /\ valid
      <4>1. Undisturbed("console") => vbr = card
        BY <1>1, <1>3, <3>1, SeesCard
      <4>2. QED
        BY <1>3, <1>7, <3>1, <4>1
    <3>2. CASE Proceed("console", "boot") /\ Stay
      BY <1>5, <3>2
    <3>3. QED
      BY <1>6, <2>1, <3>1, <3>2 DEF MountVolume
  <2>2. CASE CheckFs("console")
    BY <1>5, <1>6, <2>2 DEF CheckFs
  <2>3. CASE ReadBpb("console")
    <3>1. Undisturbed("console") => win.vol = card
      BY <1>1, <1>3, <2>3, SeesCard DEF ReadBpb
    <3>2. fsid + 1 \in Nat
      BY <1>3
    <3>3. Refuse("console") \/ Mounted("console", fsid + 1, win.vol)
      BY <2>3 DEF ReadBpb
    <3>4. QED
      BY <1>6, <1>7, <3>1, <3>2, <3>3
  <2>4. QED
    BY <2>1, <2>2, <2>3
<1>9. Listing' => Undisturbed("console")
  BY <1>2, <1>8 DEF Listing, Undisturbed
<1>10. ~Inside("player")'
  BY <1>2, <1>3 DEF Inside
<1>11. QED
  BY <1>2, <1>3, <1>8, <1>9, <1>10 DEF ListInv, WalkInv, ListingInv

\* f_readdir, a step of it: the parts of what is to be shown.
LEMMA ListReads ==
    ASSUME VolumeInv, ListInv, Inside("console"), at["console"] = "readdir",
           UNCHANGED <<card, during, fsid, listed, rewound, at>>, stage'["player"] = stage["player"],
           NEW p \in {"entry", "skip", "move", "done"}, stage'["console"] = p,
           Listing /\ p # "done" => Reached(listed)',
           Listing /\ p \in {"skip", "move"} => dirs'["current"].sect # <<>>,
           Listing /\ p = "skip" => RootEntry(card, dirs'["current"].dptr) = Free,
           Listing /\ p = "move" => /\ fno' = RootEntry(card, dirs'["current"].dptr)
                                    /\ fno' \notin {End, Free},
           Listing /\ p = "done" /\ res' = "ok" =>
              IF fno' = End THEN listed = Lists[card] ELSE Reached(Append(listed, fno))'
    PROVE  ListInv'
<1>1. Listing' => Listing
  BY DEF Listing, Undisturbed
<1>2. Told' => p = "done" /\ res' = "ok"
  BY DEF Told
<1>3. WalkInv'
  BY <1>1, <1>2 DEF WalkInv
<1>4. "player" \in Tasks /\ "console" \in Tasks /\ ~Inside("player")
  BY DEF VolumeInv, ProgramInv, Tasks
<1>5. ~Inside("player")'
  BY <1>4 DEF Inside
<1>6. ListingInv'
  BY <1>5 DEF ListingInv
<1>7. QED
  BY <1>3, <1>6 DEF ListInv

LEMMA ListStart ==
    ASSUME VolumeInv, ListInv, ReaddirStart
    PROVE  ListInv'
<1>1. /\ at \in [Tasks -> Ats] /\ stage \in [Tasks -> Pcs]
      /\ "player" \in Tasks /\ "console" \in Tasks
  BY DEF VolumeInv, ProgramInv, Tasks
<1>2. /\ stage["console"] = "validate" /\ Inside("console")
      /\ UNCHANGED <<card, during, fsid, listed, rewound, fno, dirs>>
  BY DEF ReaddirStart, Inside, hostVars, fsVars, listVars
<1>3. at["console"] = "readdir"
  BY <1>1, <1>2 DEF VolumeInv, ProgramInv, Stages, Ats, Mounting
<1>4. PICK ok \in BOOLEAN :
         /\ Validate(dirs["current"], ok)
         /\ IF ok THEN Proceed("console", "entry") /\ Stay ELSE Return("console", "error")
  BY DEF ReaddirStart
<1>5. CASE ok
  <2>1. stage'["console"] = "entry" /\ stage'["player"] = stage["player"] /\ at' = at
    BY <1>1, <1>4, <1>5 DEF Proceed, Stay
  <2>2. Current
    BY <1>4, <1>5 DEF Validate, Current
  <2>3. Listing => Reached(listed)'
    BY <1>2, <1>3, <2>2 DEF ListInv, WalkInv, Reached, Seen, InRoot, DirCluster
  <2>4. QED
    BY <1>2, <1>3, <2>1, <2>3, ListReads
<1>6. CASE ~ok
  <2>1. stage'["console"] = "done" /\ stage'["player"] = stage["player"] /\ at' = at /\ res' = "error"
    BY <1>1, <1>3, <1>4, <1>6 DEF Return, Proceed
  <2>2. QED
    BY <1>2, <1>3, <2>1, ListReads
<1>7. QED
  BY <1>5, <1>6

\* The directory ends at entry k: the list up to there is the list of the directory.
LEMMA ListEnds ==
    ASSUME Formatted, card \in Volumes, NEW k \in 0 .. MaxDir, NEW list, Seen(list, k),
           k < MaxDir => RootEntry(card, k) = End
    PROVE  list = Lists[card]
<1>1. DirSize(card) = k
  BY DirSizeIs DEF Seen
<1>2. QED
  BY <1>1 DEF Lists, Seen

\* One entry more has been passed.
LEMMA SeenMore ==
    ASSUME NEW p \in Nat, NEW list, Seen(list, p), NEW e, e = RootEntry(card, p), e # End
    PROVE  Seen(IF e = Free THEN list ELSE Append(list, e), p + 1)
<1>1. DirUpTo(card, p + 1) = IF e = Free THEN DirUpTo(card, p)
                                 ELSE Append(DirUpTo(card, p), e)
  BY DirUpToNext
<1>2. ASSUME NEW i \in 0 .. (p + 1) - 1 PROVE RootEntry(card, i) # End
  <2>1. i \in 0 .. p - 1 \/ i = p
    OBVIOUS
  <2>2. QED
    BY <2>1 DEF Seen
<1>3. QED
  BY <1>1, <1>2 DEF Seen

\* dir_read, at an entry.
LEMMA ListEntry ==
    ASSUME Formatted, VolumeInv, FreshInv, ListInv, ReaddirEntry
    PROVE  ListInv'
<1> DEFINE dp == dirs["current"]
           close == dirs' = [dirs EXCEPT !["current"].sect = <<>>]
           e == NextEntry(win', dp.dptr % EntriesPerSector)
<1>1. /\ at \in [Tasks -> Ats] /\ stage \in [Tasks -> Pcs]
      /\ "player" \in Tasks /\ "console" \in Tasks
  BY DEF VolumeInv, ProgramInv, Tasks
<1>2. stage["console"] = "entry" /\ UNCHANGED <<card, during, fsid, vbr, valid, listed, rewound, at>>
  BY DEF ReaddirEntry, hostVars, fsVars, listVars
<1>3. /\ dp \in DirObjects /\ dp.open /\ dp.id = fsid
      /\ dp.sect = <<>> \/ Standing(dp)
      /\ valid /\ FatHasRoom(vbr) /\ Geometry(vbr) = Geometry(card) /\ WindowInv
      /\ Inside("console") /\ at["console"] = "readdir" /\ ~strayed
      /\ card \in Volumes /\ vbr \in Volumes
      /\ dirs \in [{"current", "open"} -> DirObjects]
  BY <1>2, ReadingIs
<1>4. Begun("console")
  BY <1>1, <1>3, InsideBegun DEF VolumeInv
<1>5. Listing => Reached(listed)
  BY <1>2, <1>3 DEF ListInv, WalkInv, Current
<1>6. ASSUME NEW r, Return("console", r)
      PROVE  stage'["console"] = "done" /\ stage'["player"] = stage["player"] /\ res' = r
  BY <1>1, <1>3, <1>6 DEF Return, Proceed
<1>7. CASE dp.sect = <<>>
  <2>1. fno' = End /\ Return("console", "ok")
    BY <1>7 DEF ReaddirEntry, Null
  <2>2. Listing => listed = Lists[card]
    BY <1>5, <1>7 DEF Reached
  <2>3. QED
    BY <1>2, <1>3, <1>6, <2>1, <2>2, ListReads
<1>8. CASE dp.sect # <<>>
  <2>1. End # Free
    BY DEF End, Free, Marker
  <2>2. PICK ok \in BOOLEAN :
           /\ Window(dp.sect, ok)
           /\ \/ ~ok /\ Return("console", "error")
              \/ ok /\ e = End /\ fno' = End /\ Return("console", "ok")
              \/ ok /\ e = Free /\ Proceed("console", "skip") /\ dirs' = dirs
              \/ /\ ok /\ e \notin {End, Free} /\ fno' = e /\ Proceed("console", "move")
                 /\ dirs' = dirs
    BY <1>8, <2>1 DEF ReaddirEntry, Null
  <2>3. Standing(dp) /\ dp.dptr \in Nat
    BY <1>3, <1>8 DEF DirObjects
  <2>4. OfVolume(dp.sect)
    <3>1. [sect |-> dp.sect, vol |-> vbr].sect = dp.sect /\ [sect |-> dp.sect, vol |-> vbr].vol = vbr
      OBVIOUS
    <3>2. QED
      BY <1>3, <2>3, <3>1, EntryIs
  <2>5. /\ ok => win'.sect = dp.sect
        /\ win' = win \/ win'.sect = <<>> \/ win'.vol = card
    BY <1>2, <1>3, <1>8, <2>2, <2>4, WindowStays
  <2>6. ASSUME Listing, ok
        PROVE  /\ e = RootEntry(card, dp.dptr) /\ Seen(listed, dp.dptr) /\ InRoot(dp)
               /\ dp.dptr \in 0 .. MaxDir
    <3>1. vbr = card /\ (win.sect # <<>> => win.vol = card)
      BY <1>1, <1>3, <1>4, <2>6, SeesCard DEF Listing
    <3>2. win'.vol = card /\ win'.sect = dp.sect
      BY <1>8, <2>5, <2>6, <3>1
    <3>3. InRoot(dp) /\ Seen(listed, dp.dptr)
      BY <1>5, <1>8, <2>6 DEF Reached
    <3>4. /\ dp.clust \in Clusters(card)
          /\ dp.clust = Cluster(card, Layout[card].root,
                                    dp.dptr \div (Layout[card].csize * EntriesPerSector))
          /\ dp.sect = <<"data", dp.clust, (dp.dptr \div EntriesPerSector) % Layout[card].csize>>
      BY <2>3, <3>1, <3>3 DEF Standing, InRoot, DirCluster
    <3>5. e = RootEntry(card, dp.dptr)
      BY <1>3, <2>3, <3>2, <3>4, RootEntryIs
    <3>6. dp.dptr \in 0 .. MaxDir
      BY <2>3, <3>3, SizesAre DEF InRoot
    <3>7. QED
      BY <3>3, <3>5, <3>6
  <2> HIDE DEF e
  <2>7. dirs' = dirs => (Listing => Reached(listed)')
    BY <1>2, <1>5 DEF Reached, Seen, InRoot, DirCluster
  <2>8. CASE ~ok /\ Return("console", "error")
    BY <1>2, <1>3, <1>6, <2>8, ListReads
  <2>9. CASE ok /\ e = End /\ fno' = End /\ Return("console", "ok")
    <3>1. Listing => listed = Lists[card]
      BY <1>3, <2>6, <2>9, ListEnds
    <3>2. QED
      BY <1>2, <1>3, <1>6, <2>9, <3>1, ListReads
  <2>10. CASE ok /\ e = Free /\ Proceed("console", "skip") /\ dirs' = dirs
    <3>1. stage'["console"] = "skip" /\ stage'["player"] = stage["player"]
      BY <1>1, <2>10 DEF Proceed
    <3>2. Listing => RootEntry(card, dirs'["current"].dptr) = Free
      BY <2>6, <2>10
    <3>3. QED
      BY <1>2, <1>3, <1>8, <2>7, <2>10, <3>1, <3>2, ListReads
  <2>11. CASE /\ ok /\ e \notin {End, Free} /\ fno' = e /\ Proceed("console", "move")
              /\ dirs' = dirs
    <3>1. stage'["console"] = "move" /\ stage'["player"] = stage["player"]
      BY <1>1, <2>11 DEF Proceed
    <3>2. Listing => fno' = RootEntry(card, dirs'["current"].dptr) /\ fno' \notin {End, Free}
      BY <2>6, <2>11
    <3>3. QED
      BY <1>2, <1>3, <1>8, <2>7, <2>11, <3>1, <3>2, ListReads
  <2>12. QED
    BY <2>2, <2>8, <2>9, <2>10, <2>11
<1>9. QED
  BY <1>7, <1>8

\* dir_next behind it.
LEMMA ListNext ==
    ASSUME Formatted, VolumeInv, FreshInv, ListInv, ReaddirNext
    PROVE  ListInv'
<1> DEFINE dp == dirs["current"]
           p == dp.dptr
           e == RootEntry(card, p)
<1>1. /\ at \in [Tasks -> Ats] /\ stage \in [Tasks -> Pcs]
      /\ "player" \in Tasks /\ "console" \in Tasks
  BY DEF VolumeInv, ProgramInv, Tasks
<1>2. /\ stage["console"] \in {"skip", "move"}
      /\ UNCHANGED <<card, during, fsid, vbr, valid, listed, rewound, at>>
  BY DEF ReaddirNext, hostVars, fsVars, listVars
<1>3. /\ dp \in DirObjects /\ dp.open /\ dp.id = fsid
      /\ dp.sect = <<>> \/ Standing(dp)
      /\ valid /\ FatHasRoom(vbr) /\ Geometry(vbr) = Geometry(card) /\ WindowInv
      /\ Inside("console") /\ at["console"] = "readdir" /\ ~strayed
      /\ card \in Volumes /\ vbr \in Volumes
  BY <1>2, ReadingIs
<1>4. Begun("console") /\ p \in Nat
  BY <1>1, <1>3, InsideBegun DEF VolumeInv, DirObjects
<1>5. ASSUME Listing
      PROVE  /\ dp.sect # <<>> /\ InRoot(dp) /\ Seen(listed, p)
             /\ e # End /\ (stage["console"] = "skip" => e = Free)
             /\ stage["console"] = "move" => fno = e /\ e # Free
  <2>1. End # Free
    BY DEF End, Free, Marker
  <2>2. /\ Reached(listed) /\ dp.sect # <<>>
        /\ stage["console"] = "skip" => e = Free
        /\ stage["console"] = "move" => fno = e /\ e \notin {End, Free}
    BY <1>2, <1>3, <1>5 DEF ListInv, WalkInv, Current
  <2> HIDE DEF e
  <2>3. QED
    BY <1>2, <2>1, <2>2 DEF Reached
<1>6. PICK r \in Results :
         /\ DirNext("current", r)
         /\ \/ r = "ok" /\ stage["console"] = "skip" /\ Proceed("console", "entry") /\ fno' = fno
            \/ r = "nofile" /\ stage["console"] = "skip" /\ fno' = End /\ Return("console", "ok")
            \/ r # "error" /\ stage["console"] = "move" /\ fno' = fno /\ Return("console", "ok")
            \/ Return("console", "error")
  BY DEF ReaddirNext
<1>7. ASSUME NEW x, Return("console", x)
      PROVE  stage'["console"] = "done" /\ stage'["player"] = stage["player"] /\ res' = x
  BY <1>1, <1>3, <1>7 DEF Return, Proceed
<1>8. /\ r = "ok" => dirs'["current"].sect # <<>>
      /\ r = "nofile" => dirs'["current"].sect = <<>>
  BY <1>2, <1>3, <1>6, NextStays DEF VolumeInv
<1> DEFINE list == IF e = Free THEN listed ELSE Append(listed, e)
<1>9. ASSUME Listing
      PROVE  /\ r = "ok" => InRoot(dirs'["current"]) /\ Seen(list, dirs'["current"].dptr)
             /\ r = "nofile" => list = Lists[card]
  <2>1. vbr = card /\ (win.sect # <<>> => win.vol = card)
    BY <1>1, <1>3, <1>4, <1>9, SeesCard DEF Listing
  <2>2. /\ r = "ok" => dirs'["current"].dptr = p + 1 /\ InRoot(dirs'["current"])
        /\ r = "nofile" => p + 1 >= MaxDir \/ RootEntry(card, p + 1) = End
    BY <1>2, <1>3, <1>5, <1>6, <1>9, <2>1, NextInRoot DEF VolumeInv
  <2>3. Seen(list, p + 1)
    BY <1>4, <1>5, <1>9, SeenMore
  <2> HIDE DEF list, e
  <2>4. p < MaxDir /\ MaxDir \in Nat
    BY <1>5, <1>9, SizesAre DEF InRoot
  <2>5. r = "nofile" => list = Lists[card]
    <3>1. p + 1 \in 0 .. MaxDir
      BY <1>4, <2>4
    <3>2. r = "nofile" => (p + 1 < MaxDir => RootEntry(card, p + 1) = End)
      BY <1>4, <2>2, <2>4
    <3> HIDE DEF p
    <3>3. QED
      BY <1>3, <2>3, <3>1, <3>2, ListEnds
  <2>6. QED
    BY <2>2, <2>3, <2>5
<1>10. Listing /\ stage["console"] = "skip" => list = listed
  BY <1>5
<1>11. Listing /\ stage["console"] = "move" => list = Append(listed, fno) /\ fno # End
  BY <1>5
<1> HIDE DEF list, e, p
<1>12. CASE r = "ok" /\ stage["console"] = "skip" /\ Proceed("console", "entry") /\ fno' = fno
  <2>1. stage'["console"] = "entry" /\ stage'["player"] = stage["player"]
    BY <1>1, <1>12 DEF Proceed
  <2>2. Listing => Reached(listed)'
    BY <1>2, <1>8, <1>9, <1>10, <1>12 DEF Reached, Seen, InRoot, DirCluster
  <2>3. QED
    BY <1>2, <1>3, <2>1, <2>2, ListReads
<1>13. CASE r = "nofile" /\ stage["console"] = "skip" /\ fno' = End /\ Return("console", "ok")
  <2>1. Listing => listed = Lists[card]
    BY <1>9, <1>10, <1>13
  <2>2. QED
    BY <1>2, <1>3, <1>7, <1>13, <2>1, ListReads
<1>14. CASE r # "error" /\ stage["console"] = "move" /\ fno' = fno /\ Return("console", "ok")
  <2>1. r = "ok" \/ r = "nofile"
    BY <1>14 DEF Results
  <2>2. Listing => Reached(Append(listed, fno))' /\ fno' # End
    <3>1. CASE r = "ok"
      BY <1>2, <1>8, <1>9, <1>11, <1>14, <3>1 DEF Reached, Seen, InRoot, DirCluster
    <3>2. CASE r = "nofile"
      BY <1>2, <1>8, <1>9, <1>11, <1>14, <3>2 DEF Reached, Lists
    <3>3. QED
      BY <2>1, <3>1, <3>2
  <2>3. QED
    BY <1>2, <1>3, <1>7, <1>14, <2>2, ListReads
<1>15. CASE Return("console", "error")
  BY <1>2, <1>3, <1>7, <1>15, ListReads
<1>16. QED
  BY <1>6, <1>12, <1>13, <1>14, <1>15

LEMMA ListStep ==
    ASSUME Formatted, VolumeInv, FreshInv, ListInv, [FatNext]_fatVars
    PROVE  ListInv'
<1>1. CASE Player
  BY <1>1, ListBeside
<1>2. CASE Console
  BY <1>2, ListEnter, ListMounting, ListStart, ListEntry, ListNext, ListChecks, ListOutside
     DEF Console, Call
<1>3. CASE Swap \/ PlayCommand \/ LsCommand
  BY <1>3, ListOutside
<1>4. CASE UNCHANGED fatVars
  <2>1. UNCHANGED <<card, during, at, stage, res, fno, listed, dirs, fsid, rewound>>
    BY <1>4 DEF fatVars, hostVars, fsVars, listVars
  <2>2. at'["player"] = "opendir" /\ Inside("player")' /\ Begun("console") => rewound'
    BY <2>1 DEF ListInv, ListingInv, Inside
  <2>3. QED
    BY <2>1, <2>2, ListAside
<1>5. QED
  BY <1>1, <1>2, <1>3, <1>4 DEF FatNext

\* A list that ends with "end of dir" is the directory the card holds, unless the host
\* exchanged it meanwhile or a play has rewound the directory object (ListIsFresh): the
\* mount of ls has forgotten the volume and the window, and the walk stands where the
\* list ends also when a play mounts the volume in between, because its object is then
\* one of an earlier mount and is refused.
THEOREM ListOfDirectory == FatSpec => []ListIsFresh
<1>0. Formatted
  BY LayoutAssumption, SizesAssumption DEF Formatted, LayoutAssumption, SizesAssumption
<1>1. FatInit => VolumeInv /\ FreshInv /\ ListInv
  BY <1>0, VolumeInit, FreshInit, ListInit
<1>2. VolumeInv /\ FreshInv /\ ListInv /\ [FatNext]_fatVars => VolumeInv' /\ FreshInv' /\ ListInv'
  BY <1>0, VolumeStep, FreshStep, ListStep
<1>3. VolumeInv /\ FreshInv /\ ListInv => ListIsFresh
  <2> SUFFICES ASSUME VolumeInv, FreshInv, ListInv, at["console"] = "listed", ~rewound,
                      NEW v \in Volumes, during["console"] = {v}
               PROVE  listed = Lists[v]
    BY DEF ListIsFresh
  <2>1. v = card /\ Listing
    BY DEF FreshInv, Listing, Undisturbed, Tasks
  <2>2. QED
    BY <2>1 DEF ListInv, ListingInv
<1>4. QED
  BY <1>1, <1>2, <1>3, PTL DEF FatSpec

==============================================================================
