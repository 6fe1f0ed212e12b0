------------------------------ MODULE DacPlayer ------------------------------
(***************************************************************************)
(* The music player of src/board_dev/board_dac_sound.c: the task body      *)
(* Music_Player, the two halves of music_buffer it fills in turn, the DMA  *)
(* stream that feeds the DAC from them at the pace of TIM6, and the        *)
(* transfer-complete interrupt that hands the task a token through the     *)
(* one-place queue dma_working_handle.                                     *)
(*                                                                         *)
(* A `play' command creates a task; each element of Players is a task that *)
(* can run at the same time as the others, so a singleton Players is the   *)
(* user who waits for a play to end before asking for the next one.        *)
(*                                                                         *)
(* Samples stand for the DMA requests of TIM6; a half of music_buffer      *)
(* holds Block of them (BUFFER_SIZE in the code) and the file FileLen.     *)
(***************************************************************************)
EXTENDS Naturals

CONSTANTS Players,      \* tasks that may run Music_Player at the same time
          FileLen,      \* samples in the file
          Block,        \* samples in one half of music_buffer
          MaxPlays,     \* bound: play commands of one behaviour
          CardErrors    \* whether opening and reading may fail

ASSUME FileLenAssumption    == FileLen \in Nat
ASSUME BlockAssumption      == Block \in Nat \ {0}
ASSUME MaxPlaysAssumption   == MaxPlays \in Nat
ASSUME CardErrorsAssumption == CardErrors \in BOOLEAN

VARIABLES
    pc,       \* pc[t]: where task t is in Music_Player
    own,      \* own[t]: number of the play command that created t
    br,       \* br[t]: samples delivered by the last f_read of t
    dst,      \* dst[t]: the half that the f_read in progress writes
    waitq,    \* waitq[t]: the queue t blocks on in xQueueReceive
    plays,    \* number of play commands so far
    handle,   \* dma_working_handle: the play whose queue it is, 0 for NULL
    tokens,   \* tokens[q]: messages in the queue created by play q
    fpOpen,   \* the one static FIL object fp: whether f_read accepts it,
    fpPlay,   \*   the play that opened it last
    fpNext,   \*   and its read position
    flag,     \* current_dma_flag
    buf,      \* what the two halves of music_buffer hold: samples
              \*   from + 1 .. from + len of a play
    dmaOn,    \* DMA1_Stream6: enabled,
    dmaHalf,  \*   the half it reads (M0AR),
    dmaAt,    \*   samples of it already moved,
    dmaLeft,  \*   samples still to move (NDTR)
    tc,       \* its transfer-complete interrupt is pending
    clock,    \* TIM6 running and DAC DMA requests enabled
    heard     \* history: the last sample the DAC was given

taskVars == <<own, br, dst, waitq>>
fileVars == <<fpOpen, fpPlay, fpNext>>
dmaVars  == <<dmaOn, dmaHalf, dmaAt, dmaLeft>>
vars == <<pc, taskVars, plays, handle, tokens, fileVars, flag, buf, dmaVars,
          tc, clock, heard>>

PC == {"idle", "create", "open", "header", "setup", "prime", "read", "fill",
       "scale", "wait", "arm", "exit", "silence"}
Halves == 0 .. 1

\* Samples of the header f_read, which the code reads and never plays.
Header == IF FileLen < Block THEN FileLen ELSE Block

Samples == [play : 0 .. MaxPlays, from : 0 .. FileLen, len : 0 .. Block]

TypeOK ==
    /\ pc \in [Players -> PC]
    /\ own \in [Players -> 0 .. MaxPlays]
    /\ br \in [Players -> 0 .. Block]
    /\ dst \in [Players -> Halves]
    /\ waitq \in [Players -> 0 .. MaxPlays]
    /\ plays \in 0 .. MaxPlays
    /\ handle \in 0 .. MaxPlays
    /\ tokens \in [0 .. MaxPlays -> 0 .. 1]
    /\ fpOpen \in BOOLEAN
    /\ fpPlay \in 0 .. MaxPlays
    /\ fpNext \in 0 .. FileLen
    /\ flag \in Halves
    /\ buf \in [Halves -> Samples]
    /\ dmaOn \in BOOLEAN
    /\ dmaHalf \in Halves
    /\ dmaAt \in 0 .. Block
    /\ dmaLeft \in 0 .. Block
    /\ tc \in BOOLEAN
    /\ clock \in BOOLEAN
    /\ heard \in [play : 0 .. MaxPlays, pos : Nat]

Init ==
    /\ pc = [t \in Players |-> "idle"]
    /\ own = [t \in Players |-> 0]
    /\ br = [t \in Players |-> 0]
    /\ dst = [t \in Players |-> 0]
    /\ waitq = [t \in Players |-> 0]
    /\ plays = 0
    /\ handle = 0
    /\ tokens = [q \in 0 .. MaxPlays |-> 0]
    /\ fpOpen = FALSE
    /\ fpPlay = 0
    /\ fpNext = 0
    /\ flag = 0
    /\ buf = [h \in Halves |-> [play |-> 0, from |-> 0, len |-> 0]]
    /\ dmaOn = FALSE
    /\ dmaHalf = 0
    /\ dmaAt = 0
    /\ dmaLeft = 0
    /\ tc = FALSE
    /\ clock = FALSE
    /\ heard = [play |-> 0, pos |-> Header]

Goto(t, from, to) == pc[t] = from /\ pc' = [pc EXCEPT ![t] = to]

\* A send that does not wait: it fails, unnoticed, on a full queue.
LostSend(q) == UNCHANGED tokens                        \* mutant
Send(q) == tokens' = [tokens EXCEPT ![q] = 1]

-----------------------------------------------------------------------------
(* The task *)

\* prvPlayMusicCommand: xTaskCreate(Music_Player, ...).
Play(t) ==
    /\ plays < MaxPlays
    /\ Goto(t, "idle", "create")
    /\ plays' = plays + 1
    /\ own' = [own EXCEPT ![t] = plays + 1]
    /\ UNCHANGED <<br, dst, waitq, handle, tokens, fileVars, flag, buf,
                   dmaVars, tc, clock, heard>>

\* Every play makes a queue of its own; the previous one is abandoned.
CreateQueue(t) ==
    /\ Goto(t, "create", "open")
    /\ handle' = own[t]
    /\ tokens' = [tokens EXCEPT ![own[t]] = 0]
    /\ UNCHANGED <<taskVars, plays, fileVars, flag, buf, dmaVars, tc, clock,
                   heard>>

\* fatfs_mount_init, which invalidates every open file, then f_open.
OpenFile(t) ==
    /\ \/ /\ Goto(t, "open", "header")
          /\ fpOpen' = TRUE
          /\ fpPlay' = own[t]
          /\ fpNext' = 0
       \/ /\ CardErrors
          /\ Goto(t, "open", "exit")
          /\ fpOpen' = FALSE
          /\ UNCHANGED <<fpPlay, fpNext>>
    /\ UNCHANGED <<taskVars, plays, handle, tokens, flag, buf, dmaVars, tc,
                   clock, heard>>

\* The header f_read into half 0: a short file is accepted, an error is not.
ReadHeader(t) ==
    /\ \/ /\ fpOpen
          /\ Goto(t, "header", "setup")
          /\ fpNext' = Header
          /\ buf' = [buf EXCEPT ![0] =
                        [play |-> fpPlay, from |-> 0, len |-> Header]]
          /\ UNCHANGED fpOpen
       \/ /\ CardErrors \/ ~fpOpen
          /\ Goto(t, "header", "exit")
          /\ fpOpen' = FALSE
          /\ UNCHANGED <<fpNext, buf>>
    /\ UNCHANGED <<taskVars, plays, handle, tokens, fpPlay, flag, dmaVars, tc,
                   clock, heard>>

\* TIM6_Config and DAC_Start_DMA_init, which resets the DMA stream first.
Setup(t) ==
    /\ Goto(t, "setup", "prime")
    /\ dmaOn' = FALSE
    /\ dmaLeft' = 0
    /\ tc' = FALSE
    /\ clock' = TRUE
    /\ UNCHANGED <<taskVars, plays, handle, tokens, fileVars, flag, buf,
                   dmaHalf, dmaAt, heard>>

\* The token that lets the first buffer through.
Prime(t) ==
    /\ Goto(t, "prime", "read")
    /\ Send(handle)
    /\ UNCHANGED <<taskVars, plays, handle, fileVars, flag, buf, dmaVars, tc,
                   clock, heard>>

\* f_read starts: it refuses a file object that a remount has invalidated.
ReadBlock(t) ==
    /\ \/ /\ fpOpen
          /\ Goto(t, "read", "fill")
          /\ dst' = [dst EXCEPT ![t] = flag]
          /\ UNCHANGED br
       \/ /\ ~fpOpen
          /\ Goto(t, "read", "exit")
          /\ br' = [br EXCEPT ![t] = 0]
          /\ UNCHANGED dst
    /\ UNCHANGED <<own, waitq, plays, handle, tokens, fileVars, flag, buf,
                   dmaVars, tc, clock, heard>>

\* What f_read can still deliver.
Available == IF FileLen - fpNext < Block THEN FileLen - fpNext ELSE Block

\* f_read returns n samples: all it can, or fewer and the file object in error.
FillBlock(t) ==
    /\ Goto(t, "fill", "scale")
    /\ \E n \in 0 .. Available :
          /\ n = Available \/ CardErrors
          /\ br' = [br EXCEPT ![t] = n]
          /\ buf' = [buf EXCEPT ![dst[t]] =
                        [play |-> fpPlay, from |-> fpNext, len |-> n]]
          /\ fpOpen' = (fpOpen /\ n = Available)
          /\ fpNext' = fpNext + n
    /\ UNCHANGED <<own, dst, waitq, plays, handle, tokens, fpPlay, flag,
                   dmaVars, tc, clock, heard>>

\* What the loop takes for the end of the file.
ShortReadIsEnd(n) == n < Block                         \* mutant
AtEnd(n) == n = 0

\* The volume loop has run over the half; with nothing read the play is over.
ScaleBlock(t) ==
    /\ \/ AtEnd(br[t]) /\ Goto(t, "scale", "exit") /\ UNCHANGED waitq
       \/ /\ ~AtEnd(br[t])
          /\ Goto(t, "scale", "wait")
          /\ waitq' = [waitq EXCEPT ![t] = handle]
    /\ UNCHANGED <<own, br, dst, plays, handle, tokens, fileVars, flag, buf,
                   dmaVars, tc, clock, heard>>

\* xQueueReceive(dma_working_handle, &res, portMAX_DELAY).
AwaitToken(t) ==
    /\ Goto(t, "wait", "arm")
    /\ tokens[waitq[t]] = 1
    /\ tokens' = [tokens EXCEPT ![waitq[t]] = 0]
    /\ UNCHANGED <<taskVars, plays, handle, fileVars, flag, buf, dmaVars, tc,
                   clock, heard>>

\* Manual switch of the double buffer.
SameHalf(f) == f                                       \* mutant
OtherHalf(f) == 1 - f

\* DAC_Start_DMA and the switch of halves.  Disabling a stream that is still
\* enabled raises its transfer-complete flag.
StartDma(t) ==
    /\ Goto(t, "arm", "read")
    /\ tc' = (tc \/ dmaOn)
    /\ dmaOn' = TRUE
    /\ dmaHalf' = flag
    /\ dmaAt' = 0
    /\ dmaLeft' = br[t]
    /\ flag' = OtherHalf(flag)
    /\ UNCHANGED <<taskVars, plays, handle, tokens, fileVars, buf, clock,
                   heard>>

\* task_del: fatfs_Deinit ...
Unmount(t) ==
    /\ Goto(t, "exit", "silence")
    /\ fpOpen' = FALSE
    /\ UNCHANGED <<taskVars, plays, handle, tokens, fpPlay, fpNext, flag, buf,
                   dmaVars, tc, clock, heard>>

\* ... then TIM6 and the DAC requests off, and vTaskDelete(NULL).
StopClock(t) ==
    /\ Goto(t, "silence", "idle")
    /\ clock' = FALSE
    /\ UNCHANGED <<taskVars, plays, handle, tokens, fileVars, flag, buf,
                   dmaVars, tc, heard>>

-----------------------------------------------------------------------------
(* The hardware, its interrupt and the console task *)

\* TIM6 triggers the DAC, whose DMA request moves one sample.
Sample ==
    /\ dmaOn
    /\ clock
    /\ heard' = [play |-> buf[dmaHalf].play,
                 pos  |-> buf[dmaHalf].from + dmaAt + 1]
    /\ dmaAt' = dmaAt + 1
    /\ dmaLeft' = dmaLeft - 1
    /\ dmaOn' = (dmaLeft > 1)
    /\ tc' = (tc \/ dmaLeft = 1)
    /\ UNCHANGED <<pc, taskVars, plays, handle, tokens, fileVars, flag, buf,
                   dmaHalf, clock>>

\* DMA_ClearITPendingBit.
LeavePending == UNCHANGED tc                           \* mutant
ClearPending == tc' = FALSE

\* DMA1_Stream6_IRQHandler: the token goes to the queue of the latest play.
TransferComplete ==
    /\ tc
    /\ ClearPending
    /\ Send(handle)
    /\ UNCHANGED <<pc, taskVars, plays, handle, fileVars, flag, buf, dmaVars,
                   clock, heard>>

\* prvLsCommand: fatfs_ls mounts the card again, under a play in progress.
Remount ==
    /\ fpOpen
    /\ fpOpen' = FALSE
    /\ UNCHANGED <<pc, taskVars, plays, handle, tokens, fpPlay, fpNext, flag,
                   buf, dmaVars, tc, clock, heard>>

-----------------------------------------------------------------------------

\* The steps of a task after the command that created it.
Body(t) ==
    \/ CreateQueue(t) \/ OpenFile(t) \/ ReadHeader(t) \/ Setup(t) \/ Prime(t)
    \/ ReadBlock(t) \/ FillBlock(t) \/ ScaleBlock(t) \/ AwaitToken(t)
    \/ StartDma(t) \/ Unmount(t) \/ StopClock(t)

Next ==
    \/ \E t \in Players : Play(t) \/ Body(t)
    \/ Sample
    \/ TransferComplete
    \/ CardErrors /\ Remount

Spec == Init /\ [][Next]_vars

\* The scheduler runs every ready task, the timer ticks, interrupts are taken.
Fairness ==
    /\ \A t \in Players : WF_vars(Body(t))
    /\ WF_vars(Sample)
    /\ WF_vars(TransferComplete)

FairSpec == Spec /\ Fairness

-----------------------------------------------------------------------------
(* Properties *)

\* One play at a time: what the user has to respect, nothing in the code does.
SoleOwner == \E t \in Players : Players = {t}

\* The halves task t may be writing: f_read fills one, the volume loop
\* rewrites the half that current_dma_flag names.
Writing(t) ==
    CASE pc[t] = "header" -> {0}
      [] pc[t] = "fill"   -> {dst[t]}
      [] pc[t] = "scale"  -> {flag}
      [] OTHER            -> {}

\* The DMA never fetches samples from a half of music_buffer that f_read or the
\* volume loop is writing: the purpose of the double buffer and its token.
NoDataRace ==
    dmaOn /\ clock => \A t \in Players : dmaHalf \notin Writing(t)

\* The positions of a task between its first token and its last block.
Loop == {"read", "fill", "scale", "wait", "arm"}

\* There is one permit to start a transfer: a message in the queue, the
\* transfer itself, its pending interrupt or a task about to start the next
\* one.  A lost permit would block xQueueReceive for ever, a second one would
\* let the task overwrite a half that is still being played.
Permits ==
    {x \in {"queued", "transfer", "interrupt", "task"} :
        \/ x = "queued"    /\ tokens[handle] = 1
        \/ x = "transfer"  /\ dmaOn
        \/ x = "interrupt" /\ tc
        \/ x = "task"      /\ \E t \in Players : pc[t] = "arm"}
OnePermit ==
    (\E t \in Players : pc[t] \in Loop) => \E x \in Permits : Permits = {x}

\* The double buffer is safe: no race on a half, and one permit, so that none
\* is about to come.
BufferSafe == TypeOK /\ NoDataRace /\ OnePermit

\* The position a listener has reached in the latest play.
Position == IF heard.play = plays THEN heard.pos ELSE Header

\* When a play that read its file to the end silences the DAC, at most the
\* last block of it is still to be heard: the loss of the tail is bounded.
TailLossBounded ==
    [][clock /\ ~clock' /\ fpNext = FileLen => Position + Block >= FileLen]_vars

\* What is heard is the stream of PlaybackStream: in order, without gaps.
Stream == INSTANCE PlaybackStream WITH Skipped <- Header
HeardInOrder == Stream!StreamSpec

\* Every play ends: no task stays in Music_Player for ever, waiting for a
\* token that was sent to another queue or never sent.
EveryPlayEnds == \A t \in Players : pc[t] # "idle" ~> pc[t] = "idle"

=============================================================================
