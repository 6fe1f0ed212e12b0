-------------------------------- MODULE SdInit --------------------------------
(***************************************************************************)
(* SD_Init (src/board_dev/stm324xg_eval_sdio_sd.c): the dialogue that      *)
(* finds the card, asks it until it is powered up, reads its registers,    *)
(* selects it and switches both sides to four data lines.  main calls it   *)
(* once, before the scheduler, and does not look at its result.            *)
(*                                                                         *)
(* A command is sent, executed by the card if it is legal for it, and      *)
(* answered; the driver waits for an answer flag of the SDIO and goes on   *)
(* or returns.  Commands and answers may be lost or damaged.  External:    *)
(* the card, with the state machine of the SD specification as far as the  *)
(* driver relies on it, and the flags and the FIFO of the SDIO.            *)
(***************************************************************************)
EXTENDS Naturals, FiniteSets

CONSTANTS Trials,     \* SD_MAX_VOLT_TRIAL
          MaxFaults,  \* a bound: commands that are disturbed
          Csds        \* the CSD registers of the cards: size, mul and len

ASSUME TrialsAssumption == Trials \in Nat \ {0} /\ MaxFaults \in Nat
ASSUME CsdsAssumption == Csds \subseteq [size : Nat, mul : 0 .. 7, len : 9 .. 11]

\* The cards a slot may hold: versions 1 and 2 of standard capacity, high
\* capacity, a MultiMediaCard, or none.
Cards == {"v1", "v2", "hc", "mmc", "none"}
SdCards == {"v1", "v2", "hc"}

\* The commands in the order of the driver; CMD55 announces an application
\* command, from four places.
Steps == {"cmd0", "cmd8", "first55", "second55", "loop55", "acmd41", "cmd2",
          "cmd3", "cmd9", "cmd7", "cmd16", "scr55", "acmd51", "wide55", "acmd6"}
App == {"first55", "second55", "loop55", "scr55", "wide55"}

VARIABLES
    at,        \* the command the driver is at,
    phase,     \* and whether it sends it, waits for the answer, reads the
               \*   SCR, or has returned
    result,    \* what SD_Init returns
    CardType,
    hcs,       \* SDType: the argument of ACMD41 says SD_HIGH_CAPACITY
    count,     \* trials so far
    rca,       \* whether the driver knows the card's address
    blocks,    \* what usbd_msc_get_cap reports: CardCapacity / 512
    hostWide,  \* the SDIO uses four lines
    words,     \* words of the SCR the driver has read
    flags,     \* answer flags of the SDIO
    dpath,     \* its data path is armed
    dataFlag,  \* its data flags: DBCKEND or an error
    fifo,      \* words in its FIFO
    line,      \* the command on the command line, answered or not yet
    kind, csd, locked, wideCard,   \* the card: what it is,
    card,      \*   the state it is in,
    app,       \*   whether the next command is an application command,
    illegal,   \*   ILLEGAL_COMMAND, reported with the next answer,
    cardWide,  \*   the width of its data lines,
    toSend,    \*   words of the SCR it has still to send
    faults     \* history: what was disturbed

driverVars == <<at, phase, result, CardType, hcs, count, rca, blocks, hostWide, words>>
sdioVars   == <<flags, dpath, dataFlag, fifo, line>>
theCard    == <<kind, csd, locked, wideCard>>
cardVars   == <<card, app, illegal, cardWide, toSend>>
vars == <<driverVars, sdioVars, theCard, cardVars, faults>>

TypeOK ==
    /\ at \in Steps /\ phase \in {"send", "wait", "scr", "end"}
    /\ result \in {"none", "ok", "error"}
    /\ CardType \in {"V1_1", "V2_0", "HIGH_CAPACITY"}
    /\ hcs \in BOOLEAN /\ count \in 0 .. Trials /\ rca \in BOOLEAN
    /\ blocks \in Nat /\ hostWide \in BOOLEAN /\ words \in 0 .. 2
    /\ flags \subseteq {"end", "endIllegal", "crc", "timeout", "busy", "ccs"}
    /\ dpath \in BOOLEAN
    /\ dataFlag \in {"none", "end", "error"} /\ fifo \in 0 .. 2
    /\ line \in Steps \cup {"free"}
    /\ kind \in Cards /\ csd \in Csds /\ locked \in BOOLEAN /\ wideCard \in BOOLEAN
    /\ card \in {"idle", "ready", "ident", "stby", "tran", "sending"}
    /\ app \in BOOLEAN /\ illegal \in BOOLEAN /\ cardWide \in BOOLEAN
    /\ toSend \in 0 .. 2
    /\ faults \subseteq (Steps \X {"command", "answer", "damaged", "data", "late"})

\* After power-on the card is idle.  After a reset of the processor alone it is
\* as the last run left it.
Init ==
    /\ at = "cmd0" /\ phase = "send" /\ result = "none"
    /\ CardType = "V1_1" /\ hcs = FALSE /\ count = 0
    /\ rca = FALSE /\ blocks = 0 /\ hostWide = FALSE /\ words = 0
    /\ flags = {} /\ dpath = FALSE /\ dataFlag = "none" /\ fifo = 0 /\ line = "free"
    /\ kind \in Cards /\ csd \in Csds /\ locked \in BOOLEAN /\ wideCard \in BOOLEAN
    /\ \/ card = "idle" /\ cardWide = FALSE
       \/ card = "tran" /\ kind \in SdCards /\ cardWide \in BOOLEAN
    /\ app = FALSE /\ illegal = FALSE /\ toSend = 0
    /\ faults = {}

-----------------------------------------------------------------------------
(* The driver *)

\* SDIO_SendCommand.  ACMD51 has its data path armed first.
Send ==
    /\ phase = "send"
    /\ phase' = "wait"
    /\ line' = at
    /\ dpath' = (dpath \/ at = "acmd51")
    /\ UNCHANGED <<at, result, CardType, hcs, count, rca, blocks, hostWide, words,
                   flags, dataFlag, fifo, theCard, cardVars, faults>>

Goto(step) == at' = step /\ phase' = "send" /\ UNCHANGED result
Return(what) == phase' = "end" /\ result' = what /\ UNCHANGED at

\* Every static flag is cleared by an accepted answer, DBCKEND among them; the
\* flag of an error alone by the other returns.
KeepFlags == flags                                     \* mutant
ClearStatic == {}
Accepted == flags' = ClearStatic /\ dataFlag' = "none"
Rejected(flag) == flags' = flags \ {flag} /\ UNCHANGED dataFlag

\* CmdResp1Error, CmdResp2Error and CmdResp6Error.
Answer1 == phase = "wait" /\ flags # {}
Fine1 ==
    /\ Answer1 /\ flags \cap {"crc", "timeout", "endIllegal"} = {}
    /\ Accepted
Bad1 ==
    /\ Answer1
    /\ \/ "timeout" \in flags /\ Rejected("timeout")
       \/ "timeout" \notin flags /\ "crc" \in flags /\ Rejected("crc")
       \/ /\ flags \cap {"crc", "timeout"} = {} /\ "endIllegal" \in flags
          /\ Accepted

\* CMD0 has no answer, only CMDSENT.
GoIdle ==
    /\ at = "cmd0" /\ Fine1
    /\ Goto("cmd8")
    /\ UNCHANGED <<CardType, hcs, count, rca, blocks, hostWide, words>>

\* CMD8: SD_OK unless it timed out.  After a CRC error no flag is cleared.
SkipFirst == "second55"                                \* mutant
AfterNoAnswer == "first55"

IfCond ==
    /\ at = "cmd8" /\ phase = "wait" /\ flags # {}
    /\ \/ /\ "timeout" \in flags /\ Rejected("timeout")
          /\ Goto(AfterNoAnswer)
          /\ UNCHANGED <<CardType, hcs>>
       \/ /\ "timeout" \notin flags /\ Rejected("end")
          /\ Goto("second55")
          /\ CardType' = "V2_0" /\ hcs' = TRUE
    /\ UNCHANGED <<count, rca, blocks, hostWide, words>>

\* The first CMD55 after a CMD8 that failed takes the blame for it; its error is
\* overwritten.
First55 ==
    /\ at = "first55"
    /\ Fine1 \/ Bad1
    /\ Goto("second55")
    /\ UNCHANGED <<CardType, hcs, count, rca, blocks, hostWide, words>>

\* The commands whose success leads to the next one and whose failure ends.
Following ==
    [second55 |-> "loop55", loop55 |-> "acmd41", cmd2 |-> "cmd3", cmd3 |-> "cmd9",
     cmd16 |-> "scr55", scr55 |-> "acmd51", wide55 |-> "acmd6"]

Fail ==
    /\ at \notin {"cmd0", "cmd8", "first55", "acmd41"}
    /\ Bad1
    /\ Return("error")
    /\ UNCHANGED <<CardType, hcs, count, rca, blocks, hostWide, words>>

Proceed ==
    /\ at \in DOMAIN Following
    /\ Fine1
    /\ Goto(Following[at])
    /\ rca' = (rca \/ at = "cmd3")
    /\ UNCHANGED <<CardType, hcs, count, blocks, hostWide, words>>

\* ACMD41, with CmdResp3Error: its answer has no CRC, so a CRC error is no error.
\* The count is compared after the loop, also when the last trial succeeded.
Forget(n) == n                                         \* mutant
OneMore(n) == n + 1

TrialsUsed(n) == n >= Trials

AlwaysV2 == "V2_0"                                     \* mutant
TypeByCcs == IF "ccs" \in flags THEN "HIGH_CAPACITY" ELSE CardType

OpCond ==
    /\ at = "acmd41" /\ phase = "wait"
    /\ flags \cap {"crc", "timeout", "end"} # {}
    /\ \/ /\ "timeout" \in flags /\ Rejected("timeout")
          /\ Return("error")
          /\ UNCHANGED <<CardType, count>>
       \/ /\ "timeout" \notin flags /\ Accepted
          /\ count' = OneMore(count)
          /\ \/ /\ TrialsUsed(count')
                /\ Return("error")
                /\ UNCHANGED CardType
             \/ /\ ~TrialsUsed(count') /\ "busy" \in flags
                /\ Goto("loop55")
                /\ UNCHANGED CardType
             \/ /\ ~TrialsUsed(count') /\ "busy" \notin flags
                /\ Goto("cmd2")
                /\ CardType' = TypeByCcs
    /\ UNCHANGED <<hcs, rca, blocks, hostWide, words>>

\* CMD9 brings the CSD; the SDIO is set to one line and full speed, and
\* SD_GetCardInfo computes the capacity by the type of the card.
Capacity(c) ==
    IF CardType = "HIGH_CAPACITY" THEN (c.size + 1) * 512 * 1024
    ELSE (c.size + 1) * 2 ^ (c.mul + 2) * 2 ^ c.len

CardInfo ==
    /\ at = "cmd9" /\ Fine1
    /\ Goto("cmd7")
    /\ hostWide' = FALSE
    /\ blocks' = Capacity(csd) \div 512
    /\ UNCHANGED <<CardType, hcs, count, rca, words>>

\* The answer to CMD7 says whether the card is locked.
Select ==
    /\ at = "cmd7" /\ Fine1
    /\ IF locked THEN Return("error") ELSE Goto("cmd16")
    /\ UNCHANGED <<CardType, hcs, count, rca, blocks, hostWide, words>>

\* FindSCR: two words are read from the FIFO until a data flag is up.
ScrStart ==
    /\ at = "acmd51" /\ Fine1
    /\ phase' = "scr"
    /\ UNCHANGED <<at, result, CardType, hcs, count, rca, blocks, hostWide, words>>

ScrWord ==
    /\ phase = "scr" /\ dataFlag = "none" /\ fifo > 0
    /\ words' = words + 1
    /\ fifo' = fifo - 1
    /\ UNCHANGED <<at, phase, result, CardType, hcs, count, rca, blocks, hostWide,
                   flags, dpath, dataFlag, line, theCard, cardVars, faults>>

\* The first word says whether the card has four lines; without it the driver
\* finds that it has not.
ScrEnd ==
    /\ phase = "scr" /\ dataFlag # "none"
    /\ dataFlag' = "none"
    /\ \/ /\ dataFlag = "end" /\ words > 0 /\ wideCard
          /\ Goto("wide55")
       \/ /\ dataFlag = "error" \/ words = 0 \/ ~wideCard
          /\ Return("error")
    /\ UNCHANGED <<CardType, hcs, count, rca, blocks, hostWide, words, flags, dpath,
                   fifo, line, theCard, cardVars, faults>>

\* ACMD6 is answered: the SDIO follows.
FourLines == TRUE

WideBus ==
    /\ at = "acmd6" /\ Fine1
    /\ hostWide' = FourLines
    /\ Return("ok")
    /\ UNCHANGED <<CardType, hcs, count, rca, blocks, words>>

Answered ==
    /\ \/ GoIdle \/ IfCond \/ First55 \/ Fail \/ Proceed \/ OpCond \/ CardInfo
       \/ Select \/ ScrStart \/ WideBus
    /\ UNCHANGED <<dpath, fifo, line, theCard, cardVars, faults>>

-----------------------------------------------------------------------------
(* The card (external) *)

\* Whether the card executes command m in its state.
Executes(m) ==
    /\ kind # "none"
    /\ CASE m = "cmd0"  -> TRUE
         [] m = "cmd8"  -> card = "idle" /\ kind \in {"v2", "hc"}
         [] m \in {"first55", "second55", "loop55"} -> card = "idle" /\ kind \in SdCards
         [] m = "acmd41" -> card = "idle" /\ app
         [] m = "cmd2"  -> card = "ready"
         [] m = "cmd3"  -> card = "ident"
         [] m \in {"cmd9", "cmd7"} -> card = "stby"
         [] m \in {"cmd16", "scr55", "wide55"} -> card = "tran"
         [] m = "acmd51" -> card = "tran" /\ app /\ ~locked
         [] m = "acmd6"  -> card = "tran" /\ app /\ ~locked /\ wideCard

\* A high-capacity card is ready only for a driver that knows such cards.
MayBeReady == kind = "hc" => hcs

\* Executing m, where up says whether the card is powered up by now.
Moves(m, up) ==
    /\ card' = CASE m = "cmd0" -> "idle"
                 [] m = "acmd41" /\ up -> "ready"
                 [] m = "cmd2"  -> "ident"
                 [] m = "cmd3"  -> "stby"
                 [] m = "cmd7"  -> "tran"
                 [] m = "acmd51" -> "sending"
                 [] OTHER -> card
    /\ app' = (m \in App)
    /\ illegal' = FALSE
    /\ cardWide' = (m = "acmd6" \/ (m # "cmd0" /\ cardWide))
    /\ toSend' = IF m = "acmd51" THEN 2 ELSE 0

\* The flags of the answer: R3, the one to ACMD41, has no CRC.
AnswerFlags(m, up) ==
    CASE m = "acmd41" -> {"crc"} \cup (IF up THEN {} ELSE {"busy"})
                         \cup (IF kind = "hc" /\ up THEN {"ccs"} ELSE {})
      [] m # "acmd41" /\ illegal /\ m \notin {"cmd0", "cmd2", "cmd9"} -> {"endIllegal"}
      [] OTHER -> {"end"}

MayFail(what) == Cardinality(faults) < MaxFaults /\ faults' = faults \cup {<<line, what>>}

\* Executed and answered, or the answer is lost or damaged.  CMDSENT comes
\* whether a card is there or not.
Respond(up) ==
    /\ line # "free" /\ Executes(line)
    /\ up => MayBeReady
    /\ Moves(line, up)
    /\ \/ flags' = flags \cup AnswerFlags(line, up) /\ UNCHANGED faults
       \/ line # "cmd0" /\ MayFail("answer") /\ flags' = flags \cup {"timeout"}
       \/ line \notin {"cmd0", "acmd41"} /\ MayFail("damaged") /\ flags' = flags \cup {"crc"}
    /\ line' = "free"
    /\ UNCHANGED <<driverVars, dpath, dataFlag, fifo, theCard>>

\* A card that does not know the command, or not in its state, says nothing and
\* reports that with its next answer.
Ignore ==
    /\ line # "free" /\ ~Executes(line)
    /\ illegal' = (kind # "none")
    /\ app' = FALSE
    /\ flags' = flags \cup {IF line = "cmd0" THEN "end" ELSE "timeout"}
    /\ line' = "free"
    /\ UNCHANGED <<driverVars, dpath, dataFlag, fifo, theCard, card, cardWide, toSend,
                   faults>>

\* The card has not heard the command.
Lose ==
    /\ line # "free" /\ Executes(line)
    /\ MayFail("command")
    /\ flags' = flags \cup {IF line = "cmd0" THEN "end" ELSE "timeout"}
    /\ line' = "free"
    /\ UNCHANGED <<driverVars, dpath, dataFlag, fifo, theCard, cardVars>>

\* The words of the SCR.
SendWord ==
    /\ card = "sending" /\ toSend > 0
    /\ toSend' = toSend - 1
    /\ fifo' = fifo + 1
    /\ UNCHANGED <<driverVars, flags, dpath, dataFlag, line, theCard, card, app,
                   illegal, cardWide, faults>>

\* The end of the block, intact or not.  The driver has read a word by then,
\* unless an interrupt has kept it away.
EndData ==
    /\ card = "sending" /\ toSend = 0
    /\ card' = "tran" /\ dpath' = FALSE
    /\ dataFlag' \in {"end", "error"}
    /\ dataFlag' = "error" => Cardinality(faults) < MaxFaults
    /\ faults' = faults
          \cup (IF dataFlag' = "error" THEN {<<"acmd51", "data">>} ELSE {})
          \cup (IF words = 0 THEN {<<"acmd51", "late">>} ELSE {})
    /\ UNCHANGED <<driverVars, flags, fifo, line, theCard, app, illegal, cardWide,
                   toSend>>

\* A data path armed for a block that does not come times out.
DataTimeout ==
    /\ dpath /\ card # "sending" /\ line = "free"
    /\ dpath' = FALSE
    /\ dataFlag' = "error"
    /\ UNCHANGED <<driverVars, flags, fifo, line, theCard, cardVars, faults>>

CardStep ==
    \/ \E up \in BOOLEAN : Respond(up)
    \/ Ignore \/ Lose \/ SendWord \/ EndData \/ DataTimeout

-----------------------------------------------------------------------------

Driver == Send \/ Answered \/ ScrWord \/ ScrEnd

\* SD_Init has returned, or the loop of FindSCR turns and finds nothing.
Idle ==
    /\ phase = "end" \/ (phase = "scr" /\ dataFlag = "none" /\ fifo = 0)
    /\ UNCHANGED vars

Next == Driver \/ CardStep \/ Idle

Spec == Init /\ [][Next]_vars

\* The driver runs, and so do the card and the timers of the SDIO.
FairSpec == Spec /\ WF_vars(Driver) /\ WF_vars(CardStep)

-----------------------------------------------------------------------------
(* Properties *)

\* The size of the card by its own register (external: the SD specification).
CardBlocks == IF kind = "hc" THEN (csd.size + 1) * 1024
              ELSE (csd.size + 1) * 2 ^ (csd.mul + 2 + csd.len - 9)

\* When SD_Init returns SD_OK all that the driver and the USB disk go by later is
\* so: the card is selected, both sides use four lines, sectors are addressed the
\* way this card counts them, the size reported is its size, and no flag, data or
\* command is left over.  No loss on the way leads to a half-true success.
SuccessIsTrue ==
    result = "ok" =>
        /\ card = "tran" /\ rca /\ cardWide /\ hostWide
        /\ CardType = "HIGH_CAPACITY" <=> kind = "hc"
        /\ blocks = CardBlocks
        /\ flags = {} /\ dataFlag = "none" /\ ~dpath /\ line = "free"

\* An SD card that is unlocked, has four lines and is powered up before the last
\* trial is initialised when nothing is disturbed, whatever its version and
\* whatever the last run left it in.
HealthyCardWorks ==
    result = "error" /\ faults = {} /\ kind \in SdCards /\ ~locked /\ wideCard
        => count = Trials

\* An error too leaves both sides with the same number of lines, so that a
\* selected card can be used: unless CMD0 was lost after a restart, or the
\* answer to ACMD6.
WidthsAgree ==
    phase = "end" /\ card = "tran" =>
        \/ hostWide = cardWide
        \/ <<"cmd0", "command">> \in faults
        \/ <<"acmd6", "answer">> \in faults \/ <<"acmd6", "damaged">> \in faults

\* What the driver takes for the answer to a command is not the flag of an
\* earlier one: when it sends, none is up and none can still come.  Only a
\* damaged answer to CMD8, which CmdResp7Error takes for a good one, stays.
AnswersAreOwn ==
    phase = "send" =>
        \/ flags = {} /\ line = "free"
        \/ <<"cmd8", "damaged">> \in faults

\* SD_Init returns, with or without a card, whatever is lost: the loops on the
\* flags have no bound, the one over the trials has.  (When the SCR comes while
\* the driver is kept away, its flag is cleared unseen.)
InitEnds == <>(phase = "end" \/ <<"acmd51", "late">> \in faults)

\* Driver and card stay in step: the driver sends when nothing of the command
\* before can reach it, and goes by the lines the card uses.
DialogueInStep == TypeOK /\ AnswersAreOwn /\ WidthsAgree

=============================================================================
