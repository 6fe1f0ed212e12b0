--------------------------- MODULE PlaybackStream ---------------------------
(***************************************************************************)
(* What a listener is promised by the music player: every play delivers    *)
(* the samples of the file in order, without a gap, a repetition or a      *)
(* sample of another play, starting behind the header block, and a later   *)
(* play replaces an earlier one for good.  The stream may stop anywhere:   *)
(* how much of the end is heard is a separate question (DacPlayer).        *)
(***************************************************************************)
EXTENDS Naturals

CONSTANTS FileLen,  \* number of samples in the file
          Skipped   \* samples of the file a play never delivers (its header)

VARIABLE heard      \* the last sample that reached the DAC: [play, pos]

\* The position a play starts from is that of the last skipped sample.
Silence == [play |-> 0, pos |-> Skipped]

StreamInit == heard = Silence

\* The next sample of the current play.
NextSample ==
    /\ heard.play > 0
    /\ heard.pos < FileLen
    /\ heard' = [heard EXCEPT !.pos = @ + 1]

\* The first sample of a newer play.
FirstSample ==
    /\ Skipped < FileLen
    /\ heard'.play > heard.play
    /\ heard' = [play |-> heard'.play, pos |-> Skipped + 1]

StreamNext == NextSample \/ FirstSample

StreamSpec == StreamInit /\ [][StreamNext]_heard
=============================================================================
