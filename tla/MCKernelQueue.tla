--------------------------- MODULE MCKernelQueue ---------------------------
(***************************************************************************)
(* KernelQueue for TLC.  For safety: a sender that waits for good or not   *)
(* at all, a receiver that waits for good (as the players and the console  *)
(* do) and one that gives a time-out or does not wait.  For liveness all   *)
(* wait, on a queue of one and a tick count that overflows every third     *)
(* tick, so that every time-out can cross the overflow.                    *)
(***************************************************************************)
EXTENDS KernelQueue, TLC

CONSTANTS s1, r1, r2

MCWaits == (s1 :> {0, MaxDelay}) @@ (r1 :> {MaxDelay}) @@ (r2 :> {0, 2})
LiveWaits == (s1 :> {MaxDelay}) @@ (r1 :> {MaxDelay}) @@ (r2 :> {1})
=============================================================================
