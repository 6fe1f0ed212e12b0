------------------------------ MODULE FifoQueue ------------------------------
(***************************************************************************)
(* What a FreeRTOS queue promises its users: a bounded buffer whose items  *)
(* leave in the order they came, each once.  Items are numbered by their   *)
(* sends, modulo Numbers.                                                  *)
(***************************************************************************)
EXTENDS Naturals, Sequences

CONSTANTS Length,   \* items the queue holds
          Numbers   \* items are told apart modulo this number

VARIABLES buffer,   \* the items in the queue, the oldest first
          sent,     \* number of the last item sent
          got       \* number of the last item received

FifoInit == buffer = <<>> /\ sent = 0 /\ got = 0

Put ==
    /\ Len(buffer) < Length
    /\ sent' = (sent + 1) % Numbers
    /\ buffer' = Append(buffer, sent')
    /\ UNCHANGED got

Take ==
    /\ buffer # <<>>
    /\ got' = (got + 1) % Numbers
    /\ buffer = <<got'>> \o buffer'
    /\ UNCHANGED sent

FifoNext == Put \/ Take

FifoSpec == FifoInit /\ [][FifoNext]_<<buffer, sent, got>>
=============================================================================
