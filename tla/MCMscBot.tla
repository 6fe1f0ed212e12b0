------------------------------ MODULE MCMscBot ------------------------------
(* Requests for a card of two sectors. *)
EXTENDS MscBot

Of(op, lba, n, length) == [op |-> op, lba |-> lba, n |-> n, length |-> length]

\* Whole card, its last sector, one beyond its end, none; and from the last sector
\* that has a number on to the first of the card.
Transfers == {<<0, 2>>, <<1, 1>>, <<1, 2>>, <<0, 0>>, <<Word - 1, 2>>}

MCRequests ==
    {Of(op, t[1], t[2], t[2] * BlkSize) : op \in {"read", "write"}, t \in Transfers}
    \cup {Of("info", 0, n, 2) : n \in 1 .. 3}
    \cup {Of("none", 0, 0, 0), Of("badNone", 0, 0, 0),
          Of("badIn", 0, 0, 1), Of("badOut", 0, 0, 1)}

=============================================================================
