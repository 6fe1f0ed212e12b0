----------------------------- MODULE MCCliConsole -----------------------------
(* CliConsole with words enough for every command and lines that are wrong. *)
EXTENDS CliConsole

MCWords == {"help", "top", "randint", "play", "ls", "a"}

\* Single keys, pastes short enough to be taken for typing, and one that is not.
MCBursts ==
    {<<k>> : k \in {"help", "randint", "a", "enter", "back", "other"}}
        \cup {<<"ls", "enter">>, <<"top", "enter">>, <<"play", "a", "enter">>,
              <<"randint", "a", "a">>, <<"a", "a", "a", "a">>}

=============================================================================
