------------------------------ MODULE MCParser ------------------------------
(* Small instances of Parser: names of one letter, an array of five words. *)
EXTENDS Grammar, TLC

\* d: test_speed_down, p: set_param, c: continue, m: modify, e: stop
TableDef ==
    (<<"d">> :> 0) @@ (<<"p">> :> 0) @@ (<<"c">> :> 1) @@ (<<"m">> :> 2) @@ (<<"e">> :> 0)
TestDownDef == <<"d">>
SetParamDef == <<"p">>
ContinueDef == <<"c">>
ModifyDef == <<"m">>

\* Any characters, with and without the frame.
Characters == {" ", "-", "d", "c", "e", "s"}
Short == UNION {[1 .. n -> Characters] : n \in 0 .. 4}
Interiors == UNION {[1 .. n -> Characters] : n \in 0 .. 5}
Framing == {<<"s">> \o t \o <<"e">> : t \in Interiors}

\* Sequences of up to seven words, two more than the array holds, and with one
\* separator or two at the end.
Vocabulary == {<<"-", "c">>, <<"-", "m">>, <<"-", "e">>, <<"d">>, <<"-">>, <<"x", "-">>}
Lists == UNION {[1 .. n -> Vocabulary] : n \in 0 .. 3}
         \cup UNION {[1 .. n -> Vocabulary \ {<<"-">>, <<"-", "e">>}] : n \in 4 .. 5}
         \cup [1 .. 6 -> {<<"d">>, <<"-", "c">>}]

Joined(l) ==
    LET at[n \in 0 .. Len(l)] ==
            IF n = 0 THEN <<>> ELSE at[n - 1] \o <<" ">> \o l[n]
    IN at[Len(l)]

Commands(sep) ==
    {<<"s", " ">> \o c \o Joined(l) \o sep \o <<" ", "e">> :
        c \in {<<"d">>, <<"p">>}, l \in Lists}

\* Stretches of separators about as long as the byte of skip_separator can
\* count, and twice as long.
Spaces(n) == [p \in 1 .. n |-> " "]
Wide ==
    {<<"s", " ", "d">> \o Spaces(m) \o <<"-", "c">> \o Spaces(n) \o a \o Spaces(1) \o <<"e">> :
        m \in 1 .. 7, n \in 1 .. 7, a \in {<<>>, <<"x">>}}

MessagesDef ==
    Short \cup Framing \cup Commands(<<>>) \cup Commands(<<" ">>) \cup Wide
=============================================================================
