------------------------------ MODULE MCShells ------------------------------
(* Instances of Shells for TLC. *)
EXTENDS Shells

Foreground(cmds) == [cmds |-> cmds, bg |-> FALSE]
Background(cmds) == [cmds |-> cmds, bg |-> TRUE]

(* Each of these is one line, and each pair a background line and another   *)
(* that runs at the same time.                                              *)
MCSessions ==
    {<<Foreground(c)>> : c \in {
        <<"source", "filter", "filter">>, <<"source", "quit", "filter">>,
        <<"missing", "filter", "filter">>, <<"source", "filter", "tofile">>,
        <<"source", "fromfile", "filter">>, <<"tofile", "filter", "nofile">>,
        <<"source", "filter", "filter", "filter">>}}
    \cup
    {<<Background(c), Foreground(d)>> :
        c \in {<<"source", "filter">>, <<"missing">>, <<"nofile", "filter">>},
        d \in {<<"source", "filter">>, <<"source">>, <<"echo", "filter">>, <<"exit">>, <<>>}}
=============================================================================
