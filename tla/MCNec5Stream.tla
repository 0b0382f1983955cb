---------------------------- MODULE MCNec5Stream ----------------------------
(* Instances of Nec5Stream for TLC. *)
EXTENDS Nec5Stream, SequencesExt

Breaks == {<<"CR">>, <<"LF">>, <<"CR", "LF">>}
Says == {<<>>, <<"card">>, <<"NX">>, <<"EN">>}

\* Two lines, blank lines included, with every break, and the start of a third.
ShortTexts ==
    {a \o x \o b \o y \o c : a \in Says, b \in Says, c \in Says,
        x \in Breaks, y \in Breaks}

\* Two structures whose decks may be refused or raise, and cards after them.
Decks == {<<s>> : s \in {"card", "bad", "boom"}}
LongTexts ==
    {a \o <<"LF", "NX">> \o x \o b \o x \o m \o x \o c : a \in Decks, b \in Decks,
        m \in {<<"NX">>, <<"EN">>}, x \in {<<"CR">>, <<"CR", "LF">>},
        c \in {<<>>, <<"card">>}}

Texts == {<<>>} \cup ShortTexts \cup LongTexts
=============================================================================
