------------------------------ MODULE MCClock -------------------------------
(* A small instance of ClockSync: every kind of event, in orders that      *)
(* split a page, a window and a kind.                                      *)
EXTENDS ClockSync

MCScript == [a |-> {<<"FACE", "CARD", "ANON">>, <<"CARD", "DOOR", "CARD">>},
             b |-> {<<"CARD">>}]
=============================================================================
