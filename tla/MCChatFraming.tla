---------------------------- MODULE MCChatFraming ----------------------------
(***************************************************************************)
(* ChatFraming on every input that mixes headers atoi reads in different   *)
(* ways, and on longer ones of two kinds of byte, in which a second message*)
(* follows a longer or a shorter one in the same data_.                    *)
(***************************************************************************)
EXTENDS ChatFraming

MCBytes == {" ", "-", "1", "2", "x"}

MCInputs == [1..7 -> {" ", "-", "1", "x"}] \cup [1..10 -> {"1", "x"}] \cup [1..12 -> {"2", "x"}]
=============================================================================
