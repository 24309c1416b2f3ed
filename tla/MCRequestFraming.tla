-------------------------- MODULE MCRequestFraming --------------------------
(***************************************************************************)
(* Constants of the TLC run of RequestFraming.                             *)
(***************************************************************************)
EXTENDS RequestFraming

(* The empty name, names that look like a length or a separator, and one   *)
(* whose length has two digits.                                            *)
TrickyNames ==
    {<<>>, <<"1">>, <<Blank>>, <<Separator>>, <<"1", Blank>>, <<Separator, "1">>,
     <<Blank, "1", "0", Blank, "a", "a", "a", "a", "a", "a", Separator>>}
=============================================================================
