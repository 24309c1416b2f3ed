------------------------------- MODULE MCAgent -------------------------------
(***************************************************************************)
(* Constants of the TLC runs of Agent.                                     *)
(***************************************************************************)
EXTENDS Agent, TLC

(* A button, no button in time, a button beyond the table, and a failed    *)
(* dialog: no two of them may be mixed up.                                 *)
EdgeOutcomes == [ret : {"NONE"}, button : {0, 4, 7}] \cup {[ret |-> "FAILED", button |-> 3]}

OneButton == {[ret |-> "NONE", button |-> 4]}

(* Checks and ids are interchangeable, and the specification never chooses *)
(* among them.                                                             *)
Symmetry == Permutations(Asks) \cup Permutations(Ids)
=============================================================================
