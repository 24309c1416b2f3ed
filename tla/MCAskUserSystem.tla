-------------------------- MODULE MCAskUserSystem --------------------------
(***************************************************************************)
(* Constants of the TLC runs of AskUserSystem.                             *)
(***************************************************************************)
EXTENDS AskUserSystem, TLC

Buttons(S) == [ret : {"NONE"}, button : S]

(* No dialog answer in time, no session, yes once, yes session, yes for    *)
(* life.                                                                   *)
SessionOutcomes == Buttons({0, 2, 4, 5, 6})

(* No dialog answer in time, no for life, yes for life.                    *)
LifeOutcomes == Buttons({0, 3, 6})

LiveOutcomes == Buttons({0, 5})

(* Calls, processes, sessions and keys are interchangeable, and the        *)
(* specification never chooses among them.                                 *)
Symmetry ==
    Permutations(Asks) \cup Permutations(Procs)
    \cup Permutations(Sessions) \cup Permutations(Keys)

(* What the plugin returned last and the history of its decisions: no      *)
(* guard reads them, and of the properties only TypeOK: system_life tells  *)
(* states apart without them.                                              *)
WithoutHistory ==
    <<clientVars, waiting, former, m_keyUsage, m_keyValue, asking, agentVars>>
=============================================================================
