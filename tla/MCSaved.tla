------------------------------- MODULE MCSaved -------------------------------
(* Saving for TLC, the two settings as the scenarios of one run. *)
EXTENDS Saving, TLC

ConnSymmetry == Permutations(Conns)

(* Bound: in "quiet", where everything else may happen, progress is made once. *)
SavedNext == SavingNext /\ (scenario = "quiet" => \A ch \in Chars : live'[ch] =< 1)
SavedSpec == SavingInit /\ [][SavedNext]_savingVars
=============================================================================
