---------------------------- MODULE MCRosterSlots ----------------------------
(* Model-checking instances of RosterSlots.  Slots, commands and pids are    *)
(* only ever compared.                                                       *)
EXTENDS RosterSlots, TLC

Symmetry == Permutations(Slots) \cup Permutations(Commands) \cup Permutations(Pids)
=============================================================================
