----------------------------- MODULE MCStepTrace -----------------------------
(* Model-checking instances of StepTrace.  Keys and personas are only ever   *)
(* compared, so their permutations are symmetries of the safety runs.        *)
EXTENDS StepTrace, TLC

TwoThenOne == <<2, 1>>

OneEach == <<1, 1>>

Symmetry == Permutations(Personas) \cup Permutations(Keys)
=============================================================================
