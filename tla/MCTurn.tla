-------------------------------- MODULE MCTurn --------------------------------
EXTENDS Turn, TLC

\* A message that mentions nobody, or two agents of which one may be offline.
MCMentions == {<<>>} \cup {m \in Agents \X Agents : m[1] # m[2]}

Symmetry == Permutations(Calls) \cup Permutations(Agents)

=============================================================================
