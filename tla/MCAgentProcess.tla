---------------------------- MODULE MCAgentProcess ----------------------------
(* Two versions that serve, one that is no catalog: enough for an etag to be   *)
(* old, current and current again.                                           *)
EXTENDS AgentProcess, TLC

CONSTANTS v1, v2, empty, junk

AllVersions == {v1, v2, empty, junk}
ValidVersions == {v1, v2, empty}
UsableVersions == {v1, v2}
SelectsVersions == {v1}

Symmetry == Permutations(Processes)
===============================================================================
