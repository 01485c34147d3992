-------------------------- MODULE MCDurableRecovery --------------------------
(* DurableRecovery with two objects, two runs of the operator, snapshots of *)
(* two chunks and two batches of the application.                           *)
EXTENDS DurableRecovery, TLC

CONSTANTS o1, o2, r1, r2

MCObjects == {o1, o2}
MCRuns == {r1, r2}
Names == Permutations(MCObjects) \cup Permutations(MCRuns)
==============================================================================
