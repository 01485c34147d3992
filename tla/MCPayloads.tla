------------------------------ MODULE MCPayloads ------------------------------
(* Payloads with few calls on one to three memories; a configuration chooses *)
(* which of them start in one behaviour.                                     *)
EXTENDS Payloads, TLC

CONSTANTS k0, k1, k2, k3, m0, m1, c1, c2, c3, c4, c5, c6, c7, w1

Create == [key |-> k0, action |-> "create", memories |-> {m0}, revision |-> 0]
Clash == [key |-> k1, action |-> "create", memories |-> {m1}, revision |-> 0]
Update == [key |-> k1, action |-> "update", memories |-> {m0}, revision |-> 1]
Rival == [key |-> k2, action |-> "update", memories |-> {m0}, revision |-> 1]
Delete == [key |-> k3, action |-> "delete", memories |-> {m0}, revision |-> 1]
Restore == [key |-> k1, action |-> "restore", memories |-> {m0}, revision |-> 2]
Erase == [key |-> k2, action |-> "erase", memories |-> {m0}, revision |-> 2]

Live == {Create}
OneWorker == {w1}

(* An update and its retry, a rival update that expects the same revision,  *)
(* another request under the key of the update; and a deletion, after which *)
(* a restore stages the payload again while an erasure purges it.           *)
MixedKeys == {k0, k1, k2, k3}
MixedMemories == {m0, m1}
MixedRequests == {Create, Clash, Update, Rival, Delete, Restore, Erase}
MixedCalls == {c1, c2, c3, c4, c5, c6, c7}
MixedCallOf ==
  c1 :> Update @@ c2 :> Update @@ c3 :> Rival @@ c4 :> Clash
    @@ c5 :> Delete @@ c6 :> Restore @@ c7 :> Erase
MixedStarts == {{c1, c2}, {c1, c3}, {c2, c3}, {c1, c4}, {c2, c4}, {c3, c4}, {c5, c6, c7}}
SameRequest == Permutations({c1, c2})

(* An update and an erasure by the end of the retention. *)
EndKeys == {k0, k1, k3}
OneMemory == {m0}
EndRequests == {Create, Update, Delete}
EndCalls == {c1, c2}
EndCallOf == c1 :> Update @@ c2 :> Delete
EndStarts == {EndCalls}
===============================================================================
