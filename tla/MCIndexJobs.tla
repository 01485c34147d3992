----------------------------- MODULE MCIndexJobs -----------------------------
(* IndexJobs with one or two workers and three approvals of two selections. *)
EXTENDS IndexJobs, TLC

CONSTANTS w1, w2, c1, c2, c3, k1, k2, s1, s2

OneWorker == {w1}
TwoWorkers == {w1, w2}
MCApprovers == {c1, c2, c3}
MCKey == c1 :> k1 @@ c2 :> k1 @@ c3 :> k2
MCSelection == c1 :> s1 @@ c2 :> s2 @@ c3 :> s1
NoApprovers == {}
NoKey == <<>>
==============================================================================
