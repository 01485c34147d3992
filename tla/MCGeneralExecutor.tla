--------------------------- MODULE MCGeneralExecutor ---------------------------
(* Instances of GeneralExecutor: any few of some calls; and clears *)
(* with reconciliation passes.                                            *)
EXTENDS GeneralExecutor, TLC

CONSTANTS a1, a2, o1, o2, o3, p1, c1, c2, c3, c4, c5, r1

Ask(kind, id, actor, bytes) ==
  [kind |-> kind, id |-> id, actor |-> actor, payload |-> p1, bytes |-> bytes]

TwoCalls == {c1, c2}
ThreeCalls == {c1, c2, c3}
FiveCalls == {c1, c2, c3, c4, c5}
OnePass == {r1}

(* An ingest and its retry, a clear and its retry, and the search of another *)
(* actor that competes with the ingest for one request of budget.            *)
MixedCallOf ==
  c1 :> Ask("memory_ingest", o1, a1, 1) @@ c2 :> Ask("memory_ingest", o1, a1, 1)
    @@ c3 :> Ask("memory_search", o2, a2, 1)
    @@ c4 :> Ask("memory_clear_space", o3, a1, 0) @@ c5 :> Ask("memory_clear_space", o3, a1, 0)

(* One ingest and one clear. *)
IngestClearCallOf ==
  c1 :> Ask("memory_ingest", o1, a1, 1) @@ c2 :> Ask("memory_clear_space", o3, a1, 0)

(* One ingest and two clears, and so two generations to delete. *)
ClearsCallOf ==
  c1 :> Ask("memory_ingest", o1, a1, 1)
    @@ c2 :> Ask("memory_clear_space", o2, a1, 0) @@ c3 :> Ask("memory_clear_space", o3, a1, 0)

(* A call and its retry are the same request. *)
Retries == Permutations({c1, c2}) \cup Permutations({c4, c5})

OneUntil == a1 :> 3
TwoUntil == a1 :> 3 @@ a2 :> 1

AllFaults == FaultKinds
ClientFaults == {"abort", "revoke"}

MCPolicy ==
  [revision |-> 1, validUntil |-> 4, maxRequests |-> 1, maxBytes |-> 4, maxReserved |-> 4,
   ingestBase |-> 1, ingestPerKiB |-> 1, searchBase |-> 1, searchPerKiB |-> 1]
==============================================================================
