-------------------------- MODULE MCPersonalMemory --------------------------
(* PersonalMemory with two users, one scope, two keys and two memories.    *)
EXTENDS PersonalMemory, TLC

CONSTANTS u1, u2, s1, k1, k2, q1, q2, tA, tB, sA, sB

MCUsers == {u1, u2}
MCScopes == {s1}
MCKeys == {k1, k2}
MCQueries == {q1, q2}
MCTypeOf == <<tA, tB>>
MCSessionOf == <<sA, sB>>
MCProvisioned ==
  k1 :> [kind |-> "api-key", user |-> u1, scope |-> s1, permissions |-> {"read"},
         live |-> TRUE]
  @@ k2 :> [kind |-> "pat", user |-> u2, scope |-> None,
            permissions |-> {"read", "write", "delete"}, live |-> TRUE]
Names == Permutations(MCQueries)
=============================================================================
