------------------------------- MODULE MCLedgers -------------------------------
(* What limits the use of the service: the ledger of a Space and the budget  *)
(* of a deployment, each under whatever its callers bring (reused ids,       *)
(* changed payloads, another identity, an authority about to expire, limits  *)
(* reached in a few steps, two months and two policies), and the paid plan   *)
(* of a pool.  They share nothing but the clock (GeneralExecutor composes    *)
(* the ledgers), so a behaviour is of one of them.                           *)
EXTENDS GeneralLedger, BudgetLedger, BillingTerms, BillingPromise, TLC

VARIABLES
  pool, requests, session, events, lock, caller, drain, faults,
  subject  \* what this behaviour is of

CONSTANTS a1, a2, i1, i2, p1, o1, o2, o3, c1, c2, c3, k1, k2, d1

MCActors == {a1, a2}
MCIdentities == {i1, i2}
MCPayloads == {p1}
MCOperationIds == {o1, o2, o3}
MCDeadlines == {1, 3}
MCPageSizes == {1, 2}

(* The budget reads nothing into its ids either: the same values do. *)
MCBudgetIds == MCIdentities
MCContents == MCPayloads
MCReservationIds == MCOperationIds
MCInputSizes == {0, 3}

(* The second policy is the tighter one. *)
MCPolicies ==
  {[revision |-> 1, validUntil |-> 3, maxRequests |-> 2, maxBytes |-> 5, maxReserved |-> 6,
    ingestBase |-> 1, ingestPerKiB |-> 1, searchBase |-> 2, searchPerKiB |-> 1],
   [revision |-> 2, validUntil |-> 4, maxRequests |-> 3, maxBytes |-> 4, maxReserved |-> 5,
    ingestBase |-> 1, ingestPerKiB |-> 2, searchBase |-> 1, searchPerKiB |-> 1]}

MCSymmetry ==
  Permutations(MCActors) \cup Permutations(MCIdentities) \cup Permutations(MCOperationIds)

(* A checkout, its retry and one under another key meet each other; or two   *)
(* checkouts meet the drain, which MCScheduleEnds shows in two runs.         *)
MCCallers == {c1, c2, c3}
MCKey == c1 :> k1 @@ c2 :> k1 @@ c3 :> k2
MCDrains == {d1}
MCStarts ==
  {[callers |-> MCCallers, drains |-> {}, paid |-> None, faults |-> 0],
   [callers |-> {c1, c3}, drains |-> MCDrains, paid |-> None, faults |-> 0]}

Plan == INSTANCE Billing

planVars == <<pool, requests, session, sub, events, lock, caller, drain, applied, faults>>
everything == <<vars, budgetVars, planVars, subject>>

LedgersInit ==
  /\ Init /\ BudgetInit /\ Plan!Init
  /\ \/ subject \in {"space", "budget"} /\ drain[d1].at = "off" \* one start is enough
     \/ subject = "plan"

LedgersNext ==
  /\ UNCHANGED subject
  /\ \/ subject = "space" /\ Next /\ UNCHANGED <<budgetVars, planVars>>
     \/ subject = "budget" /\ BudgetNext /\ UNCHANGED <<ledgerVars, planVars>>
     \/ subject = "plan" /\ Plan!Next /\ UNCHANGED <<vars, budgetVars>>
     \/ subject = "plan" /\ UNCHANGED <<vars, budgetVars, planVars>> \* it may rest

LedgersSpec == LedgersInit /\ [][LedgersNext]_everything
===============================================================================
