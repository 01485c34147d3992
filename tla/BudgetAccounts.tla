----------------------------- MODULE BudgetAccounts -----------------------------
(* The tables of a deployment's budget, and what its accounts say of its     *)
(* reservations.                                                             *)
EXTENDS BudgetPolicy, Functions

VARIABLES
  months,        \* budget_months, by month
  reservations,  \* budget_reservations, by reservation id
  total          \* budget_capacity.total_reservations, kept by a trigger

ReservationStates == Terminal \cup {"admitted"}

Account == [policy : Policies, requests : Nat, bytes : Nat, reserved : Nat,
            outcomes : [Terminal -> Nat]]
Reservation == [content : Contents, kind : Kinds, bytes : Nat, month : Nat,
                policy : Policies, reserved : Nat, expires : Nat,
                state : ReservationStates]

------------------------------------------------------------------------------
InMonth(m) == {r \in DOMAIN reservations : reservations[r].month = m}
InState(m, s) == {r \in InMonth(m) : reservations[r].state = s}

(* The counters of a month are the reservations it holds and the outcomes *)
(* journaled for them, also when an outcome arrives in a later month, and *)
(* the outcomes never outnumber the requests (the CHECK of the table).    *)
CountersMatch ==
  /\ total = Cardinality(DOMAIN reservations)
  /\ \A r \in DOMAIN reservations : reservations[r].month \in DOMAIN months
  /\ \A m \in DOMAIN months :
       /\ months[m].requests = Cardinality(InMonth(m))
       /\ \A s \in Terminal : months[m].outcomes[s] = Cardinality(InState(m, s))

(* The bytes and the money of a month are those of the reservations it holds. *)
Bytes == [r \in DOMAIN reservations |-> reservations[r].bytes]
Price == [r \in DOMAIN reservations |-> reservations[r].reserved]

SumsMatch ==
  \A m \in DOMAIN months :
    /\ months[m].bytes = SumFunctionOnSet(Bytes, InMonth(m))
    /\ months[m].reserved = SumFunctionOnSet(Price, InMonth(m))

(* Whatever the order of reservations, a month stays inside the policy it *)
(* started with, and the lifetime of the object inside its capacity.      *)
WithinPolicy ==
  /\ total <= MaxReservations
  /\ \A m \in DOMAIN months :
       /\ months[m].requests <= months[m].policy.maxRequests
       /\ months[m].bytes <= months[m].policy.maxBytes
       /\ months[m].reserved <= months[m].policy.maxReserved

(* The counters of a month are its reservations and the outcomes journaled  *)
(* for them, and its bytes and money the sums over them: whatever is late,  *)
(* retried or in another month, nothing is charged twice, at another price  *)
(* or counted in the month its outcome arrives in (budget-ledger.ts:163),   *)
(* and a month stays inside the policy it started with (169).               *)
BudgetSound == CountersMatch /\ SumsMatch /\ WithinPolicy
================================================================================
