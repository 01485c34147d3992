----------------------------- MODULE BudgetPolicy -----------------------------
(* The configuration of a deployment's budget: the policies of its operator *)
(* and the limits of the code.                                              *)
EXTENDS LedgerClock

CONSTANTS
  BudgetIds,          \* configured budget ids
  NoBudget,           \* the object has not been called successfully yet
  ReservationIds,     \* digests of Space identity and ticket id
  Contents,           \* Space, payload hash and message count
  InputSizes,         \* input bytes of a request
  Policies,           \* operator policies, records of PolicyType
  KiB,                \* 1024 in the code
  MaxReservations,    \* 1000000 in the code
  ReservationLifetime \* 60000 ms in the code

PolicyType ==
  [revision : Nat, validUntil : Nat, maxRequests : Nat \ {0}, maxBytes : Nat \ {0},
   maxReserved : Nat \ {0}, ingestBase : Nat \ {0}, ingestPerKiB : Nat \ {0},
   searchBase : Nat \ {0}, searchPerKiB : Nat \ {0}]

ASSUME NoBudgetAssumption == NoBudget \notin BudgetIds
ASSUME BudgetAssumption ==
  /\ Policies \subseteq PolicyType
  /\ InputSizes \subseteq Nat
  /\ KiB \in Nat \ {0}
  /\ MaxReservations \in Nat
  /\ ReservationLifetime \in Nat \ {0}
  /\ MonthLength \in Nat \ {0}
  /\ Deadlines \subseteq Nat
  /\ MaxClock \in Nat
================================================================================
