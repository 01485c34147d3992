----------------------------- MODULE BillingTerms -----------------------------
(* The parameters of Billing: who calls, what runs and how a behaviour starts. *)
EXTENDS Naturals, FiniteSets

CONSTANTS
  Callers,     \* calls of checkout
  Key,         \* the operation key of each
  Drains,      \* runs of the schedule that may overlap
  None,
  Limit,       \* events of one drain (3)
  MaxAttempts, \* failures of an event until it is dead (10)
  MaxVersion,  \* bound: states of a subscription
  Starts       \* bounds, one start a behaviour: the calls and drains that run, the
               \* request paid before or None, failed reads and lost drains or leases

CheckoutRequests == {Key[c] : c \in Callers}

ASSUME NoneAssumption == None \notin CheckoutRequests /\ None \notin Drains
ASSUME TermsAssumption == Limit \in Nat /\ MaxAttempts \in Nat \ {0} /\ MaxVersion \in Nat \ {0}
ASSUME StartAssumption ==
  \A start \in Starts : start.paid \in CheckoutRequests \cup {None} /\ start.faults \in Nat
===============================================================================
