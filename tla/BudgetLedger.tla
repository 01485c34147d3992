----------------------------- MODULE BudgetLedger -----------------------------
(***************************************************************************)
(* The budget of one deployment (saas/src/routing/budget-ledger.ts): a     *)
(* Durable Object that reserves money for provider work of every Space     *)
(* before the work is dispatched.  A reservation is charged to the month   *)
(* it was made in, under the policy that month started with, and is never  *)
(* refunded.  Every method is one synchronous SQLite transaction: one      *)
(* action here; a rejected call changes nothing.                           *)
(*                                                                         *)
(* A request is a record [budget, id, content, kind, bytes, policy, until] *)
(* where content stands for Space id, payload hash and message count, and  *)
(* until for authorityExpiresAtMs.                                         *)
(***************************************************************************)
EXTENDS BudgetAccounts

VARIABLE budget  \* budget_identity

budgetVars == <<budget, months, reservations, total>>
budgetState == <<budget, months, reservations, total, clock>>

------------------------------------------------------------------------------
BoundTo(id) == budget \in {NoBudget, id}
BindBudget(id) == budget' = id

(* Whole KiB are charged: the last one started counts in full. *)
KiBs(bytes) == (bytes + KiB - 1) \div KiB

Cost(policy, kind, bytes) ==
  IF kind = "memory_ingest"
    THEN policy.ingestBase + KiBs(bytes) * policy.ingestPerKiB
    ELSE policy.searchBase + KiBs(bytes) * policy.searchPerKiB

Charge(request) == Cost(request.policy, request.kind, request.bytes)

(* The account of a month not seen yet is empty and takes the policy of *)
(* its first reservation.                                               *)
AccountOf(month, policy) ==
  IF month \in DOMAIN months
    THEN months[month]
    ELSE [policy |-> policy, requests |-> 0, bytes |-> 0, reserved |-> 0,
          outcomes |-> [s \in Terminal |-> 0]]

Exhausted(account, request) ==
  \/ account.requests + 1 > request.policy.maxRequests
  \/ account.bytes + request.bytes > request.policy.maxBytes
  \/ account.reserved + Charge(request) > request.policy.maxReserved

SameReservation(row, request) ==
  /\ row.content = request.content
  /\ row.kind = request.kind
  /\ row.bytes = request.bytes

(* reserve: authority and policy must be live; a known id must repeat the *)
(* same work under the same policy; a new one must fit the month.         *)
ReserveRejected(request) ==
  \/ ~ BoundTo(request.budget)
  \/ request.until <= clock
  \/ request.policy.validUntil <= clock
  \/ /\ request.id \in DOMAIN reservations
     /\ LET row == reservations[request.id] IN
          \/ row.policy # request.policy
          \/ months[row.month].policy # request.policy
          \/ ~ SameReservation(row, request)
  \/ /\ request.id \notin DOMAIN reservations
     /\ LET account == AccountOf(Month(clock), request.policy) IN
          \/ total >= MaxReservations
          \/ account.policy # request.policy
          \/ Exhausted(account, request)

Expiry(request) ==
  Earliest(clock + ReservationLifetime, Earliest(request.until, request.policy.validUntil))

ReserveNew(request) ==
  /\ request.id \notin DOMAIN reservations
  /\ ~ ReserveRejected(request)
  /\ BindBudget(request.budget)
  /\ LET account == AccountOf(Month(clock), request.policy) IN
       months' = WithRow(months, Month(clock),
         [account EXCEPT !.requests = @ + 1, !.bytes = @ + request.bytes,
                         !.reserved = @ + Charge(request)])
  /\ reservations' = WithRow(reservations, request.id,
       [content |-> request.content, kind |-> request.kind, bytes |-> request.bytes,
        month |-> Month(clock), policy |-> request.policy, reserved |-> Charge(request),
        expires |-> Expiry(request), state |-> "admitted"])
  /\ total' = total + 1
  /\ UNCHANGED clock

(* A repeated reserve returns the stored row, marked as replayed. *)
ReserveReplay(request) ==
  /\ request.id \in DOMAIN reservations
  /\ ~ ReserveRejected(request)
  /\ BindBudget(request.budget)
  /\ UNCHANGED <<months, reservations, total, clock>>

(* finalize: the outcome is counted in the month of the reservation, *)
(* which may be over, and only once.                                 *)
OutcomeRejected(id, r, state) ==
  \/ ~ BoundTo(id)
  \/ r \notin DOMAIN reservations
  \/ state = "read_failed" /\ reservations[r].kind # "memory_search"
  \/ reservations[r].state \notin {state, "admitted"}

(* Mutant: the outcome is counted in the month it arrives in. *)
FinalizeInCurrentMonthMutant(id, r, state) ==
  /\ ~ OutcomeRejected(id, r, state)
  /\ reservations[r].state = "admitted"
  /\ BindBudget(id)
  /\ reservations' = [reservations EXCEPT ![r].state = state]
  /\ Month(clock) \in DOMAIN months
  /\ months' = [months EXCEPT ![Month(clock)].outcomes[state] = @ + 1]
  /\ UNCHANGED <<total, clock>>

FinalizeNew(id, r, state) ==
  /\ ~ OutcomeRejected(id, r, state)
  /\ reservations[r].state = "admitted"
  /\ BindBudget(id)
  /\ reservations' = [reservations EXCEPT ![r].state = state]
  /\ months' = [months EXCEPT ![reservations[r].month].outcomes[state] = @ + 1]
  /\ UNCHANGED <<total, clock>>

FinalizeReplay(id, r, state) ==
  /\ ~ OutcomeRejected(id, r, state)
  /\ reservations[r].state = state
  /\ BindBudget(id)
  /\ UNCHANGED <<months, reservations, total, clock>>

BudgetUsage(id) ==
  /\ BoundTo(id)
  /\ BindBudget(id)
  /\ UNCHANGED <<months, reservations, total, clock>>

BudgetTick ==
  /\ clock < MaxClock
  /\ clock' = clock + 1
  /\ UNCHANGED budgetVars

------------------------------------------------------------------------------
(* A search has a query; an ingest may have messages without any byte. *)
ReserveRequests ==
  {request \in [budget : BudgetIds, id : ReservationIds, content : Contents, kind : Kinds,
                bytes : InputSizes, policy : Policies, until : Deadlines] :
     request.kind = "memory_search" => request.bytes > 0}

BudgetInit ==
  /\ budget = NoBudget
  /\ months = [m \in {} |-> {}]
  /\ reservations = [r \in {} |-> {}]
  /\ total = 0
  /\ clock = 0

BudgetNext ==
  \/ \E request \in ReserveRequests : ReserveNew(request) \/ ReserveReplay(request)
  \/ \E id \in BudgetIds :
       \/ \E r \in ReservationIds, state \in Terminal :
            FinalizeNew(id, r, state) \/ FinalizeReplay(id, r, state)
       \/ BudgetUsage(id)
  \/ BudgetTick

BudgetSpec == BudgetInit /\ [][BudgetNext]_budgetState

------------------------------------------------------------------------------
BudgetTypeOK ==
  /\ budget \in BudgetIds \cup {NoBudget}
  /\ DOMAIN months \subseteq Nat
  /\ months \in [DOMAIN months -> Account]
  /\ DOMAIN reservations \subseteq ReservationIds
  /\ reservations \in [DOMAIN reservations -> Reservation]
  /\ total \in Nat
  /\ clock \in Nat

(* A changed policy takes effect with a new month only: every reservation *)
(* of a month was priced under the policy of that month, and positively.  *)
PricedByMonth ==
  \A r \in DOMAIN reservations :
    LET row == reservations[r] IN
      /\ row.policy = months[row.month].policy
      /\ row.reserved = Cost(row.policy, row.kind, row.bytes)
      /\ row.reserved > 0

(* Nothing is refunded: a reservation keeps its price and a final outcome, *)
(* and no counter of any month ever decreases.                             *)
NeverRefunded ==
  [][/\ \A r \in DOMAIN reservations :
          /\ r \in DOMAIN reservations'
          /\ [reservations'[r] EXCEPT !.state = reservations[r].state] = reservations[r]
          /\ reservations[r].state \in Terminal => reservations'[r].state = reservations[r].state
     /\ \A m \in DOMAIN months :
          /\ m \in DOMAIN months'
          /\ months'[m].policy = months[m].policy
          /\ months'[m].requests >= months[m].requests
          /\ months'[m].reserved >= months[m].reserved
          /\ \A s \in Terminal : months'[m].outcomes[s] >= months[m].outcomes[s]]_budgetState
==============================================================================
