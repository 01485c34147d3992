---------------------------- MODULE GeneralLedger ----------------------------
(***************************************************************************)
(* The ledger of one Space (saas/src/routing/general-ledger.ts): a Durable *)
(* Object that admits provider requests, journals their outcomes and       *)
(* retires the Space's provider profile by moving to the next generation.  *)
(*                                                                         *)
(* Every method is one synchronous SQLite transaction, so it is one action *)
(* here.  A rejected call rolls its transaction back and changes nothing;  *)
(* an operator XxxRejected says when that is, for the callers in           *)
(* GeneralExecutor.  A request is a record                                 *)
(*   [identity, actor, id, payload, until]                                 *)
(* with "kind" for an admission; "until" is authorityExpiresAtMs.  The     *)
(* random row id is identified with the operation id: both are unique.     *)
(* Operators named ...Mutant are wrong on purpose: each stands for a       *)
(* plausible slip in the definition that follows it.                       *)
(***************************************************************************)
EXTENDS LedgerClock

CONSTANTS
  OperationIds,       \* client-chosen (clear, ingest) or random (search) operation ids
  Actors,             \* account and credential of a caller
  Payloads,           \* payload hash and usage of a request
  Identities,         \* Space, owner and provider namespace
  NoIdentity,         \* the object has not been called successfully yet
  MaxOperations,      \* 100000 in the code
  MonthlyOperations,  \* 10000 in the code
  MaxRetirements,     \* 1000 in the code
  TicketLifetime,     \* 60000 ms in the code
  PageSizes           \* bound: the limits pending() is called with, 1..100 in the code

ASSUME NoIdentityAssumption == NoIdentity \notin Identities
ASSUME LimitsAssumption ==
  /\ MaxOperations \in Nat
  /\ MonthlyOperations \in Nat
  /\ MaxRetirements \in Nat
  /\ TicketLifetime \in Nat \ {0}
  /\ MonthLength \in Nat \ {0}
  /\ Deadlines \subseteq Nat
  /\ PageSizes \subseteq 1 .. 100
  /\ MaxClock \in Nat

VARIABLES
  identity,     \* general_identity: pinned by the first successful call
  generation,   \* general_generation: the current provider profile
  operations,   \* general_operations, by operation id
  retirements,  \* general_retirements, by operation id
  cursor        \* general_reconciliation.cursor_generation

ledgerVars == <<identity, generation, operations, retirements, cursor>>
vars == <<identity, generation, operations, retirements, cursor, clock>>

OperationStates == Terminal \cup {"admitted"}
RetirementStates == {"pending", "unknown", "acknowledged"}

Ticket == [actor : Actors, kind : Kinds, payload : Payloads, generation : Nat,
           state : OperationStates, expires : Nat, period : Nat]
Retirement == [actor : Actors, payload : Payloads, generation : Nat, state : RetirementStates]

------------------------------------------------------------------------------
(* bind: every method checks the pinned identity and pins the first one. *)
Bound(id) == identity \in {NoIdentity, id}
Bind(id) == identity' = id

(* Authority is rechecked against the clock of the transaction. *)
AuthorityExpired(until) == until <= clock

SameRequest(row, request) ==
  /\ row.actor = request.actor
  /\ row.kind = request.kind
  /\ row.payload = request.payload

InPeriod(month) == {o \in DOMAIN operations : operations[o].period = month}

(* New work is refused at a limit, and ingest also when no retirement could *)
(* be recorded for the data it would create.                                *)
OverCapacity(kind) ==
  \/ Cardinality(DOMAIN operations) >= MaxOperations
  \/ Cardinality(InPeriod(Month(clock))) >= MonthlyOperations
  \/ kind = "memory_ingest" /\ Cardinality(DOMAIN retirements) >= MaxRetirements

AdmitRejected(request) ==
  \/ AuthorityExpired(request.until)
  \/ ~ Bound(request.identity)
  \/ request.id \in DOMAIN retirements
  \/ /\ request.id \in DOMAIN operations
     /\ ~ SameRequest(operations[request.id], request)
  \/ request.id \notin DOMAIN operations /\ OverCapacity(request.kind)

(* admit of an id never seen: the one ticket that carries dispatch = true. *)
AdmitNew(request) ==
  /\ request.id \notin DOMAIN operations
  /\ ~ AdmitRejected(request)
  /\ Bind(request.identity)
  /\ operations' = WithRow(operations, request.id,
       [actor |-> request.actor, kind |-> request.kind, payload |-> request.payload,
        generation |-> generation, state |-> "admitted",
        expires |-> Earliest(clock + TicketLifetime, request.until), period |-> Month(clock)])
  /\ UNCHANGED <<generation, retirements, cursor, clock>>

(* admit of a known id: the stored ticket, dispatch = false. *)
AdmitReplay(request) ==
  /\ request.id \in DOMAIN operations
  /\ ~ AdmitRejected(request)
  /\ Bind(request.identity)
  /\ UNCHANGED <<generation, operations, retirements, cursor, clock>>

(* check(phase): a ticket is usable in its own generation, before it *)
(* expires, and in the state the phase asks for.                     *)
PhaseState(phase) == IF phase = "dispatch" THEN "admitted" ELSE "accepted"

CheckRejected(request, phase) ==
  \/ AuthorityExpired(request.until)
  \/ ~ Bound(request.identity)
  \/ request.id \notin DOMAIN operations
  \/ LET row == operations[request.id] IN
       \/ row.actor # request.actor
       \/ row.generation # generation
       \/ row.expires <= clock
       \/ row.state # PhaseState(phase)

Check(request, phase) ==
  /\ ~ CheckRejected(request, phase)
  /\ Bind(request.identity)
  /\ UNCHANGED <<generation, operations, retirements, cursor, clock>>

(* finalize: a terminal state is written once and can be repeated.  It *)
(* needs no live authority: an outcome is recorded whenever it arrives. *)
FinalizeRejected(request, state) ==
  \/ ~ Bound(request.identity)
  \/ request.id \notin DOMAIN operations
  \/ LET row == operations[request.id] IN
       \/ row.actor # request.actor
       \/ state = "read_failed" /\ row.kind # "memory_search"
       \/ row.state \notin {state, "admitted"}

Finalize(request, state) ==
  /\ ~ FinalizeRejected(request, state)
  /\ Bind(request.identity)
  /\ operations' = [operations EXCEPT ![request.id].state = state]
  /\ UNCHANGED <<generation, retirements, cursor, clock>>

(* retire: the generation moves on, whatever is still in flight in it. *)
RetireRejected(request) ==
  \/ AuthorityExpired(request.until)
  \/ ~ Bound(request.identity)
  \/ request.id \in DOMAIN operations
  \/ /\ request.id \in DOMAIN retirements
     /\ LET row == retirements[request.id] IN
          row.actor # request.actor \/ row.payload # request.payload
  \/ /\ request.id \notin DOMAIN retirements
     /\ Cardinality(DOMAIN retirements) >= MaxRetirements

(* Mutant: the retirement is recorded and the generation stays. *)
RetireNewMutant(request) ==
  /\ request.id \notin DOMAIN retirements
  /\ ~ RetireRejected(request)
  /\ Bind(request.identity)
  /\ retirements' = WithRow(retirements, request.id,
       [actor |-> request.actor, payload |-> request.payload,
        generation |-> generation, state |-> "pending"])
  /\ UNCHANGED <<generation, operations, cursor, clock>>

RetireNew(request) ==
  /\ request.id \notin DOMAIN retirements
  /\ ~ RetireRejected(request)
  /\ Bind(request.identity)
  /\ retirements' = WithRow(retirements, request.id,
       [actor |-> request.actor, payload |-> request.payload,
        generation |-> generation, state |-> "pending"])
  /\ generation' = generation + 1
  /\ UNCHANGED <<operations, cursor, clock>>

RetireReplay(request) ==
  /\ request.id \in DOMAIN retirements
  /\ ~ RetireRejected(request)
  /\ Bind(request.identity)
  /\ UNCHANGED <<generation, operations, retirements, cursor, clock>>

------------------------------------------------------------------------------
(* pending(limit): the next open retirements after the cursor, wrapping *)
(* once around to the ones at or before it.                             *)
Open == {r \in DOMAIN retirements : retirements[r].state \in {"pending", "unknown"}}

(* Mutant: every page starts at the oldest open retirement. *)
WrapRankMutant(r) == retirements[r].generation

WrapRank(r) ==
  IF retirements[r].generation > cursor
    THEN retirements[r].generation
    ELSE retirements[r].generation + generation

Ahead(r) == {q \in Open : WrapRank(q) < WrapRank(r)}

Selected(limit) == {r \in Open : Cardinality(Ahead(r)) < limit}

(* The rows in the order of the query. *)
PendingRows(limit) ==
  [i \in 1 .. Cardinality(Selected(limit)) |->
     CHOOSE r \in Selected(limit) : Cardinality(Ahead(r)) = i - 1]

Pending(id, limit) ==
  /\ Bound(id)
  /\ Bind(id)
  /\ \/ Open = {} /\ cursor' = cursor
     \/ \E r \in Selected(limit) :
          /\ \A q \in Selected(limit) : WrapRank(q) <= WrapRank(r)
          /\ cursor' = retirements[r].generation
  /\ UNCHANGED <<generation, operations, retirements, clock>>

(* finishRetirement: acknowledgement is final and waits for every ingest *)
(* of the retired generation to have a journaled outcome.                *)
Inflight(g) == {o \in DOMAIN operations : /\ operations[o].generation = g
                                          /\ operations[o].kind = "memory_ingest"
                                          /\ operations[o].state = "admitted"}

(* Mutant: an open ingest does not hold the acknowledgement back. *)
FinishOverInflightMutant(id, r, state) ==
  \/ ~ Bound(id)
  \/ r \notin DOMAIN retirements
  \/ retirements[r].state = "acknowledged" /\ state # "acknowledged"

FinishRejected(id, r, state) ==
  \/ ~ Bound(id)
  \/ r \notin DOMAIN retirements
  \/ /\ retirements[r].state # state
     /\ \/ retirements[r].state = "acknowledged"
        \/ state = "acknowledged" /\ Inflight(retirements[r].generation) # {}

FinishRetirement(id, r, state) ==
  /\ ~ FinishRejected(id, r, state)
  /\ Bind(id)
  /\ retirements' = [retirements EXCEPT ![r].state = state]
  /\ UNCHANGED <<generation, operations, cursor, clock>>

(* usage: only reads, but binds like every other method. *)
Usage(id) ==
  /\ Bound(id)
  /\ Bind(id)
  /\ UNCHANGED <<generation, operations, retirements, cursor, clock>>

Tick ==
  /\ clock < MaxClock
  /\ clock' = clock + 1
  /\ UNCHANGED ledgerVars

------------------------------------------------------------------------------
Requests == [identity : Identities, actor : Actors, id : OperationIds,
             payload : Payloads, kind : Kinds, until : Deadlines]
RetireRequests == [identity : Identities, actor : Actors, id : OperationIds,
                   payload : Payloads, until : Deadlines]

Init ==
  /\ identity = NoIdentity
  /\ generation = 1
  /\ operations = [o \in {} |-> {}]
  /\ retirements = [r \in {} |-> {}]
  /\ cursor = 0
  /\ clock = 0

Call(request) ==
  \/ AdmitNew(request)
  \/ AdmitReplay(request)
  \/ \E phase \in {"dispatch", "disclose"} : Check(request, phase)
  \/ \E state \in Terminal : Finalize(request, state)

Retire(request) == RetireNew(request) \/ RetireReplay(request)

Maintain(id) ==
  \/ \E limit \in PageSizes : Pending(id, limit)
  \/ \E r \in OperationIds, state \in {"acknowledged", "unknown"} : FinishRetirement(id, r, state)
  \/ Usage(id)

Next ==
  \/ \E request \in Requests : Call(request)
  \/ \E request \in RetireRequests : Retire(request)
  \/ \E id \in Identities : Maintain(id)
  \/ Tick

Spec == Init /\ [][Next]_vars

------------------------------------------------------------------------------
TypeOK ==
  /\ identity \in Identities \cup {NoIdentity}
  /\ generation \in Nat \ {0}
  /\ DOMAIN operations \subseteq OperationIds
  /\ operations \in [DOMAIN operations -> Ticket]
  /\ DOMAIN retirements \subseteq OperationIds
  /\ retirements \in [DOMAIN retirements -> Retirement]
  /\ cursor \in Nat
  /\ clock \in Nat

(* Exactly the generations before the current one are retired, each by one *)
(* clear request: no profile is abandoned without a deletion record and    *)
(* none has two (UNIQUE and CHECK of general_retirements).                 *)
GenerationsAccounted ==
  /\ {retirements[r].generation : r \in DOMAIN retirements} = 1 .. (generation - 1)
  /\ \A r, q \in DOMAIN retirements :
       retirements[r].generation = retirements[q].generation => r = q

(* An acknowledged retirement never again has an ingest whose outcome is *)
(* open: admissions cannot reach a generation that has been retired.     *)
AcknowledgedQuiescent ==
  \A r \in DOMAIN retirements :
    retirements[r].state = "acknowledged" => Inflight(retirements[r].generation) = {}

(* The reconciliation cursor is zero or the generation of a retirement, and *)
(* never passes the 1000 its CHECK allows: pending() never aborts.          *)
CursorValid ==
  /\ cursor = 0 \/ \E r \in DOMAIN retirements : retirements[r].generation = cursor
  /\ cursor <= MaxRetirements

(* An operation id names a request or a retirement, never both, so a clear *)
(* cannot be answered from an ingest of the same id or the reverse.        *)
OneUsePerId == DOMAIN operations \cap DOMAIN retirements = {}

(* Neither the lifetime limit nor the limit of any month is ever exceeded, *)
(* and the retirement reserve holds one row per retired generation.        *)
CapacityHeld ==
  /\ Cardinality(DOMAIN operations) <= MaxOperations
  /\ \A o \in DOMAIN operations :
       Cardinality(InPeriod(operations[o].period)) <= MonthlyOperations
  /\ generation - 1 <= MaxRetirements

(* A ticket that lost its generation or its time never passes a check *)
(* again, and a terminal outcome is never rewritten by a late one.    *)
Lapsed(o) == operations[o].generation # generation \/ operations[o].expires <= clock

LapsedForGood ==
  [][\A o \in DOMAIN operations :
       /\ o \in DOMAIN operations'
       /\ Lapsed(o) => Lapsed(o)'
       /\ operations[o].state \in Terminal => operations'[o] = operations[o]]_vars
==============================================================================
