--------------------------- MODULE DurableObjectProofs ---------------------------
(* Proofs about the service's Durable Objects.  GeneralLedger, for every set  *)
(* of ids, actors and identities and every value of the limits: type          *)
(* correctness, then one inductive invariant from which the invariants of the *)
(* runs follow.  BudgetLedger, for every set of policies, sizes and limits:   *)
(* the counters of every month agree with its reservations, no policy is      *)
(* exceeded and nothing is refunded.  DurableRecovery, for any objects, runs, *)
(* number of chunks and batches: what is frozen stays as it is, what is       *)
(* released is closed, and what is activated is one cut of its source.        *)
EXTENDS GeneralLedger, BudgetLedger, DurableRecovery, FiniteSetTheorems, TLAPS

(* The facts the invariants rest on and no caller sees: operations belong to *)
(* generations already reached, and both tables are finite.                  *)
OperationsReached == \A o \in DOMAIN operations : operations[o].generation <= generation

TablesFinite ==
  /\ IsFiniteSet(DOMAIN operations)
  /\ IsFiniteSet(DOMAIN retirements)
  /\ Cardinality(DOMAIN retirements) = generation - 1
  /\ generation - 1 <= MaxRetirements

LedgerInv ==
  /\ TypeOK
  /\ OperationsReached
  /\ TablesFinite
  /\ GenerationsAccounted
  /\ AcknowledgedQuiescent
  /\ CursorValid
  /\ OneUsePerId

------------------------------------------------------------------------------
(* A table that gains or replaces a row: its domain and its rows. *)
LEMMA WithRowShape ==
  ASSUME NEW table, NEW key, NEW row
  PROVE  /\ DOMAIN WithRow(table, key, row) = DOMAIN table \cup {key}
         /\ WithRow(table, key, row)[key] = row
         /\ \A k \in DOMAIN table : k # key => WithRow(table, key, row)[k] = table[k]
  BY DEF WithRow

LEMMA WithRowType ==
  ASSUME NEW Row, NEW table, table \in [DOMAIN table -> Row], NEW key, NEW row \in Row
  PROVE  WithRow(table, key, row) \in [DOMAIN WithRow(table, key, row) -> Row]
  BY DEF WithRow

(* The whole ledger stays well typed. *)
THEOREM LedgerTypeCorrect == Spec => []TypeOK
  <1>1. Init => TypeOK
    BY DEF Init, TypeOK
  <1>2. TypeOK /\ [Next]_vars => TypeOK'
    <2> SUFFICES ASSUME TypeOK, [Next]_vars PROVE TypeOK'
      OBVIOUS
    <2> USE LimitsAssumption
    <2>1. ASSUME NEW request \in Requests, AdmitNew(request) PROVE TypeOK'
      <3> DEFINE row == [actor |-> request.actor, kind |-> request.kind,
                         payload |-> request.payload, generation |-> generation,
                         state |-> "admitted",
                         expires |-> Earliest(clock + TicketLifetime, request.until),
                         period |-> Month(clock)]
      <3>1. Month(clock) \in Nat
        BY DEF Month, TypeOK
      <3>2. row \in Ticket
        BY <3>1 DEF Ticket, Requests, TypeOK, OperationStates, Earliest
      <3>3. operations' = WithRow(operations, request.id, row)
        BY <2>1 DEF AdmitNew
      <3> HIDE DEF row
      <3>4. operations' \in [DOMAIN operations' -> Ticket]
        BY <3>2, <3>3, WithRowType DEF TypeOK
      <3>5. DOMAIN operations' \subseteq OperationIds
        BY <3>3 DEF WithRow, TypeOK, Requests
      <3>6. QED
        BY <2>1, <3>4, <3>5 DEF AdmitNew, Bind, TypeOK, Requests
    <2>2. ASSUME NEW request \in Requests, AdmitReplay(request) PROVE TypeOK'
      BY <2>2 DEF AdmitReplay, Bind, TypeOK, Requests
    <2>3. ASSUME NEW request \in Requests, NEW phase, Check(request, phase) PROVE TypeOK'
      BY <2>3 DEF Check, Bind, TypeOK, Requests
    <2>4. ASSUME NEW request \in Requests, NEW state \in Terminal, Finalize(request, state)
          PROVE TypeOK'
      <3>1. /\ DOMAIN operations' = DOMAIN operations
            /\ operations' \in [DOMAIN operations -> Ticket]
        BY ZenonT(60), <2>4 DEF Finalize, TypeOK, Ticket, OperationStates
      <3>2. QED
        BY <2>4, <3>1 DEF Finalize, Bind, TypeOK, Requests
    <2>5. ASSUME NEW request \in RetireRequests, RetireNew(request) PROVE TypeOK'
      <3> DEFINE row == [actor |-> request.actor, payload |-> request.payload,
                         generation |-> generation, state |-> "pending"]
      <3>1. row \in Retirement
        BY DEF Retirement, RetirementStates, RetireRequests, TypeOK
      <3>2. retirements' = WithRow(retirements, request.id, row)
        BY <2>5 DEF RetireNew
      <3> HIDE DEF row
      <3>3. retirements' \in [DOMAIN retirements' -> Retirement]
        BY <3>1, <3>2, WithRowType DEF TypeOK
      <3>4. DOMAIN retirements' \subseteq OperationIds
        BY <3>2 DEF WithRow, TypeOK, RetireRequests
      <3>5. QED
        BY <2>5, <3>3, <3>4 DEF RetireNew, Bind, TypeOK, RetireRequests
    <2>6. ASSUME NEW request \in RetireRequests, RetireReplay(request) PROVE TypeOK'
      BY <2>6 DEF RetireReplay, Bind, TypeOK, RetireRequests
    <2>7. ASSUME NEW id \in Identities, NEW limit \in PageSizes, Pending(id, limit) PROVE TypeOK'
      <3>1. \A r \in Open : retirements[r].generation \in Nat
        BY DEF Open, TypeOK, Retirement
      <3>2. cursor' \in Nat
        BY <2>7, <3>1 DEF Pending, Selected, TypeOK
      <3>3. QED
        BY <2>7, <3>2 DEF Pending, Bind, TypeOK
    <2>8. ASSUME NEW id \in Identities, NEW r \in OperationIds,
                 NEW state \in {"acknowledged", "unknown"}, FinishRetirement(id, r, state)
          PROVE TypeOK'
      <3>1. /\ DOMAIN retirements' = DOMAIN retirements
            /\ retirements' \in [DOMAIN retirements -> Retirement]
        BY ZenonT(60), <2>8 DEF FinishRetirement, TypeOK, Retirement, RetirementStates
      <3>2. QED
        BY <2>8, <3>1 DEF FinishRetirement, Bind, TypeOK
    <2>9. ASSUME NEW id \in Identities, Usage(id) PROVE TypeOK'
      BY <2>9 DEF Usage, Bind, TypeOK
    <2>10. CASE Tick
      BY <2>10 DEF Tick, ledgerVars, TypeOK
    <2>11. CASE UNCHANGED vars
      BY <2>11 DEF vars, TypeOK
    <2>12. QED
      BY <2>1, <2>2, <2>3, <2>4, <2>5, <2>6, <2>7, <2>8, <2>9, <2>10, <2>11
         DEF Next, Call, Retire, Maintain
  <1>3. QED
    BY <1>1, <1>2, PTL DEF Spec

------------------------------------------------------------------------------
(* Retired generations lie strictly before the current one. *)
LEMMA RetiredBefore ==
  ASSUME TypeOK, GenerationsAccounted, NEW r \in DOMAIN retirements
  PROVE  retirements[r].generation \in 1 .. (generation - 1)
  BY DEF GenerationsAccounted

(* The conjuncts of the invariant that mention only the retirements survive *)
(* a step that leaves retirements, generation and cursor alone.             *)
LEMMA RetirementsUntouched ==
  ASSUME LedgerInv, UNCHANGED <<generation, retirements, cursor>>
  PROVE  /\ GenerationsAccounted'
         /\ CursorValid'
         /\ IsFiniteSet(DOMAIN retirements')
         /\ Cardinality(DOMAIN retirements') = generation' - 1
         /\ generation' - 1 <= MaxRetirements
  BY DEF LedgerInv, GenerationsAccounted, CursorValid, TablesFinite

(* A step that changes none of the tables, the generation and the cursor. *)
LEMMA TablesUntouched ==
  ASSUME LedgerInv, UNCHANGED <<generation, operations, retirements, cursor>>
  PROVE  /\ OperationsReached'
         /\ TablesFinite'
         /\ GenerationsAccounted'
         /\ AcknowledgedQuiescent'
         /\ CursorValid'
         /\ OneUsePerId'
  BY DEF LedgerInv, OperationsReached, TablesFinite, GenerationsAccounted,
         AcknowledgedQuiescent, Inflight, CursorValid, OneUsePerId

LEMMA LedgerInitHolds == Init => LedgerInv
  <1> SUFFICES ASSUME Init PROVE LedgerInv
    OBVIOUS
  <1>1. TypeOK
    BY DEF Init, TypeOK
  <1>2. DOMAIN operations = {} /\ DOMAIN retirements = {}
    BY DEF Init
  <1>3. TablesFinite
    BY <1>2, FS_EmptySet, LimitsAssumption DEF Init, TablesFinite
  <1>4. GenerationsAccounted
    BY <1>2 DEF Init, GenerationsAccounted
  <1>5. QED
    BY <1>1, <1>2, <1>3, <1>4, LimitsAssumption
       DEF Init, LedgerInv, OperationsReached, AcknowledgedQuiescent, CursorValid, OneUsePerId

(* A new ticket belongs to the current generation, which is not retired yet. *)
LEMMA AdmitNewIInv ==
  ASSUME LedgerInv, NEW request \in Requests, AdmitNew(request), TypeOK'
  PROVE  LedgerInv'
  <1> USE DEF LedgerInv
  <1>1. UNCHANGED <<generation, retirements, cursor>>
    BY DEF AdmitNew
  <1>2. /\ DOMAIN operations' = DOMAIN operations \cup {request.id}
        /\ \A o \in DOMAIN operations : o # request.id => operations'[o] = operations[o]
        /\ operations'[request.id].generation = generation
    BY DEF AdmitNew, WithRow
  <1>3. request.id \notin DOMAIN operations
    BY DEF AdmitNew
  <1>4. OperationsReached'
    BY <1>1, <1>2, <1>3 DEF OperationsReached, TypeOK
  <1>5. TablesFinite'
    BY <1>1, <1>2, FS_AddElement, RetirementsUntouched DEF TablesFinite
  <1>6. AcknowledgedQuiescent'
    <2> SUFFICES ASSUME NEW r \in DOMAIN retirements, retirements[r].state = "acknowledged"
                 PROVE  Inflight(retirements[r].generation)' = {}
      BY <1>1 DEF AcknowledgedQuiescent, Inflight
    <2>1. Inflight(retirements[r].generation) = {}
      BY DEF AcknowledgedQuiescent
    <2>2. retirements[r].generation # generation
      BY RetiredBefore DEF TypeOK
    <2>3. QED
      BY <1>1, <1>2, <2>1, <2>2 DEF Inflight
  <1>7. OneUsePerId'
    BY <1>1, <1>2 DEF OneUsePerId, AdmitNew, AdmitRejected
  <1>8. QED
    BY <1>1, <1>4, <1>5, <1>6, <1>7, RetirementsUntouched

(* An outcome only removes an ingest from the ones in flight. *)
LEMMA FinalizeIInv ==
  ASSUME LedgerInv, NEW request \in Requests, NEW state \in Terminal, Finalize(request, state), TypeOK'
  PROVE  LedgerInv'
  <1> USE DEF LedgerInv
  <1>1. UNCHANGED <<generation, retirements, cursor>>
    BY DEF Finalize
  <1>2. /\ DOMAIN operations' = DOMAIN operations
        /\ \A o \in DOMAIN operations :
             /\ operations'[o].generation = operations[o].generation
             /\ operations'[o].kind = operations[o].kind
             /\ operations'[o].state \in {operations[o].state, state}
    BY DEF Finalize, TypeOK, Ticket
  <1>3. OperationsReached'
    BY <1>1, <1>2 DEF OperationsReached
  <1>4. TablesFinite'
    BY <1>1, <1>2, RetirementsUntouched DEF TablesFinite
  <1>5. \A g : Inflight(g)' \subseteq Inflight(g)
    BY <1>2 DEF Inflight, Terminal
  <1>6. AcknowledgedQuiescent'
    BY <1>1, <1>5 DEF AcknowledgedQuiescent
  <1>7. OneUsePerId'
    BY <1>1, <1>2 DEF OneUsePerId
  <1>8. QED
    BY <1>1, <1>3, <1>4, <1>6, <1>7, RetirementsUntouched

(* A retirement takes the current generation, which no other row has. *)
LEMMA RetireNewIInv ==
  ASSUME LedgerInv, NEW request \in RetireRequests, RetireNew(request), TypeOK'
  PROVE  LedgerInv'
  <1> USE DEF LedgerInv
  <1>1. UNCHANGED <<operations, cursor>> /\ generation' = generation + 1
    BY DEF RetireNew
  <1>2. /\ DOMAIN retirements' = DOMAIN retirements \cup {request.id}
        /\ \A r \in DOMAIN retirements : r # request.id => retirements'[r] = retirements[r]
        /\ retirements'[request.id].generation = generation
        /\ retirements'[request.id].state = "pending"
    BY DEF RetireNew, WithRow
  <1>3. request.id \notin DOMAIN retirements /\ request.id \notin DOMAIN operations
    BY DEF RetireNew, RetireRejected
  <1>4. OperationsReached'
    BY <1>1 DEF OperationsReached, TypeOK, Ticket
  <1>5. Cardinality(DOMAIN retirements) < MaxRetirements
    <2>1. Cardinality(DOMAIN retirements) \in Nat
      BY FS_CardinalityType DEF TablesFinite
    <2>2. QED
      BY <1>3, <2>1, LimitsAssumption DEF RetireNew, RetireRejected
  <1>6. TablesFinite'
    <2>1. /\ IsFiniteSet(DOMAIN retirements')
          /\ Cardinality(DOMAIN retirements') = Cardinality(DOMAIN retirements) + 1
      BY <1>2, <1>3, FS_AddElement DEF TablesFinite
    <2>2. QED
      BY <1>1, <1>5, <2>1, LimitsAssumption DEF TablesFinite, TypeOK
  <1>7. GenerationsAccounted'
    <2>1. {retirements'[r].generation : r \in DOMAIN retirements'} = 1 .. generation
      <3>1. {retirements'[r].generation : r \in DOMAIN retirements'}
              = {retirements[r].generation : r \in DOMAIN retirements} \cup {generation}
        BY <1>2, <1>3
      <3>2. 1 .. generation = (1 .. (generation - 1)) \cup {generation}
        BY DEF TypeOK
      <3>3. QED
        BY <3>1, <3>2 DEF GenerationsAccounted
    <2>2. ASSUME NEW r \in DOMAIN retirements', NEW q \in DOMAIN retirements',
                 retirements'[r].generation = retirements'[q].generation
          PROVE  r = q
      <3>1. \A s \in DOMAIN retirements : retirements[s].generation # generation
        BY RetiredBefore DEF TypeOK
      <3>2. QED
        BY <1>2, <1>3, <2>2, <3>1 DEF GenerationsAccounted
    <2>3. QED
      BY <1>1, <2>1, <2>2 DEF GenerationsAccounted, TypeOK
  <1>8. AcknowledgedQuiescent'
    BY <1>1, <1>2, <1>3 DEF AcknowledgedQuiescent, Inflight
  <1>9. CursorValid'
    BY <1>1, <1>2, <1>3 DEF CursorValid
  <1>10. OneUsePerId'
    BY <1>1, <1>2, <1>3 DEF OneUsePerId
  <1>11. QED
    BY <1>4, <1>6, <1>7, <1>8, <1>9, <1>10

(* The cursor moves to the generation of a row it has just selected. *)
LEMMA PendingIInv ==
  ASSUME LedgerInv, NEW id \in Identities, NEW limit \in PageSizes, Pending(id, limit), TypeOK'
  PROVE  LedgerInv'
  <1> USE DEF LedgerInv
  <1>1. UNCHANGED <<generation, operations, retirements>>
    BY DEF Pending
  <1>2. CursorValid'
    <2>1. CASE cursor' = cursor
      BY <1>1, <2>1 DEF CursorValid
    <2>2. CASE cursor' # cursor
      <3>1. PICK r \in DOMAIN retirements : cursor' = retirements[r].generation
        BY <2>2 DEF Pending, Selected, Open
      <3>2. cursor' <= MaxRetirements
        BY <3>1, RetiredBefore, LimitsAssumption DEF TablesFinite, TypeOK
      <3>3. QED
        BY <1>1, <3>1, <3>2 DEF CursorValid
    <2>3. QED
      BY <2>1, <2>2
  <1>3. QED
    BY <1>1, <1>2 DEF OperationsReached, TablesFinite, GenerationsAccounted,
                      AcknowledgedQuiescent, Inflight, OneUsePerId

(* Acknowledgement is written only when nothing is in flight. *)
LEMMA FinishRetirementIInv ==
  ASSUME LedgerInv, NEW id \in Identities, NEW q \in OperationIds,
         NEW state \in {"acknowledged", "unknown"}, FinishRetirement(id, q, state), TypeOK'
  PROVE  LedgerInv'
  <1> USE DEF LedgerInv
  <1>1. UNCHANGED <<generation, operations, cursor>>
    BY DEF FinishRetirement
  <1>2. /\ DOMAIN retirements' = DOMAIN retirements
        /\ \A r \in DOMAIN retirements :
             retirements'[r].generation = retirements[r].generation
        /\ \A r \in DOMAIN retirements : r # q => retirements'[r] = retirements[r]
        /\ retirements'[q].state = state
    BY DEF FinishRetirement, FinishRejected, TypeOK, Retirement
  <1>3. q \in DOMAIN retirements
    BY DEF FinishRetirement, FinishRejected
  <1>4. TablesFinite' /\ OperationsReached' /\ OneUsePerId'
    BY <1>1, <1>2 DEF TablesFinite, OperationsReached, OneUsePerId
  <1>5. GenerationsAccounted' /\ CursorValid'
    BY <1>1, <1>2 DEF GenerationsAccounted, CursorValid
  <1>6. AcknowledgedQuiescent'
    <2> SUFFICES ASSUME NEW r \in DOMAIN retirements, retirements'[r].state = "acknowledged"
                 PROVE  Inflight(retirements[r].generation) = {}
      BY <1>1, <1>2 DEF AcknowledgedQuiescent, Inflight
    <2>1. CASE retirements[r].state = "acknowledged"
      BY <2>1 DEF AcknowledgedQuiescent
    <2>2. CASE retirements[r].state # "acknowledged"
      <3>1. r = q /\ state = "acknowledged"
        BY <1>2, <2>2
      <3>2. QED
        BY <2>2, <3>1 DEF FinishRetirement, FinishRejected
    <2>3. QED
      BY <2>1, <2>2
  <1>7. QED
    BY <1>4, <1>5, <1>6

(* The invariant is inductive: every state of the ledger satisfies it. *)
THEOREM LedgerInvariant == Spec => []LedgerInv
  <1>1. LedgerInv /\ TypeOK' /\ [Next]_vars => LedgerInv'
    <2> SUFFICES ASSUME LedgerInv, TypeOK', [Next]_vars PROVE LedgerInv'
      OBVIOUS
    <2>1. ASSUME NEW request \in Requests, Call(request) PROVE LedgerInv'
      <3>1. CASE AdmitNew(request)
        BY <3>1, AdmitNewIInv
      <3>2. CASE AdmitReplay(request)
        BY <3>2, TablesUntouched DEF AdmitReplay, LedgerInv
      <3>3. ASSUME NEW phase, Check(request, phase) PROVE LedgerInv'
        BY <3>3, TablesUntouched DEF Check, LedgerInv
      <3>4. ASSUME NEW state \in Terminal, Finalize(request, state) PROVE LedgerInv'
        BY <3>4, FinalizeIInv
      <3>5. QED
        BY <2>1, <3>1, <3>2, <3>3, <3>4 DEF Call
    <2>2. ASSUME NEW request \in RetireRequests, Retire(request) PROVE LedgerInv'
      <3>1. CASE RetireNew(request)
        BY <3>1, RetireNewIInv
      <3>2. CASE RetireReplay(request)
        BY <3>2, TablesUntouched DEF RetireReplay, LedgerInv
      <3>3. QED
        BY <2>2, <3>1, <3>2 DEF Retire
    <2>3. ASSUME NEW id \in Identities, Maintain(id) PROVE LedgerInv'
      <3>1. ASSUME NEW limit \in PageSizes, Pending(id, limit) PROVE LedgerInv'
        BY <3>1, PendingIInv
      <3>2. ASSUME NEW r \in OperationIds, NEW state \in {"acknowledged", "unknown"},
                   FinishRetirement(id, r, state)
            PROVE  LedgerInv'
        BY <3>2, FinishRetirementIInv
      <3>3. CASE Usage(id)
        BY <3>3, TablesUntouched DEF Usage, LedgerInv
      <3>4. QED
        BY <2>3, <3>1, <3>2, <3>3 DEF Maintain
    <2>4. CASE Tick
      BY <2>4, TablesUntouched DEF Tick, ledgerVars, LedgerInv
    <2>5. CASE UNCHANGED vars
      BY <2>5, TablesUntouched DEF vars, LedgerInv
    <2>6. QED
      BY <2>1, <2>2, <2>3, <2>4, <2>5 DEF Next
  <1>2. QED
    BY <1>1, LedgerInitHolds, LedgerTypeCorrect, PTL DEF Spec

(* Every generation before the current one is retired by exactly one clear. *)
THEOREM GenerationsAlwaysAccounted == Spec => []GenerationsAccounted
  BY LedgerInvariant, PTL DEF LedgerInv

(* Acknowledged means quiescent: no ingest of that generation can still be open. *)
THEOREM AcknowledgedStaysQuiescent == Spec => []AcknowledgedQuiescent
  BY LedgerInvariant, PTL DEF LedgerInv

(* pending() never violates the constraint or the trigger on its cursor. *)
THEOREM CursorAlwaysValid == Spec => []CursorValid
  BY LedgerInvariant, PTL DEF LedgerInv

(* An operation id is never both an admission and a retirement. *)
THEOREM IdsNeverReused == Spec => []OneUsePerId
  BY LedgerInvariant, PTL DEF LedgerInv

------------------------------------------------------------------------------
(* The limits.  Only AdmitNew adds operations, and only below both limits. *)
LEMMA AdmitNewCapacity ==
  ASSUME LedgerInv, CapacityHeld, NEW request \in Requests, AdmitNew(request)
  PROVE  CapacityHeld'
  <1> USE DEF LedgerInv
  <1> DEFINE month == Month(clock)
  <1>1. UNCHANGED generation
    BY DEF AdmitNew
  <1>2. /\ request.id \notin DOMAIN operations
        /\ DOMAIN operations' = DOMAIN operations \cup {request.id}
        /\ \A o \in DOMAIN operations : operations'[o] = operations[o]
        /\ operations'[request.id].period = month
    BY DEF AdmitNew, WithRow
  <1> HIDE DEF month
  <1>3. Cardinality(DOMAIN operations) \in Nat
    BY FS_CardinalityType DEF TablesFinite
  <1>4. \A p : IsFiniteSet(InPeriod(p)) /\ Cardinality(InPeriod(p)) \in Nat
    <2> SUFFICES ASSUME NEW p PROVE IsFiniteSet(InPeriod(p)) /\ Cardinality(InPeriod(p)) \in Nat
      OBVIOUS
    <2>1. InPeriod(p) \in SUBSET DOMAIN operations
      BY DEF InPeriod
    <2>2. IsFiniteSet(InPeriod(p))
      BY <2>1, FS_Subset DEF TablesFinite
    <2>3. QED
      BY <2>2, FS_CardinalityType
  <1>5. /\ ~ (Cardinality(DOMAIN operations) >= MaxOperations)
        /\ ~ (Cardinality(InPeriod(month)) >= MonthlyOperations)
    BY <1>2 DEF AdmitNew, AdmitRejected, OverCapacity, month
  <1>6. Cardinality(DOMAIN operations') <= MaxOperations
    <2>1. Cardinality(DOMAIN operations \cup {request.id}) = Cardinality(DOMAIN operations) + 1
      BY <1>2, FS_AddElement DEF TablesFinite
    <2>2. QED
      BY <1>2, <1>3, <1>5, <2>1, LimitsAssumption
  <1>7. \A p : InPeriod(p)' = IF p = month THEN InPeriod(p) \cup {request.id} ELSE InPeriod(p)
    BY <1>2 DEF InPeriod
  <1>8. ASSUME NEW p, NEW o \in DOMAIN operations', operations'[o].period = p
        PROVE  Cardinality(InPeriod(p)') <= MonthlyOperations
    <2>1. CASE p = month
      <3>1. request.id \notin InPeriod(p)
        BY <1>2 DEF InPeriod
      <3>2. Cardinality(InPeriod(p) \cup {request.id}) = Cardinality(InPeriod(p)) + 1
        BY <1>4, <3>1, FS_AddElement
      <3>3. Cardinality(InPeriod(p)) + 1 <= MonthlyOperations
        BY <1>4, <1>5, <2>1, LimitsAssumption
      <3>4. InPeriod(p)' = InPeriod(p) \cup {request.id}
        BY <1>7, <2>1
      <3>5. QED
        BY <3>2, <3>3, <3>4
    <2>2. CASE p # month
      <3>1. o \in DOMAIN operations /\ operations[o].period = p
        BY <1>2, <1>8, <2>2
      <3>2. InPeriod(p)' = InPeriod(p)
        BY <1>7, <2>2
      <3>3. Cardinality(InPeriod(p)) <= MonthlyOperations
        BY <3>1 DEF CapacityHeld
      <3>4. QED
        BY <3>2, <3>3
    <2>3. QED
      BY <2>1, <2>2
  <1>9. generation' - 1 <= MaxRetirements
    BY <1>1 DEF CapacityHeld
  <1>10. \A p : \A o \in DOMAIN operations' :
           operations'[o].period = p => Cardinality(InPeriod(p)') <= MonthlyOperations
    BY <1>8
  <1>11. QED
    BY <1>6, <1>9, <1>10 DEF CapacityHeld, InPeriod

(* No limit of the ledger is ever exceeded, whatever its value. *)
THEOREM CapacityAlwaysHeld == Spec => []CapacityHeld
  <1>1. Init => CapacityHeld
    BY FS_EmptySet, LimitsAssumption DEF Init, CapacityHeld
  <1>2. LedgerInv /\ LedgerInv' /\ CapacityHeld /\ [Next]_vars => CapacityHeld'
    <2> SUFFICES ASSUME LedgerInv, LedgerInv', CapacityHeld, [Next]_vars PROVE CapacityHeld'
      OBVIOUS
    <2>1. ASSUME NEW request \in Requests, AdmitNew(request) PROVE CapacityHeld'
      BY <2>1, AdmitNewCapacity
    <2>2. ASSUME NEW request \in Requests, NEW state, Finalize(request, state) PROVE CapacityHeld'
      <3>1. /\ DOMAIN operations' = DOMAIN operations
            /\ \A o \in DOMAIN operations : operations'[o].period = operations[o].period
        BY <2>2 DEF Finalize, LedgerInv, TypeOK, Ticket
      <3>2. \A p : InPeriod(p)' = InPeriod(p)
        BY <3>1 DEF InPeriod
      <3>3. QED
        BY <2>2, <3>1, <3>2 DEF CapacityHeld, Finalize
    <2>3. CASE UNCHANGED operations
      <3>1. generation' - 1 <= MaxRetirements
        BY DEF LedgerInv, TablesFinite
      <3>2. QED
        BY <2>3, <3>1 DEF CapacityHeld, InPeriod
    <2>4. QED
      BY <2>1, <2>2, <2>3
         DEF Next, Call, Retire, Maintain, AdmitReplay, Check, RetireNew, RetireReplay, Pending,
             FinishRetirement, Usage, Tick, ledgerVars, vars
  <1>3. QED
    BY <1>1, <1>2, LedgerInvariant, PTL DEF Spec

------------------------------------------------------------------------------
(* A lapsed ticket stays lapsed and a terminal outcome stays what it is. *)
THEOREM LapsedStaysLapsed == Spec => LapsedForGood
  <1> DEFINE Step ==
        \A o \in DOMAIN operations :
          /\ o \in DOMAIN operations'
          /\ Lapsed(o) => Lapsed(o)'
          /\ operations[o].state \in Terminal => operations'[o] = operations[o]
  <1>1. ASSUME LedgerInv, Next PROVE Step
    <2> USE <1>1 DEF LedgerInv
    <2>1. ASSUME NEW request \in Requests, AdmitNew(request) PROVE Step
      BY <2>1 DEF AdmitNew, WithRow, Lapsed
    <2>2. ASSUME NEW request \in Requests, NEW state \in Terminal, Finalize(request, state)
          PROVE Step
      <3>1. operations[request.id].state \in {state, "admitted"}
        BY <2>2 DEF Finalize, FinalizeRejected
      <3>2. /\ DOMAIN operations' = DOMAIN operations
            /\ \A o \in DOMAIN operations :
                 /\ operations'[o].generation = operations[o].generation
                 /\ operations'[o].expires = operations[o].expires
        BY <2>2 DEF Finalize, TypeOK, Ticket
      <3>3. ASSUME NEW o \in DOMAIN operations, operations[o].state \in Terminal
            PROVE  operations'[o] = operations[o]
        <4>1. CASE o # request.id
          BY <2>2, <4>1 DEF Finalize
        <4>2. CASE o = request.id
          <5>1. operations[o].state = state
            BY <3>1, <3>3, <4>2 DEF Terminal
          <5>2. operations'[o] = [operations[o] EXCEPT !.state = state]
            BY <2>2, <4>2 DEF Finalize
          <5>3. operations[o] \in Ticket
            BY DEF TypeOK
          <5>4. QED
            BY <5>1, <5>2, <5>3 DEF Ticket
        <4>3. QED
          BY <4>1, <4>2
      <3>4. QED
        BY <2>2, <3>2, <3>3 DEF Lapsed, Finalize
    <2>3. CASE \E request \in RetireRequests : RetireNew(request)
      <3>1. UNCHANGED <<operations, clock>> /\ generation' = generation + 1
        BY <2>3 DEF RetireNew
      <3>2. \A o \in DOMAIN operations : operations[o].generation # generation + 1
        BY DEF OperationsReached, TypeOK, Ticket
      <3>3. QED
        BY <3>1, <3>2 DEF Lapsed
    <2>4. CASE UNCHANGED <<generation, operations, clock>>
      BY <2>4 DEF Lapsed
    <2>5. CASE Tick
      <3>1. UNCHANGED <<generation, operations>> /\ clock' = clock + 1
        BY <2>5 DEF Tick, ledgerVars
      <3>2. \A o \in DOMAIN operations : operations[o].expires \in Nat
        BY DEF TypeOK, Ticket
      <3>3. QED
        BY <3>1, <3>2 DEF Lapsed, TypeOK
    <2>6. QED
      BY <2>1, <2>2, <2>3, <2>4, <2>5
         DEF Next, Call, Retire, Maintain, AdmitReplay, Check, RetireReplay, Pending,
             FinishRetirement, Usage
  <1>2. ASSUME LedgerInv, [Next]_vars PROVE [Step]_vars
    BY <1>1, <1>2
  <1>3. QED
    BY <1>2, LedgerInvariant, PTL DEF Spec, LapsedForGood

------------------------------------------------------------------------------
(* The budget. *)
BudgetInv ==
  /\ BudgetTypeOK
  /\ IsFiniteSet(DOMAIN reservations)
  /\ CountersMatch
  /\ SumsMatch
  /\ WithinPolicy
  /\ PricedByMonth

------------------------------------------------------------------------------
(* Sums.  SumFunctionOnSet is defined by recursion over the subsets of a set. *)

(* Induction on the size of a set: of the sets for which something fails, one *)
(* has the fewest elements.                                                  *)
LEMMA Order ==
  \E R : IsWellFoundedOn(R, Nat) /\ \A x, y \in Nat : x < y => <<x, y>> \in R
<1>1. \A x, y \in Nat : x < y => <<x, y>> \in OpToRel(<, Nat)
  BY DEF OpToRel
<1> QED
  BY <1>1, NatLessThanWellFounded, Zenon

LEMMA Least ==
  ASSUME NEW T, T \subseteq Nat, T # {}
  PROVE  \E x \in T : \A y \in T : x <= y
<1>1. PICK R : IsWellFoundedOn(R, Nat) /\ \A x, y \in Nat : x < y => <<x, y>> \in R
  BY Order
<1>2. IsWellFoundedOn(R, Nat)
  BY <1>1
<1>3. \E x \in T : \A y \in T : ~ (<<y, x>> \in R)
  BY <1>2, WFMin
<1>5. PICK x \in T : \A y \in T : ~ (<<y, x>> \in R)
  BY <1>3
<1>4. \A y \in T : x <= y
  <2> TAKE y \in T
  <2>1. ~ (y < x)
    BY <1>1, <1>5
  <2> QED
    BY <2>1
<1> QED
  BY <1>4

(* Of the sets in question one has no more elements than any other. *)
LEMMA Smallest ==
  ASSUME NEW C, C # {}, \A s \in C : IsFiniteSet(s)
  PROVE  \E s \in C : \A t \in C : Cardinality(s) <= Cardinality(t)
<1>1. \A s \in C : Cardinality(s) \in Nat
  BY FS_CardinalityType
<1>2. PICK n \in {Cardinality(s) : s \in C} : \A k \in {Cardinality(s) : s \in C} : n <= k
  BY <1>1, Least
<1> QED
  BY <1>2

LEMMA OneLess ==
  ASSUME NEW s, IsFiniteSet(s), NEW x \in s
  PROVE  IsFiniteSet(s \ {x}) /\ Cardinality(s) \in Nat /\ Cardinality(s \ {x}) \in Nat
         /\ Cardinality(s \ {x}) < Cardinality(s)
<1>1. IsFiniteSet(s \ {x}) /\ Cardinality(s \ {x}) = Cardinality(s) - 1
  BY FS_RemoveElement
<1> QED
  BY <1>1, FS_CardinalityType

Pick(s) == CHOOSE x \in s : TRUE

(* g is the running sum of f over the subsets of S. *)
Step(f, g, s) == IF s = {} THEN 0 ELSE f[Pick(s)] + g[s \ {Pick(s)}]
Adds(f, S, g) == g = [s \in SUBSET S |-> Step(f, g, s)]

LEMMA SumDef ==
  ASSUME NEW f, NEW S
  PROVE  SumFunctionOnSet(f, S) = (CHOOSE g : Adds(f, S, g))[S]
  BY DEF SumFunctionOnSet, FoldFunctionOnSet, MapThenFoldSet, Adds, Step, Pick

LEMMA PickType == \A s : s # {} => Pick(s) \in s
  BY DEF Pick

(* There is a running sum, first over the sets of so many elements. *)
Low(S, n) == {s \in SUBSET S : Cardinality(s) <= n}

LEMMA LowSums ==
  ASSUME NEW f, NEW S, IsFiniteSet(S), NEW n \in Nat
  PROVE  \E g : g = [s \in Low(S, n) |-> Step(f, g, s)]
<1>1. DEFINE T == {k \in Nat : ~ \E g : g = [s \in Low(S, k) |-> Step(f, g, s)]}
<1>2. SUFFICES ASSUME T # {} PROVE FALSE
  OBVIOUS
<1>3. PICK k \in T : \A j \in T : k <= j
  BY <1>2, Least
<1>4. CASE k = 0
  <2>1. DEFINE g == [s \in Low(S, 0) |-> 0]
  <2>2. \A s \in Low(S, 0) : s = {}
    <3> SUFFICES ASSUME NEW s \in Low(S, 0) PROVE s = {}
      OBVIOUS
    <3>1. IsFiniteSet(s)
      BY FS_Subset DEF Low
    <3>2. Cardinality(s) = 0
      BY <3>1, FS_CardinalityType DEF Low
    <3> QED
      BY <3>1, <3>2, FS_EmptySet
  <2>3. g = [s \in Low(S, 0) |-> Step(f, g, s)]
    BY <2>2 DEF Step
  <2> QED
    BY <1>3, <1>4, <2>3
<1>5. CASE k > 0
  <2>1. k - 1 \in Nat /\ k - 1 \notin T
    BY <1>3, <1>5
  <2>2. PICK h : h = [s \in Low(S, k - 1) |-> Step(f, h, s)]
    BY <2>1
  <2>3. DEFINE g == [s \in Low(S, k) |-> Step(f, h, s)]
  <2>4. ASSUME NEW s \in Low(S, k) PROVE Step(f, g, s) = Step(f, h, s)
    <3>1. CASE s = {}
      BY <3>1 DEF Step
    <3>2. CASE s # {}
      <4>1. IsFiniteSet(s) /\ Pick(s) \in s
        BY <3>2, FS_Subset, PickType DEF Low
      <4>2. s \ {Pick(s)} \in Low(S, k - 1) /\ s \ {Pick(s)} \in Low(S, k)
        BY <4>1, OneLess, <2>1 DEF Low
      <4>3. h[s \ {Pick(s)}] = Step(f, h, s \ {Pick(s)})
        BY <2>2, <4>2, Zenon
      <4>4. g[s \ {Pick(s)}] = Step(f, h, s \ {Pick(s)})
        BY <4>2
      <4> QED
        BY <3>2, <4>3, <4>4 DEF Step
    <3> QED
      BY <3>1, <3>2
  <2>5. g = [s \in Low(S, k) |-> Step(f, g, s)]
    BY <2>4
  <2> QED
    BY <1>3, <2>5
<1> QED
  BY <1>3, <1>4, <1>5

LEMMA SumExists ==
  ASSUME NEW f, NEW S, IsFiniteSet(S)
  PROVE  \E g : Adds(f, S, g)
<1>1. Low(S, Cardinality(S)) = SUBSET S
  <2>1. \A s \in SUBSET S : Cardinality(s) <= Cardinality(S)
    BY FS_Subset
  <2> QED
    BY <2>1 DEF Low
<1>2. Cardinality(S) \in Nat
  BY FS_CardinalityType
<1>3. PICK g : g = [s \in Low(S, Cardinality(S)) |-> Step(f, g, s)]
  BY <1>2, LowSums
<1>4. Adds(f, S, g)
  BY <1>1, <1>3 DEF Adds
<1> QED
  BY <1>4

(* What a running sum is at a set does not depend on the order of its       *)
(* elements, nor on what lies outside of the set.                           *)
LEMMA Stepped ==
  ASSUME NEW f, NEW S, NEW g, Adds(f, S, g), NEW s \in SUBSET S
  PROVE  /\ s = {} => g[s] = 0
         /\ s # {} => Pick(s) \in s /\ g[s] = f[Pick(s)] + g[s \ {Pick(s)}]
<1>1. g[s] = Step(f, g, s)
  BY Zenon DEF Adds
<1> QED
  BY <1>1, PickType DEF Step

LEMMA SumTyped ==
  ASSUME NEW f, NEW S, IsFiniteSet(S), \A x \in S : f[x] \in Nat, NEW g, Adds(f, S, g)
  PROVE  \A s \in SUBSET S : g[s] \in Nat
<1>1. DEFINE C == {s \in SUBSET S : g[s] \notin Nat}
<1>2. SUFFICES ASSUME C # {} PROVE FALSE
  OBVIOUS
<1>3. PICK s \in C : \A t \in C : Cardinality(s) <= Cardinality(t)
  BY <1>2, FS_Subset, Smallest
<1>6. s # {}
  <2>1. s = {} => g[s] = 0
    BY <1>3, Stepped
  <2> QED
    BY <1>3, <2>1
<1>7. s \in SUBSET S
  BY <1>3
<1>4. Pick(s) \in s /\ g[s] = f[Pick(s)] + g[s \ {Pick(s)}]
  BY <1>6, <1>7, Stepped
<1>5. g[s \ {Pick(s)}] \in Nat
  <2>1. Cardinality(s \ {Pick(s)}) < Cardinality(s) /\ Cardinality(s) \in Nat /\ Cardinality(s \ {Pick(s)}) \in Nat
    BY <1>4, FS_Subset, OneLess
  <2> QED
    BY <2>1, <1>3
<1> QED
  BY <1>3, <1>4, <1>5

LEMMA SumAnyOrder ==
  ASSUME NEW f, NEW S, IsFiniteSet(S), \A x \in S : f[x] \in Nat, NEW g, Adds(f, S, g)
  PROVE  \A s \in SUBSET S : \A x \in s : g[s] = f[x] + g[s \ {x}]
<1>1. DEFINE C == {s \in SUBSET S : \E x \in s : g[s] # f[x] + g[s \ {x}]}
<1>2. SUFFICES ASSUME C # {} PROVE FALSE
  OBVIOUS
<1>3. PICK s \in C : \A t \in C : Cardinality(s) <= Cardinality(t)
  BY <1>2, FS_Subset, Smallest
<1>4. PICK x \in s : g[s] # f[x] + g[s \ {x}]
  BY <1>3
<1>5. s # {} /\ Pick(s) \in s /\ g[s] = f[Pick(s)] + g[s \ {Pick(s)}]
  BY <1>3, <1>4, Stepped
<1> DEFINE p == Pick(s)
<1> HIDE DEF p
<1>6. p \in s /\ g[s] = f[p] + g[s \ {p}] /\ x # p
  BY <1>4, <1>5 DEF p
<1>7. IsFiniteSet(s)
  BY FS_Subset
<1>8. \A y \in s : s \ {y} \in SUBSET S /\ s \ {y} \notin C
  <2>1. \A y \in s : Cardinality(s \ {y}) < Cardinality(s) /\ Cardinality(s) \in Nat /\ Cardinality(s \ {y}) \in Nat
    BY <1>7, OneLess
  <2> QED
    BY <2>1, <1>3
<1>9. g[s \ {p}] = f[x] + g[(s \ {p}) \ {x}]
  BY <1>4, <1>6, <1>8
<1>10. g[s \ {x}] = f[p] + g[(s \ {x}) \ {p}]
  BY <1>4, <1>6, <1>8
<1>11. (s \ {p}) \ {x} = (s \ {x}) \ {p}
  OBVIOUS
<1>12. g[(s \ {x}) \ {p}] \in Nat /\ f[x] \in Nat /\ f[p] \in Nat
  BY <1>6, SumTyped
<1> DEFINE rest == g[(s \ {x}) \ {p}]
<1>13. g[s \ {p}] = f[x] + rest /\ g[s \ {x}] = f[p] + rest /\ rest \in Nat
  BY <1>9, <1>10, <1>11, <1>12
<1> HIDE DEF rest
<1>14. f[x] \in Nat /\ f[p] \in Nat
  BY <1>12
<1> QED
  BY <1>4, <1>6, <1>13, <1>14

LEMMA SumAgrees ==
  ASSUME NEW f, NEW S, NEW g, Adds(f, S, g), NEW h, NEW T, NEW k, Adds(h, T, k),
         NEW u, IsFiniteSet(u), u \subseteq S, u \subseteq T, \A x \in u : f[x] = h[x]
  PROVE  \A s \in SUBSET u : g[s] = k[s]
<1>1. DEFINE C == {s \in SUBSET u : g[s] # k[s]}
<1>2. SUFFICES ASSUME C # {} PROVE FALSE
  OBVIOUS
<1>3. PICK s \in C : \A t \in C : Cardinality(s) <= Cardinality(t)
  BY <1>2, FS_Subset, Smallest
<1>4. s \in SUBSET S /\ s \in SUBSET T
  OBVIOUS
<1>5. s # {}
  BY <1>3, <1>4, Stepped
<1>6. Pick(s) \in s /\ g[s] = f[Pick(s)] + g[s \ {Pick(s)}] /\ k[s] = h[Pick(s)] + k[s \ {Pick(s)}]
  BY <1>4, <1>5, Stepped
<1>7. g[s \ {Pick(s)}] = k[s \ {Pick(s)}]
  <2>1. Cardinality(s \ {Pick(s)}) < Cardinality(s) /\ Cardinality(s) \in Nat /\ Cardinality(s \ {Pick(s)}) \in Nat
    BY <1>6, FS_Subset, OneLess
  <2> QED
    BY <2>1, <1>3
<1> QED
  BY <1>3, <1>6, <1>7

(* The sum of a function over a finite set, as the library defines it. *)
LEMMA SumWitness ==
  ASSUME NEW f, NEW S, IsFiniteSet(S)
  PROVE  \E g : Adds(f, S, g) /\ SumFunctionOnSet(f, S) = g[S]
  BY SumExists, SumDef

LEMMA SumOfNone == \A f : SumFunctionOnSet(f, {}) = 0
<1> TAKE f
<1>1. PICK g : Adds(f, {}, g) /\ SumFunctionOnSet(f, {}) = g[{}]
  BY SumWitness, FS_EmptySet
<1> QED
  BY <1>1, Stepped

LEMMA SumSame ==
  ASSUME NEW f, NEW h, NEW S, IsFiniteSet(S), \A x \in S : f[x] = h[x]
  PROVE  SumFunctionOnSet(f, S) = SumFunctionOnSet(h, S)
<1>1. PICK g : Adds(f, S, g) /\ SumFunctionOnSet(f, S) = g[S]
  BY SumWitness
<1>2. PICK k : Adds(h, S, k) /\ SumFunctionOnSet(h, S) = k[S]
  BY SumWitness
<1> QED
  BY <1>1, <1>2, SumAgrees

LEMMA SumOfOneMore ==
  ASSUME NEW f, NEW S, IsFiniteSet(S), NEW x, x \notin S, \A y \in S \cup {x} : f[y] \in Nat
  PROVE  SumFunctionOnSet(f, S \cup {x}) = SumFunctionOnSet(f, S) + f[x]
<1>1. IsFiniteSet(S \cup {x})
  BY FS_AddElement
<1>2. PICK g : Adds(f, S, g) /\ SumFunctionOnSet(f, S) = g[S]
  BY SumWitness
<1>3. PICK k : Adds(f, S \cup {x}, k) /\ SumFunctionOnSet(f, S \cup {x}) = k[S \cup {x}]
  BY <1>1, SumWitness
<1>4. k[S \cup {x}] = f[x] + k[(S \cup {x}) \ {x}]
  BY <1>1, <1>3, SumAnyOrder
<1>5. (S \cup {x}) \ {x} = S
  OBVIOUS
<1>6. g[S] = k[S]
  BY <1>2, <1>3, SumAgrees
<1>7. k[S] \in Nat
  BY <1>1, <1>3, SumTyped
<1>8. k[(S \cup {x}) \ {x}] = g[S]
  BY <1>5, <1>6
<1>9. g[S] \in Nat /\ f[x] \in Nat
  BY <1>6, <1>7
<1> QED
  BY <1>2, <1>3, <1>4, <1>8, <1>9

(* The form needed here: a function that is as it was on a set, and one     *)
(* element more.                                                            *)
LEMMA SumExtended ==
  ASSUME NEW f, NEW h, NEW S, IsFiniteSet(S), NEW x, x \notin S,
         \A y \in S : f[y] = h[y], \A y \in S \cup {x} : h[y] \in Nat
  PROVE  SumFunctionOnSet(h, S \cup {x}) = SumFunctionOnSet(f, S) + h[x]
  BY SumSame, SumOfOneMore

------------------------------------------------------------------------------
LEMMA CostType ==
  ASSUME NEW policy \in Policies, NEW kind \in Kinds, NEW bytes \in InputSizes
  PROVE  Cost(policy, kind, bytes) \in Nat \ {0}
  <1>1. KiBs(bytes) \in Nat
    BY BudgetAssumption DEF KiBs
  <1>2. policy \in PolicyType
    BY BudgetAssumption
  <1>3. /\ KiBs(bytes) * policy.ingestPerKiB \in Nat
        /\ KiBs(bytes) * policy.searchPerKiB \in Nat
    BY <1>1, <1>2 DEF PolicyType
  <1>4. policy.ingestBase \in Nat \ {0} /\ policy.searchBase \in Nat \ {0}
    BY <1>2 DEF PolicyType
  <1>5. QED
    BY <1>3, <1>4 DEF Cost

(* The account a reservation is charged to, and the one it leaves behind. *)
LEMMA ChargedAccountType ==
  ASSUME BudgetTypeOK, NEW request \in ReserveRequests, NEW month \in Nat
  PROVE  LET account == AccountOf(month, request.policy) IN
           /\ account \in Account
           /\ [account EXCEPT !.requests = @ + 1, !.bytes = @ + request.bytes,
                              !.reserved = @ + Charge(request)] \in Account
  <1> DEFINE account == AccountOf(month, request.policy)
  <1>1. /\ request.policy \in Policies
        /\ request.bytes \in Nat
        /\ Charge(request) \in Nat
    BY CostType, BudgetAssumption DEF ReserveRequests, Charge
  <1>2. account \in Account
    <2>1. CASE month \in DOMAIN months
      BY <2>1 DEF AccountOf, BudgetTypeOK
    <2>2. CASE month \notin DOMAIN months
      BY <1>1, <2>2 DEF AccountOf, Account
    <2>3. QED
      BY <2>1, <2>2
  <1> HIDE DEF account
  <1>3. [account EXCEPT !.requests = @ + 1, !.bytes = @ + request.bytes,
                        !.reserved = @ + Charge(request)] \in Account
    <2> DEFINE charge == Charge(request)
    <2>1. charge \in Nat
      BY <1>1
    <2> HIDE DEF charge
    <2>2. /\ account.requests + 1 \in Nat
          /\ account.bytes + request.bytes \in Nat
          /\ account.reserved + charge \in Nat
      BY <1>1, <1>2, <2>1 DEF Account
    <2>3. [account EXCEPT !.requests = account.requests + 1, !.bytes = account.bytes + request.bytes,
                          !.reserved = account.reserved + charge] \in Account
      BY <1>2, <2>2 DEF Account
    <2>4. QED
      BY <2>3 DEF charge
  <1>4. QED
    BY <1>2, <1>3 DEF account

LEMMA ReserveNewType ==
  ASSUME BudgetTypeOK, NEW request \in ReserveRequests, ReserveNew(request)
  PROVE  BudgetTypeOK'
  <1> DEFINE month == Month(clock)
             account == AccountOf(month, request.policy)
             charged == [account EXCEPT !.requests = @ + 1, !.bytes = @ + request.bytes,
                                        !.reserved = @ + Charge(request)]
             row == [content |-> request.content, kind |-> request.kind,
                     bytes |-> request.bytes, month |-> month, policy |-> request.policy,
                     reserved |-> Charge(request), expires |-> Expiry(request),
                     state |-> "admitted"]
  <1>1. month \in Nat
    BY BudgetAssumption DEF Month, BudgetTypeOK
  <1>2. charged \in Account
    BY <1>1, ChargedAccountType
  <1>3. request.policy \in PolicyType /\ request.until \in Nat
    BY BudgetAssumption DEF ReserveRequests
  <1>4. Expiry(request) \in Nat
    BY <1>3, BudgetAssumption DEF Expiry, Earliest, BudgetTypeOK, PolicyType
  <1>5. Charge(request) \in Nat /\ request.bytes \in Nat
    BY CostType, BudgetAssumption DEF ReserveRequests, Charge
  <1>6. row \in Reservation
    BY <1>1, <1>4, <1>5 DEF Reservation, ReserveRequests, ReservationStates
  <1>7. /\ months' = WithRow(months, month, charged)
        /\ reservations' = WithRow(reservations, request.id, row)
        /\ total' = total + 1
        /\ clock' = clock
        /\ budget' = request.budget
    BY DEF ReserveNew, BindBudget
  <1> HIDE DEF month, charged, row
  <1>8. DOMAIN months' \subseteq Nat /\ months' \in [DOMAIN months' -> Account]
    BY <1>1, <1>2, <1>7 DEF WithRow, BudgetTypeOK
  <1>9. /\ DOMAIN reservations' \subseteq ReservationIds
        /\ reservations' \in [DOMAIN reservations' -> Reservation]
    BY <1>6, <1>7 DEF WithRow, BudgetTypeOK, ReserveRequests
  <1>10. QED
    BY <1>7, <1>8, <1>9 DEF BudgetTypeOK, ReserveRequests

LEMMA FinalizeNewType ==
  ASSUME BudgetTypeOK, NEW id \in BudgetIds, NEW r \in ReservationIds, NEW state \in Terminal,
         FinalizeNew(id, r, state)
  PROVE  BudgetTypeOK'
  <1>1. r \in DOMAIN reservations
    BY DEF FinalizeNew, OutcomeRejected
  <1>2. /\ DOMAIN reservations' = DOMAIN reservations
        /\ reservations' \in [DOMAIN reservations -> Reservation]
    BY ZenonT(60) DEF FinalizeNew, BudgetTypeOK, Reservation, ReservationStates
  <1>3. /\ DOMAIN months' = DOMAIN months
        /\ months' \in [DOMAIN months -> Account]
    <2> DEFINE m == reservations[r].month
               counted == [months[m].outcomes EXCEPT ![state] = @ + 1]
    <2>1. months' = [months EXCEPT ![m] = [months[m] EXCEPT !.outcomes = counted]]
      BY DEF FinalizeNew
    <2>2. ASSUME m \in DOMAIN months PROVE [months[m] EXCEPT !.outcomes = counted] \in Account
      <3>1. months[m] \in Account
        BY <2>2 DEF BudgetTypeOK
      <3>2. months[m].outcomes \in [Terminal -> Nat]
        BY <3>1 DEF Account
      <3>3. counted \in [Terminal -> Nat]
        BY <3>2
      <3> HIDE DEF counted
      <3>4. QED
        BY <3>1, <3>3 DEF Account
    <2> HIDE DEF counted, m
    <2>3. QED
      BY <2>1, <2>2 DEF BudgetTypeOK
  <1>4. QED
    BY <1>2, <1>3 DEF FinalizeNew, BindBudget, BudgetTypeOK

(* The ledger stays well typed. *)
THEOREM BudgetTypeCorrect == BudgetSpec => []BudgetTypeOK
  <1>1. BudgetInit => BudgetTypeOK
    BY DEF BudgetInit, BudgetTypeOK
  <1>2. BudgetTypeOK /\ [BudgetNext]_budgetState => BudgetTypeOK'
    <2> SUFFICES ASSUME BudgetTypeOK, [BudgetNext]_budgetState PROVE BudgetTypeOK'
      OBVIOUS
    <2>1. ASSUME NEW request \in ReserveRequests, ReserveNew(request) PROVE BudgetTypeOK'
      BY <2>1, ReserveNewType
    <2>2. ASSUME NEW request \in ReserveRequests, ReserveReplay(request) PROVE BudgetTypeOK'
      BY <2>2 DEF ReserveReplay, BindBudget, BudgetTypeOK, ReserveRequests
    <2>3. ASSUME NEW id \in BudgetIds, NEW r \in ReservationIds, NEW state \in Terminal,
                 FinalizeNew(id, r, state)
          PROVE  BudgetTypeOK'
      BY <2>3, FinalizeNewType
    <2>4. ASSUME NEW id \in BudgetIds, NEW r, NEW state, FinalizeReplay(id, r, state) PROVE BudgetTypeOK'
      BY <2>4 DEF FinalizeReplay, BindBudget, BudgetTypeOK
    <2>5. ASSUME NEW id \in BudgetIds, BudgetUsage(id) PROVE BudgetTypeOK'
      BY <2>5 DEF BudgetUsage, BindBudget, BudgetTypeOK
    <2>6. CASE BudgetTick
      BY <2>6 DEF BudgetTick, budgetVars, BudgetTypeOK
    <2>7. CASE UNCHANGED budgetState
      BY <2>7 DEF budgetState, BudgetTypeOK
    <2>8. QED
      BY <2>1, <2>2, <2>3, <2>4, <2>5, <2>6, <2>7 DEF BudgetNext
  <1>3. QED
    BY <1>1, <1>2, PTL DEF BudgetSpec

------------------------------------------------------------------------------
(* Every set of reservations the counters stand for is finite. *)
LEMMA SlicesFinite ==
  ASSUME IsFiniteSet(DOMAIN reservations), NEW m, NEW s
  PROVE  /\ IsFiniteSet(InMonth(m)) /\ Cardinality(InMonth(m)) \in Nat
         /\ IsFiniteSet(InState(m, s)) /\ Cardinality(InState(m, s)) \in Nat
  <1>1. InMonth(m) \in SUBSET DOMAIN reservations /\ InState(m, s) \in SUBSET DOMAIN reservations
    BY DEF InMonth, InState
  <1>2. IsFiniteSet(InMonth(m)) /\ IsFiniteSet(InState(m, s))
    BY <1>1, FS_Subset
  <1>3. QED
    BY <1>2, FS_CardinalityType

LEMMA BudgetInitHolds == BudgetInit => BudgetInv
  <1> SUFFICES ASSUME BudgetInit PROVE BudgetInv
    OBVIOUS
  <1>1. DOMAIN reservations = {} /\ DOMAIN months = {} /\ total = 0
    BY DEF BudgetInit
  <1>2. BudgetTypeOK
    BY DEF BudgetInit, BudgetTypeOK
  <1>3. QED
    BY <1>1, <1>2, FS_EmptySet, BudgetAssumption
       DEF BudgetInv, CountersMatch, SumsMatch, WithinPolicy, PricedByMonth

(* A new reservation is one more in its month, under the policy of the month. *)
LEMMA ReserveNewIInv ==
  ASSUME BudgetInv, NEW request \in ReserveRequests, ReserveNew(request), BudgetTypeOK'
  PROVE  BudgetInv'
  <1> USE DEF BudgetInv
  <1> DEFINE month == Month(clock)
             account == AccountOf(month, request.policy)
  <1>1. /\ request.id \notin DOMAIN reservations
        /\ DOMAIN reservations' = DOMAIN reservations \cup {request.id}
        /\ \A r \in DOMAIN reservations : reservations'[r] = reservations[r]
        /\ reservations'[request.id].month = month
        /\ reservations'[request.id].kind = request.kind
        /\ reservations'[request.id].bytes = request.bytes
        /\ reservations'[request.id].policy = request.policy
        /\ reservations'[request.id].reserved = Charge(request)
        /\ reservations'[request.id].state = "admitted"
    BY DEF ReserveNew, WithRow
  <1>2. month \in Nat
    BY BudgetAssumption DEF Month, BudgetTypeOK
  <1>3. account \in Account
    BY <1>2, ChargedAccountType
  <1>4. /\ DOMAIN months' = DOMAIN months \cup {month}
        /\ \A m \in DOMAIN months : m # month => months'[m] = months[m]
        /\ months'[month].policy = account.policy
        /\ months'[month].requests = account.requests + 1
        /\ months'[month].bytes = account.bytes + request.bytes
        /\ months'[month].reserved = account.reserved + Charge(request)
        /\ months'[month].outcomes = account.outcomes
    BY <1>3 DEF ReserveNew, WithRow, Account
  <1>5. /\ total < MaxReservations
        /\ account.policy = request.policy
        /\ ~ Exhausted(account, request)
    BY <1>1, BudgetAssumption DEF ReserveNew, ReserveRejected, BudgetTypeOK
  <1>6. month \in DOMAIN months => account = months[month]
    BY DEF AccountOf
  <1>7. month \notin DOMAIN months =>
          /\ account.requests = 0 /\ account.outcomes = [s \in Terminal |-> 0]
          /\ account.bytes = 0 /\ account.reserved = 0
    BY DEF AccountOf
  <1>8. total' = total + 1 /\ clock' = clock
    BY DEF ReserveNew
  <1> HIDE DEF month, account
  <1>9. IsFiniteSet(DOMAIN reservations')
    BY <1>1, FS_AddElement
  <1>10. \A m : InMonth(m)' = IF m = month THEN InMonth(m) \cup {request.id} ELSE InMonth(m)
    BY <1>1 DEF InMonth
  <1>11. \A m : \A s \in Terminal : InState(m, s)' = InState(m, s)
    BY <1>1 DEF InState, InMonth, Terminal
  <1>12. month \notin DOMAIN months => InMonth(month) = {}
    BY DEF InMonth, CountersMatch
  <1>13. account.requests = Cardinality(InMonth(month))
    BY <1>6, <1>7, <1>12, FS_EmptySet DEF CountersMatch
  <1>14. \A s \in Terminal : account.outcomes[s] = Cardinality(InState(month, s))
    <2>1. CASE month \in DOMAIN months
      BY <1>6, <2>1 DEF CountersMatch
    <2>2. CASE month \notin DOMAIN months
      <3>1. \A s : InState(month, s) = {}
        BY <1>12, <2>2 DEF InState
      <3>2. QED
        BY <1>7, <2>2, <3>1, FS_EmptySet
    <2>3. QED
      BY <2>1, <2>2
  <1>15. Cardinality(InMonth(month) \cup {request.id}) = Cardinality(InMonth(month)) + 1
    <2>1. request.id \notin InMonth(month)
      BY <1>1 DEF InMonth
    <2>2. QED
      BY <2>1, SlicesFinite, FS_AddElement
  <1>16. CountersMatch'
    <2>1. total' = Cardinality(DOMAIN reservations')
      BY <1>1, <1>8, FS_AddElement DEF CountersMatch
    <2>2. \A r \in DOMAIN reservations' : reservations'[r].month \in DOMAIN months'
      BY <1>1, <1>4 DEF CountersMatch
    <2>3. \A m \in DOMAIN months' : months'[m].requests = Cardinality(InMonth(m)')
      BY <1>4, <1>10, <1>13, <1>15 DEF CountersMatch
    <2>4. \A m \in DOMAIN months' : \A s \in Terminal :
             months'[m].outcomes[s] = Cardinality(InState(m, s)')
      BY <1>4, <1>11, <1>14 DEF CountersMatch
    <2>5. QED
      BY <2>1, <2>2, <2>3, <2>4 DEF CountersMatch
  <1>17. WithinPolicy'
    <2>1. /\ months'[month].requests <= months'[month].policy.maxRequests
          /\ months'[month].bytes <= months'[month].policy.maxBytes
          /\ months'[month].reserved <= months'[month].policy.maxReserved
      <3>1. request.policy \in PolicyType /\ request.bytes \in Nat /\ Charge(request) \in Nat
        BY CostType, BudgetAssumption DEF ReserveRequests, Charge
      <3>2. QED
        BY <1>3, <1>4, <1>5, <3>1 DEF Exhausted, Account, PolicyType
    <2>2. total' <= MaxReservations
      BY <1>5, <1>8, BudgetAssumption DEF BudgetTypeOK
    <2>3. QED
      BY <1>4, <2>1, <2>2 DEF WithinPolicy
  <1>18. PricedByMonth'
    <2> SUFFICES ASSUME NEW r \in DOMAIN reservations'
                 PROVE  /\ reservations'[r].policy = months'[reservations'[r].month].policy
                        /\ reservations'[r].reserved =
                             Cost(reservations'[r].policy, reservations'[r].kind, reservations'[r].bytes)
                        /\ reservations'[r].reserved > 0
      BY DEF PricedByMonth, Cost, KiBs
    <2>1. CASE r = request.id
      <3>1. Charge(request) > 0
        BY CostType DEF ReserveRequests, Charge
      <3>2. QED
        BY <1>1, <1>4, <1>5, <2>1, <3>1 DEF Charge
    <2>2. CASE r # request.id
      <3>1. r \in DOMAIN reservations /\ reservations'[r] = reservations[r]
        BY <1>1, <2>2
      <3>2. months'[reservations[r].month].policy = months[reservations[r].month].policy
        BY <1>4, <1>6, <3>1 DEF CountersMatch
      <3>3. QED
        BY <3>1, <3>2 DEF PricedByMonth
    <2>3. QED
      BY <2>1, <2>2
  <1>19. SumsMatch'
    <2>1. /\ account.bytes = SumFunctionOnSet(Bytes, InMonth(month))
          /\ account.reserved = SumFunctionOnSet(Price, InMonth(month))
      BY <1>6, <1>7, <1>12, SumOfNone DEF SumsMatch
    <2>2. /\ \A r \in DOMAIN reservations : Bytes[r] = Bytes'[r] /\ Price[r] = Price'[r]
          /\ Bytes'[request.id] = request.bytes /\ Price'[request.id] = Charge(request)
      BY <1>1 DEF Bytes, Price
    <2>3. \A r \in DOMAIN reservations' : Bytes'[r] \in Nat /\ Price'[r] \in Nat
      BY DEF BudgetTypeOK, Reservation, Bytes, Price
    <2>4. \A m : /\ IsFiniteSet(InMonth(m)) /\ InMonth(m) \subseteq DOMAIN reservations
                 /\ request.id \notin InMonth(m)
      BY <1>1, SlicesFinite DEF InMonth
    <2>5. /\ SumFunctionOnSet(Bytes', InMonth(month) \cup {request.id})
               = SumFunctionOnSet(Bytes, InMonth(month)) + Bytes'[request.id]
          /\ SumFunctionOnSet(Price', InMonth(month) \cup {request.id})
               = SumFunctionOnSet(Price, InMonth(month)) + Price'[request.id]
      BY <1>1, <2>2, <2>3, <2>4, SumExtended
    <2>6. ASSUME NEW m \in DOMAIN months, m # month
          PROVE  /\ SumFunctionOnSet(Bytes', InMonth(m)) = SumFunctionOnSet(Bytes, InMonth(m))
                 /\ SumFunctionOnSet(Price', InMonth(m)) = SumFunctionOnSet(Price, InMonth(m))
      BY <2>2, <2>4, SumSame
    <2>7. ASSUME NEW m \in DOMAIN months'
          PROVE  /\ months'[m].bytes = SumFunctionOnSet(Bytes', InMonth(m)')
                 /\ months'[m].reserved = SumFunctionOnSet(Price', InMonth(m)')
      <3>1. CASE m = month
        BY <3>1, <1>4, <1>10, <2>1, <2>2, <2>5
      <3>2. CASE m # month
        BY <3>2, <1>4, <1>10, <2>6 DEF SumsMatch
      <3> QED
        BY <3>1, <3>2
    <2> QED
      BY <2>7 DEF SumsMatch
  <1>20. QED
    BY <1>9, <1>16, <1>17, <1>18, <1>19

(* An outcome moves one reservation of its own month into a final state. *)
LEMMA FinalizeNewIInv ==
  ASSUME BudgetInv, NEW id \in BudgetIds, NEW q \in ReservationIds, NEW state \in Terminal,
         FinalizeNew(id, q, state), BudgetTypeOK'
  PROVE  BudgetInv'
  <1> USE DEF BudgetInv
  <1> DEFINE month == reservations[q].month
  <1>1. q \in DOMAIN reservations /\ reservations[q].state = "admitted"
    BY DEF FinalizeNew, OutcomeRejected
  <1>2. /\ DOMAIN reservations' = DOMAIN reservations
        /\ \A r \in DOMAIN reservations : r # q => reservations'[r] = reservations[r]
        /\ reservations'[q] = [reservations[q] EXCEPT !.state = state]
    BY <1>1 DEF FinalizeNew
  <1>3. \A r \in DOMAIN reservations :
          /\ reservations'[r].month = reservations[r].month
          /\ reservations'[r].kind = reservations[r].kind
          /\ reservations'[r].bytes = reservations[r].bytes
          /\ reservations'[r].policy = reservations[r].policy
          /\ reservations'[r].reserved = reservations[r].reserved
          /\ reservations'[r].state = IF r = q THEN state ELSE reservations[r].state
    BY <1>1, <1>2 DEF BudgetTypeOK, Reservation
  <1>4. month \in DOMAIN months
    BY <1>1 DEF CountersMatch
  <1>5. /\ DOMAIN months' = DOMAIN months
        /\ \A m \in DOMAIN months :
             /\ months'[m].policy = months[m].policy
             /\ months'[m].requests = months[m].requests
             /\ months'[m].bytes = months[m].bytes
             /\ months'[m].reserved = months[m].reserved
             /\ \A s \in Terminal : months'[m].outcomes[s] =
                  IF m = month /\ s = state THEN months[m].outcomes[s] + 1
                                            ELSE months[m].outcomes[s]
    BY <1>4 DEF FinalizeNew, BudgetTypeOK, Account
  <1>6. \A m : InMonth(m)' = InMonth(m)
    BY <1>2, <1>3 DEF InMonth
  <1>7. \A m : \A s \in Terminal :
          InState(m, s)' = IF m = month /\ s = state THEN InState(m, s) \cup {q} ELSE InState(m, s)
    BY <1>1, <1>3, <1>6 DEF InState, InMonth, Terminal
  <1>8. Cardinality(InState(month, state) \cup {q}) = Cardinality(InState(month, state)) + 1
    <2>1. q \notin InState(month, state)
      BY <1>1 DEF InState, Terminal
    <2>2. QED
      BY <2>1, SlicesFinite, FS_AddElement
  <1> HIDE DEF month
  <1>9. CountersMatch'
    <2>1. total' = Cardinality(DOMAIN reservations')
      BY <1>2 DEF CountersMatch, FinalizeNew
    <2>2. \A r \in DOMAIN reservations' : reservations'[r].month \in DOMAIN months'
      BY <1>2, <1>3, <1>5 DEF CountersMatch
    <2>3. \A m \in DOMAIN months' : months'[m].requests = Cardinality(InMonth(m)')
      BY <1>5, <1>6 DEF CountersMatch
    <2>4. \A m \in DOMAIN months' : \A s \in Terminal :
             months'[m].outcomes[s] = Cardinality(InState(m, s)')
      <3> SUFFICES ASSUME NEW m \in DOMAIN months, NEW s \in Terminal
                   PROVE  months'[m].outcomes[s] = Cardinality(InState(m, s)')
        BY <1>5
      <3>1. months[m].outcomes[s] = Cardinality(InState(m, s))
        BY DEF CountersMatch
      <3>2. CASE m = month /\ s = state
        <4>1. InState(m, s)' = InState(month, state) \cup {q}
          BY <1>7, <3>2
        <4>2. QED
          BY <1>5, <1>8, <3>1, <3>2, <4>1
      <3>3. CASE ~ (m = month /\ s = state)
        <4>1. InState(m, s)' = InState(m, s)
          BY <1>7, <3>3
        <4>2. QED
          BY <1>5, <3>1, <3>3, <4>1
      <3>4. QED
        BY <3>2, <3>3
    <2>5. QED
      BY <2>1, <2>2, <2>3, <2>4 DEF CountersMatch
  <1>10. WithinPolicy'
    BY <1>5 DEF WithinPolicy, FinalizeNew
  <1>11. PricedByMonth'
    <2> SUFFICES ASSUME NEW r \in DOMAIN reservations
                 PROVE  /\ reservations'[r].policy = months'[reservations'[r].month].policy
                        /\ reservations'[r].reserved =
                             Cost(reservations'[r].policy, reservations'[r].kind, reservations'[r].bytes)
                        /\ reservations'[r].reserved > 0
      BY <1>2 DEF PricedByMonth, Cost, KiBs
    <2>1. reservations[r].month \in DOMAIN months
      BY DEF CountersMatch
    <2>2. QED
      BY <1>3, <1>5, <2>1 DEF PricedByMonth
  <1>12. SumsMatch'
    <2>1. \A r \in DOMAIN reservations : Bytes[r] = Bytes'[r] /\ Price[r] = Price'[r]
      BY <1>2, <1>3 DEF Bytes, Price
    <2>2. ASSUME NEW m \in DOMAIN months
          PROVE  /\ SumFunctionOnSet(Bytes', InMonth(m)) = SumFunctionOnSet(Bytes, InMonth(m))
                 /\ SumFunctionOnSet(Price', InMonth(m)) = SumFunctionOnSet(Price, InMonth(m))
      <3>1. IsFiniteSet(InMonth(m)) /\ InMonth(m) \subseteq DOMAIN reservations
        BY SlicesFinite DEF InMonth
      <3> QED
        BY <2>1, <3>1, SumSame
    <2>3. ASSUME NEW m \in DOMAIN months'
          PROVE  /\ months'[m].bytes = SumFunctionOnSet(Bytes', InMonth(m)')
                 /\ months'[m].reserved = SumFunctionOnSet(Price', InMonth(m)')
      BY <1>5, <1>6, <2>2 DEF SumsMatch
    <2> QED
      BY <2>3 DEF SumsMatch
  <1>13. QED
    BY <1>2, <1>9, <1>10, <1>11, <1>12

LEMMA AccountsUntouched ==
  ASSUME BudgetInv, UNCHANGED <<months, reservations, total>>, BudgetTypeOK'
  PROVE  BudgetInv'
  BY ZenonT(60) DEF BudgetInv, CountersMatch, SumsMatch, Bytes, Price, InMonth, InState, WithinPolicy, PricedByMonth,
         Cost, KiBs

(* The invariant is inductive: every state of the budget satisfies it. *)
THEOREM BudgetInvariant == BudgetSpec => []BudgetInv
  <1>1. BudgetInv /\ BudgetTypeOK' /\ [BudgetNext]_budgetState => BudgetInv'
    <2> SUFFICES ASSUME BudgetInv, BudgetTypeOK', [BudgetNext]_budgetState PROVE BudgetInv'
      OBVIOUS
    <2>1. ASSUME NEW request \in ReserveRequests, ReserveNew(request) PROVE BudgetInv'
      BY <2>1, ReserveNewIInv
    <2>2. ASSUME NEW id \in BudgetIds, NEW r \in ReservationIds, NEW state \in Terminal,
                 FinalizeNew(id, r, state)
          PROVE  BudgetInv'
      BY <2>2, FinalizeNewIInv
    <2>3. CASE UNCHANGED <<months, reservations, total>>
      BY <2>3, AccountsUntouched
    <2>4. QED
      BY <2>1, <2>2, <2>3
         DEF BudgetNext, ReserveReplay, FinalizeReplay, BudgetUsage, BudgetTick, budgetVars, budgetState
  <1>2. QED
    BY <1>1, BudgetInitHolds, BudgetTypeCorrect, PTL DEF BudgetSpec

(* The counters of every month are the reservations and outcomes it holds. *)
THEOREM CountersAlwaysMatch == BudgetSpec => []CountersMatch
  BY BudgetInvariant, PTL DEF BudgetInv

(* No month ever exceeds its policy and the object never its capacity. *)
THEOREM AlwaysWithinPolicy == BudgetSpec => []WithinPolicy
  BY BudgetInvariant, PTL DEF BudgetInv

(* The counters, bytes and money of every month are those of its reservations, *)
(* and within the policy it started with: nothing is charged twice, at another *)
(* price or to another month, for any policies, sizes and callers.             *)
THEOREM AlwaysSound == BudgetSpec => []BudgetSound
  BY BudgetInvariant, PTL DEF BudgetInv, BudgetSound

(* A month is priced under one policy, whatever the operator configures. *)
THEOREM AlwaysPricedByMonth == BudgetSpec => []PricedByMonth
  BY BudgetInvariant, PTL DEF BudgetInv

(***************************************************************************)
(* The databases in Durable Objects and their recovery.                    *)
(***************************************************************************)

(* The type of each variable, to cite one without the others. *)
ObjectType == [status: {"empty", "importing", "ready", "failed"}, plan: Plans \cup {None},
               staged: Series(Chunks), data: Data, active: Runs \cup {None}]
RunType == [at: Objects \cup {None}, state: {"absent", "frozen", "released"},
            plan: Data \cup {None}, summary: Data \cup {None}]
D1Type == [serves: BOOLEAN, data: Data, fenced: SUBSET Tables, reads: Series(2 * Chunks) \cup {None}]

(* A plan, wherever it is, is of the moment its source was frozen, and that  *)
(* moment is settled.                                                        *)
PlanSound(p) ==
  /\ p.data = cut[p.run]
  /\ IF p.run = Fence THEN ~ d1.serves ELSE run[p.run].state # "absent"

(* A run and its object know each other from freeze to release, and what a   *)
(* call carries over an await was read while the run was frozen.             *)
RunSound(r) ==
  /\ run[r].state = "frozen" =>
       /\ run[r].at \in Objects
       /\ object[run[r].at].active = r
       /\ object[run[r].at].status = "ready"
       /\ object[run[r].at].data = cut[r]
       /\ run[r].plan \in {None, cut[r]}
  /\ run[r].state # "frozen" => run[r].plan = None
  /\ pending[r] # None =>
       /\ run[r].state # "absent"
       /\ pending[r].kind = "export" => pending[r].data = cut[r]

ObjectSound(o) ==
  /\ object[o].active # None =>
       /\ object[o].status = "ready"
       /\ run[object[o].active].state = "frozen"
       /\ run[object[o].active].at = o
  /\ object[o].status = "empty" => object[o].staged = <<>>
  /\ object[o].status = "importing" =>
       /\ object[o].plan \in Plans
       /\ PlanSound(object[o].plan)
       /\ \A t \in DOMAIN object[o].staged : object[o].staged[t] = object[o].plan.data[t]

TransfersSound ==
  /\ \A p \in known : PlanSound(p)
  /\ \A b \in backups : PlanSound(b.plan)

(* While D1 is read every table is fenced, so the rows are still those of    *)
(* the moment its export began.                                              *)
SnapshotSound ==
  d1.reads # None =>
    /\ d1.fenced = Tables
    /\ d1.data = cut[Fence]
    /\ \A t \in DOMAIN d1.reads \cap Tables : d1.reads[t] = d1.data[t]

RecoveryInv ==
  /\ RecoveryTypeOK
  /\ \A r \in Runs : RunSound(r)
  /\ \A o \in Objects : ObjectSound(o)
  /\ TransfersSound
  /\ SnapshotSound

------------------------------------------------------------------------------
LEMMA TypeParts ==
  RecoveryTypeOK <=>
    /\ object \in [Objects -> ObjectType]
    /\ run \in [Runs -> RunType]
    /\ pending \in [Runs -> Exports \cup Answers \cup {None}]
    /\ d1 \in D1Type
    /\ held \subseteq [index: Tables, rows: Rows]
    /\ known \subseteq Plans
    /\ backups \subseteq [plan: Plans, rows: Data]
    /\ writes \in Rows
    /\ cut \in [Cuts -> Data \cup {None}]
  BY DEF RecoveryTypeOK, ObjectType, RunType, D1Type

LEMMA TypePartsNext ==
  ASSUME object' \in [Objects -> ObjectType],
         run' \in [Runs -> RunType],
         pending' \in [Runs -> Exports \cup Answers \cup {None}],
         d1' \in D1Type,
         held' \subseteq [index: Tables, rows: Rows],
         known' \subseteq Plans,
         backups' \subseteq [plan: Plans, rows: Data],
         writes' \in Rows,
         cut' \in [Cuts -> Data \cup {None}]
  PROVE  RecoveryTypeOK'
  BY DEF RecoveryTypeOK, ObjectType, RunType, D1Type

(* A series is a function on the first so many numbers. *)
LEMMA SeriesShape ==
  ASSUME NEW n \in Nat, NEW s \in Series(n)
  PROVE  /\ Cardinality(DOMAIN s) \in 0 .. n
         /\ DOMAIN s = 1 .. Cardinality(DOMAIN s)
         /\ s \in [1 .. Cardinality(DOMAIN s) -> Rows]
<1>1. PICK k \in 0 .. n : s \in [1 .. k -> Rows]
  BY DEF Series
<1>2. DOMAIN s = 1 .. k /\ k \in Nat
  BY <1>1
<1>3. Cardinality(1 .. k) = k
  BY <1>2, FS_Interval
<1> QED
  BY <1>1, <1>2, <1>3

LEMMA SeriesGrows ==
  ASSUME NEW n \in Nat, NEW k \in 0 .. n, NEW s \in [1 .. k -> Rows]
  PROVE  s \in Series(n)
  BY DEF Series

LEMMA NothingStaged == \A n \in Nat : <<>> \in Series(n)
<1>1. <<>> \in [1 .. 0 -> Rows]
  OBVIOUS
<1>2. \A n \in Nat : 0 \in 0 .. n
  OBVIOUS
<1> QED
  BY <1>1, <1>2 DEF Series

(* A batch of the application changes rows into rows. *)
LEMMA StampType ==
  ASSUME NEW data \in Data, NEW T, writes \in Rows, writes < MaxWrites
  PROVE  Stamp(data, T) \in Data /\ writes + 1 \in Rows
  BY WritesAssumption DEF Stamp, Data, Rows

------------------------------------------------------------------------------
(* What every step keeps of the moments at which sources were frozen. *)
CutsSettled ==
  /\ \A r \in Runs : run[r].state # "absent" => cut'[r] = cut[r] /\ run'[r].state # "absent"
  /\ ~ d1.serves => cut'[Fence] = cut[Fence] /\ ~ d1'.serves

LEMMA PlansKept ==
  ASSUME CutsSettled, NEW p \in Plans, PlanSound(p)
  PROVE  PlanSound(p)'
  BY DEF CutsSettled, PlanSound, Plans, Cuts

(* A run whose object, state and call did not change, and neither its moment. *)
LEMMA RunKept ==
  ASSUME NEW r \in Runs, RunSound(r),
         run'[r] = run[r], pending'[r] \in {pending[r], None}, run[r].state # "absent" => cut'[r] = cut[r],
         run[r].state = "frozen" => object'[run[r].at] = object[run[r].at]
  PROVE  RunSound(r)'
  BY DEF RunSound

LEMMA ObjectKept ==
  ASSUME CutsSettled, NEW o \in Objects, ObjectSound(o), object'[o] = object[o],
         object[o].active # None => run'[object[o].active] = run[object[o].active]
  PROVE  ObjectSound(o)'
<1>1. object[o].status = "importing" => PlanSound(object[o].plan)'
  BY PlansKept DEF ObjectSound
<1> QED
  BY <1>1 DEF ObjectSound, PlanSound

------------------------------------------------------------------------------
(* The application. *)
LEMMA ExecuteStep ==
  ASSUME RecoveryInv, NEW o \in Objects, Execute(o)
  PROVE  RecoveryInv'
<1>1. RecoveryTypeOK'
  <2>1. PICK T \in (SUBSET Tables) \ {{}} : object' = [object EXCEPT ![o].data = Stamp(object[o].data, T)]
    BY DEF Execute
  <2>2. Stamp(object[o].data, T) \in Data /\ writes + 1 \in Rows
    BY TypeParts, StampType DEF RecoveryInv, Execute, ObjectType
  <2>3. object' \in [Objects -> ObjectType]
    BY <2>1, <2>2, TypeParts DEF RecoveryInv, ObjectType
  <2> QED
    BY <2>2, <2>3, TypeParts, TypePartsNext DEF Execute, RecoveryInv
<1>2. CutsSettled
  BY DEF Execute, CutsSettled
<1>3. ASSUME NEW r \in Runs PROVE RunSound(r)'
  <2>1. run[r].state = "frozen" => run[r].at # o
    BY NamesAssumption DEF RecoveryInv, RunSound, Execute
  <2>2. run[r].state = "frozen" => object'[run[r].at] = object[run[r].at]
    BY <2>1, TypeParts DEF RecoveryInv, RunSound, Execute
  <2> QED
    BY <2>2, RunKept DEF RecoveryInv, Execute
<1>4. ASSUME NEW q \in Objects PROVE ObjectSound(q)'
  <2>1. CASE q = o
    BY <2>1, TypeParts DEF RecoveryInv, Execute, ObjectSound, ObjectType
  <2>2. CASE q # o
    <3>1. object'[q] = object[q]
      BY <2>2, TypeParts DEF RecoveryInv, Execute
    <3> QED
      BY <3>1, <1>2, ObjectKept DEF RecoveryInv, Execute
  <2> QED
    BY <2>1, <2>2
<1>5. TransfersSound'
  BY <1>2, PlansKept, TypeParts DEF RecoveryInv, Execute, TransfersSound, Plans
<1> QED
  BY <1>1, <1>3, <1>4, <1>5 DEF RecoveryInv, Execute, SnapshotSound

------------------------------------------------------------------------------
(* The runs of the operator. *)
LEMMA FreezeStep ==
  ASSUME RecoveryInv, NEW o \in Objects, NEW r \in Runs, Freeze(o, r)
  PROVE  RecoveryInv'
<1>0. /\ run' \in [Runs -> RunType]
      /\ run'[r].at = o /\ run'[r].state = "frozen" /\ run'[r].plan = run[r].plan
      /\ \A s \in Runs \ {r} : run'[s] = run[s]
  BY TypeParts DEF RecoveryInv, Freeze, RunType
<1>1. /\ object' \in [Objects -> ObjectType]
      /\ object'[o].active = r /\ object'[o].status = "ready" /\ object'[o].data = object[o].data
      /\ \A q \in Objects \ {o} : object'[q] = object[q]
  BY TypeParts DEF RecoveryInv, Freeze, ObjectType
<1>2. /\ cut' \in [Cuts -> Data \cup {None}]
      /\ cut'[r] = object[o].data
      /\ \A s \in Cuts \ {r} : cut'[s] = cut[s]
  BY TypeParts DEF RecoveryInv, Freeze, ObjectType, Cuts
<1>3. CutsSettled
  BY <1>0, <1>2, NamesAssumption DEF Freeze, CutsSettled, Cuts, Fence
<1>4. RecoveryTypeOK'
  BY <1>0, <1>1, <1>2, TypeParts, TypePartsNext DEF RecoveryInv, Freeze
<1>5. ASSUME NEW s \in Runs PROVE RunSound(s)'
  <2>1. CASE s = r
    BY <2>1, <1>0, <1>1, <1>2 DEF RecoveryInv, Freeze, RunSound
  <2>2. CASE s # r
    <3>1. run[s].state = "frozen" => run[s].at \in Objects \ {o}
      BY NamesAssumption DEF RecoveryInv, RunSound, Freeze
    <3> QED
      BY <2>2, <3>1, <1>0, <1>1, <1>2, RunKept DEF RecoveryInv, Freeze, Cuts
  <2> QED
    BY <2>1, <2>2
<1>6. ASSUME NEW q \in Objects PROVE ObjectSound(q)'
  <2>1. CASE q = o
    BY <2>1, <1>0, <1>1 DEF ObjectSound
  <2>2. CASE q # o
    <3>1. object[q].active # None => object[q].active \in Runs \ {r}
      BY TypeParts DEF RecoveryInv, ObjectSound, Freeze, ObjectType
    <3> QED
      BY <2>2, <3>1, <1>0, <1>1, <1>3, ObjectKept DEF RecoveryInv
  <2> QED
    BY <2>1, <2>2
<1>7. TransfersSound'
  BY <1>3, PlansKept, TypeParts DEF RecoveryInv, Freeze, TransfersSound, Plans
<1>8. SnapshotSound'
  BY <1>2, NamesAssumption DEF RecoveryInv, Freeze, SnapshotSound, Cuts, Fence
<1> QED
  BY <1>4, <1>5, <1>6, <1>7, <1>8 DEF RecoveryInv

(* A step that only changes what calls carry over an await. *)
LEMMA PendingStep ==
  ASSUME RecoveryInv, NEW r \in Runs, NEW value \in Exports \cup Answers \cup {None},
         pending' = [pending EXCEPT ![r] = value],
         value # None => run[r].state # "absent" /\ (value.kind = "export" => value.data = cut[r]),
         held' \subseteq [index: Tables, rows: Rows],
         UNCHANGED <<object, run, d1, known, backups, writes, cut>>
  PROVE  RecoveryInv'
<1>1. RecoveryTypeOK'
  BY TypeParts, TypePartsNext DEF RecoveryInv
<1>2. CutsSettled
  BY DEF CutsSettled
<1>3. ASSUME NEW s \in Runs PROVE RunSound(s)'
  <2>1. CASE s = r
    BY <2>1, TypeParts DEF RecoveryInv, RunSound
  <2>2. CASE s # r
    BY <2>2, TypeParts, RunKept DEF RecoveryInv
  <2> QED
    BY <2>1, <2>2
<1>4. ASSUME NEW q \in Objects PROVE ObjectSound(q)'
  BY <1>2, ObjectKept DEF RecoveryInv
<1>5. TransfersSound'
  BY <1>2, PlansKept, TypeParts DEF RecoveryInv, TransfersSound, Plans
<1> QED
  BY <1>1, <1>3, <1>4, <1>5 DEF RecoveryInv, SnapshotSound

LEMMA CollectStep ==
  ASSUME RecoveryInv, NEW r \in Runs, Collect(r)
  PROVE  RecoveryInv'
<1>1. DEFINE value == [kind |-> "export", data |-> object[run[r].at].data]
<1>2. run[r].state = "frozen" /\ run[r].at \in Objects /\ object[run[r].at].data = cut[r]
  BY DEF RecoveryInv, Collect, Frozen, RunSound
<1>3. value \in Exports /\ value.data = cut[r]
  BY <1>2, TypeParts DEF RecoveryInv, ObjectType, Exports
<1> QED
  BY <1>2, <1>3, TypeParts, PendingStep DEF RecoveryInv, Collect

LEMMA ReadRowsStep ==
  ASSUME RecoveryInv, NEW r \in Runs, ReadRows(r)
  PROVE  RecoveryInv'
<1>1. PICK t \in Tables :
        pending' = [pending EXCEPT ![r] = [kind |-> "chunk", index |-> t, rows |-> object[run[r].at].data[t]]]
  BY DEF ReadRows
<1>2. run[r].state = "frozen" /\ run[r].at \in Objects
  BY DEF RecoveryInv, ReadRows, Prepared, Frozen, RunSound
<1>3. object[run[r].at].data[t] \in Rows
  BY <1>2, TypeParts DEF RecoveryInv, ObjectType, Data
<1>4. [kind |-> "chunk", index |-> t, rows |-> object[run[r].at].data[t]] \in Answers
  BY <1>3 DEF Answers
<1> QED
  BY <1>1, <1>2, <1>4, TypeParts, PendingStep DEF RecoveryInv, ReadRows

LEMMA AnswerChunkStep ==
  ASSUME RecoveryInv, NEW r \in Runs, AnswerChunk(r)
  PROVE  RecoveryInv'
<1>1. pending[r] \in Answers
  BY TypeParts DEF RecoveryInv, AnswerChunk, Exports, Answers
<1>2. held' \subseteq [index: Tables, rows: Rows]
  BY <1>1, TypeParts DEF RecoveryInv, AnswerChunk, Answers
<1> QED
  BY <1>2, PendingStep DEF AnswerChunk, Settle

LEMMA ExpireStep ==
  ASSUME RecoveryInv, NEW r \in Runs, Expire(r)
  PROVE  RecoveryInv'
<1>1. held' \subseteq [index: Tables, rows: Rows]
  BY TypeParts DEF RecoveryInv, Expire
<1> QED
  BY <1>1, PendingStep DEF Expire, Settle

LEMMA StorePlanStep ==
  ASSUME RecoveryInv, NEW r \in Runs, StorePlan(r)
  PROVE  RecoveryInv'
<1>0. pending[r] \in Exports /\ pending[r].data \in Data /\ pending[r].data = cut[r]
  BY TypeParts DEF RecoveryInv, StorePlan, Exports, Answers, RunSound
<1>1. /\ run' \in [Runs -> RunType]
      /\ run'[r].at = run[r].at /\ run'[r].state = run[r].state /\ run'[r].plan \in {run[r].plan, cut[r]}
      /\ run[r].state # "frozen" => run'[r] = run[r]
      /\ \A s \in Runs \ {r} : run'[s] = run[s]
  <2>1. CASE run' = run
    BY <2>1, TypeParts DEF RecoveryInv
  <2>2. CASE Frozen(r) /\ run' = [run EXCEPT ![r].plan = pending[r].data, ![r].summary = pending[r].data]
    BY <2>2, <1>0, TypeParts DEF RecoveryInv, RunType, Frozen
  <2> QED
    BY <2>1, <2>2 DEF StorePlan
<1>2. /\ pending' \in [Runs -> Exports \cup Answers \cup {None}]
      /\ pending'[r] = None
      /\ \A s \in Runs \ {r} : pending'[s] = pending[s]
  BY TypeParts DEF RecoveryInv, StorePlan, Settle
<1>8. UNCHANGED <<object, d1, held, known, backups, writes, cut>>
  BY DEF StorePlan
<1>3. CutsSettled
  BY <1>1, <1>8 DEF CutsSettled
<1>4. RecoveryTypeOK'
  BY <1>1, <1>2, TypeParts, TypePartsNext DEF RecoveryInv, StorePlan
<1>5. ASSUME NEW s \in Runs PROVE RunSound(s)'
  <2>1. CASE s = r
    BY <2>1, <1>1, <1>2, <1>8 DEF RecoveryInv, RunSound
  <2>2. CASE s # r
    BY <2>2, <1>1, <1>2, RunKept DEF RecoveryInv, StorePlan
  <2> QED
    BY <2>1, <2>2
<1>6. ASSUME NEW q \in Objects PROVE ObjectSound(q)'
  <2>1. object[q].status = "importing" => PlanSound(object[q].plan)'
    BY <1>3, PlansKept DEF RecoveryInv, ObjectSound, StorePlan
  <2>2. \A s \in Runs : run'[s].at = run[s].at /\ run'[s].state = run[s].state
    BY <1>1
  <2>3. object[q].active \in Runs \cup {None}
    BY TypeParts DEF RecoveryInv, ObjectType
  <2> QED
    BY <2>1, <2>2, <2>3, <1>8 DEF RecoveryInv, ObjectSound
<1>7. TransfersSound'
  BY <1>3, PlansKept, TypeParts DEF RecoveryInv, StorePlan, TransfersSound, Plans
<1> QED
  BY <1>4, <1>5, <1>6, <1>7 DEF RecoveryInv, StorePlan, SnapshotSound

(* A step that only makes plans known or bundles, all of them sound. *)
LEMMA TransferStep ==
  ASSUME RecoveryInv, UNCHANGED <<source, held, writes, cut>>,
         known' \subseteq Plans, \A p \in known' : PlanSound(p),
         backups' \subseteq [plan: Plans, rows: Data], \A b \in backups' : PlanSound(b.plan)
  PROVE  RecoveryInv'
<1>1. RecoveryTypeOK'
  BY TypeParts, TypePartsNext DEF RecoveryInv, source
<1>2. CutsSettled
  BY DEF CutsSettled, source
<1>3. ASSUME NEW s \in Runs PROVE RunSound(s)'
  BY RunKept DEF RecoveryInv, source
<1>4. ASSUME NEW q \in Objects PROVE ObjectSound(q)'
  BY <1>2, ObjectKept DEF RecoveryInv, source
<1>5. TransfersSound'
  BY <1>2, PlansKept DEF TransfersSound, Plans
<1> QED
  BY <1>1, <1>3, <1>4, <1>5 DEF RecoveryInv, SnapshotSound, source

LEMMA ReadManifestStep ==
  ASSUME RecoveryInv, NEW r \in Runs, ReadManifest(r)
  PROVE  RecoveryInv'
<1>1. run[r].plan \in Data /\ run[r].plan = cut[r] /\ run[r].state = "frozen"
  BY TypeParts DEF RecoveryInv, ReadManifest, Prepared, Frozen, RunSound, RunType
<1>2. Plan(r, run[r].plan) \in Plans
  BY <1>1 DEF Plan, Plans, Cuts
<1>3. PlanSound(Plan(r, run[r].plan))
  BY <1>1, NamesAssumption DEF Plan, PlanSound, Fence
<1>4. known' \subseteq Plans /\ \A p \in known' : PlanSound(p)
  BY <1>2, <1>3, TypeParts DEF RecoveryInv, ReadManifest, TransfersSound
<1>5. backups' \subseteq [plan: Plans, rows: Data] /\ \A b \in backups' : PlanSound(b.plan)
  BY TypeParts DEF RecoveryInv, ReadManifest, TransfersSound
<1> QED
  BY <1>4, <1>5, TransferStep DEF ReadManifest

LEMMA BackupStep ==
  ASSUME RecoveryInv, Backup
  PROVE  RecoveryInv'
<1>1. PICK plan \in known, rows \in Data : backups' = backups \cup {[plan |-> plan, rows |-> rows]}
  BY DEF Backup
<1>2. plan \in Plans /\ PlanSound(plan)
  BY TypeParts DEF RecoveryInv, TransfersSound
<1>3. [plan |-> plan, rows |-> rows] \in [plan: Plans, rows: Data]
  BY <1>2
<1>4. backups' \subseteq [plan: Plans, rows: Data] /\ \A b \in backups' : PlanSound(b.plan)
  BY <1>1, <1>2, <1>3, TypeParts DEF RecoveryInv, TransfersSound
<1>5. known' \subseteq Plans /\ \A p \in known' : PlanSound(p)
  BY TypeParts DEF RecoveryInv, Backup, TransfersSound
<1> QED
  BY <1>4, <1>5, TransferStep DEF Backup

LEMMA ReleaseStep ==
  ASSUME RecoveryInv, NEW r \in Runs, Release(r)
  PROVE  RecoveryInv'
<1>0. /\ run[r].state = "frozen" /\ run[r].at \in Objects
      /\ object[run[r].at].active = r /\ object[run[r].at].status = "ready"
  BY DEF RecoveryInv, Release, Frozen, RunSound
<1>1. /\ run' \in [Runs -> RunType]
      /\ run'[r].state = "released" /\ run'[r].plan = None
      /\ \A s \in Runs \ {r} : run'[s] = run[s]
  BY TypeParts DEF RecoveryInv, Release, RunType
<1>2. /\ object' \in [Objects -> ObjectType]
      /\ object'[run[r].at].active = None /\ object'[run[r].at].status = "ready"
      /\ \A q \in Objects \ {run[r].at} : object'[q] = object[q]
  BY <1>0, TypeParts DEF RecoveryInv, Release, ObjectType
<1>3. CutsSettled
  BY <1>1 DEF Release, CutsSettled
<1>4. RecoveryTypeOK'
  BY <1>1, <1>2, TypeParts, TypePartsNext DEF RecoveryInv, Release
<1>5. ASSUME NEW s \in Runs PROVE RunSound(s)'
  <2>1. CASE s = r
    BY <2>1, <1>1 DEF RecoveryInv, Release, RunSound
  <2>2. CASE s # r
    <3>1. run[s].state = "frozen" => run[s].at \in Objects \ {run[r].at}
      BY <2>2, <1>0 DEF RecoveryInv, RunSound
    <3> QED
      BY <2>2, <3>1, <1>1, <1>2, RunKept DEF RecoveryInv, Release
  <2> QED
    BY <2>1, <2>2
<1>6. ASSUME NEW q \in Objects PROVE ObjectSound(q)'
  <2>1. CASE q = run[r].at
    BY <2>1, <1>2 DEF ObjectSound
  <2>2. CASE q # run[r].at
    <3>1. object[q].active # None => object[q].active \in Runs \ {r}
      BY <2>2, TypeParts DEF RecoveryInv, ObjectSound, ObjectType
    <3> QED
      BY <2>2, <3>1, <1>1, <1>2, <1>3, ObjectKept DEF RecoveryInv
  <2> QED
    BY <2>1, <2>2
<1>7. TransfersSound'
  BY <1>3, PlansKept, TypeParts DEF RecoveryInv, Release, TransfersSound, Plans
<1> QED
  BY <1>4, <1>5, <1>6, <1>7 DEF RecoveryInv, Release, SnapshotSound

------------------------------------------------------------------------------
(* The importer.  No run is at an object that is not active. *)
LEMMA ImportStep ==
  ASSUME RecoveryInv, NEW o \in Objects, object[o].active = None,
         NEW row \in ObjectType, object' = [object EXCEPT ![o] = row], row.active = None,
         row.status = "empty" => row.staged = <<>>,
         row.status = "importing" =>
           /\ row.plan \in Plans
           /\ PlanSound(row.plan)
           /\ \A t \in DOMAIN row.staged : row.staged[t] = row.plan.data[t],
         UNCHANGED <<run, pending, d1, held, known, backups, writes, cut>>
  PROVE  RecoveryInv'
<1>1. object' \in [Objects -> ObjectType] /\ object'[o] = row /\ \A q \in Objects \ {o} : object'[q] = object[q]
  BY TypeParts DEF RecoveryInv
<1>2. CutsSettled
  BY DEF CutsSettled
<1>3. RecoveryTypeOK'
  BY <1>1, TypeParts, TypePartsNext DEF RecoveryInv
<1>4. ASSUME NEW s \in Runs PROVE RunSound(s)'
  <2>1. run[s].state = "frozen" => run[s].at \in Objects \ {o}
    BY NamesAssumption DEF RecoveryInv, RunSound
  <2> QED
    BY <2>1, <1>1, RunKept DEF RecoveryInv
<1>5. ASSUME NEW q \in Objects PROVE ObjectSound(q)'
  <2>1. CASE q = o
    <3>1. row.status = "importing" => PlanSound(row.plan)'
      BY <1>2, PlansKept
    <3> QED
      BY <2>1, <3>1, <1>1 DEF ObjectSound, PlanSound
  <2>2. CASE q # o
    BY <2>2, <1>1, <1>2, ObjectKept DEF RecoveryInv
  <2> QED
    BY <2>1, <2>2
<1>6. TransfersSound'
  BY <1>2, PlansKept, TypeParts DEF RecoveryInv, TransfersSound, Plans
<1> QED
  BY <1>3, <1>4, <1>5, <1>6 DEF RecoveryInv, SnapshotSound

LEMMA BeginStep ==
  ASSUME RecoveryInv, NEW o \in Objects, Begin(o)
  PROVE  RecoveryInv'
<1>1. PICK b \in backups : object' = [object EXCEPT ![o].status = "importing", ![o].plan = b.plan]
  BY DEF Begin
<1>2. b.plan \in Plans /\ PlanSound(b.plan)
  BY TypeParts DEF RecoveryInv, TransfersSound
<1>3. DEFINE row == [object[o] EXCEPT !.status = "importing", !.plan = b.plan]
<1>4. /\ row \in ObjectType /\ row.status = "importing" /\ row.plan = b.plan
      /\ row.staged = <<>> /\ row.active = None
  <2>1. object[o] \in ObjectType /\ object[o].staged = <<>> /\ object[o].active = None
    BY TypeParts DEF RecoveryInv, Begin, ObjectSound
  <2> QED
    BY <2>1, <1>2 DEF ObjectType
<1>5. object' = [object EXCEPT ![o] = row]
  BY <1>1, TypeParts DEF RecoveryInv, ObjectType
<1>6. DOMAIN row.staged = {}
  BY <1>4
<1> HIDE DEF row
<1> QED
  BY <1>2, <1>4, <1>5, <1>6, ImportStep DEF Begin

LEMMA AppendStep ==
  ASSUME RecoveryInv, NEW o \in Objects, Append(o)
  PROVE  RecoveryInv'
<1>1. PICK rows \in Supplied :
        /\ rows = object[o].plan.data[NextChunk(o)]
        /\ object' = [object EXCEPT ![o].staged =
                        [t \in 1 .. NextChunk(o) |-> IF t = NextChunk(o) THEN rows ELSE object[o].staged[t]]]
  BY DEF Append
<1>2. DEFINE series == [t \in 1 .. NextChunk(o) |-> IF t = NextChunk(o) THEN rows ELSE object[o].staged[t]]
<1>3. /\ object[o].staged \in Series(Chunks)
      /\ object[o].plan \in Plans /\ PlanSound(object[o].plan)
      /\ \A t \in DOMAIN object[o].staged : object[o].staged[t] = object[o].plan.data[t]
      /\ NextChunk(o) \in 1 .. Chunks
  BY TypeParts DEF RecoveryInv, Append, ObjectType, ObjectSound, Tables
<1>4. /\ DOMAIN object[o].staged = 1 .. NextChunk(o) - 1
      /\ object[o].staged \in [1 .. NextChunk(o) - 1 -> Rows]
  BY <1>3, SeriesShape, ChunksAssumption DEF NextChunk
<1>5. rows \in Rows
  BY <1>1, <1>3 DEF Plans, Data, Tables
<1>6. \A t \in 1 .. NextChunk(o) : t = NextChunk(o) \/ t \in 1 .. NextChunk(o) - 1
  BY <1>3
<1>7. series \in [1 .. NextChunk(o) -> Rows]
  BY <1>4, <1>5, <1>6
<1>8. series \in Series(Chunks)
  BY <1>3, <1>7, SeriesGrows, ChunksAssumption
<1>9. \A t \in DOMAIN series : series[t] = object[o].plan.data[t]
  BY <1>1, <1>3, <1>4, <1>6
<1> HIDE DEF series
<1>10. DEFINE row == [object[o] EXCEPT !.staged = series]
<1>11. /\ row \in ObjectType /\ row.status = "importing" /\ row.plan = object[o].plan
       /\ row.staged = series /\ row.active = None
  BY <1>8, TypeParts DEF RecoveryInv, Append, ObjectType
<1>12. object' = [object EXCEPT ![o] = row]
  BY <1>1, TypeParts DEF RecoveryInv, ObjectType, series
<1> HIDE DEF row
<1> QED
  BY <1>3, <1>9, <1>11, <1>12, ImportStep DEF Append

LEMMA SealStep ==
  ASSUME RecoveryInv, NEW o \in Objects, Seal(o)
  PROVE  /\ RecoveryInv'
         /\ object'[o].data = cut[object[o].plan.run]
<1>1. /\ object[o].staged \in Series(Chunks)
      /\ object[o].plan \in Plans /\ PlanSound(object[o].plan)
      /\ \A t \in Tables : object[o].staged[t] = object[o].plan.data[t]
  BY TypeParts DEF RecoveryInv, Seal, ObjectType, ObjectSound
<1>2. object[o].staged \in Data /\ object[o].plan.data \in Data
  BY <1>1, SeriesShape, ChunksAssumption DEF Seal, Data, Plans
<1>3. object[o].staged = object[o].plan.data
  BY <1>1, <1>2 DEF Data
<1>4. <<>> \in Series(Chunks)
  BY NothingStaged, ChunksAssumption
<1>5. DEFINE row == [object[o] EXCEPT !.status = "ready", !.data = object[o].staged, !.staged = <<>>]
<1>6. row \in ObjectType /\ row.status = "ready" /\ row.active = None /\ row.data = object[o].staged
  BY ZenonT(60), <1>2, <1>4, TypeParts DEF RecoveryInv, Seal, ObjectType
<1>7. object' = [object EXCEPT ![o] = row]
  BY TypeParts DEF RecoveryInv, Seal, ObjectType
<1> HIDE DEF row
<1>8. RecoveryInv'
  BY <1>6, <1>7, ImportStep DEF Seal
<1>9. object'[o].data = cut[object[o].plan.run]
  BY <1>1, <1>3, <1>6, <1>7, TypeParts DEF RecoveryInv, PlanSound
<1> QED
  BY <1>8, <1>9

LEMMA AbandonStep ==
  ASSUME RecoveryInv, NEW o \in Objects, Abandon(o)
  PROVE  RecoveryInv'
<1>1. <<>> \in Series(Chunks)
  BY NothingStaged, ChunksAssumption
<1>2. DEFINE row == [object[o] EXCEPT !.status = "failed", !.staged = <<>>]
<1>3. row \in ObjectType /\ row.status = "failed" /\ row.active = None
  BY ZenonT(60), <1>1, TypeParts DEF RecoveryInv, Abandon, ObjectType
<1>4. object' = [object EXCEPT ![o] = row]
  BY TypeParts DEF RecoveryInv, Abandon, ObjectType
<1> HIDE DEF row
<1> QED
  BY <1>3, <1>4, ImportStep DEF Abandon

------------------------------------------------------------------------------
(* The D1 database, when nothing of an object or a run changes. *)
LEMMA D1Step ==
  ASSUME RecoveryInv, UNCHANGED <<object, run, pending, backups>>, CutsSettled, RecoveryTypeOK', SnapshotSound',
         \A p \in known' : p \in known \/ PlanSound(p)'
  PROVE  RecoveryInv'
<1>1. ASSUME NEW s \in Runs PROVE RunSound(s)'
  BY RunKept DEF RecoveryInv, CutsSettled
<1>2. ASSUME NEW q \in Objects PROVE ObjectSound(q)'
  BY ObjectKept DEF RecoveryInv
<1>3. TransfersSound'
  BY PlansKept, TypeParts DEF RecoveryInv, TransfersSound, Plans
<1> QED
  BY <1>1, <1>2, <1>3 DEF RecoveryInv

LEMMA D1WriteStep ==
  ASSUME RecoveryInv, D1Write
  PROVE  RecoveryInv'
<1>1. PICK T \in (SUBSET (Tables \ d1.fenced)) \ {{}} : d1' = [d1 EXCEPT !.data = Stamp(d1.data, T)]
  BY DEF D1Write
<1>2. Stamp(d1.data, T) \in Data /\ writes + 1 \in Rows
  BY TypeParts, StampType DEF RecoveryInv, D1Write, D1Type
<1>3. d1' \in D1Type /\ d1'.serves /\ d1'.reads = d1.reads
  BY <1>1, <1>2, TypeParts DEF RecoveryInv, D1Write, D1Type
<1>4. RecoveryTypeOK'
  BY <1>2, <1>3, TypeParts, TypePartsNext DEF RecoveryInv, D1Write
<1>5. CutsSettled
  BY DEF CutsSettled, D1Write
<1>6. SnapshotSound'
  <2>1. d1.fenced # Tables
    <3>1. T # {} /\ \A t \in T : t \in Tables \ d1.fenced
      BY <1>1, Zenon
    <3>2. PICK t \in T : TRUE
      BY <3>1
    <3> QED
      BY <3>1, <3>2
  <2> QED
    BY <1>3, <2>1 DEF RecoveryInv, SnapshotSound
<1> QED
  BY <1>4, <1>5, <1>6, D1Step DEF D1Write

LEMMA D1FenceStep ==
  ASSUME RecoveryInv, D1Fence
  PROVE  RecoveryInv'
<1>1. PICK t \in Tables \ d1.fenced : d1' = [d1 EXCEPT !.fenced = d1.fenced \cup {t}]
  BY DEF D1Fence
<1>2. d1' \in D1Type /\ d1'.serves = d1.serves /\ d1'.reads = d1.reads
  BY <1>1, TypeParts DEF RecoveryInv, D1Type
<1>3. RecoveryTypeOK'
  BY <1>2, TypeParts, TypePartsNext DEF RecoveryInv, D1Fence
<1>4. CutsSettled
  BY <1>2 DEF CutsSettled, D1Fence
<1>5. SnapshotSound'
  BY <1>1, <1>2 DEF RecoveryInv, SnapshotSound
<1> QED
  BY <1>3, <1>4, <1>5, D1Step DEF D1Fence

LEMMA ExportStartStep ==
  ASSUME RecoveryInv, ExportStart
  PROVE  RecoveryInv'
<1>1. <<>> \in Series(2 * Chunks)
  BY NothingStaged, ChunksAssumption
<1>2. /\ d1' \in D1Type /\ d1'.serves /\ d1'.reads = <<>>
      /\ d1'.data = d1.data /\ d1'.fenced = Tables
  BY <1>1, TypeParts DEF RecoveryInv, ExportStart, D1Type, Verified
<1>3. /\ cut' \in [Cuts -> Data \cup {None}]
      /\ cut'[Fence] = d1.data
      /\ \A r \in Runs : cut'[r] = cut[r]
  BY TypeParts, NamesAssumption DEF RecoveryInv, ExportStart, D1Type, Cuts, Fence
<1>4. RecoveryTypeOK'
  BY <1>2, <1>3, TypeParts, TypePartsNext DEF RecoveryInv, ExportStart
<1>5. CutsSettled
  BY <1>3 DEF CutsSettled, ExportStart
<1>6. SnapshotSound'
  BY <1>2, <1>3 DEF SnapshotSound
<1> QED
  BY <1>4, <1>5, <1>6, D1Step DEF ExportStart

LEMMA ExportReadStep ==
  ASSUME RecoveryInv, ExportRead
  PROVE  RecoveryInv'
<1>1. DEFINE n == Cardinality(DOMAIN d1.reads)
             t == 1 + (n % Chunks)
             series == [i \in 1 .. n + 1 |-> IF i = n + 1 THEN d1.data[t] ELSE d1.reads[i]]
<1>2. d1' = [d1 EXCEPT !.reads = series] /\ d1.reads # None /\ n < 2 * Chunks
  BY DEF ExportRead
<1>3. d1.reads \in Series(2 * Chunks) /\ d1.data \in Data /\ 2 * Chunks \in Nat
  BY <1>2, TypeParts, ChunksAssumption DEF RecoveryInv, D1Type
<1>4. n \in 0 .. 2 * Chunks /\ DOMAIN d1.reads = 1 .. n /\ d1.reads \in [1 .. n -> Rows]
  BY <1>3, SeriesShape
<1> HIDE DEF n
<1>5. t \in Tables /\ (n + 1 \in Tables => t = n + 1)
  BY <1>4, ChunksAssumption DEF Tables
<1>6. series \in [1 .. n + 1 -> Rows]
  BY <1>3, <1>4, <1>5 DEF Data
<1>7. n + 1 \in 0 .. 2 * Chunks
  BY <1>2, <1>4, ChunksAssumption
<1>8. series \in Series(2 * Chunks)
  BY <1>3, <1>6, <1>7, SeriesGrows
<1>9. \A i \in DOMAIN series \cap Tables : series[i] = d1.data[i]
  <2>1. SUFFICES ASSUME NEW i \in 1 .. n + 1, i \in Tables PROVE series[i] = d1.data[i]
    OBVIOUS
  <2>2. CASE i = n + 1
    BY <2>1, <2>2, <1>5
  <2>3. CASE i # n + 1
    BY <2>1, <2>3, <1>2, <1>4 DEF RecoveryInv, SnapshotSound
  <2> QED
    BY <2>2, <2>3
<1> HIDE DEF series, t
<1>10. /\ d1' \in D1Type /\ d1'.serves = d1.serves /\ d1'.reads = series
       /\ d1'.data = d1.data /\ d1'.fenced = d1.fenced
  BY <1>2, <1>8, TypeParts DEF RecoveryInv, D1Type
<1>11. RecoveryTypeOK'
  BY <1>10, TypeParts, TypePartsNext DEF RecoveryInv, ExportRead
<1>12. CutsSettled
  BY <1>10 DEF CutsSettled, ExportRead
<1>13. SnapshotSound'
  BY <1>2, <1>9, <1>10 DEF RecoveryInv, SnapshotSound, ExportRead
<1> QED
  BY <1>11, <1>12, <1>13, D1Step DEF ExportRead

LEMMA ExportEndStep ==
  ASSUME RecoveryInv, ExportEnd
  PROVE  RecoveryInv'
<1>1. PICK rows : rows = [t \in Tables |-> d1.reads[t]]
  OBVIOUS
<1>2. d1.reads \in [1 .. 2 * Chunks -> Rows] /\ Tables \subseteq 1 .. 2 * Chunks
  <2>1. d1.reads \in Series(2 * Chunks) /\ 2 * Chunks \in Nat
    BY TypeParts, ChunksAssumption DEF RecoveryInv, D1Type, ExportEnd
  <2> QED
    BY <2>1, SeriesShape, ChunksAssumption DEF ExportEnd, Tables
<1>3. rows \in Data
  BY <1>1, <1>2 DEF Data
<1>4. rows = d1.data /\ d1.data = cut[Fence]
  <2>1. \A t \in Tables : d1.reads[t] = d1.data[t]
    BY <1>2 DEF RecoveryInv, SnapshotSound, ExportEnd
  <2>2. d1.data \in Data
    BY TypeParts DEF RecoveryInv, D1Type
  <2> QED
    BY <1>1, <2>1, <2>2, <1>3 DEF Data, RecoveryInv, SnapshotSound, ExportEnd
<1>5. known' = known \cup {Plan(Fence, rows)}
  BY <1>1 DEF ExportEnd
<1>6. held' \subseteq [index: Tables, rows: Rows]
  <2>1. held' = held \cup {[index |-> t, rows |-> d1.reads[t]] : t \in Tables}
    BY DEF ExportEnd
  <2>2. \A t \in Tables : d1.reads[t] \in Rows
    BY <1>2
  <2> QED
    BY <2>1, <2>2, TypeParts DEF RecoveryInv
<1>7. d1' \in D1Type /\ ~ d1'.serves /\ d1'.reads = None
  BY TypeParts DEF RecoveryInv, ExportEnd, D1Type
<1>8. Plan(Fence, rows) \in Plans /\ PlanSound(Plan(Fence, rows))'
  <2>1. UNCHANGED cut
    BY DEF ExportEnd
  <2> QED
    BY <1>3, <1>4, <1>7, <2>1 DEF Plan, Plans, Cuts, PlanSound
<1>9. RecoveryTypeOK'
  BY <1>5, <1>6, <1>7, <1>8, TypeParts, TypePartsNext DEF RecoveryInv, ExportEnd
<1>10. CutsSettled
  BY <1>7 DEF CutsSettled, ExportEnd
<1>11. SnapshotSound'
  BY <1>7 DEF SnapshotSound
<1>12. \A p \in known' : p \in known \/ PlanSound(p)'
  BY <1>5, <1>8
<1> QED
  BY <1>9, <1>10, <1>11, <1>12, D1Step DEF ExportEnd

------------------------------------------------------------------------------
LEMMA Begins ==
  ASSUME RecoveryInit
  PROVE  RecoveryInv
<1>1. PICK first \in Objects \cup {"d1"} :
        /\ object = [o \in Objects |-> IF o = first THEN [Empty EXCEPT !.status = "ready"] ELSE Empty]
        /\ d1 = [serves |-> first = "d1", data |-> Fresh, fenced |-> {}, reads |-> None]
  BY DEF RecoveryInit
<1>2. <<>> \in Series(Chunks) /\ Fresh \in Data /\ 0 \in Rows
  BY NothingStaged, ChunksAssumption, WritesAssumption DEF Fresh, Data, Rows
<1>3. Empty \in ObjectType /\ [Empty EXCEPT !.status = "ready"] \in ObjectType
  BY <1>2 DEF Empty, ObjectType
<1>4. object \in [Objects -> ObjectType] /\ \A o \in Objects : object[o].active = None
                                         /\ object[o].status \in {"empty", "ready"} /\ object[o].staged = <<>>
  BY <1>1, <1>3 DEF Empty
<1>5. Absent \in RunType /\ run = [r \in Runs |-> Absent]
  BY DEF Absent, RunType, RecoveryInit
<1>6. d1 \in D1Type /\ d1.reads = None
  BY <1>1, <1>2 DEF D1Type
<1>7. RecoveryTypeOK
  BY <1>2, <1>4, <1>5, <1>6, TypeParts DEF RecoveryInit
<1> QED
  BY <1>4, <1>5, <1>6, <1>7 DEF RecoveryInit, RecoveryInv, RunSound, ObjectSound, TransfersSound, SnapshotSound, Absent

LEMMA Moves ==
  ASSUME RecoveryInv, [RecoveryNext]_recoveryVars
  PROVE  RecoveryInv'
<1>1. CASE \E o \in Objects : Execute(o) \/ Import(o) \/ \E r \in Runs : Freeze(o, r)
  BY <1>1, ExecuteStep, FreezeStep, BeginStep, AppendStep, SealStep, AbandonStep DEF Import
<1>2. CASE \E r \in Runs : Recover(r)
  BY <1>2, CollectStep, StorePlanStep, ReadManifestStep, ReadRowsStep, AnswerChunkStep, ExpireStep,
     ReleaseStep DEF Recover
<1>3. CASE Backup \/ D1Write \/ D1Fence \/ ExportStart \/ ExportRead \/ ExportEnd
  BY <1>3, BackupStep, D1WriteStep, D1FenceStep, ExportStartStep, ExportReadStep, ExportEndStep
<1>4. CASE UNCHANGED recoveryVars
  <2>1. UNCHANGED <<source, held, writes, cut>> /\ UNCHANGED <<known, backups>>
    BY <1>4 DEF recoveryVars
  <2> QED
    BY <2>1, TransferStep, TypeParts DEF RecoveryInv, TransfersSound
<1> QED
  BY <1>1, <1>2, <1>3, <1>4 DEF RecoveryNext

(* What is true of objects, runs, calls under way, what the operator carries *)
(* and the D1 database in every state.                                       *)
THEOREM RecoveryInvariant == RecoverySpec => []RecoveryInv
<1> QED
  BY Begins, Moves, PTL DEF RecoverySpec

(* Every state of the databases and of their recovery is well typed. *)
THEOREM RecoveryTypeCorrect == RecoverySpec => []RecoveryTypeOK
<1>1. RecoveryInv => RecoveryTypeOK
  BY DEF RecoveryInv
<1> QED
  BY <1>1, RecoveryInvariant, PTL

(* A frozen run keeps its object to itself and as it was, for any grants that *)
(* expire between the transactions of a call (recovery.ts).                   *)
THEOREM AlwaysStill == RecoverySpec => []FrozenIsStill
<1>1. RecoveryInv => FrozenIsStill
  BY DEF RecoveryInv, RunSound, FrozenIsStill
<1> QED
  BY <1>1, RecoveryInvariant, PTL

(* What a released run says of its export is final: the second transaction   *)
(* of a call that began before its release looks at the run again.           *)
THEOREM AlwaysFinal == RecoverySpec => ClosedIsFinal
<1>1. ASSUME RecoveryInv, [RecoveryNext]_recoveryVars, NEW r \in Runs, run[r].state = "released"
      PROVE  run'[r] = run[r]
  <2>1. CASE \E o \in Objects : Execute(o) \/ Import(o)
    BY <2>1 DEF Execute, Import, Begin, Append, Seal, Abandon
  <2>2. CASE \E o \in Objects, s \in Runs : Freeze(o, s)
    BY <2>2, <1>1, TypeParts DEF RecoveryInv, Freeze
  <2>3. CASE \E s \in Runs : StorePlan(s) \/ Release(s)
    BY <2>3, <1>1, TypeParts DEF RecoveryInv, StorePlan, Release, Frozen
  <2>4. CASE \E s \in Runs : Collect(s) \/ ReadManifest(s) \/ ReadRows(s) \/ AnswerChunk(s) \/ Expire(s)
    BY <2>4 DEF Collect, ReadManifest, ReadRows, AnswerChunk, Expire, source
  <2>5. CASE Backup \/ D1Write \/ D1Fence \/ ExportStart \/ ExportRead \/ ExportEnd
    BY <2>5 DEF Backup, D1Write, D1Fence, ExportStart, ExportRead, ExportEnd, source
  <2>6. CASE UNCHANGED recoveryVars
    BY <2>6 DEF recoveryVars, source
  <2> QED
    BY <1>1, <2>1, <2>2, <2>3, <2>4, <2>5, <2>6 DEF RecoveryNext, Recover
<1>2. RecoveryInv /\ [RecoveryNext]_recoveryVars => [\A r \in Runs : run[r].state = "released" => run'[r] = run[r]]_recoveryVars
  BY <1>1
<1> QED
  BY <1>2, RecoveryInvariant, PTL DEF RecoverySpec, ClosedIsFinal

(* An object that is activated holds one cut of one source, whatever plans,   *)
(* bundles and chunks of whatever runs the operator mixed up on the way, for  *)
(* the recovery of an object and for the export of D1 behind its fence.       *)
THEOREM AlwaysCut == RecoverySpec => RestoredIsCut
<1>1. ASSUME RecoveryInv, [RecoveryNext]_recoveryVars, NEW o \in Objects, object[o].status # "ready", object'[o].status = "ready"
      PROVE  object'[o].data = cut[object[o].plan.run]
  <2>1. CASE \E q \in Objects : Seal(q)
    <3>1. PICK q \in Objects : Seal(q)
      BY <2>1
    <3>2. q = o
      BY <1>1, <3>1, TypeParts DEF RecoveryInv, Seal
    <3> QED
      BY <1>1, <3>1, <3>2, SealStep
  <2>2. CASE \E q \in Objects : Execute(q) \/ Begin(q) \/ Append(q) \/ Abandon(q) \/ \E r \in Runs : Freeze(q, r)
    <3>1. PICK q \in Objects : Execute(q) \/ Begin(q) \/ Append(q) \/ Abandon(q) \/ \E r \in Runs : Freeze(q, r)
      BY <2>2
    <3>2. object'[o].status = object[o].status \/ object'[o].status \in {"importing", "failed"}
      <4>0. object \in [Objects -> ObjectType]
        BY <1>1, TypeParts DEF RecoveryInv
      <4>1. CASE Execute(q)
        <5>1. PICK data : object' = [object EXCEPT ![q].data = data]
          BY <4>1 DEF Execute
        <5> QED
          BY <4>0, <5>1 DEF ObjectType
      <4>2. CASE Append(q)
        <5>1. PICK staged : object' = [object EXCEPT ![q].staged = staged]
          BY <4>2 DEF Append
        <5> QED
          BY <4>0, <5>1 DEF ObjectType
      <4>3. CASE \E r \in Runs : Freeze(q, r)
        BY <4>0, <4>3 DEF Freeze, ObjectType
      <4>4. CASE Begin(q)
        <5>1. PICK plan : object' = [object EXCEPT ![q].status = "importing", ![q].plan = plan]
          BY <4>4 DEF Begin
        <5> QED
          BY <4>0, <5>1 DEF ObjectType
      <4>5. CASE Abandon(q)
        BY <4>0, <4>5 DEF Abandon, ObjectType
      <4> QED
        BY <3>1, <4>1, <4>2, <4>3, <4>4, <4>5
    <3> QED
      BY <3>2, <1>1
  <2>3. CASE \E r \in Runs : Release(r)
    BY <2>3, <1>1, TypeParts DEF RecoveryInv, Release, ObjectType
  <2>4. CASE \E s \in Runs : Collect(s) \/ ReadManifest(s) \/ ReadRows(s) \/ AnswerChunk(s) \/ Expire(s) \/ StorePlan(s)
    BY <2>4, <1>1 DEF Collect, ReadManifest, ReadRows, AnswerChunk, Expire, StorePlan, source
  <2>5. CASE Backup \/ D1Write \/ D1Fence \/ ExportStart \/ ExportRead \/ ExportEnd
    BY <2>5, <1>1 DEF Backup, D1Write, D1Fence, ExportStart, ExportRead, ExportEnd, source
  <2>6. CASE UNCHANGED recoveryVars
    BY <2>6, <1>1 DEF recoveryVars, source
  <2> QED
    BY <1>1, <2>1, <2>2, <2>3, <2>4, <2>5, <2>6 DEF RecoveryNext, Recover, Import
<1>2. RecoveryInv /\ [RecoveryNext]_recoveryVars =>
        [\A o \in Objects : object[o].status # "ready" /\ object'[o].status = "ready"
           => object'[o].data = cut[object[o].plan.run]]_recoveryVars
  BY <1>1
<1> QED
  BY <1>2, RecoveryInvariant, PTL DEF RecoverySpec, RestoredIsCut
================================================================================
