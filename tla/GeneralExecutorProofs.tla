------------------------- MODULE GeneralExecutorProofs -------------------------
(* Proofs about GeneralExecutor for any calls, passes, faults and limits: it  *)
(* drives both ledgers as they are specified, one operation leaves for the    *)
(* provider once, and neither the journals, nor what a client is told, nor    *)
(* an acknowledged deletion says anything that is not so.                     *)
EXTENDS GeneralExecutor, FiniteSetTheorems, TLAPS

Workers == Calls \cup Passes

(* Where a call stands that holds a ticket, where one does that reserved      *)
(* nothing yet, where the answer to its reservation is known, where nothing   *)
(* has left for the provider, and where its outcome is settled.               *)
Held == {"ticketed", "reserved", "refreshed", "cleared", "sent", "journal", "catch", "recorded",
         "disclosing", "deliver"}
Replays == {"replayAccepted", "replayOther"}
Early == {"start", "authorized", "ticketed"} \cup Replays
Charged == Held \ {"ticketed", "catch"}
Unsent == Early \cup {"reserved", "refreshed", "cleared"}
Settled == {"journal", "catch", "recorded", "disclosing", "deliver", "done", "crashed"}
Disclosed == {"recorded", "disclosing", "deliver"}

DeletePlaces == {"delete", "deleting", "acknowledge", "doubt"}
ClearPlaces == {"retired", "report"} \cup DeletePlaces

Placed ==
  /\ \A c \in Calls : /\ pc[c] # "idle"
                      /\ pc[c] \in Held \cup Replays => c \in Work
                      /\ pc[c] \in ClearPlaces => c \in Clears
  /\ \A p \in Passes : pc[p] \in {"idle"} \cup DeletePlaces

(* What both ledgers keep: the facts of DurableObjectProofs needed here.      *)
SpaceInv ==
  /\ Space!TypeOK
  /\ clock <= MaxClock
  /\ \A o \in DOMAIN operations :
       /\ operations[o].generation \in 1 .. generation
       /\ operations[o].expires \in {Until[a] : a \in Actors} \cup (0 .. Latest)
  /\ IsFiniteSet(DOMAIN retirements)
  /\ Cardinality(DOMAIN retirements) = generation - 1
  /\ generation - 1 <= MaxRetirements
  /\ \A r \in DOMAIN retirements : retirements[r].generation \in 1 .. generation - 1
  /\ \A r, q \in DOMAIN retirements :
       retirements[r].generation = retirements[q].generation => r = q

(* Of all invocations of one operation at most one was ever given its ticket, *)
(* and it keeps it; every reservation was asked for by such a one.            *)
Started(c) == pc[c] \in Held \/ reserved[c] # "no"

OneHolder == \A c, d \in Work : Started(c) /\ Started(d) /\ Id(c) = Id(d) => c = d

ReservedByHolder ==
  \A i \in DOMAIN reservations : \E d \in Work : Id(d) = i /\ reserved[d] # "no"

(* What a row says of the outcome of the invocation that writes it.           *)
Tells(state, c) == state # "admitted" => state = terminal[c] /\ pc[c] \in Settled

Admitted(c) ==
  /\ Id(c) \in DOMAIN operations
  /\ operations[Id(c)].actor = Actor(c) /\ operations[Id(c)].kind = Kind(c)
  /\ Tells(operations[Id(c)].state, c)
Accepted(c) == Id(c) \in DOMAIN operations /\ operations[Id(c)].state = "accepted"
AcceptedBudget(c) == Id(c) \in DOMAIN reservations /\ reservations[Id(c)].state = "accepted"

WorkInv(c) ==
  /\ pc[c] \in Early => reserved[c] = "no"
  /\ pc[c] \in Charged \/ Dispatched(c) \/ outcome[c] = "ok" => reserved[c] = "held"
  /\ pc[c] \in Unsent => ~ Dispatched(c)
  /\ outcome[c] # "none" => pc[c] = "done"
  /\ Started(c) => Admitted(c)
  /\ reserved[c] = "held" => Id(c) \in DOMAIN reservations /\ reservations[Id(c)].kind = Kind(c)
  /\ reserved[c] # "no" /\ Id(c) \in DOMAIN reservations => Tells(reservations[Id(c)].state, c)
  /\ terminal[c] = "not_dispatched" <=> ~ Dispatched(c)
  /\ terminal[c] = "accepted" => egress[c] = "served"
  /\ c \in answers => pc[c] = "sent" /\ egress[c] = "served"
  /\ pc[c] = "journal" =>
       /\ terminal[c] = "accepted"
       /\ failed[c] \/ /\ "space" \in todo[c] \/ Accepted(c)
                       /\ "budget" \in todo[c] \/ AcceptedBudget(c)
  /\ pc[c] \in Disclosed \/ outcome[c] = "ok" => Accepted(c) /\ AcceptedBudget(c)
  /\ pc[c] = "replayAccepted" \/ outcome[c] = "replayed" => Accepted(c)

(* An outcome in the ledger is that of an invocation, however it ended.       *)
OutcomesHappened ==
  \A o \in DOMAIN operations :
    /\ operations[o].state = "accepted" => \E d \in Work : Id(d) = o /\ egress[d] = "served"
    /\ operations[o].state \in {"unknown", "read_failed"} => \E d \in Work : Id(d) = o /\ Dispatched(d)

(* What is on the wire was sent by its caller.                                *)
Wired ==
  \A m \in wire : /\ m.from \in Work => Dispatched(m.from)
                  /\ m.from \in Deleters => m.generation \in 1 .. MaxRetirements

(* A deleter works on retirements of the ledger; an answer it has is about    *)
(* the first of them.                                                         *)
DeletedTarget(d) == retirements[Target(d)].generation \in deleted

DeleterInv(d) ==
  /\ pc[d] \in DeletePlaces => rows[d] \in Seq(DOMAIN retirements) /\ rows[d] # <<>>
  /\ d \in answers => pc[d] = "deleting" /\ DeletedTarget(d)
  /\ pc[d] = "acknowledge" => DeletedTarget(d)

ClearInv(c) ==
  /\ pc[c] \in {"retired"} \cup DeletePlaces => rows[c] = <<Id(c)>>
  /\ pc[c] \in ClearPlaces \/ outcome[c] = "ok" => Id(c) \in DOMAIN retirements
  /\ outcome[c] # "none" => pc[c] = "done"
  /\ ~ cleanup[c] => Acknowledged(Id(c))

AcknowledgedDeleted ==
  \A r \in DOMAIN retirements :
    retirements[r].state = "acknowledged" => retirements[r].generation \in deleted

WorkPart == OneHolder /\ ReservedByHolder /\ OutcomesHappened /\ \A c \in Work : WorkInv(c)
ClearPart ==
  /\ \A d \in Deleters : DeleterInv(d)
  /\ \A c \in Clears : ClearInv(c)
  /\ AcknowledgedDeleted

(* Inductive. *)
IInv == TypeOK /\ Placed /\ SpaceInv /\ Wired /\ WorkPart /\ ClearPart

(* Once stale, never told (StaleNeverTold): what does not come back.          *)
Stale(c) ==
  /\ outcome[c] # "ok"
  /\ \/ pc[c] \in {"done", "crashed"}
     \/ RetiredUnderway(c)
     \/ RevokedUnderway(c)

------------------------------------------------------------------------------
(* The Space's ledger.  DurableObjectProofs has the same for every request;   *)
(* here for the requests of this executor.                                    *)

(* An instance has a cardinality of its own, which is the same.               *)
LEMMA SpaceCardinality == \A S : Space!Cardinality(S) = Cardinality(S)
  BY DEF Space!Cardinality, Cardinality

(* A request of the executor is one the ledger is specified for.              *)
LEMMA SpaceRequests ==
  /\ \A c \in Work : SpaceRequest(c) \in Space!Requests
  /\ \A c \in Clears : SpaceRequest(c) \in Space!RetireRequests
<1>1. ASSUME NEW c \in Calls
      PROVE  Id(c) \in Ids /\ Actor(c) \in Actors /\ CallOf[c].payload \in Payloads
  BY DEF Id, Actor, Ids, Actors, Payloads
<1>2. ASSUME NEW c \in Work PROVE c \in Calls /\ Kind(c) \in Space!Kinds
  BY DEF Work, Kind, Space!Kinds
<1>3. ASSUME NEW c \in Clears PROVE c \in Calls /\ c \notin Work
  BY DEF Clears
<1>4. ASSUME NEW c \in Calls PROVE Until[Actor(c)] \in {Until[a] : a \in Actors}
  BY <1>1
<1>5. ASSUME NEW c \in Work PROVE SpaceRequest(c) \in Space!Requests
  BY <1>1, <1>2, <1>4 DEF SpaceRequest, Space!Requests
<1>6. ASSUME NEW c \in Clears PROVE SpaceRequest(c) \in Space!RetireRequests
  BY <1>1, <1>3, <1>4 DEF SpaceRequest, Space!RetireRequests
<1> QED BY <1>5, <1>6

LEMMA Deadlines ==
  /\ {Until[a] : a \in Actors} \subseteq Nat
  /\ 0 .. Latest \subseteq Nat
  /\ Latest \in Nat
  BY CallsAssumption, LimitsAssumption DEF Latest

LEMMA AdmitNewKeeps ==
  ASSUME SpaceInv, NEW request \in Space!Requests, Space!AdmitNew(request)
  PROVE  /\ SpaceInv'
         /\ request.id \notin DOMAIN operations
         /\ DOMAIN operations' = DOMAIN operations \cup {request.id}
         /\ \A o \in DOMAIN operations : operations'[o] = operations[o]
         /\ operations'[request.id].actor = request.actor
         /\ operations'[request.id].kind = request.kind
         /\ operations'[request.id].generation = generation
         /\ operations'[request.id].state = "admitted"
<1> USE DEF SpaceInv
<1> DEFINE row == [actor |-> request.actor, kind |-> request.kind, payload |-> request.payload,
                   generation |-> generation, state |-> "admitted",
                   expires |-> Space!Earliest(clock + TicketLifetime, request.until),
                   period |-> Space!Month(clock)]
<1>1. /\ request.identity = TheSpace /\ request.actor \in Actors /\ request.id \in Ids
      /\ request.payload \in Payloads /\ request.kind \in Space!Kinds
      /\ request.until \in {Until[a] : a \in Actors} /\ request.until \in Nat
  BY Deadlines DEF Space!Requests
<1>2. clock \in Nat /\ generation \in Nat \ {0} /\ clock + TicketLifetime \in 0 .. Latest
  BY LimitsAssumption DEF Space!TypeOK, Latest
<1>3. Space!Month(clock) \in Nat
  BY <1>2, LimitsAssumption DEF Space!Month
<1>4. row.expires \in {Until[a] : a \in Actors} \cup (0 .. Latest) /\ row.expires \in Nat
  BY <1>1, <1>2, Deadlines DEF Space!Earliest
<1>5. row \in Space!Ticket
  <2> DEFINE expires == Space!Earliest(clock + TicketLifetime, request.until)
             period == Space!Month(clock)
  <2>1. expires \in Nat /\ period \in Nat
    BY <1>3, <1>4
  <2> HIDE DEF expires, period
  <2>2. [actor |-> request.actor, kind |-> request.kind, payload |-> request.payload,
         generation |-> generation, state |-> "admitted", expires |-> expires, period |-> period]
          \in Space!Ticket
    BY <1>1, <1>2, <2>1 DEF Space!Ticket, Space!OperationStates
  <2> QED BY <2>2 DEF expires, period
<1>6. /\ operations' = Space!WithRow(operations, request.id, row) /\ request.id \notin DOMAIN operations
      /\ identity' = TheSpace /\ UNCHANGED <<generation, retirements, cursor, clock>>
  BY <1>1 DEF Space!AdmitNew, Space!Bind
<1>7. /\ row.generation = generation /\ row.actor = request.actor /\ row.kind = request.kind
      /\ row.state = "admitted"
  OBVIOUS
<1> HIDE DEF row
<1>8. /\ DOMAIN operations' = DOMAIN operations \cup {request.id} /\ DOMAIN operations' \subseteq Ids
      /\ operations' \in [DOMAIN operations' -> Space!Ticket]
      /\ operations'[request.id] = row /\ \A o \in DOMAIN operations : operations'[o] = operations[o]
  <2>1. DOMAIN operations \subseteq Ids /\ operations \in [DOMAIN operations -> Space!Ticket]
    BY DEF Space!TypeOK
  <2>2. /\ operations' = [o \in DOMAIN operations \cup {request.id} |-> IF o = request.id THEN row ELSE operations[o]]
        /\ DOMAIN operations' = DOMAIN operations \cup {request.id}
        /\ operations'[request.id] = row /\ \A o \in DOMAIN operations : operations'[o] = operations[o]
    BY <1>6 DEF Space!WithRow
  <2>3. operations' \in [DOMAIN operations \cup {request.id} -> Space!Ticket]
    BY <1>5, <2>1, <2>2
  <2> QED BY <1>1, <2>1, <2>2, <2>3
<1>9. Space!TypeOK'
  BY <1>6, <1>8 DEF Space!TypeOK
<1> QED BY <1>2, <1>4, <1>6, <1>7, <1>8, <1>9

LEMMA FinalizeKeeps ==
  ASSUME SpaceInv, NEW request \in Space!Requests, NEW state \in Space!Terminal, Space!Finalize(request, state)
  PROVE  /\ SpaceInv'
         /\ DOMAIN operations' = DOMAIN operations /\ request.id \in DOMAIN operations
         /\ \A o \in DOMAIN operations \ {request.id} : operations'[o] = operations[o]
         /\ operations'[request.id].state = state
         /\ operations[request.id].state \in {state, "admitted"}
         /\ \A o \in DOMAIN operations :
              /\ operations'[o].actor = operations[o].actor
              /\ operations'[o].kind = operations[o].kind
              /\ operations'[o].generation = operations[o].generation
<1> USE DEF SpaceInv
<1> DEFINE id == request.id
<1>1. /\ operations' = [operations EXCEPT ![id].state = state]
      /\ UNCHANGED <<generation, retirements, cursor, clock>>
      /\ identity' = request.identity /\ request.identity = TheSpace
  BY DEF Space!Finalize, Space!Bind, Space!Requests
<1>2. id \in DOMAIN operations /\ operations[id].state \in {state, "admitted"}
  BY DEF Space!Finalize, Space!FinalizeRejected
<1>3. operations \in [DOMAIN operations -> Space!Ticket] /\ operations[id] \in Space!Ticket
  BY <1>2 DEF Space!TypeOK
<1>4. [operations[id] EXCEPT !.state = state] \in Space!Ticket
  BY <1>3 DEF Space!Ticket, Space!OperationStates
<1>5. /\ operations'[id] = [operations[id] EXCEPT !.state = state]
      /\ \A o \in DOMAIN operations \ {id} : operations'[o] = operations[o]
      /\ DOMAIN operations' = DOMAIN operations
  BY <1>1, <1>2
<1> HIDE DEF id
<1>6. operations' \in [DOMAIN operations -> Space!Ticket]
  BY <1>1, <1>2, <1>3, <1>4
<1>7. /\ operations'[id].state = state
      /\ operations'[id].actor = operations[id].actor /\ operations'[id].kind = operations[id].kind
      /\ operations'[id].generation = operations[id].generation
      /\ operations'[id].expires = operations[id].expires
  BY <1>3, <1>5 DEF Space!Ticket
<1>8. \A o \in DOMAIN operations :
        /\ operations'[o].actor = operations[o].actor /\ operations'[o].kind = operations[o].kind
        /\ operations'[o].generation = operations[o].generation
        /\ operations'[o].expires = operations[o].expires
  BY <1>5, <1>7
<1>9. Space!TypeOK'
  BY <1>1, <1>5, <1>6 DEF Space!TypeOK
<1>10. SpaceInv'
  BY <1>1, <1>5, <1>8, <1>9
<1> QED BY <1>2, <1>5, <1>7, <1>8, <1>10 DEF id

(* A retirement takes the current generation, which no other row has.         *)
LEMMA RetireNewKeeps ==
  ASSUME SpaceInv, NEW request \in Space!RetireRequests, Space!RetireNew(request)
  PROVE  /\ SpaceInv'
         /\ DOMAIN retirements' = DOMAIN retirements \cup {request.id}
         /\ \A r \in DOMAIN retirements : retirements'[r] = retirements[r]
         /\ retirements'[request.id].state = "pending" /\ request.id \notin DOMAIN retirements
<1> USE DEF SpaceInv
<1> DEFINE id == request.id
           row == [actor |-> request.actor, payload |-> request.payload,
                   generation |-> generation, state |-> "pending"]
<1>1. /\ request.identity = TheSpace /\ request.actor \in Actors /\ id \in Ids /\ request.payload \in Payloads
  BY DEF Space!RetireRequests
<1>2. clock \in Nat /\ generation \in Nat \ {0} /\ MaxRetirements \in Nat
  BY LimitsAssumption DEF Space!TypeOK
<1>3. row \in Space!Retirement
  BY <1>1, <1>2 DEF Space!Retirement, Space!RetirementStates
<1>4. /\ retirements' = Space!WithRow(retirements, id, row) /\ id \notin DOMAIN retirements
      /\ identity' = TheSpace /\ generation' = generation + 1 /\ UNCHANGED <<operations, cursor, clock>>
      /\ Cardinality(DOMAIN retirements) < MaxRetirements
  <2>1. Cardinality(DOMAIN retirements) \in Nat
    BY FS_CardinalityType
  <2>2. /\ retirements' = Space!WithRow(retirements, id, row) /\ id \notin DOMAIN retirements
        /\ identity' = TheSpace /\ generation' = generation + 1 /\ UNCHANGED <<operations, cursor, clock>>
    BY <1>1 DEF Space!RetireNew, Space!Bind
  <2>3. ~ (Cardinality(DOMAIN retirements) >= MaxRetirements)
    BY <2>2, SpaceCardinality DEF Space!RetireNew, Space!RetireRejected
  <2> QED BY <1>2, <2>1, <2>2, <2>3
<1>5. row.generation = generation /\ row.state = "pending"
  OBVIOUS
<1> HIDE DEF row, id
<1>6. /\ DOMAIN retirements' = DOMAIN retirements \cup {id} /\ DOMAIN retirements' \subseteq Ids
      /\ retirements' \in [DOMAIN retirements' -> Space!Retirement]
      /\ retirements'[id] = row /\ \A r \in DOMAIN retirements : retirements'[r] = retirements[r]
  <2>1. DOMAIN retirements \subseteq Ids /\ retirements \in [DOMAIN retirements -> Space!Retirement]
    BY DEF Space!TypeOK
  <2>2. /\ retirements' = [r \in DOMAIN retirements \cup {id} |-> IF r = id THEN row ELSE retirements[r]]
        /\ DOMAIN retirements' = DOMAIN retirements \cup {id}
        /\ retirements'[id] = row /\ \A r \in DOMAIN retirements : retirements'[r] = retirements[r]
    BY <1>4 DEF Space!WithRow
  <2>3. retirements' \in [DOMAIN retirements \cup {id} -> Space!Retirement]
    BY <1>3, <2>1, <2>2
  <2> QED BY <1>1, <2>1, <2>2, <2>3
<1>7. Space!TypeOK'
  BY <1>2, <1>4, <1>6 DEF Space!TypeOK
<1>8. /\ IsFiniteSet(DOMAIN retirements')
      /\ Cardinality(DOMAIN retirements') = Cardinality(DOMAIN retirements) + 1
  BY <1>4, <1>6, FS_AddElement
<1>9. /\ Cardinality(DOMAIN retirements') = generation' - 1 /\ generation' - 1 <= MaxRetirements
  BY <1>2, <1>4, <1>8
<1>10. \A r \in DOMAIN retirements' : retirements'[r].generation \in 1 .. generation' - 1
  BY <1>2, <1>4, <1>5, <1>6
<1>11. \A r, q \in DOMAIN retirements' : retirements'[r].generation = retirements'[q].generation => r = q
  <2>1. \A r \in DOMAIN retirements : retirements[r].generation # generation
    BY <1>2
  <2> QED BY <1>4, <1>5, <1>6, <2>1
<1>12. \A o \in DOMAIN operations' : operations'[o].generation \in 1 .. generation'
  BY <1>2, <1>4
<1> QED BY <1>4, <1>5, <1>6, <1>7, <1>8, <1>9, <1>10, <1>11, <1>12 DEF id

LEMMA FinishKeeps ==
  ASSUME SpaceInv, NEW q, NEW state \in {"acknowledged", "unknown"}, Space!FinishRetirement(TheSpace, q, state)
  PROVE  /\ SpaceInv'
         /\ q \in DOMAIN retirements /\ DOMAIN retirements' = DOMAIN retirements
         /\ \A r \in DOMAIN retirements \ {q} : retirements'[r] = retirements[r]
         /\ \A r \in DOMAIN retirements : retirements'[r].generation = retirements[r].generation
         /\ retirements'[q].state = state
         /\ retirements[q].state = "acknowledged" => state = "acknowledged"
<1> USE DEF SpaceInv
<1>1. /\ retirements' = [retirements EXCEPT ![q].state = state]
      /\ UNCHANGED <<generation, operations, cursor, clock>> /\ identity' = TheSpace
      /\ q \in DOMAIN retirements
      /\ retirements[q].state = "acknowledged" => state = "acknowledged"
  BY DEF Space!FinishRetirement, Space!FinishRejected, Space!Bind
<1>2. retirements \in [DOMAIN retirements -> Space!Retirement] /\ retirements[q] \in Space!Retirement
  BY <1>1 DEF Space!TypeOK
<1>3. [retirements[q] EXCEPT !.state = state] \in Space!Retirement
  BY <1>2 DEF Space!Retirement, Space!RetirementStates
<1>4. /\ retirements'[q] = [retirements[q] EXCEPT !.state = state]
      /\ \A r \in DOMAIN retirements \ {q} : retirements'[r] = retirements[r]
      /\ DOMAIN retirements' = DOMAIN retirements
  BY <1>1
<1>5. retirements' \in [DOMAIN retirements -> Space!Retirement]
  BY <1>1, <1>2, <1>3
<1>6. retirements'[q].state = state /\ retirements'[q].generation = retirements[q].generation
  BY <1>2, <1>4 DEF Space!Retirement
<1>7. \A r \in DOMAIN retirements : retirements'[r].generation = retirements[r].generation
  BY <1>4, <1>6
<1>8. Space!TypeOK'
  BY <1>1, <1>4, <1>5 DEF Space!TypeOK
<1>9. SpaceInv'
  BY <1>1, <1>4, <1>7, <1>8
<1> QED BY <1>1, <1>4, <1>6, <1>7, <1>9

------------------------------------------------------------------------------
(* The deployment's budget.                                                   *)

LEMMA BudgetRequests ==
  ASSUME SpaceInv, NEW c \in Work, Id(c) \in DOMAIN operations
  PROVE  BudgetRequest(c) \in Budget!ReserveRequests
<1>1. /\ Id(c) \in Ids /\ Actor(c) \in Actors /\ CallOf[c].payload \in Payloads /\ CallOf[c].bytes \in Sizes
      /\ Kind(c) \in Budget!Kinds /\ (Kind(c) = "memory_search" => CallOf[c].bytes > 0)
  BY CallsAssumption DEF Id, Actor, Ids, Actors, Payloads, Sizes, Work, Kind, Budget!Kinds
<1>2. operations[Id(c)].expires \in {Until[a] : a \in Actors} \cup (0 .. Latest)
  BY DEF SpaceInv
<1>3. Space!Earliest(Until[Actor(c)], operations[Id(c)].expires) \in {Until[a] : a \in Actors} \cup (0 .. Latest)
  BY <1>1, <1>2 DEF Space!Earliest
<1>4. BudgetRequest(c) \in [budget : {TheBudget}, id : Ids, content : Payloads, kind : Budget!Kinds,
                            bytes : Sizes, policy : {Policy},
                            until : {Until[a] : a \in Actors} \cup (0 .. Latest)]
  BY <1>1, <1>3 DEF BudgetRequest
<1>5. BudgetRequest(c).kind = "memory_search" => BudgetRequest(c).bytes > 0
  BY <1>1 DEF BudgetRequest
<1> QED BY <1>4, <1>5 DEF Budget!ReserveRequests

LEMMA ChargeType ==
  ASSUME NEW request \in Budget!ReserveRequests
  PROVE  request.bytes \in Nat /\ Budget!Charge(request) \in Nat
<1>1. /\ request.bytes \in Nat /\ request.policy \in Budget!PolicyType /\ KiB \in Nat \ {0}
  BY CallsAssumption, LimitsAssumption DEF Budget!ReserveRequests, Sizes
<1>2. Budget!KiBs(request.bytes) \in Nat
  BY <1>1 DEF Budget!KiBs
<1>3. /\ Budget!KiBs(request.bytes) * request.policy.ingestPerKiB \in Nat
      /\ Budget!KiBs(request.bytes) * request.policy.searchPerKiB \in Nat
      /\ request.policy.ingestBase \in Nat /\ request.policy.searchBase \in Nat
  BY <1>1, <1>2 DEF Budget!PolicyType
<1> QED BY <1>1, <1>3 DEF Budget!Charge, Budget!Cost

LEMMA ReserveNewKeeps ==
  ASSUME Budget!BudgetTypeOK, NEW request \in Budget!ReserveRequests, Budget!ReserveNew(request)
  PROVE  /\ Budget!BudgetTypeOK'
         /\ request.id \notin DOMAIN reservations
         /\ DOMAIN reservations' = DOMAIN reservations \cup {request.id}
         /\ \A r \in DOMAIN reservations : reservations'[r] = reservations[r]
         /\ reservations'[request.id].kind = request.kind /\ reservations'[request.id].state = "admitted"
<1> DEFINE month == Budget!Month(clock)
           account == Budget!AccountOf(month, request.policy)
           charge == Budget!Charge(request)
           charged == [account EXCEPT !.requests = @ + 1, !.bytes = @ + request.bytes, !.reserved = @ + charge]
           expires == Budget!Expiry(request)
           row == [content |-> request.content, kind |-> request.kind, bytes |-> request.bytes,
                   month |-> month, policy |-> request.policy, reserved |-> charge,
                   expires |-> expires, state |-> "admitted"]
<1>1. /\ request.budget = TheBudget /\ request.id \in Ids /\ request.content \in Payloads
      /\ request.kind \in Budget!Kinds /\ request.policy = Policy /\ request.bytes \in Nat
      /\ request.until \in Nat /\ charge \in Nat
  BY ChargeType, Deadlines DEF Budget!ReserveRequests
<1>2. clock \in Nat /\ month \in Nat /\ Policy \in Budget!PolicyType
  BY LimitsAssumption DEF Budget!BudgetTypeOK, Budget!Month
<1>3. expires \in Nat
  BY <1>1, <1>2, LimitsAssumption DEF Budget!Expiry, Budget!Earliest, Budget!PolicyType
<1>4. /\ months' = Budget!WithRow(months, month, charged)
      /\ reservations' = Budget!WithRow(reservations, request.id, row) /\ request.id \notin DOMAIN reservations
      /\ total' = total + 1 /\ clock' = clock /\ budget' = TheBudget
  BY <1>1 DEF Budget!ReserveNew, Budget!BindBudget
<1>5. account \in Budget!Account
  <2>1. CASE month \in DOMAIN months
    BY <2>1 DEF Budget!AccountOf, Budget!BudgetTypeOK
  <2>2. CASE month \notin DOMAIN months
    BY <1>1, <2>2 DEF Budget!AccountOf, Budget!Account
  <2> QED BY <2>1, <2>2
<1> HIDE DEF account, month, charge, expires
<1>6. charged \in Budget!Account
  <2>1. account.requests + 1 \in Nat /\ account.bytes + request.bytes \in Nat /\ account.reserved + charge \in Nat
    BY <1>1, <1>5 DEF Budget!Account
  <2>2. charged = [account EXCEPT !.requests = account.requests + 1, !.bytes = account.bytes + request.bytes,
                                  !.reserved = account.reserved + charge]
    OBVIOUS
  <2>3. [account EXCEPT !.requests = account.requests + 1, !.bytes = account.bytes + request.bytes,
                        !.reserved = account.reserved + charge] \in Budget!Account
    BY <1>5, <2>1 DEF Budget!Account
  <2> QED BY <2>2, <2>3
<1>7. row \in Budget!Reservation
  BY <1>1, <1>2, <1>3 DEF Budget!Reservation, Budget!ReservationStates
<1>8. row.kind = request.kind /\ row.state = "admitted"
  OBVIOUS
<1> HIDE DEF charged, row
<1>9. /\ reservations' = [r \in DOMAIN reservations \cup {request.id} |->
                            IF r = request.id THEN row ELSE reservations[r]]
      /\ months' = [m \in DOMAIN months \cup {month} |-> IF m = month THEN charged ELSE months[m]]
  BY <1>4 DEF Budget!WithRow
<1>10. /\ DOMAIN reservations \subseteq Ids /\ reservations \in [DOMAIN reservations -> Budget!Reservation]
       /\ DOMAIN months \subseteq Nat /\ months \in [DOMAIN months -> Budget!Account] /\ total \in Nat
  BY DEF Budget!BudgetTypeOK
<1>11. /\ DOMAIN months' \subseteq Nat /\ months' \in [DOMAIN months' -> Budget!Account]
       /\ DOMAIN reservations' \subseteq Ids /\ reservations' \in [DOMAIN reservations' -> Budget!Reservation]
  BY <1>1, <1>2, <1>6, <1>7, <1>9, <1>10
<1>12. Budget!BudgetTypeOK'
  BY <1>2, <1>4, <1>10, <1>11 DEF Budget!BudgetTypeOK
<1> QED BY <1>4, <1>8, <1>9, <1>12

LEMMA BudgetFinalizeKeeps ==
  ASSUME Budget!BudgetTypeOK, NEW r \in Ids, NEW state \in Budget!Terminal,
         Budget!FinalizeNew(TheBudget, r, state) \/ Budget!FinalizeReplay(TheBudget, r, state)
  PROVE  /\ Budget!BudgetTypeOK'
         /\ r \in DOMAIN reservations /\ DOMAIN reservations' = DOMAIN reservations
         /\ \A q \in DOMAIN reservations \ {r} : reservations'[q] = reservations[q]
         /\ reservations'[r].state = state /\ reservations[r].state \in {state, "admitted"}
         /\ reservations'[r].kind = reservations[r].kind
<1>1. r \in DOMAIN reservations /\ reservations[r].state \in {state, "admitted"}
  BY DEF Budget!FinalizeNew, Budget!FinalizeReplay, Budget!OutcomeRejected
<1>2. reservations \in [DOMAIN reservations -> Budget!Reservation] /\ reservations[r] \in Budget!Reservation
  BY <1>1 DEF Budget!BudgetTypeOK
<1>3. CASE Budget!FinalizeReplay(TheBudget, r, state)
  BY <1>1, <1>2, <1>3 DEF Budget!FinalizeReplay, Budget!BindBudget, Budget!BudgetTypeOK
<1>4. CASE Budget!FinalizeNew(TheBudget, r, state)
  <2>1. [reservations[r] EXCEPT !.state = state] \in Budget!Reservation
    BY <1>2 DEF Budget!Reservation, Budget!ReservationStates
  <2>2. reservations' = [reservations EXCEPT ![r].state = state] /\ total' = total /\ clock' = clock
        /\ budget' = TheBudget
    BY <1>4 DEF Budget!FinalizeNew, Budget!BindBudget
  <2>3. /\ reservations'[r] = [reservations[r] EXCEPT !.state = state]
        /\ DOMAIN reservations' = DOMAIN reservations
        /\ \A q \in DOMAIN reservations \ {r} : reservations'[q] = reservations[q]
    BY <1>1, <1>2, <2>2
  <2>4. reservations' \in [DOMAIN reservations -> Budget!Reservation]
    BY <1>1, <1>2, <2>1, <2>2
  <2>5. reservations'[r].state = state /\ reservations'[r].kind = reservations[r].kind
    BY <1>2, <2>3 DEF Budget!Reservation
  <2>6. DOMAIN months' = DOMAIN months /\ months' \in [DOMAIN months -> Budget!Account]
    <3> DEFINE m == reservations[r].month
               counted == [months[m].outcomes EXCEPT ![state] = @ + 1]
    <3>1. months' = [months EXCEPT ![m] = [months[m] EXCEPT !.outcomes = counted]]
      BY <1>4 DEF Budget!FinalizeNew
    <3>2. ASSUME m \in DOMAIN months PROVE [months[m] EXCEPT !.outcomes = counted] \in Budget!Account
      <4>1. months[m] \in Budget!Account
        BY <3>2 DEF Budget!BudgetTypeOK
      <4>2. months[m].outcomes \in [Budget!Terminal -> Nat]
        BY <4>1 DEF Budget!Account
      <4>3. counted \in [Budget!Terminal -> Nat]
        BY <4>2
      <4> HIDE DEF counted
      <4> QED BY <4>1, <4>3 DEF Budget!Account
    <3> HIDE DEF counted, m
    <3> QED BY <3>1, <3>2 DEF Budget!BudgetTypeOK
  <2>7. Budget!BudgetTypeOK'
    BY <2>2, <2>3, <2>4, <2>6 DEF Budget!BudgetTypeOK
  <2> QED BY <1>1, <2>3, <2>5, <2>7
<1> QED BY <1>3, <1>4

------------------------------------------------------------------------------
(* A page of open retirements: their positions behind the cursor are those of *)
(* a sequence without a gap, so that each place of the page has a row.        *)
Position(r) == Space!Cardinality(Space!Ahead(r))

LEMMA OpenFinite ==
  ASSUME SpaceInv
  PROVE  /\ Space!Open \subseteq DOMAIN retirements /\ IsFiniteSet(Space!Open)
         /\ \A r \in Space!Open :
              /\ Space!Ahead(r) \subseteq Space!Open \ {r}
              /\ IsFiniteSet(Space!Ahead(r)) /\ Position(r) \in Nat
         /\ \A q, r \in Space!Open : q # r => q \in Space!Ahead(r) \/ r \in Space!Ahead(q)
<1>1. Space!Open \subseteq DOMAIN retirements
  BY DEF Space!Open
<1>2. IsFiniteSet(Space!Open)
  BY <1>1, FS_Subset DEF SpaceInv
<1>3. \A r \in Space!Open : retirements[r].generation \in 1 .. generation - 1
  BY <1>1 DEF SpaceInv
<1>4. generation \in Nat /\ cursor \in Nat
  BY DEF SpaceInv, Space!TypeOK
<1>5. ASSUME NEW q \in Space!Open, NEW r \in Space!Open, Space!WrapRank(q) = Space!WrapRank(r)
      PROVE  q = r
  <2>1. retirements[q].generation = retirements[r].generation
    BY <1>3, <1>4, <1>5 DEF Space!WrapRank
  <2> QED BY <1>1, <2>1 DEF SpaceInv
<1>6. \A r \in Space!Open : Space!WrapRank(r) \in Nat
  BY <1>3, <1>4 DEF Space!WrapRank
<1>7. ASSUME NEW r \in Space!Open
      PROVE  /\ Space!Ahead(r) \subseteq Space!Open \ {r}
             /\ IsFiniteSet(Space!Ahead(r)) /\ Position(r) \in Nat
  <2>1. Space!Ahead(r) \subseteq Space!Open \ {r}
    BY <1>6 DEF Space!Ahead
  <2>2. IsFiniteSet(Space!Ahead(r))
    BY <1>2, <2>1, FS_Subset
  <2> QED BY <2>1, <2>2, FS_CardinalityType, SpaceCardinality DEF Position
<1>8. \A q, r \in Space!Open : q # r => q \in Space!Ahead(r) \/ r \in Space!Ahead(q)
  BY <1>5, <1>6 DEF Space!Ahead
<1> QED BY <1>1, <1>2, <1>7, <1>8

(* What is ahead has a smaller position. *)
LEMMA AheadIsBefore ==
  ASSUME SpaceInv, NEW r \in Space!Open, NEW q \in Space!Ahead(r)
  PROVE  q \in Space!Open /\ Space!Ahead(q) \subseteq Space!Ahead(r) /\ Position(q) < Position(r)
<1>1. q \in Space!Open /\ IsFiniteSet(Space!Ahead(q)) /\ IsFiniteSet(Space!Ahead(r))
      /\ q \notin Space!Ahead(q)
  BY OpenFinite
<1>2. \A s \in Space!Open : Space!WrapRank(s) \in Nat
  BY OpenFinite DEF SpaceInv, Space!TypeOK, Space!WrapRank
<1>3. Space!Ahead(q) \cup {q} \subseteq Space!Ahead(r)
  BY <1>1, <1>2 DEF Space!Ahead
<1>4. Cardinality(Space!Ahead(q) \cup {q}) = Cardinality(Space!Ahead(q)) + 1
  BY <1>1, FS_AddElement
<1>5. Cardinality(Space!Ahead(q) \cup {q}) <= Cardinality(Space!Ahead(r))
  BY <1>1, <1>3, FS_Subset
<1>6. Cardinality(Space!Ahead(q)) < Cardinality(Space!Ahead(r))
  BY <1>1, <1>4, <1>5, FS_CardinalityType
<1> QED BY <1>1, <1>3, <1>6, SpaceCardinality DEF Position

(* Some of the open ones with all that is ahead of them fill the positions.   *)
LEMMA PositionsFill ==
  ASSUME SpaceInv, NEW T \in SUBSET Space!Open, \A r \in T : Space!Ahead(r) \subseteq T
  PROVE  /\ IsFiniteSet(T) /\ Cardinality(T) \in Nat
         /\ \A i \in 0 .. Cardinality(T) - 1 : \E r \in T : Position(r) = i
<1> DEFINE n == Cardinality(T)
           f == [r \in T |-> Position(r)]
<1>1. IsFiniteSet(T) /\ n \in Nat
  BY OpenFinite, FS_Subset, FS_CardinalityType
<1>2. ASSUME NEW r \in T PROVE Position(r) \in 0 .. n - 1
  <2>1. r \in Space!Open /\ Space!Ahead(r) \subseteq T \ {r} /\ Position(r) \in Nat
    BY OpenFinite
  <2>2. IsFiniteSet(T \ {r}) /\ Cardinality(T \ {r}) = n - 1
    BY <1>1, FS_RemoveElement
  <2>3. Cardinality(Space!Ahead(r)) <= n - 1
    BY <2>1, <2>2, FS_Subset
  <2> QED BY <1>1, <2>1, <2>3, SpaceCardinality DEF Position
<1>3. ASSUME NEW q \in T, NEW r \in T, Position(q) = Position(r) PROVE q = r
  <2>1. Position(q) \in Nat /\ Position(r) \in Nat
    BY <1>1, <1>2
  <2> QED BY <1>3, <2>1, OpenFinite, AheadIsBefore
<1>4. f \in Injection(T, 0 .. n - 1)
  BY <1>2, <1>3 DEF Injection, IsInjective
<1>5. IsFiniteSet(0 .. n - 1) /\ Cardinality(0 .. n - 1) = n
  BY <1>1, FS_Interval
<1> HIDE DEF n
<1>6. f \in Surjection(T, 0 .. n - 1)
  <2> HIDE DEF f
  <2>1. Cardinality(T) = Cardinality(0 .. n - 1)
    BY <1>5 DEF n
  <2> QED BY <1>4, <1>5, <2>1, FS_Injection
<1>7. \A i \in 0 .. n - 1 : \E r \in T : Position(r) = i
  BY <1>6 DEF Surjection
<1> QED BY <1>1, <1>7 DEF n

LEMMA PageOfRows ==
  ASSUME SpaceInv
  PROVE  /\ Space!PendingRows(PageSize) \in Seq(DOMAIN retirements)
         /\ Space!Open # {} => Space!PendingRows(PageSize) # <<>>
<1> DEFINE S == Space!Selected(PageSize)
           n == Cardinality(S)
<1>1. /\ S \subseteq Space!Open /\ Space!Open \subseteq DOMAIN retirements
      /\ \A r \in S : Position(r) < PageSize
      /\ \A r \in Space!Open : Position(r) < PageSize => r \in S
  BY OpenFinite DEF Space!Selected, Position
<1>2. ASSUME NEW r \in S, NEW q \in Space!Ahead(r) PROVE q \in S
  <2>1. r \in Space!Open /\ Position(r) < PageSize /\ PageSize \in Nat
    BY <1>1, CallsAssumption
  <2>2. q \in Space!Open /\ Position(q) < Position(r)
    BY <2>1, AheadIsBefore
  <2>3. Position(q) \in Nat /\ Position(r) \in Nat
    BY <2>1, <2>2, OpenFinite
  <2> QED BY <1>1, <2>1, <2>2, <2>3
<1>3. n \in Nat /\ IsFiniteSet(S) /\ \A i \in 0 .. n - 1 : \E r \in S : Position(r) = i
  BY <1>1, <1>2, PositionsFill
<1>4. Space!PendingRows(PageSize) = [i \in 1 .. n |-> CHOOSE r \in S : Position(r) = i - 1]
  BY SpaceCardinality DEF Space!PendingRows, Position
<1> HIDE DEF S
<1>5. ASSUME NEW i \in 1 .. n PROVE (CHOOSE r \in S : Position(r) = i - 1) \in DOMAIN retirements
  <2>1. i - 1 \in 0 .. n - 1
    BY <1>3
  <2>2. \E r \in S : Position(r) = i - 1
    BY <1>3, <2>1
  <2> QED BY <1>1, <2>2
<1>6. Space!PendingRows(PageSize) \in Seq(DOMAIN retirements)
  BY <1>3, <1>4, <1>5
<1>7. ASSUME Space!Open # {} PROVE n # 0
  <2> DEFINE N == Cardinality(Space!Open)
  <2>1. N \in Nat /\ \A i \in 0 .. N - 1 : \E r \in Space!Open : Position(r) = i
    BY OpenFinite, PositionsFill
  <2>2. N # 0
    BY <1>7, OpenFinite, FS_EmptySet
  <2>3. 0 \in 0 .. N - 1
    BY <2>1, <2>2
  <2>4. PICK r \in Space!Open : Position(r) = 0
    BY <2>1, <2>3
  <2>5. Position(r) < PageSize
    BY <2>4, CallsAssumption
  <2>6. r \in S
    BY <1>1, <2>4, <2>5
  <2> QED BY <1>3, <2>6, FS_EmptySet
<1>8. ASSUME n # 0 PROVE Space!PendingRows(PageSize) # <<>>
  <2>1. DOMAIN Space!PendingRows(PageSize) = 1 .. n /\ 1 \in 1 .. n
    BY <1>3, <1>4, <1>8
  <2>2. DOMAIN << >> = {}
    OBVIOUS
  <2> QED BY <2>1, <2>2
<1> QED BY <1>6, <1>7, <1>8

------------------------------------------------------------------------------
(* A step is that of one invocation, pass or request, and leaves what belongs *)
(* to the others as it is.                                                    *)
SameCall(c) ==
  /\ reserved'[c] = reserved[c] /\ terminal'[c] = terminal[c] /\ todo'[c] = todo[c]
  /\ failed'[c] = failed[c] /\ outcome'[c] = outcome[c] /\ cleanup'[c] = cleanup[c]
  /\ egress'[c] = egress[c]

Same(v) ==
  /\ pc'[v] = pc[v] /\ rows'[v] = rows[v] /\ (v \in answers' <=> v \in answers)
  /\ v \in Calls => SameCall(v)

Alone(w) == \A v \in Workers \ {w} : Same(v)

(* The part of TypeOK that is not about a ledger.                             *)
Local ==
  /\ access \in [Actors -> BOOLEAN]
  /\ pc \in [Workers -> Places]
  /\ reserved \in [Calls -> {"no", "lost", "held"}]
  /\ terminal \in [Calls -> Space!Terminal]
  /\ todo \in [Calls -> SUBSET {"space", "budget"}]
  /\ failed \in [Calls -> BOOLEAN]
  /\ rows \in [Workers -> Seq(Ids)]
  /\ cleanup \in [Calls -> BOOLEAN]
  /\ outcome \in [Calls -> {"none", "ok", "replayed", "error"}]
  /\ wire \subseteq Messages
  /\ answers \subseteq Workers
  /\ profile \in [1 .. MaxRetirements + 1 -> SUBSET Ids]
  /\ deleted \subseteq 1 .. MaxRetirements
  /\ egress \in [Calls -> {"none", "sent", "served"}]

LEMMA CallFrame ==
  ASSUME IInv, NEW c \in Calls, CallStep(c)
  PROVE  Local' /\ Alone(c)
<1>1. Local
  BY DEF IInv, TypeOK, Local, Workers
<1>2. c \in Workers /\ Id(c) \in Ids /\ <<Id(c)>> \in Seq(Ids)
  BY DEF Workers, Ids, Id
<1>3. CASE Authorize(c)
  BY ZenonT(60), <1>1, <1>2, <1>3 DEF Authorize, GoTo, Tell, Catch, Local, Places, Alone, Same, SameCall, callVars, deleteVars, providerVars
<1>4. CASE AdmitFirst(c)
  BY ZenonT(60), <1>1, <1>2, <1>4 DEF AdmitFirst, GoTo, Tell, Catch, Local, Places, Alone, Same, SameCall, callVars, deleteVars, providerVars
<1>5. CASE AdmitAgain(c)
  BY <1>1, <1>2, <1>5 DEF AdmitAgain, GoTo, Tell, Catch, Local, Places, Alone, Same, SameCall, callVars, deleteVars, providerVars
<1>6. CASE AdmitRefused(c)
  BY <1>1, <1>2, <1>6 DEF AdmitRefused, GoTo, Tell, Catch, Local, Places, Alone, Same, SameCall, callVars, deleteVars, providerVars
<1>7. CASE Replay(c)
  BY <1>1, <1>2, <1>7 DEF Replay, GoTo, Tell, Catch, Local, Places, Alone, Same, SameCall, callVars, deleteVars, providerVars
<1>8. CASE Reserve(c)
  <2>1. CASE GoTo(c, "reserved") /\ UNCHANGED <<todo, failed>>
    BY <1>1, <1>2, <2>1, <1>8 DEF Reserve, GoTo, Catch, Local, Places, Alone, Same, SameCall, deleteVars, providerVars
  <2>2. CASE Catch(c, TRUE)
    BY <1>1, <1>2, <2>2, <1>8 DEF Reserve, GoTo, Catch, Local, Places, Alone, Same, SameCall, deleteVars, providerVars
  <2> QED BY <2>1, <2>2, <1>8 DEF Reserve
<1>9. CASE ReserveRefused(c)
  BY <1>1, <1>2, <1>9 DEF ReserveRefused, GoTo, Tell, Catch, Local, Places, Alone, Same, SameCall, callVars, deleteVars, providerVars
<1>10. CASE Refresh(c)
  BY <1>1, <1>2, <1>10 DEF Refresh, GoTo, Tell, Catch, Local, Places, Alone, Same, SameCall, callVars, deleteVars, providerVars
<1>11. CASE CheckDispatch(c)
  BY <1>1, <1>2, <1>11 DEF CheckDispatch, GoTo, Tell, Catch, Local, Places, Alone, Same, SameCall, callVars, deleteVars, providerVars
<1>12. CASE Send(c)
  <2>1. [from |-> c, generation |-> operations[Id(c)].generation] \in Messages
    <3>1. c \in Work /\ Started(c)
      BY <1>12 DEF Send, IInv, Placed, Started, Held
    <3>2. Id(c) \in DOMAIN operations
      BY <3>1 DEF IInv, WorkPart, WorkInv, Admitted
    <3>3. operations[Id(c)].generation \in 1 .. generation /\ generation - 1 <= MaxRetirements
          /\ generation \in Nat /\ MaxRetirements \in Nat
      BY <3>2, LimitsAssumption DEF IInv, SpaceInv, Space!TypeOK
    <3> QED BY <3>3 DEF Messages
  <2>2. Local'
    BY <1>1, <1>2, <2>1, <1>12 DEF Send, GoTo, Local, Places, deleteVars, Space!Terminal
  <2>3. Alone(c)
    BY <1>1, <1>2, <1>12 DEF Send, GoTo, Local, Alone, Same, SameCall, deleteVars
  <2> QED BY <2>2, <2>3
<1>13. CASE GiveUp(c)
  BY <1>1, <1>2, <1>13 DEF GiveUp, GoTo, Tell, Catch, Local, Places, Alone, Same, SameCall, callVars, deleteVars, providerVars
<1>14. CASE Answered(c)
  <2>1. Local'
    BY <1>1, <1>2, <1>14 DEF Answered, GoTo, Local, Places, deleteVars, Space!Terminal
  <2>2. Alone(c)
    BY <1>1, <1>2, <1>14 DEF Answered, GoTo, Local, Alone, Same, SameCall, deleteVars
  <2> QED BY <2>1, <2>2
<1>15. CASE NotAnswered(c)
  BY <1>1, <1>2, <1>15 DEF NotAnswered, GoTo, Tell, Catch, Local, Places, Alone, Same, SameCall, callVars, deleteVars, providerVars
<1>16. CASE JournalSpace(c)
  <2>1. todo' \in [Calls -> SUBSET {"space", "budget"}] /\ failed' \in [Calls -> BOOLEAN]
        /\ UNCHANGED <<access, pc, reserved, terminal, outcome, deleteVars, providerVars>>
    BY <1>1, <1>2, <1>16 DEF JournalSpace, Written, Rejected, Local
  <2>2. \A v \in Calls \ {c} : todo'[v] = todo[v] /\ failed'[v] = failed[v]
    BY <1>1, <1>2, <1>16 DEF JournalSpace, Written, Rejected, Local
  <2>3. Local'
    BY <1>1, <2>1 DEF Local, deleteVars, providerVars
  <2> QED BY <2>1, <2>2, <2>3 DEF Alone, Same, SameCall, deleteVars, providerVars
<1>17. CASE JournalBudget(c)
  <2>1. todo' \in [Calls -> SUBSET {"space", "budget"}] /\ failed' \in [Calls -> BOOLEAN]
        /\ UNCHANGED <<access, pc, reserved, terminal, outcome, deleteVars, providerVars>>
    BY <1>1, <1>2, <1>17 DEF JournalBudget, Written, Rejected, Local
  <2>2. \A v \in Calls \ {c} : todo'[v] = todo[v] /\ failed'[v] = failed[v]
    BY <1>1, <1>2, <1>17 DEF JournalBudget, Written, Rejected, Local
  <2>3. Local'
    BY <1>1, <2>1 DEF Local, deleteVars, providerVars
  <2> QED BY <2>1, <2>2, <2>3 DEF Alone, Same, SameCall, deleteVars, providerVars
<1>18. CASE JournalRefused(c)
  <2>1. PICK journal \in todo[c] : Written(c, journal)
    BY <1>18 DEF JournalRefused
  <2>2. todo' \in [Calls -> SUBSET {"space", "budget"}] /\ failed' \in [Calls -> BOOLEAN]
        /\ UNCHANGED <<access, pc, reserved, terminal, outcome, deleteVars, providerVars>>
    BY <1>1, <1>2, <2>1, <1>18 DEF JournalRefused, Written, Rejected, Local
  <2>3. \A v \in Calls \ {c} : todo'[v] = todo[v] /\ failed'[v] = failed[v]
    BY <1>1, <1>2, <2>1, <1>18 DEF JournalRefused, Written, Rejected, Local
  <2>4. Local'
    BY <1>1, <2>2 DEF Local, deleteVars, providerVars
  <2> QED BY <2>2, <2>3, <2>4 DEF Alone, Same, SameCall, deleteVars, providerVars
<1>19. CASE Journaled(c)
  <2>1. CASE GoTo(c, "recorded") /\ UNCHANGED <<todo, failed, outcome>>
    BY <1>1, <1>2, <2>1, <1>19 DEF Journaled, GoTo, Local, Places, Alone, Same, SameCall, deleteVars, providerVars
  <2>2. CASE Catch(c, TRUE) /\ UNCHANGED outcome
    BY <1>1, <1>2, <2>2, <1>19 DEF Journaled, GoTo, Catch, Local, Places, Alone, Same, SameCall, deleteVars, providerVars
  <2>3. CASE Tell(c, "error") /\ UNCHANGED <<todo, failed>>
    BY <1>1, <1>2, <2>3, <1>19 DEF Journaled, GoTo, Tell, Local, Places, Alone, Same, SameCall, deleteVars, providerVars
  <2> QED BY <2>1, <2>2, <2>3, <1>19 DEF Journaled, Catch
<1>20. CASE RefreshDisclose(c)
  BY <1>1, <1>2, <1>20 DEF RefreshDisclose, GoTo, Tell, Catch, Local, Places, Alone, Same, SameCall, callVars, deleteVars, providerVars
<1>21. CASE CheckDisclose(c)
  BY <1>1, <1>2, <1>21 DEF CheckDisclose, GoTo, Tell, Catch, Local, Places, Alone, Same, SameCall, callVars, deleteVars, providerVars
<1>22. CASE Deliver(c)
  BY <1>1, <1>2, <1>22 DEF Deliver, GoTo, Tell, Catch, Local, Places, Alone, Same, SameCall, callVars, deleteVars, providerVars
<1>23. CASE Withhold(c)
  BY <1>1, <1>2, <1>23 DEF Withhold, GoTo, Tell, Catch, Local, Places, Alone, Same, SameCall, callVars, deleteVars, providerVars
<1>24. CASE Retire(c)
  <2>1. CASE GoTo(c, "retired") /\ rows' = [rows EXCEPT ![c] = <<Id(c)>>] /\ UNCHANGED outcome
    BY <1>1, <1>2, <2>1, <1>24 DEF Retire, GoTo, Local, Places, Alone, Same, SameCall, providerVars
  <2>2. CASE Tell(c, "error") /\ UNCHANGED rows
    BY <1>1, <1>2, <2>2, <1>24 DEF Retire, GoTo, Tell, Local, Places, Alone, Same, SameCall, providerVars
  <2> QED BY <2>1, <2>2, <1>24 DEF Retire
<1>25. CASE RetireAgain(c)
  BY <1>1, <1>2, <1>25 DEF RetireAgain, GoTo, Tell, Catch, Local, Places, Alone, Same, SameCall, callVars, deleteVars, providerVars
<1>26. CASE RetireRefused(c)
  BY <1>1, <1>2, <1>26 DEF RetireRefused, GoTo, Tell, Catch, Local, Places, Alone, Same, SameCall, callVars, deleteVars, providerVars
<1>27. CASE RefreshClear(c)
  <2>1. CASE GoTo(c, "delete") /\ UNCHANGED rows
    BY <1>1, <1>2, <2>1, <1>27 DEF RefreshClear, GoTo, Local, Places, Alone, Same, SameCall, callVars, providerVars
  <2>2. CASE GoTo(c, "report") /\ rows' = [rows EXCEPT ![c] = <<>>]
    <3>1. <<>> \in Seq(Ids)
      OBVIOUS
    <3> QED BY <1>1, <1>2, <2>2, <3>1, <1>27 DEF RefreshClear, GoTo, Local, Places, Alone, Same, SameCall, callVars, providerVars
  <2> QED BY <2>1, <2>2, <1>27 DEF RefreshClear
<1>28. CASE Report(c)
  BY <1>1, <1>2, <1>28 DEF Report, GoTo, Tell, Catch, Local, Places, Alone, Same, SameCall, callVars, deleteVars, providerVars
<1> QED BY <1>3, <1>4, <1>5, <1>6, <1>7, <1>8, <1>9, <1>10, <1>11, <1>12, <1>13, <1>14, <1>15, <1>16, <1>17, <1>18, <1>19, <1>20, <1>21, <1>22, <1>23, <1>24, <1>25, <1>26, <1>27, <1>28 DEF CallStep, Admission, Dispatching, Journaling, Disclosing, Clearing

(* The row a deleter is at. *)
LEMMA TargetRow ==
  ASSUME IInv, NEW d \in Deleters, pc[d] \in DeletePlaces
  PROVE  /\ d \in Workers /\ Target(d) \in DOMAIN retirements /\ Target(d) \in Ids
         /\ retirements[Target(d)].generation \in 1 .. MaxRetirements
         /\ Tail(rows[d]) \in Seq(DOMAIN retirements) /\ Tail(rows[d]) \in Seq(Ids)
<1>1. rows[d] \in Seq(DOMAIN retirements) /\ rows[d] # <<>>
  BY DEF IInv, ClearPart, DeleterInv
<1>2. Target(d) \in DOMAIN retirements /\ Tail(rows[d]) \in Seq(DOMAIN retirements)
  <2> DEFINE S == DOMAIN retirements
  <2> HIDE DEF S
  <2>1. rows[d] \in Seq(S)
    BY <1>1 DEF S
  <2>2. Head(rows[d]) \in S /\ Tail(rows[d]) \in Seq(S)
    BY <1>1, <2>1
  <2> QED BY <2>2 DEF S, Target
<1>3. DOMAIN retirements \subseteq Ids /\ generation \in Nat
  BY DEF IInv, SpaceInv, Space!TypeOK
<1>4. retirements[Target(d)].generation \in 1 .. MaxRetirements
  BY <1>2, <1>3, LimitsAssumption DEF IInv, SpaceInv
<1>5. Tail(rows[d]) \in Seq(Ids)
  <2>1. d \in Workers
    BY DEF Workers, Deleters, Clears
  <2>2. rows[d] \in Seq(Ids)
    BY <2>1 DEF IInv, TypeOK, Workers
  <2> QED BY <1>1, <2>2
<1> QED BY <1>2, <1>3, <1>4, <1>5 DEF Workers, Deleters, Clears

LEMMA NextRowFrame ==
  ASSUME IInv, NEW d \in Deleters, pc[d] \in DeletePlaces, NextRow(d)
  PROVE  /\ pc' \in [Workers -> Places] /\ rows' \in [Workers -> Seq(Ids)]
         /\ \A v \in Workers \ {d} : pc'[v] = pc[v] /\ rows'[v] = rows[v]
         /\ rows'[d] = Tail(rows[d])
         /\ pc'[d] = IF Tail(rows[d]) # <<>> THEN "delete" ELSE IF d \in Passes THEN "idle" ELSE "report"
<1>1. d \in Workers /\ Tail(rows[d]) \in Seq(Ids)
  BY TargetRow
<1>2. pc \in [Workers -> Places] /\ rows \in [Workers -> Seq(Ids)]
  BY DEF IInv, TypeOK, Workers
<1> DEFINE place == IF Tail(rows[d]) # <<>> THEN "delete" ELSE IF d \in Passes THEN "idle" ELSE "report"
<1>3. place \in Places
  BY DEF Places
<1>4. pc' = [pc EXCEPT ![d] = place] /\ rows' = [rows EXCEPT ![d] = Tail(rows[d])]
  BY DEF NextRow, GoTo
<1> HIDE DEF place
<1>5. pc' \in [Workers -> Places] /\ pc'[d] = place /\ \A v \in Workers \ {d} : pc'[v] = pc[v]
  BY <1>1, <1>2, <1>3, <1>4
<1>6. rows' \in [Workers -> Seq(Ids)] /\ rows'[d] = Tail(rows[d]) /\ \A v \in Workers \ {d} : rows'[v] = rows[v]
  BY <1>1, <1>2, <1>4
<1> QED BY <1>5, <1>6 DEF place

LEMMA DeleteFrame ==
  ASSUME IInv, NEW d \in Deleters, Deleting(d)
  PROVE  Local' /\ Alone(d) /\ pc[d] \in DeletePlaces
<1>1. Local
  BY DEF IInv, TypeOK, Local, Workers
<1>2. pc[d] \in DeletePlaces
  BY DEF Deleting, SendDelete, DeleteAnswered, DeleteFailed, Acknowledge, AcknowledgeRefused, Doubt,
         DoubtRefused, DeletePlaces
<1>3. d \in Workers
  BY <1>2, TargetRow
<1>4. CASE SendDelete(d)
  <2>1. DeleteRequest(d) \in Messages
    <3>1. retirements[Target(d)].generation \in 1 .. MaxRetirements + 1
      BY <1>2, TargetRow, LimitsAssumption
    <3> QED BY <1>3, <3>1 DEF DeleteRequest, Messages, Workers
  <2> QED BY <1>1, <1>2, <1>3, <1>4, <2>1
        DEF SendDelete, GoTo, Local, Places, Alone, Same, SameCall, callVars, deleteVars
<1>5. CASE DeleteAnswered(d)
  BY <1>1, <1>2, <1>3, <1>5 DEF DeleteAnswered, GoTo, Local, Places, Alone, Same, SameCall, callVars, deleteVars
<1>6. CASE DeleteFailed(d)
  BY <1>1, <1>2, <1>3, <1>6
     DEF DeleteFailed, GoTo, Local, Places, Alone, Same, SameCall, callVars, deleteVars, providerVars
<1>7. CASE Acknowledge(d)
  <2>1. UNCHANGED <<access, callVars, providerVars>>
    BY <1>7 DEF Acknowledge
  <2>2. CASE NextRow(d) /\ cleanup' = IF d \in Clears THEN [cleanup EXCEPT ![d] = FALSE] ELSE cleanup
    <3>1. cleanup' \in [Calls -> BOOLEAN] /\ \A c \in Calls \ {d} : cleanup'[c] = cleanup[c]
      BY <1>1, <2>2 DEF Local, Clears
    <3>2. /\ pc' \in [Workers -> Places] /\ rows' \in [Workers -> Seq(Ids)]
          /\ \A v \in Workers \ {d} : pc'[v] = pc[v] /\ rows'[v] = rows[v]
      BY <1>2, <2>2, NextRowFrame
    <3> QED BY <1>1, <1>2, <2>1, <3>1, <3>2 DEF Local, Alone, Same, SameCall, callVars, providerVars
  <2>3. CASE GoTo(d, "doubt") /\ UNCHANGED deleteVars
    BY <1>1, <1>2, <1>3, <2>1, <2>3
       DEF GoTo, Local, Places, Alone, Same, SameCall, callVars, deleteVars, providerVars
  <2> QED BY <1>7, <2>2, <2>3 DEF Acknowledge
<1>8. CASE AcknowledgeRefused(d)
  BY <1>1, <1>2, <1>3, <1>8
     DEF AcknowledgeRefused, GoTo, Local, Places, Alone, Same, SameCall, callVars, deleteVars, providerVars
<1>9. CASE Doubt(d) \/ DoubtRefused(d)
  <2>1. NextRow(d) /\ UNCHANGED <<access, callVars, cleanup, providerVars>>
    BY <1>9 DEF Doubt, DoubtRefused
  <2>2. /\ pc' \in [Workers -> Places] /\ rows' \in [Workers -> Seq(Ids)]
        /\ \A v \in Workers \ {d} : pc'[v] = pc[v] /\ rows'[v] = rows[v]
    BY <1>2, <2>1, NextRowFrame
  <2> QED BY <1>1, <1>2, <2>1, <2>2 DEF Local, Alone, Same, SameCall, callVars, providerVars
<1> QED BY <1>2, <1>4, <1>5, <1>6, <1>7, <1>8, <1>9 DEF Deleting

LEMMA PassFrame ==
  ASSUME IInv, NEW p \in Passes, FetchPending(p)
  PROVE  Local' /\ Alone(p)
<1>1. Local
  BY DEF IInv, TypeOK, Local, Workers
<1>2. p \in Workers
  BY DEF Workers
<1>3. Space!PendingRows(PageSize) \in Seq(Ids)
  <2>1. DOMAIN retirements \subseteq Ids
    BY DEF IInv, SpaceInv, Space!TypeOK
  <2> QED BY <2>1, PageOfRows DEF IInv
<1>4. UNCHANGED <<access, callVars, cleanup, providerVars>>
  BY DEF FetchPending
<1>5. CASE UNCHANGED <<rows, pc>>
  BY <1>1, <1>4, <1>5 DEF Local, Alone, Same, SameCall, callVars, providerVars
<1>6. CASE /\ rows' = [rows EXCEPT ![p] = Space!PendingRows(PageSize)]
           /\ GoTo(p, IF Space!Open = {} THEN "idle" ELSE "delete")
  BY <1>1, <1>2, <1>3, <1>4, <1>6
     DEF GoTo, Local, Places, Alone, Same, SameCall, callVars, providerVars
<1> QED BY <1>5, <1>6 DEF FetchPending

LEMMA ServeFrame ==
  ASSUME IInv, NEW m \in wire, HandleWork(m) \/ HandleDelete(m)
  PROVE  Local' /\ Alone(m.from) /\ m.from \in Workers /\ m.generation \in 1 .. MaxRetirements + 1
<1>1. Local
  BY DEF IInv, TypeOK, Local, Workers
<1>2. m.from \in Workers /\ m.generation \in 1 .. MaxRetirements + 1
  BY <1>1 DEF Local, Messages, Workers
<1>3. CASE HandleWork(m)
  <2>1. m.from \in Calls /\ Id(m.from) \in Ids
    BY <1>3 DEF HandleWork, Work, Id, Ids
  <2>2. profile' \in [1 .. MaxRetirements + 1 -> SUBSET Ids]
    BY <1>1, <1>2, <1>3, <2>1 DEF HandleWork, Local
  <2>3. UNCHANGED <<access, pc, callVars, deleteVars, deleted>> /\ wire' \subseteq wire
        /\ answers' \subseteq Workers /\ \A v \in Workers \ {m.from} : v \in answers' <=> v \in answers
    BY <1>1, <1>2, <1>3 DEF HandleWork, Local
  <2>4. egress' \in [Calls -> {"none", "sent", "served"}]
        /\ \A c \in Calls \ {m.from} : egress'[c] = egress[c]
    BY <1>1, <1>3, <2>1 DEF HandleWork, Local
  <2> QED BY <1>1, <1>2, <2>2, <2>3, <2>4 DEF Local, Alone, Same, SameCall, callVars, deleteVars
<1>4. CASE HandleDelete(m)
  <2>1. profile' \in [1 .. MaxRetirements + 1 -> SUBSET Ids]
    BY <1>1, <1>2, <1>4 DEF HandleDelete, Local
  <2>2. UNCHANGED <<access, pc, callVars, deleteVars, egress>> /\ wire' \subseteq wire
        /\ answers' \subseteq Workers /\ \A v \in Workers \ {m.from} : v \in answers' <=> v \in answers
    BY <1>1, <1>2, <1>4 DEF HandleDelete, Local
  <2>3. deleted' \subseteq 1 .. MaxRetirements
    BY <1>1, <1>4 DEF HandleDelete, Local, IInv, Wired
  <2> QED BY <1>1, <1>2, <2>1, <2>2, <2>3 DEF Local, Alone, Same, SameCall, callVars, deleteVars
<1> QED BY <1>2, <1>3, <1>4

LEMMA CrashFrame ==
  ASSUME IInv, NEW w \in Workers, Crash(w)
  PROVE  Local' /\ Alone(w)
<1>1. Local
  BY DEF IInv, TypeOK, Local, Workers
<1>2. <<>> \in Seq(Ids)
  OBVIOUS
<1> QED BY <1>1, <1>2 DEF Crash, GoTo, Local, Places, Alone, Same, SameCall, callVars

LEMMA OtherFrame ==
  ASSUME IInv, Tick \/ UNCHANGED vars \/ \E a \in Actors : Revoke(a)
  PROVE  Local' /\ \A v \in Workers : Same(v)
<1>1. Local
  BY DEF IInv, TypeOK, Local, Workers
<1>2. access' \in [Actors -> BOOLEAN]
  BY <1>1 DEF Tick, Revoke, vars, Local
<1>3. UNCHANGED <<pc, callVars, deleteVars, providerVars>>
  BY DEF Tick, Revoke, vars, callVars, deleteVars, providerVars
<1> QED BY <1>1, <1>2, <1>3 DEF Local, Same, SameCall, callVars, deleteVars, providerVars

------------------------------------------------------------------------------
(* Both ledgers in a step: what neither of them ever loses, and that only the *)
(* row of the invocation that moves can be new or get an outcome.             *)
Kept ==
  /\ \A o \in DOMAIN operations :
       /\ o \in DOMAIN operations'
       /\ operations'[o].actor = operations[o].actor /\ operations'[o].kind = operations[o].kind
       /\ operations'[o].generation = operations[o].generation
       /\ operations[o].state # "admitted" => operations'[o].state = operations[o].state
  /\ \A r \in DOMAIN reservations :
       /\ r \in DOMAIN reservations' /\ reservations'[r].kind = reservations[r].kind
       /\ reservations[r].state # "admitted" => reservations'[r].state = reservations[r].state
  /\ \A r \in DOMAIN retirements :
       /\ r \in DOMAIN retirements' /\ retirements'[r].generation = retirements[r].generation
       /\ retirements[r].state = "acknowledged" => retirements'[r].state = "acknowledged"
  /\ generation <= generation'

Touched(w) ==
  /\ \A o \in DOMAIN operations' :
       \/ o \in DOMAIN operations /\ operations'[o].state = operations[o].state
       \/ o \notin DOMAIN operations /\ operations'[o].state = "admitted" /\ w \in Work /\ o = Id(w)
       \/ o \in DOMAIN operations /\ w \in Work /\ o = Id(w) /\ pc[w] \in {"journal", "catch"}
            /\ operations'[o].state = terminal[w]
  /\ \A r \in DOMAIN reservations' :
       \/ r \in DOMAIN reservations /\ reservations'[r].state = reservations[r].state
       \/ r \notin DOMAIN reservations /\ reservations'[r].state = "admitted" /\ w \in Work /\ r = Id(w)
            /\ pc[w] = "ticketed"
       \/ r \in DOMAIN reservations /\ w \in Work /\ r = Id(w) /\ pc[w] \in {"journal", "catch"}

Ledgers(w) ==
  /\ SpaceInv' /\ Budget!BudgetTypeOK'
  /\ [Space!Next]_(Space!vars) /\ [Budget!BudgetNext]_(Budget!budgetState)
  /\ Kept /\ Touched(w)

LEMMA QuietLedgers ==
  ASSUME IInv, UNCHANGED <<generation, operations, retirements, reservations, clock>>,
         cursor' \in Nat, identity' \in {identity, TheSpace},
         [Space!Next]_(Space!vars), UNCHANGED budgetVars, NEW w
  PROVE  Ledgers(w)
<1>1. SpaceInv'
  BY DEF IInv, SpaceInv, Space!TypeOK
<1>2. Budget!BudgetTypeOK' /\ [Budget!BudgetNext]_(Budget!budgetState)
  BY DEF IInv, TypeOK, Budget!BudgetTypeOK, budgetVars, Budget!budgetState
<1>3. generation \in Nat
  BY DEF IInv, SpaceInv, Space!TypeOK
<1> QED BY <1>1, <1>2, <1>3 DEF Ledgers, Kept, Touched

LEMMA StillLedgers ==
  ASSUME IInv, UNCHANGED <<spaceVars, budgetVars, clock>>, NEW w
  PROVE  Ledgers(w)
<1>1. cursor' \in Nat /\ UNCHANGED Space!vars
  BY DEF IInv, SpaceInv, Space!TypeOK, spaceVars, Space!vars
<1> QED BY <1>1, QuietLedgers DEF spaceVars, budgetVars

(* A call of the Space's ledger that only reads. *)
LEMMA ReadLedgers ==
  ASSUME IInv, UNCHANGED budgetVars, NEW c \in Calls,
         \/ c \in Work /\ Space!AdmitReplay(SpaceRequest(c))
         \/ c \in Work /\ Space!Check(SpaceRequest(c), "dispatch")
         \/ c \in Work /\ Space!Check(SpaceRequest(c), "disclose")
         \/ c \in Clears /\ Space!RetireReplay(SpaceRequest(c))
  PROVE  Ledgers(c)
<1>1. SpaceRequest(c).identity = TheSpace
  BY DEF SpaceRequest
<1>2. UNCHANGED <<generation, operations, retirements, cursor, clock>> /\ identity' = TheSpace
  BY <1>1 DEF Space!AdmitReplay, Space!Check, Space!RetireReplay, Space!Bind
<1>3. Space!Next
  BY SpaceRequests DEF Space!Next, Space!Call, Space!Retire
<1>4. cursor' \in Nat
  BY <1>2 DEF IInv, SpaceInv, Space!TypeOK
<1> QED BY <1>2, <1>3, <1>4, QuietLedgers DEF budgetVars

LEMMA PendingLedgers ==
  ASSUME IInv, UNCHANGED budgetVars, Space!Pending(TheSpace, PageSize), NEW w
  PROVE  Ledgers(w)
<1>1. Space!Next
  BY DEF Space!Next, Space!Maintain
<1>2. UNCHANGED <<generation, operations, retirements, clock>> /\ identity' = TheSpace
  BY DEF Space!Pending, Space!Bind
<1>3. cursor' \in Nat
  <2>1. CASE Space!Open = {} /\ cursor' = cursor
    BY <2>1 DEF IInv, SpaceInv, Space!TypeOK
  <2>2. ASSUME NEW r \in Space!Selected(PageSize), cursor' = retirements[r].generation PROVE cursor' \in Nat
    <3>1. r \in DOMAIN retirements
      BY DEF Space!Selected, Space!Open
    <3> QED BY <2>2, <3>1 DEF IInv, SpaceInv, Space!TypeOK
  <2> QED BY <2>1, <2>2 DEF Space!Pending
<1> QED BY <1>1, <1>2, <1>3, QuietLedgers DEF budgetVars

LEMMA AdmitLedgers ==
  ASSUME IInv, UNCHANGED budgetVars, NEW c \in Work, Space!AdmitNew(SpaceRequest(c))
  PROVE  /\ Ledgers(c)
         /\ Id(c) \notin DOMAIN operations /\ Id(c) \in DOMAIN operations'
         /\ operations'[Id(c)].actor = Actor(c) /\ operations'[Id(c)].kind = Kind(c)
         /\ operations'[Id(c)].state = "admitted"
<1> DEFINE request == SpaceRequest(c)
<1>1. request \in Space!Requests
  BY SpaceRequests
<1>2. request.id = Id(c) /\ request.actor = Actor(c) /\ request.kind = Kind(c)
  BY DEF SpaceRequest
<1>3. Space!Next
  BY <1>1 DEF Space!Next, Space!Call
<1>4. UNCHANGED <<generation, retirements, clock>>
  BY DEF Space!AdmitNew
<1>5. UNCHANGED reservations /\ Budget!BudgetTypeOK' /\ [Budget!BudgetNext]_(Budget!budgetState)
  BY <1>4 DEF IInv, TypeOK, Budget!BudgetTypeOK, budgetVars, Budget!budgetState
<1>6. SpaceInv /\ generation \in Nat
  BY DEF IInv, SpaceInv, Space!TypeOK
<1> HIDE DEF request
<1>7. /\ SpaceInv' /\ Id(c) \notin DOMAIN operations
      /\ DOMAIN operations' = DOMAIN operations \cup {Id(c)}
      /\ \A o \in DOMAIN operations : operations'[o] = operations[o]
      /\ operations'[Id(c)].actor = Actor(c)
      /\ operations'[Id(c)].kind = Kind(c)
      /\ operations'[Id(c)].state = "admitted"
  BY <1>1, <1>2, <1>6, AdmitNewKeeps DEF request
<1>8. Kept
  BY <1>4, <1>5, <1>6, <1>7 DEF Kept
<1>9. Touched(c)
  BY <1>5, <1>7 DEF Touched
<1> QED BY <1>3, <1>5, <1>7, <1>8, <1>9 DEF Ledgers

LEMMA JournalSpaceLedgers ==
  ASSUME IInv, UNCHANGED budgetVars, NEW c \in Work, pc[c] \in {"journal", "catch"},
         Space!Finalize(SpaceRequest(c), terminal[c])
  PROVE  /\ Ledgers(c)
         /\ DOMAIN operations' = DOMAIN operations /\ Id(c) \in DOMAIN operations
         /\ operations'[Id(c)].state = terminal[c]
<1> DEFINE request == SpaceRequest(c)
<1>1. request \in Space!Requests /\ terminal[c] \in Space!Terminal
  BY SpaceRequests DEF IInv, TypeOK, Work
<1>2. request.id = Id(c)
  BY DEF SpaceRequest
<1>3. Space!Next
  BY <1>1 DEF Space!Next, Space!Call
<1>4. UNCHANGED <<generation, retirements, clock>>
  BY DEF Space!Finalize
<1>5. UNCHANGED reservations /\ Budget!BudgetTypeOK' /\ [Budget!BudgetNext]_(Budget!budgetState)
  BY <1>4 DEF IInv, TypeOK, Budget!BudgetTypeOK, budgetVars, Budget!budgetState
<1>6. SpaceInv /\ generation \in Nat
  BY DEF IInv, SpaceInv, Space!TypeOK
<1> HIDE DEF request
<1>7. /\ SpaceInv'
      /\ DOMAIN operations' = DOMAIN operations /\ Id(c) \in DOMAIN operations
      /\ \A o \in DOMAIN operations \ {Id(c)} : operations'[o] = operations[o]
      /\ operations'[Id(c)].state = terminal[c]
      /\ operations[Id(c)].state \in {terminal[c], "admitted"}
      /\ \A o \in DOMAIN operations :
           /\ operations'[o].actor = operations[o].actor
           /\ operations'[o].kind = operations[o].kind
           /\ operations'[o].generation = operations[o].generation
  BY <1>1, <1>2, <1>6, FinalizeKeeps DEF request
<1>8. Kept
  BY <1>4, <1>5, <1>6, <1>7 DEF Kept
<1>9. Touched(c)
  BY <1>5, <1>7 DEF Touched
<1> QED BY <1>3, <1>5, <1>7, <1>8, <1>9 DEF Ledgers

LEMMA RetireLedgers ==
  ASSUME IInv, UNCHANGED budgetVars, NEW c \in Clears, Space!RetireNew(SpaceRequest(c))
  PROVE  /\ Ledgers(c)
         /\ Id(c) \notin DOMAIN retirements /\ DOMAIN retirements' = DOMAIN retirements \cup {Id(c)}
         /\ \A r \in DOMAIN retirements : retirements'[r] = retirements[r]
         /\ retirements'[Id(c)].state = "pending"
<1> DEFINE request == SpaceRequest(c)
<1>1. request \in Space!RetireRequests /\ request.id = Id(c)
  BY SpaceRequests DEF SpaceRequest
<1>2. Space!Next
  BY <1>1 DEF Space!Next, Space!Retire
<1>3. UNCHANGED <<operations, clock>> /\ generation' = generation + 1
  BY DEF Space!RetireNew
<1>4. UNCHANGED reservations /\ Budget!BudgetTypeOK' /\ [Budget!BudgetNext]_(Budget!budgetState)
  BY <1>3 DEF IInv, TypeOK, Budget!BudgetTypeOK, budgetVars, Budget!budgetState
<1>5. SpaceInv /\ generation \in Nat
  BY DEF IInv, SpaceInv, Space!TypeOK
<1> HIDE DEF request
<1>6. /\ SpaceInv'
      /\ DOMAIN retirements' = DOMAIN retirements \cup {Id(c)}
      /\ \A r \in DOMAIN retirements : retirements'[r] = retirements[r]
      /\ retirements'[Id(c)].state = "pending" /\ Id(c) \notin DOMAIN retirements
  BY <1>1, <1>5, RetireNewKeeps DEF request
<1>7. Kept
  BY <1>3, <1>4, <1>5, <1>6 DEF Kept
<1>8. Touched(c)
  BY <1>3, <1>4 DEF Touched
<1> QED BY <1>2, <1>4, <1>6, <1>7, <1>8 DEF Ledgers

LEMMA FinishLedgers ==
  ASSUME IInv, UNCHANGED budgetVars, NEW r \in Ids, NEW state \in {"acknowledged", "unknown"}, NEW w,
         Space!FinishRetirement(TheSpace, r, state)
  PROVE  /\ Ledgers(w)
         /\ r \in DOMAIN retirements /\ DOMAIN retirements' = DOMAIN retirements
         /\ \A q \in DOMAIN retirements \ {r} : retirements'[q] = retirements[q]
         /\ retirements'[r].state = state
<1>1. Space!Next
  BY DEF Space!Next, Space!Maintain
<1>2. UNCHANGED <<operations, clock, generation>>
  BY DEF Space!FinishRetirement
<1>3. UNCHANGED reservations /\ Budget!BudgetTypeOK' /\ [Budget!BudgetNext]_(Budget!budgetState)
  BY <1>2 DEF IInv, TypeOK, Budget!BudgetTypeOK, budgetVars, Budget!budgetState
<1>4. SpaceInv /\ generation \in Nat
  BY DEF IInv, SpaceInv, Space!TypeOK
<1>5. /\ SpaceInv'
      /\ r \in DOMAIN retirements /\ DOMAIN retirements' = DOMAIN retirements
      /\ \A q \in DOMAIN retirements \ {r} : retirements'[q] = retirements[q]
      /\ \A q \in DOMAIN retirements : retirements'[q].generation = retirements[q].generation
      /\ retirements'[r].state = state
      /\ retirements[r].state = "acknowledged" => state = "acknowledged"
  BY <1>4, FinishKeeps
<1>6. Kept
  BY <1>2, <1>3, <1>4, <1>5 DEF Kept
<1>7. Touched(w)
  BY <1>2, <1>3 DEF Touched
<1> QED BY <1>1, <1>3, <1>5, <1>6, <1>7 DEF Ledgers

LEMMA ReserveLedgers ==
  ASSUME IInv, UNCHANGED spaceVars, NEW c \in Work, pc[c] = "ticketed",
         Id(c) \in DOMAIN operations, Budget!ReserveNew(BudgetRequest(c))
  PROVE  /\ Ledgers(c)
         /\ Id(c) \notin DOMAIN reservations /\ DOMAIN reservations' = DOMAIN reservations \cup {Id(c)}
         /\ reservations'[Id(c)].kind = Kind(c) /\ reservations'[Id(c)].state = "admitted"
<1> DEFINE request == BudgetRequest(c)
<1>1. request \in Budget!ReserveRequests
  BY BudgetRequests DEF IInv
<1>2. request.id = Id(c) /\ request.kind = Kind(c)
  BY DEF BudgetRequest
<1>3. Budget!BudgetNext
  BY <1>1 DEF Budget!BudgetNext
<1>4. UNCHANGED clock
  BY DEF Budget!ReserveNew
<1>5. SpaceInv' /\ UNCHANGED Space!vars
  BY <1>4 DEF IInv, SpaceInv, Space!TypeOK, spaceVars, Space!vars
<1>6. Budget!BudgetTypeOK /\ generation \in Nat
  BY DEF IInv, TypeOK, SpaceInv, Space!TypeOK
<1> HIDE DEF request
<1>7. /\ Budget!BudgetTypeOK' /\ Id(c) \notin DOMAIN reservations
      /\ DOMAIN reservations' = DOMAIN reservations \cup {Id(c)}
      /\ \A r \in DOMAIN reservations : reservations'[r] = reservations[r]
      /\ reservations'[Id(c)].kind = Kind(c) /\ reservations'[Id(c)].state = "admitted"
  BY <1>1, <1>2, <1>6, ReserveNewKeeps DEF request
<1>8. Kept
  BY <1>6, <1>7 DEF Kept, spaceVars
<1>9. Touched(c)
  BY <1>7 DEF Touched, spaceVars
<1> QED BY <1>3, <1>5, <1>7, <1>8, <1>9 DEF Ledgers

LEMMA JournalBudgetLedgers ==
  ASSUME IInv, UNCHANGED spaceVars, NEW c \in Work, pc[c] \in {"journal", "catch"},
         \/ Budget!FinalizeNew(TheBudget, Id(c), terminal[c])
         \/ Budget!FinalizeReplay(TheBudget, Id(c), terminal[c])
  PROVE  /\ Ledgers(c)
         /\ DOMAIN reservations' = DOMAIN reservations /\ Id(c) \in DOMAIN reservations
         /\ reservations'[Id(c)].state = terminal[c]
<1>1. Id(c) \in Ids /\ terminal[c] \in Budget!Terminal
  BY DEF IInv, TypeOK, Work, Ids, Id, Space!Terminal, Budget!Terminal
<1>2. Budget!BudgetNext
  BY <1>1 DEF Budget!BudgetNext
<1>3. UNCHANGED clock
  BY DEF Budget!FinalizeNew, Budget!FinalizeReplay
<1>4. SpaceInv' /\ UNCHANGED Space!vars
  BY <1>3 DEF IInv, SpaceInv, Space!TypeOK, spaceVars, Space!vars
<1>5. Budget!BudgetTypeOK /\ generation \in Nat
  BY DEF IInv, TypeOK, SpaceInv, Space!TypeOK
<1>6. /\ Budget!BudgetTypeOK'
      /\ Id(c) \in DOMAIN reservations /\ DOMAIN reservations' = DOMAIN reservations
      /\ \A q \in DOMAIN reservations \ {Id(c)} : reservations'[q] = reservations[q]
      /\ reservations'[Id(c)].state = terminal[c] /\ reservations[Id(c)].state \in {terminal[c], "admitted"}
      /\ reservations'[Id(c)].kind = reservations[Id(c)].kind
  BY <1>1, <1>5, BudgetFinalizeKeeps
<1>7. Kept
  BY <1>5, <1>6 DEF Kept, spaceVars
<1>8. Touched(c)
  BY <1>6 DEF Touched, spaceVars
<1> QED BY <1>2, <1>4, <1>6, <1>7, <1>8 DEF Ledgers

LEMMA TickLedgers ==
  ASSUME IInv, Tick, NEW w
  PROVE  Ledgers(w)
<1>1. UNCHANGED <<spaceVars, budgetVars>> /\ clock < MaxClock /\ clock' = clock + 1
  BY DEF Tick
<1>2. Space!Next /\ Budget!BudgetNext
  <2>1. Space!Tick /\ Budget!BudgetTick
    BY <1>1 DEF Space!Tick, Budget!BudgetTick, Space!ledgerVars, Budget!budgetVars, spaceVars, budgetVars
  <2> QED BY <2>1 DEF Space!Next, Budget!BudgetNext
<1>3. clock' \in Nat /\ clock' <= MaxClock /\ generation \in Nat
  BY <1>1, LimitsAssumption DEF IInv, SpaceInv, Space!TypeOK
<1>4. SpaceInv'
  BY <1>1, <1>3 DEF IInv, SpaceInv, Space!TypeOK, spaceVars
<1>5. Budget!BudgetTypeOK'
  BY <1>1, <1>3 DEF IInv, TypeOK, Budget!BudgetTypeOK, budgetVars
<1>6. Kept /\ Touched(w)
  BY <1>1, <1>3 DEF Kept, Touched, spaceVars, budgetVars
<1> QED BY <1>2, <1>4, <1>5, <1>6 DEF Ledgers

------------------------------------------------------------------------------
(* The steps of an invocation with work for the provider.                     *)
OwnWork(c) ==
  /\ WorkInv(c)'
  /\ egress[c] = "served" => egress'[c] = "served"
  /\ egress[c] # "none" => egress'[c] # "none"
  /\ reserved[c] # "no" => reserved'[c] # "no"
  /\ Started(c)' => Started(c) \/ Id(c) \notin DOMAIN operations
  /\ Id(c) \in DOMAIN reservations' => Id(c) \in DOMAIN reservations \/ reserved'[c] # "no"
  /\ pc'[c] \in Held \cup Replays \cup {"start", "authorized", "done", "crashed"}

(* What an action without an effect on a ledger's rows leaves as it is.       *)
Unjournaled == UNCHANGED <<operations, reservations>>

LEMMA OwnAuthorize ==
  ASSUME IInv, NEW c \in Work, Authorize(c)
  PROVE  OwnWork(c)
<1>1. c \in Calls /\ Local /\ WorkInv(c)
  BY DEF Work, Workers, IInv, TypeOK, Local, WorkPart
<1>2. c \in Workers
  BY <1>1 DEF Workers
<1>3. Unjournaled /\ pc[c] = "start"
  BY DEF Authorize, spaceVars, budgetVars, Unjournaled
<1>4. /\ reserved'[c] = reserved[c] /\ terminal'[c] = terminal[c] /\ todo'[c] = todo[c]
      /\ failed'[c] = failed[c] /\ egress'[c] = egress[c]
      /\ answers' = answers
      /\ \/ pc'[c] = "authorized" /\ outcome'[c] = outcome[c]
         \/ pc'[c] = "done" /\ outcome'[c] = "error"
  BY <1>1, <1>2 DEF Authorize, GoTo, Tell, Catch, Local, callVars, deleteVars, providerVars, spaceVars, budgetVars
<1> QED
  BY <1>1, <1>3, <1>4 DEF OwnWork, Unjournaled, WorkInv, Early, Replays, Charged, Held, Unsent, Settled, Disclosed, Started, Admitted, Tells, Accepted, AcceptedBudget, Dispatched

LEMMA OwnAdmitAgain ==
  ASSUME IInv, NEW c \in Work, AdmitAgain(c)
  PROVE  OwnWork(c)
<1>1. c \in Calls /\ Local /\ WorkInv(c)
  BY DEF Work, Workers, IInv, TypeOK, Local, WorkPart
<1>2. c \in Workers
  BY <1>1 DEF Workers
<1>3. Unjournaled /\ pc[c] = "authorized" /\ Id(c) \in DOMAIN operations
  BY DEF AdmitAgain, spaceVars, budgetVars, Unjournaled, Space!AdmitReplay, SpaceRequest
<1>4. /\ pc'[c] = (IF operations[Id(c)].state = "accepted" THEN "replayAccepted" ELSE "replayOther")
      /\ reserved'[c] = reserved[c] /\ terminal'[c] = terminal[c]
      /\ todo'[c] = todo[c]
      /\ failed'[c] = failed[c] /\ outcome'[c] = outcome[c] /\ egress'[c] = egress[c]
      /\ answers' = answers
  BY <1>1, <1>2 DEF AdmitAgain, GoTo, Tell, Catch, Local, callVars, deleteVars, providerVars, spaceVars, budgetVars, Space!AdmitReplay, SpaceRequest
<1> QED
  BY <1>1, <1>3, <1>4 DEF OwnWork, Unjournaled, WorkInv, Early, Replays, Charged, Held, Unsent, Settled, Disclosed, Started, Admitted, Tells, Accepted, AcceptedBudget, Dispatched

LEMMA OwnAdmitRefused ==
  ASSUME IInv, NEW c \in Work, AdmitRefused(c)
  PROVE  OwnWork(c)
<1>1. c \in Calls /\ Local /\ WorkInv(c)
  BY DEF Work, Workers, IInv, TypeOK, Local, WorkPart
<1>2. c \in Workers
  BY <1>1 DEF Workers
<1>3. Unjournaled /\ pc[c] = "authorized"
  BY DEF AdmitRefused, spaceVars, budgetVars, Unjournaled
<1>4. /\ pc'[c] = "done"
      /\ reserved'[c] = reserved[c] /\ terminal'[c] = terminal[c]
      /\ todo'[c] = todo[c]
      /\ failed'[c] = failed[c] /\ outcome'[c] = "error" /\ egress'[c] = egress[c]
      /\ answers' = answers
  BY <1>1, <1>2 DEF AdmitRefused, GoTo, Tell, Catch, Local, callVars, deleteVars, providerVars, spaceVars, budgetVars
<1> QED
  BY <1>1, <1>3, <1>4 DEF OwnWork, Unjournaled, WorkInv, Early, Replays, Charged, Held, Unsent, Settled, Disclosed, Started, Admitted, Tells, Accepted, AcceptedBudget, Dispatched

LEMMA OwnReplay ==
  ASSUME IInv, NEW c \in Work, Replay(c)
  PROVE  OwnWork(c)
<1>1. c \in Calls /\ Local /\ WorkInv(c)
  BY DEF Work, Workers, IInv, TypeOK, Local, WorkPart
<1>2. c \in Workers
  BY <1>1 DEF Workers
<1>3. Unjournaled /\ pc[c] \in {"replayAccepted", "replayOther"}
  BY DEF Replay, spaceVars, budgetVars, Unjournaled
<1>4. /\ pc'[c] = "done" /\ reserved'[c] = reserved[c] /\ terminal'[c] = terminal[c]
      /\ todo'[c] = todo[c] /\ failed'[c] = failed[c] /\ egress'[c] = egress[c]
      /\ answers' = answers
      /\ outcome'[c] = "error" \/ (pc[c] = "replayAccepted" /\ outcome'[c] = "replayed")
  BY <1>1, <1>2 DEF Replay, GoTo, Tell, Catch, Local, callVars, deleteVars, providerVars, spaceVars, budgetVars
<1> QED
  BY <1>1, <1>3, <1>4 DEF OwnWork, Unjournaled, WorkInv, Early, Replays, Charged, Held, Unsent, Settled, Disclosed, Started, Admitted, Tells, Accepted, AcceptedBudget, Dispatched

(* Whoever holds a ticket has not been charged for it, by any invocation. *)
LEMMA TicketUncharged ==
  ASSUME IInv, NEW c \in Work, pc[c] = "ticketed"
  PROVE  Id(c) \notin DOMAIN reservations
<1> SUFFICES ASSUME Id(c) \in DOMAIN reservations PROVE FALSE
  OBVIOUS
<1>1. PICK d \in Work : Id(d) = Id(c) /\ reserved[d] # "no"
  BY DEF IInv, WorkPart, ReservedByHolder
<1>2. d = c
  BY <1>1 DEF IInv, WorkPart, OneHolder, Started, Held
<1> QED BY <1>1, <1>2 DEF IInv, WorkPart, WorkInv, Early

LEMMA OwnReserveRefused ==
  ASSUME IInv, NEW c \in Work, ReserveRefused(c)
  PROVE  OwnWork(c)
<1>1. c \in Calls /\ Local /\ WorkInv(c)
  BY DEF Work, Workers, IInv, TypeOK, Local, WorkPart
<1>2. c \in Workers
  BY <1>1 DEF Workers
<1>3. Unjournaled /\ pc[c] = "ticketed"
  BY DEF ReserveRefused, spaceVars, budgetVars, Unjournaled
<1>4. /\ pc'[c] = "catch"
      /\ reserved'[c] = "lost" /\ terminal'[c] = terminal[c]
      /\ todo'[c] = {"space", "budget"}
      /\ failed'[c] = FALSE /\ outcome'[c] = outcome[c] /\ egress'[c] = egress[c]
      /\ answers' = answers
  BY <1>1, <1>2 DEF ReserveRefused, GoTo, Tell, Catch, Local, callVars, deleteVars, providerVars, spaceVars, budgetVars
<1>5. Id(c) \notin DOMAIN reservations
  BY <1>3, TicketUncharged
<1> QED
  BY <1>1, <1>3, <1>4, <1>5 DEF OwnWork, Unjournaled, WorkInv, Early, Replays, Charged, Held, Unsent, Settled, Disclosed, Started, Admitted, Tells, Accepted, AcceptedBudget, Dispatched

LEMMA OwnRefresh ==
  ASSUME IInv, NEW c \in Work, Refresh(c)
  PROVE  OwnWork(c)
<1>1. c \in Calls /\ Local /\ WorkInv(c)
  BY DEF Work, Workers, IInv, TypeOK, Local, WorkPart
<1>2. c \in Workers
  BY <1>1 DEF Workers
<1>3. Unjournaled /\ pc[c] = "reserved"
  BY DEF Refresh, spaceVars, budgetVars, Unjournaled
<1>4. /\ pc'[c] = "refreshed"
      /\ reserved'[c] = reserved[c] /\ terminal'[c] = terminal[c]
      /\ todo'[c] = todo[c]
      /\ failed'[c] = failed[c] /\ outcome'[c] = outcome[c] /\ egress'[c] = egress[c]
      /\ answers' = answers
  BY <1>1, <1>2 DEF Refresh, GoTo, Tell, Catch, Local, callVars, deleteVars, providerVars, spaceVars, budgetVars
<1> QED
  BY <1>1, <1>3, <1>4 DEF OwnWork, Unjournaled, WorkInv, Early, Replays, Charged, Held, Unsent, Settled, Disclosed, Started, Admitted, Tells, Accepted, AcceptedBudget, Dispatched

LEMMA OwnCheckDispatch ==
  ASSUME IInv, NEW c \in Work, CheckDispatch(c)
  PROVE  OwnWork(c)
<1>1. c \in Calls /\ Local /\ WorkInv(c)
  BY DEF Work, Workers, IInv, TypeOK, Local, WorkPart
<1>2. c \in Workers
  BY <1>1 DEF Workers
<1>3. Unjournaled /\ pc[c] = "refreshed"
  BY DEF CheckDispatch, spaceVars, budgetVars, Unjournaled, Space!Check
<1>4. /\ pc'[c] = "cleared"
      /\ reserved'[c] = reserved[c] /\ terminal'[c] = terminal[c]
      /\ todo'[c] = todo[c]
      /\ failed'[c] = failed[c] /\ outcome'[c] = outcome[c] /\ egress'[c] = egress[c]
      /\ answers' = answers
  BY <1>1, <1>2 DEF CheckDispatch, GoTo, Tell, Catch, Local, callVars, deleteVars, providerVars, spaceVars, budgetVars, Space!Check
<1> QED
  BY <1>1, <1>3, <1>4 DEF OwnWork, Unjournaled, WorkInv, Early, Replays, Charged, Held, Unsent, Settled, Disclosed, Started, Admitted, Tells, Accepted, AcceptedBudget, Dispatched

LEMMA OwnSend ==
  ASSUME IInv, NEW c \in Work, Send(c)
  PROVE  OwnWork(c)
<1>1. c \in Calls /\ Local /\ WorkInv(c)
  BY DEF Work, Workers, IInv, TypeOK, Local, WorkPart
<1>2. c \in Workers
  BY <1>1 DEF Workers
<1>3. Unjournaled /\ pc[c] = "cleared"
  BY DEF Send, spaceVars, budgetVars, Unjournaled
<1>4. /\ pc'[c] = "sent"
      /\ reserved'[c] = reserved[c] /\ terminal'[c] \in {"unknown", "read_failed"}
      /\ todo'[c] = todo[c]
      /\ failed'[c] = failed[c] /\ outcome'[c] = outcome[c] /\ egress'[c] = "sent"
      /\ answers' = answers
  BY <1>1, <1>2 DEF Send, GoTo, Tell, Catch, Local, callVars, deleteVars, providerVars, spaceVars, budgetVars
<1> QED
  BY <1>1, <1>3, <1>4 DEF OwnWork, Unjournaled, WorkInv, Early, Replays, Charged, Held, Unsent, Settled, Disclosed, Started, Admitted, Tells, Accepted, AcceptedBudget, Dispatched

LEMMA OwnGiveUp ==
  ASSUME IInv, NEW c \in Work, GiveUp(c)
  PROVE  OwnWork(c)
<1>1. c \in Calls /\ Local /\ WorkInv(c)
  BY DEF Work, Workers, IInv, TypeOK, Local, WorkPart
<1>2. c \in Workers
  BY <1>1 DEF Workers
<1>3. Unjournaled /\ pc[c] \in {"ticketed", "reserved", "refreshed", "cleared"}
  BY DEF GiveUp, spaceVars, budgetVars, Unjournaled
<1>4. /\ pc'[c] = "catch"
      /\ reserved'[c] = reserved[c] /\ terminal'[c] = terminal[c]
      /\ todo'[c] = (IF reserved[c] # "no" THEN {"space", "budget"} ELSE {"space"})
      /\ failed'[c] = FALSE /\ outcome'[c] = outcome[c] /\ egress'[c] = egress[c]
      /\ answers' = answers
  BY <1>1, <1>2 DEF GiveUp, GoTo, Tell, Catch, Local, callVars, deleteVars, providerVars, spaceVars, budgetVars
<1> QED
  BY <1>1, <1>3, <1>4 DEF OwnWork, Unjournaled, WorkInv, Early, Replays, Charged, Held, Unsent, Settled, Disclosed, Started, Admitted, Tells, Accepted, AcceptedBudget, Dispatched

LEMMA OwnAnswered ==
  ASSUME IInv, NEW c \in Work, Answered(c)
  PROVE  OwnWork(c)
<1>1. c \in Calls /\ Local /\ WorkInv(c)
  BY DEF Work, Workers, IInv, TypeOK, Local, WorkPart
<1>2. c \in Workers
  BY <1>1 DEF Workers
<1>3. Unjournaled /\ pc[c] = "sent" /\ c \in answers
  BY DEF Answered, spaceVars, budgetVars, Unjournaled
<1>4. /\ pc'[c] = "journal"
      /\ reserved'[c] = reserved[c] /\ terminal'[c] = "accepted"
      /\ todo'[c] = {"space", "budget"}
      /\ failed'[c] = FALSE /\ outcome'[c] = outcome[c] /\ egress'[c] = egress[c]
      /\ c \notin answers'
  BY <1>1, <1>2 DEF Answered, GoTo, Tell, Catch, Local, callVars, deleteVars, providerVars, spaceVars, budgetVars
<1> QED
  BY <1>1, <1>3, <1>4 DEF OwnWork, Unjournaled, WorkInv, Early, Replays, Charged, Held, Unsent, Settled, Disclosed, Started, Admitted, Tells, Accepted, AcceptedBudget, Dispatched

LEMMA OwnNotAnswered ==
  ASSUME IInv, NEW c \in Work, NotAnswered(c)
  PROVE  OwnWork(c)
<1>1. c \in Calls /\ Local /\ WorkInv(c)
  BY DEF Work, Workers, IInv, TypeOK, Local, WorkPart
<1>2. c \in Workers
  BY <1>1 DEF Workers
<1>3. Unjournaled /\ pc[c] = "sent"
  BY DEF NotAnswered, spaceVars, budgetVars, Unjournaled
<1>4. /\ pc'[c] = "catch"
      /\ reserved'[c] = reserved[c] /\ terminal'[c] = terminal[c]
      /\ todo'[c] = {"space", "budget"}
      /\ failed'[c] = FALSE /\ outcome'[c] = outcome[c] /\ egress'[c] = egress[c]
      /\ c \notin answers'
  BY <1>1, <1>2 DEF NotAnswered, GoTo, Tell, Catch, Local, callVars, deleteVars, providerVars, spaceVars, budgetVars
<1> QED
  BY <1>1, <1>3, <1>4 DEF OwnWork, Unjournaled, WorkInv, Early, Replays, Charged, Held, Unsent, Settled, Disclosed, Started, Admitted, Tells, Accepted, AcceptedBudget, Dispatched

LEMMA OwnRefreshDisclose ==
  ASSUME IInv, NEW c \in Work, RefreshDisclose(c)
  PROVE  OwnWork(c)
<1>1. c \in Calls /\ Local /\ WorkInv(c)
  BY DEF Work, Workers, IInv, TypeOK, Local, WorkPart
<1>2. c \in Workers
  BY <1>1 DEF Workers
<1>3. Unjournaled /\ pc[c] = "recorded"
  BY DEF RefreshDisclose, spaceVars, budgetVars, Unjournaled
<1>4. /\ pc'[c] = "disclosing"
      /\ reserved'[c] = reserved[c] /\ terminal'[c] = terminal[c]
      /\ todo'[c] = todo[c]
      /\ failed'[c] = failed[c] /\ outcome'[c] = outcome[c] /\ egress'[c] = egress[c]
      /\ answers' = answers
  BY <1>1, <1>2 DEF RefreshDisclose, GoTo, Tell, Catch, Local, callVars, deleteVars, providerVars, spaceVars, budgetVars
<1> QED
  BY <1>1, <1>3, <1>4 DEF OwnWork, Unjournaled, WorkInv, Early, Replays, Charged, Held, Unsent, Settled, Disclosed, Started, Admitted, Tells, Accepted, AcceptedBudget, Dispatched

LEMMA OwnCheckDisclose ==
  ASSUME IInv, NEW c \in Work, CheckDisclose(c)
  PROVE  OwnWork(c)
<1>1. c \in Calls /\ Local /\ WorkInv(c)
  BY DEF Work, Workers, IInv, TypeOK, Local, WorkPart
<1>2. c \in Workers
  BY <1>1 DEF Workers
<1>3. Unjournaled /\ pc[c] = "disclosing"
  BY DEF CheckDisclose, spaceVars, budgetVars, Unjournaled, Space!Check
<1>4. /\ pc'[c] = "deliver"
      /\ reserved'[c] = reserved[c] /\ terminal'[c] = terminal[c]
      /\ todo'[c] = todo[c]
      /\ failed'[c] = failed[c] /\ outcome'[c] = outcome[c] /\ egress'[c] = egress[c]
      /\ answers' = answers
  BY <1>1, <1>2 DEF CheckDisclose, GoTo, Tell, Catch, Local, callVars, deleteVars, providerVars, spaceVars, budgetVars, Space!Check
<1> QED
  BY <1>1, <1>3, <1>4 DEF OwnWork, Unjournaled, WorkInv, Early, Replays, Charged, Held, Unsent, Settled, Disclosed, Started, Admitted, Tells, Accepted, AcceptedBudget, Dispatched

LEMMA OwnDeliver ==
  ASSUME IInv, NEW c \in Work, Deliver(c)
  PROVE  OwnWork(c)
<1>1. c \in Calls /\ Local /\ WorkInv(c)
  BY DEF Work, Workers, IInv, TypeOK, Local, WorkPart
<1>2. c \in Workers
  BY <1>1 DEF Workers
<1>3. Unjournaled /\ pc[c] = "deliver"
  BY DEF Deliver, spaceVars, budgetVars, Unjournaled
<1>4. /\ pc'[c] = "done"
      /\ reserved'[c] = reserved[c] /\ terminal'[c] = terminal[c]
      /\ todo'[c] = todo[c]
      /\ failed'[c] = failed[c] /\ outcome'[c] = "ok" /\ egress'[c] = egress[c]
      /\ answers' = answers
  BY <1>1, <1>2 DEF Deliver, GoTo, Tell, Catch, Local, callVars, deleteVars, providerVars, spaceVars, budgetVars
<1> QED
  BY <1>1, <1>3, <1>4 DEF OwnWork, Unjournaled, WorkInv, Early, Replays, Charged, Held, Unsent, Settled, Disclosed, Started, Admitted, Tells, Accepted, AcceptedBudget, Dispatched

LEMMA OwnWithhold ==
  ASSUME IInv, NEW c \in Work, Withhold(c)
  PROVE  OwnWork(c)
<1>1. c \in Calls /\ Local /\ WorkInv(c)
  BY DEF Work, Workers, IInv, TypeOK, Local, WorkPart
<1>2. c \in Workers
  BY <1>1 DEF Workers
<1>3. Unjournaled /\ pc[c] \in {"recorded", "disclosing", "deliver"}
  BY DEF Withhold, spaceVars, budgetVars, Unjournaled
<1>4. /\ pc'[c] = "done"
      /\ reserved'[c] = reserved[c] /\ terminal'[c] = terminal[c]
      /\ todo'[c] = todo[c]
      /\ failed'[c] = failed[c] /\ outcome'[c] = "error" /\ egress'[c] = egress[c]
      /\ answers' = answers
  BY <1>1, <1>2 DEF Withhold, GoTo, Tell, Catch, Local, callVars, deleteVars, providerVars, spaceVars, budgetVars
<1> QED
  BY <1>1, <1>3, <1>4 DEF OwnWork, Unjournaled, WorkInv, Early, Replays, Charged, Held, Unsent, Settled, Disclosed, Started, Admitted, Tells, Accepted, AcceptedBudget, Dispatched

LEMMA OwnAdmitFirst ==
  ASSUME IInv, NEW c \in Work, AdmitFirst(c)
  PROVE  OwnWork(c) /\ Ledgers(c)
<1>1. c \in Calls /\ Local /\ WorkInv(c)
  BY DEF Work, Workers, IInv, TypeOK, Local, WorkPart
<1>2. c \in Workers
  BY <1>1 DEF Workers
<1>3. pc[c] = "authorized" /\ UNCHANGED reservations
  BY DEF AdmitFirst, budgetVars
<1>4. /\ reserved'[c] = reserved[c] /\ terminal'[c] = terminal[c] /\ todo'[c] = todo[c]
      /\ failed'[c] = failed[c] /\ egress'[c] = egress[c] /\ answers' = answers
      /\ \/ pc'[c] = "ticketed" /\ outcome'[c] = outcome[c]
         \/ pc'[c] = "done" /\ outcome'[c] = "error"
  BY <1>1, <1>2 DEF AdmitFirst, GoTo, Tell, Catch, Local, callVars, deleteVars, providerVars
<1>5. /\ Ledgers(c) /\ Id(c) \notin DOMAIN operations /\ Id(c) \in DOMAIN operations'
      /\ operations'[Id(c)].actor = Actor(c) /\ operations'[Id(c)].kind = Kind(c)
      /\ operations'[Id(c)].state = "admitted"
  BY AdmitLedgers DEF AdmitFirst
<1> QED
  BY <1>1, <1>3, <1>4, <1>5 DEF OwnWork, WorkInv, Early, Replays, Charged, Held, Unsent, Settled, Disclosed, Started, Admitted, Tells, Accepted, AcceptedBudget, Dispatched

LEMMA OwnReserve ==
  ASSUME IInv, NEW c \in Work, Reserve(c)
  PROVE  OwnWork(c) /\ Ledgers(c)
<1>1. c \in Calls /\ Local /\ WorkInv(c)
  BY DEF Work, Workers, IInv, TypeOK, Local, WorkPart
<1>2. c \in Workers
  BY <1>1 DEF Workers
<1>3. pc[c] = "ticketed" /\ UNCHANGED spaceVars
  BY DEF Reserve
<1>4. /\ terminal'[c] = terminal[c] /\ outcome'[c] = outcome[c] /\ egress'[c] = egress[c] /\ answers' = answers
      /\ \/ pc'[c] = "reserved" /\ reserved'[c] = "held"
         \/ pc'[c] = "catch" /\ reserved'[c] = "lost"
  BY <1>1, <1>2 DEF Reserve, GoTo, Tell, Catch, Local, callVars, deleteVars, providerVars
<1>5. Id(c) \in DOMAIN operations
  BY <1>1, <1>3 DEF WorkInv, Started, Held, Admitted
<1>6. /\ Ledgers(c) /\ Id(c) \in DOMAIN reservations'
      /\ reservations'[Id(c)].kind = Kind(c) /\ reservations'[Id(c)].state = "admitted"
  BY <1>3, <1>5, ReserveLedgers DEF Reserve
<1> QED
  BY <1>1, <1>3, <1>4, <1>6 DEF OwnWork, spaceVars, WorkInv, Early, Replays, Charged, Held, Unsent, Settled, Disclosed, Started, Admitted, Tells, Accepted, AcceptedBudget, Dispatched

LEMMA OwnJournalSpace ==
  ASSUME IInv, NEW c \in Work, JournalSpace(c)
  PROVE  OwnWork(c) /\ Ledgers(c)
<1>1. c \in Calls /\ Local /\ WorkInv(c)
  BY DEF Work, Workers, IInv, TypeOK, Local, WorkPart
<1>2. c \in Workers
  BY <1>1 DEF Workers
<1>3. pc[c] \in {"journal", "catch"} /\ UNCHANGED budgetVars
  BY DEF JournalSpace
<1>4. /\ pc'[c] = pc[c] /\ reserved'[c] = reserved[c] /\ terminal'[c] = terminal[c]
      /\ todo'[c] = todo[c] \ {"space"} /\ failed'[c] \in {failed[c], TRUE}
      /\ outcome'[c] = outcome[c] /\ egress'[c] = egress[c] /\ answers' = answers
  BY <1>1, <1>2 DEF JournalSpace, Written, Rejected, Local, deleteVars, providerVars
<1>5. /\ Ledgers(c) /\ DOMAIN operations' = DOMAIN operations /\ Id(c) \in DOMAIN operations
      /\ operations'[Id(c)].state = terminal[c]
  BY <1>3, JournalSpaceLedgers DEF JournalSpace
<1>6. operations'[Id(c)].actor = operations[Id(c)].actor /\ operations'[Id(c)].kind = operations[Id(c)].kind
  BY <1>5 DEF Ledgers, Kept
<1>7. failed'[c] \/ failed'[c] = failed[c]
  BY <1>4
<1> QED
  BY <1>1, <1>3, <1>4, <1>5, <1>6, <1>7 DEF OwnWork, budgetVars, WorkInv, Early, Replays, Charged, Held, Unsent, Settled, Disclosed, Started, Admitted, Tells, Accepted, AcceptedBudget, Dispatched

LEMMA OwnJournalBudget ==
  ASSUME IInv, NEW c \in Work, JournalBudget(c)
  PROVE  OwnWork(c) /\ Ledgers(c)
<1>1. c \in Calls /\ Local /\ WorkInv(c)
  BY DEF Work, Workers, IInv, TypeOK, Local, WorkPart
<1>2. c \in Workers
  BY <1>1 DEF Workers
<1>3. pc[c] \in {"journal", "catch"} /\ UNCHANGED spaceVars
  BY DEF JournalBudget
<1>4. /\ pc'[c] = pc[c] /\ reserved'[c] = reserved[c] /\ terminal'[c] = terminal[c]
      /\ todo'[c] = todo[c] \ {"budget"} /\ failed'[c] \in {failed[c], TRUE}
      /\ outcome'[c] = outcome[c] /\ egress'[c] = egress[c] /\ answers' = answers
  BY <1>1, <1>2 DEF JournalBudget, Written, Rejected, Local, deleteVars, providerVars
<1>5. /\ Ledgers(c) /\ DOMAIN reservations' = DOMAIN reservations /\ Id(c) \in DOMAIN reservations
      /\ reservations'[Id(c)].state = terminal[c]
  BY <1>3, JournalBudgetLedgers DEF JournalBudget
<1>6. reservations'[Id(c)].kind = reservations[Id(c)].kind
  BY <1>5 DEF Ledgers, Kept
<1>7. failed'[c] \/ failed'[c] = failed[c]
  BY <1>4
<1> QED
  BY <1>1, <1>3, <1>4, <1>5, <1>6, <1>7 DEF OwnWork, spaceVars, WorkInv, Early, Replays, Charged, Held, Unsent, Settled, Disclosed, Started, Admitted, Tells, Accepted, AcceptedBudget, Dispatched

LEMMA OwnJournalRefused ==
  ASSUME IInv, NEW c \in Work, JournalRefused(c)
  PROVE  OwnWork(c)
<1>1. c \in Calls /\ Local /\ WorkInv(c)
  BY DEF Work, Workers, IInv, TypeOK, Local, WorkPart
<1>2. c \in Workers
  BY <1>1 DEF Workers
<1>3. Unjournaled /\ pc[c] \in {"journal", "catch"}
  BY DEF JournalRefused, spaceVars, budgetVars, Unjournaled
<1>4. /\ pc'[c] = pc[c] /\ reserved'[c] = reserved[c] /\ terminal'[c] = terminal[c]
      /\ failed'[c] = TRUE /\ outcome'[c] = outcome[c] /\ egress'[c] = egress[c] /\ answers' = answers
  BY <1>1, <1>2 DEF JournalRefused, Rejected, Local, deleteVars, providerVars
<1> QED
  BY <1>1, <1>3, <1>4 DEF OwnWork, Unjournaled, WorkInv, Early, Replays, Charged, Held, Unsent, Settled, Disclosed, Started, Admitted, Tells, Accepted, AcceptedBudget, Dispatched

LEMMA OwnJournaled ==
  ASSUME IInv, NEW c \in Work, Journaled(c)
  PROVE  OwnWork(c)
<1>1. c \in Calls /\ Local /\ WorkInv(c)
  BY DEF Work, Workers, IInv, TypeOK, Local, WorkPart
<1>2. c \in Workers
  BY <1>1 DEF Workers
<1>3. Unjournaled /\ pc[c] \in {"journal", "catch"} /\ todo[c] = {}
  BY DEF Journaled, spaceVars, budgetVars, Unjournaled
<1>4. /\ reserved'[c] = reserved[c] /\ terminal'[c] = terminal[c]
      /\ egress'[c] = egress[c] /\ answers' = answers
      /\ \/ pc[c] = "journal" /\ ~ failed[c] /\ pc'[c] = "recorded" /\ outcome'[c] = outcome[c]
         \/ pc'[c] = "catch" /\ outcome'[c] = outcome[c]
         \/ pc'[c] = "done" /\ outcome'[c] = "error"
  BY <1>1, <1>2 DEF Journaled, GoTo, Tell, Catch, Local, callVars, deleteVars, providerVars
<1> QED
  BY <1>1, <1>3, <1>4 DEF OwnWork, Unjournaled, WorkInv, Early, Replays, Charged, Held, Unsent, Settled, Disclosed, Started, Admitted, Tells, Accepted, AcceptedBudget, Dispatched

LEMMA OwnCrash ==
  ASSUME IInv, NEW c \in Work, Crash(c)
  PROVE  OwnWork(c)
<1>1. c \in Calls /\ Local /\ WorkInv(c)
  BY DEF Work, Workers, IInv, TypeOK, Local, WorkPart
<1>2. c \in Workers
  BY <1>1 DEF Workers
<1>3. Unjournaled /\ pc[c] \notin {"start", "done", "crashed"}
  BY DEF Crash, spaceVars, budgetVars, Unjournaled
<1>4. /\ pc'[c] = "crashed" /\ reserved'[c] = reserved[c] /\ terminal'[c] = terminal[c]
      /\ outcome'[c] = outcome[c] /\ egress'[c] = egress[c] /\ c \notin answers'
  <2>1. c \notin Passes
    BY <1>1, CallsAssumption
  <2> QED BY <1>1, <1>2, <2>1 DEF Crash, GoTo, Local, callVars
<1> QED
  BY <1>1, <1>3, <1>4 DEF OwnWork, Unjournaled, WorkInv, Early, Replays, Charged, Held, Unsent, Settled, Disclosed, Started, Admitted, Tells, Accepted, AcceptedBudget, Dispatched

LEMMA OwnServed ==
  ASSUME IInv, NEW m \in wire, m.from \in Work, HandleWork(m)
  PROVE  OwnWork(m.from)
<1> DEFINE c == m.from
<1>1. c \in Calls /\ Local /\ WorkInv(c)
  BY DEF Work, Workers, IInv, TypeOK, Local, WorkPart
<1>2. c \in Workers
  BY <1>1 DEF Workers
<1>3. Unjournaled /\ UNCHANGED <<pc, callVars>>
  BY DEF HandleWork, spaceVars, budgetVars, Unjournaled
<1>4. egress'[c] = "served" /\ (c \in answers' => c \in answers \/ pc[c] = "sent")
  BY <1>1 DEF HandleWork, Local
<1>5. Dispatched(c)
  BY DEF IInv, Wired
<1>6. pc[c] \in Held \cup Replays \cup {"start", "authorized", "done", "crashed"}
  <2>1. pc[c] \in Places /\ pc[c] # "idle" /\ pc[c] \notin ClearPlaces
    BY <1>1, <1>2 DEF Local, IInv, Placed, Clears
  <2> QED BY <2>1 DEF Places, ClearPlaces, DeletePlaces, Held, Replays
<1> HIDE DEF c
<1>7. OwnWork(c)
  BY <1>1, <1>3, <1>4, <1>5, <1>6 DEF OwnWork, Unjournaled, callVars, WorkInv, Early, Replays, Charged, Held, Unsent, Settled, Disclosed, Started, Admitted, Tells, Accepted, AcceptedBudget, Dispatched
<1> QED BY <1>7 DEF c

(* An invocation that does not move keeps what holds of it: the row of its    *)
(* operation is only written by the one that has the ticket.                  *)
LEMMA BystanderWork ==
  ASSUME IInv, NEW w, Ledgers(w), NEW c \in Work, c # w, Same(c)
  PROVE  WorkInv(c)' /\ (Started(c)' <=> Started(c))
<1>1. c \in Calls /\ WorkInv(c) /\ SameCall(c) /\ Kept /\ Touched(w)
  BY DEF Work, IInv, WorkPart, Same, Ledgers
<1>2. /\ pc'[c] = pc[c] /\ (c \in answers' <=> c \in answers)
      /\ reserved'[c] = reserved[c] /\ terminal'[c] = terminal[c] /\ todo'[c] = todo[c]
      /\ failed'[c] = failed[c] /\ outcome'[c] = outcome[c] /\ egress'[c] = egress[c]
  BY <1>1 DEF Same, SameCall
<1>3. Started(c)' <=> Started(c)
  BY <1>2 DEF Started
<1>4. w \in Work /\ Started(w) /\ Started(c) => Id(w) # Id(c)
  BY DEF IInv, WorkPart, OneHolder
<1>5. pc[w] \in {"journal", "catch", "ticketed"} => Started(w)
  BY DEF Started, Held
<1>6. ASSUME Started(c) PROVE Admitted(c)'
  <2>1. Admitted(c)
    BY <1>1, <1>6 DEF WorkInv
  <2>2. /\ Id(c) \in DOMAIN operations /\ Id(c) \in DOMAIN operations'
        /\ operations'[Id(c)].actor = operations[Id(c)].actor
        /\ operations'[Id(c)].kind = operations[Id(c)].kind
    BY <1>1, <2>1 DEF Admitted, Kept
  <2>3. operations'[Id(c)].state = operations[Id(c)].state
    BY <1>1, <1>4, <1>5, <1>6, <2>2 DEF Touched
  <2> QED BY <1>2, <2>1, <2>2, <2>3 DEF Admitted, Tells
<1>7. ASSUME reserved[c] # "no", Id(c) \in DOMAIN reservations' PROVE Tells(reservations[Id(c)].state, c)'
  <2>1. Started(c)
    BY <1>7 DEF Started
  <2>2. Id(c) \in DOMAIN reservations /\ reservations'[Id(c)].state = reservations[Id(c)].state
    BY <1>1, <1>4, <1>5, <1>7, <2>1 DEF Touched
  <2>3. Tells(reservations[Id(c)].state, c)
    BY <1>1, <1>7, <2>2 DEF WorkInv
  <2> QED BY <1>2, <2>2, <2>3 DEF Tells
<1>8. /\ Accepted(c) => Accepted(c)'
      /\ AcceptedBudget(c) => AcceptedBudget(c)'
      /\ reserved[c] = "held" => Id(c) \in DOMAIN reservations' /\ reservations'[Id(c)].kind = Kind(c)
  <2>1. Accepted(c) => Accepted(c)'
    BY <1>1 DEF Kept, Accepted
  <2>2. AcceptedBudget(c) => AcceptedBudget(c)'
    BY <1>1 DEF Kept, AcceptedBudget
  <2>3. reserved[c] = "held" => Id(c) \in DOMAIN reservations' /\ reservations'[Id(c)].kind = Kind(c)
    BY <1>1 DEF Kept, WorkInv
  <2> QED BY <2>1, <2>2, <2>3
<1>9. Dispatched(c)' <=> Dispatched(c)
  BY <1>2 DEF Dispatched
<1>10. WorkInv(c)'
  BY <1>1, <1>2, <1>3, <1>6, <1>7, <1>8, <1>9 DEF WorkInv
<1> QED BY <1>3, <1>10

(* One that moves and has no work for the provider has no part in this.       *)
Spared(w) ==
  w \in Clears => egress'[w] = egress[w] /\ reserved'[w] = reserved[w]

LEMMA WorkMoves ==
  ASSUME IInv, NEW w \in Workers, Ledgers(w), Alone(w), w \in Work => OwnWork(w), Spared(w)
  PROVE  WorkPart'
<1>1. ASSUME NEW c \in Work PROVE c \in Workers /\ c \in Calls
  BY DEF Work, Workers
<1>2. ASSUME NEW c \in Work, c # w PROVE Same(c) /\ SameCall(c) /\ WorkInv(c)' /\ (Started(c)' <=> Started(c))
  BY <1>1, <1>2, BystanderWork DEF Alone, Same
<1>3. ASSUME NEW c \in Work PROVE WorkInv(c)'
  BY <1>2 DEF OwnWork
<1>4. ASSUME NEW c \in Work
      PROVE  /\ egress[c] = "served" => egress'[c] = "served"
             /\ egress[c] # "none" => egress'[c] # "none"
             /\ reserved[c] # "no" => reserved'[c] # "no"
  <2>1. CASE c = w
    BY <2>1 DEF OwnWork
  <2>2. CASE c # w
    BY <1>2, <2>2 DEF SameCall
  <2> QED BY <2>1, <2>2
<1>5. OneHolder'
  <2> SUFFICES ASSUME NEW c \in Work, NEW d \in Work, Started(c)', Started(d)', Id(c) = Id(d), c # d
               PROVE  FALSE
    BY DEF OneHolder
  <2>1. ASSUME NEW e \in Work, Started(e)', e = w
        PROVE  Started(e) \/ Id(e) \notin DOMAIN operations
    BY <2>1 DEF OwnWork
  <2>2. ASSUME NEW e \in Work, Started(e) PROVE Id(e) \in DOMAIN operations
    BY <2>2 DEF IInv, WorkPart, WorkInv, Admitted
  <2>3. Started(c) \/ c = w
    BY <1>2
  <2>4. Started(d) \/ d = w
    BY <1>2
  <2>5. Started(c) /\ Started(d)
    BY <2>1, <2>2, <2>3, <2>4
  <2> QED BY <2>5 DEF IInv, WorkPart, OneHolder
<1>6. ReservedByHolder'
  <2> SUFFICES ASSUME NEW i \in DOMAIN reservations' PROVE \E d \in Work : Id(d) = i /\ reserved'[d] # "no"
    BY DEF ReservedByHolder
  <2>1. CASE i \in DOMAIN reservations
    BY <1>4, <2>1 DEF IInv, WorkPart, ReservedByHolder
  <2>2. CASE i \notin DOMAIN reservations
    <3>1. w \in Work /\ i = Id(w)
      BY <2>2 DEF Ledgers, Touched
    <3> QED BY <2>2, <3>1 DEF OwnWork
  <2> QED BY <2>1, <2>2
<1>7. OutcomesHappened'
  <2> SUFFICES ASSUME NEW o \in DOMAIN operations'
               PROVE  /\ operations'[o].state = "accepted" => \E d \in Work : Id(d) = o /\ egress'[d] = "served"
                      /\ operations'[o].state \in {"unknown", "read_failed"}
                           => \E d \in Work : Id(d) = o /\ egress'[d] # "none"
    BY DEF OutcomesHappened, Dispatched
  <2>1. CASE o \in DOMAIN operations /\ operations'[o].state = operations[o].state
    <3>1. /\ operations'[o].state = "accepted" => \E d \in Work : Id(d) = o /\ egress[d] = "served"
          /\ operations'[o].state \in {"unknown", "read_failed"}
               => \E d \in Work : Id(d) = o /\ egress[d] # "none"
      BY <2>1 DEF IInv, WorkPart, OutcomesHappened, Dispatched
    <3> QED BY <1>4, <3>1
  <2>2. CASE operations'[o].state = "admitted"
    BY <2>2
  <2>3. CASE w \in Work /\ o = Id(w) /\ operations'[o].state = terminal[w]
    <3>1. WorkInv(w)
      BY <2>3 DEF IInv, WorkPart
    <3>2. /\ terminal[w] = "accepted" => egress[w] = "served"
          /\ terminal[w] # "not_dispatched" => egress[w] # "none"
      BY <3>1 DEF WorkInv, Dispatched
    <3> QED BY <1>4, <2>3, <3>2
  <2> QED BY <2>1, <2>2, <2>3 DEF Ledgers, Touched
<1> QED BY <1>3, <1>5, <1>6, <1>7 DEF WorkPart

------------------------------------------------------------------------------
(* The steps of a clear or a pass.                                            *)
OwnDelete(d) ==
  /\ DeleterInv(d)'
  /\ d \in Clears =>
       ClearInv(d)' /\ pc'[d] \in {"start", "authorized", "done", "crashed"} \cup ClearPlaces
  /\ d \in Passes => pc'[d] \in {"idle"} \cup DeletePlaces

(* A retirement is acknowledged once its profile was deleted.                 *)
AcksBacked ==
  /\ deleted \subseteq deleted'
  /\ \A r \in DOMAIN retirements' : retirements'[r].state = "acknowledged" =>
       r \in DOMAIN retirements /\ retirements[r].generation \in deleted

LEMMA UnackedBacked ==
  ASSUME IInv, UNCHANGED retirements, deleted \subseteq deleted'
  PROVE  AcksBacked
  BY DEF AcksBacked, IInv, ClearPart, AcknowledgedDeleted

LEMMA BystanderDelete ==
  ASSUME IInv, Kept, AcksBacked, NEW d \in Deleters, Same(d)
  PROVE  DeleterInv(d)' /\ (d \in Clears => ClearInv(d)')
<1>1. DeleterInv(d) /\ pc'[d] = pc[d] /\ rows'[d] = rows[d] /\ (d \in answers' <=> d \in answers)
  BY DEF IInv, ClearPart, Same
<1>2. /\ DOMAIN retirements \subseteq DOMAIN retirements'
      /\ \A r \in DOMAIN retirements : retirements'[r].generation = retirements[r].generation
  BY DEF Kept
<1>3. rows[d] \in Seq(DOMAIN retirements) => rows[d] \in Seq(DOMAIN retirements')
  BY <1>2
<1>4. ASSUME pc[d] \in DeletePlaces, DeletedTarget(d) PROVE DeletedTarget(d)'
  <2>1. Target(d) \in DOMAIN retirements
    BY <1>4, TargetRow
  <2>2. retirements'[Target(d)].generation \in deleted'
    BY <1>2, <1>4, <2>1 DEF DeletedTarget, AcksBacked
  <2> QED BY <1>1, <2>2 DEF DeletedTarget, Target
<1>5. DeleterInv(d)'
  <2>1. pc'[d] \in DeletePlaces => rows'[d] \in Seq(DOMAIN retirements') /\ rows'[d] # <<>>
    BY <1>1, <1>3 DEF DeleterInv
  <2>2. d \in answers' => pc'[d] = "deleting" /\ DeletedTarget(d)'
    BY <1>1, <1>4 DEF DeleterInv, DeletePlaces
  <2>3. pc'[d] = "acknowledge" => DeletedTarget(d)'
    BY <1>1, <1>4 DEF DeleterInv, DeletePlaces
  <2> QED BY <2>1, <2>2, <2>3 DEF DeleterInv
<1>6. ASSUME d \in Clears PROVE ClearInv(d)'
  <2>1. ClearInv(d) /\ outcome'[d] = outcome[d] /\ cleanup'[d] = cleanup[d]
    BY <1>6 DEF IInv, ClearPart, Clears, Same, SameCall
  <2>2. Acknowledged(Id(d)) => Acknowledged(Id(d))'
    BY DEF Acknowledged, Kept
  <2> QED BY <1>1, <1>2, <2>1, <2>2 DEF ClearInv
<1> QED BY <1>5, <1>6

LEMMA ClearMoves ==
  ASSUME IInv, NEW w \in Workers, Ledgers(w), Alone(w), AcksBacked, w \in Deleters => OwnDelete(w)
  PROVE  ClearPart'
<1>1. Kept
  BY DEF Ledgers
<1>2. ASSUME NEW d \in Deleters PROVE DeleterInv(d)' /\ (d \in Clears => ClearInv(d)')
  <2>1. CASE d = w
    BY <2>1 DEF OwnDelete
  <2>2. CASE d # w
    <3>1. Same(d)
      BY <2>2 DEF Alone, Workers, Deleters, Clears
    <3> QED BY <1>1, <3>1, BystanderDelete
  <2> QED BY <2>1, <2>2
<1>3. \A c \in Clears : c \in Deleters
  BY DEF Deleters
<1>4. AcknowledgedDeleted'
  BY <1>1 DEF AcknowledgedDeleted, AcksBacked, Kept
<1> QED BY <1>2, <1>3, <1>4 DEF ClearPart

(* An invocation that clears and has not asked the ledger yet, or only heard  *)
(* from it.                                                                   *)
LEMMA OwnClearing ==
  ASSUME IInv, NEW c \in Clears, Authorize(c) \/ Clearing(c)
  PROVE  OwnDelete(c) /\ Spared(c) /\ AcksBacked /\ Ledgers(c)
<1>1. /\ c \in Calls /\ c \in Workers /\ c \in Deleters /\ c \notin Passes /\ Local
      /\ DeleterInv(c) /\ ClearInv(c)
  BY CallsAssumption DEF Clears, Workers, Deleters, IInv, TypeOK, Local, ClearPart
<1> DEFINE Quiet == UNCHANGED <<retirements, deleted, answers, egress, reserved>>
<1>2. CASE Authorize(c)
  <2>1. Ledgers(c) /\ Quiet
    BY <1>2, StillLedgers DEF Authorize, spaceVars, providerVars
  <2>2. /\ pc[c] = "start" /\ rows' = rows /\ cleanup' = cleanup
        /\ \/ pc'[c] = "authorized" /\ outcome'[c] = outcome[c]
           \/ pc'[c] = "done" /\ outcome'[c] = "error"
    BY <1>1, <1>2 DEF Authorize, GoTo, Tell, Local, deleteVars
  <2>3. OwnDelete(c)
    BY <1>1, <2>1, <2>2 DEF OwnDelete, DeleterInv, ClearInv, ClearPlaces, DeletePlaces, Acknowledged
  <2>4. AcksBacked
    BY <2>1, UnackedBacked
  <2> QED BY <2>1, <2>3, <2>4 DEF Spared
<1>3. CASE RetireRefused(c)
  <2>1. Ledgers(c) /\ Quiet
    BY <1>3, StillLedgers DEF RetireRefused, spaceVars, providerVars
  <2>2. /\ pc[c] = "authorized" /\ rows' = rows /\ cleanup' = cleanup
        /\ pc'[c] = "done" /\ outcome'[c] = "error"
    BY <1>1, <1>3 DEF RetireRefused, GoTo, Tell, Local, deleteVars
  <2>3. OwnDelete(c)
    BY <1>1, <2>1, <2>2 DEF OwnDelete, DeleterInv, ClearInv, ClearPlaces, DeletePlaces, Acknowledged
  <2>4. AcksBacked
    BY <2>1, UnackedBacked
  <2> QED BY <2>1, <2>3, <2>4 DEF Spared
<1>4. CASE Report(c)
  <2>1. Ledgers(c) /\ Quiet
    BY <1>4, StillLedgers DEF Report, spaceVars, providerVars
  <2>2. /\ pc[c] = "report" /\ rows' = rows /\ cleanup' = cleanup
        /\ pc'[c] = "done" /\ outcome'[c] \in {"ok", "error"}
    BY <1>1, <1>4 DEF Report, GoTo, Tell, Local, deleteVars
  <2>3. OwnDelete(c)
    BY <1>1, <2>1, <2>2 DEF OwnDelete, DeleterInv, ClearInv, ClearPlaces, DeletePlaces, Acknowledged
  <2>4. AcksBacked
    BY <2>1, UnackedBacked
  <2> QED BY <2>1, <2>3, <2>4 DEF Spared
<1>5. CASE RetireAgain(c)
  <2>1. UNCHANGED budgetVars /\ Space!RetireReplay(SpaceRequest(c))
    BY <1>5 DEF RetireAgain
  <2>2. Ledgers(c)
    BY <2>1, ReadLedgers DEF Clears
  <2>3. Quiet /\ Id(c) \in DOMAIN retirements
    BY <1>5, <2>1 DEF RetireAgain, callVars, providerVars, Space!RetireReplay, SpaceRequest, Clears
  <2>4. /\ pc[c] = "authorized" /\ rows' = rows /\ pc'[c] = "report" /\ outcome'[c] = outcome[c]
        /\ cleanup'[c] = (retirements[Id(c)].state # "acknowledged")
    BY <1>1, <1>5 DEF RetireAgain, GoTo, Local, callVars
  <2>5. OwnDelete(c)
    BY <1>1, <2>3, <2>4 DEF OwnDelete, DeleterInv, ClearInv, ClearPlaces, DeletePlaces, Acknowledged
  <2>6. AcksBacked
    BY <2>3, UnackedBacked
  <2> QED BY <2>2, <2>3, <2>5, <2>6 DEF Spared
<1>6. CASE Retire(c)
  <2>1. UNCHANGED budgetVars /\ Space!RetireNew(SpaceRequest(c))
    BY <1>6 DEF Retire
  <2>2. /\ Ledgers(c) /\ DOMAIN retirements' = DOMAIN retirements \cup {Id(c)}
        /\ \A r \in DOMAIN retirements : retirements'[r] = retirements[r]
        /\ retirements'[Id(c)].state = "pending"
    BY <2>1, RetireLedgers
  <2>3. UNCHANGED <<deleted, answers, egress, reserved, cleanup>>
    BY <1>6 DEF Retire, providerVars
  <2>4. /\ pc[c] = "authorized"
        /\ \/ pc'[c] = "retired" /\ rows'[c] = <<Id(c)>> /\ outcome'[c] = outcome[c]
           \/ pc'[c] = "done" /\ rows'[c] = rows[c] /\ outcome'[c] = "error"
    BY <1>1, <1>6 DEF Retire, GoTo, Tell, Local
  <2>5. DeleterInv(c)'
    BY <1>1, <2>3, <2>4 DEF DeleterInv, DeletePlaces
  <2>6. ClearInv(c)'
    <3>1. ~ cleanup'[c] => Acknowledged(Id(c))'
      BY <1>1, <2>2, <2>3 DEF ClearInv, Acknowledged
    <3> QED BY <1>1, <2>2, <2>4, <3>1 DEF ClearInv, ClearPlaces, DeletePlaces
  <2>7. OwnDelete(c)
    BY <1>1, <2>4, <2>5, <2>6 DEF OwnDelete, ClearPlaces
  <2>8. AcksBacked
    BY <2>2, <2>3 DEF AcksBacked, IInv, ClearPart, AcknowledgedDeleted
  <2> QED BY <2>2, <2>3, <2>7, <2>8 DEF Spared
<1>7. CASE RefreshClear(c)
  <2>1. Ledgers(c) /\ Quiet
    BY <1>7, StillLedgers DEF RefreshClear, spaceVars, providerVars, callVars
  <2>2. /\ pc[c] \in {"retired", "delete"} /\ cleanup' = cleanup /\ outcome' = outcome
        /\ \/ pc'[c] = "delete" /\ rows'[c] = rows[c]
           \/ pc'[c] = "report" /\ rows'[c] = <<>>
    BY <1>1, <1>7 DEF RefreshClear, GoTo, Local, callVars
  <2>3. rows[c] = <<Id(c)>> /\ Id(c) \in DOMAIN retirements /\ c \notin answers
    BY <1>1, <2>2 DEF ClearInv, DeleterInv, DeletePlaces, ClearPlaces
  <2>4. <<Id(c)>> \in Seq(DOMAIN retirements) /\ <<Id(c)>> # <<>>
    BY <2>3
  <2>5. DeleterInv(c)'
    BY <2>1, <2>2, <2>3, <2>4 DEF DeleterInv, DeletePlaces
  <2>6. ClearInv(c)'
    BY <1>1, <2>1, <2>2, <2>3 DEF ClearInv, DeletePlaces, ClearPlaces, Acknowledged
  <2>7. OwnDelete(c)
    BY <1>1, <2>2, <2>5, <2>6 DEF OwnDelete, ClearPlaces, DeletePlaces
  <2>8. AcksBacked
    BY <2>1, UnackedBacked
  <2> QED BY <2>1, <2>7, <2>8 DEF Spared
<1> QED BY <1>2, <1>3, <1>4, <1>5, <1>6, <1>7 DEF Clearing

(* The deletions of a clear or a pass.                                        *)
LEMMA OwnDeleting ==
  ASSUME IInv, NEW d \in Deleters, Deleting(d)
  PROVE  OwnDelete(d) /\ Spared(d) /\ AcksBacked /\ Ledgers(d)
<1>1. /\ d \in Workers /\ Local /\ DeleterInv(d) /\ (d \in Clears => ClearInv(d))
      /\ d \in Clears => d \in Calls /\ d \notin Passes
      /\ pc[d] \in DeletePlaces
  BY CallsAssumption, DeleteFrame
     DEF Clears, Workers, Deleters, IInv, TypeOK, Local, ClearPart
<1>2. /\ Target(d) \in DOMAIN retirements /\ Target(d) \in Ids
      /\ Tail(rows[d]) \in Seq(DOMAIN retirements)
      /\ rows[d] \in Seq(DOMAIN retirements) /\ rows[d] # <<>>
  BY <1>1, TargetRow DEF DeleterInv
<1>3. d \in Clears => rows[d] = <<Id(d)>> /\ Target(d) = Id(d) /\ Tail(rows[d]) = <<>>
                      /\ Id(d) \in DOMAIN retirements
  <2>1. d \in Clears => rows[d] = <<Id(d)>> /\ Id(d) \in DOMAIN retirements
    BY <1>1 DEF ClearInv, ClearPlaces
  <2>2. Head(<<Id(d)>>) = Id(d)
    OBVIOUS
  <2>3. Tail(<<Id(d)>>) = <<>>
    OBVIOUS
  <2> QED BY <2>1, <2>2, <2>3 DEF Target
<1> DEFINE Quiet == UNCHANGED <<retirements, deleted, egress, reserved, outcome>>
(* The attempt itself: nothing but the place and the answer changes.          *)
<1>4. ASSUME Ledgers(d), Quiet, UNCHANGED <<rows, cleanup>>, pc'[d] \in DeletePlaces,
             d \in answers' => pc'[d] = "deleting" /\ DeletedTarget(d),
             pc'[d] = "acknowledge" => DeletedTarget(d)
      PROVE  OwnDelete(d) /\ Spared(d) /\ AcksBacked
  <2>1. DeletedTarget(d) <=> DeletedTarget(d)'
    BY <1>4 DEF DeletedTarget, Target
  <2>2. DeleterInv(d)'
    BY <1>2, <1>4, <2>1 DEF DeleterInv
  <2>3. d \in Clears => ClearInv(d)'
    BY <1>1, <1>3, <1>4 DEF ClearInv, DeletePlaces, ClearPlaces, Acknowledged
  <2>4. AcksBacked
    BY <1>4, UnackedBacked
  <2> QED BY <1>4, <2>2, <2>3, <2>4 DEF OwnDelete, Spared, ClearPlaces
(* The row is left behind, for the next one or the report.                    *)
<1>5. ASSUME Ledgers(d), NextRow(d), AcksBacked, UNCHANGED <<egress, reserved, outcome, answers>>,
             pc[d] # "deleting",
             d \in Clears => (~ cleanup'[d] => ~ cleanup[d] \/ Acknowledged(Id(d))')
      PROVE  OwnDelete(d) /\ Spared(d)
  <2>1. /\ rows'[d] = Tail(rows[d])
        /\ pc'[d] = IF Tail(rows[d]) # <<>> THEN "delete" ELSE IF d \in Passes THEN "idle" ELSE "report"
    BY <1>1, <1>5, NextRowFrame
  <2>2. d \notin answers
    BY <1>1, <1>5 DEF DeleterInv
  <2>3. DOMAIN retirements \subseteq DOMAIN retirements'
    BY <1>5 DEF Ledgers, Kept
  <2>4. Tail(rows[d]) \in Seq(DOMAIN retirements')
    BY <1>2, <2>3
  <2>5. DeleterInv(d)'
    BY <1>5, <2>1, <2>2, <2>4 DEF DeleterInv, DeletePlaces
  <2>6. ASSUME d \in Clears PROVE ClearInv(d)' /\ pc'[d] = "report"
    <3>1. pc'[d] = "report" /\ d \in Calls /\ Id(d) \in DOMAIN retirements'
      BY <1>1, <1>3, <2>1, <2>3, <2>6
    <3>2. Acknowledged(Id(d)) => Acknowledged(Id(d))'
      BY <1>5 DEF Acknowledged, Ledgers, Kept
    <3>3. ~ cleanup'[d] => Acknowledged(Id(d))'
      BY <1>1, <1>5, <2>6, <3>2 DEF ClearInv
    <3> QED BY <1>1, <1>5, <2>6, <3>1, <3>3 DEF ClearInv, DeletePlaces
  <2>7. d \in Passes => pc'[d] \in {"idle"} \cup DeletePlaces
    BY <2>1 DEF DeletePlaces
  <2> QED BY <1>5, <2>5, <2>6, <2>7 DEF OwnDelete, Spared, ClearPlaces
<1>6. CASE SendDelete(d)
  <2>1. Ledgers(d) /\ Quiet /\ UNCHANGED <<rows, cleanup, answers>> /\ pc[d] = "delete"
    BY <1>6, StillLedgers DEF SendDelete, spaceVars, callVars, deleteVars
  <2>2. pc'[d] = "deleting" /\ d \notin answers'
    BY <1>1, <1>6, <2>1 DEF SendDelete, GoTo, Local, DeleterInv
  <2> QED BY <1>4, <2>1, <2>2 DEF DeletePlaces
<1>7. CASE DeleteAnswered(d)
  <2>1. Ledgers(d) /\ Quiet /\ UNCHANGED <<rows, cleanup>> /\ d \notin answers'
    BY <1>7, StillLedgers DEF DeleteAnswered, spaceVars, callVars, deleteVars
  <2>2. pc'[d] = "acknowledge" /\ DeletedTarget(d)
    BY <1>1, <1>7 DEF DeleteAnswered, GoTo, Local, DeleterInv
  <2> QED BY <1>4, <2>1, <2>2 DEF DeletePlaces
<1>8. CASE DeleteFailed(d)
  <2>1. Ledgers(d) /\ Quiet /\ UNCHANGED <<rows, cleanup>> /\ d \notin answers'
    BY <1>8, StillLedgers DEF DeleteFailed, spaceVars, callVars, deleteVars, providerVars
  <2>2. pc'[d] = "doubt"
    BY <1>1, <1>8 DEF DeleteFailed, GoTo, Local
  <2> QED BY <1>4, <2>1, <2>2 DEF DeletePlaces
<1>9. CASE AcknowledgeRefused(d)
  <2>1. Ledgers(d) /\ Quiet /\ UNCHANGED <<rows, cleanup, answers>> /\ pc[d] = "acknowledge"
    BY <1>9, StillLedgers DEF AcknowledgeRefused, spaceVars, callVars, deleteVars, providerVars
  <2>2. pc'[d] = "doubt" /\ d \notin answers'
    BY <1>1, <1>9, <2>1 DEF AcknowledgeRefused, GoTo, Local, DeleterInv
  <2> QED BY <1>4, <2>1, <2>2 DEF DeletePlaces
<1>10. CASE Acknowledge(d)
  <2>1. /\ pc[d] = "acknowledge" /\ Space!FinishRetirement(TheSpace, Target(d), "acknowledged")
        /\ UNCHANGED <<budgetVars, callVars, providerVars>>
    BY <1>10 DEF Acknowledge
  <2>2. /\ Ledgers(d) /\ DOMAIN retirements' = DOMAIN retirements
        /\ \A q \in DOMAIN retirements \ {Target(d)} : retirements'[q] = retirements[q]
        /\ retirements'[Target(d)].state = "acknowledged"
    BY <1>2, <2>1, FinishLedgers
  <2>3. DeletedTarget(d) /\ d \notin answers
    BY <1>1, <2>1 DEF DeleterInv
  <2>4. AcksBacked
    BY <2>1, <2>2, <2>3
       DEF AcksBacked, DeletedTarget, providerVars, IInv, ClearPart, AcknowledgedDeleted
  <2>5. CASE NextRow(d) /\ cleanup' = IF d \in Clears THEN [cleanup EXCEPT ![d] = FALSE] ELSE cleanup
    <3>1. d \in Clears => Acknowledged(Id(d))'
      BY <1>2, <1>3, <2>2 DEF Acknowledged
    <3> QED BY <1>5, <2>1, <2>2, <2>4, <2>5, <3>1 DEF callVars, providerVars
  <2>6. CASE GoTo(d, "doubt") /\ UNCHANGED deleteVars
    <3>1. pc'[d] = "doubt" /\ rows' = rows /\ cleanup' = cleanup
      BY <1>1, <2>6 DEF GoTo, Local, deleteVars
    <3>2. rows[d] \in Seq(DOMAIN retirements')
      BY <1>2, <2>2
    <3>3. DeleterInv(d)'
      BY <1>2, <2>1, <2>3, <3>1, <3>2 DEF DeleterInv, providerVars
    <3>4. d \in Clears => ClearInv(d)'
      <4>1. Acknowledged(Id(d)) => Acknowledged(Id(d))'
        BY <2>2 DEF Acknowledged, Ledgers, Kept
      <4> QED BY <1>1, <1>3, <2>1, <2>2, <3>1, <4>1 DEF ClearInv, DeletePlaces, ClearPlaces, callVars
    <3> QED BY <2>1, <2>2, <2>4, <3>1, <3>3, <3>4
            DEF OwnDelete, Spared, ClearPlaces, DeletePlaces, callVars, providerVars
  <2> QED BY <1>10, <2>2, <2>4, <2>5, <2>6 DEF Acknowledge
<1>11. CASE Doubt(d) \/ DoubtRefused(d)
  <2>1. pc[d] = "doubt" /\ NextRow(d) /\ UNCHANGED <<budgetVars, callVars, cleanup, providerVars>>
    BY <1>11 DEF Doubt, DoubtRefused
  <2>2. Ledgers(d) /\ AcksBacked
    <3>1. CASE Doubt(d)
      <4>1. Space!FinishRetirement(TheSpace, Target(d), "unknown")
        BY <3>1 DEF Doubt
      <4>2. /\ Ledgers(d) /\ DOMAIN retirements' = DOMAIN retirements
            /\ \A q \in DOMAIN retirements \ {Target(d)} : retirements'[q] = retirements[q]
            /\ retirements'[Target(d)].state = "unknown"
        BY <1>2, <2>1, <4>1, FinishLedgers
      <4>3. AcksBacked
        BY <2>1, <4>2 DEF AcksBacked, providerVars, IInv, ClearPart, AcknowledgedDeleted
      <4> QED BY <4>2, <4>3
    <3>2. CASE DoubtRefused(d)
      <4>1. UNCHANGED <<spaceVars, budgetVars, clock>>
        BY <3>2 DEF DoubtRefused
      <4>2. UNCHANGED <<retirements, deleted>>
        BY <2>1, <4>1 DEF spaceVars, providerVars
      <4> QED BY <4>1, <4>2, StillLedgers, UnackedBacked
    <3> QED BY <1>11, <3>1, <3>2
  <2> QED BY <1>5, <2>1, <2>2 DEF callVars, providerVars
<1> QED BY <1>6, <1>7, <1>8, <1>9, <1>10, <1>11 DEF Deleting

LEMMA OwnFetch ==
  ASSUME IInv, NEW p \in Passes, FetchPending(p)
  PROVE  OwnDelete(p) /\ Spared(p) /\ AcksBacked /\ Ledgers(p)
<1>1. /\ p \in Workers /\ p \in Deleters /\ p \notin Clears /\ Local /\ DeleterInv(p)
      /\ pc[p] = "idle" /\ UNCHANGED budgetVars
  BY CallsAssumption DEF Clears, Workers, Deleters, IInv, TypeOK, Local, ClearPart, FetchPending
<1>2. Ledgers(p)
  BY <1>1, PendingLedgers DEF FetchPending
<1>3. UNCHANGED <<retirements, deleted, answers>>
  BY DEF FetchPending, Space!Pending, providerVars
<1>4. /\ Space!PendingRows(PageSize) \in Seq(DOMAIN retirements)
      /\ Space!Open # {} => Space!PendingRows(PageSize) # <<>>
  BY PageOfRows DEF IInv
<1>5. \/ pc'[p] = "idle"
      \/ pc'[p] = "delete" /\ Space!Open # {} /\ rows'[p] = Space!PendingRows(PageSize)
  <2>1. CASE UNCHANGED <<rows, pc>>
    BY <1>1, <2>1
  <2>2. CASE /\ rows' = [rows EXCEPT ![p] = Space!PendingRows(PageSize)]
             /\ GoTo(p, IF Space!Open = {} THEN "idle" ELSE "delete")
    BY <1>1, <2>2 DEF GoTo, Local
  <2> QED BY <2>1, <2>2 DEF FetchPending
<1>6. OwnDelete(p)
  BY <1>1, <1>3, <1>4, <1>5 DEF OwnDelete, DeleterInv, DeletePlaces
<1>7. AcksBacked
  BY <1>3, UnackedBacked
<1> QED BY <1>1, <1>2, <1>6, <1>7 DEF Spared

LEMMA OwnDeleterCrash ==
  ASSUME IInv, NEW d \in Deleters, Crash(d)
  PROVE  OwnDelete(d) /\ Spared(d)
<1>1. /\ d \in Workers /\ Local /\ DeleterInv(d) /\ (d \in Clears => ClearInv(d))
      /\ d \in Clears => d \in Calls /\ d \notin Passes
  BY CallsAssumption DEF Clears, Workers, Deleters, IInv, TypeOK, Local, ClearPart
<1>2. /\ pc'[d] = (IF d \in Passes THEN "idle" ELSE "crashed") /\ d \notin answers'
      /\ UNCHANGED <<retirements, outcome, cleanup, reserved, egress>>
      /\ pc[d] \notin {"start", "idle", "done", "crashed"}
  BY <1>1 DEF Crash, GoTo, Local, spaceVars, callVars
<1>3. DeleterInv(d)'
  BY <1>2 DEF DeleterInv, DeletePlaces
<1>4. d \in Clears => ClearInv(d)'
  BY <1>1, <1>2 DEF ClearInv, DeletePlaces, ClearPlaces, Acknowledged
<1> QED BY <1>1, <1>2, <1>3, <1>4 DEF OwnDelete, Spared

(* A deletion is served to a caller that waits for this very one.             *)
LEMMA OwnDeleteServed ==
  ASSUME IInv, NEW m \in wire, m.from \in Deleters, HandleDelete(m)
  PROVE  OwnDelete(m.from) /\ Spared(m.from) /\ AcksBacked
<1> DEFINE d == m.from
<1>1. /\ d \in Workers /\ Local /\ DeleterInv(d) /\ (d \in Clears => ClearInv(d))
      /\ d \in Clears => d \in Calls /\ d \notin Passes
  BY CallsAssumption DEF Clears, Workers, Deleters, IInv, TypeOK, Local, ClearPart
<1>2. /\ UNCHANGED <<retirements, rows, pc, outcome, cleanup, reserved, egress>>
      /\ deleted' = deleted \cup {m.generation}
      /\ d \in answers' => d \in answers \/ (pc[d] = "deleting" /\ m = DeleteRequest(d))
  BY DEF HandleDelete, spaceVars, callVars, deleteVars
<1>3. DeletedTarget(d) => DeletedTarget(d)'
  BY <1>2 DEF DeletedTarget, Target
<1>4. m = DeleteRequest(d) => DeletedTarget(d)'
  <2>1. m = DeleteRequest(d) => retirements[Target(d)].generation \in deleted'
    BY <1>2 DEF DeleteRequest
  <2> QED BY <1>2, <2>1 DEF DeletedTarget, Target
<1>5. AcksBacked
  BY <1>2, UnackedBacked
<1>6. pc[d] \in {"start", "authorized", "done", "crashed"} \cup ClearPlaces \/ d \notin Clears
  <2>1. d \in Clears => pc[d] \in Places /\ pc[d] # "idle" /\ pc[d] \notin Held \cup Replays
    BY <1>1 DEF Local, IInv, Placed, Clears
  <2> QED BY <2>1 DEF Places, Held, Replays, ClearPlaces, DeletePlaces
<1>7. d \in Passes => pc[d] \in {"idle"} \cup DeletePlaces
  BY DEF IInv, Placed
<1> HIDE DEF d
<1>8. DeleterInv(d)'
  BY <1>1, <1>2, <1>3, <1>4 DEF DeleterInv
<1>9. d \in Clears => ClearInv(d)'
  BY <1>1, <1>2 DEF ClearInv, Acknowledged
<1>10. OwnDelete(d) /\ Spared(d)
  BY <1>2, <1>6, <1>7, <1>8, <1>9 DEF OwnDelete, Spared
<1> QED BY <1>5, <1>10 DEF d

------------------------------------------------------------------------------
(* Every step, by who moves.  What it puts on the wire is its own.            *)
NewWire(w) ==
  \A m \in wire' \ wire :
    /\ m.from = w
    /\ w \in Work => egress'[w] # "none"
    /\ w \in Deleters => m.generation \in 1 .. MaxRetirements

Step(w) ==
  /\ Local' /\ Alone(w) /\ Ledgers(w) /\ Spared(w) /\ AcksBacked /\ NewWire(w)
  /\ w \in Work => OwnWork(w)
  /\ w \in Deleters => OwnDelete(w)

LEMMA WorkStep ==
  ASSUME IInv, NEW c \in Work, CallStep(c)
  PROVE  Step(c)
<1>1. c \in Calls /\ c \notin Clears /\ c \notin Passes /\ c \notin Deleters
  BY CallsAssumption DEF Work, Clears, Deleters
<1>2. Local' /\ Alone(c) /\ Spared(c)
  BY <1>1, CallFrame DEF Spared
<1> DEFINE Whole == /\ OwnWork(c) /\ Ledgers(c) /\ UNCHANGED <<retirements, deleted>>
                    /\ wire' \subseteq wire \/ NewWire(c)
<1>3. ASSUME Authorize(c) PROVE Whole
  <2>1. UNCHANGED <<spaceVars, budgetVars, clock, wire, deleted>>
    BY <1>3 DEF Authorize, providerVars
  <2> QED BY <1>3, <2>1, OwnAuthorize, StillLedgers DEF spaceVars
<1>4. ASSUME AdmitFirst(c) PROVE Whole
  <2>1. UNCHANGED <<retirements, wire, deleted>>
    BY <1>4 DEF AdmitFirst, Space!AdmitNew, providerVars
  <2> QED BY <1>4, <2>1, OwnAdmitFirst
<1>5. ASSUME AdmitAgain(c) PROVE Whole
  <2>1. UNCHANGED budgetVars /\ Space!AdmitReplay(SpaceRequest(c))
    BY <1>5 DEF AdmitAgain
  <2>2. UNCHANGED <<retirements, wire, deleted>>
    BY <1>5, <2>1 DEF AdmitAgain, Space!AdmitReplay, providerVars
  <2>3. Ledgers(c)
    BY <1>1, <2>1, ReadLedgers
  <2> QED BY <1>5, <2>2, <2>3, OwnAdmitAgain
<1>6. ASSUME AdmitRefused(c) PROVE Whole
  <2>1. UNCHANGED <<spaceVars, budgetVars, clock, wire, deleted>>
    BY <1>6 DEF AdmitRefused, providerVars
  <2> QED BY <1>6, <2>1, OwnAdmitRefused, StillLedgers DEF spaceVars
<1>7. ASSUME Replay(c) PROVE Whole
  <2>1. UNCHANGED <<spaceVars, budgetVars, clock, wire, deleted>>
    BY <1>7 DEF Replay, providerVars
  <2> QED BY <1>7, <2>1, OwnReplay, StillLedgers DEF spaceVars
<1>8. ASSUME Reserve(c) PROVE Whole
  <2>1. UNCHANGED <<retirements, wire, deleted>>
    BY <1>8 DEF Reserve, spaceVars, providerVars
  <2> QED BY <1>8, <2>1, OwnReserve
<1>9. ASSUME ReserveRefused(c) PROVE Whole
  <2>1. UNCHANGED <<spaceVars, budgetVars, clock, wire, deleted>>
    BY <1>9 DEF ReserveRefused, providerVars
  <2> QED BY <1>9, <2>1, OwnReserveRefused, StillLedgers DEF spaceVars
<1>10. ASSUME Refresh(c) PROVE Whole
  <2>1. UNCHANGED <<spaceVars, budgetVars, clock, wire, deleted>>
    BY <1>10 DEF Refresh, providerVars
  <2> QED BY <1>10, <2>1, OwnRefresh, StillLedgers DEF spaceVars
<1>11. ASSUME CheckDispatch(c) PROVE Whole
  <2>1. UNCHANGED budgetVars /\ Space!Check(SpaceRequest(c), "dispatch")
    BY <1>11 DEF CheckDispatch
  <2>2. UNCHANGED <<retirements, wire, deleted>>
    BY <1>11, <2>1 DEF CheckDispatch, Space!Check, providerVars
  <2>3. Ledgers(c)
    BY <1>1, <2>1, ReadLedgers
  <2> QED BY <1>11, <2>2, <2>3, OwnCheckDispatch
<1>12. ASSUME Send(c) PROVE Whole
  <2>1. UNCHANGED <<spaceVars, budgetVars, clock, deleted>>
    BY <1>12 DEF Send
  <2>2. /\ wire' = wire \cup {[from |-> c, generation |-> operations[Id(c)].generation]}
        /\ egress'[c] = "sent"
    BY <1>1, <1>12 DEF Send, IInv, TypeOK
  <2>3. NewWire(c)
    BY <1>1, <2>2 DEF NewWire
  <2> QED BY <1>12, <2>1, <2>3, OwnSend, StillLedgers DEF spaceVars
<1>13. ASSUME GiveUp(c) PROVE Whole
  <2>1. UNCHANGED <<spaceVars, budgetVars, clock, wire, deleted>>
    BY <1>13 DEF GiveUp, providerVars
  <2> QED BY <1>13, <2>1, OwnGiveUp, StillLedgers DEF spaceVars
<1>14. ASSUME Answered(c) PROVE Whole
  <2>1. UNCHANGED <<spaceVars, budgetVars, clock, wire, deleted>>
    BY <1>14 DEF Answered, providerVars
  <2> QED BY <1>14, <2>1, OwnAnswered, StillLedgers DEF spaceVars
<1>15. ASSUME NotAnswered(c) PROVE Whole
  <2>1. UNCHANGED <<spaceVars, budgetVars, clock, wire, deleted>>
    BY <1>15 DEF NotAnswered, providerVars
  <2> QED BY <1>15, <2>1, OwnNotAnswered, StillLedgers DEF spaceVars
<1>16. ASSUME JournalSpace(c) PROVE Whole
  <2>1. UNCHANGED <<retirements, wire, deleted>>
    BY <1>16 DEF JournalSpace, Space!Finalize, providerVars
  <2> QED BY <1>16, <2>1, OwnJournalSpace
<1>17. ASSUME JournalBudget(c) PROVE Whole
  <2>1. UNCHANGED <<retirements, wire, deleted>>
    BY <1>17 DEF JournalBudget, spaceVars, providerVars
  <2> QED BY <1>17, <2>1, OwnJournalBudget
<1>18. ASSUME JournalRefused(c) PROVE Whole
  <2>1. UNCHANGED <<spaceVars, budgetVars, clock, wire, deleted>>
    BY <1>18 DEF JournalRefused, providerVars
  <2> QED BY <1>18, <2>1, OwnJournalRefused, StillLedgers DEF spaceVars
<1>19. ASSUME Journaled(c) PROVE Whole
  <2>1. UNCHANGED <<spaceVars, budgetVars, clock, wire, deleted>>
    BY <1>19 DEF Journaled, providerVars
  <2> QED BY <1>19, <2>1, OwnJournaled, StillLedgers DEF spaceVars
<1>20. ASSUME RefreshDisclose(c) PROVE Whole
  <2>1. UNCHANGED <<spaceVars, budgetVars, clock, wire, deleted>>
    BY <1>20 DEF RefreshDisclose, providerVars
  <2> QED BY <1>20, <2>1, OwnRefreshDisclose, StillLedgers DEF spaceVars
<1>21. ASSUME CheckDisclose(c) PROVE Whole
  <2>1. UNCHANGED budgetVars /\ Space!Check(SpaceRequest(c), "disclose")
    BY <1>21 DEF CheckDisclose
  <2>2. UNCHANGED <<retirements, wire, deleted>>
    BY <1>21, <2>1 DEF CheckDisclose, Space!Check, providerVars
  <2>3. Ledgers(c)
    BY <1>1, <2>1, ReadLedgers
  <2> QED BY <1>21, <2>2, <2>3, OwnCheckDisclose
<1>22. ASSUME Deliver(c) PROVE Whole
  <2>1. UNCHANGED <<spaceVars, budgetVars, clock, wire, deleted>>
    BY <1>22 DEF Deliver, providerVars
  <2> QED BY <1>22, <2>1, OwnDeliver, StillLedgers DEF spaceVars
<1>23. ASSUME Withhold(c) PROVE Whole
  <2>1. UNCHANGED <<spaceVars, budgetVars, clock, wire, deleted>>
    BY <1>23 DEF Withhold, providerVars
  <2> QED BY <1>23, <2>1, OwnWithhold, StillLedgers DEF spaceVars
<1>24. ~ Clearing(c)
  <2> SUFFICES ASSUME Clearing(c) PROVE FALSE
    OBVIOUS
  <2>1. c \in Clears \/ pc[c] \in ClearPlaces
    BY DEF Clearing, Retire, RetireAgain, RetireRefused, RefreshClear, Report, ClearPlaces, DeletePlaces
  <2> QED BY <1>1, <2>1 DEF IInv, Placed
<1>25. Whole
  BY <1>3, <1>4, <1>5, <1>6, <1>7, <1>8, <1>9, <1>10, <1>11, <1>12, <1>13, <1>14, <1>15, <1>16, <1>17, <1>18, <1>19, <1>20, <1>21, <1>22, <1>23, <1>24
     DEF CallStep, Admission, Dispatching, Journaling, Disclosing
<1>26. AcksBacked
  BY <1>25, UnackedBacked
<1>27. NewWire(c)
  BY <1>25 DEF NewWire
<1> QED BY <1>1, <1>2, <1>25, <1>26, <1>27 DEF Step

LEMMA ClearStep ==
  ASSUME IInv, NEW c \in Clears, CallStep(c)
  PROVE  Step(c)
<1>1. c \in Calls /\ c \notin Work
  BY DEF Clears
<1>2. Local' /\ Alone(c)
  BY <1>1, CallFrame
<1>3. Authorize(c) \/ Clearing(c)
  <2>1. pc[c] \notin Held \cup Replays
    BY <1>1 DEF IInv, Placed
  <2>2. ~ Admission(c)
    BY <1>1, <2>1 DEF Admission, AdmitFirst, AdmitAgain, AdmitRefused, Replay, Replays
  <2>3. ~ Dispatching(c)
    BY <2>1 DEF Dispatching, Reserve, ReserveRefused, Refresh, CheckDispatch, Send, GiveUp, Held
  <2>4. ~ Journaling(c)
    BY <2>1 DEF Journaling, Answered, NotAnswered, JournalSpace, JournalBudget, JournalRefused, Journaled, Held
  <2>5. ~ Disclosing(c)
    BY <2>1 DEF Disclosing, RefreshDisclose, CheckDisclose, Deliver, Withhold, Held
  <2> QED BY <2>2, <2>3, <2>4, <2>5 DEF CallStep
<1>4. UNCHANGED wire
  BY <1>3 DEF Authorize, Clearing, Retire, RetireAgain, RetireRefused, RefreshClear, Report, providerVars
<1>5. NewWire(c)
  BY <1>4 DEF NewWire
<1> QED BY <1>1, <1>2, <1>3, <1>5, OwnClearing DEF Step

LEMMA DeleteStep ==
  ASSUME IInv, NEW d \in Deleters, Deleting(d)
  PROVE  Step(d) /\ d \in Workers
<1>1. Local' /\ Alone(d) /\ pc[d] \in DeletePlaces /\ d \in Workers /\ d \notin Work
  BY DeleteFrame, CallsAssumption DEF Workers, Deleters, Clears, Work
<1>2. NewWire(d)
  <2>1. CASE SendDelete(d)
    <3>1. wire' = wire \cup {DeleteRequest(d)}
      BY <2>1 DEF SendDelete
    <3>2. DeleteRequest(d).from = d /\ DeleteRequest(d).generation \in 1 .. MaxRetirements
      BY <1>1, TargetRow DEF DeleteRequest
    <3> QED BY <1>1, <3>1, <3>2 DEF NewWire
  <2>2. CASE ~ SendDelete(d)
    <3>1. UNCHANGED wire
      BY <2>2 DEF Deleting, DeleteAnswered, DeleteFailed, Acknowledge, AcknowledgeRefused, Doubt,
                  DoubtRefused, providerVars
    <3> QED BY <3>1 DEF NewWire
  <2> QED BY <2>1, <2>2
<1> QED BY <1>1, <1>2, OwnDeleting DEF Step

LEMMA FetchStep ==
  ASSUME IInv, NEW p \in Passes, FetchPending(p)
  PROVE  Step(p)
<1>1. p \notin Work
  BY CallsAssumption DEF Work
<1>2. NewWire(p)
  BY DEF NewWire, FetchPending, providerVars
<1> QED BY <1>1, <1>2, PassFrame, OwnFetch DEF Step

LEMMA CrashStep ==
  ASSUME IInv, NEW w \in Workers, Crash(w)
  PROVE  Step(w)
<1>1. UNCHANGED <<spaceVars, budgetVars, clock, retirements, deleted, wire>>
  BY DEF Crash, spaceVars
<1>2. Ledgers(w)
  BY <1>1, StillLedgers
<1>3. AcksBacked /\ NewWire(w)
  BY <1>1, UnackedBacked DEF NewWire
<1>4. w \in Work => OwnWork(w) /\ w \notin Clears /\ w \notin Deleters
  BY OwnCrash, CallsAssumption DEF Work, Clears, Deleters
<1>5. w \in Deleters => OwnDelete(w) /\ Spared(w)
  BY OwnDeleterCrash
<1>6. w \in Work \/ w \in Deleters
  BY DEF Workers, Deleters, Clears
<1> QED BY <1>2, <1>3, <1>4, <1>5, <1>6, CrashFrame DEF Step, Spared

LEMMA ServeStep ==
  ASSUME IInv, NEW m \in wire, HandleWork(m) \/ HandleDelete(m)
  PROVE  Step(m.from) /\ m.from \in Workers
<1>1. UNCHANGED <<spaceVars, budgetVars, clock, retirements>> /\ wire' \subseteq wire
  BY DEF HandleWork, HandleDelete, spaceVars
<1>2. Ledgers(m.from) /\ NewWire(m.from)
  BY <1>1, StillLedgers DEF NewWire
<1>3. Local' /\ Alone(m.from) /\ m.from \in Workers
  BY ServeFrame
<1>4. CASE HandleWork(m)
  <2>1. m.from \in Work /\ m.from \notin Clears /\ m.from \notin Deleters
    BY <1>4, CallsAssumption DEF HandleWork, Work, Clears, Deleters
  <2>2. AcksBacked
    BY <1>1, <1>4, UnackedBacked DEF HandleWork
  <2> QED BY <1>2, <1>3, <1>4, <2>1, <2>2, OwnServed DEF Step, Spared
<1>5. CASE HandleDelete(m)
  <2>1. m.from \in Deleters /\ m.from \notin Work
    BY <1>5, CallsAssumption DEF HandleDelete, Work, Clears, Deleters
  <2> QED BY <1>2, <1>3, <1>5, <2>1, OwnDeleteServed DEF Step
<1> QED BY <1>4, <1>5

LEMMA StepKeeps ==
  ASSUME IInv, NEW w \in Workers, Step(w)
  PROVE  IInv'
<1>1. /\ Local' /\ Alone(w) /\ Ledgers(w) /\ Spared(w) /\ AcksBacked /\ NewWire(w)
      /\ w \in Work => OwnWork(w)
      /\ w \in Deleters => OwnDelete(w)
  BY DEF Step
<1>2. TypeOK' /\ SpaceInv'
  <2>1. SpaceInv' /\ Budget!BudgetTypeOK'
    BY <1>1 DEF Ledgers
  <2>2. Space!TypeOK'
    BY <2>1 DEF SpaceInv
  <2> QED BY <1>1, <2>1, <2>2 DEF TypeOK, Local, Workers
<1>3. WorkPart'
  BY <1>1, WorkMoves
<1>4. ClearPart'
  BY <1>1, ClearMoves
<1>5. Placed'
  <2>1. ASSUME NEW v \in Workers, v # w PROVE pc'[v] = pc[v]
    BY <1>1, <2>1 DEF Alone, Same
  <2>2. ASSUME NEW c \in Calls
        PROVE  /\ pc'[c] # "idle"
               /\ pc'[c] \in Held \cup Replays => c \in Work
               /\ pc'[c] \in ClearPlaces => c \in Clears
    <3>1. CASE c # w
      BY <2>1, <3>1 DEF IInv, Placed, Workers
    <3>2. CASE c = w /\ c \in Work
      BY <1>1, <3>2 DEF OwnWork, Held, Replays, ClearPlaces, DeletePlaces
    <3>3. CASE c = w /\ c \in Clears
      BY <1>1, <3>3 DEF OwnDelete, Deleters, Held, Replays, ClearPlaces, DeletePlaces
    <3> QED BY <3>1, <3>2, <3>3 DEF Clears
  <2>3. ASSUME NEW p \in Passes PROVE pc'[p] \in {"idle"} \cup DeletePlaces
    <3>1. CASE p # w
      BY <2>1, <3>1 DEF IInv, Placed, Workers
    <3>2. CASE p = w
      BY <1>1, <3>2 DEF OwnDelete, Deleters
    <3> QED BY <3>1, <3>2
  <2> QED BY <2>2, <2>3 DEF Placed
<1>6. Wired'
  <2>1. ASSUME NEW c \in Work, egress[c] # "none" PROVE egress'[c] # "none"
    <3>1. c \in Workers /\ c \in Calls
      BY DEF Workers, Work
    <3>2. CASE c = w
      BY <1>1, <2>1, <3>2 DEF OwnWork
    <3>3. CASE c # w
      BY <1>1, <2>1, <3>1, <3>3 DEF Alone, Same, SameCall
    <3> QED BY <3>2, <3>3
  <2> SUFFICES ASSUME NEW m \in wire'
               PROVE  /\ m.from \in Work => egress'[m.from] # "none"
                      /\ m.from \in Deleters => m.generation \in 1 .. MaxRetirements
    BY DEF Wired, Dispatched
  <2>2. CASE m \in wire
    BY <2>1, <2>2 DEF IInv, Wired, Dispatched
  <2>3. CASE m \notin wire
    BY <1>1, <2>3 DEF NewWire
  <2> QED BY <2>2, <2>3
<1> QED BY <1>2, <1>3, <1>4, <1>5, <1>6 DEF IInv

------------------------------------------------------------------------------
LEMMA InitHolds == Init => IInv
<1> SUFFICES ASSUME Init PROVE IInv
  OBVIOUS
<1>1. /\ DOMAIN operations = {} /\ DOMAIN retirements = {} /\ generation = 1 /\ cursor = 0 /\ clock = 0
      /\ identity = NoIdentity /\ operations = [o \in {} |-> {}] /\ retirements = [r \in {} |-> {}]
  BY DEF Init, Space!Init
<1>2. /\ DOMAIN reservations = {} /\ DOMAIN months = {} /\ total = 0 /\ budget = NoBudget
      /\ reservations = [r \in {} |-> {}] /\ months = [m \in {} |-> {}]
  BY DEF Init, Budget!BudgetInit
<1>3. Space!TypeOK /\ Budget!BudgetTypeOK
  BY <1>1, <1>2 DEF Space!TypeOK, Budget!BudgetTypeOK
<1>4. SpaceInv
  <2>1. IsFiniteSet({}) /\ Cardinality({}) = 0
    BY FS_EmptySet
  <2> QED BY <1>1, <1>3, <2>1, LimitsAssumption DEF SpaceInv
<1>5. /\ pc = [w \in Calls \cup Passes |-> IF w \in Passes THEN "idle" ELSE "start"]
      /\ reserved = [c \in Calls |-> "no"] /\ terminal = [c \in Calls |-> "not_dispatched"]
      /\ outcome = [c \in Calls |-> "none"] /\ egress = [c \in Calls |-> "none"]
      /\ cleanup = [c \in Calls |-> TRUE] /\ answers = {} /\ wire = {}
  BY DEF Init
<1>6. TypeOK
  <2>1. <<>> \in Seq(Ids)
    OBVIOUS
  <2>2. rows \in [Calls \cup Passes -> Seq(Ids)]
    BY <2>1 DEF Init
  <2> QED BY <1>3, <1>5, <2>2 DEF Init, TypeOK, Places, Space!Terminal
<1>7. \A c \in Calls : pc[c] = "start" /\ c \notin Passes
  BY <1>5, CallsAssumption
<1>8. \A p \in Passes : pc[p] = "idle"
  BY <1>5
<1>9. Placed /\ Wired
  BY <1>5, <1>7, <1>8 DEF Placed, Wired, Held, Replays, ClearPlaces, DeletePlaces
<1>10. ASSUME NEW c \in Work PROVE WorkInv(c) /\ ~ Started(c)
  <2>1. c \in Calls
    BY DEF Work
  <2>2. pc[c] = "start" /\ reserved[c] = "no" /\ terminal[c] = "not_dispatched" /\ outcome[c] = "none"
        /\ egress[c] = "none" /\ c \notin answers
    BY <1>5, <1>7, <2>1
  <2> QED BY <1>1, <1>2, <2>2
          DEF WorkInv, Early, Replays, Charged, Held, Unsent, Settled, Disclosed, Started, Dispatched
<1>11. WorkPart
  BY <1>1, <1>2, <1>10 DEF WorkPart, OneHolder, ReservedByHolder, OutcomesHappened
<1>12. ClearPart
  <2>1. \A d \in Deleters : pc[d] \in {"start", "idle"} /\ d \notin answers
    BY <1>5, <1>7, <1>8 DEF Deleters, Clears
  <2>2. \A d \in Deleters : DeleterInv(d)
    BY <2>1 DEF DeleterInv, DeletePlaces
  <2>3. \A c \in Clears : c \in Calls /\ outcome[c] = "none" /\ cleanup[c]
    BY <1>5 DEF Clears
  <2>4. \A c \in Clears : ClearInv(c)
    BY <1>7, <2>3 DEF ClearInv, ClearPlaces, DeletePlaces
  <2> QED BY <1>1, <2>2, <2>4 DEF ClearPart, AcknowledgedDeleted
<1> QED BY <1>4, <1>6, <1>9, <1>11, <1>12 DEF IInv

LEMMA NextKeeps ==
  ASSUME IInv, [Next]_vars
  PROVE  IInv' /\ [Space!Next]_(Space!vars) /\ [Budget!BudgetNext]_(Budget!budgetState)
<1>1. ASSUME NEW w \in Workers, Step(w)
      PROVE  IInv' /\ [Space!Next]_(Space!vars) /\ [Budget!BudgetNext]_(Budget!budgetState)
  BY <1>1, StepKeeps DEF Step, Ledgers
<1>2. ASSUME NEW c \in Calls, CallStep(c) PROVE Step(c) /\ c \in Workers
  BY <1>2, WorkStep, ClearStep DEF Clears, Workers
<1>3. ASSUME NEW p \in Passes, FetchPending(p) PROVE Step(p) /\ p \in Workers
  BY <1>3, FetchStep DEF Workers
<1>4. ASSUME NEW d \in Deleters, Deleting(d) PROVE Step(d) /\ d \in Workers
  BY <1>4, DeleteStep
<1>5. ASSUME NEW m \in wire, HandleWork(m) \/ HandleDelete(m) PROVE Step(m.from) /\ m.from \in Workers
  BY <1>5, ServeStep
<1>6. ASSUME NEW w \in Workers, Crash(w) PROVE Step(w)
  BY <1>6, CrashStep
<1>7. ASSUME Tick \/ UNCHANGED vars \/ \E a \in Actors : Revoke(a)
      PROVE  IInv' /\ [Space!Next]_(Space!vars) /\ [Budget!BudgetNext]_(Budget!budgetState)
  <2>1. Local' /\ UNCHANGED <<spaceVars, budgetVars, pc, callVars, deleteVars, providerVars>>
    BY <1>7, OtherFrame DEF Tick, Revoke, vars, spaceVars, budgetVars, callVars, deleteVars, providerVars
  <2>2. Ledgers(TheSpace)
    <3>1. CASE Tick
      BY <3>1, TickLedgers
    <3>2. CASE ~ Tick
      <4>1. UNCHANGED <<spaceVars, budgetVars, clock>>
        BY <1>7, <3>2 DEF Revoke, vars, spaceVars, budgetVars
      <4> QED BY <4>1, StillLedgers
    <3> QED BY <3>1, <3>2
  <2>3. TypeOK' /\ SpaceInv'
    <3>1. SpaceInv' /\ Budget!BudgetTypeOK'
      BY <2>2 DEF Ledgers
    <3>2. Space!TypeOK'
      BY <3>1 DEF SpaceInv
    <3> QED BY <2>1, <3>1, <3>2 DEF TypeOK, Local, Workers
  <2>4. Placed' /\ Wired'
    BY <2>1 DEF IInv, Placed, Wired, Dispatched, providerVars
  <2>5. WorkPart'
    <3>1. UNCHANGED <<operations, reservations, pc, reserved, terminal, todo, failed, outcome, answers, egress>>
      BY <2>1 DEF spaceVars, budgetVars, callVars, providerVars
    <3>2. OneHolder' /\ ReservedByHolder' /\ OutcomesHappened'
      BY <3>1 DEF IInv, WorkPart, OneHolder, ReservedByHolder, OutcomesHappened, Started, Dispatched
    <3>3. ASSUME NEW c \in Work PROVE WorkInv(c)'
      BY <3>1 DEF IInv, WorkPart, WorkInv, Started, Dispatched, Admitted, Tells, Accepted, AcceptedBudget
    <3> QED BY <3>2, <3>3 DEF WorkPart
  <2>6. ClearPart'
    <3>1. UNCHANGED <<retirements, pc, rows, cleanup, outcome, answers, deleted>>
      BY <2>1 DEF spaceVars, callVars, deleteVars, providerVars
    <3> QED BY <3>1 DEF IInv, ClearPart, DeleterInv, ClearInv, AcknowledgedDeleted, DeletedTarget, Target,
                        Acknowledged
  <2> QED BY <2>2, <2>3, <2>4, <2>5, <2>6 DEF IInv, Ledgers
<1> QED BY <1>1, <1>2, <1>3, <1>4, <1>5, <1>6, <1>7 DEF Next, Workers

(* In every behaviour of the executor, whatever fails and however many calls  *)
(* there are: its variables are of their types, each caller is where its kind *)
(* can be, and the parts of the invariant about the ledgers, the holders of   *)
(* tickets, the wire and the deletions hold.                                  *)
THEOREM ExecutorInvariant == Spec => []IInv
<1>1. Init => IInv
  BY InitHolds
<1>2. IInv /\ [Next]_vars => IInv'
  BY NextKeeps
<1> QED BY <1>1, <1>2, PTL DEF Spec

(* Every variable always has its type, in both ledgers, the executor and the  *)
(* provider.                                                                  *)
THEOREM TypeCorrect == Spec => []TypeOK
<1>1. IInv => TypeOK
  BY DEF IInv
<1> QED BY <1>1, ExecutorInvariant, PTL

(* One operation reaches the provider at most once, however often it is       *)
(* retried, and never without its charge and its admission (SingleEgress).    *)
THEOREM OneEgress == Spec => []SingleEgress
<1>1. ASSUME IInv PROVE SingleEgress
  <2>1. ASSUME NEW c \in Work, Dispatched(c)
        PROVE  /\ Started(c) /\ reserved[c] = "held" /\ WorkInv(c) /\ Admitted(c)
               /\ Id(c) \in DOMAIN reservations /\ reservations[Id(c)].kind = Kind(c)
    BY <1>1, <2>1 DEF IInv, WorkPart, WorkInv, Started
  <2>2. \A c, d \in Work : Dispatched(c) /\ Dispatched(d) /\ Id(c) = Id(d) => c = d
    BY <1>1, <2>1 DEF IInv, WorkPart, OneHolder
  <2>3. \A c \in Work : pc[c] = "ticketed" => Id(c) \notin DOMAIN reservations
    BY <1>1, TicketUncharged
  <2>4. ASSUME NEW c \in Work, Dispatched(c)
        PROVE  /\ Id(c) \in DOMAIN reservations /\ Id(c) \in DOMAIN operations
               /\ operations[Id(c)].actor = Actor(c)
               /\ reservations[Id(c)].kind = operations[Id(c)].kind
    BY <2>1, <2>4 DEF Admitted
  <2> QED BY <2>2, <2>3, <2>4 DEF SingleEgress
<1> QED BY <1>1, ExecutorInvariant, PTL

(* The two journals never tell different outcomes, none of them is a lie, and *)
(* a client is told a result only once both hold it (JournalsTruthful).       *)
THEOREM JournalsAlwaysTruthful == Spec => []JournalsTruthful
<1>1. ASSUME IInv PROVE JournalsTruthful
  <2>1. ASSUME NEW c \in Work, Id(c) \in DOMAIN operations
        PROVE  /\ (Id(c) \in DOMAIN reservations /\ operations[Id(c)].state # "admitted"
                    /\ reservations[Id(c)].state # "admitted")
                    => reservations[Id(c)].state = operations[Id(c)].state
               /\ Dispatched(c) => operations[Id(c)].state # "not_dispatched"
               /\ operations[Id(c)].state = "accepted" => \E d \in Work : Id(d) = Id(c) /\ egress[d] = "served"
               /\ operations[Id(c)].state \in {"unknown", "read_failed"}
                    => \E d \in Work : Id(d) = Id(c) /\ Dispatched(d)
    <3>1. ASSUME Id(c) \in DOMAIN reservations, operations[Id(c)].state # "admitted",
                 reservations[Id(c)].state # "admitted"
          PROVE  reservations[Id(c)].state = operations[Id(c)].state
      <4>1. PICK d \in Work : Id(d) = Id(c) /\ reserved[d] # "no"
        BY <1>1, <3>1 DEF IInv, WorkPart, ReservedByHolder
      <4>2. WorkInv(d) /\ Started(d)
        BY <1>1, <4>1 DEF IInv, WorkPart, Started
      <4>3. /\ Id(d) \in DOMAIN reservations /\ operations[Id(d)].state # "admitted"
            /\ reservations[Id(d)].state # "admitted"
        BY <3>1, <4>1
      <4>4. Tells(operations[Id(d)].state, d) /\ Tells(reservations[Id(d)].state, d)
        BY <4>1, <4>2, <4>3 DEF WorkInv, Admitted
      <4>5. operations[Id(d)].state = terminal[d] /\ reservations[Id(d)].state = terminal[d]
        BY <4>3, <4>4 DEF Tells
      <4> QED BY <4>1, <4>5
    <3>2. ASSUME Dispatched(c) PROVE operations[Id(c)].state # "not_dispatched"
      <4>1. WorkInv(c) /\ Started(c)
        BY <1>1, <3>2 DEF IInv, WorkPart, WorkInv, Started
      <4>2. Tells(operations[Id(c)].state, c) /\ terminal[c] # "not_dispatched"
        BY <3>2, <4>1 DEF WorkInv, Admitted
      <4> QED BY <4>2 DEF Tells
    <3>3. OutcomesHappened
      BY <1>1 DEF IInv, WorkPart
    <3> QED BY <2>1, <3>1, <3>2, <3>3 DEF OutcomesHappened
  <2>2. ASSUME NEW c \in Work
        PROVE  /\ outcome[c] = "ok" => /\ operations[Id(c)].state = "accepted"
                                       /\ reservations[Id(c)].state = "accepted"
               /\ outcome[c] = "replayed" => operations[Id(c)].state = "accepted"
    BY <1>1 DEF IInv, WorkPart, WorkInv, Accepted, AcceptedBudget
  <2> QED BY <2>1, <2>2 DEF JournalsTruthful
<1> QED BY <1>1, ExecutorInvariant, PTL

(* A clear that reports success has retired its generation, one without a     *)
(* pending cleanup left an acknowledged deletion, and only what the provider  *)
(* deleted is acknowledged (ClearTruthful).                                   *)
THEOREM ClearsAlwaysTruthful == Spec => []ClearTruthful
<1>1. ASSUME IInv PROVE ClearTruthful
  <2>1. ASSUME NEW c \in Clears, outcome[c] = "ok"
        PROVE  Id(c) \in DOMAIN retirements /\ retirements[Id(c)].generation < generation
    <3>1. Id(c) \in DOMAIN retirements
      BY <1>1, <2>1 DEF IInv, ClearPart, ClearInv
    <3>2. retirements[Id(c)].generation \in 1 .. generation - 1 /\ generation \in Nat
      BY <1>1, <3>1 DEF IInv, SpaceInv, Space!TypeOK
    <3> QED BY <3>1, <3>2
  <2>2. ASSUME NEW c \in Clears, ~ cleanup[c] PROVE retirements[Id(c)].state = "acknowledged"
    BY <1>1, <2>2 DEF IInv, ClearPart, ClearInv, Acknowledged
  <2> QED BY <1>1, <2>1, <2>2 DEF ClearTruthful, IInv, ClearPart, AcknowledgedDeleted
<1> QED BY <1>1, ExecutorInvariant, PTL

------------------------------------------------------------------------------
(* Where a retirement still reaches a call, and how one moves between places. *)
Underway == {"ticketed", "reserved", "refreshed", "cleared", "sent", "journal", "catch", "recorded",
             "disclosing"}

Passage(c) ==
  /\ pc[c] \notin {"done", "crashed"} /\ access' = access
  /\ outcome'[c] = "ok" => outcome[c] = "ok" \/ pc[c] = "deliver"
  /\ pc'[c] = "deliver" => pc[c] = "disclosing" /\ operations[Id(c)].generation = generation
  /\ pc'[c] = "disclosing" => pc[c] = "recorded" /\ access[Actor(c)]
  /\ pc[c] \in Underway => pc'[c] \in Underway \cup {"deliver", "done"}

LEMMA WorkPassage ==
  ASSUME IInv, NEW c \in Work, CallStep(c)
  PROVE  Passage(c)
<1>1. Local /\ c \in Calls /\ c \in Workers
  BY DEF IInv, TypeOK, Local, Work, Workers
<1>2. ~ Clearing(c)
  <2> SUFFICES ASSUME Clearing(c) PROVE FALSE
    OBVIOUS
  <2>1. c \in Clears \/ pc[c] \in ClearPlaces
    BY DEF Clearing, Retire, RetireAgain, RetireRefused, RefreshClear, Report, ClearPlaces, DeletePlaces
  <2> QED BY <1>1, <2>1 DEF IInv, Placed, Clears
<1>3. ASSUME Authorize(c) PROVE Passage(c)
  BY <1>1, <1>3 DEF Authorize, Passage, Underway, GoTo, Tell, Catch, Local, Authorized, callVars
<1>4. ASSUME AdmitFirst(c) PROVE Passage(c)
  BY <1>1, <1>4 DEF AdmitFirst, Passage, Underway, GoTo, Tell, Catch, Local, Authorized, callVars
<1>5. ASSUME AdmitAgain(c) PROVE Passage(c)
  BY <1>1, <1>5 DEF AdmitAgain, Passage, Underway, GoTo, Tell, Catch, Local, Authorized, callVars
<1>6. ASSUME AdmitRefused(c) PROVE Passage(c)
  BY <1>1, <1>6 DEF AdmitRefused, Passage, Underway, GoTo, Tell, Catch, Local, Authorized, callVars
<1>7. ASSUME Replay(c) PROVE Passage(c)
  BY <1>1, <1>7 DEF Replay, Passage, Underway, GoTo, Tell, Catch, Local, Authorized, callVars
<1>8. ASSUME Reserve(c) PROVE Passage(c)
  BY <1>1, <1>8 DEF Reserve, Passage, Underway, GoTo, Tell, Catch, Local, Authorized, callVars
<1>9. ASSUME ReserveRefused(c) PROVE Passage(c)
  BY <1>1, <1>9 DEF ReserveRefused, Passage, Underway, GoTo, Tell, Catch, Local, Authorized, callVars
<1>10. ASSUME Refresh(c) PROVE Passage(c)
  BY <1>1, <1>10 DEF Refresh, Passage, Underway, GoTo, Tell, Catch, Local, Authorized, callVars
<1>11. ASSUME CheckDispatch(c) PROVE Passage(c)
  BY <1>1, <1>11 DEF CheckDispatch, Passage, Underway, GoTo, Tell, Catch, Local, Authorized, callVars
<1>12. ASSUME Send(c) PROVE Passage(c)
  BY <1>1, <1>12 DEF Send, Passage, Underway, GoTo, Tell, Catch, Local, Authorized, callVars
<1>13. ASSUME GiveUp(c) PROVE Passage(c)
  BY <1>1, <1>13 DEF GiveUp, Passage, Underway, GoTo, Tell, Catch, Local, Authorized, callVars
<1>14. ASSUME Answered(c) PROVE Passage(c)
  BY <1>1, <1>14 DEF Answered, Passage, Underway, GoTo, Tell, Catch, Local, Authorized, callVars
<1>15. ASSUME NotAnswered(c) PROVE Passage(c)
  BY <1>1, <1>15 DEF NotAnswered, Passage, Underway, GoTo, Tell, Catch, Local, Authorized, callVars
<1>16. ASSUME JournalSpace(c) PROVE Passage(c)
  BY <1>1, <1>16 DEF JournalSpace, Passage, Underway, GoTo, Tell, Catch, Local, Authorized, callVars
<1>17. ASSUME JournalBudget(c) PROVE Passage(c)
  BY <1>1, <1>17 DEF JournalBudget, Passage, Underway, GoTo, Tell, Catch, Local, Authorized, callVars
<1>18. ASSUME JournalRefused(c) PROVE Passage(c)
  BY <1>1, <1>18 DEF JournalRefused, Passage, Underway, GoTo, Tell, Catch, Local, Authorized, callVars
<1>19. ASSUME Journaled(c) PROVE Passage(c)
  BY <1>1, <1>19 DEF Journaled, Passage, Underway, GoTo, Tell, Catch, Local, Authorized, callVars
<1>20. ASSUME RefreshDisclose(c) PROVE Passage(c)
  BY <1>1, <1>20 DEF RefreshDisclose, Passage, Underway, GoTo, Tell, Catch, Local, Authorized, callVars
<1>21. ASSUME CheckDisclose(c) PROVE Passage(c)
  BY <1>1, <1>21 DEF CheckDisclose, Passage, Underway, GoTo, Tell, Catch, Local, Authorized, callVars, Space!Check, Space!CheckRejected, SpaceRequest
<1>22. ASSUME Deliver(c) PROVE Passage(c)
  BY <1>1, <1>22 DEF Deliver, Passage, Underway, GoTo, Tell, Catch, Local, Authorized, callVars
<1>23. ASSUME Withhold(c) PROVE Passage(c)
  BY <1>1, <1>23 DEF Withhold, Passage, Underway, GoTo, Tell, Catch, Local, Authorized, callVars
<1> QED BY <1>2, <1>3, <1>4, <1>5, <1>6, <1>7, <1>8, <1>9, <1>10, <1>11, <1>12, <1>13, <1>14, <1>15, <1>16, <1>17, <1>18, <1>19, <1>20, <1>21, <1>22, <1>23
     DEF CallStep, Admission, Dispatching, Journaling, Disclosing

LEMMA StaleStays ==
  ASSUME IInv, [Next]_vars, NEW c \in Work, Stale(c)
  PROVE  Stale(c)'
<1>1. /\ Local /\ c \in Calls /\ c \in Workers /\ c \notin Passes
      /\ outcome[c] # "none" => pc[c] = "done"
  BY CallsAssumption DEF IInv, TypeOK, Local, Work, Workers, WorkPart, WorkInv
<1>2. ASSUME Kept, RetiredUnderway(c)
      PROVE  Id(c) \in DOMAIN operations' /\ operations'[Id(c)].generation # generation' /\ pc[c] \in Underway
  <2>1. /\ operations[Id(c)].generation \in 1 .. generation /\ operations[Id(c)].generation # generation
        /\ generation \in Nat
    BY <1>2 DEF RetiredUnderway, IInv, SpaceInv, Space!TypeOK
  <2>2. /\ Id(c) \in DOMAIN operations' /\ generation <= generation'
        /\ operations'[Id(c)].generation = operations[Id(c)].generation
    BY <1>2 DEF RetiredUnderway, Kept
  <2>3. generation' \in Nat
    <3>1. IInv'
      BY NextKeeps
    <3> QED BY <3>1 DEF IInv, SpaceInv, Space!TypeOK
  <2> QED BY <1>2, <2>1, <2>2, <2>3 DEF RetiredUnderway, Underway
<1>3. ASSUME Kept, Same(c), access[Actor(c)] \/ ~ access'[Actor(c)] PROVE Stale(c)'
  <2>1. pc'[c] = pc[c] /\ outcome'[c] = outcome[c]
    BY <1>1, <1>3 DEF Same, SameCall
  <2>2. RetiredUnderway(c) => RetiredUnderway(c)'
    BY <1>2, <1>3, <2>1 DEF RetiredUnderway
  <2>3. RevokedUnderway(c) => RevokedUnderway(c)'
    BY <1>3, <2>1 DEF RevokedUnderway
  <2> QED BY <2>1, <2>2, <2>3 DEF Stale
<1>4. ASSUME CallStep(c) PROVE Stale(c)'
  <2>1. Passage(c) /\ Kept
    BY <1>4, WorkPassage, WorkStep DEF Step, Ledgers
  <2>2. outcome'[c] # "ok" /\ pc'[c] # "deliver"
    BY <1>1, <2>1 DEF Stale, Passage, RetiredUnderway, RevokedUnderway
  <2>3. CASE RetiredUnderway(c)
    <3>1. pc'[c] \in Underway \cup {"done"}
      BY <1>2, <2>1, <2>2, <2>3 DEF Passage
    <3>2. Id(c) \in DOMAIN operations' /\ operations'[Id(c)].generation # generation'
      BY <1>2, <2>1, <2>3
    <3> QED BY <2>2, <3>1, <3>2 DEF Stale, RetiredUnderway, Underway
  <2>4. CASE RevokedUnderway(c)
    <3>1. ~ access'[Actor(c)] /\ pc'[c] # "disclosing"
      BY <2>1, <2>4 DEF Passage, RevokedUnderway
    <3> QED BY <2>2, <3>1 DEF Stale, RevokedUnderway
  <2> QED BY <2>1, <2>3, <2>4 DEF Stale, Passage
<1>5. ASSUME Crash(c) PROVE Stale(c)'
  BY <1>1, <1>5 DEF Crash, GoTo, Local, Stale, callVars
<1>6. ASSUME NEW w \in Workers, w # c, Step(w), access' = access PROVE Stale(c)'
  BY <1>1, <1>3, <1>6 DEF Step, Ledgers, Alone
<1>7. ASSUME NEW d \in Calls, CallStep(d) PROVE Stale(c)'
  <2>1. CASE d = c
    BY <1>4, <1>7, <2>1
  <2>2. CASE d # c
    <3>1. Step(d) /\ d \in Workers
      BY <1>7, WorkStep, ClearStep DEF Clears, Workers
    <3>2. access' = access
      BY <1>7 DEF CallStep, Admission, Dispatching, Journaling, Disclosing, Clearing, Authorize, AdmitFirst,
        AdmitAgain, AdmitRefused, Replay, Reserve, ReserveRefused, Refresh, CheckDispatch, Send, GiveUp,
        Answered, NotAnswered, JournalSpace, JournalBudget, JournalRefused, Journaled, RefreshDisclose,
        CheckDisclose, Deliver, Withhold, Retire, RetireAgain, RetireRefused, RefreshClear, Report
    <3> QED BY <1>6, <2>2, <3>1, <3>2
  <2> QED BY <2>1, <2>2
<1>8. ASSUME NEW p \in Passes, FetchPending(p) PROVE Stale(c)'
  <2>1. access' = access
    BY <1>8 DEF FetchPending
  <2> QED BY <1>1, <1>6, <1>8, <2>1, FetchStep DEF Workers
<1>9. ASSUME NEW d \in Deleters, Deleting(d) PROVE Stale(c)'
  <2>1. access' = access
    BY <1>9 DEF Deleting, SendDelete, DeleteAnswered, DeleteFailed, Acknowledge, AcknowledgeRefused, Doubt,
                DoubtRefused
  <2>2. d # c
    BY <1>1 DEF Deleters, Clears
  <2> QED BY <1>6, <1>9, <2>1, <2>2, DeleteStep
<1>10. ASSUME NEW m \in wire, HandleWork(m) \/ HandleDelete(m) PROVE Stale(c)'
  <2>1. access' = access /\ pc' = pc /\ outcome' = outcome /\ UNCHANGED spaceVars
    BY <1>10 DEF HandleWork, HandleDelete, callVars
  <2> QED BY <2>1 DEF Stale, RetiredUnderway, RevokedUnderway, spaceVars
<1>11. ASSUME NEW w \in Workers, Crash(w) PROVE Stale(c)'
  <2>1. access' = access
    BY <1>11 DEF Crash
  <2> QED BY <1>5, <1>6, <1>11, <2>1, CrashStep
<1>12. ASSUME Tick \/ UNCHANGED vars PROVE Stale(c)'
  <2>1. UNCHANGED <<access, pc, outcome, operations, generation>>
    BY <1>12 DEF Tick, vars, spaceVars, callVars
  <2> QED BY <2>1 DEF Stale, RetiredUnderway, RevokedUnderway
<1>13. ASSUME NEW a \in Actors, Revoke(a) PROVE Stale(c)'
  <2>1. UNCHANGED <<pc, outcome, operations, generation>>
    BY <1>13 DEF Revoke, spaceVars, callVars
  <2>2. access[Actor(c)] \/ ~ access'[Actor(c)]
    BY <1>1, <1>13 DEF Revoke, Local
  <2> QED BY <2>1, <2>2 DEF Stale, RetiredUnderway, RevokedUnderway
<1> QED BY <1>7, <1>8, <1>9, <1>10, <1>11, <1>12, <1>13 DEF Next, Workers

(* A result is never told once its generation was retired before the last     *)
(* check of the ledger or its actor's access was revoked before the last read *)
(* of the authority (StaleNeverTold).                                         *)
THEOREM StaleIsNeverTold == Spec => StaleNeverTold
<1> SUFFICES ASSUME NEW c \in Work
             PROVE  Spec => [](RetiredUnderway(c) \/ RevokedUnderway(c) => [](outcome[c] # "ok"))
  BY DEF StaleNeverTold
<1>1. IInv /\ (RetiredUnderway(c) \/ RevokedUnderway(c)) => Stale(c)
  BY DEF IInv, WorkPart, WorkInv, RetiredUnderway, RevokedUnderway, Stale
<1>2. IInv /\ [Next]_vars /\ Stale(c) => Stale(c)'
  BY StaleStays
<1>3. Stale(c) => outcome[c] # "ok"
  BY DEF Stale
<1> QED BY <1>1, <1>2, <1>3, ExecutorInvariant, PTL DEF Spec

================================================================================
