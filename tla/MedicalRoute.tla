----------------------------- MODULE MedicalRoute -----------------------------
(***************************************************************************)
(* Medical content of one organization Space on its way to the external    *)
(* memory provider: the routing client that asks for a consent receipt     *)
(* before any content leaves (saas/src/routing/client.ts), the endpoint    *)
(* that issues it (server-api.ts), the organization's consent ledger       *)
(* (ledger.ts, consent.ts), the routed request (server-mcp.ts) with its    *)
(* budget reservation, and the administrators who grant and revoke.        *)
(*                                                                         *)
(* A call stands at an await; authority (D1), ledger, budget and provider  *)
(* are different stores.  Expiries happen at any moment: a reservation     *)
(* ends no later than its ticket, a ticket no later than its receipt.      *)
(***************************************************************************)
EXTENDS Integers, FiniteSets

CONSTANTS
  Calls,       \* calls of the client
  Kind,        \* "ingest" or "search"
  Operation,   \* the operation id each call names; a search has its own
  Content,     \* what it sends: retries of one call send the same
  Decision,    \* the routing decision it carries
  Restricted,  \* the trusted restrictions lock the Space to Seoul
  Admins,      \* administrators changing the consent
  MaxStarted,  \* bound: calls that are made
  MaxVersion,  \* bound: versions of the consent
  MaxFaults    \* bound: lost replies, refused reservations, provider failures, aborts

ASSUME KindAssumption == Kind \in [Calls -> {"ingest", "search"}]
ASSUME SearchAssumption == \A c, d \in Calls : c # d /\ Operation[c] = Operation[d] => {Kind[c], Kind[d]} = {"ingest"}
ASSUME BoundAssumption == MaxVersion \in Nat \ {0} /\ MaxFaults \in Nat

VARIABLES
  consent,   \* the current record: identity, version, granted, past its own end
  access,    \* the caller's credential and membership are in force
  receipts,  \* per call: the consent it was issued under, used, expired
  tickets,   \* per operation: the admitted call and its outcome
  budget,    \* per operation: its reservation
  provider,  \* per operation: how often it was sent and what was served
  at,        \* where each call stands
  left,      \* calls whose content left the client
  gone,      \* calls whose client does not wait any more
  told,      \* what each client was told
  admin,     \* where each administrator stands
  faults

ledger == <<consent, receipts, tickets>>
vars == <<ledger, access, budget, provider, at, left, gone, told, admin, faults>>

Operations == {Operation[c] : c \in Calls}
NoReceipt == [id |-> 0, version |-> 0, used |-> TRUE, old |-> TRUE]
NoTicket == [call |-> "none", content |-> "none", id |-> 0, version |-> 0, state |-> "none", old |-> TRUE]
Ticket(c) == tickets[Operation[c]]
Reservation(c) == budget[Operation[c]]
Owns(c) == Ticket(c).call = c

Places ==
  {"start", "preflight", "issued", "ready", "arrived", "reserve", "refresh", "check", "send", "sent",
   "served", "unserved", "redisclose", "disclose", "undo", "end"}
Contents == {Content[c] : c \in Calls}
Versions == 0 .. MaxVersion

(* A type invariant: journals only hold the states their tables allow. *)
TypeOK ==
  /\ consent \in [id: Versions, version: Versions, granted: BOOLEAN, over: BOOLEAN]
  /\ access \in BOOLEAN
  /\ receipts \in [Calls -> [id: Versions, version: Versions, used: BOOLEAN, old: BOOLEAN]]
  /\ tickets \in [Operations ->
       [call: Calls \cup {"none"}, content: Contents \cup {"none"}, id: Versions, version: Versions,
        state: {"none", "admitted", "accepted", "unknown", "read_failed"}, old: BOOLEAN]]
  /\ budget \in [Operations ->
       [state: {"none", "reserved", "accepted", "unknown", "read_failed", "not_dispatched"}, old: BOOLEAN]]
  /\ provider \in [Operations -> [sent: Nat, served: BOOLEAN, profile: Versions]]
  /\ at \in [Calls -> Places]
  /\ left \subseteq Calls /\ gone \subseteq Calls
  /\ told \in [Calls -> {"nothing", "accepted", "unknown", "failed"}]
  /\ admin \in [Admins -> [place: {"start", "read", "done"}, version: Versions]]
  /\ faults \in 0 .. MaxFaults

Goto(c, place) == at' = [at EXCEPT ![c] = place]
Fault == faults < MaxFaults /\ faults' = faults + 1

------------------------------------------------------------------------------
(* policy.ts: what is locked, uncertain or medical without consent stays in *)
(* Seoul; a decision cannot wave that away by naming another destination.   *)
StaysInSeoul(d, restricted) ==
  \/ d.classification \in {"region-locked", "uncertain"}
  \/ d.classification = "medical" /\ ~ d.consent
  \/ d.seoul \/ restricted

Route(d, restricted) ==
  IF StaysInSeoul(d, restricted)
  THEN IF d.destination = "agent-memory" THEN "denied" ELSE "seoul"
  ELSE IF d.destination = "seoul" THEN "seoul" ELSE "agent-memory"

(* consent.ts: granted, in its period, and the version the caller refers to. *)
Permits(id, version) ==
  consent.granted /\ ~ consent.over /\ consent.id = id /\ consent.version = version

------------------------------------------------------------------------------
(* The client.  The plan is made locally; a receipt is asked for with        *)
(* references only.                                                          *)
(* Mutant: a client that gave up calls every failure definite. *)
RefusesMutant(c) == "failed"

Tell(c, outcome) == told' = [told EXCEPT ![c] = IF @ = "nothing" THEN outcome ELSE @]
Refuses(c) == IF c \in left /\ Kind[c] = "ingest" THEN "unknown" ELSE "failed"

Plan(c) ==
  /\ at[c] = "start"
  /\ IF Route(Decision[c], FALSE) = "agent-memory"
     THEN Goto(c, "preflight") /\ UNCHANGED told
     ELSE Goto(c, "end") /\ Tell(c, "failed")
  /\ UNCHANGED <<ledger, access, budget, provider, left, gone, admin, faults>>

(* POST /v1/routing/consent/check: authority, the ledger's receipt under the *)
(* current consent, and the authority again before it is handed out.         *)
Issue(c) ==
  /\ at[c] = "preflight"
  /\ IF access /\ Permits(consent.id, consent.version) /\ consent.id # 0
     THEN /\ receipts' = [receipts EXCEPT ![c] = [id |-> consent.id, version |-> consent.version,
                                                  used |-> FALSE, old |-> FALSE]]
          /\ Goto(c, "issued") /\ UNCHANGED told
     ELSE Goto(c, "end") /\ Tell(c, "failed") /\ UNCHANGED receipts
  /\ UNCHANGED <<consent, tickets, access, budget, provider, left, gone, admin, faults>>

HandOut(c) ==
  /\ at[c] = "issued"
  /\ IF access /\ ~ receipts[c].old THEN Goto(c, "ready") /\ UNCHANGED told
     ELSE Goto(c, "end") /\ Tell(c, "failed")
  /\ UNCHANGED <<ledger, access, budget, provider, left, gone, admin, faults>>

(* The content leaves the client only with a receipt that still runs. *)
Dispatch(c) ==
  /\ at[c] = "ready"
  /\ IF receipts[c].old
     THEN Goto(c, "end") /\ Tell(c, "failed") /\ UNCHANGED left
     ELSE Goto(c, "arrived") /\ left' = left \cup {c} /\ UNCHANGED told
  /\ UNCHANGED <<ledger, access, budget, provider, gone, admin, faults>>

(* The client gives up, times out or loses the connection. *)
GiveUp(c) ==
  /\ Fault
  /\ at[c] # "start" /\ c \notin gone /\ told[c] = "nothing"
  /\ gone' = gone \cup {c}
  /\ Tell(c, Refuses(c))
  /\ IF c \in left THEN UNCHANGED at ELSE Goto(c, "end")
  /\ UNCHANGED <<ledger, access, budget, provider, left, admin>>

------------------------------------------------------------------------------
(* The routed request.  Until the provider is called, whatever goes wrong    *)
(* leads to "undo"; a client that left may be noticed before any step.       *)
Answer(c, outcome) == Goto(c, "end") /\ Tell(c, outcome)
Rejected(c) == Answer(c, Refuses(c))

(* ledger.consume: the receipt must be unused, unexpired and of the current *)
(* consent; the same operation must carry the same content.                 *)
Consumable(c) ==
  /\ access
  /\ Route(Decision[c], Restricted) = "agent-memory"
  /\ Permits(receipts[c].id, receipts[c].version)
  /\ ~ receipts[c].used /\ ~ receipts[c].old
  /\ Ticket(c).state # "none" => Ticket(c).content = Content[c]

UseReceipt(c) == receipts' = [receipts EXCEPT ![c].used = TRUE]

ConsumeFirst(c) ==
  /\ at[c] = "arrived" /\ Consumable(c) /\ Ticket(c).state = "none"
  /\ UseReceipt(c)
  /\ tickets' = [tickets EXCEPT ![Operation[c]] =
       [call |-> c, content |-> Content[c], id |-> consent.id, version |-> consent.version,
        state |-> "admitted", old |-> FALSE]]
  /\ Goto(c, "reserve")
  /\ UNCHANGED <<consent, access, budget, provider, left, gone, told, admin, faults>>

ConsumeReplay(c) ==
  /\ at[c] = "arrived" /\ Consumable(c) /\ Ticket(c).state # "none"
  /\ UseReceipt(c)
  /\ Answer(c, IF Ticket(c).state = "accepted" THEN "accepted" ELSE Refuses(c))
  /\ UNCHANGED <<consent, tickets, access, budget, provider, left, gone, admin, faults>>

ConsumeRefused(c) ==
  /\ at[c] = "arrived" /\ ~ Consumable(c)
  /\ Rejected(c)
  /\ UNCHANGED <<ledger, access, budget, provider, left, gone, admin, faults>>

(* The deployment budget reserves once per operation.  It may refuse, and a *)
(* reply that got lost may have reserved.                                   *)
Reserve(c) ==
  LET reserved == [budget EXCEPT ![Operation[c]] = [state |-> "reserved", old |-> FALSE]]
  IN /\ at[c] = "reserve" /\ Reservation(c).state = "none"
     /\ \/ budget' = reserved /\ Goto(c, "refresh") /\ UNCHANGED faults
        \/ budget' \in {budget, reserved} /\ Goto(c, "undo") /\ Fault
     /\ UNCHANGED <<ledger, access, provider, left, gone, told, admin>>

Refresh(c) ==
  /\ at[c] \in {"refresh", "redisclose"}
  /\ IF access THEN Goto(c, IF at[c] = "refresh" THEN "check" ELSE "disclose") /\ UNCHANGED told
     ELSE IF at[c] = "refresh" THEN Goto(c, "undo") /\ UNCHANGED told
     ELSE Rejected(c)
  /\ UNCHANGED <<ledger, access, budget, provider, left, gone, admin, faults>>

(* ledger.checkTicket under the consent of the ticket, then the deadline. *)
Checked(c, state) ==
  /\ Owns(c) /\ Permits(Ticket(c).id, Ticket(c).version)
  /\ ~ Ticket(c).old /\ Ticket(c).state = state

CheckDispatch(c) ==
  /\ at[c] = "check"
  /\ Goto(c, IF Checked(c, "admitted") /\ ~ Reservation(c).old THEN "send" ELSE "undo")
  /\ UNCHANGED <<ledger, access, budget, provider, left, gone, told, admin, faults>>

Send(c) ==
  /\ at[c] = "send"
  /\ provider' = [provider EXCEPT ![Operation[c]].sent = @ + 1, ![Operation[c]].profile = Ticket(c).id]
  /\ Goto(c, "sent")
  /\ UNCHANGED <<ledger, access, budget, left, gone, told, admin, faults>>

(* External: the provider serves the request; its answer may get lost. *)
Serve(c) ==
  /\ at[c] = "sent"
  /\ \/ /\ provider' = [provider EXCEPT ![Operation[c]].served = TRUE]
        /\ Goto(c, "served") /\ UNCHANGED faults
     \/ /\ Fault
        /\ provider' \in {provider, [provider EXCEPT ![Operation[c]].served = TRUE]}
        /\ Goto(c, "unserved")
  /\ UNCHANGED <<ledger, access, budget, left, gone, told, admin>>

(* Mutant: an answer that got lost is journaled like one that came. *)
OutcomeMutant(c) == "accepted"

(* finalize writes both journals, each of which may fail on its own. *)
Outcome(c) ==
  IF at[c] = "served" THEN "accepted" ELSE IF Kind[c] = "ingest" THEN "unknown" ELSE "read_failed"

Journal(c, inLedger, inBudget) ==
  /\ tickets' = IF inLedger /\ Ticket(c).state = "admitted"
                THEN [tickets EXCEPT ![Operation[c]].state = Outcome(c)] ELSE tickets
  /\ budget' = IF inBudget THEN [budget EXCEPT ![Operation[c]].state = Outcome(c)] ELSE budget

Finalize(c) ==
  /\ at[c] \in {"served", "unserved"}
  /\ \/ /\ Journal(c, TRUE, TRUE) /\ UNCHANGED faults
        /\ IF at[c] = "served" THEN Goto(c, "redisclose") /\ UNCHANGED told ELSE Rejected(c)
     \/ /\ Fault
        /\ \E inLedger, inBudget \in BOOLEAN : Journal(c, inLedger, inBudget)
        /\ Rejected(c)
  /\ UNCHANGED <<consent, receipts, access, provider, left, gone, admin>>

(* Mutant: what was accepted is disclosed without another look. *)
DiscloseMutant(c) ==
  /\ at[c] = "disclose"
  /\ Answer(c, "accepted")
  /\ UNCHANGED <<ledger, access, budget, provider, left, gone, admin, faults>>

Disclose(c) ==
  /\ at[c] = "disclose"
  /\ IF Checked(c, "accepted") /\ ~ Reservation(c).old THEN Answer(c, "accepted") ELSE Rejected(c)
  /\ UNCHANGED <<ledger, access, budget, provider, left, gone, admin, faults>>

(* Before the provider was called the reservation is closed, if that works. *)
Undo(c) ==
  /\ at[c] = "undo"
  /\ budget' \in IF Reservation(c).state = "reserved"
                 THEN {[budget EXCEPT ![Operation[c]].state = "not_dispatched"]} \cup
                      (IF faults < MaxFaults THEN {budget} ELSE {})
                 ELSE {budget}
  /\ Rejected(c)
  /\ UNCHANGED <<ledger, access, provider, left, gone, admin, faults>>

(* A reply of the ledger or the budget is lost, or the request was aborted. *)
Interrupted(c) ==
  /\ at[c] \in {"issued", "reserve", "refresh", "check", "redisclose", "disclose"}
  /\ \/ c \in gone /\ UNCHANGED faults
     \/ Fault
  /\ IF at[c] \in {"refresh", "check"} THEN Goto(c, "undo") /\ UNCHANGED told ELSE Rejected(c)
  /\ UNCHANGED <<ledger, access, budget, provider, left, gone, admin>>

------------------------------------------------------------------------------
(* Administrators compare and set: a grant keeps the identity of a consent  *)
(* that is in force and makes a new one after a revocation.                 *)
Step(a, place, version) == admin' = [admin EXCEPT ![a] = [place |-> place, version |-> version]]

ReadConsent(a) ==
  /\ admin[a].place = "start"
  /\ Step(a, "read", consent.version)
  /\ UNCHANGED <<ledger, access, budget, provider, at, left, gone, told, faults>>

Save(a, record) ==
  /\ consent' = record
  /\ UNCHANGED <<receipts, tickets, access, budget, provider, at, left, gone, told, faults>>

Grant(a) ==
  /\ admin[a].place = "read" /\ consent.version < MaxVersion
  /\ admin[a].version = consent.version
  /\ Save(a, [id |-> IF consent.granted THEN consent.id ELSE consent.version + 1,
              version |-> consent.version + 1, granted |-> TRUE, over |-> FALSE])
  /\ Step(a, "done", consent.version + 1)

Revoke(a) ==
  /\ admin[a].place = "read" /\ consent.version < MaxVersion
  /\ admin[a].version = consent.version /\ consent.granted
  /\ Save(a, [consent EXCEPT !.granted = FALSE, !.version = @ + 1])
  /\ Step(a, "done", consent.version + 1)

Conflict(a) ==
  /\ admin[a].place = "read"
  /\ admin[a].version # consent.version \/ consent.version = 0 \/ ~ consent.granted
  /\ Step(a, "start", 0)
  /\ UNCHANGED <<ledger, access, budget, provider, at, left, gone, told, faults>>

(* Time and the directory. *)
ConsentEnds ==
  /\ consent.granted /\ ~ consent.over /\ Fault
  /\ consent' = [consent EXCEPT !.over = TRUE]
  /\ UNCHANGED <<receipts, tickets, access, budget, provider, at, left, gone, told, admin>>

AccessEnds ==
  /\ access /\ Fault /\ access' = FALSE
  /\ UNCHANGED <<ledger, budget, provider, at, left, gone, told, admin>>

Expire(c) ==
  /\ Fault
  /\ at[c] \notin {"start", "end"}
  /\ \E receipt, ticket \in BOOLEAN :
       /\ receipt => ticket
       /\ receipts' = IF receipt THEN [receipts EXCEPT ![c].old = TRUE] ELSE receipts
       /\ tickets' = IF ticket /\ Owns(c) THEN [tickets EXCEPT ![Operation[c]].old = TRUE] ELSE tickets
       /\ budget' = IF Owns(c) THEN [budget EXCEPT ![Operation[c]].old = TRUE] ELSE budget
  /\ UNCHANGED <<consent, access, provider, at, left, gone, told, admin>>

------------------------------------------------------------------------------
Init ==
  /\ consent = [id |-> 1, version |-> 1, granted |-> TRUE, over |-> FALSE]
  /\ access = TRUE
  /\ receipts = [c \in Calls |-> NoReceipt]
  /\ tickets = [o \in Operations |-> NoTicket]
  /\ budget = [o \in Operations |-> [state |-> "none", old |-> TRUE]]
  /\ provider = [o \in Operations |-> [sent |-> 0, served |-> FALSE, profile |-> 0]]
  /\ \E started \in SUBSET Calls :
       /\ Cardinality(started) <= MaxStarted
       /\ at = [c \in Calls |-> IF c \in started THEN "start" ELSE "end"]
  /\ left = {} /\ gone = {}
  /\ told = [c \in Calls |-> "nothing"]
  /\ admin = [a \in Admins |-> [place |-> "start", version |-> 0]]
  /\ faults = 0

Client(c) == Plan(c) \/ Issue(c) \/ HandOut(c) \/ Dispatch(c) \/ GiveUp(c)
Server(c) ==
  \/ ConsumeFirst(c) \/ ConsumeReplay(c) \/ ConsumeRefused(c)
  \/ Reserve(c) \/ Refresh(c) \/ CheckDispatch(c) \/ Send(c) \/ Serve(c)
  \/ Finalize(c) \/ Disclose(c) \/ Undo(c) \/ Interrupted(c)
Administer(a) == ReadConsent(a) \/ Grant(a) \/ Revoke(a) \/ Conflict(a)

Next ==
  \/ \E c \in Calls : Client(c) \/ Server(c) \/ Expire(c)
  \/ \E a \in Admins : Administer(a)
  \/ ConsentEnds \/ AccessEnds

Spec == Init /\ [][Next]_vars

------------------------------------------------------------------------------
(* The journals of the ledger and the budget say of the provider what is so: *)
(* accepted was served, not dispatched was never sent, and what was sent has *)
(* a reservation that says nothing else and was sent once, whatever calls    *)
(* retry it with fresh receipts and whatever replies were lost.              *)
JournalsTruthful ==
  \A o \in Operations :
    /\ provider[o].sent <= 1
    /\ "accepted" \in {tickets[o].state, budget[o].state} => provider[o].served
    /\ budget[o].state = "not_dispatched" => provider[o].sent = 0
    /\ provider[o].sent > 0 => budget[o].state \notin {"none", "not_dispatched"}

(* A client that was told of acceptance has it, and one that was told of    *)
(* failure never let the content of an ingest go.                           *)
ClientTruthful ==
  \A c \in Calls :
    /\ told[c] = "accepted" => provider[Operation[c]].served
    /\ told[c] = "failed" /\ Kind[c] = "ingest" => c \notin left

(* What the provider answered is disclosed only while the very consent it   *)
(* was asked under is in force, and from the profile of that consent.       *)
DisclosedUnderConsent ==
  [][\A c \in Calls : at[c] = "disclose" /\ told'[c] = "accepted" /\ told[c] = "nothing"
       => Permits(provider[Operation[c]].profile, Ticket(c).version)]_vars
===============================================================================
