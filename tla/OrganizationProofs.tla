--------------------------- MODULE OrganizationProofs ---------------------------
(* Proofs about what an organization holds, for any calls, retries, subjects, *)
(* events, administrators and bounds.  MedicalRoute: what the journals and    *)
(* the client say of the provider is so, and nothing is disclosed but under   *)
(* the consent it was asked under.  Accounts: whatever order the events of    *)
(* the issuer arrive in, nothing is in force that was not proved after the    *)
(* last one received, and nothing of an ended membership acts.                *)
EXTENDS MedicalRoute, Accounts, FiniteSetTheorems, SequenceTheorems, WellFoundedInduction, TLAPS

(* The type of each variable, to cite one without the others. *)
ConsentType == [id: Versions, version: Versions, granted: BOOLEAN, over: BOOLEAN]
ReceiptType == [id: Versions, version: Versions, used: BOOLEAN, old: BOOLEAN]
TicketType ==
  [call: Calls \cup {"none"}, content: Contents \cup {"none"}, id: Versions, version: Versions,
   state: {"none", "admitted", "accepted", "unknown", "read_failed"}, old: BOOLEAN]
BudgetType ==
  [state: {"none", "reserved", "accepted", "unknown", "read_failed", "not_dispatched"}, old: BOOLEAN]
ProviderType == [sent: Nat, served: BOOLEAN, profile: Versions]
AdminType == [place: {"start", "read", "done"}, version: Versions]

(* Where a call stands whose content is still at the client, and where one    *)
(* stands that was admitted.                                                  *)
AtClient == {"start", "preflight", "issued", "ready"}
Underway ==
  {"reserve", "refresh", "check", "send", "sent", "served", "unserved", "redisclose", "disclose", "undo"}

(* JournalsTruthful, of one operation, and that nothing is reserved before    *)
(* it is admitted.                                                            *)
Truthful(o) ==
  /\ provider[o].sent <= 1
  /\ "accepted" \in {tickets[o].state, budget[o].state} => provider[o].served
  /\ budget[o].state \in {"none", "not_dispatched"} => provider[o].sent = 0
  /\ tickets[o].state = "none" => budget[o].state = "none"

(* An admitted call is the only one of its operation that is: the ticket is   *)
(* its own.  What the stores say of the operation follows from its place.     *)
Holding(c) ==
  /\ at[c] \in Underway => Owns(c) /\ Ticket(c).state # "none"
  /\ at[c] = "reserve" => Reservation(c).state = "none" /\ Ticket(c).state = "admitted"
  /\ at[c] \in {"refresh", "check", "send"} =>
       Reservation(c).state = "reserved" /\ Ticket(c).state = "admitted" /\ provider[Operation[c]].sent = 0
  /\ at[c] = "undo" =>
       Reservation(c).state \in {"none", "reserved"} /\ provider[Operation[c]].sent = 0
  /\ at[c] \in {"sent", "served", "unserved"} =>
       Reservation(c).state = "reserved" /\ Ticket(c).state = "admitted" /\ provider[Operation[c]].sent = 1
  /\ at[c] = "served" => provider[Operation[c]].served
  /\ at[c] \in {"redisclose", "disclose"} =>
       /\ Reservation(c).state = "accepted" /\ Ticket(c).state = "accepted"
       /\ provider[Operation[c]].sent = 1 /\ provider[Operation[c]].served
  /\ at[c] \in {"sent", "served", "unserved", "redisclose", "disclose"} =>
       provider[Operation[c]].profile = Ticket(c).id

(* What a client was told, and where its content is. *)
Waiting(c) ==
  /\ at[c] \in AtClient => told[c] = "nothing" /\ c \notin left
  /\ at[c] \notin AtClient \cup {"end"} => c \in left
  /\ told[c] = "accepted" => provider[Operation[c]].served
  /\ told[c] = "failed" /\ Kind[c] = "ingest" => c \notin left

(* Inductive. *)
IInv ==
  /\ TypeOK
  /\ \A o \in Operations : Truthful(o)
  /\ \A c \in Calls : Holding(c)
  /\ \A c \in Calls : Waiting(c)

------------------------------------------------------------------------------
(* TypeOK by the types of the variables. *)
LEMMA RouteTypeParts ==
  TypeOK <=>
    /\ consent \in ConsentType /\ access \in BOOLEAN
    /\ receipts \in [Calls -> ReceiptType]
    /\ tickets \in [Operations -> TicketType]
    /\ budget \in [Operations -> BudgetType]
    /\ provider \in [Operations -> ProviderType]
    /\ at \in [Calls -> Places]
    /\ left \subseteq Calls /\ gone \subseteq Calls
    /\ told \in [Calls -> {"nothing", "accepted", "unknown", "failed"}]
    /\ admin \in [Admins -> AdminType]
    /\ faults \in 0 .. MaxFaults
  BY DEF TypeOK, ConsentType, ReceiptType, TicketType, BudgetType, ProviderType, AdminType

(* The call goes to a place and the others stay. *)
LEMMA Goes ==
  ASSUME TypeOK, NEW c \in Calls, NEW place \in Places, Goto(c, place)
  PROVE  /\ at' \in [Calls -> Places] /\ at'[c] = place
         /\ \A b \in Calls \ {c} : at'[b] = at[b]
  BY DEF Goto, TypeOK

(* The client is told once. *)
LEMMA IsTold ==
  ASSUME TypeOK, NEW c \in Calls, NEW outcome \in {"accepted", "unknown", "failed"}, Tell(c, outcome)
  PROVE  /\ told' \in [Calls -> {"nothing", "accepted", "unknown", "failed"}]
         /\ told'[c] = IF told[c] = "nothing" THEN outcome ELSE told[c]
         /\ \A b \in Calls \ {c} : told'[b] = told[b]
  BY DEF Tell, TypeOK

LEMMA OwnOperation == \A c \in Calls : Operation[c] \in Operations
  BY DEF Operations

(* A fault is counted. *)
LEMMA Faults == TypeOK /\ (Fault \/ UNCHANGED faults) => faults' \in 0 .. MaxFaults
  BY BoundAssumption DEF Fault, TypeOK

LEMMA InitKeeps == Init => IInv
<1> SUFFICES ASSUME Init PROVE IInv
  OBVIOUS
<1>1. TypeOK
  <2>1. 0 \in Versions /\ 1 \in Versions /\ 0 \in 0 .. MaxFaults
    BY BoundAssumption DEF Versions
  <2>2. consent \in ConsentType /\ access \in BOOLEAN
    BY <2>1 DEF Init, ConsentType
  <2>3. NoReceipt \in ReceiptType /\ NoTicket \in TicketType
    BY <2>1 DEF NoReceipt, NoTicket, ReceiptType, TicketType
  <2>4. receipts \in [Calls -> ReceiptType] /\ tickets \in [Operations -> TicketType]
    BY <2>3 DEF Init
  <2>5. budget \in [Operations -> BudgetType] /\ provider \in [Operations -> ProviderType]
    BY <2>1 DEF Init, BudgetType, ProviderType
  <2>6. at \in [Calls -> Places] /\ left \subseteq Calls /\ gone \subseteq Calls
    BY DEF Init, Places
  <2>7. told \in [Calls -> {"nothing", "accepted", "unknown", "failed"}] /\ faults \in 0 .. MaxFaults
    BY <2>1 DEF Init
  <2>8. admin \in [Admins -> AdminType]
    BY <2>1 DEF Init, AdminType
  <2> QED BY <2>2, <2>4, <2>5, <2>6, <2>7, <2>8, RouteTypeParts
<1>2. ASSUME NEW o \in Operations PROVE Truthful(o)
  BY <1>2 DEF Truthful, Init, NoTicket
<1>3. ASSUME NEW c \in Calls PROVE at[c] \in {"start", "end"} /\ told[c] = "nothing" /\ c \notin left
  BY <1>3 DEF Init
<1>4. \A c \in Calls : Holding(c) /\ Waiting(c)
  BY <1>3 DEF Holding, Waiting, Underway, AtClient
<1> QED BY <1>1, <1>2, <1>4 DEF IInv

------------------------------------------------------------------------------
(* What the stores hold of an operation, up to what may only expire. *)
SameOf(o) ==
  /\ tickets'[o].state = tickets[o].state /\ tickets'[o].call = tickets[o].call /\ tickets'[o].id = tickets[o].id
  /\ budget'[o].state = budget[o].state
  /\ provider'[o] = provider[o]

(* A call that stays, and whose operation does if it is admitted, keeps its  *)
(* part.                                                                     *)
LEMMA HoldingStays ==
  ASSUME NEW b \in Calls, Holding(b), at'[b] = at[b], at[b] \in Underway => SameOf(Operation[b])
  PROVE  Holding(b)'
<1>1. CASE at[b] \in Underway
  BY <1>1 DEF Holding, Owns, Ticket, Reservation, SameOf
<1>2. CASE at[b] \notin Underway
  BY <1>2 DEF Holding, Underway
<1> QED BY <1>1, <1>2

(* A step of a call that leaves the others where they are, and the stores    *)
(* too but for an operation it is admitted for or the first to be, has to    *)
(* keep only its own part.                                                   *)
LEMMA StepKeeps ==
  ASSUME IInv, TypeOK', NEW c \in Calls,
         \A b \in Calls \ {c} : at'[b] = at[b] /\ told'[b] = told[b] /\ (b \in left' <=> b \in left),
         \A o \in Operations \ {Operation[c]} : SameOf(o),
         SameOf(Operation[c]) \/ at[c] \in Underway \/ Ticket(c).state = "none",
         provider[Operation[c]].served => provider'[Operation[c]].served,
         Truthful(Operation[c])', Holding(c)', Waiting(c)'
  PROVE  IInv'
<1>1. ASSUME NEW o \in Operations PROVE Truthful(o)'
  <2>1. CASE o = Operation[c]
    BY <2>1
  <2>2. CASE o # Operation[c]
    BY <2>2 DEF SameOf, Truthful, IInv
  <2> QED BY <2>1, <2>2
<1>2. ASSUME NEW b \in Calls, b # c PROVE Holding(b)' /\ Waiting(b)'
  <2>1. Operation[b] \in Operations /\ Operation[c] \in Operations /\ Holding(b) /\ Holding(c) /\ Waiting(b)
    BY OwnOperation DEF IInv
  <2>2. at'[b] = at[b] /\ told'[b] = told[b] /\ (b \in left' <=> b \in left)
    BY <1>2
  <2>3. provider[Operation[b]].served => provider'[Operation[b]].served
    BY <2>1 DEF SameOf
  <2>4. Waiting(b)'
    BY <2>1, <2>2, <2>3 DEF Waiting
  <2>5. at[b] \in Underway => SameOf(Operation[b])
    BY <1>2, <2>1 DEF Holding, Owns, Ticket
  <2>6. Holding(b)'
    BY <2>1, <2>2, <2>5, HoldingStays
  <2> QED BY <2>4, <2>6
<1> QED BY <1>1, <1>2 DEF IInv

(* Such a step, when it leaves the stores alone. *)
LEMMA QuietKeeps ==
  ASSUME IInv, TypeOK', NEW c \in Calls, UNCHANGED <<tickets, budget, provider>>,
         \A b \in Calls \ {c} : at'[b] = at[b] /\ told'[b] = told[b] /\ (b \in left' <=> b \in left),
         Holding(c)', Waiting(c)'
  PROVE  IInv'
<1>1. \A o \in Operations : SameOf(o)
  BY DEF SameOf
<1>2. Operation[c] \in Operations /\ Truthful(Operation[c])'
  BY OwnOperation DEF IInv, Truthful
<1> QED BY <1>1, <1>2, StepKeeps

------------------------------------------------------------------------------
(* A call that ends says to its client what its outcome was, or what a call  *)
(* that failed may say: of an ingest whose content left, never that nothing  *)
(* happened.                                                                 *)
LEMMA EndKeeps ==
  ASSUME IInv, NEW c \in Calls, NEW outcome \in {"accepted", Refuses(c)}, Answer(c, outcome),
         outcome = "accepted" => provider'[Operation[c]].served,
         provider[Operation[c]].served => provider'[Operation[c]].served,
         left' = left
  PROVE  /\ at' \in [Calls -> Places] /\ told' \in [Calls -> {"nothing", "accepted", "unknown", "failed"}]
         /\ at'[c] = "end"
         /\ \A b \in Calls \ {c} : at'[b] = at[b] /\ told'[b] = told[b]
         /\ Holding(c)' /\ Waiting(c)'
<1>1. Refuses(c) \in {"unknown", "failed"}
  BY DEF Refuses
<1>2. "end" \in Places /\ outcome \in {"accepted", "unknown", "failed"}
  BY <1>1 DEF Places
<1>3. /\ at' \in [Calls -> Places] /\ at'[c] = "end"
      /\ \A b \in Calls \ {c} : at'[b] = at[b]
  BY <1>2, Goes DEF Answer, IInv
<1>4. /\ told' \in [Calls -> {"nothing", "accepted", "unknown", "failed"}]
      /\ told'[c] = IF told[c] = "nothing" THEN outcome ELSE told[c]
      /\ \A b \in Calls \ {c} : told'[b] = told[b]
  BY <1>2, IsTold DEF Answer, IInv
<1>5. Holding(c)'
  BY <1>3 DEF Holding, Underway
<1>6. Waiting(c)'
  <2>1. Waiting(c)
    BY DEF IInv
  <2>2. CASE told[c] = "nothing"
    BY <1>1, <1>3, <1>4, <2>2 DEF Waiting, AtClient, Refuses
  <2>3. CASE told[c] # "nothing"
    BY <1>3, <1>4, <2>1, <2>3 DEF Waiting, AtClient
  <2> QED BY <2>2, <2>3
<1> QED BY <1>3, <1>4, <1>5, <1>6

(* The client's own steps touch no store but the receipts. *)
LEMMA ClientKeeps ==
  ASSUME IInv, NEW c \in Calls, Client(c)
  PROVE  IInv'
<1> USE DEF IInv
<1>1. Holding(c) /\ Waiting(c) /\ Operation[c] \in Operations
  BY OwnOperation
<1>2. UNCHANGED <<consent, tickets, access, budget, provider, admin>> /\ (Fault \/ UNCHANGED faults)
  BY DEF Client, Plan, Issue, HandOut, Dispatch, GiveUp, ledger
<1>3. faults' \in 0 .. MaxFaults
  BY <1>2, Faults
<1>4. receipts' \in [Calls -> ReceiptType]
  <2>1. receipts \in [Calls -> ReceiptType] /\ consent \in ConsentType
    BY RouteTypeParts
  <2>2. CASE Issue(c)
    <3>1. [id |-> consent.id, version |-> consent.version, used |-> FALSE, old |-> FALSE] \in ReceiptType
      BY <2>1 DEF ReceiptType, ConsentType
    <3> QED BY <2>1, <2>2, <3>1 DEF Issue
  <2>3. CASE Plan(c) \/ HandOut(c) \/ Dispatch(c) \/ GiveUp(c)
    BY <2>1, <2>3 DEF Plan, HandOut, Dispatch, GiveUp, ledger
  <2> QED BY <2>2, <2>3 DEF Client
<1>5. left' \subseteq Calls /\ gone' \subseteq Calls /\ \A b \in Calls \ {c} : b \in left' <=> b \in left
  BY RouteTypeParts DEF Client, Plan, Issue, HandOut, Dispatch, GiveUp
<1>6. ASSUME at' \in [Calls -> Places], told' \in [Calls -> {"nothing", "accepted", "unknown", "failed"}],
             \A b \in Calls \ {c} : at'[b] = at[b] /\ told'[b] = told[b],
             Holding(c)', Waiting(c)'
      PROVE  IInv'
  <2>1. TypeOK'
    BY <1>2, <1>3, <1>4, <1>5, <1>6, RouteTypeParts
       DEF TypeOK, ReceiptType
  <2> QED BY <2>1, <1>2, <1>5, <1>6, QuietKeeps
(* It goes on with nothing said, at the client or, with its content, from it. *)
<1>7. ASSUME NEW place \in {"preflight", "issued", "ready", "arrived"}, Goto(c, place), told' = told,
             at[c] \in AtClient, left' = IF place = "arrived" THEN left \cup {c} ELSE left
      PROVE  IInv'
  <2>1. /\ at' \in [Calls -> Places] /\ at'[c] = place
        /\ \A b \in Calls \ {c} : at'[b] = at[b]
    BY <1>7, Goes DEF Places
  <2>2. Holding(c)'
    BY <2>1 DEF Holding, Underway
  <2>3. Waiting(c)'
    BY <1>1, <1>7, <2>1 DEF Waiting, AtClient
  <2> QED BY <1>6, <1>7, <2>1, <2>2, <2>3, RouteTypeParts
(* It ends with its content still at the client. *)
<1>8. ASSUME Goto(c, "end"), Tell(c, "failed"), at[c] \in AtClient, left' = left
      PROVE  IInv'
  <2>1. "failed" = Refuses(c)
    BY <1>1, <1>8 DEF Waiting, Refuses
  <2>2. Answer(c, "failed")
    BY <1>8 DEF Answer
  <2> QED BY <1>2, <1>6, <1>8, <2>1, <2>2, EndKeeps
<1>9. CASE Plan(c)
  BY <1>7, <1>8, <1>9 DEF Plan, AtClient
<1>10. CASE Issue(c)
  BY <1>7, <1>8, <1>10 DEF Issue, AtClient
<1>11. CASE HandOut(c)
  BY <1>7, <1>8, <1>11 DEF HandOut, AtClient
<1>12. CASE Dispatch(c)
  BY <1>7, <1>8, <1>12 DEF Dispatch, AtClient
<1>13. CASE GiveUp(c)
  <2>1. Tell(c, Refuses(c)) /\ left' = left /\ told[c] = "nothing"
    BY <1>13 DEF GiveUp
  <2>2. CASE c \notin left
    <3>1. Answer(c, Refuses(c))
      BY <1>13, <2>2 DEF GiveUp, Answer
    <3>2. Refuses(c) # "accepted"
      BY DEF Refuses
    <3> QED BY <1>2, <1>6, <2>1, <3>1, <3>2, EndKeeps
  <2>3. CASE c \in left
    <3>1. at' = at
      BY <1>13, <2>3 DEF GiveUp
    <3>2. Refuses(c) \in {"unknown", "failed"} /\ (Kind[c] = "ingest" => Refuses(c) = "unknown")
      BY <2>3 DEF Refuses
    <3>3. /\ told' \in [Calls -> {"nothing", "accepted", "unknown", "failed"}]
          /\ told'[c] = Refuses(c)
          /\ \A b \in Calls \ {c} : told'[b] = told[b]
      BY <2>1, <3>2, IsTold
    <3>4. Holding(c)'
      BY <1>1, <1>2, <3>1, HoldingStays DEF SameOf
    <3>5. Waiting(c)'
      BY <1>1, <2>1, <2>3, <3>1, <3>2, <3>3 DEF Waiting, AtClient
    <3> QED BY <1>6, <3>1, <3>3, <3>4, <3>5, RouteTypeParts
  <2> QED BY <2>2, <2>3
<1> QED BY <1>9, <1>10, <1>11, <1>12, <1>13 DEF Client

(* Administrators, time and the directory change no call and no journal. *)
LEMMA OthersKeep ==
  ASSUME IInv, (\E a \in Admins : Administer(a)) \/ ConsentEnds \/ AccessEnds
  PROVE  IInv'
<1> USE DEF IInv
<1>1. UNCHANGED <<receipts, tickets, budget, provider, at, left, gone, told>> /\ (Fault \/ UNCHANGED faults)
  BY DEF Administer, ReadConsent, Grant, Revoke, Conflict, Save, ConsentEnds, AccessEnds, ledger
<1>2. faults' \in 0 .. MaxFaults
  BY <1>1, Faults
<1>3. consent \in ConsentType /\ access \in BOOLEAN /\ admin \in [Admins -> AdminType]
      /\ MaxVersion \in Nat
  BY RouteTypeParts, BoundAssumption
<1>4. consent.version < MaxVersion => consent.version + 1 \in Versions
  BY <1>3 DEF ConsentType, Versions
<1>5. 0 \in Versions
  BY <1>3 DEF Versions
<1>6. consent' \in ConsentType
  <2>1. CASE \E a \in Admins : Grant(a)
    BY <1>3, <1>4, <2>1 DEF Grant, Save, ConsentType
  <2>2. CASE \E a \in Admins : Revoke(a)
    BY <1>3, <1>4, <2>2 DEF Revoke, Save, ConsentType
  <2>3. CASE ConsentEnds
    BY <1>3, <2>3 DEF ConsentEnds, ConsentType
  <2>4. CASE AccessEnds \/ \E a \in Admins : ReadConsent(a) \/ Conflict(a)
    BY <1>3, <2>4 DEF AccessEnds, ReadConsent, Conflict, ledger
  <2> QED BY <2>1, <2>2, <2>3, <2>4 DEF Administer
<1>7. admin' \in [Admins -> AdminType]
  <2>1. ASSUME NEW a \in Admins, Administer(a) PROVE admin' \in [Admins -> AdminType]
    <3>1. \E place \in {"start", "read", "done"}, version \in Versions : Step(a, place, version)
      BY <1>3, <1>4, <1>5, <2>1 DEF Administer, ReadConsent, Grant, Revoke, Conflict, ConsentType
    <3> QED BY <1>3, <3>1 DEF Step, AdminType
  <2> QED BY <1>3, <2>1 DEF ConsentEnds, AccessEnds
<1>8. access' \in BOOLEAN
  BY <1>3 DEF Administer, ReadConsent, Grant, Revoke, Conflict, Save, ConsentEnds, AccessEnds
<1>9. TypeOK'
  BY <1>1, <1>2, <1>6, <1>7, <1>8, RouteTypeParts DEF TypeOK, ConsentType, AdminType
<1> QED BY <1>1, <1>9 DEF Truthful, Holding, Waiting, Owns, Ticket, Reservation

------------------------------------------------------------------------------
(* The steps of the routed request that leave the stores alone, and those    *)
(* that only use a receipt up.                                               *)
LEMMA QuietServerKeeps ==
  ASSUME IInv, NEW c \in Calls,
         \/ ConsumeReplay(c) \/ ConsumeRefused(c) \/ Refresh(c) \/ CheckDispatch(c)
         \/ Disclose(c) \/ Interrupted(c)
  PROVE  IInv'
<1> USE DEF IInv
<1>1. Holding(c) /\ Waiting(c) /\ Operation[c] \in Operations /\ Truthful(Operation[c])
  BY OwnOperation
<1>2. UNCHANGED <<consent, tickets, access, budget, provider, admin, left, gone>> /\ (Fault \/ UNCHANGED faults)
  BY DEF ConsumeReplay, ConsumeRefused, Refresh, CheckDispatch, Disclose, Interrupted, ledger
<1>3. faults' \in 0 .. MaxFaults
  BY <1>2, Faults
<1>4. receipts' \in [Calls -> ReceiptType]
  <2>1. receipts \in [Calls -> ReceiptType]
    BY RouteTypeParts
  <2>2. CASE ConsumeReplay(c)
    BY <2>1, <2>2 DEF ConsumeReplay, UseReceipt, ReceiptType
  <2>3. CASE ConsumeRefused(c) \/ Refresh(c) \/ CheckDispatch(c) \/ Disclose(c) \/ Interrupted(c)
    BY <2>1, <2>3 DEF ConsumeRefused, Refresh, CheckDispatch, Disclose, Interrupted, ledger
  <2> QED BY <2>2, <2>3
<1>5. ASSUME at' \in [Calls -> Places], told' \in [Calls -> {"nothing", "accepted", "unknown", "failed"}],
             \A b \in Calls \ {c} : at'[b] = at[b] /\ told'[b] = told[b],
             Holding(c)', Waiting(c)'
      PROVE  IInv'
  <2>1. TypeOK'
    BY <1>2, <1>3, <1>4, <1>5, RouteTypeParts DEF TypeOK, ReceiptType
  <2> QED BY <2>1, <1>2, <1>5, QuietKeeps
<1>6. ASSUME Rejected(c) PROVE IInv'
  <2>1. Refuses(c) # "accepted"
    BY DEF Refuses
  <2> QED BY <1>2, <1>5, <1>6, <2>1, EndKeeps DEF Rejected
<1>7. ASSUME Answer(c, "accepted"), Ticket(c).state = "accepted" PROVE IInv'
  <2>1. provider'[Operation[c]].served
    BY <1>1, <1>2, <1>7 DEF Truthful, Ticket
  <2> QED BY <1>2, <1>5, <1>7, <2>1, EndKeeps
(* A place later of the same kind. *)
<1>8. ASSUME NEW place \in {"check", "undo", "disclose", "send"}, Goto(c, place), told' = told,
             \/ at[c] = "refresh" /\ place = "check"
             \/ at[c] \in {"refresh", "check"} /\ place = "undo"
             \/ at[c] = "redisclose" /\ place = "disclose"
             \/ at[c] = "check" /\ place = "send"
      PROVE  IInv'
  <2>1. /\ at' \in [Calls -> Places] /\ at'[c] = place
        /\ \A b \in Calls \ {c} : at'[b] = at[b]
    BY <1>8, Goes DEF Places
  <2>2. Ticket(c)' = Ticket(c) /\ Reservation(c)' = Reservation(c) /\ (Owns(c)' <=> Owns(c))
    BY <1>2 DEF Ticket, Reservation, Owns
  <2>3. at[c] \in Underway /\ at[c] \notin AtClient \cup {"end"} /\ place \notin AtClient \cup {"end"}
    BY <1>8 DEF Underway, AtClient
  <2>4. Holding(c)'
    <3>1. CASE place \in {"check", "send"}
      BY <1>1, <1>2, <1>8, <2>1, <2>2, <2>3, <3>1 DEF Holding
    <3>2. CASE place = "undo"
      BY <1>1, <1>2, <1>8, <2>1, <2>2, <2>3, <3>2 DEF Holding
    <3>3. CASE place = "disclose"
      BY <1>1, <1>2, <1>8, <2>1, <2>2, <2>3, <3>3 DEF Holding
    <3> QED BY <1>8, <3>1, <3>2, <3>3
  <2>5. Waiting(c)'
    BY <1>1, <1>2, <1>8, <2>1, <2>3 DEF Waiting
  <2> QED BY <1>5, <1>8, <2>1, <2>4, <2>5, RouteTypeParts
<1>9. CASE ConsumeReplay(c)
  BY <1>6, <1>7, <1>9 DEF ConsumeReplay, Rejected
<1>10. CASE ConsumeRefused(c)
  BY <1>6, <1>10 DEF ConsumeRefused
<1>11. CASE Refresh(c)
  BY <1>6, <1>8, <1>11 DEF Refresh
<1>12. CASE CheckDispatch(c)
  BY <1>8, <1>12 DEF CheckDispatch
<1>13. CASE Disclose(c)
  BY <1>6, <1>7, <1>13 DEF Disclose, Checked
<1>14. CASE Interrupted(c)
  BY <1>6, <1>8, <1>14 DEF Interrupted
<1> QED BY <1>9, <1>10, <1>11, <1>12, <1>13, <1>14

(* The first call of an operation gets its ticket: before it nothing was      *)
(* reserved, so nothing was sent.                                             *)
LEMMA ConsumeFirstKeeps ==
  ASSUME IInv, NEW c \in Calls, ConsumeFirst(c)
  PROVE  IInv'
<1> USE DEF IInv
<1> DEFINE o == Operation[c]
           ticket == [call |-> c, content |-> Content[c], id |-> consent.id, version |-> consent.version,
                      state |-> "admitted", old |-> FALSE]
<1>1. Waiting(c) /\ Operation[c] \in Operations /\ Truthful(Operation[c])
  BY OwnOperation
<1>2. UNCHANGED <<consent, access, budget, provider, left, gone, told, admin, faults>> /\ tickets[o].state = "none"
      /\ at[c] = "arrived"
  BY DEF ConsumeFirst, Ticket
<1>3. tickets \in [Operations -> TicketType] /\ receipts \in [Calls -> ReceiptType] /\ consent \in ConsentType
  BY RouteTypeParts
<1>4. ticket \in TicketType
  BY <1>3 DEF TicketType, ConsentType, Contents
<1>5. tickets' = [tickets EXCEPT ![o] = ticket]
  BY DEF ConsumeFirst
<1>6. tickets' \in [Operations -> TicketType] /\ tickets'[o] = ticket
      /\ \A p \in Operations \ {o} : tickets'[p] = tickets[p]
  BY <1>1, <1>3, <1>4, <1>5
<1>7. receipts' \in [Calls -> ReceiptType]
  BY <1>3 DEF ConsumeFirst, UseReceipt, ReceiptType
<1>8. /\ at' \in [Calls -> Places] /\ at'[c] = "reserve"
      /\ \A b \in Calls \ {c} : at'[b] = at[b]
  BY Goes DEF ConsumeFirst, Places
<1>9. TypeOK'
  BY <1>2, <1>6, <1>7, <1>8, RouteTypeParts DEF TypeOK, TicketType, ReceiptType
<1>10. budget[o].state = "none" /\ provider[o].sent = 0
  BY <1>1, <1>2 DEF Truthful
<1>11. Holding(c)'
  BY <1>2, <1>6, <1>8, <1>10 DEF Holding, Owns, Ticket, Reservation
<1>12. Waiting(c)'
  BY <1>1, <1>2, <1>8 DEF Waiting, AtClient
<1>13. Truthful(o)'
  BY <1>1, <1>2, <1>6, <1>10 DEF Truthful
<1>14. \A p \in Operations \ {o} : SameOf(p)
  BY <1>2, <1>6 DEF SameOf
<1> QED BY <1>2, <1>8, <1>9, <1>11, <1>12, <1>13, <1>14, StepKeeps DEF Ticket

(* A reservation, also one whose reply got lost. *)
LEMMA ReserveKeeps ==
  ASSUME IInv, NEW c \in Calls, Reserve(c)
  PROVE  IInv'
<1> USE DEF IInv
<1> DEFINE o == Operation[c]
           reserved == [state |-> "reserved", old |-> FALSE]
<1>1. Holding(c) /\ Waiting(c) /\ Operation[c] \in Operations /\ Truthful(Operation[c])
  BY OwnOperation
<1>2. UNCHANGED <<consent, receipts, tickets, access, provider, left, gone, told, admin>>
      /\ (Fault \/ UNCHANGED faults) /\ at[c] = "reserve" /\ budget[o].state = "none"
  BY DEF Reserve, ledger, Reservation
<1>3. budget \in [Operations -> BudgetType] /\ reserved \in BudgetType /\ faults' \in 0 .. MaxFaults
  BY <1>2, RouteTypeParts, Faults DEF BudgetType
<1>4. \/ Goto(c, "refresh") /\ budget' = [budget EXCEPT ![o] = reserved]
      \/ Goto(c, "undo") /\ budget' \in {budget, [budget EXCEPT ![o] = reserved]}
  BY DEF Reserve
<1>5. /\ budget' \in [Operations -> BudgetType]
      /\ budget'[o].state \in {"none", "reserved"} /\ (Goto(c, "refresh") => budget'[o].state = "reserved")
      /\ \A p \in Operations \ {o} : budget'[p] = budget[p]
  <2>1. CASE budget' = [budget EXCEPT ![o] = reserved]
    BY <1>1, <1>3, <2>1
  <2>2. CASE budget' = budget /\ ~ Goto(c, "refresh")
    BY <1>2, <1>3, <2>2
  <2>3. Goto(c, "refresh") /\ Goto(c, "undo") => FALSE
    <3>1. at \in [Calls -> Places]
      BY RouteTypeParts
    <3> QED BY <3>1 DEF Goto
  <2> QED BY <1>4, <2>1, <2>2, <2>3
<1>6. PICK place \in {"refresh", "undo"} : Goto(c, place)
  BY <1>4
<1>7. /\ at' \in [Calls -> Places] /\ at'[c] = place
      /\ \A b \in Calls \ {c} : at'[b] = at[b]
  BY <1>6, Goes DEF Places
<1>8. TypeOK'
  BY <1>2, <1>3, <1>5, <1>7, RouteTypeParts DEF TypeOK, BudgetType
<1>9. provider[o].sent = 0 /\ tickets[o].state = "admitted" /\ Owns(c)
  BY <1>1, <1>2 DEF Holding, Truthful, Ticket, Underway
<1>10. Holding(c)'
  BY <1>2, <1>5, <1>6, <1>7, <1>9 DEF Holding, Owns, Ticket, Reservation
<1>11. Waiting(c)'
  BY <1>1, <1>2, <1>7 DEF Waiting, AtClient
<1>12. Truthful(o)'
  BY <1>1, <1>2, <1>5, <1>9 DEF Truthful
<1>13. \A p \in Operations \ {o} : SameOf(p)
  BY <1>2, <1>5 DEF SameOf
<1> QED BY <1>2, <1>7, <1>8, <1>10, <1>11, <1>12, <1>13, StepKeeps DEF Underway

(* The provider is called once: only from a place before it was. *)
LEMMA SendKeeps ==
  ASSUME IInv, NEW c \in Calls, Send(c) \/ Serve(c)
  PROVE  IInv'
<1> USE DEF IInv
<1> DEFINE o == Operation[c]
<1>1. Holding(c) /\ Waiting(c) /\ Operation[c] \in Operations /\ Truthful(Operation[c])
  BY OwnOperation
<1>2. UNCHANGED <<consent, receipts, tickets, access, budget, left, gone, told, admin>>
      /\ (Fault \/ UNCHANGED faults) /\ at[c] \in {"send", "sent"}
  BY DEF Send, Serve, ledger
<1>3. provider \in [Operations -> ProviderType] /\ faults' \in 0 .. MaxFaults /\ provider[o] \in ProviderType
  BY <1>1, <1>2, RouteTypeParts, Faults
<1>4. Owns(c) /\ tickets[o].state = "admitted" /\ budget[o].state = "reserved" /\ tickets[o].id \in Versions
  BY <1>1, <1>2, RouteTypeParts DEF Holding, Underway, Ticket, Reservation, TicketType
<1>5. \E place \in {"sent", "served", "unserved"} :
        /\ Goto(c, place)
        /\ provider' \in [Operations -> ProviderType]
        /\ \A p \in Operations \ {o} : provider'[p] = provider[p]
        /\ provider'[o].sent = 1 /\ provider'[o].profile = tickets[o].id
        /\ place = "served" => provider'[o].served
        /\ provider[o].served => provider'[o].served
  <2>1. CASE Send(c)
    <3>1. provider[o].sent = 0 /\ Goto(c, "sent")
      BY <1>1, <2>1 DEF Send, Holding
    <3>2. provider' = [provider EXCEPT ![o].sent = @ + 1, ![o].profile = tickets[o].id]
      BY <2>1 DEF Send, Ticket
    <3>3. provider'[o] = [provider[o] EXCEPT !.sent = provider[o].sent + 1, !.profile = tickets[o].id]
          /\ \A p \in Operations \ {o} : provider'[p] = provider[p]
      BY <1>1, <1>3, <3>2
    <3>4. provider'[o] \in ProviderType /\ provider'[o].sent = 1 /\ provider'[o].profile = tickets[o].id
          /\ provider'[o].served = provider[o].served
      <4>1. provider[o].sent + 1 = 1
        BY <3>1
      <4>2. [provider[o] EXCEPT !.sent = 1, !.profile = tickets[o].id] \in ProviderType
        BY <1>3, <1>4 DEF ProviderType
      <4> QED BY <1>3, <3>3, <4>1, <4>2 DEF ProviderType
    <3>5. provider' \in [Operations -> ProviderType]
      BY <1>1, <1>3, <3>2, <3>3, <3>4
    <3> QED BY <3>1, <3>3, <3>4, <3>5
  <2>2. CASE Serve(c)
    <3>1. provider[o].sent = 1 /\ provider[o].profile = tickets[o].id
      BY <1>1, <2>2 DEF Serve, Holding, Ticket
    <3>2. \/ Goto(c, "served") /\ provider' = [provider EXCEPT ![o].served = TRUE]
          \/ Goto(c, "unserved") /\ provider' \in {provider, [provider EXCEPT ![o].served = TRUE]}
      BY <2>2 DEF Serve
    <3>3. ASSUME provider' = [provider EXCEPT ![o].served = TRUE]
          PROVE  /\ provider' \in [Operations -> ProviderType]
                 /\ \A p \in Operations \ {o} : provider'[p] = provider[p]
                 /\ provider'[o].sent = 1 /\ provider'[o].profile = tickets[o].id
                 /\ provider'[o].served
      BY <1>1, <1>3, <3>1, <3>3 DEF ProviderType
    <3> QED BY <1>3, <3>1, <3>2, <3>3
  <2> QED BY <2>1, <2>2
<1>6. PICK place \in {"sent", "served", "unserved"} : <1>5!(place)
  BY <1>5
<1>7. /\ at' \in [Calls -> Places] /\ at'[c] = place
      /\ \A b \in Calls \ {c} : at'[b] = at[b]
  BY <1>6, Goes DEF Places
<1>8. TypeOK'
  BY <1>2, <1>3, <1>6, <1>7, RouteTypeParts DEF TypeOK, ProviderType
<1>9. Holding(c)'
  BY <1>2, <1>4, <1>6, <1>7 DEF Holding, Owns, Ticket, Reservation
<1>10. Waiting(c)'
  BY <1>1, <1>2, <1>6, <1>7 DEF Waiting, AtClient
<1>11. Truthful(o)'
  BY <1>1, <1>2, <1>4, <1>6 DEF Truthful
<1>12. \A p \in Operations \ {o} : SameOf(p)
  BY <1>2, <1>6 DEF SameOf
<1> QED BY <1>2, <1>6, <1>7, <1>8, <1>9, <1>10, <1>11, <1>12, StepKeeps DEF Underway

(* Both journals take the outcome, or one, or none; only what was served is   *)
(* journaled as accepted.                                                     *)
LEMMA FinalizeKeeps ==
  ASSUME IInv, NEW c \in Calls, Finalize(c)
  PROVE  IInv'
<1> USE DEF IInv
<1> DEFINE o == Operation[c]
<1>1. Holding(c) /\ Waiting(c) /\ Operation[c] \in Operations /\ Truthful(Operation[c])
  BY OwnOperation
<1>2. UNCHANGED <<consent, receipts, access, provider, left, gone, admin>>
      /\ (Fault \/ UNCHANGED faults) /\ at[c] \in {"served", "unserved"}
  BY DEF Finalize
<1>3. tickets \in [Operations -> TicketType] /\ budget \in [Operations -> BudgetType]
      /\ faults' \in 0 .. MaxFaults
  BY <1>2, RouteTypeParts, Faults
<1>4. Owns(c) /\ tickets[o].state = "admitted" /\ budget[o].state = "reserved" /\ provider[o].sent = 1
      /\ provider[o].profile = tickets[o].id /\ (at[c] = "served" => provider[o].served)
  BY <1>1, <1>2 DEF Holding, Underway, Ticket, Reservation
<1>5. Outcome(c) \in {"accepted", "unknown", "read_failed"} /\ (Outcome(c) = "accepted" <=> at[c] = "served")
  BY DEF Outcome
<1>6. PICK inLedger, inBudget \in BOOLEAN :
        /\ Journal(c, inLedger, inBudget)
        /\ \/ Rejected(c)
           \/ inLedger /\ inBudget /\ at[c] = "served" /\ Goto(c, "redisclose") /\ told' = told
  BY DEF Finalize
<1>7. /\ tickets' \in [Operations -> TicketType]
      /\ tickets'[o].state = IF inLedger THEN Outcome(c) ELSE "admitted"
      /\ tickets'[o].call = tickets[o].call /\ tickets'[o].id = tickets[o].id
      /\ \A p \in Operations \ {o} : tickets'[p] = tickets[p]
  <2>1. CASE inLedger
    <3>1. tickets' = [tickets EXCEPT ![o].state = Outcome(c)]
      BY <1>4, <1>6, <2>1 DEF Journal, Ticket
    <3> QED BY <1>1, <1>3, <1>5, <2>1, <3>1 DEF TicketType
  <2>2. CASE ~ inLedger
    <3>1. tickets' = tickets
      BY <1>6, <2>2 DEF Journal
    <3> QED BY <1>3, <1>4, <2>2, <3>1
  <2> QED BY <2>1, <2>2
<1>8. /\ budget' \in [Operations -> BudgetType]
      /\ budget'[o].state = IF inBudget THEN Outcome(c) ELSE "reserved"
      /\ \A p \in Operations \ {o} : budget'[p] = budget[p]
  <2>1. CASE inBudget
    <3>1. budget' = [budget EXCEPT ![o].state = Outcome(c)]
      BY <1>6, <2>1 DEF Journal
    <3> QED BY <1>1, <1>3, <1>5, <2>1, <3>1 DEF BudgetType
  <2>2. CASE ~ inBudget
    <3>1. budget' = budget
      BY <1>6, <2>2 DEF Journal
    <3> QED BY <1>3, <1>4, <2>2, <3>1
  <2> QED BY <2>1, <2>2
<1>9. Truthful(o)'
  BY <1>1, <1>2, <1>4, <1>5, <1>7, <1>8 DEF Truthful
<1>10. \A p \in Operations \ {o} : SameOf(p)
  BY <1>2, <1>7, <1>8 DEF SameOf
<1>11. ASSUME at' \in [Calls -> Places], told' \in [Calls -> {"nothing", "accepted", "unknown", "failed"}],
              \A b \in Calls \ {c} : at'[b] = at[b] /\ told'[b] = told[b],
              Holding(c)', Waiting(c)'
       PROVE  IInv'
  <2>1. TypeOK'
    BY <1>2, <1>3, <1>7, <1>8, <1>11, RouteTypeParts DEF TypeOK, TicketType, BudgetType
  <2>2. at[c] \in Underway
    BY <1>2 DEF Underway
  <2> QED BY <1>2, <1>9, <1>10, <1>11, <2>1, <2>2, StepKeeps
<1>12. CASE Rejected(c)
  <2>1. Refuses(c) # "accepted"
    BY DEF Refuses
  <2> QED BY <1>2, <1>11, <1>12, <2>1, EndKeeps DEF Rejected
<1>13. CASE inLedger /\ inBudget /\ at[c] = "served" /\ Goto(c, "redisclose") /\ told' = told
  <2>1. /\ at' \in [Calls -> Places] /\ at'[c] = "redisclose"
        /\ \A b \in Calls \ {c} : at'[b] = at[b]
    BY <1>13, Goes DEF Places
  <2>2. Holding(c)'
    BY <1>2, <1>4, <1>5, <1>7, <1>8, <1>13, <2>1 DEF Holding, Owns, Ticket, Reservation
  <2>3. Waiting(c)'
    BY <1>1, <1>2, <1>13, <2>1 DEF Waiting, AtClient
  <2> QED BY <1>11, <1>13, <2>1, <2>2, <2>3, RouteTypeParts
<1> QED BY <1>6, <1>12, <1>13

(* What was never sent is closed as not dispatched, or stays reserved. *)
LEMMA UndoKeeps ==
  ASSUME IInv, NEW c \in Calls, Undo(c)
  PROVE  IInv'
<1> USE DEF IInv
<1> DEFINE o == Operation[c]
<1>1. Holding(c) /\ Waiting(c) /\ Operation[c] \in Operations /\ Truthful(Operation[c])
  BY OwnOperation
<1>2. UNCHANGED <<consent, receipts, tickets, access, provider, left, gone, admin, faults>>
      /\ at[c] = "undo" /\ Rejected(c)
  BY DEF Undo, ledger
<1>3. budget \in [Operations -> BudgetType]
  BY RouteTypeParts
<1>4. Owns(c) /\ tickets[o].state # "none" /\ provider[o].sent = 0
  BY <1>1, <1>2 DEF Holding, Underway, Ticket
<1>5. budget' = budget \/ budget' = [budget EXCEPT ![o].state = "not_dispatched"]
  BY DEF Undo, Reservation
<1>6. /\ budget' \in [Operations -> BudgetType]
      /\ budget'[o].state \in {budget[o].state, "not_dispatched"}
      /\ \A p \in Operations \ {o} : budget'[p] = budget[p]
  BY <1>1, <1>3, <1>5 DEF BudgetType
<1>7. Refuses(c) # "accepted"
  BY DEF Refuses
<1>8. /\ at' \in [Calls -> Places] /\ told' \in [Calls -> {"nothing", "accepted", "unknown", "failed"}]
      /\ \A b \in Calls \ {c} : at'[b] = at[b] /\ told'[b] = told[b]
      /\ Holding(c)' /\ Waiting(c)'
  BY <1>2, <1>7, EndKeeps DEF Rejected
<1>9. TypeOK'
  BY <1>2, <1>6, <1>8, RouteTypeParts DEF TypeOK, BudgetType
<1>10. Truthful(o)'
  BY <1>1, <1>2, <1>4, <1>6 DEF Truthful
<1>11. \A p \in Operations \ {o} : SameOf(p)
  BY <1>2, <1>6 DEF SameOf
<1>12. at[c] \in Underway
  BY <1>2 DEF Underway
<1> QED BY <1>2, <1>8, <1>9, <1>10, <1>11, <1>12, StepKeeps

(* Whatever expires keeps its state, its call and its consent. *)
LEMMA ExpireKeeps ==
  ASSUME IInv, NEW c \in Calls, Expire(c)
  PROVE  IInv'
<1> USE DEF IInv
<1> DEFINE o == Operation[c]
<1>1. Holding(c) /\ Waiting(c) /\ Operation[c] \in Operations
  BY OwnOperation
<1>2. UNCHANGED <<consent, access, provider, at, left, gone, told, admin>> /\ Fault
  BY DEF Expire
<1>3. tickets \in [Operations -> TicketType] /\ budget \in [Operations -> BudgetType]
      /\ receipts \in [Calls -> ReceiptType] /\ faults' \in 0 .. MaxFaults
  BY <1>2, RouteTypeParts, Faults
<1>4. /\ receipts' \in {receipts, [receipts EXCEPT ![c].old = TRUE]}
      /\ tickets' \in {tickets, [tickets EXCEPT ![o].old = TRUE]}
      /\ budget' \in {budget, [budget EXCEPT ![o].old = TRUE]}
  BY DEF Expire
<1>5. receipts' \in [Calls -> ReceiptType]
  <2>1. [receipts EXCEPT ![c].old = TRUE] \in [Calls -> ReceiptType]
    BY <1>3 DEF ReceiptType
  <2> QED BY <1>3, <1>4, <2>1
<1>6. /\ tickets' \in [Operations -> TicketType]
      /\ \A p \in Operations : tickets'[p].state = tickets[p].state /\ tickets'[p].call = tickets[p].call
                               /\ tickets'[p].id = tickets[p].id
  <2>1. CASE tickets' = tickets
    BY <1>3, <2>1
  <2>2. CASE tickets' = [tickets EXCEPT ![o].old = TRUE]
    <3>1. \A p \in Operations : tickets'[p] = IF p = o THEN [tickets[o] EXCEPT !.old = TRUE] ELSE tickets[p]
      BY <1>1, <1>3, <2>2
    <3>2. tickets[o] \in TicketType
      BY <1>1, <1>3
    <3>3. [tickets[o] EXCEPT !.old = TRUE] \in TicketType
      BY <3>2 DEF TicketType
    <3>4. tickets' \in [Operations -> TicketType]
      BY <1>1, <1>3, <2>2, <3>3
    <3> QED BY <3>1, <3>2, <3>4 DEF TicketType
  <2> QED BY <1>4, <2>1, <2>2
<1>7. /\ budget' \in [Operations -> BudgetType]
      /\ \A p \in Operations : budget'[p].state = budget[p].state
  <2>1. CASE budget' = budget
    BY <1>3, <2>1
  <2>2. CASE budget' = [budget EXCEPT ![o].old = TRUE]
    BY <1>1, <1>3, <2>2 DEF BudgetType
  <2> QED BY <1>4, <2>1, <2>2
<1>8. TypeOK'
  BY <1>2, <1>3, <1>5, <1>6, <1>7, RouteTypeParts DEF TypeOK, TicketType, BudgetType, ReceiptType
<1>9. \A p \in Operations : SameOf(p)
  BY <1>2, <1>6, <1>7 DEF SameOf
<1>10. Truthful(o)'
  BY <1>1, <1>9 DEF Truthful, SameOf
<1>11. Holding(c)'
  BY <1>1, <1>2, <1>9, HoldingStays
<1>12. Waiting(c)'
  BY <1>1, <1>2 DEF Waiting
<1> QED BY <1>1, <1>2, <1>8, <1>9, <1>10, <1>11, <1>12, StepKeeps

(* Every step keeps it. *)
LEMMA RouteNextKeeps == IInv /\ [Next]_vars => IInv'
<1>1. ASSUME IInv, UNCHANGED vars PROVE IInv'
  <2>1. UNCHANGED <<consent, receipts, tickets, access, budget, provider, at, left, gone, told, admin, faults>>
    BY <1>1 DEF vars, ledger
  <2> QED BY <1>1, <2>1 DEF IInv, TypeOK, Truthful, Holding, Waiting, Owns, Ticket, Reservation
<1>2. ASSUME IInv, Next PROVE IInv'
  BY <1>2, ClientKeeps, OthersKeep, QuietServerKeeps, ConsumeFirstKeeps, ReserveKeeps, SendKeeps,
     FinalizeKeeps, UndoKeeps, ExpireKeeps
     DEF Next, Server
<1> QED BY <1>1, <1>2

------------------------------------------------------------------------------
(* Every state has the inductive invariant. *)
THEOREM RouteInvariant == Spec => []IInv
<1> QED BY InitKeeps, RouteNextKeeps, PTL DEF Spec

(* Every state of the route is well typed. *)
THEOREM RouteTypeCorrect == Spec => []TypeOK
<1>1. IInv => TypeOK
  BY DEF IInv
<1> QED BY <1>1, RouteInvariant, PTL

(* The journals of the ledger and the budget say of the provider what is so,  *)
(* and no operation is sent twice, whatever calls retry it with fresh         *)
(* receipts and whatever replies were lost (server-mcp.ts).                   *)
THEOREM JournalsAlwaysTruthful == Spec => []JournalsTruthful
<1>1. IInv => JournalsTruthful
  <2>1. ASSUME IInv, NEW o \in Operations
        PROVE  /\ provider[o].sent <= 1
               /\ "accepted" \in {tickets[o].state, budget[o].state} => provider[o].served
               /\ budget[o].state = "not_dispatched" => provider[o].sent = 0
               /\ provider[o].sent > 0 => budget[o].state \notin {"none", "not_dispatched"}
    <3>1. Truthful(o)
      BY <2>1 DEF IInv
    <3> QED BY <3>1 DEF Truthful
  <2> QED BY <2>1 DEF JournalsTruthful
<1> QED BY <1>1, RouteInvariant, PTL

(* What a client is told is so: acceptance was served, and after a failure    *)
(* the content of an ingest never left (client.ts).                           *)
THEOREM ClientAlwaysTruthful == Spec => []ClientTruthful
<1>1. IInv => ClientTruthful
  BY DEF IInv, Waiting, ClientTruthful
<1> QED BY <1>1, RouteInvariant, PTL

(* What the provider answered is disclosed only while the very consent it was *)
(* asked under is in force: the ticket of an admitted call is its own, so the *)
(* consent it is checked against is the one it was sent with.                 *)
THEOREM AlwaysDisclosedUnderConsent == Spec => DisclosedUnderConsent
<1>1. ASSUME IInv, [Next]_vars
      PROVE  [\A c \in Calls : at[c] = "disclose" /\ told'[c] = "accepted" /\ told[c] = "nothing"
                => Permits(provider[Operation[c]].profile, Ticket(c).version)]_vars
  <2>1. SUFFICES ASSUME NEW c \in Calls, Next, at[c] = "disclose", told'[c] = "accepted", told[c] = "nothing"
                 PROVE  Permits(provider[Operation[c]].profile, Ticket(c).version)
    BY <1>1
  <2>2. told \in [Calls -> {"nothing", "accepted", "unknown", "failed"}] /\ Holding(c)
    BY <1>1, RouteTypeParts DEF IInv
  <2>3. ASSUME NEW b \in Calls, NEW outcome, Tell(b, outcome) PROVE b = c /\ outcome = "accepted"
    BY <2>1, <2>2, <2>3 DEF Tell
  <2>4. Refuses(c) # "accepted"
    BY DEF Refuses
  <2>5. ~ \E b \in Calls : Client(b) \/ Expire(b)
    BY <2>1, <2>3, <2>4 DEF Client, Plan, Issue, HandOut, Dispatch, GiveUp, Expire
  <2>6. ~ ((\E a \in Admins : Administer(a)) \/ ConsentEnds \/ AccessEnds)
    BY <2>1 DEF Administer, ReadConsent, Grant, Revoke, Conflict, Save, ConsentEnds, AccessEnds
  <2>7. PICK b \in Calls : Server(b)
    BY <2>1, <2>5, <2>6 DEF Next
  <2>8. told' # told
    BY <2>1
  <2>9. \E outcome : Tell(b, outcome)
    BY <2>7, <2>8 DEF Server, ConsumeFirst, ConsumeReplay, ConsumeRefused, Reserve, Refresh, CheckDispatch, Send,
                      Serve, Finalize, Disclose, Undo, Interrupted, Rejected, Answer
  <2>10. b = c /\ ~ Rejected(c)
    BY <2>3, <2>4, <2>9 DEF Rejected, Answer
  <2>11. Disclose(c) /\ Checked(c, "accepted")
    BY <2>1, <2>7, <2>8, <2>10 DEF Server, ConsumeFirst, ConsumeReplay, ConsumeRefused, Reserve, Refresh, CheckDispatch,
                                   Send, Serve, Finalize, Disclose, Undo, Interrupted
  <2> QED BY <2>1, <2>2, <2>11 DEF Checked, Holding
<1> QED BY <1>1, RouteInvariant, PTL DEF Spec, DisclosedUnderConsent

------------------------------------------------------------------------------
(* Who belongs to the organization and what acts for it. *)
EventKinds == AccountKinds \cup EmailKinds
Unrestricted == {"none", "account.resumed"}

(* The last event of a scope among the given ones, or 0. *)
IsLatest(s, scope, events, e) ==
  /\ e # 0 => e \in events /\ Scope(log[s][e]) = scope
  /\ \A x \in events : Scope(log[s][x]) = scope => x <= e

(* Nothing happens to an account after its deletion. *)
DeletedLast ==
  \A s \in Subjects : \A i, j \in DOMAIN log[s] :
    i < j /\ log[s][i] = "account.deleted" => Scope(log[s][j]) = "email"

(* The heads of the database are the last events it has received. *)
HeadSound(d, s) ==
  /\ d.received[s] \subseteq DOMAIN log[s]
  /\ IsLatest(s, "account", d.received[s], d.head[s].account)
  /\ IsLatest(s, "email", d.received[s], d.head[s].email)

(* Proved at t, after the last event of the account, which is no negative one. *)
After(d, s, t) ==
  t > OccurredAt(d.head[s].account) /\ KindOf(s, d.head[s].account) \in Unrestricted

ClaimSound(d, s) ==
  d.claims[s] # 0 =>
    /\ After(d, s, d.claims[s]) /\ d.accounts[s] = "live"
    /\ d.claims[s] > OccurredAt(d.head[s].email)
    /\ KindOf(s, d.head[s].email) # "email.revoked"

(* A membership that was not ended. *)
LiveRow(d, m) == m \in DOMAIN d.members /\ d.members[m].live

CredentialSound(d, c) ==
  After(d, c.subject, c.issued) /\ (c.membership # 0 => LiveRow(d, c.membership))

(* It rests on the claim its subject still has. *)
MemberSound(d, m) ==
  d.members[m].live =>
    LET s == d.members[m].subject IN d.claims[s] # 0 /\ d.members[m].proof = d.claims[s]

DatabaseSound(d) ==
  /\ \A s \in Subjects : HeadSound(d, s)
  /\ \A s \in Subjects : ClaimSound(d, s)
  /\ \A c \in d.credentials : CredentialSound(d, c)
  /\ \A m \in DOMAIN d.members : MemberSound(d, m)
  /\ \A m \in d.scimKeys : LiveRow(d, m)

(* Inductive. *)
AccountsInv == AccountsTypeOK /\ DeletedLast /\ DatabaseSound(db)

------------------------------------------------------------------------------
(* The least and the greatest number of a set. *)
LEMMA Order ==
  \E R : IsWellFoundedOn(R, Nat) /\ \A x, y \in Nat : x < y => <<x, y>> \in R
  <1>1. \A x, y \in Nat : x < y => <<x, y>> \in OpToRel(<, Nat)
    BY DEF OpToRel
  <1> QED
    BY <1>1, NatLessThanWellFounded, Zenon

LEMMA Largest ==
  ASSUME NEW N \in Nat, NEW T, T \subseteq 0 .. N, T # {}
  PROVE  Max(T) \in T /\ \A y \in T : y <= Max(T)
  <1> DEFINE Gap(t) == N - t
             U == {Gap(t) : t \in T}
  <1>1. PICK R : IsWellFoundedOn(R, Nat) /\ \A x, y \in Nat : x < y => <<x, y>> \in R
    BY Order
  <1>2. IsWellFoundedOn(R, Nat)
    BY <1>1
  <1>3. U \subseteq Nat /\ U # {}
    <2>1. \A t \in T : Gap(t) \in Nat
      OBVIOUS
    <2> QED
      BY <2>1
  <1>4. \E x \in U : \A y \in U : ~ (<<y, x>> \in R)
    <2> HIDE DEF U
    <2> QED
      BY <1>2, <1>3, WFMin
  <1>5. PICK t \in T : \A y \in U : ~ (<<y, Gap(t)>> \in R)
    BY <1>4
  <1>6. \A y \in T : t >= y
    <2> TAKE y \in T
    <2>1. ~ (Gap(y) < Gap(t))
      BY <1>1, <1>3, <1>5
    <2> QED
      BY <2>1
  <1> QED
    BY <1>6 DEF Max

LogType == log \in [Subjects -> Seq(EventKinds)]

LEMMA LogRows ==
  ASSUME LogType, NEW s \in Subjects
  PROVE  /\ Len(log[s]) \in Nat /\ DOMAIN log[s] = 1 .. Len(log[s])
         /\ \A e \in DOMAIN log[s] : log[s][e] \in EventKinds
  BY DEF LogType

(* LatestOf is the last event of its scope, and there is no other. *)
LEMMA LatestIs ==
  ASSUME LogType, NEW s \in Subjects, NEW scope, NEW events, events \subseteq DOMAIN log[s]
  PROVE  /\ LatestOf(s, scope, events) \in {0} \cup DOMAIN log[s]
         /\ IsLatest(s, scope, events, LatestOf(s, scope, events))
  <1> DEFINE T == {0} \cup {e \in events : Scope(log[s][e]) = scope}
  <1>1. T \subseteq 0 .. Len(log[s]) /\ T # {}
    BY LogRows
  <1>2. Max(T) \in T /\ \A y \in T : y <= Max(T)
    <2> HIDE DEF T
    <2> QED
      BY <1>1, Largest, LogRows
  <1>3. LatestOf(s, scope, events) = Max(T)
    BY DEF LatestOf
  <1> HIDE DEF T
  <1>4. Max(T) # 0 => Max(T) \in events /\ Scope(log[s][Max(T)]) = scope
    BY <1>2 DEF T
  <1>5. \A x \in events : Scope(log[s][x]) = scope => x <= Max(T)
    BY <1>2 DEF T
  <1>6. Max(T) \in {0} \cup DOMAIN log[s]
    BY <1>2 DEF T
  <1> QED
    BY <1>3, <1>4, <1>5, <1>6 DEF IsLatest

LEMMA LatestUnique ==
  ASSUME LogType, NEW s \in Subjects, NEW scope, NEW events, events \subseteq DOMAIN log[s],
         NEW e \in Nat, NEW f \in Nat,
         IsLatest(s, scope, events, e), IsLatest(s, scope, events, f)
  PROVE  e = f
  BY LogRows DEF IsLatest

------------------------------------------------------------------------------
(* Functions on the database. *)

(* What ends with a membership, field by field. *)
LEMMA Ended ==
  ASSUME NEW d \in Database, NEW ended \in SUBSET (DOMAIN d.members)
  PROVE  LET w == WithoutMemberships(d, ended) IN
         /\ w \in Database
         /\ w.head = d.head /\ w.received = d.received /\ w.accounts = d.accounts
         /\ w.claims = d.claims
         /\ DOMAIN w.members = DOMAIN d.members
         /\ \A m \in DOMAIN d.members :
              /\ w.members[m].subject = d.members[m].subject
              /\ w.members[m].proof = d.members[m].proof
              /\ w.members[m].live <=> d.members[m].live /\ m \notin ended
         /\ w.credentials = {c \in d.credentials : c.membership \notin ended}
         /\ w.scimKeys = d.scimKeys \ ended
  <1> DEFINE rows == [m \in DOMAIN d.members |->
                        IF m \in ended THEN [d.members[m] EXCEPT !.live = FALSE] ELSE d.members[m]]
             w == [d EXCEPT !.members = rows,
                            !.credentials = {c \in @ : c.membership \notin ended},
                            !.scimKeys = @ \ ended]
  <1>1. d.members \in Seq(Memberships) /\ d.credentials \subseteq Credentials /\ d.scimKeys \subseteq Nat
    BY DEF Database
  <1>2. \A m \in DOMAIN d.members : d.members[m] \in Memberships
    BY <1>1
  <1>3. \A m \in DOMAIN d.members :
          /\ rows[m] \in Memberships
          /\ rows[m].subject = d.members[m].subject /\ rows[m].proof = d.members[m].proof
          /\ rows[m].live <=> d.members[m].live /\ m \notin ended
    BY <1>2 DEF Memberships
  <1>4. rows \in Seq(Memberships)
    <2>1. Len(d.members) \in Nat /\ DOMAIN d.members = 1 .. Len(d.members)
      BY <1>1
    <2>2. rows \in [1 .. Len(d.members) -> Memberships]
      BY <1>3, <2>1
    <2> HIDE DEF rows
    <2> QED
      BY <2>1, <2>2, SeqDef
  <1>5. WithoutMemberships(d, ended) = w
    BY DEF WithoutMemberships
  <1>6. DOMAIN rows = DOMAIN d.members
    OBVIOUS
  <1> HIDE DEF rows
  <1>7. w \in Database
    BY <1>1, <1>4 DEF Database
  <1>8. /\ w.head = d.head /\ w.received = d.received /\ w.accounts = d.accounts
        /\ w.claims = d.claims /\ w.members = rows
        /\ w.credentials = {c \in d.credentials : c.membership \notin ended}
        /\ w.scimKeys = d.scimKeys \ ended
    BY DEF Database
  <1> HIDE DEF w
  <1> QED
    BY <1>3, <1>5, <1>6, <1>7, <1>8

(* When memberships end the database remains sound. *)
LEMMA EndedSound ==
  ASSUME LogType, NEW d \in Database, DatabaseSound(d), NEW ended \in SUBSET (DOMAIN d.members)
  PROVE  WithoutMemberships(d, ended) \in Database /\ DatabaseSound(WithoutMemberships(d, ended))
  <1> DEFINE w == WithoutMemberships(d, ended)
  <1>1. /\ w \in Database
        /\ w.head = d.head /\ w.received = d.received /\ w.accounts = d.accounts
        /\ w.claims = d.claims
        /\ DOMAIN w.members = DOMAIN d.members
        /\ \A m \in DOMAIN d.members :
              /\ w.members[m].subject = d.members[m].subject
              /\ w.members[m].proof = d.members[m].proof
              /\ w.members[m].live <=> d.members[m].live /\ m \notin ended
        /\ w.credentials = {c \in d.credentials : c.membership \notin ended}
        /\ w.scimKeys = d.scimKeys \ ended
    BY Ended
  <1> HIDE DEF w
  <1>2. \A s \in Subjects : HeadSound(w, s) /\ ClaimSound(w, s)
    BY <1>1 DEF DatabaseSound, HeadSound, ClaimSound, After
  <1>3. \A c \in w.credentials : CredentialSound(w, c)
    BY <1>1 DEF DatabaseSound, CredentialSound, After, LiveRow
  <1>4. \A m \in DOMAIN w.members : MemberSound(w, m)
    BY <1>1 DEF DatabaseSound, MemberSound
  <1>5. \A m \in w.scimKeys : LiveRow(w, m)
    BY <1>1 DEF DatabaseSound, LiveRow
  <1> QED
    BY <1>1, <1>2, <1>3, <1>4, <1>5 DEF DatabaseSound, w

(* What ends with a claim: the memberships of its subject. *)
LEMMA Unclaimed ==
  ASSUME NEW d \in Database, NEW s \in Subjects
  PROVE  LET w == WithoutClaim(d, s)
             ended == {m \in DOMAIN d.members : d.members[m].subject = s} IN
         /\ w \in Database
         /\ w.head = d.head /\ w.received = d.received /\ w.accounts = d.accounts
         /\ w.claims = [d.claims EXCEPT ![s] = 0]
         /\ DOMAIN w.members = DOMAIN d.members
         /\ \A m \in DOMAIN d.members :
              /\ w.members[m].subject = d.members[m].subject
              /\ w.members[m].proof = d.members[m].proof
              /\ w.members[m].live <=> d.members[m].live /\ m \notin ended
         /\ w.credentials = {c \in d.credentials : c.membership \notin ended}
         /\ w.scimKeys = d.scimKeys \ ended
  <1> DEFINE v == [d EXCEPT !.claims[s] = 0]
             ended == {m \in DOMAIN d.members : d.members[m].subject = s}
  <1>1. /\ v \in Database
        /\ v.head = d.head /\ v.received = d.received /\ v.accounts = d.accounts
        /\ v.claims = [d.claims EXCEPT ![s] = 0] /\ v.members = d.members
        /\ v.credentials = d.credentials /\ v.scimKeys = d.scimKeys
    BY DEF Database
  <1>2. WithoutClaim(d, s) = WithoutMemberships(v, ended)
    BY DEF WithoutClaim
  <1>3. ended \in SUBSET (DOMAIN v.members)
    BY <1>1
  <1> HIDE DEF v, ended
  <1>4. WithoutMemberships(v, ended) \in Database
    BY <1>1, <1>3, Ended
  <1> QED
    BY <1>1, <1>2, <1>3, <1>4, Ended DEF ended

Seen(d, s, e) == [d EXCEPT !.received[s] = @ \cup {e}]

LEMMA SeenFields ==
  ASSUME LogType, NEW d \in Database, NEW s \in Subjects, NEW e \in DOMAIN log[s]
  PROVE  LET v == Seen(d, s, e) IN
         /\ v \in Database
         /\ v.received = [d.received EXCEPT ![s] = @ \cup {e}]
         /\ v.head = d.head /\ v.accounts = d.accounts /\ v.claims = d.claims
         /\ v.members = d.members /\ v.credentials = d.credentials /\ v.scimKeys = d.scimKeys
  <1>1. e \in Nat
    BY LogRows
  <1>2. d.received \in [Subjects -> SUBSET Nat]
    BY DEF Database
  <1>3. [d.received EXCEPT ![s] = @ \cup {e}] \in [Subjects -> SUBSET Nat]
    BY <1>1, <1>2
  <1> QED
    BY <1>3 DEF Database, Seen

LEMMA Scopes ==
  \A kind : Scope(kind) \in {"account", "email"}
  BY DEF Scope

LEMMA HeadType ==
  ASSUME NEW d \in Database, NEW s \in Subjects
  PROVE  d.head[s].account \in Nat /\ d.head[s].email \in Nat /\ d.received[s] \subseteq Nat
         /\ d.claims[s] \in Nat
  BY DEF Database

(* An event moves the head of its scope and ends what there was. *)
LEMMA MovedFields ==
  ASSUME LogType, NEW d \in Database, NEW s \in Subjects, NEW e \in DOMAIN log[s]
  PROVE  LET w == WithHead(d, s, e)
             ended == {m \in DOMAIN d.members : d.members[m].subject = s} IN
         /\ w \in Database
         /\ w.received = d.received
         /\ \A t \in Subjects \ {s} :
              w.head[t] = d.head[t] /\ w.claims[t] = d.claims[t] /\ w.accounts[t] = d.accounts[t]
         /\ w.claims[s] = 0
         /\ IF Scope(log[s][e]) = "email"
              THEN w.head[s].email = e /\ w.head[s].account = d.head[s].account
              ELSE w.head[s].account = e /\ w.head[s].email = d.head[s].email
         /\ DOMAIN w.members = DOMAIN d.members
         /\ \A m \in DOMAIN d.members :
              /\ w.members[m].subject = d.members[m].subject
              /\ w.members[m].proof = d.members[m].proof
              /\ w.members[m].live <=> d.members[m].live /\ m \notin ended
         /\ \A c \in w.credentials :
              /\ c \in d.credentials /\ c.membership \notin ended
              /\ Scope(log[s][e]) = "account" => c.subject # s
         /\ w.scimKeys = d.scimKeys \ ended
  <1> DEFINE u == WithoutClaim(d, s)
             w == WithHead(d, s, e)
             ended == {m \in DOMAIN d.members : d.members[m].subject = s}
             kind == log[s][e]
  <1>1. /\ u \in Database
        /\ u.head = d.head /\ u.received = d.received /\ u.accounts = d.accounts
        /\ u.claims = [d.claims EXCEPT ![s] = 0]
        /\ DOMAIN u.members = DOMAIN d.members
        /\ \A m \in DOMAIN d.members :
             /\ u.members[m].subject = d.members[m].subject
             /\ u.members[m].proof = d.members[m].proof
             /\ u.members[m].live <=> d.members[m].live /\ m \notin ended
        /\ u.credentials = {c \in d.credentials : c.membership \notin ended}
        /\ u.scimKeys = d.scimKeys \ ended
    BY Unclaimed
  <1>2. e \in Nat
    BY LogRows
  <1>3. CASE Scope(kind) = "email"
    <2>1. w = [u EXCEPT !.head[s].email = e]
      BY <1>3 DEF WithHead, Revokes
    <2> HIDE DEF u, w
    <2>7. [u.head EXCEPT ![s].email = e] \in [Subjects -> [account : Nat, email : Nat]]
      <3> DEFINE row == [u.head[s] EXCEPT !.email = e]
      <3>1. u.head \in [Subjects -> [account : Nat, email : Nat]]
        BY <1>1 DEF Database
      <3>2. row \in [account : Nat, email : Nat]
        BY <1>2, <3>1
      <3>3. [u.head EXCEPT ![s].email = e] = [u.head EXCEPT ![s] = row]
        BY <3>1
      <3> HIDE DEF row
      <3> QED
        BY <3>1, <3>2, <3>3
    <2>2. w \in Database /\ w.head = [u.head EXCEPT ![s].email = e]
          /\ w.received = u.received /\ w.claims = u.claims /\ w.accounts = u.accounts
          /\ w.members = u.members /\ w.credentials = u.credentials /\ w.scimKeys = u.scimKeys
      BY <1>1, <2>1, <2>7 DEF Database
    <2>3. \A t \in Subjects \ {s} :
             w.head[t] = d.head[t] /\ w.claims[t] = d.claims[t] /\ w.accounts[t] = d.accounts[t]
      BY <1>1, <2>2 DEF Database
    <2>4. w.claims[s] = 0 /\ w.head[s].email = e /\ w.head[s].account = d.head[s].account
      BY <1>1, <2>2 DEF Database
    <2> QED
      BY <1>1, <1>3, <2>2, <2>3, <2>4 DEF w
  <1>4. CASE Scope(kind) # "email"
    <2> DEFINE rest == {c \in u.credentials : c.subject # s}
               state == IF u.accounts[s] = "live" /\ kind = "account.deleted" THEN "disabled"
                        ELSE u.accounts[s]
    <2>1. w = [u EXCEPT !.head[s].account = e, !.credentials = rest, !.accounts[s] = state]
      BY <1>4 DEF WithHead, Revokes
    <2>2. state \in {"none", "live", "disabled"} /\ rest \subseteq Credentials
      BY <1>1 DEF Database
    <2>3. rest = {c \in u.credentials : c.subject # s}
      OBVIOUS
    <2> HIDE DEF u, w, rest, state
    <2>7. [u.head EXCEPT ![s].account = e] \in [Subjects -> [account : Nat, email : Nat]]
      <3> DEFINE row == [u.head[s] EXCEPT !.account = e]
      <3>1. u.head \in [Subjects -> [account : Nat, email : Nat]]
        BY <1>1 DEF Database
      <3>2. row \in [account : Nat, email : Nat]
        BY <1>2, <3>1
      <3>3. [u.head EXCEPT ![s].account = e] = [u.head EXCEPT ![s] = row]
        BY <3>1
      <3> HIDE DEF row
      <3> QED
        BY <3>1, <3>2, <3>3
    <2>8. [u.accounts EXCEPT ![s] = state] \in [Subjects -> {"none", "live", "disabled"}]
      BY <1>1, <2>2 DEF Database
    <2>4. w \in Database /\ w.head = [u.head EXCEPT ![s].account = e]
          /\ w.received = u.received /\ w.claims = u.claims
          /\ w.accounts = [u.accounts EXCEPT ![s] = state]
          /\ w.members = u.members /\ w.credentials = rest /\ w.scimKeys = u.scimKeys
      BY <1>1, <2>1, <2>2, <2>7, <2>8 DEF Database
    <2>5. \A t \in Subjects \ {s} :
             w.head[t] = d.head[t] /\ w.claims[t] = d.claims[t] /\ w.accounts[t] = d.accounts[t]
      BY <1>1, <2>4 DEF Database
    <2>6. w.claims[s] = 0 /\ w.head[s].account = e /\ w.head[s].email = d.head[s].email
      BY <1>1, <2>4 DEF Database
    <2> QED
      BY <1>1, <1>4, <2>3, <2>4, <2>5, <2>6 DEF w
  <1> QED
    BY <1>3, <1>4

(* A later event becomes the head, and all that stood on the former is ended. *)
LEMMA MovedSound ==
  ASSUME LogType, NEW d \in Database, DatabaseSound(d), NEW s \in Subjects, NEW e \in DOMAIN log[s],
         e > HeadOf(d, s, Scope(log[s][e]))
  PROVE  /\ WithHead(Seen(d, s, e), s, e) \in Database
         /\ DatabaseSound(WithHead(Seen(d, s, e), s, e))
  <1> DEFINE v == Seen(d, s, e)
             w == WithHead(v, s, e)
             ended == {m \in DOMAIN d.members : d.members[m].subject = s}
  <1>1. /\ v \in Database
        /\ v.received = [d.received EXCEPT ![s] = @ \cup {e}]
        /\ v.head = d.head /\ v.accounts = d.accounts /\ v.claims = d.claims
        /\ v.members = d.members /\ v.credentials = d.credentials /\ v.scimKeys = d.scimKeys
    BY SeenFields
  <1> HIDE DEF v
  <1>2. /\ w \in Database
        /\ w.received = v.received
        /\ \A t \in Subjects \ {s} :
             w.head[t] = d.head[t] /\ w.claims[t] = d.claims[t] /\ w.accounts[t] = d.accounts[t]
        /\ w.claims[s] = 0
        /\ IF Scope(log[s][e]) = "email"
             THEN w.head[s].email = e /\ w.head[s].account = d.head[s].account
             ELSE w.head[s].account = e /\ w.head[s].email = d.head[s].email
        /\ DOMAIN w.members = DOMAIN d.members
        /\ \A m \in DOMAIN d.members :
              /\ w.members[m].subject = d.members[m].subject
              /\ w.members[m].proof = d.members[m].proof
              /\ w.members[m].live <=> d.members[m].live /\ m \notin ended
        /\ \A c \in w.credentials :
              /\ c \in d.credentials /\ c.membership \notin ended
              /\ Scope(log[s][e]) = "account" => c.subject # s
        /\ w.scimKeys = d.scimKeys \ ended
    <2>1. v.members = d.members /\ v.scimKeys = d.scimKeys /\ v.head = d.head
          /\ v.claims = d.claims /\ v.accounts = d.accounts /\ v.credentials = d.credentials
      BY <1>1
    <2> HIDE DEF w
    <2> QED
      BY <1>1, <2>1, MovedFields DEF w
  <1> HIDE DEF w
  <1>3. /\ w.received[s] = d.received[s] \cup {e}
        /\ \A t \in Subjects \ {s} : w.received[t] = d.received[t]
    BY <1>1, <1>2 DEF Database
  <1>4. \A t \in Subjects \ {s} : HeadSound(w, t) /\ ClaimSound(w, t)
    BY <1>2, <1>3 DEF DatabaseSound, HeadSound, ClaimSound, After
  <1>5. HeadSound(w, s) /\ ClaimSound(w, s)
    <2>1. HeadSound(d, s)
      BY DEF DatabaseSound
    <2>2. w.received[s] \subseteq DOMAIN log[s] /\ d.received[s] \subseteq Nat
      BY <1>3, <2>1, HeadType DEF HeadSound
    <2>3. e \in Nat /\ d.head[s].account \in Nat /\ d.head[s].email \in Nat
      BY LogRows, HeadType
    <2>4. CASE Scope(log[s][e]) = "email"
      <3>1. w.head[s].email = e /\ w.head[s].account = d.head[s].account /\ e > d.head[s].email
        BY <1>2, <2>4 DEF HeadOf
      <3>2. IsLatest(s, "email", w.received[s], e)
        BY <1>3, <2>1, <2>2, <2>3, <2>4, <3>1 DEF HeadSound, IsLatest
      <3>3. IsLatest(s, "account", w.received[s], d.head[s].account)
        BY <1>3, <2>1, <2>4 DEF HeadSound, IsLatest
      <3> QED
        BY <1>2, <2>2, <3>1, <3>2, <3>3 DEF HeadSound, ClaimSound
    <2>5. CASE Scope(log[s][e]) = "account"
      <3>1. w.head[s].account = e /\ w.head[s].email = d.head[s].email /\ e > d.head[s].account
        BY <1>2, <2>5 DEF HeadOf
      <3>2. IsLatest(s, "account", w.received[s], e)
        BY <1>3, <2>1, <2>2, <2>3, <2>5, <3>1 DEF HeadSound, IsLatest
      <3>3. IsLatest(s, "email", w.received[s], d.head[s].email)
        BY <1>3, <2>1, <2>5 DEF HeadSound, IsLatest
      <3> QED
        BY <1>2, <2>2, <3>1, <3>2, <3>3 DEF HeadSound, ClaimSound
    <2> QED
      BY <2>4, <2>5, Scopes
  <1>6. ASSUME NEW c \in w.credentials PROVE CredentialSound(w, c)
    <2>1. c \in d.credentials /\ c.membership \notin ended /\ CredentialSound(d, c)
      BY <1>2 DEF DatabaseSound
    <2>2. c.subject \in Subjects
      BY <2>1 DEF Database, Credentials
    <2>3. After(w, c.subject, c.issued)
      <3>1. CASE c.subject # s
        BY <1>2, <2>1, <2>2, <3>1 DEF CredentialSound, After
      <3>2. CASE c.subject = s
        <4>1. Scope(log[s][e]) = "email"
          BY <1>2, <3>2, Scopes
        <4> QED
          BY <1>2, <2>1, <3>2, <4>1 DEF CredentialSound, After
      <3> QED
        BY <3>1, <3>2
    <2>4. c.membership # 0 => LiveRow(w, c.membership)
      BY <1>2, <2>1 DEF CredentialSound, LiveRow
    <2> QED
      BY <2>3, <2>4 DEF CredentialSound
  <1>7. ASSUME NEW m \in DOMAIN w.members PROVE MemberSound(w, m)
    <2>1. d.members[m].subject \in Subjects
      <3>1. d.members \in Seq(Memberships) /\ m \in DOMAIN d.members
        BY <1>2 DEF Database
      <3>2. d.members[m] \in Memberships
        BY <3>1
      <3> QED
        BY <3>2 DEF Memberships
    <2> QED
      BY <1>2, <2>1 DEF DatabaseSound, MemberSound
  <1>8. ASSUME NEW m \in w.scimKeys PROVE LiveRow(w, m)
    BY <1>2 DEF DatabaseSound, LiveRow
  <1> QED
    BY <1>2, <1>4, <1>5, <1>6, <1>7, <1>8 DEF DatabaseSound, w, v

(* Whatever order the events of the issuer arrive in. *)
LEMMA EventSound ==
  ASSUME LogType, DeletedLast, NEW d \in Database, DatabaseSound(d),
         NEW s \in Subjects, NEW e \in DOMAIN log[s]
  PROVE  WithEvent(d, s, e) \in Database /\ DatabaseSound(WithEvent(d, s, e))
  <1> DEFINE v == Seen(d, s, e)
             head == HeadOf(d, s, Scope(log[s][e]))
  <1>1. CASE e \in d.received[s]
    BY <1>1 DEF WithEvent
  <1>2. CASE e \notin d.received[s] /\ e > head /\ KindOf(s, head) # "account.deleted"
    <2>1. WithEvent(d, s, e) = WithHead(v, s, e)
      BY <1>2 DEF WithEvent, Seen
    <2> QED
      BY <1>2, <2>1, MovedSound
  <1>3. CASE e \notin d.received[s] /\ ~ (e > head /\ KindOf(s, head) # "account.deleted")
    <2>1. WithEvent(d, s, e) = v
      BY <1>3 DEF WithEvent, Seen
    <2>2. /\ v \in Database
          /\ v.received = [d.received EXCEPT ![s] = @ \cup {e}]
          /\ v.head = d.head /\ v.accounts = d.accounts /\ v.claims = d.claims
          /\ v.members = d.members /\ v.credentials = d.credentials /\ v.scimKeys = d.scimKeys
      BY SeenFields
    <2> HIDE DEF v
    <2>3. HeadSound(d, s) /\ e \in Nat /\ d.head[s].account \in Nat /\ d.head[s].email \in Nat
      BY LogRows, HeadType DEF DatabaseSound
    <2>4. e <= head
      <3>1. SUFFICES ASSUME e > head, KindOf(s, head) = "account.deleted" PROVE FALSE
        BY <1>3, <2>3 DEF HeadOf
      <3>2. head # 0 /\ log[s][head] = "account.deleted"
        BY <3>1 DEF KindOf
      <3>3. IsLatest(s, Scope(log[s][e]), d.received[s], head)
        BY <2>3, Scopes DEF HeadSound, HeadOf
      <3>4. head \in d.received[s] /\ Scope(log[s][e]) = Scope(log[s][head])
        BY <3>2, <3>3 DEF IsLatest
      <3>5. head \in DOMAIN log[s] /\ Scope(log[s][e]) = "account"
        BY <2>3, <3>2, <3>4 DEF HeadSound, Scope, AccountKinds
      <3>6. Scope(log[s][e]) = "email"
        BY <3>1, <3>2, <3>5 DEF DeletedLast
      <3> QED
        BY <3>5, <3>6
    <2>5. v.received[s] = d.received[s] \cup {e} /\ \A t \in Subjects \ {s} : v.received[t] = d.received[t]
      BY <2>2 DEF Database
    <2>6. HeadSound(v, s)
      BY <2>2, <2>3, <2>4, <2>5, Scopes DEF HeadSound, IsLatest, HeadOf
    <2>7. \A t \in Subjects : HeadSound(v, t) /\ ClaimSound(v, t)
      BY <2>2, <2>5, <2>6 DEF DatabaseSound, HeadSound, ClaimSound, After
    <2>8. \A c \in v.credentials : CredentialSound(v, c)
      BY <2>2 DEF DatabaseSound, CredentialSound, After, LiveRow
    <2>9. (\A m \in DOMAIN v.members : MemberSound(v, m)) /\ (\A m \in v.scimKeys : LiveRow(v, m))
      BY <2>2 DEF DatabaseSound, MemberSound, LiveRow
    <2> QED
      BY <2>1, <2>2, <2>7, <2>8, <2>9 DEF DatabaseSound
  <1> QED
    BY <1>1, <1>2, <1>3

LEMMA CarriedSound ==
  ASSUME LogType, DeletedLast, NEW d \in Database, DatabaseSound(d),
         NEW s \in Subjects, NEW t \in Nat
  PROVE  WithCarried(d, s, t) \in Database /\ DatabaseSound(WithCarried(d, s, t))
  <1> DEFINE With(e, known) == IF e \in Carried(s, t) \ {0} THEN WithEvent(known, s, e) ELSE known
             first == With(Account(s, t), d)
  <1>1. Before(s, t) \subseteq DOMAIN log[s]
    BY DEF Before
  <1>2. Account(s, t) \in {0} \cup DOMAIN log[s] /\ Email(s, t) \in {0} \cup DOMAIN log[s]
    BY <1>1, LatestIs DEF Account, Email
  <1>3. first \in Database /\ DatabaseSound(first)
    BY <1>2, EventSound
  <1>4. WithCarried(d, s, t) = With(Email(s, t), first)
    BY DEF WithCarried
  <1> HIDE DEF first
  <1> QED
    BY <1>2, <1>3, <1>4, EventSound

------------------------------------------------------------------------------
(* The steps. *)

LEMMA InitSound == AccountsInit => AccountsInv
  <1> SUFFICES ASSUME AccountsInit PROVE AccountsInv
    OBVIOUS
  <1>1. \A s \in Subjects : log[s] = <<>> /\ DOMAIN log[s] = {}
    BY DEF AccountsInit
  <1>2. log \in [Subjects -> Seq(EventKinds)]
    BY DEF AccountsInit
  <1>3. db \in Database
    BY DEF AccountsInit, Database
  <1>4. DeletedLast
    BY <1>1 DEF DeletedLast
  <1>5. DatabaseSound(db)
    BY DEF AccountsInit, DatabaseSound, HeadSound, ClaimSound, IsLatest
  <1> QED
    BY <1>2, <1>3, <1>4, <1>5 DEF AccountsInit, AccountsInv, AccountsTypeOK, EventKinds

LEMMA TypeParts ==
  AccountsTypeOK <=>
    LogType /\ db \in Database /\ signing \in {Idle, [at |-> "issuer"]} \cup SignIns
  BY DEF AccountsTypeOK, LogType, EventKinds

(* The issuer's log only grows, and what the database knows of it stands. *)
LEMMA EmitKeeps ==
  ASSUME AccountsInv, NEW s \in Subjects, NEW kind \in EventKinds, Emit(s, kind)
  PROVE  AccountsInv'
  <1>1. LogType /\ db \in Database /\ DeletedLast /\ DatabaseSound(db)
    BY TypeParts DEF AccountsInv
  <1>2. db' = db /\ signing' = signing /\ log' = [log EXCEPT ![s] = Append(@, kind)]
        /\ Follows(kind, KindOf(s, LatestOf(s, "account", DOMAIN log[s])),
                         KindOf(s, LatestOf(s, "email", DOMAIN log[s])))
    BY DEF Emit
  <1>3. log' \in [Subjects -> Seq(EventKinds)]
    BY <1>1, <1>2 DEF LogType
  <1>4. \A t \in Subjects : \A e \in DOMAIN log[t] : e \in DOMAIN log'[t] /\ log'[t][e] = log[t][e]
    BY <1>1, <1>2 DEF LogType
  <1>5. \A t \in Subjects : \A e \in DOMAIN log'[t] :
          e \in DOMAIN log[t] \/ (t = s /\ e = Len(log[s]) + 1 /\ log'[t][e] = kind)
    BY <1>1, <1>2 DEF LogType
  <1>6. \A t \in Subjects : DOMAIN log[t] \subseteq Nat /\ Len(log[s]) \in Nat
                            /\ \A e \in DOMAIN log[t] : e <= Len(log[t])
    BY <1>1, LogRows
  <1>7. DeletedLast'
    <2> SUFFICES ASSUME NEW t \in Subjects, NEW i \in DOMAIN log'[t], NEW j \in DOMAIN log'[t],
                        i < j, log'[t][i] = "account.deleted"
                 PROVE  Scope(log'[t][j]) = "email"
      BY DEF DeletedLast, Scope
    <2>1. CASE j \in DOMAIN log[t]
      <3>1. i \in DOMAIN log[t]
        BY <1>5, <1>6, <2>1
      <3> QED
        BY <1>1, <1>4, <2>1, <3>1 DEF DeletedLast
    <2>2. CASE j \notin DOMAIN log[t]
      <3>1. t = s /\ j = Len(log[s]) + 1 /\ log'[t][j] = kind
        BY <1>5, <2>2
      <3>2. i \in DOMAIN log[s] /\ log[s][i] = "account.deleted"
        BY <1>4, <1>5, <1>6, <3>1
      <3> DEFINE last == LatestOf(s, "account", DOMAIN log[s])
      <3>3. IsLatest(s, "account", DOMAIN log[s], last) /\ last \in {0} \cup DOMAIN log[s]
        BY <1>1, LatestIs
      <3> HIDE DEF last
      <3>4. Scope(log[s][i]) = "account"
        BY <3>2 DEF Scope, AccountKinds
      <3>5. i <= last /\ last # 0 /\ last \in DOMAIN log[s] /\ Scope(log[s][last]) = "account"
        BY <1>6, <3>2, <3>3, <3>4 DEF IsLatest
      <3>6. last = i
        BY <1>1, <1>6, <3>2, <3>5 DEF DeletedLast
      <3>7. KindOf(s, last) = "account.deleted"
        BY <3>2, <3>5, <3>6 DEF KindOf
      <3>8. kind \in EmailKinds
        BY <1>2, <3>7 DEF Follows, last, EventKinds, AccountKinds, EmailKinds
      <3> QED
        BY <3>1, <3>8 DEF Scope, EmailKinds, AccountKinds
    <2> QED
      BY <2>1, <2>2
  <1>8. \A t \in Subjects : HeadSound(db, t)' /\ ClaimSound(db, t)'
    <2> SUFFICES ASSUME NEW t \in Subjects PROVE HeadSound(db, t)' /\ ClaimSound(db, t)'
      OBVIOUS
    <2>1. HeadSound(db, t) /\ ClaimSound(db, t)
      BY <1>1 DEF DatabaseSound
    <2>2. \A e \in {0} \cup DOMAIN log[t] : KindOf(t, e)' = KindOf(t, e)
      BY <1>4 DEF KindOf
    <2>3. db.head[t].account \in {0} \cup DOMAIN log[t] /\ db.head[t].email \in {0} \cup DOMAIN log[t]
      BY <2>1 DEF HeadSound, IsLatest
    <2>4. HeadSound(db, t)'
      BY <1>2, <1>4, <2>1, <2>3 DEF HeadSound, IsLatest, Scope
    <2>5. ClaimSound(db, t)'
      BY <1>2, <2>1, <2>2, <2>3 DEF ClaimSound, After, OccurredAt
    <2> QED
      BY <2>4, <2>5
  <1>9. \A c \in db'.credentials : CredentialSound(db, c)'
    <2> SUFFICES ASSUME NEW c \in db.credentials PROVE CredentialSound(db, c)'
      BY <1>2
    <2>1. CredentialSound(db, c) /\ c.subject \in Subjects
      BY <1>1 DEF DatabaseSound, Database, Credentials
    <2>2. db.head[c.subject].account \in {0} \cup DOMAIN log[c.subject]
      BY <1>1, <2>1 DEF DatabaseSound, HeadSound, IsLatest
    <2>3. KindOf(c.subject, db.head[c.subject].account)' = KindOf(c.subject, db.head[c.subject].account)
      BY <1>2, <1>4, <2>1, <2>2 DEF KindOf
    <2> QED
      BY <1>2, <2>1, <2>3 DEF CredentialSound, After, LiveRow, OccurredAt
  <1>10. (\A m \in DOMAIN db.members : MemberSound(db, m))' /\ (\A m \in db.scimKeys : LiveRow(db, m))'
    BY <1>1, <1>2 DEF DatabaseSound, MemberSound, LiveRow
  <1>11. DatabaseSound(db)'
    BY <1>8, <1>9, <1>10 DEF DatabaseSound
  <1>12. AccountsTypeOK'
    BY <1>1, <1>2, <1>3, TypeParts DEF AccountsInv, AccountsTypeOK, EventKinds
  <1> QED
    BY <1>7, <1>11, <1>12 DEF AccountsInv

(* A step that makes the database another sound one. *)
LEMMA DatabaseStep ==
  ASSUME AccountsInv, UNCHANGED log, db' \in Database, DatabaseSound(db'),
         signing' \in {Idle, [at |-> "issuer"]} \cup SignIns
  PROVE  AccountsInv'
  <1>1. AccountsTypeOK'
    BY TypeParts DEF AccountsInv, AccountsTypeOK
  <1>2. DeletedLast'
    BY DEF AccountsInv, DeletedLast, Scope
  <1>3. DatabaseSound(db)'
    BY DEF DatabaseSound, HeadSound, ClaimSound, CredentialSound, MemberSound, LiveRow, After,
           IsLatest, KindOf, OccurredAt, Scope
  <1> QED
    BY <1>1, <1>2, <1>3 DEF AccountsInv

LEMMA StutterKeeps == AccountsInv /\ UNCHANGED accountVars => AccountsInv'
  BY DatabaseStep, TypeParts DEF AccountsInv, accountVars

LEMMA DeliverKeeps ==
  ASSUME AccountsInv, NEW s \in Subjects, NEW e \in DOMAIN log[s], Deliver(s, e)
  PROVE  AccountsInv'
  BY EventSound, DatabaseStep, TypeParts DEF AccountsInv, Deliver

(* A sign-in. *)
LEMMA ProveKeeps ==
  ASSUME AccountsInv, NEW s \in Subjects, NEW t \in Nat, NEW kind \in {"session", "oauth"},
         Prove(s, t, kind), UNCHANGED log
  PROVE  AccountsInv'
  <1>1. db' \in Database /\ DatabaseSound(db')
    BY CarriedSound, TypeParts DEF AccountsInv, Prove
  <1>2. signing' \in SignIns
    BY DEF Prove, Proved, SignIns
  <1> QED
    BY <1>1, <1>2, DatabaseStep

LEMMA CallbackKeeps ==
  ASSUME AccountsInv, NEW s \in Subjects, Callback(s)
  PROVE  AccountsInv'
  <1>1. Len(log[s]) \in Nat
    BY TypeParts, LogRows DEF AccountsInv
  <1>2. PICK t \in {2 * Len(log[s]), 2 * Len(log[s]) + 1} \ {0} : Prove(s, t, "session")
    BY DEF Callback
  <1> QED
    BY <1>1, <1>2, ProveKeeps DEF Callback

LEMMA PresentKeeps ==
  ASSUME AccountsInv, NEW s \in Subjects, NEW t \in 1 .. 2 * Len(log[s]) + 1, Present(s, t)
  PROVE  AccountsInv'
  <1>1. Len(log[s]) \in Nat
    BY TypeParts, LogRows DEF AccountsInv
  <1> QED
    BY <1>1, ProveKeeps DEF Present

LEMMA SigningKeeps ==
  ASSUME AccountsInv, Login \/ Vanish
  PROVE  AccountsInv'
  BY DatabaseStep, TypeParts DEF AccountsInv, Login, Vanish

(* The credentials in force may become fewer at any moment. *)
LEMMA FewerCredentials ==
  ASSUME NEW d \in Database, DatabaseSound(d), NEW rest \in SUBSET d.credentials
  PROVE  /\ [d EXCEPT !.credentials = rest] \in Database
         /\ DatabaseSound([d EXCEPT !.credentials = rest])
  <1> DEFINE w == [d EXCEPT !.credentials = rest]
  <1>1. /\ w \in Database /\ w.credentials \subseteq d.credentials
        /\ w.received = d.received /\ w.head = d.head /\ w.accounts = d.accounts
        /\ w.claims = d.claims /\ w.members = d.members /\ w.scimKeys = d.scimKeys
    BY DEF Database
  <1> HIDE DEF w
  <1> QED
    BY <1>1 DEF w, DatabaseSound, HeadSound, ClaimSound, CredentialSound, MemberSound, LiveRow, After

LEMMA LapseKeeps ==
  ASSUME AccountsInv, NEW c \in db.credentials, Lapse(c) \/ Logout(c)
  PROVE  AccountsInv'
  <1>1. db \in Database /\ DatabaseSound(db)
    BY TypeParts DEF AccountsInv
  <1>2. db' = [db EXCEPT !.credentials = db.credentials \ {c}] /\ UNCHANGED <<log, signing>>
    BY DEF Lapse, Logout
  <1>3. db' \in Database /\ DatabaseSound(db')
    BY <1>1, <1>2, FewerCredentials
  <1> QED
    BY <1>2, <1>3, DatabaseStep, TypeParts DEF AccountsInv

(* A sign-in is admitted only with a proof younger than the account's head, *)
(* and claims its address only with one younger than that of the address.   *)
LEMMA EnterKeeps ==
  ASSUME AccountsInv, Enter
  PROVE  AccountsInv'
  <1> DEFINE p == signing
             key == Credential(p, p.kind, 0)
             s == p.subject
  <1>1. db \in Database /\ DatabaseSound(db)
    BY TypeParts DEF AccountsInv
  <1>2. p \in SignIns
    BY TypeParts DEF AccountsInv, Enter, Idle
  <1>3. /\ s \in Subjects /\ p.issued \in Nat /\ key \in Credentials
        /\ key.subject = s /\ key.issued = p.issued /\ key.membership = 0
    BY <1>2 DEF SignIns, Credentials, Credential
  <1>4. After(db, s, p.issued) /\ db.accounts[s] \in {"none", "live"}
    BY <1>1, <1>3 DEF Enter, Admitted, After, Database, Unrestricted
  <1> DEFINE states == [db.accounts EXCEPT ![s] = "live"]
             keys == db.credentials \cup {key}
             digests == IF p.kind = "oauth" THEN db.digests \cup {p} ELSE db.digests
             claims == [db.claims EXCEPT ![s] = IF Claims(p) THEN p.issued ELSE @]
  <1>5. db' = [db EXCEPT !.accounts = states, !.credentials = keys, !.digests = digests, !.claims = claims]
    BY <1>1 DEF Enter, Database
  <1>6. /\ states \in [Subjects -> {"none", "live", "disabled"}] /\ states[s] = "live"
        /\ \A t \in Subjects \ {s} : states[t] = db.accounts[t]
    BY <1>1, <1>3 DEF Database
  <1>7. /\ claims \in [Subjects -> Nat] /\ claims[s] \in {db.claims[s], p.issued}
        /\ \A t \in Subjects \ {s} : claims[t] = db.claims[t]
        /\ claims[s] # db.claims[s] => Claims(p)
        /\ db.claims[s] # 0 => claims[s] = db.claims[s]
    BY <1>1, <1>3 DEF Database, Claims
  <1>8. keys \in SUBSET Credentials /\ digests \in SUBSET SignIns
    BY <1>1, <1>2, <1>3 DEF Database
  <1>9. \A c \in keys : c = key \/ c \in db.credentials
    OBVIOUS
  <1>10. UNCHANGED log /\ signing' = Idle
    BY DEF Enter
  <1> HIDE DEF p, key, s, states, keys, digests, claims
  <1>11. /\ db' \in Database
         /\ db'.received = db.received /\ db'.head = db.head /\ db'.members = db.members
         /\ db'.scimKeys = db.scimKeys /\ db'.accounts = states /\ db'.claims = claims
         /\ db'.credentials = keys
    BY <1>1, <1>5, <1>6, <1>7, <1>8 DEF Database
  <1>12. \A t \in Subjects : HeadSound(db', t)
    BY <1>1, <1>11 DEF DatabaseSound, HeadSound
  <1>13. ASSUME NEW t \in Subjects PROVE ClaimSound(db', t)
    <2>1. ClaimSound(db, t)
      BY <1>1 DEF DatabaseSound
    <2>2. CASE t # s \/ claims[t] = db.claims[t]
      BY <1>6, <1>7, <1>11, <2>1, <2>2 DEF ClaimSound, After
    <2>3. CASE t = s /\ claims[t] # db.claims[t]
      <3>1. Claims(p) /\ claims[s] = p.issued
        BY <1>7, <2>3
      <3>2. p.issued > OccurredAt(db.head[s].email) /\ KindOf(s, db.head[s].email) # "email.revoked"
        BY <3>1 DEF Claims, s
      <3> QED
        BY <1>4, <1>6, <1>11, <2>3, <3>1, <3>2 DEF ClaimSound, After
    <2> QED
      BY <2>2, <2>3
  <1>14. ASSUME NEW c \in db'.credentials PROVE CredentialSound(db', c)
    <2>1. CASE c = key
      BY <1>3, <1>4, <1>11, <2>1 DEF CredentialSound, After
    <2>2. CASE c \in db.credentials
      BY <1>1, <1>11, <2>2 DEF DatabaseSound, CredentialSound, After, LiveRow
    <2> QED
      BY <1>9, <1>11, <2>1, <2>2
  <1>15. ASSUME NEW m \in DOMAIN db'.members PROVE MemberSound(db', m)
    <2>1. MemberSound(db, m) /\ db.members \in Seq(Memberships) /\ m \in DOMAIN db.members
      BY <1>1, <1>11 DEF DatabaseSound, Database
    <2>2. db.members[m] \in Memberships
      BY <2>1
    <2>3. db.members[m].subject \in Subjects
      BY <2>2 DEF Memberships
    <2> QED
      BY <1>7, <1>11, <2>1, <2>3 DEF MemberSound
  <1>16. \A m \in db'.scimKeys : LiveRow(db', m)
    BY <1>1, <1>11 DEF DatabaseSound, LiveRow
  <1>17. DatabaseSound(db')
    BY <1>12, <1>13, <1>14, <1>15, <1>16 DEF DatabaseSound
  <1> QED
    BY <1>10, <1>11, <1>17, DatabaseStep

(* An active membership was not ended: that is all an ended one lacks. *)
LEMMA ActiveIsLive ==
  ASSUME NEW d \in Database, DatabaseSound(d), NEW m \in DOMAIN d.members
  PROVE  ActiveMembership(d, m) <=> LiveRow(d, m)
  <1>1. d.members[m] \in Memberships
    BY DEF Database
  <1>2. d.members[m].subject \in Subjects
    BY <1>1 DEF Memberships
  <1>3. CASE d.members[m].live
    <2>1. d.claims[d.members[m].subject] # 0
      BY <1>3 DEF DatabaseSound, MemberSound
    <2>2. ClaimSound(d, d.members[m].subject)
      BY <1>2 DEF DatabaseSound
    <2> QED
      BY <1>3, <2>1, <2>2 DEF ClaimSound, After, Unrestricted, ActiveMembership, Lives, LiveRow
  <1> QED
    BY <1>3 DEF ActiveMembership, LiveRow

(* A new membership rests on the claim of its subject. *)
LEMMA JoinSound ==
  ASSUME NEW d \in Database, DatabaseSound(d), NEW s \in Subjects, d.claims[s] # 0,
         NEW role \in {"owner", "admin", "member"}
  PROVE  Join(d, s, role) \in Database /\ DatabaseSound(Join(d, s, role))
  <1> DEFINE row == [subject |-> s, role |-> role, live |-> TRUE, proof |-> d.claims[s]]
             rows == Append(d.members, row)
             w == [d EXCEPT !.members = rows]
  <1>1. d.members \in Seq(Memberships) /\ d.claims[s] \in Nat
    BY HeadType DEF Database
  <1>2. row \in Memberships
    BY <1>1 DEF Memberships
  <1>3. /\ rows \in Seq(Memberships) /\ Len(d.members) \in Nat
        /\ DOMAIN d.members = 1 .. Len(d.members)
        /\ DOMAIN rows = 1 .. Len(d.members) + 1
        /\ \A m \in DOMAIN d.members : rows[m] = d.members[m]
        /\ rows[Len(d.members) + 1] = row
    BY <1>1, <1>2
  <1>4. row.subject = s /\ row.proof = d.claims[s]
    OBVIOUS
  <1> HIDE DEF row, rows
  <1>5. /\ w \in Database /\ w.members = rows /\ w.credentials = d.credentials
        /\ w.received = d.received /\ w.head = d.head /\ w.accounts = d.accounts
        /\ w.claims = d.claims /\ w.scimKeys = d.scimKeys
    BY <1>3 DEF Database
  <1> HIDE DEF w
  <1>6. \A t \in Subjects : HeadSound(w, t) /\ ClaimSound(w, t)
    BY <1>5 DEF DatabaseSound, HeadSound, ClaimSound, After
  <1>7. \A m : LiveRow(d, m) => LiveRow(w, m)
    BY <1>3, <1>5 DEF LiveRow
  <1>8. \A c \in w.credentials : CredentialSound(w, c)
    BY <1>5, <1>7 DEF DatabaseSound, CredentialSound, After
  <1>9. ASSUME NEW m \in DOMAIN w.members PROVE MemberSound(w, m)
    <2>1. CASE m \in DOMAIN d.members
      BY <1>3, <1>5, <2>1 DEF DatabaseSound, MemberSound
    <2>2. CASE m \notin DOMAIN d.members
      <3>1. m = Len(d.members) + 1
        BY <1>3, <1>5, <2>2
      <3> QED
        BY <1>3, <1>4, <1>5, <3>1 DEF MemberSound
    <2> QED
      BY <2>1, <2>2
  <1>10. \A m \in w.scimKeys : LiveRow(w, m)
    BY <1>5, <1>7 DEF DatabaseSound
  <1> QED
    BY <1>5, <1>6, <1>8, <1>9, <1>10 DEF DatabaseSound, w, rows, row, Join

(* Invitations are of no account's authority. *)
LEMMA OtherInvitations ==
  ASSUME NEW d \in Database, DatabaseSound(d), NEW list \in Seq(Invitations)
  PROVE  /\ [d EXCEPT !.invitations = list] \in Database
         /\ DatabaseSound([d EXCEPT !.invitations = list])
         /\ [d EXCEPT !.invitations = list].claims = d.claims
  <1> DEFINE w == [d EXCEPT !.invitations = list]
  <1>1. /\ w \in Database /\ w.credentials = d.credentials
        /\ w.received = d.received /\ w.head = d.head /\ w.accounts = d.accounts
        /\ w.claims = d.claims /\ w.members = d.members /\ w.scimKeys = d.scimKeys
    BY DEF Database
  <1> HIDE DEF w
  <1> QED
    BY <1>1 DEF w, DatabaseSound, HeadSound, ClaimSound, CredentialSound, MemberSound, LiveRow, After

LEMMA ManageKeeps ==
  ASSUME AccountsInv, NEW c \in db.credentials, Manage(c), UNCHANGED <<log, signing>>
  PROVE  AccountsInv'
  <1>1. db \in Database /\ DatabaseSound(db)
    BY TypeParts DEF AccountsInv
  <1>2. c \in Credentials /\ CredentialSound(db, c)
    BY <1>1 DEF Database, DatabaseSound
  <1>3. c.subject \in Subjects /\ c.issued \in Nat /\ After(db, c.subject, c.issued)
    BY <1>2 DEF Credentials, CredentialSound
  <1>4. /\ db.members \in Seq(Memberships) /\ Len(db.members) \in Nat
        /\ DOMAIN db.members = 1 .. Len(db.members)
        /\ db.invitations \in Seq(Invitations) /\ db.credentials \subseteq Credentials
        /\ db.scimKeys \subseteq Nat
    BY <1>1 DEF Database
  <1>5. \A m \in MembershipOf(db, c.subject) : m \in DOMAIN db.members /\ LiveRow(db, m)
    BY <1>1, ActiveIsLive DEF MembershipOf
  <1>6. SUFFICES db' \in Database /\ DatabaseSound(db')
    BY DatabaseStep, TypeParts DEF AccountsInv
  <1>7. CASE CreateOrganization(c)
    BY <1>1, <1>3, <1>7, JoinSound DEF CreateOrganization
  <1>8. ASSUME NEW s \in Subjects, NEW role \in {"member", "admin"}, CreateInvite(c, s, role)
        PROVE  db' \in Database /\ DatabaseSound(db')
    <2>1. PICK m \in MembershipOf(db, c.subject) :
            db' = [db EXCEPT !.invitations =
                    Append(db.invitations, [creator |-> m, subject |-> s, role |-> role, accepted |-> FALSE])]
      BY <1>8 DEF CreateInvite
    <2>2. [creator |-> m, subject |-> s, role |-> role, accepted |-> FALSE] \in Invitations
      BY <1>4, <1>5 DEF Invitations
    <2>3. Append(db.invitations, [creator |-> m, subject |-> s, role |-> role, accepted |-> FALSE])
            \in Seq(Invitations)
      BY <1>4, <2>2
    <2> QED
      BY <1>1, <2>1, <2>3, OtherInvitations
  <1>9. ASSUME NEW i \in DOMAIN db.invitations, AcceptInvite(c, i)
        PROVE  db' \in Database /\ DatabaseSound(db')
    <2> DEFINE row == [db.invitations[i] EXCEPT !.accepted = TRUE]
               list == [db.invitations EXCEPT ![i] = row]
               d == [db EXCEPT !.invitations = list]
    <2>1. db.invitations[i] \in Invitations
      BY <1>4
    <2>2. row \in Invitations /\ db.invitations[i].role \in {"owner", "admin", "member"}
      BY <2>1 DEF Invitations
    <2>3. list \in Seq(Invitations)
      BY <1>4, <2>2
    <2>4. [db EXCEPT !.invitations[i].accepted = TRUE] = d
      BY <1>4, <2>1 DEF Invitations, Database
    <2>5. d \in Database /\ DatabaseSound(d) /\ d.claims = db.claims
      BY <1>1, <2>3, OtherInvitations
    <2>6. db' = Join(d, c.subject, db.invitations[i].role) /\ db.claims[c.subject] # 0
      BY <1>9, <2>4 DEF AcceptInvite
    <2> HIDE DEF d
    <2> QED
      BY <1>3, <2>2, <2>5, <2>6, JoinSound
  <1>10. ASSUME NEW m \in DOMAIN db.members, RevokeMembership(c, m)
         PROVE  db' \in Database /\ DatabaseSound(db')
    BY <1>1, <1>10, EndedSound, TypeParts DEF AccountsInv, RevokeMembership
  <1>11. ASSUME NEW m \in {0} \cup DOMAIN db.members, IssueKey(c, m)
         PROVE  db' \in Database /\ DatabaseSound(db')
    <2> DEFINE key == Credential(c, IF m = 0 THEN "personal_key" ELSE "api_key", m)
    <2>1. key \in Credentials /\ key.subject = c.subject /\ key.issued = c.issued /\ key.membership = m
      BY <1>2, <1>3, <1>4, <1>11 DEF Credential, Credentials
    <2>2. m # 0 => LiveRow(db, m)
      BY <1>5, <1>11 DEF IssueKey
    <2>3. db' = [db EXCEPT !.credentials = db.credentials \cup {key}]
      BY <1>11 DEF IssueKey
    <2> HIDE DEF key
    <2>4. /\ db' \in Database /\ db'.credentials = db.credentials \cup {key}
          /\ db'.received = db.received /\ db'.head = db.head /\ db'.accounts = db.accounts
          /\ db'.claims = db.claims /\ db'.members = db.members /\ db'.scimKeys = db.scimKeys
      BY <1>1, <2>1, <2>3 DEF Database
    <2>5. CredentialSound(db', key)
      BY <1>3, <2>1, <2>2, <2>4 DEF CredentialSound, After, LiveRow
    <2> QED
      BY <1>1, <2>4, <2>5
         DEF DatabaseSound, HeadSound, ClaimSound, CredentialSound, MemberSound, LiveRow, After
  <1>12. ASSUME NEW key \in db.credentials, RevokeKey(c, key)
         PROVE  db' \in Database /\ DatabaseSound(db')
    <2>1. db' = [db EXCEPT !.credentials = db.credentials \ {key}]
      BY <1>12 DEF RevokeKey
    <2> QED
      BY <1>1, <2>1, FewerCredentials
  <1>13. ASSUME IssueScimKey(c)
         PROVE  db' \in Database /\ DatabaseSound(db')
    <2>1. PICK m \in MembershipOf(db, c.subject) : db' = [db EXCEPT !.scimKeys = db.scimKeys \cup {m}]
      BY <1>13 DEF IssueScimKey
    <2>2. LiveRow(db, m) /\ m \in Nat
      BY <1>4, <1>5
    <2>4. db.scimKeys \cup {m} \in SUBSET Nat
      BY <1>4, <2>2
    <2>3. /\ db' \in Database /\ db'.scimKeys = db.scimKeys \cup {m} /\ db'.credentials = db.credentials
          /\ db'.received = db.received /\ db'.head = db.head /\ db'.accounts = db.accounts
          /\ db'.claims = db.claims /\ db'.members = db.members
      BY <1>1, <2>1, <2>4 DEF Database
    <2> QED
      BY <1>1, <2>2, <2>3
         DEF DatabaseSound, HeadSound, ClaimSound, CredentialSound, MemberSound, LiveRow, After
  <1> QED
    BY <1>7, <1>8, <1>9, <1>10, <1>11, <1>12, <1>13 DEF Manage

LEMMA DirectoryKeeps ==
  ASSUME AccountsInv, NEW m \in db.scimKeys, Directory(m), UNCHANGED <<log, signing>>
  PROVE  AccountsInv'
  <1>1. LogType /\ db \in Database /\ DatabaseSound(db)
    BY TypeParts DEF AccountsInv
  <1>2. PICK target \in DOMAIN db.members : ScimDeactivate(m, target) \/ ScimDelete(m, target)
    BY DEF Directory
  <1> DEFINE w == WithoutMemberships(db, {target})
  <1>3. w \in Database /\ DatabaseSound(w)
    BY <1>1, EndedSound
  <1> HIDE DEF w
  <1>4. target \in Nat
    <2>1. db.members \in Seq(Memberships)
      BY <1>1 DEF Database
    <2> QED
      BY <2>1
  <1>5. CASE db' = w
    BY <1>3, <1>5, DatabaseStep, TypeParts DEF AccountsInv
  <1>6. CASE db' = [w EXCEPT !.deleted = w.deleted \cup {target}]
    <2>3. w.deleted \cup {target} \in SUBSET Nat
      BY <1>3, <1>4 DEF Database
    <2>1. /\ db' \in Database /\ db'.scimKeys = w.scimKeys /\ db'.credentials = w.credentials
          /\ db'.received = w.received /\ db'.head = w.head /\ db'.accounts = w.accounts
          /\ db'.claims = w.claims /\ db'.members = w.members
      BY <1>3, <1>6, <2>3 DEF Database
    <2>2. DatabaseSound(db')
      BY <1>3, <2>1
         DEF DatabaseSound, HeadSound, ClaimSound, CredentialSound, MemberSound, LiveRow, After
    <2> QED
      BY <2>1, <2>2, DatabaseStep, TypeParts DEF AccountsInv
  <1> QED
    BY <1>2, <1>5, <1>6 DEF w, ScimDeactivate, ScimDelete

LEMMA NextKeeps == AccountsInv /\ [AccountsNext]_accountVars => AccountsInv'
  <1> SUFFICES ASSUME AccountsInv, [AccountsNext]_accountVars PROVE AccountsInv'
    OBVIOUS
  <1>1. CASE UNCHANGED accountVars
    BY <1>1, StutterKeeps
  <1>2. ASSUME NEW s \in Subjects, NEW kind \in AccountKinds \cup EmailKinds, Emit(s, kind)
        PROVE  AccountsInv'
    BY <1>2, EmitKeeps DEF EventKinds
  <1>3. ASSUME NEW s \in Subjects, NEW e \in DOMAIN log[s], Deliver(s, e) PROVE AccountsInv'
    BY <1>3, DeliverKeeps
  <1>4. CASE Login \/ Vanish
    BY <1>4, SigningKeeps
  <1>5. ASSUME NEW s \in Subjects, Callback(s) PROVE AccountsInv'
    BY <1>5, CallbackKeeps
  <1>6. ASSUME NEW s \in Subjects, NEW t \in 1 .. 2 * Len(log[s]) + 1, Present(s, t) PROVE AccountsInv'
    BY <1>6, PresentKeeps
  <1>7. CASE Enter
    BY <1>7, EnterKeeps
  <1>8. ASSUME NEW c \in db.credentials, Lapse(c) \/ Logout(c) PROVE AccountsInv'
    BY <1>8, LapseKeeps
  <1>9. ASSUME NEW c \in db.credentials, Manage(c), UNCHANGED <<log, signing>> PROVE AccountsInv'
    BY <1>9, ManageKeeps
  <1>10. ASSUME NEW m \in db.scimKeys, Directory(m), UNCHANGED <<log, signing>> PROVE AccountsInv'
    BY <1>10, DirectoryKeeps
  <1> QED
    BY <1>1, <1>2, <1>3, <1>4, <1>5, <1>6, <1>7, <1>8, <1>9, <1>10 DEF AccountsNext

------------------------------------------------------------------------------
(* The theorems. *)

(* AccountsInv is an invariant, whatever order events arrive in. *)
THEOREM AccountsInvariant == AccountsSpec => []AccountsInv
  BY InitSound, NextKeeps, PTL DEF AccountsSpec

(* Every state of accounts, database and sign-ins is well typed. *)
THEOREM AccountsTypeCorrect == AccountsSpec => []AccountsTypeOK
  <1>1. AccountsInv => AccountsTypeOK
    BY DEF AccountsInv
  <1> QED
    BY <1>1, AccountsInvariant, PTL

LEMMA AuthorityOfSound == AccountsInv => AuthorityFollowsHead
  <1> SUFFICES ASSUME AccountsInv, NEW s \in Subjects
      PROVE  LET account == LatestOf(s, "account", db.received[s])
                 email == LatestOf(s, "email", db.received[s])
                 Younger(t) == t > OccurredAt(account) /\ KindOf(s, account) \in {"none", "account.resumed"} IN
             /\ \A c \in db.credentials : c.subject = s => Younger(c.issued)
             /\ \A t \in {db.claims[s]} \ {0} :
                  Younger(t) /\ t > OccurredAt(email) /\ KindOf(s, email) # "email.revoked"
             /\ \A m \in MembershipOf(db, s) :
                  Younger(db.members[m].proof) /\ db.members[m].proof > OccurredAt(email)
    BY DEF AuthorityFollowsHead
  <1>1. LogType /\ db \in Database /\ DatabaseSound(db)
    BY TypeParts DEF AccountsInv
  <1>2. HeadSound(db, s) /\ ClaimSound(db, s)
    BY <1>1 DEF DatabaseSound
  <1>3. db.head[s].account \in Nat /\ db.head[s].email \in Nat
    BY <1>1, HeadType
  <1>4. \A scope : LatestOf(s, scope, db.received[s]) \in Nat
                   /\ IsLatest(s, scope, db.received[s], LatestOf(s, scope, db.received[s]))
    BY <1>1, <1>2, LatestIs, LogRows DEF HeadSound
  <1>5. LatestOf(s, "account", db.received[s]) = db.head[s].account
    BY <1>1, <1>2, <1>3, <1>4, LatestUnique DEF HeadSound
  <1>6. LatestOf(s, "email", db.received[s]) = db.head[s].email
    BY <1>1, <1>2, <1>3, <1>4, LatestUnique DEF HeadSound
  <1>7. \A c \in db.credentials : c.subject = s => After(db, s, c.issued)
    BY <1>1 DEF DatabaseSound, CredentialSound
  <1>8. \A m \in MembershipOf(db, s) : db.claims[s] # 0 /\ db.members[m].proof = db.claims[s]
    BY <1>1 DEF MembershipOf, ActiveMembership, DatabaseSound, MemberSound
  <1> QED
    BY <1>2, <1>5, <1>6, <1>7, <1>8 DEF ClaimSound, After, Unrestricted

(* All that is in force was proved after the last event received: whatever  *)
(* order the issuer's events arrive in, for any number of subjects, events, *)
(* memberships and credentials.                                             *)
THEOREM AuthorityAlwaysFollowsHead == AccountsSpec => []AuthorityFollowsHead
  BY AuthorityOfSound, AccountsInvariant, PTL

(* A membership that ended leaves nothing behind that acts for the           *)
(* organization, also after its account was invited again.                   *)
THEOREM AlwaysEndsWithMembership == AccountsSpec => []EndsWithMembership
  <1>1. AccountsInv => EndsWithMembership
    <2> SUFFICES ASSUME AccountsInv, NEW m \in DOMAIN db.members, ~ ActiveMembership(db, m)
                 PROVE  /\ \A c \in db.credentials : c.membership # m
                        /\ m \notin db.scimKeys
                        /\ \A i \in DOMAIN db.invitations :
                             db.invitations[i].creator = m => ~ Acceptable(i)
      BY DEF EndsWithMembership
    <2>1. db \in Database /\ DatabaseSound(db)
      BY TypeParts DEF AccountsInv
    <2>2. ~ LiveRow(db, m) /\ m # 0
      <3>1. db.members \in Seq(Memberships)
        BY <2>1 DEF Database
      <3> QED
        BY <2>1, <3>1, ActiveIsLive
    <2>3. \A c \in db.credentials : c.membership # m
      BY <2>1, <2>2 DEF DatabaseSound, CredentialSound
    <2>4. m \notin db.scimKeys
      BY <2>1, <2>2 DEF DatabaseSound
    <2>5. \A i \in DOMAIN db.invitations : db.invitations[i].creator = m => ~ Acceptable(i)
      BY DEF Acceptable, Administers
    <2> QED
      BY <2>3, <2>4, <2>5
  <1> QED
    BY <1>1, AccountsInvariant, PTL

=================================================================================
