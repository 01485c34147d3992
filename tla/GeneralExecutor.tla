---------------------------- MODULE GeneralExecutor ----------------------------
(***************************************************************************)
(* The execution boundary of one routed Space                              *)
(* (saas/src/routing/general-executor.ts): concurrent invocations of       *)
(* memory_ingest, memory_search and memory_clear_space, and passes of      *)
(* reconcileGeneralRetirements, against the Space's ledger, the            *)
(* deployment's budget, the authority database and the memory provider.    *)
(*                                                                         *)
(* Each await is a step of its own.  A remote call commits in its step; it *)
(* may also fail before committing ("unreachable") or commit and lose its  *)
(* answer ("lost").  An invocation may be aborted, run out of time, or     *)
(* disappear with its worker ("crash").  The provider handles what is on   *)
(* the wire when it wants to, also after the caller stopped waiting.       *)
(* memory_usage changes nothing and is left out.                           *)
(***************************************************************************)
EXTENDS Integers, FiniteSets, Sequences

CONSTANTS
  Calls,          \* invocations of the executor
  Passes,         \* reconciliation passes the operator runs
  CallOf,         \* what an invocation asks: [kind, id, actor, payload, bytes]
  TheSpace,       \* identity of the Space
  NoIdentity,
  TheBudget,      \* the configured budget id
  NoBudget,
  Policy,         \* the configured budget policy
  Until,          \* authorityExpiresAtMs of an actor
  MaxOperations, MonthlyOperations, MaxRetirements, TicketLifetime,
  KiB, MaxReservations, ReservationLifetime, MonthLength,
  PageSize,       \* 10 in the code
  Broken,         \* generations whose profile the provider cannot delete
  Faults,         \* bound: which failures happen, a subset of FaultKinds
  MaxStarted,     \* bound: invocations that start, any of Calls
  MaxClock        \* bound: the last tick of the clock

FaultKinds == {"lost", "unreachable", "abort", "crash", "provider", "revoke"}

Ids == {CallOf[c].id : c \in Calls}
Actors == {CallOf[c].actor : c \in Calls}
Payloads == {CallOf[c].payload : c \in Calls}
Sizes == {CallOf[c].bytes : c \in Calls}
Work == {c \in Calls : CallOf[c].kind \in {"memory_ingest", "memory_search"}}
Clears == Calls \ Work
Deleters == Clears \cup Passes

ASSUME CallsAssumption ==
  /\ Calls \cap Passes = {}
  /\ \A c \in Calls : CallOf[c].kind \in {"memory_ingest", "memory_search", "memory_clear_space"}
  /\ \A c \in Calls : CallOf[c].bytes \in Nat /\ (CallOf[c].kind = "memory_search" => CallOf[c].bytes > 0)
  /\ Until \in [Actors -> Nat]
  /\ PageSize \in 1 .. 100
  /\ Faults \subseteq FaultKinds

VARIABLES
  identity, generation, operations, retirements, cursor,  \* the Space's ledger
  budget, months, reservations, total,                    \* the deployment's budget
  clock,
  access,     \* the authority database: which actors may still act
  pc,         \* where an invocation or a pass is
  reserved,   \* "no": not attempted; "lost": no answer; "held": reservation known
  terminal,   \* the outcome an invocation would journal
  todo,       \* journals the current finalize() still has to write
  failed,     \* whether one of its writes was rejected
  rows,       \* retirements a deleter still has to work on
  cleanup,    \* cleanupPending of a clear
  outcome,    \* what the client was told
  wire,       \* requests on their way to the provider
  answers,    \* provider answers not received yet
  profile,    \* the provider: ingested operations per generation
  deleted,    \* the provider: generations deleted at least once
  egress      \* history: how far the request of an invocation got

Space == INSTANCE GeneralLedger WITH
           OperationIds <- Ids, Actors <- Actors, Payloads <- Payloads,
           Identities <- {TheSpace}, Deadlines <- {Until[a] : a \in Actors},
           PageSizes <- {PageSize}

Latest == MaxClock + TicketLifetime + ReservationLifetime

Budget == INSTANCE BudgetLedger WITH
            BudgetIds <- {TheBudget}, ReservationIds <- Ids, Contents <- Payloads,
            InputSizes <- Sizes, Policies <- {Policy},
            Deadlines <- {Until[a] : a \in Actors} \cup (0 .. Latest)

(* What the two ledgers assume of their parameters, in terms of these. *)
ASSUME LimitsAssumption ==
  /\ TheSpace # NoIdentity /\ TheBudget # NoBudget
  /\ Policy \in Budget!PolicyType
  /\ MaxOperations \in Nat /\ MonthlyOperations \in Nat
  /\ MaxRetirements \in Nat /\ MaxReservations \in Nat
  /\ TicketLifetime \in Nat \ {0} /\ ReservationLifetime \in Nat \ {0}
  /\ MonthLength \in Nat \ {0} /\ KiB \in Nat \ {0}
  /\ MaxClock \in Nat

spaceVars == <<identity, generation, operations, retirements, cursor>>
budgetVars == <<budget, months, reservations, total>>
callVars == <<reserved, terminal, todo, failed, outcome>>
deleteVars == <<rows, cleanup>>
providerVars == <<wire, answers, profile, deleted, egress>>
vars == <<identity, generation, operations, retirements, cursor, budget, months,
          reservations, total, clock, access, pc, reserved, terminal, todo, failed,
          rows, cleanup, outcome, wire, answers, profile, deleted, egress>>

------------------------------------------------------------------------------
Id(c) == CallOf[c].id
Actor(c) == CallOf[c].actor
Kind(c) == CallOf[c].kind

SpaceRequest(c) ==
  IF c \in Work
    THEN [identity |-> TheSpace, actor |-> Actor(c), id |-> Id(c),
          payload |-> CallOf[c].payload, kind |-> Kind(c), until |-> Until[Actor(c)]]
    ELSE [identity |-> TheSpace, actor |-> Actor(c), id |-> Id(c),
          payload |-> CallOf[c].payload, until |-> Until[Actor(c)]]

BudgetRequest(c) ==
  [budget |-> TheBudget, id |-> Id(c), content |-> CallOf[c].payload, kind |-> Kind(c),
   bytes |-> CallOf[c].bytes, policy |-> Policy,
   until |-> Space!Earliest(Until[Actor(c)], operations[Id(c)].expires)]

(* resolveGeneralRoutingAuthority: one read of the primary database. *)
Authorized(c) == access[Actor(c)] /\ Until[Actor(c)] > clock

(* checkAdmission: nothing of the admission has expired. *)
InTime(c) ==
  /\ operations[Id(c)].expires > clock
  /\ Until[Actor(c)] > clock
  /\ reserved[c] = "held" => reservations[Id(c)].expires > clock
  /\ Policy.validUntil > clock

(* A call fails when its callee rejects it, and otherwise when it gets lost *)
(* on the way: nothing is committed in either case.                         *)
Fails(rejected) == ~ rejected => "unreachable" \in Faults

GoTo(w, place) == pc' = [pc EXCEPT ![w] = place]
Tell(c, answer) == outcome' = [outcome EXCEPT ![c] = answer] /\ GoTo(c, "done")

(* The catch block: journal the outcome reached so far in the ledger and, *)
(* when a reservation was attempted, in the budget.                       *)
Catch(c, attempted) ==
  /\ GoTo(c, "catch")
  /\ todo' = [todo EXCEPT ![c] = IF attempted THEN {"space", "budget"} ELSE {"space"}]
  /\ failed' = [failed EXCEPT ![c] = FALSE]

------------------------------------------------------------------------------
(* First read of the authority: nothing has happened yet when it refuses. *)
Authorize(c) ==
  /\ pc[c] = "start"
  /\ Cardinality({d \in Calls : pc[d] # "start"}) < MaxStarted
  /\ \/ Authorized(c) /\ GoTo(c, "authorized") /\ UNCHANGED outcome
     \/ ~ Authorized(c) /\ Tell(c, "error")
  /\ UNCHANGED <<spaceVars, budgetVars, clock, access, reserved, terminal, todo, failed,
                 deleteVars, providerVars>>

(* admit.  Only the answer to the first admission carries the dispatch flag; *)
(* without an answer there is no ticket and nothing is journaled.            *)
AdmitFirst(c) ==
  /\ c \in Work /\ pc[c] = "authorized"
  /\ Space!AdmitNew(SpaceRequest(c))
  /\ \/ GoTo(c, "ticketed") /\ UNCHANGED outcome
     \/ "lost" \in Faults /\ Tell(c, "error")
  /\ UNCHANGED <<budgetVars, access, reserved, terminal, todo, failed, deleteVars, providerVars>>

(* Mutant: an operation without a journaled outcome is dispatched again. *)
AdmitAgainMutant(c) ==
  /\ c \in Work /\ pc[c] = "authorized"
  /\ Space!AdmitReplay(SpaceRequest(c))
  /\ GoTo(c, CASE operations[Id(c)].state = "accepted" -> "replayAccepted"
               [] operations[Id(c)].state = "admitted" -> "ticketed"
               [] OTHER -> "replayOther")
  /\ UNCHANGED <<budgetVars, access, callVars, deleteVars, providerVars>>

AdmitAgain(c) ==
  /\ c \in Work /\ pc[c] = "authorized"
  /\ Space!AdmitReplay(SpaceRequest(c))
  /\ GoTo(c, IF operations[Id(c)].state = "accepted" THEN "replayAccepted" ELSE "replayOther")
  /\ UNCHANGED <<budgetVars, access, callVars, deleteVars, providerVars>>

AdmitRefused(c) ==
  /\ c \in Work /\ pc[c] = "authorized"
  /\ Fails(Space!AdmitRejected(SpaceRequest(c)))
  /\ Tell(c, "error")
  /\ UNCHANGED <<spaceVars, budgetVars, clock, access, reserved, terminal, todo, failed,
                 deleteVars, providerVars>>

(* A replay reports the stored outcome after one more authority read. *)
Replay(c) ==
  /\ pc[c] \in {"replayAccepted", "replayOther"}
  /\ \/ pc[c] = "replayAccepted" /\ Authorized(c) /\ Tell(c, "replayed")
     \/ /\ pc[c] = "replayOther" \/ ~ Authorized(c) \/ "abort" \in Faults
        /\ Tell(c, "error")
  /\ UNCHANGED <<spaceVars, budgetVars, clock, access, reserved, terminal, todo, failed,
                 deleteVars, providerVars>>

(* budget.reserve, under an id derived from the ticket.  The executor also *)
(* refuses a replayed reservation; a ticket is handed out once, so there   *)
(* is none (SingleEgress).                                                 *)
Reserve(c) ==
  /\ pc[c] = "ticketed"
  /\ InTime(c)
  /\ Budget!ReserveNew(BudgetRequest(c))
  /\ \/ /\ reserved' = [reserved EXCEPT ![c] = "held"]
        /\ GoTo(c, "reserved")
        /\ UNCHANGED <<todo, failed>>
     \/ /\ "lost" \in Faults
        /\ reserved' = [reserved EXCEPT ![c] = "lost"]
        /\ Catch(c, TRUE)
  /\ UNCHANGED <<spaceVars, access, terminal, outcome, deleteVars, providerVars>>

ReserveRefused(c) ==
  /\ pc[c] = "ticketed"
  /\ InTime(c)
  /\ Fails(Budget!ReserveRejected(BudgetRequest(c)))
  /\ reserved' = [reserved EXCEPT ![c] = "lost"]
  /\ Catch(c, TRUE)
  /\ UNCHANGED <<spaceVars, budgetVars, clock, access, terminal, outcome, deleteVars, providerVars>>

(* refresh: the authority is read again before the provider is asked. *)
Refresh(c) ==
  /\ pc[c] = "reserved"
  /\ InTime(c) /\ Authorized(c)
  /\ GoTo(c, "refreshed")
  /\ UNCHANGED <<spaceVars, budgetVars, clock, access, callVars, deleteVars, providerVars>>

(* check(dispatch) at the ledger. *)
CheckDispatch(c) ==
  /\ pc[c] = "refreshed"
  /\ InTime(c)
  /\ Space!Check(SpaceRequest(c), "dispatch")
  /\ GoTo(c, "cleared")
  /\ UNCHANGED <<budgetVars, access, callVars, deleteVars, providerVars>>

(* Mutant: the outcome is still "not_dispatched" while the provider works. *)
SendMutant(c) ==
  /\ pc[c] = "cleared"
  /\ InTime(c)
  /\ wire' = wire \cup {[from |-> c, generation |-> operations[Id(c)].generation]}
  /\ egress' = [egress EXCEPT ![c] = "sent"]
  /\ GoTo(c, "sent")
  /\ UNCHANGED <<spaceVars, budgetVars, clock, access, callVars, deleteVars,
                 answers, profile, deleted>>

(* From here on the outcome is unknown until the provider answers. *)
Send(c) ==
  /\ pc[c] = "cleared"
  /\ InTime(c)
  /\ terminal' = [terminal EXCEPT ![c] = IF Kind(c) = "memory_ingest" THEN "unknown" ELSE "read_failed"]
  /\ wire' = wire \cup {[from |-> c, generation |-> operations[Id(c)].generation]}
  /\ egress' = [egress EXCEPT ![c] = "sent"]
  /\ GoTo(c, "sent")
  /\ UNCHANGED <<spaceVars, budgetVars, clock, access, reserved, todo, failed, outcome,
                 deleteVars, answers, profile, deleted>>

(* Whatever refuses, aborts or expires before the request is sent. *)
Refused(c) ==
  \/ ~ InTime(c)
  \/ pc[c] = "reserved" /\ ~ Authorized(c)
  \/ pc[c] = "refreshed" /\ Space!CheckRejected(SpaceRequest(c), "dispatch")

GiveUp(c) ==
  /\ pc[c] \in {"ticketed", "reserved", "refreshed", "cleared"}
  /\ Refused(c) \/ Faults \cap {"abort", "unreachable"} # {}
  /\ Catch(c, reserved[c] # "no")
  /\ UNCHANGED <<spaceVars, budgetVars, clock, access, reserved, terminal, outcome,
                 deleteVars, providerVars>>

(* The provider answered: the outcome is accepted and finalize() runs. *)
Answered(c) ==
  /\ pc[c] = "sent" /\ c \in answers
  /\ answers' = answers \ {c}
  /\ terminal' = [terminal EXCEPT ![c] = "accepted"]
  /\ GoTo(c, "journal")
  /\ todo' = [todo EXCEPT ![c] = {"space", "budget"}]
  /\ failed' = [failed EXCEPT ![c] = FALSE]
  /\ UNCHANGED <<spaceVars, budgetVars, clock, access, reserved, outcome, deleteVars,
                 wire, profile, deleted, egress>>

(* No answer: an error, the deadline, or an abort while waiting. *)
NotAnswered(c) ==
  /\ pc[c] = "sent"
  /\ ~ InTime(c) \/ Faults \cap {"provider", "abort"} # {}
  /\ Catch(c, TRUE)
  /\ answers' = answers \ {c}
  /\ UNCHANGED <<spaceVars, budgetVars, clock, access, reserved, terminal, outcome,
                 deleteVars, wire,
                 profile, deleted, egress>>

------------------------------------------------------------------------------
(* finalize(): two independent writes, both attempted whatever the other does. *)
Written(c, journal) == todo' = [todo EXCEPT ![c] = @ \ {journal}]
Rejected(c) == failed' = [failed EXCEPT ![c] = TRUE]

JournalSpace(c) ==
  /\ pc[c] \in {"journal", "catch"} /\ "space" \in todo[c]
  /\ Space!Finalize(SpaceRequest(c), terminal[c])
  /\ Written(c, "space")
  /\ UNCHANGED failed \/ ("lost" \in Faults /\ Rejected(c))
  /\ UNCHANGED <<budgetVars, access, pc, reserved, terminal, outcome, deleteVars, providerVars>>

JournalBudget(c) ==
  /\ pc[c] \in {"journal", "catch"} /\ "budget" \in todo[c]
  /\ \/ Budget!FinalizeNew(TheBudget, Id(c), terminal[c])
     \/ Budget!FinalizeReplay(TheBudget, Id(c), terminal[c])
  /\ Written(c, "budget")
  /\ UNCHANGED failed \/ ("lost" \in Faults /\ Rejected(c))
  /\ UNCHANGED <<spaceVars, access, pc, reserved, terminal, outcome, deleteVars, providerVars>>

JournalRefused(c) ==
  /\ pc[c] \in {"journal", "catch"}
  /\ \E journal \in todo[c] :
       /\ Fails(IF journal = "space" THEN Space!FinalizeRejected(SpaceRequest(c), terminal[c])
                                     ELSE Budget!OutcomeRejected(TheBudget, Id(c), terminal[c]))
       /\ Written(c, journal)
  /\ Rejected(c)
  /\ UNCHANGED <<spaceVars, budgetVars, clock, access, pc, reserved, terminal, outcome,
                 deleteVars, providerVars>>

(* Both writes returned.  A rejected one sends an accepted outcome to the *)
(* catch block, which tries both once more and then gives up.             *)
Journaled(c) ==
  /\ pc[c] \in {"journal", "catch"} /\ todo[c] = {}
  /\ \/ /\ pc[c] = "journal" /\ ~ failed[c]
        /\ GoTo(c, "recorded")
        /\ UNCHANGED <<todo, failed, outcome>>
     \/ /\ pc[c] = "journal" /\ failed[c]
        /\ GoTo(c, "catch")
        /\ todo' = [todo EXCEPT ![c] = {"space", "budget"}]
        /\ failed' = [failed EXCEPT ![c] = FALSE]
        /\ UNCHANGED outcome
     \/ /\ pc[c] = "catch"
        /\ Tell(c, "error")
        /\ UNCHANGED <<todo, failed>>
  /\ UNCHANGED <<spaceVars, budgetVars, clock, access, reserved, terminal, deleteVars, providerVars>>

(* Disclosure needs live authority, a ledger check and time, in that order. *)
RefreshDisclose(c) ==
  /\ pc[c] = "recorded"
  /\ InTime(c) /\ Authorized(c)
  /\ GoTo(c, "disclosing")
  /\ UNCHANGED <<spaceVars, budgetVars, clock, access, callVars, deleteVars, providerVars>>

(* Mutant: the ledger is not asked again before disclosure. *)
CheckDiscloseMutant(c) ==
  /\ pc[c] = "disclosing"
  /\ InTime(c)
  /\ GoTo(c, "deliver")
  /\ UNCHANGED <<spaceVars, budgetVars, clock, access, callVars, deleteVars, providerVars>>

CheckDisclose(c) ==
  /\ pc[c] = "disclosing"
  /\ InTime(c)
  /\ Space!Check(SpaceRequest(c), "disclose")
  /\ GoTo(c, "deliver")
  /\ UNCHANGED <<budgetVars, access, callVars, deleteVars, providerVars>>

Deliver(c) ==
  /\ pc[c] = "deliver"
  /\ InTime(c)
  /\ Tell(c, "ok")
  /\ UNCHANGED <<spaceVars, budgetVars, clock, access, reserved, terminal, todo, failed,
                 deleteVars, providerVars>>

Withhold(c) ==
  /\ pc[c] \in {"recorded", "disclosing", "deliver"}
  /\ \/ ~ InTime(c)
     \/ pc[c] = "recorded" /\ ~ Authorized(c)
     \/ pc[c] = "disclosing" /\ Space!CheckRejected(SpaceRequest(c), "disclose")
     \/ Faults \cap {"abort", "unreachable", "lost"} # {}
  /\ Tell(c, "error")
  /\ UNCHANGED <<spaceVars, budgetVars, clock, access, reserved, terminal, todo, failed,
                 deleteVars, providerVars>>

------------------------------------------------------------------------------
(* memory_clear_space: retire, then one attempt to delete the profile. *)
Retire(c) ==
  /\ c \in Clears /\ pc[c] = "authorized"
  /\ Space!RetireNew(SpaceRequest(c))
  /\ \/ /\ GoTo(c, "retired")
        /\ rows' = [rows EXCEPT ![c] = <<Id(c)>>]
        /\ UNCHANGED outcome
     \/ "lost" \in Faults /\ Tell(c, "error") /\ UNCHANGED rows
  /\ UNCHANGED <<budgetVars, access, reserved, terminal, todo, failed, cleanup, providerVars>>

RetireAgain(c) ==
  /\ c \in Clears /\ pc[c] = "authorized"
  /\ Space!RetireReplay(SpaceRequest(c))
  /\ cleanup' = [cleanup EXCEPT ![c] = retirements[Id(c)].state # "acknowledged"]
  /\ GoTo(c, "report")
  /\ UNCHANGED <<budgetVars, access, callVars, rows, providerVars>>

RetireRefused(c) ==
  /\ c \in Clears /\ pc[c] = "authorized"
  /\ Fails(Space!RetireRejected(SpaceRequest(c)))
  /\ Tell(c, "error")
  /\ UNCHANGED <<spaceVars, budgetVars, clock, access, reserved, terminal, todo, failed,
                 deleteVars, providerVars>>

(* The authority read before the deletion; without it cleanup stays pending. *)
RefreshClear(c) ==
  /\ \/ /\ pc[c] = "retired" /\ Authorized(c)
        /\ GoTo(c, "delete")
        /\ UNCHANGED rows
     \/ /\ \/ pc[c] = "retired" /\ (~ Authorized(c) \/ "abort" \in Faults)
           \/ pc[c] = "delete" /\ (Until[Actor(c)] <= clock \/ "abort" \in Faults)
        /\ rows' = [rows EXCEPT ![c] = <<>>]
        /\ GoTo(c, "report")
  /\ UNCHANGED <<spaceVars, budgetVars, clock, access, callVars, cleanup, providerVars>>

Report(c) ==
  /\ pc[c] = "report"
  /\ \/ Authorized(c) /\ Tell(c, "ok")
     \/ (~ Authorized(c) \/ "abort" \in Faults) /\ Tell(c, "error")
  /\ UNCHANGED <<spaceVars, budgetVars, clock, access, reserved, terminal, todo, failed,
                 deleteVars, providerVars>>

(* reconcileGeneralRetirements: one page of open retirements, one by one. *)
FetchPending(p) ==
  /\ p \in Passes /\ pc[p] = "idle"
  /\ Space!Pending(TheSpace, PageSize)
  /\ \/ /\ rows' = [rows EXCEPT ![p] = Space!PendingRows(PageSize)]
        /\ GoTo(p, IF Space!Open = {} THEN "idle" ELSE "delete")
     \/ "lost" \in Faults /\ UNCHANGED <<rows, pc>>
  /\ UNCHANGED <<budgetVars, access, callVars, cleanup, providerVars>>

------------------------------------------------------------------------------
(* Deletion of the profile of the first row, shared by clears and passes. *)
Target(d) == Head(rows[d])
DeleteRequest(d) == [from |-> d, generation |-> retirements[Target(d)].generation]

(* The next row of a pass, or the report of a clear. *)
NextRow(d) ==
  /\ rows' = [rows EXCEPT ![d] = Tail(@)]
  /\ GoTo(d, IF Tail(rows[d]) # <<>> THEN "delete" ELSE IF d \in Passes THEN "idle" ELSE "report")

SendDelete(d) ==
  /\ pc[d] = "delete"
  /\ d \in Clears => Until[Actor(d)] > clock
  /\ wire' = wire \cup {DeleteRequest(d)}
  /\ GoTo(d, "deleting")
  /\ UNCHANGED <<spaceVars, budgetVars, clock, access, callVars, deleteVars,
                 answers, profile, deleted, egress>>

DeleteAnswered(d) ==
  /\ pc[d] = "deleting" /\ d \in answers
  /\ answers' = answers \ {d}
  /\ GoTo(d, "acknowledge")
  /\ UNCHANGED <<spaceVars, budgetVars, clock, access, callVars, deleteVars, wire,
                 profile, deleted, egress>>

(* Mutant: a failed deletion is acknowledged like an answered one. *)
DeleteFailedMutant(d) ==
  /\ pc[d] = "deleting" /\ d \notin answers
  /\ retirements[Target(d)].generation \in Broken \/ "provider" \in Faults
  /\ GoTo(d, "acknowledge")
  /\ UNCHANGED <<spaceVars, budgetVars, clock, access, callVars, deleteVars, providerVars>>

DeleteFailed(d) ==
  /\ pc[d] = "deleting" /\ d \notin answers
  /\ retirements[Target(d)].generation \in Broken \/ "provider" \in Faults
  /\ GoTo(d, "doubt")
  /\ UNCHANGED <<spaceVars, budgetVars, clock, access, callVars, deleteVars, providerVars>>

(* finishRetirement(acknowledged) after the provider's answer. *)
Acknowledge(d) ==
  /\ pc[d] = "acknowledge"
  /\ Space!FinishRetirement(TheSpace, Target(d), "acknowledged")
  /\ \/ /\ NextRow(d)
        /\ cleanup' = IF d \in Clears THEN [cleanup EXCEPT ![d] = FALSE] ELSE cleanup
     \/ /\ "lost" \in Faults
        /\ GoTo(d, "doubt")
        /\ UNCHANGED deleteVars
  /\ UNCHANGED <<budgetVars, access, callVars, providerVars>>

AcknowledgeRefused(d) ==
  /\ pc[d] = "acknowledge"
  /\ Fails(Space!FinishRejected(TheSpace, Target(d), "acknowledged"))
  /\ GoTo(d, "doubt")
  /\ UNCHANGED <<spaceVars, budgetVars, clock, access, callVars, deleteVars, providerVars>>

(* finishRetirement(unknown) in the catch block; its own failure is ignored. *)
Doubt(d) ==
  /\ pc[d] = "doubt"
  /\ Space!FinishRetirement(TheSpace, Target(d), "unknown")
  /\ NextRow(d)
  /\ UNCHANGED <<budgetVars, access, callVars, cleanup, providerVars>>

DoubtRefused(d) ==
  /\ pc[d] = "doubt"
  /\ Fails(Space!FinishRejected(TheSpace, Target(d), "unknown"))
  /\ NextRow(d)
  /\ UNCHANGED <<spaceVars, budgetVars, clock, access, callVars, cleanup, providerVars>>

------------------------------------------------------------------------------
(* A deletion repeated while the first is on its way is the same message. *)
Messages == [from : Calls \cup Passes, generation : 1 .. MaxRetirements + 1]

(* The provider handles a request some time after it was sent.  An answer *)
(* only reaches a caller that still waits for it.                         *)
HandleWork(m) ==
  /\ m \in wire /\ m.from \in Work
  /\ wire' = wire \ {m}
  /\ answers' = IF pc[m.from] = "sent" THEN answers \cup {m.from} ELSE answers
  /\ profile' = IF Kind(m.from) = "memory_ingest"
                  THEN [profile EXCEPT ![m.generation] = @ \cup {Id(m.from)}] ELSE profile
  /\ egress' = [egress EXCEPT ![m.from] = "served"]
  /\ UNCHANGED <<spaceVars, budgetVars, clock, access, pc, callVars, deleteVars, deleted>>

HandleDelete(m) ==
  /\ m \in wire /\ m.from \in Deleters
  /\ m.generation \notin Broken
  /\ wire' = wire \ {m}
  /\ answers' = IF pc[m.from] = "deleting" /\ m = DeleteRequest(m.from)
                  THEN answers \cup {m.from} ELSE answers
  /\ profile' = [profile EXCEPT ![m.generation] = {}]
  /\ deleted' = deleted \cup {m.generation}
  /\ UNCHANGED <<spaceVars, budgetVars, clock, access, pc, callVars, deleteVars, egress>>

Revoke(a) ==
  /\ "revoke" \in Faults
  /\ access[a]
  /\ access' = [access EXCEPT ![a] = FALSE]
  /\ UNCHANGED <<spaceVars, budgetVars, clock, pc, callVars, deleteVars, providerVars>>

(* The worker isolate is gone, or a pass is aborted between two rows: *)
(* nobody continues the call or the page.                             *)
Crash(w) ==
  /\ "crash" \in Faults
  /\ pc[w] \notin {"start", "idle", "done", "crashed"}
  /\ GoTo(w, IF w \in Passes THEN "idle" ELSE "crashed")
  /\ rows' = [rows EXCEPT ![w] = <<>>]
  /\ answers' = answers \ {w}
  /\ UNCHANGED <<spaceVars, budgetVars, clock, access, callVars, cleanup, wire,
                 profile, deleted, egress>>

Tick ==
  /\ clock < MaxClock
  /\ clock' = clock + 1
  /\ UNCHANGED <<spaceVars, budgetVars, access, pc, callVars, deleteVars, providerVars>>

------------------------------------------------------------------------------
Init ==
  /\ Space!Init
  /\ Budget!BudgetInit
  /\ access = [a \in Actors |-> TRUE]
  /\ pc = [w \in Calls \cup Passes |-> IF w \in Passes THEN "idle" ELSE "start"]
  /\ reserved = [c \in Calls |-> "no"]
  /\ terminal = [c \in Calls |-> "not_dispatched"]
  /\ todo = [c \in Calls |-> {}]
  /\ failed = [c \in Calls |-> FALSE]
  /\ rows = [w \in Calls \cup Passes |-> <<>>]
  /\ cleanup = [c \in Calls |-> TRUE]
  /\ outcome = [c \in Calls |-> "none"]
  /\ wire = {}
  /\ answers = {}
  /\ profile = [g \in 1 .. MaxRetirements + 1 |-> {}]
  /\ deleted = {}
  /\ egress = [c \in Calls |-> "none"]

Admission(c) == AdmitFirst(c) \/ AdmitAgain(c) \/ AdmitRefused(c) \/ Replay(c)
Dispatching(c) ==
  Reserve(c) \/ ReserveRefused(c) \/ Refresh(c) \/ CheckDispatch(c) \/ Send(c) \/ GiveUp(c)
Journaling(c) ==
  \/ Answered(c) \/ NotAnswered(c)
  \/ JournalSpace(c) \/ JournalBudget(c) \/ JournalRefused(c) \/ Journaled(c)
Disclosing(c) == RefreshDisclose(c) \/ CheckDisclose(c) \/ Deliver(c) \/ Withhold(c)
Clearing(c) == Retire(c) \/ RetireAgain(c) \/ RetireRefused(c) \/ RefreshClear(c) \/ Report(c)
Deleting(d) ==
  \/ SendDelete(d) \/ DeleteAnswered(d) \/ DeleteFailed(d)
  \/ Acknowledge(d) \/ AcknowledgeRefused(d) \/ Doubt(d) \/ DoubtRefused(d)

CallStep(c) ==
  \/ Authorize(c) \/ Admission(c) \/ Dispatching(c) \/ Journaling(c) \/ Disclosing(c)
  \/ Clearing(c)

Next ==
  \/ \E c \in Calls : CallStep(c)
  \/ \E p \in Passes : FetchPending(p)
  \/ \E d \in Deleters : Deleting(d)
  \/ \E m \in wire : HandleWork(m) \/ HandleDelete(m)
  \/ \E a \in Actors : Revoke(a)
  \/ \E w \in Calls \cup Passes : Crash(w)
  \/ Tick

Spec == Init /\ [][Next]_vars

Working(w) ==
  \/ w \in Calls /\ CallStep(w)
  \/ w \in Passes /\ FetchPending(w)
  \/ w \in Deleters /\ Deleting(w)

Serving(w) ==
  \E g \in 1 .. MaxRetirements + 1 :
    HandleWork([from |-> w, generation |-> g]) \/ HandleDelete([from |-> w, generation |-> g])

(* A running worker continues its call, the operator keeps running the   *)
(* passes, and the provider serves every caller it received a request of. *)
Fairness == \A w \in Calls \cup Passes : WF_vars(Working(w)) /\ WF_vars(Serving(w))

FairSpec == Spec /\ Fairness

------------------------------------------------------------------------------
Places == {"start", "authorized", "replayAccepted", "replayOther", "ticketed", "reserved",
           "refreshed", "cleared", "sent", "journal", "catch", "recorded", "disclosing",
           "deliver", "retired", "delete", "deleting", "acknowledge", "doubt", "report",
           "idle", "done", "crashed"}

TypeOK ==
  /\ Space!TypeOK
  /\ Budget!BudgetTypeOK
  /\ access \in [Actors -> BOOLEAN]
  /\ pc \in [Calls \cup Passes -> Places]
  /\ reserved \in [Calls -> {"no", "lost", "held"}]
  /\ terminal \in [Calls -> Space!Terminal]
  /\ todo \in [Calls -> SUBSET {"space", "budget"}]
  /\ failed \in [Calls -> BOOLEAN]
  /\ rows \in [Calls \cup Passes -> Seq(Ids)]
  /\ cleanup \in [Calls -> BOOLEAN]
  /\ outcome \in [Calls -> {"none", "ok", "replayed", "error"}]
  /\ wire \subseteq Messages
  /\ answers \subseteq Calls \cup Passes
  /\ profile \in [1 .. MaxRetirements + 1 -> SUBSET Ids]
  /\ deleted \subseteq 1 .. MaxRetirements
  /\ egress \in [Calls -> {"none", "sent", "served"}]

(* The request of an invocation has left for the provider. *)
Dispatched(c) == egress[c] # "none"

(* One operation reaches the provider at most once, however often and by *)
(* however many callers it is retried and whatever answer was lost; the    *)
(* one caller that holds the ticket never meets an older charge; and       *)
(* nothing reaches the provider without a charge in the budget and an      *)
(* admission of the same request in the Space's ledger.                    *)
SingleEgress ==
  /\ \A c, d \in Work : Dispatched(c) /\ Dispatched(d) /\ Id(c) = Id(d) => c = d
  /\ \A c \in Work : pc[c] = "ticketed" => Id(c) \notin DOMAIN reservations
  /\ \A c \in Work : Dispatched(c) =>
       /\ Id(c) \in DOMAIN reservations
       /\ Id(c) \in DOMAIN operations
       /\ operations[Id(c)].actor = Actor(c)
       /\ reservations[Id(c)].kind = operations[Id(c)].kind

(* The two journals never tell different outcomes, and no outcome is a lie: *)
(* "not_dispatched" excludes an egress, "accepted" was served by the        *)
(* provider, and only a request that was sent is in doubt.  A result is     *)
(* told to the client once both journals hold its outcome, and a replay is  *)
(* told "accepted" when the journal says so.                                *)
JournalsTruthful ==
  /\ \A c \in Work : Id(c) \in DOMAIN operations =>
       LET space == operations[Id(c)].state IN
         /\ Id(c) \in DOMAIN reservations /\ space # "admitted" /\ reservations[Id(c)].state # "admitted"
              => reservations[Id(c)].state = space
         /\ Dispatched(c) => space # "not_dispatched"
         /\ space = "accepted" => \E d \in Work : Id(d) = Id(c) /\ egress[d] = "served"
         /\ space \in {"unknown", "read_failed"} => \E d \in Work : Id(d) = Id(c) /\ Dispatched(d)
  /\ \A c \in Work :
       /\ outcome[c] = "ok" => /\ operations[Id(c)].state = "accepted"
                              /\ reservations[Id(c)].state = "accepted"
       /\ outcome[c] = "replayed" => operations[Id(c)].state = "accepted"

(* A result is never told if its generation was retired before the last  *)
(* check of the ledger, or the access of its actor was revoked before the *)
(* last read of the authority, whatever the provider answered.            *)
RetiredUnderway(c) ==
  /\ Id(c) \in DOMAIN operations
  /\ operations[Id(c)].generation # generation
  /\ pc[c] \in {"ticketed", "reserved", "refreshed", "cleared", "sent", "journal",
                "catch", "recorded", "disclosing"}

RevokedUnderway(c) == ~ access[Actor(c)] /\ pc[c] \notin {"disclosing", "deliver", "done"}

StaleNeverTold ==
  \A c \in Work : [](RetiredUnderway(c) \/ RevokedUnderway(c) => [](outcome[c] # "ok"))

(* A clear that reports success has retired its generation, one that     *)
(* reports no pending cleanup left an acknowledged deletion behind, and a  *)
(* deletion is only acknowledged after the provider deleted the profile.   *)
ClearTruthful ==
  /\ \A c \in Clears :
       /\ outcome[c] = "ok" => Id(c) \in DOMAIN retirements /\ retirements[Id(c)].generation < generation
       /\ ~ cleanup[c] => retirements[Id(c)].state = "acknowledged"
  /\ \A r \in DOMAIN retirements :
       retirements[r].state = "acknowledged" => retirements[r].generation \in deleted

(* "Keep the outbox open until the caller has journaled its outcome and a *)
(* fresh reconciliation delete can follow it": when a retirement is       *)
(* acknowledged, no ingest journaled as accepted survives in its profile. *)
AcknowledgedProfileEmpty ==
  \A r \in DOMAIN retirements : retirements[r].state = "acknowledged" =>
    \A o \in profile[retirements[r].generation] : operations[o].state # "accepted"

(* A deletable profile whose ingests all have an outcome is eventually *)
(* acknowledged, also behind one that the provider can never delete.   *)
Acknowledged(r) == r \in DOMAIN retirements /\ retirements[r].state = "acknowledged"

Deletable(r) ==
  /\ r \in DOMAIN retirements
  /\ retirements[r].generation \notin Broken
  /\ Space!Inflight(retirements[r].generation) = {}

EventuallyAcknowledged ==
  \A r \in Ids : Deletable(r) ~> Acknowledged(r)
==============================================================================
