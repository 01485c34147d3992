------------------------------- MODULE Payloads -------------------------------
(***************************************************************************)
(* External payloads end to end: client calls that stage and publish them, *)
(* maintenance passes that retire and purge them, and the two stores that  *)
(* hold the bytes (saas/src/release/payloads.ts): a permanent object per   *)
(* payload ("cold") and a searchable row per current payload ("hot").  The *)
(* central database is PayloadCatalog.                                     *)
(*                                                                         *)
(* A call and a worker stand at an await; the code up to the next one is   *)
(* one step.  Reads directly followed by a transaction that repeats their  *)
(* conditions belong to its step.  An awaited write whose caller times     *)
(* out, gets an error or disappears may still be executed: it moves to     *)
(* "late" and may take effect at any time after, or never.                 *)
(***************************************************************************)
EXTENDS PayloadCatalog

CONSTANTS
  Calls,      \* invocations of the service
  CallOf,     \* the request each of them makes
  Workers,    \* rows a maintenance pass, or two that overlap, handle at once
  Starts,     \* bound: the sets of calls that start in one behaviour
  MaxFaults   \* bound: awaited writes that fail for their caller

ASSUME CallAssumption == CallOf \in [Calls -> Requests] /\ Starts \subseteq SUBSET Calls
ASSUME FaultAssumption == MaxFaults \in Nat

VARIABLES
  cold,        \* state of the permanent object of a payload
  hot,         \* payloads with a row in their shard
  tombstones,  \* payloads whose row may never come back
  pc,          \* where each call stands
  todo,        \* payloads a call still has to stage
  at,          \* the payload a call is reading or staging
  step,        \* where each worker stands
  job,         \* the claimed row of each worker
  late,        \* writes that may be executed although nobody waits for them
  faults       \* how many writes have failed

stores == <<cold, hot, tombstones>>
calls == <<pc, todo, at>>
passes == <<step, job>>
accidents == <<late, faults>>
vars == <<catalogVars, stores, calls, passes, accidents>>

Request(c) == CallOf[c]
Items(c) == ItemsOf(CallOf[c])
HasReceipt(c) == receipts[Request(c).key] # NoRequest

Goto(c, place) == pc' = [pc EXCEPT ![c] = place]
Handle(c, p) == at' = [at EXCEPT ![c] = p]

------------------------------------------------------------------------------
(* Mutant: the object is written unconditionally. *)
CreateColdMutant(p) == cold' = [cold EXCEPT ![p] = "payload"]

(* The stores.  An object is created only if absent, a purge replaces it by *)
(* an empty marker, a tombstone removes the row and refuses a new one.      *)
CreateCold(p) == cold' = IF cold[p] = "absent" THEN [cold EXCEPT ![p] = "payload"] ELSE cold
MarkCold(p) == cold' = [cold EXCEPT ![p] = "purged"]
InsertHot(p) == hot' = hot \cup {p}
Bury(p) == tombstones' = tombstones \cup {p} /\ hot' = hot \ {p}
Readable(p) == p \in hot \/ cold[p] = "payload"

------------------------------------------------------------------------------
(* update and restore first read what the memory holds; other calls do not. *)
Target(c) == memories[CHOOSE m \in Request(c).memories : TRUE]

RowFits(c) ==
  /\ Request(c).action \in {"update", "restore"}
  /\ Target(c).revision = Request(c).revision
  /\ ~ Target(c).erased
  /\ Target(c).deleted <=> Request(c).action = "restore"

Begins(c) ==
  /\ pc[c] = "start"
  /\ \E set \in Starts : c \in set /\ {d \in Calls : pc[d] # "start"} \subseteq set

BeginRead(c) ==
  /\ Begins(c)
  /\ ~ HasReceipt(c)
  /\ RowFits(c)
  /\ Handle(c, Target(c).payload)
  /\ Goto(c, "read")
  /\ UNCHANGED <<todo, catalogVars, stores, passes, accidents>>

BeginDirect(c) ==
  /\ Begins(c)
  /\ HasReceipt(c) \/ ~ RowFits(c)
  /\ IF Request(c).action = "create" THEN Goto(c, "prepare")
     ELSE IF Request(c).action = "update" /\ ~ HasReceipt(c) THEN Goto(c, "failed")
     ELSE Goto(c, "commit")
  /\ UNCHANGED <<todo, at, catalogVars, stores, passes, accidents>>

(* hydrateRows: the hot row, otherwise the object.  What is purged is not an *)
(* error if the same request has been committed meanwhile.                   *)
Read(c) ==
  /\ pc[c] = "read"
  /\ IF ~ Readable(at[c]) THEN Goto(c, "recover")
     ELSE IF Request(c).action = "restore" THEN Goto(c, "confirm")
     ELSE Goto(c, "prepare")
  /\ UNCHANGED <<todo, at, catalogVars, stores, passes, accidents>>

(* restore makes sure of the hot row before the memory is live again, if *)
(* the deleted memory is still as it was read.                           *)
Confirm(c) ==
  LET asRead == RowFits(c) /\ Target(c).payload = at[c]
                /\ \A m \in Request(c).memories : m \notin lapsed
  IN /\ pc[c] = "confirm"
     /\ todo' = [todo EXCEPT ![c] = IF asRead THEN {at[c]} ELSE {}]
     /\ Goto(c, IF asRead THEN "stage" ELSE "commit")
     /\ UNCHANGED <<at, catalogVars, stores, passes, accidents>>

Recover(c) ==
  /\ pc[c] = "recover"
  /\ Goto(c, IF HasReceipt(c) THEN "commit" ELSE "failed")
  /\ UNCHANGED <<todo, at, catalogVars, stores, passes, accidents>>

------------------------------------------------------------------------------
(* preparePayloads: a new preparation, or the one of this request. *)
PrepareFirst(c) ==
  /\ pc[c] = "prepare"
  /\ ~ HasReceipt(c)
  /\ Plan(Request(c))
  /\ todo' = [todo EXCEPT ![c] = Items(c)]
  /\ Goto(c, "stage")
  /\ UNCHANGED <<at, stores, passes, accidents>>

Resumable(c) ==
  /\ intents[Request(c).key] = Request(c)
  /\ Request(c).key \notin expired
  /\ \A p \in Items(c) : stages[p] \in {"staging", "ready", "published"}

PrepareAgain(c) ==
  LET open == {p \in Items(c) : stages[p] = "staging"} IN
  /\ pc[c] = "prepare"
  /\ ~ HasReceipt(c)
  /\ Resumable(c)
  /\ todo' = [todo EXCEPT ![c] = open]
  /\ Goto(c, IF open = {} THEN "commit" ELSE "stage")
  /\ UNCHANGED <<at, catalogVars, stores, passes, accidents>>

PrepareRefused(c) ==
  /\ pc[c] = "prepare"
  /\ ~ HasReceipt(c)
  /\ IF intents[Request(c).key] = NoRequest THEN OverQuota(Request(c)) ELSE ~ Resumable(c)
  /\ Goto(c, "recover")
  /\ UNCHANGED <<todo, at, catalogVars, stores, passes, accidents>>

PrepareReplay(c) ==
  /\ pc[c] = "prepare"
  /\ HasReceipt(c)
  /\ Goto(c, "commit")
  /\ UNCHANGED <<todo, at, catalogVars, stores, passes, accidents>>

------------------------------------------------------------------------------
(* stage: object, check of the object, row, check of the row. *)
PutCold(c) ==
  /\ pc[c] = "stage"
  /\ \E p \in todo[c] : CreateCold(p) /\ Handle(c, p)
  /\ Goto(c, "check")
  /\ UNCHANGED <<hot, tombstones, todo, catalogVars, passes, accidents>>

CheckCold(c) ==
  /\ pc[c] = "check"
  /\ Goto(c, IF cold[at[c]] = "payload" THEN "insert" ELSE "recover")
  /\ UNCHANGED <<todo, at, catalogVars, stores, passes, accidents>>

PutHot(c) ==
  /\ pc[c] = "insert"
  /\ IF at[c] \in tombstones THEN Goto(c, "recover") /\ UNCHANGED hot
     ELSE Goto(c, "verify") /\ InsertHot(at[c])
  /\ UNCHANGED <<cold, tombstones, todo, at, catalogVars, passes, accidents>>

Verify(c) ==
  /\ pc[c] = "verify"
  /\ IF at[c] \notin hot THEN Goto(c, "recover")
     ELSE IF Request(c).action = "restore" THEN Goto(c, "commit")
     ELSE Goto(c, "ready")
  /\ UNCHANGED <<todo, at, catalogVars, stores, passes, accidents>>

(* The stage becomes ready, or another call made it so. *)
Staged(c) ==
  LET rest == todo[c] \ {at[c]} IN
  /\ todo' = [todo EXCEPT ![c] = rest]
  /\ Goto(c, IF rest = {} THEN "commit" ELSE "stage")

(* Mutant: an expired preparation becomes ready as well. *)
ReadyMutant(c) ==
  /\ pc[c] = "ready"
  /\ stages' = [stages EXCEPT ![at[c]] = "ready"]
  /\ Staged(c)
  /\ UNCHANGED <<intents, expired, published, collected, receipts, memories, versions, lapsed, queues,
                 held, at, stores, passes, accidents>>

Ready(c) ==
  /\ pc[c] = "ready"
  /\ MakeReady(at[c])
  /\ Staged(c)
  /\ UNCHANGED <<at, stores, passes, accidents>>

ReadyAlready(c) ==
  /\ pc[c] = "ready"
  /\ stages[at[c]] \in {"ready", "published"}
  /\ Staged(c)
  /\ UNCHANGED <<at, catalogVars, stores, passes, accidents>>

ReadyRefused(c) ==
  /\ pc[c] = "ready"
  /\ stages[at[c]] = "staging" => at[c][1] \in expired
  /\ stages[at[c]] \notin {"ready", "published"}
  /\ Goto(c, "recover")
  /\ UNCHANGED <<todo, at, catalogVars, stores, passes, accidents>>

------------------------------------------------------------------------------
(* commit: one batch, or the receipt of the same request. *)
CommitFirst(c) ==
  /\ pc[c] = "commit"
  /\ Commit(Request(c))
  /\ Goto(c, "done")
  /\ UNCHANGED <<todo, at, stores, passes, accidents>>

CommitReplay(c) ==
  /\ pc[c] = "commit"
  /\ receipts[Request(c).key] = Request(c)
  /\ Goto(c, "done")
  /\ UNCHANGED <<todo, at, catalogVars, stores, passes, accidents>>

CommitRefused(c) ==
  /\ pc[c] = "commit"
  /\ receipts[Request(c).key] # Request(c)
  /\ ~ Admissible(Request(c))
  /\ Goto(c, "failed")
  /\ UNCHANGED <<todo, at, catalogVars, stores, passes, accidents>>

------------------------------------------------------------------------------
(* A maintenance pass: queue what expired, claim due rows, clean, acknowledge. *)
CollectExpired ==
  /\ \E keys \in SUBSET {k \in Keys : Collectable(k)} : Collect(keys)
  /\ UNCHANGED <<stores, calls, passes, accidents>>

Walk(w, place) == step' = [step EXCEPT ![w] = place]

ClaimRow(w, queue, p) ==
  /\ step[w] = "idle"
  /\ Claim(queue, p)
  /\ Walk(w, IF queue = "purges" THEN "mark" ELSE "bury")
  /\ job' = [job EXCEPT ![w] = [queue |-> queue, payload |-> p, attempt |-> queues[queue][p].attempts + 1]]
  /\ UNCHANGED <<stores, calls, accidents>>

(* purge: a marker in place of the object, before the tombstone. *)
Mark(w) ==
  /\ step[w] = "mark"
  /\ MarkCold(job[w].payload)
  /\ Walk(w, "bury")
  /\ UNCHANGED <<hot, tombstones, job, catalogVars, calls, accidents>>

(* retire, also the end of a purge whose marker was confirmed. *)
Entomb(w) ==
  /\ step[w] = "bury"
  /\ job[w].queue = "purges" => cold[job[w].payload] = "purged"
  /\ Bury(job[w].payload)
  /\ Walk(w, "acknowledge")
  /\ UNCHANGED <<cold, job, catalogVars, calls, accidents>>

Owns(w) ==
  LET row == queues[job[w].queue][job[w].payload]
  IN row.state = "open" /\ row.attempts = job[w].attempt

Finish(w) ==
  /\ step[w] = "acknowledge"
  /\ IF Owns(w) THEN Acknowledge(job[w].queue, job[w].payload, job[w].attempt)
     ELSE UNCHANGED catalogVars
  /\ Walk(w, "idle")
  /\ UNCHANGED <<job, stores, calls, accidents>>

(* A claim delays its row for longer than the pass that made it may last. *)
Handled(queue, p) ==
  \E w \in Workers : step[w] # "idle" /\ job[w].queue = queue /\ job[w].payload = p

RowDue(queue, p) ==
  /\ ~ Handled(queue, p)
  /\ Due(queue, p)
  /\ UNCHANGED <<stores, calls, passes, accidents>>

EraseLapsed(m) == AutoErase(m) /\ UNCHANGED <<stores, calls, passes, accidents>>
IntentExpires(k) == Expire(k) /\ UNCHANGED <<stores, calls, passes, accidents>>
RetentionEnds(m) == Lapse(m) /\ UNCHANGED <<stores, calls, passes, accidents>>

------------------------------------------------------------------------------
(* Failures. *)
NoWrite == [write |-> "none", request |-> NoRequest, payload |-> NoPayload, queue |-> "none", attempt |-> 0]

CallWrite(c) ==
  CASE pc[c] = "prepare" -> [NoWrite EXCEPT !.write = "plan", !.request = Request(c)]
    [] pc[c] = "insert" -> [NoWrite EXCEPT !.write = "insert", !.payload = at[c]]
    [] pc[c] = "ready" -> [NoWrite EXCEPT !.write = "ready", !.payload = at[c]]
    [] pc[c] = "commit" -> [NoWrite EXCEPT !.write = "commit", !.request = Request(c)]

Accident(write) ==
  /\ faults < MaxFaults
  /\ faults' = faults + 1
  /\ late' = late \cup {write}

CallFault(c) ==
  /\ \/ /\ pc[c] = "stage"
        /\ \E p \in todo[c] : Accident([NoWrite EXCEPT !.write = "create", !.payload = p])
     \/ /\ pc[c] \in {"prepare", "insert", "ready", "commit"}
        /\ Accident(CallWrite(c))
  /\ Goto(c, "recover")
  /\ UNCHANGED <<todo, at, catalogVars, stores, passes>>

(* The row stays claimed until it is due again. *)
WorkerFault(w) ==
  /\ step[w] # "idle"
  /\ Accident([NoWrite EXCEPT !.write = step[w], !.payload = job[w].payload,
                              !.queue = job[w].queue, !.attempt = job[w].attempt])
  /\ Walk(w, "idle")
  /\ UNCHANGED <<job, catalogVars, stores, calls>>

ClaimLost(queue, p) ==
  /\ faults < MaxFaults
  /\ faults' = faults + 1
  /\ Claim(queue, p)
  /\ UNCHANGED <<stores, calls, passes, late>>

LateStore(write) ==
  /\ \/ write.write = "create" /\ CreateCold(write.payload) /\ UNCHANGED <<hot, tombstones>>
     \/ write.write = "mark" /\ MarkCold(write.payload) /\ UNCHANGED <<hot, tombstones>>
     \/ /\ write.write = "insert"
        /\ write.payload \notin tombstones
        /\ InsertHot(write.payload)
        /\ UNCHANGED <<cold, tombstones>>
     \/ write.write = "bury" /\ Bury(write.payload) /\ UNCHANGED cold
  /\ UNCHANGED catalogVars

LateCatalog(write) ==
  /\ \/ write.write = "plan" /\ Plan(write.request)
     \/ write.write = "ready" /\ MakeReady(write.payload)
     \/ write.write = "commit" /\ Commit(write.request)
     \/ write.write = "acknowledge" /\ Acknowledge(write.queue, write.payload, write.attempt)
  /\ UNCHANGED stores

LateWrite(write) ==
  /\ write \in late
  /\ LateStore(write) \/ LateCatalog(write)
  /\ late' = late \ {write}
  /\ UNCHANGED <<calls, passes, faults>>

------------------------------------------------------------------------------
Init ==
  /\ CatalogInit
  /\ cold = [p \in Payloads |-> IF p \in SeedItems THEN "payload" ELSE "absent"]
  /\ hot = SeedItems
  /\ tombstones = {}
  /\ pc = [c \in Calls |-> "start"]
  /\ todo = [c \in Calls |-> {}]
  /\ at = [c \in Calls |-> NoPayload]
  /\ step = [w \in Workers |-> "idle"]
  /\ job = [w \in Workers |-> [queue |-> "none", payload |-> NoPayload, attempt |-> 0]]
  /\ late = {}
  /\ faults = 0

Reading(c) == BeginRead(c) \/ BeginDirect(c) \/ Read(c) \/ Confirm(c) \/ Recover(c)
Preparing(c) == PrepareFirst(c) \/ PrepareAgain(c) \/ PrepareRefused(c) \/ PrepareReplay(c)
Staging(c) == PutCold(c) \/ CheckCold(c) \/ PutHot(c) \/ Verify(c)
              \/ Ready(c) \/ ReadyAlready(c) \/ ReadyRefused(c)
Committing(c) == CommitFirst(c) \/ CommitReplay(c) \/ CommitRefused(c)

ClaimAny(w) == \E queue \in Queues, p \in Payloads : ClaimRow(w, queue, p)
Cleaning(w) == ClaimAny(w) \/ Mark(w) \/ Entomb(w) \/ Finish(w)

Accidents ==
  \/ \E c \in Calls : CallFault(c)
  \/ \E w \in Workers : WorkerFault(w)
  \/ \E queue \in Queues, p \in Payloads : ClaimLost(queue, p)
  \/ \E write \in late : LateWrite(write)

Time ==
  \/ \E k \in Keys : IntentExpires(k)
  \/ \E m \in Memories : RetentionEnds(m) \/ EraseLapsed(m)
  \/ \E queue \in Queues, p \in Payloads : RowDue(queue, p)

Next ==
  \/ \E c \in Calls : Reading(c) \/ Preparing(c) \/ Staging(c) \/ Committing(c)
  \/ \E w \in Workers : Cleaning(w)
  \/ CollectExpired
  \/ Accidents
  \/ Time

Spec == Init /\ [][Next]_vars

(* The cron trigger starts a pass every minute, whose steps end in an answer *)
(* or a timeout; preparations expire and rows become due by the clock.       *)
(* Nothing is assumed of clients or of late writes.                          *)
Fairness ==
  /\ WF_vars(CollectExpired)
  /\ \A w \in Workers : WF_vars(Cleaning(w))
  /\ \A k \in Keys : WF_vars(IntentExpires(k))
  /\ \A queue \in Queues, p \in Payloads : WF_vars(RowDue(queue, p))

FairSpec == Spec /\ Fairness

------------------------------------------------------------------------------
TypeOK ==
  /\ CatalogTypeOK
  /\ cold \in [Payloads -> {"absent", "payload", "purged"}]
  /\ hot \subseteq Payloads
  /\ tombstones \subseteq Payloads
  /\ pc \in [Calls -> {"start", "read", "confirm", "prepare", "stage", "check", "insert", "verify",
                       "ready", "commit", "recover", "done", "failed"}]
  /\ todo \in [Calls -> SUBSET Payloads]
  /\ at \in [Calls -> Payloads \cup {NoPayload}]
  /\ step \in [Workers -> {"idle", "mark", "bury", "acknowledge"}]
  /\ job \in [Workers -> [queue : Queues \cup {"none"}, payload : Payloads \cup {NoPayload},
                         attempt : 0 .. MaxAttempts]]
  /\ faults \in 0 .. MaxFaults

(* What a memory or its history refers to can be read: its object is there, *)
(* and a memory that is not erased has the hot row search finds it by,      *)
(* whatever was purged, retired or written late before.                     *)
ReferencedReadable ==
  \A p \in Payloads :
    /\ Referenced(p) => cold[p] = "payload"
    /\ IsHead(p) => p \in hot \ tombstones

(* An acknowledged purge left an empty object and no row, an acknowledged  *)
(* retirement no row, and no later write brings either back.  Nothing is   *)
(* stored that has no stage, by which clean-up finds it.                   *)
CleanedForGood ==
  \A p \in Payloads :
    /\ cold[p] # "absent" \/ p \in hot => stages[p] # "absent"
    /\ queues["purges"][p].state = "done" => cold[p] = "purged" /\ p \in tombstones \ hot
    /\ queues["retirements"][p].state = "done" => p \in tombstones \ hot

(* Each revision of a memory is the effect of one receipt that expected the *)
(* one before, or of the automatic erasure: retries and late batches apply  *)
(* nothing twice, and no write overwrites one its client has not seen.      *)
Writes(m) == {k \in Keys : receipts[k] # NoRequest /\ m \in receipts[k].memories}
EraseReceipt(m) == \E k \in Writes(m) : receipts[k].action = "erase"

RevisionsHaveReceipts ==
  \A m \in Memories :
    memories[m].revision = Cardinality({receipts[k].revision : k \in Writes(m)})
      + (IF m \in Trash THEN 1 ELSE 0)
      + (IF memories[m].erased /\ ~ EraseReceipt(m) THEN 1 ELSE 0)

------------------------------------------------------------------------------
(* Erased content leaves both stores in the end, and replaced content the *)
(* searchable one; an abandoned preparation is removed and its quota       *)
(* returned (collect, item and the triggers of migration 0022).            *)
Erased(p) == memories[p[2]].erased /\ stages[p] # "absent"
Unwanted(p) == Erased(p) \/ queues["retirements"][p].state = "open"
Removed(p) == p \notin hot /\ (Erased(p) => cold[p] = "purged")

CleanupCompletes ==
  /\ \A p \in Payloads : Unwanted(p) ~> Removed(p)
  /\ <>[](held = 0)
==============================================================================
