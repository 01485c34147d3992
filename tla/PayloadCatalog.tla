---------------------------- MODULE PayloadCatalog ----------------------------
(***************************************************************************)
(* The central database of external payloads: preparations of writes       *)
(* (saas/src/release/payload-intents.ts), the writes that publish them     *)
(* (release/memory.ts) and the two clean-up queues                         *)
(* (release/payload-maintenance.ts), with the triggers of migration 0022.  *)
(* Where the bytes are kept is the concern of Payloads.                    *)
(*                                                                         *)
(* A statement or a batch is one transaction, so it is one action.  The    *)
(* module follows one account and one Space.  The random identifiers of a  *)
(* preparation are identified with its client key, so a payload is a pair  *)
(* <<key, memory>>; a request stands for its own hash.  An instant that is *)
(* only compared with now becomes a flag that an action of its own raises: *)
(* "expired", "lapsed", "due".                                             *)
(* Operators named ...Mutant are wrong on purpose: each stands for a       *)
(* plausible slip in the definition that follows it.                       *)
(***************************************************************************)
EXTENDS PayloadRequests

VARIABLES
  intents,      \* release_payload_intents: the request prepared under a key
  expired,      \* keys whose intent has reached expires_at
  published,    \* keys whose intent has published_at
  collected,    \* keys whose intent has collection_started_at
  stages,       \* release_payload_stages.state
  receipts,     \* release_operations: the request committed under a key
  memories,     \* the rows of memories
  versions,     \* memory_versions, as <<memory, revision, payload>>
  lapsed,       \* deleted memories past their retention
  queues,       \* release_payload_purges and release_payload_retirements
  held          \* release_payload_stage_accounts.quantity

catalogVars == <<intents, expired, published, collected, stages, receipts,
                 memories, versions, lapsed, queues, held>>

StageStates == {"absent", "staging", "ready", "published", "purge_pending", "purged"}
Queues == {"purges", "retirements"}
Row == [state : {"absent", "open", "done"}, due : BOOLEAN, attempts : 0 .. MaxAttempts]
Memory == [revision : Nat, payload : Payloads \cup {NoPayload}, deleted : BOOLEAN, erased : BOOLEAN]

NoRow == [state |-> "absent", due |-> FALSE, attempts |-> 0]
NewRow == [state |-> "open", due |-> TRUE, attempts |-> 0]
NoMemory == [revision |-> 0, payload |-> NoPayload, deleted |-> FALSE, erased |-> FALSE]

ItemsOf(request) == {<<request.key, m>> : m \in request.memories}
StagesOf(key) == {p \in Payloads : p[1] = key /\ stages[p] # "absent"}
Queued(queue, p) == queues[queue][p].state # "absent"

(* unreferenced: history counts for a purge, only heads for a retirement. *)
InHistory(p) == \E v \in versions : v[3] = p
IsHead(p) == \E m \in Memories : memories[m].payload = p
Unreferenced(queue, p) == ~ IsHead(p) /\ (queue = "purges" => ~ InHistory(p))

------------------------------------------------------------------------------
(* preparePayloads: locators and their quota become durable before any *)
(* external write, once per key.                                       *)
OverQuota(request) == held + Cardinality(ItemsOf(request)) > StageLimit

(* Mutant: a stage counts as ready from the start. *)
PlanMutant(request) ==
  /\ request.action \in Prepared
  /\ intents[request.key] = NoRequest
  /\ ~ OverQuota(request)
  /\ intents' = [intents EXCEPT ![request.key] = request]
  /\ stages' = [p \in Payloads |-> IF p \in ItemsOf(request) THEN "ready" ELSE stages[p]]
  /\ held' = held + Cardinality(ItemsOf(request))
  /\ UNCHANGED <<expired, published, collected, receipts, memories, versions, lapsed, queues>>

Plan(request) ==
  /\ request.action \in Prepared
  /\ intents[request.key] = NoRequest
  /\ ~ OverQuota(request)
  /\ intents' = [intents EXCEPT ![request.key] = request]
  /\ stages' = [p \in Payloads |-> IF p \in ItemsOf(request) THEN "staging" ELSE stages[p]]
  /\ held' = held + Cardinality(ItemsOf(request))
  /\ UNCHANGED <<expired, published, collected, receipts, memories, versions, lapsed, queues>>

(* Staged externally in time: staging becomes ready. *)
MakeReady(p) ==
  /\ stages[p] = "staging"
  /\ p[1] \notin expired
  /\ stages' = [stages EXCEPT ![p] = "ready"]
  /\ UNCHANGED <<intents, expired, published, collected, receipts, memories, versions, lapsed, queues, held>>

------------------------------------------------------------------------------
(* The row a memory has after an action on it. *)
After(action, key, m) ==
  LET row == memories[m] IN
  [revision |-> row.revision + 1,
   payload |-> IF action \in Prepared THEN <<key, m>>
               ELSE IF action = "erase" THEN NoPayload ELSE row.payload,
   deleted |-> action \in {"delete", "erase"},
   erased |-> action = "erase"]

(* Statements and triggers shared by every change of the memories in ms: the *)
(* row, its former version, the retirement of a replaced payload and, for an *)
(* erasure, the purge of every payload ever staged for the memory.           *)
Replaced(action, key, m) ==
  /\ memories[m].payload # NoPayload
  /\ After(action, key, m).payload # memories[m].payload

ToRetire(action, key, ms) ==
  {memories[m].payload : m \in {n \in ms : Replaced(action, key, n)}}

ToPurge(action, ms) ==
  {p \in Payloads : action = "erase" /\ p[2] \in ms /\ stages[p] # "absent"}

Enqueued(rows, new) == [p \in Payloads |-> IF p \in new /\ rows[p].state = "absent" THEN NewRow ELSE rows[p]]

Change(action, key, ms) ==
  /\ memories' = [m \in Memories |-> IF m \in ms THEN After(action, key, m) ELSE memories[m]]
  /\ versions' = IF action = "erase" THEN {v \in versions : v[1] \notin ms}
                 ELSE versions \cup {<<m, memories[m].revision, memories[m].payload>> :
                                       m \in {n \in ms : memories[n].revision > 0}}
  /\ lapsed' = IF action = "restore" THEN lapsed \ ms ELSE lapsed
  /\ queues' = [queue \in Queues |->
                Enqueued(queues[queue], IF queue = "purges" THEN ToPurge(action, ms)
                                        ELSE ToRetire(action, key, ms))]

(* Mutant: the expected revision is not compared. *)
RevisionMatchesMutant(request) ==
  \A m \in request.memories :
    LET row == memories[m] IN
    IF request.action = "create" THEN row.revision = 0
    ELSE /\ row.revision > 0
         /\ ~ row.erased
         /\ row.deleted <=> request.action \in {"restore", "erase"}

(* The INSERT into release_operations: the preparation must be complete and *)
(* unexpired, and the memory in the state the action needs.                 *)
PreparationComplete(request) ==
  /\ intents[request.key] = request
  /\ request.key \notin expired \cup published
  /\ \A p \in ItemsOf(request) : stages[p] = "ready"

RevisionMatches(request) ==
  \A m \in request.memories :
    LET row == memories[m] IN
    IF request.action = "create" THEN row.revision = 0
    ELSE /\ row.revision = request.revision
         /\ ~ row.erased
         /\ row.deleted <=> request.action \in {"restore", "erase"}
         /\ request.action = "restore" => m \notin lapsed

Admissible(request) ==
  /\ receipts[request.key] = NoRequest
  /\ RevisionMatches(request)
  /\ request.action \in Prepared => PreparationComplete(request)

(* commit: receipt, change and publication in one batch. *)
Commit(request) ==
  /\ Admissible(request)
  /\ receipts' = [receipts EXCEPT ![request.key] = request]
  /\ Change(request.action, request.key, request.memories)
  /\ IF request.action \in Prepared
     THEN /\ stages' = [p \in Payloads |->
                        IF p \in ItemsOf(request) /\ stages[p] = "ready" THEN "published" ELSE stages[p]]
          /\ published' = published \cup {request.key}
          /\ held' = held - Cardinality(ItemsOf(request))
     ELSE UNCHANGED <<stages, published, held>>
  /\ UNCHANGED <<intents, expired, collected>>

(* Automatic erasure at the end of the retention. *)
AutoErase(m) ==
  /\ m \in lapsed
  /\ memories[m].deleted
  /\ ~ memories[m].erased
  /\ Change("erase", NoRequest, {m})
  /\ UNCHANGED <<intents, expired, published, collected, stages, receipts, held>>

------------------------------------------------------------------------------
(* collect: the stages of expired preparations are queued for a purge. *)
Collectable(key) ==
  /\ intents[key] # NoRequest
  /\ key \in expired
  /\ key \notin published \cup collected

Garbage(keys) ==
  {p \in Payloads : p[1] \in keys /\ stages[p] \in {"staging", "ready"} /\ Unreferenced("purges", p)}

Collect(keys) ==
  LET queue == Enqueued(queues["purges"], Garbage(keys))
      moved == [p \in Payloads |->
                  IF p[1] \in keys /\ stages[p] \in {"staging", "ready"} /\ queue[p].state # "absent"
                  THEN "purge_pending" ELSE stages[p]]
  IN /\ keys # {}
     /\ \A key \in keys : Collectable(key)
     /\ queues' = [queues EXCEPT !["purges"] = queue]
     /\ stages' = moved
     /\ collected' = collected \cup
          {key \in keys : \A p \in StagesOf(key) :
             moved[p] \in {"purge_pending", "purged"} /\ queue[p].state # "absent"}
     /\ UNCHANGED <<intents, expired, published, receipts, memories, versions, lapsed, held>>

(* Mutant: a row that was tried once is not tried again. *)
ClaimableMutant(queue, p) ==
  /\ queues[queue][p].state = "open"
  /\ queues[queue][p].attempts = 0
  /\ Unreferenced(queue, p)
  /\ queue = "purges" => stages[p] \in {"staging", "ready", "published", "purge_pending"}

(* item: a due row is claimed, and delayed for other claimants. *)
Claimable(queue, p) ==
  /\ queues[queue][p].state = "open"
  /\ queues[queue][p].due
  /\ Unreferenced(queue, p)
  /\ queue = "purges" => stages[p] \in {"staging", "ready", "published", "purge_pending"}

Claim(queue, p) ==
  /\ Claimable(queue, p)
  /\ queues[queue][p].attempts < MaxAttempts
  /\ queues' = [queues EXCEPT ![queue][p].due = FALSE, ![queue][p].attempts = @ + 1]
  /\ stages' = IF queue = "purges" THEN [stages EXCEPT ![p] = "purge_pending"] ELSE stages
  /\ UNCHANGED <<intents, expired, published, collected, receipts, memories, versions, lapsed, held>>

(* The last purged stage of an unpublished preparation returns its quota. *)
Returned(p) ==
  IF p[1] \notin published /\ \A q \in StagesOf(p[1]) \ {p} : stages[q] = "purged"
  THEN Cardinality(StagesOf(p[1])) ELSE 0

(* The acknowledgement of the attempt that still owns the row. *)
Acknowledge(queue, p, attempt) ==
  /\ queues[queue][p].state = "open"
  /\ queues[queue][p].attempts = attempt
  /\ attempt > 0
  /\ Unreferenced(queue, p)
  /\ queues' = [queues EXCEPT ![queue][p].state = "done"]
  /\ IF queue = "purges" /\ stages[p] = "purge_pending"
     THEN /\ stages' = [stages EXCEPT ![p] = "purged"]
          /\ held' = held - Returned(p)
     ELSE UNCHANGED <<stages, held>>
  /\ UNCHANGED <<intents, expired, published, collected, receipts, memories, versions, lapsed>>

------------------------------------------------------------------------------
(* Time. *)
Expire(key) ==
  /\ intents[key] # NoRequest
  /\ key \notin expired
  /\ expired' = expired \cup {key}
  /\ UNCHANGED <<intents, published, collected, stages, receipts, memories, versions, lapsed, queues, held>>

Lapse(m) ==
  /\ memories[m].deleted
  /\ ~ memories[m].erased
  /\ m \notin lapsed
  /\ lapsed' = lapsed \cup {m}
  /\ UNCHANGED <<intents, expired, published, collected, stages, receipts, memories, versions, queues, held>>

Due(queue, p) ==
  /\ queues[queue][p].state = "open"
  /\ ~ queues[queue][p].due
  /\ queues' = [queues EXCEPT ![queue][p].due = TRUE]
  /\ UNCHANGED <<intents, expired, published, collected, stages, receipts, memories, versions, lapsed, held>>

------------------------------------------------------------------------------
SeedItems == UNION {ItemsOf(s) : s \in Seeds}
SeedOf(key) ==
  IF \E s \in Seeds : s.key = key THEN CHOOSE s \in Seeds : s.key = key ELSE NoRequest
SeedMemory(m) ==
  IF \E p \in SeedItems : p[2] = m
  THEN [revision |-> IF m \in Trash THEN 2 ELSE 1,
        payload |-> CHOOSE p \in SeedItems : p[2] = m,
        deleted |-> m \in Trash,
        erased |-> FALSE]
  ELSE NoMemory

(* The state after the creations of Seeds and the deletions of Trash. *)
CatalogInit ==
  /\ intents = [k \in Keys |-> SeedOf(k)]
  /\ expired = {}
  /\ published = {s.key : s \in Seeds}
  /\ collected = {}
  /\ stages = [p \in Payloads |-> IF p \in SeedItems THEN "published" ELSE "absent"]
  /\ receipts = [k \in Keys |-> SeedOf(k)]
  /\ memories = [m \in Memories |-> SeedMemory(m)]
  /\ versions = {<<p[2], 1, p>> : p \in {q \in SeedItems : q[2] \in Trash}}
  /\ lapsed = {}
  /\ queues = [queue \in Queues |-> [p \in Payloads |-> NoRow]]
  /\ held = 0

Write == \E request \in Requests : Plan(request) \/ Commit(request)

Clean ==
  \/ \E keys \in SUBSET Keys : Collect(keys)
  \/ \E queue \in Queues, p \in Payloads :
       Claim(queue, p) \/ \E attempt \in 1 .. MaxAttempts : Acknowledge(queue, p, attempt)

Pass ==
  \/ \E key \in Keys : Expire(key)
  \/ \E m \in Memories : Lapse(m)
  \/ \E queue \in Queues, p \in Payloads : Due(queue, p)

CatalogNext ==
  \/ Write
  \/ \E p \in Payloads : MakeReady(p)
  \/ \E m \in Memories : AutoErase(m)
  \/ Clean
  \/ Pass

(* How the database moves, whoever calls it: a system that keeps its tables  *)
(* implements this.                                                         *)
CatalogSpec == CatalogInit /\ [][CatalogNext]_catalogVars

------------------------------------------------------------------------------
CatalogTypeOK ==
  /\ intents \in [Keys -> Requests \cup {NoRequest}]
  /\ receipts \in [Keys -> Requests \cup {NoRequest}]
  /\ expired \subseteq Keys
  /\ published \subseteq Keys
  /\ collected \subseteq Keys
  /\ stages \in [Payloads -> StageStates]
  /\ memories \in [Memories -> Memory]
  /\ versions \subseteq Memories \X Nat \X Payloads
  /\ lapsed \subseteq Memories
  /\ queues \in [Queues -> [Payloads -> Row]]
  /\ held \in Int

(* Whatever a memory or its history refers to is published, and belongs to *)
(* that memory: no clean-up has touched a payload a reader may still need. *)
Referenced(p) == IsHead(p) \/ InHistory(p)

ReferencesPublished ==
  /\ \A m \in Memories :
       LET p == memories[m].payload IN p # NoPayload => p[2] = m /\ stages[p] = "published"
  /\ \A v \in versions : v[3][2] = v[1] /\ stages[v[3]] = "published"

(* Nothing that waits for a purge is referenced, nothing that waits for the *)
(* retirement of its hot copy is a current payload: the branch that defers  *)
(* a row which is still referenced is never needed.                         *)
QueuedIsUnreferenced ==
  \A p \in Payloads, queue \in Queues : Queued(queue, p) => Unreferenced(queue, p)

(* A preparation is published exactly if its own write has its receipt, and *)
(* then with all its stages; one that is collected has lost all of them.    *)
PublicationComplete ==
  \A k \in Keys :
    /\ k \in published => receipts[k] = intents[k] /\ intents[k] # NoRequest
    /\ receipts[k] # NoRequest /\ receipts[k].action \in Prepared => k \in published
    /\ \A p \in StagesOf(k) :
         /\ k \in published => stages[p] \in {"published", "purge_pending", "purged"}
         /\ k \notin published => stages[p] # "published"
         /\ k \in collected => stages[p] \in {"purge_pending", "purged"}

(* A payload that was published is purged for one reason only, that its   *)
(* memory was erased: this is what confirmRead and hydrateRows rely on to *)
(* explain a payload they no longer find.                                 *)
PurgedByErasure ==
  \A p \in Payloads : Queued("purges", p) /\ p[1] \in published => memories[p[2]].erased

(* An erased memory keeps no payload: every one that was staged for it is *)
(* purged already, queued, or part of a preparation nobody can publish.   *)
ErasedIsQueued ==
  \A m \in Memories : memories[m].erased =>
    /\ memories[m].payload = NoPayload
    /\ \A v \in versions : v[1] # m
    /\ \A p \in Payloads : p[2] = m /\ stages[p] = "published" => Queued("purges", p)

(* The staging quota is what unpublished preparations still stage. *)
Outstanding ==
  {p \in Payloads : /\ stages[p] # "absent"
                    /\ p[1] \notin published
                    /\ \E q \in StagesOf(p[1]) : stages[q] # "purged"}

QuotaExact == held = Cardinality(Outstanding) /\ held <= StageLimit

(* A receipt, an erasure, a finished clean-up and a collection are final; a *)
(* stage only moves forward.                                                *)
StageRank == [absent |-> 0, staging |-> 1, ready |-> 2, published |-> 3, purge_pending |-> 4, purged |-> 5]

Forward ==
  /\ \A k \in Keys : receipts[k] # NoRequest => receipts'[k] = receipts[k]
  /\ \A m \in Memories : memories[m].erased => memories'[m] = memories[m]
  /\ \A p \in Payloads : StageRank[stages'[p]] >= StageRank[stages[p]]
  /\ \A queue \in Queues, p \in Payloads :
       queues[queue][p].state = "done" => queues'[queue][p] = queues[queue][p]

NeverBack == [][Forward]_catalogVars
==============================================================================
