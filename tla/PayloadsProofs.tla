----------------------------- MODULE PayloadsProofs -----------------------------
(* Proofs about PayloadCatalog and Payloads for any keys, memories, requests, *)
(* calls, workers, limits and faults.  First the database alone: an inductive *)
(* invariant from which its safety invariants follow, and the steps that are  *)
(* never undone.  Then the stores with it: the database moves as              *)
(* PayloadCatalog says, and an inductive invariant from which the safety      *)
(* invariants of the model-checked run follow.                                *)
EXTENDS Payloads, FiniteSetTheorems, TLAPS

(* A stage belongs to the preparation of its key, which staged all its items. *)
StagesPlanned ==
  /\ \A k \in Keys : intents[k] # NoRequest =>
       /\ intents[k].key = k
       /\ intents[k].action \in Prepared
       /\ \A p \in ItemsOf(intents[k]) : stages[p] # "absent"
  /\ \A p \in Payloads : stages[p] # "absent" =>
       /\ intents[p[1]] # NoRequest
       /\ p \in ItemsOf(intents[p[1]])

(* A memory holds a payload from its creation to its erasure. *)
HeadsExist ==
  \A m \in Memories :
    /\ memories[m].payload # NoPayload <=> memories[m].revision > 0 /\ ~ memories[m].erased
    /\ memories[m].deleted \/ memories[m].erased => memories[m].revision > 0

(* A purge has one of two reasons, and neither can be overtaken. *)
PurgeExplained ==
  \A p \in Payloads : Queued("purges", p) =>
    memories[p[2]].erased \/ p[1] \in expired \ published

(* Only what was published can be retired. *)
RetiredWasPublished ==
  \A p \in Payloads : Queued("retirements", p) => stages[p] \in {"published", "purge_pending", "purged"}

CollectedExpired == \A k \in collected : k \in expired /\ intents[k] # NoRequest

CatalogInv ==
  /\ CatalogTypeOK
  /\ StagesPlanned
  /\ HeadsExist
  /\ PurgeExplained
  /\ RetiredWasPublished
  /\ CollectedExpired
  /\ ReferencesPublished
  /\ QueuedIsUnreferenced
  /\ PublicationComplete
  /\ ErasedIsQueued

------------------------------------------------------------------------------
(* What the assumptions say of one request. *)
LEMMA RequestShape ==
  ASSUME NEW r \in Requests
  PROVE  /\ r.key \in Keys
         /\ r.action \in Actions
         /\ r.memories \subseteq Memories
         /\ r.revision \in Nat
         /\ r # NoRequest
         /\ ItemsOf(r) \subseteq Payloads
  BY RequestAssumption DEF ItemsOf, Payloads

LEMMA ItemShape ==
  ASSUME NEW r \in Requests, NEW p \in Payloads
  PROVE  p \in ItemsOf(r) <=> p[1] = r.key /\ p[2] \in r.memories
  BY RequestShape DEF ItemsOf, Payloads

LEMMA ItemsFinite ==
  ASSUME NEW r \in Requests
  PROVE  IsFiniteSet(ItemsOf(r))
  <1>1. IsFiniteSet(r.memories)
    BY RequestAssumption
  <1>2. IsFiniteSet({r.key} \X r.memories)
    BY <1>1, FS_Singleton, FS_Product
  <1>3. ItemsOf(r) = {r.key} \X r.memories
    BY DEF ItemsOf
  <1> QED  BY <1>2, <1>3

(* The row of a memory after an action on it. *)
LEMMA AfterType ==
  ASSUME CatalogTypeOK, NEW action \in Actions, NEW key, NEW m \in Memories,
         action \in Prepared => key \in Keys
  PROVE  After(action, key, m) \in Memory
  BY DEF After, Memory, CatalogTypeOK, Payloads, Actions, Prepared

(* The queues with new rows. *)
LEMMA EnqueuedType ==
  ASSUME NEW rows \in [Payloads -> Row], NEW new
  PROVE  Enqueued(rows, new) \in [Payloads -> Row]
  BY LimitAssumption DEF Enqueued, Row, NewRow

(* A change of memories keeps their tables well typed. *)
LEMMA ChangeType ==
  ASSUME CatalogTypeOK, HeadsExist, NEW action \in Actions, NEW key, NEW ms \in SUBSET Memories,
         action \in Prepared => key \in Keys,
         \A m \in ms : ~ memories[m].erased,
         Change(action, key, ms)
  PROVE  /\ memories' \in [Memories -> Memory]
         /\ versions' \subseteq Memories \X Nat \X Payloads
         /\ lapsed' \subseteq Memories
         /\ queues' \in [Queues -> [Payloads -> Row]]
  <1>1. memories' \in [Memories -> Memory]
    <2>1. \A m \in ms : After(action, key, m) \in Memory
      BY AfterType
    <2> QED  BY <2>1 DEF Change, CatalogTypeOK
  <1>2. versions' \subseteq Memories \X Nat \X Payloads
    <2>1. \A m \in ms : memories[m].revision > 0 => memories[m].payload \in Payloads /\ memories[m].revision \in Nat
      BY DEF HeadsExist, CatalogTypeOK, Memory
    <2> QED  BY <2>1 DEF Change, CatalogTypeOK
  <1>3. lapsed' \subseteq Memories
    BY DEF Change, CatalogTypeOK
  <1>4. queues' \in [Queues -> [Payloads -> Row]]
    <2>1. queues["purges"] \in [Payloads -> Row] /\ queues["retirements"] \in [Payloads -> Row]
      BY DEF CatalogTypeOK, Queues
    <2>2. /\ Enqueued(queues["purges"], ToPurge(action, ms)) \in [Payloads -> Row]
          /\ Enqueued(queues["retirements"], ToRetire(action, key, ms)) \in [Payloads -> Row]
      BY <2>1, EnqueuedType
    <2> QED  BY <2>2 DEF Change, Queues
  <1> QED  BY <1>1, <1>2, <1>3, <1>4

------------------------------------------------------------------------------
LEMMA PayloadShape ==
  ASSUME NEW p \in Payloads
  PROVE  p[1] \in Keys /\ p[2] \in Memories /\ p = <<p[1], p[2]>>
  BY DEF Payloads

(* A key without a preparation has left no trace. *)
LEMMA KeyUntouched ==
  ASSUME CatalogInv, NEW k \in Keys, intents[k] = NoRequest
  PROVE  /\ \A p \in Payloads : p[1] = k => stages[p] = "absent"
         /\ k \notin published
         /\ k \notin collected
         /\ receipts[k] = NoRequest \/ receipts[k].action \notin Prepared
  BY DEF CatalogInv, StagesPlanned, PublicationComplete, CollectedExpired

(* What memories and their history refer to does not depend on the rest. *)
LEMMA ReferencesUntouched ==
  ASSUME UNCHANGED <<memories, versions>>
  PROVE  /\ \A p \in Payloads : IsHead(p)' <=> IsHead(p)
         /\ \A p \in Payloads : InHistory(p)' <=> InHistory(p)
         /\ \A queue \in Queues, p \in Payloads : Unreferenced(queue, p)' <=> Unreferenced(queue, p)
  BY DEF IsHead, InHistory, Unreferenced

------------------------------------------------------------------------------
(* One lemma per action: it keeps the invariant. *)
LEMMA PlanKeeps ==
  ASSUME CatalogInv, NEW request \in Requests, Plan(request)
  PROVE  CatalogInv'
  <1> DEFINE k == request.key
  <1>1. /\ k \in Keys
        /\ request # NoRequest
        /\ ItemsOf(request) \subseteq Payloads
        /\ request.memories \subseteq Memories
    BY RequestShape
  <1>2. /\ \A p \in Payloads : p[1] = k => stages[p] = "absent"
        /\ k \notin published
        /\ k \notin collected
        /\ receipts[k] = NoRequest \/ receipts[k].action \notin Prepared
    BY <1>1, KeyUntouched DEF Plan
  <1>3. \A p \in ItemsOf(request) : p[1] = k /\ stages[p] = "absent"
    BY <1>1, <1>2, ItemShape
  <1>4. \A p \in Payloads : stages'[p] = IF p \in ItemsOf(request) THEN "staging" ELSE stages[p]
    BY DEF Plan
  <1>5. /\ intents'[k] = request
        /\ \A j \in Keys : j # k => intents'[j] = intents[j]
    BY <1>1 DEF Plan, CatalogInv, CatalogTypeOK
  <1>6. CatalogTypeOK'
    <2>1. stages' \in [Payloads -> StageStates]
      BY DEF Plan, CatalogInv, CatalogTypeOK, StageStates
    <2>2. held' \in Int
      <3>1. Cardinality(ItemsOf(request)) \in Int
        BY ItemsFinite, FS_CardinalityType
      <3> QED  BY <3>1 DEF Plan, CatalogInv, CatalogTypeOK
    <2> QED  BY <1>1, <2>1, <2>2 DEF Plan, CatalogInv, CatalogTypeOK
  <1>7. StagesPlanned'
    <2>1. ASSUME NEW j \in Keys, intents'[j] # NoRequest
          PROVE  /\ intents'[j].key = j
                 /\ intents'[j].action \in Prepared
                 /\ \A p \in ItemsOf(intents'[j]) : stages'[p] # "absent"
      <3>1. CASE j = k
        BY <3>1, <1>1, <1>4, <1>5 DEF Plan
      <3>2. CASE j # k
        <4>1. intents'[j] = intents[j] /\ intents[j] \in Requests
          BY <2>1, <3>2, <1>5 DEF CatalogInv, CatalogTypeOK
        <4>2. ItemsOf(intents[j]) \subseteq Payloads
          BY <4>1, RequestShape
        <4> QED  BY <4>1, <4>2, <2>1, <1>4 DEF CatalogInv, StagesPlanned
      <3> QED  BY <3>1, <3>2
    <2>2. ASSUME NEW p \in Payloads, stages'[p] # "absent"
          PROVE  intents'[p[1]] # NoRequest /\ p \in ItemsOf(intents'[p[1]])
      BY <2>2, <1>1, <1>3, <1>4, <1>5, <1>2, PayloadShape DEF CatalogInv, StagesPlanned
    <2> QED  BY <2>1, <2>2 DEF StagesPlanned, ItemsOf
  <1>8. HeadsExist' /\ PurgeExplained'
    BY DEF Plan, CatalogInv, HeadsExist, PurgeExplained, Queued
  <1>9. RetiredWasPublished'
    BY <1>3, <1>4 DEF Plan, CatalogInv, RetiredWasPublished, Queued
  <1>10. CollectedExpired'
    BY <1>2, <1>5 DEF Plan, CatalogInv, CatalogTypeOK, CollectedExpired
  <1>11. ReferencesPublished'
    BY <1>3, <1>4 DEF Plan, CatalogInv, CatalogTypeOK, Memory, ReferencesPublished
  <1>12. QueuedIsUnreferenced'
    BY ReferencesUntouched DEF Plan, CatalogInv, QueuedIsUnreferenced, Queued
  <1>13. PublicationComplete'
    <2> SUFFICES ASSUME NEW j \in Keys
                 PROVE  /\ j \in published => receipts[j] = intents'[j] /\ intents'[j] # NoRequest
                        /\ receipts[j] # NoRequest /\ receipts[j].action \in Prepared => j \in published
                        /\ \A p \in Payloads : p[1] = j /\ stages'[p] # "absent" =>
                             /\ j \in published => stages'[p] \in {"published", "purge_pending", "purged"}
                             /\ j \notin published => stages'[p] # "published"
                             /\ j \in collected => stages'[p] \in {"purge_pending", "purged"}
      BY DEF Plan, PublicationComplete, StagesOf
    <2> QED  BY <1>2, <1>3, <1>4, <1>5 DEF CatalogInv, PublicationComplete, StagesOf
  <1>14. ErasedIsQueued'
    BY <1>4 DEF Plan, CatalogInv, ErasedIsQueued, Queued
  <1> QED
    BY <1>6, <1>7, <1>8, <1>9, <1>10, <1>11, <1>12, <1>13, <1>14 DEF CatalogInv

LEMMA MakeReadyKeeps ==
  ASSUME CatalogInv, NEW p \in Payloads, MakeReady(p)
  PROVE  CatalogInv'
  <1>1. \A q \in Payloads : stages'[q] = IF q = p THEN "ready" ELSE stages[q]
    BY DEF MakeReady, CatalogInv, CatalogTypeOK
  <1>2. stages[p] = "staging"
    BY DEF MakeReady
  <1>3. CatalogTypeOK'
    BY DEF MakeReady, CatalogInv, CatalogTypeOK, StageStates
  <1>4. StagesPlanned'
    <2>1. \A q \in Payloads : stages'[q] = "absent" <=> stages[q] = "absent"
      BY <1>1, <1>2
    <2>2. \A k \in Keys : intents[k] # NoRequest => ItemsOf(intents[k]) \subseteq Payloads
      BY RequestShape DEF CatalogInv, CatalogTypeOK
    <2> QED  BY <2>1, <2>2 DEF MakeReady, CatalogInv, StagesPlanned, ItemsOf
  <1>5. HeadsExist' /\ PurgeExplained' /\ CollectedExpired'
    BY DEF MakeReady, CatalogInv, HeadsExist, PurgeExplained, CollectedExpired, Queued
  <1>6. RetiredWasPublished'
    BY <1>1, <1>2 DEF MakeReady, CatalogInv, RetiredWasPublished, Queued
  <1>7. ReferencesPublished'
    BY <1>1, <1>2 DEF MakeReady, CatalogInv, CatalogTypeOK, Memory, ReferencesPublished
  <1>8. QueuedIsUnreferenced'
    BY ReferencesUntouched DEF MakeReady, CatalogInv, QueuedIsUnreferenced, Queued
  <1>9. PublicationComplete'
    BY <1>1, <1>2 DEF MakeReady, CatalogInv, PublicationComplete, StagesOf
  <1>10. ErasedIsQueued'
    BY <1>1, <1>2 DEF MakeReady, CatalogInv, ErasedIsQueued, Queued
  <1> QED
    BY <1>3, <1>4, <1>5, <1>6, <1>7, <1>8, <1>9, <1>10 DEF CatalogInv

------------------------------------------------------------------------------
(* A change of memories as one row per memory, as row per queue. *)
LEMMA ChangedRows ==
  ASSUME CatalogInv, NEW action \in Actions, NEW key, NEW ms \in SUBSET Memories,
         action \in Prepared => key \in Keys,
         Change(action, key, ms)
  PROVE  /\ \A m \in Memories \ ms : memories'[m] = memories[m]
         /\ \A m \in ms : /\ memories'[m].payload = After(action, key, m).payload
                          /\ memories'[m].revision = memories[m].revision + 1
                          /\ memories'[m].erased <=> action = "erase"
                          /\ memories'[m].deleted <=> action \in {"delete", "erase"}
         /\ \A p \in Payloads : Queued("purges", p)' <=> Queued("purges", p) \/ p \in ToPurge(action, ms)
         /\ \A p \in Payloads :
              Queued("retirements", p)' <=> Queued("retirements", p) \/ p \in ToRetire(action, key, ms)
  <1>1. \A m \in Memories : memories'[m] = IF m \in ms THEN After(action, key, m) ELSE memories[m]
    BY DEF Change
  <1>2. \A p \in Payloads :
          /\ queues'["purges"][p] = Enqueued(queues["purges"], ToPurge(action, ms))[p]
          /\ queues'["retirements"][p] = Enqueued(queues["retirements"], ToRetire(action, key, ms))[p]
    BY DEF Change, Queues
  <1>3. \A p \in Payloads :
          /\ queues'["purges"][p].state # "absent"
               <=> queues["purges"][p].state # "absent" \/ p \in ToPurge(action, ms)
          /\ queues'["retirements"][p].state # "absent"
               <=> queues["retirements"][p].state # "absent" \/ p \in ToRetire(action, key, ms)
    BY <1>2 DEF Enqueued, NewRow
  <1>4. \A m \in ms : /\ After(action, key, m).revision = memories[m].revision + 1
                     /\ After(action, key, m).erased = (action = "erase")
                     /\ After(action, key, m).deleted = (action \in {"delete", "erase"})
    BY DEF After
  <1>5. \A m \in ms : memories'[m] = After(action, key, m)
    BY <1>1
  <1>6. \A m \in ms : (memories'[m].erased <=> action = "erase")
                     /\ (memories'[m].deleted <=> action \in {"delete", "erase"})
    BY <1>4, <1>5
  <1>7. \A m \in ms : memories'[m].revision = memories[m].revision + 1
    BY <1>4, <1>5
  <1>8. \A m \in Memories \ ms : memories'[m] = memories[m]
    BY <1>1
  <1> HIDE DEF After
  <1> QED  BY <1>3, <1>5, <1>6, <1>7, <1>8 DEF Queued

(* A deletion, a restore or an erasure of live rows keeps everything that *)
(* does not mention receipts.                                             *)
LEMMA QuietChangeKeeps ==
  ASSUME CatalogInv, NEW action \in {"delete", "restore", "erase"}, NEW key, NEW ms \in SUBSET Memories,
         \A m \in ms : memories[m].revision > 0 /\ ~ memories[m].erased,
         Change(action, key, ms),
         UNCHANGED <<intents, expired, published, collected, stages>>
  PROVE  /\ StagesPlanned' /\ HeadsExist' /\ PurgeExplained' /\ RetiredWasPublished' /\ CollectedExpired'
         /\ ReferencesPublished' /\ QueuedIsUnreferenced' /\ ErasedIsQueued'
  <1>1. action \in Actions /\ action \notin Prepared
    BY DEF Actions, Prepared
  <1>2. /\ \A m \in Memories \ ms : memories'[m] = memories[m]
        /\ \A m \in ms : /\ memories'[m].payload = After(action, key, m).payload
                         /\ memories'[m].revision = memories[m].revision + 1
                         /\ memories'[m].erased <=> action = "erase"
                         /\ memories'[m].deleted <=> action \in {"delete", "erase"}
        /\ \A p \in Payloads : Queued("purges", p)' <=> Queued("purges", p) \/ p \in ToPurge(action, ms)
        /\ \A p \in Payloads :
             Queued("retirements", p)' <=> Queued("retirements", p) \/ p \in ToRetire(action, key, ms)
    BY <1>1, ChangedRows
  <1>3. \A m \in ms : After(action, key, m).payload = IF action = "erase" THEN NoPayload ELSE memories[m].payload
    BY <1>1 DEF After
  <1>4. \A m \in Memories : memories[m].payload # NoPayload =>
          /\ memories[m].payload \in Payloads
          /\ memories[m].payload[2] = m
          /\ stages[memories[m].payload] = "published"
    BY DEF CatalogInv, CatalogTypeOK, Memory, ReferencesPublished
  <1>5. \A m \in ms : memories[m].payload # NoPayload
    BY DEF CatalogInv, HeadsExist
  <1>6. \A p \in Payloads : p \in ToPurge(action, ms) <=> action = "erase" /\ p[2] \in ms /\ stages[p] # "absent"
    BY DEF ToPurge
  <1>7. \A p \in Payloads : p \in ToRetire(action, key, ms) =>
          action = "erase" /\ p[2] \in ms /\ stages[p] = "published" /\ memories[p[2]].payload = p
    BY <1>3, <1>4 DEF ToRetire, Replaced
  <1>8. \A v \in versions' :
          \/ v \in versions /\ (action = "erase" => v[1] \notin ms)
          \/ action # "erase" /\ v[1] \in ms /\ v[3] = memories[v[1]].payload
    BY DEF Change
  <1>9. StagesPlanned' /\ CollectedExpired'
    BY DEF CatalogInv, StagesPlanned, CollectedExpired
  <1>10. HeadsExist'
    <2> SUFFICES ASSUME NEW m \in Memories
                 PROVE  /\ memories'[m].payload # NoPayload <=> memories'[m].revision > 0 /\ ~ memories'[m].erased
                        /\ memories'[m].deleted \/ memories'[m].erased => memories'[m].revision > 0
      BY DEF HeadsExist
    <2>1. CASE m \in ms
      <3>1. memories[m].revision + 1 > 0
        BY DEF CatalogInv, CatalogTypeOK, Memory
      <3> QED  BY <2>1, <3>1, <1>2, <1>3, <1>5
    <2>2. CASE m \notin ms
      BY <2>2, <1>2 DEF CatalogInv, HeadsExist
    <2> QED  BY <2>1, <2>2
  <1>11. PurgeExplained'
    <2> SUFFICES ASSUME NEW p \in Payloads, Queued("purges", p)'
                 PROVE  memories'[p[2]].erased \/ p[1] \in expired \ published
      BY DEF PurgeExplained
    <2>1. p[2] \in Memories
      BY PayloadShape
    <2>2. CASE p \in ToPurge(action, ms)
      BY <2>2, <1>2, <1>6
    <2>3. CASE Queued("purges", p)
      BY <2>1, <2>3, <1>2 DEF CatalogInv, PurgeExplained
    <2> QED  BY <2>2, <2>3, <1>2
  <1>12. RetiredWasPublished'
    BY <1>2, <1>7 DEF CatalogInv, RetiredWasPublished
  <1>13. ReferencesPublished'
    <2>1. ASSUME NEW m \in Memories, memories'[m].payload # NoPayload
          PROVE  memories'[m].payload[2] = m /\ stages[memories'[m].payload] = "published"
      BY <2>1, <1>2, <1>3, <1>4
    <2>2. ASSUME NEW v \in versions'
          PROVE  v[3][2] = v[1] /\ stages[v[3]] = "published"
      BY <2>2, <1>8, <1>4, <1>5 DEF CatalogInv, ReferencesPublished
    <2> QED  BY <2>1, <2>2 DEF ReferencesPublished
  <1>14. \A p \in Payloads :
           /\ IsHead(p)' => IsHead(p) /\ ~ (action = "erase" /\ p[2] \in ms)
           /\ InHistory(p)' => InHistory(p) \/ IsHead(p)
           /\ InHistory(p)' => ~ (action = "erase" /\ p[2] \in ms)
    <2> SUFFICES ASSUME NEW p \in Payloads
                 PROVE  /\ IsHead(p)' => IsHead(p) /\ ~ (action = "erase" /\ p[2] \in ms)
                        /\ InHistory(p)' => InHistory(p) \/ IsHead(p)
                        /\ InHistory(p)' => ~ (action = "erase" /\ p[2] \in ms)
      OBVIOUS
    <2>1. ASSUME NEW m \in Memories, memories'[m].payload = p
          PROVE  memories[m].payload = p /\ p[2] = m /\ ~ (action = "erase" /\ m \in ms)
      BY <2>1, <1>2, <1>3, <1>4, RequestAssumption
    <2>2. ASSUME NEW v \in versions', v[3] = p
          PROVE  /\ v \in versions \/ (v[1] \in Memories /\ memories[v[1]].payload = p)
                 /\ ~ (action = "erase" /\ p[2] \in ms)
      <3>1. CASE v \in versions /\ (action = "erase" => v[1] \notin ms)
        <4>1. v[3][2] = v[1]
          BY <3>1 DEF CatalogInv, ReferencesPublished
        <4> QED  BY <2>2, <3>1, <4>1
      <3>2. CASE action # "erase" /\ v[1] \in ms /\ v[3] = memories[v[1]].payload
        BY <2>2, <3>2
      <3> QED  BY <3>1, <3>2, <1>8
    <2> QED  BY <2>1, <2>2 DEF IsHead, InHistory
  <1>15. QueuedIsUnreferenced'
    <2> SUFFICES ASSUME NEW p \in Payloads, NEW queue \in Queues, Queued(queue, p)'
                 PROVE  ~ IsHead(p)' /\ (queue = "purges" => ~ InHistory(p)')
      BY DEF QueuedIsUnreferenced, Unreferenced
    <2>1. CASE Queued(queue, p)
      BY <2>1, <1>14 DEF CatalogInv, QueuedIsUnreferenced, Unreferenced
    <2>2. CASE ~ Queued(queue, p)
      <3>1. action = "erase" /\ p[2] \in ms
        BY <2>2, <1>2, <1>6, <1>7 DEF Queues
      <3> QED  BY <3>1, <1>14
    <2> QED  BY <2>1, <2>2
  <1>16. ErasedIsQueued'
    <2> SUFFICES ASSUME NEW m \in Memories, memories'[m].erased
                 PROVE  /\ memories'[m].payload = NoPayload
                        /\ \A v \in versions' : v[1] # m
                        /\ \A p \in Payloads : p[2] = m /\ stages[p] = "published" => Queued("purges", p)'
      BY DEF ErasedIsQueued
    <2>1. CASE m \in ms
      BY <2>1, <1>2, <1>3, <1>6, <1>8
    <2>2. CASE m \notin ms
      BY <2>2, <1>2, <1>8 DEF CatalogInv, ErasedIsQueued
    <2> QED  BY <2>1, <2>2
  <1> QED
    BY <1>9, <1>10, <1>11, <1>12, <1>13, <1>15, <1>16

LEMMA QuietCommitKeeps ==
  ASSUME CatalogInv, NEW request \in Requests, request.action \notin Prepared, Commit(request)
  PROVE  CatalogInv'
  <1>1. /\ request.key \in Keys
        /\ request.memories \subseteq Memories
        /\ request.action \in {"delete", "restore", "erase"}
        /\ request # NoRequest
    BY RequestShape DEF Actions, Prepared
  <1>2. \A m \in request.memories : memories[m].revision > 0 /\ ~ memories[m].erased
    BY <1>1, RequestAssumption DEF Commit, Admissible, RevisionMatches
  <1>3. /\ Change(request.action, request.key, request.memories)
        /\ UNCHANGED <<intents, expired, published, collected, stages, held>>
        /\ receipts' = [receipts EXCEPT ![request.key] = request]
        /\ receipts[request.key] = NoRequest
    BY DEF Commit, Admissible
  <1>4. /\ StagesPlanned' /\ HeadsExist' /\ PurgeExplained' /\ RetiredWasPublished' /\ CollectedExpired'
        /\ ReferencesPublished' /\ QueuedIsUnreferenced' /\ ErasedIsQueued'
    BY <1>1, <1>2, <1>3, QuietChangeKeeps
  <1>5. CatalogTypeOK'
    <2>1. /\ memories' \in [Memories -> Memory]
          /\ versions' \subseteq Memories \X Nat \X Payloads
          /\ lapsed' \subseteq Memories
          /\ queues' \in [Queues -> [Payloads -> Row]]
      BY <1>1, <1>2, <1>3, ChangeType DEF CatalogInv, Actions
    <2> QED  BY <1>1, <1>3, <2>1 DEF CatalogInv, CatalogTypeOK
  <1>6. PublicationComplete'
    <2>1. request.key \notin published
      BY <1>1, <1>3 DEF CatalogInv, PublicationComplete
    <2>2. \A k \in Keys : receipts'[k] = IF k = request.key THEN request ELSE receipts[k]
      BY <1>3 DEF CatalogInv, CatalogTypeOK
    <2> SUFFICES ASSUME NEW k \in Keys
                 PROVE  /\ k \in published => receipts'[k] = intents[k] /\ intents[k] # NoRequest
                        /\ receipts'[k] # NoRequest /\ receipts'[k].action \in Prepared => k \in published
                        /\ \A p \in Payloads : p[1] = k /\ stages[p] # "absent" =>
                             /\ k \in published => stages[p] \in {"published", "purge_pending", "purged"}
                             /\ k \notin published => stages[p] # "published"
                             /\ k \in collected => stages[p] \in {"purge_pending", "purged"}
      BY <1>3 DEF PublicationComplete, StagesOf
    <2> QED  BY <2>1, <2>2 DEF CatalogInv, PublicationComplete, StagesOf
  <1> QED
    BY <1>4, <1>5, <1>6 DEF CatalogInv

LEMMA PreparedCommitKeeps ==
  ASSUME CatalogInv, NEW request \in Requests, request.action \in Prepared, Commit(request)
  PROVE  CatalogInv'
  <1> DEFINE k == request.key
             ms == request.memories
             items == ItemsOf(request)
  <1>1. /\ k \in Keys
        /\ ms \subseteq Memories
        /\ request.action \in Actions
        /\ request.action \in {"create", "update"}
        /\ request # NoRequest
        /\ items \subseteq Payloads
    BY RequestShape DEF Prepared
  <1>2. \A p \in Payloads : p \in items <=> p[1] = k /\ p[2] \in ms
    BY ItemShape
  <1>3. /\ intents[k] = request
        /\ k \notin expired
        /\ k \notin published
        /\ \A p \in items : stages[p] = "ready"
    BY DEF Commit, Admissible, PreparationComplete
  <1>4. /\ Change(request.action, k, ms)
        /\ receipts' = [receipts EXCEPT ![k] = request]
        /\ published' = published \cup {k}
        /\ held' = held - Cardinality(items)
        /\ UNCHANGED <<intents, expired, collected>>
    BY DEF Commit
  <1>5. \A p \in Payloads : stages'[p] = IF p \in items THEN "published" ELSE stages[p]
    BY <1>3 DEF Commit
  <1>6. \A m \in ms : ~ memories[m].erased
    <2>1. \A m \in ms : request.action = "create" => memories[m].revision = 0
      BY DEF Commit, Admissible, RevisionMatches
    <2>2. \A m \in ms : request.action # "create" => ~ memories[m].erased
      BY DEF Commit, Admissible, RevisionMatches
    <2> QED  BY <1>1, <2>1, <2>2 DEF CatalogInv, HeadsExist, CatalogTypeOK, Memory
  <1>7. /\ \A m \in Memories \ ms : memories'[m] = memories[m]
        /\ \A m \in ms : /\ memories'[m].payload = After(request.action, k, m).payload
                         /\ memories'[m].revision = memories[m].revision + 1
                         /\ memories'[m].erased <=> request.action = "erase"
                         /\ memories'[m].deleted <=> request.action \in {"delete", "erase"}
        /\ \A p \in Payloads : Queued("purges", p)' <=> Queued("purges", p) \/ p \in ToPurge(request.action, ms)
        /\ \A p \in Payloads :
             Queued("retirements", p)' <=> Queued("retirements", p) \/ p \in ToRetire(request.action, k, ms)
    BY <1>1, <1>4, ChangedRows
  <1>8. \A m \in ms : <<k, m>> \in items /\ memories'[m].payload = <<k, m>>
    BY <1>7 DEF After, ItemsOf
  <1>9. \A m \in Memories : memories[m].payload # NoPayload =>
          /\ memories[m].payload \in Payloads
          /\ memories[m].payload[2] = m
          /\ stages[memories[m].payload] = "published"
    BY DEF CatalogInv, CatalogTypeOK, Memory, ReferencesPublished
  <1>10. \A p \in Payloads : p \notin ToPurge(request.action, ms)
    BY <1>1 DEF ToPurge
  <1>11. \A p \in Payloads : p \in ToRetire(request.action, k, ms) =>
           p[2] \in ms /\ stages[p] = "published" /\ memories[p[2]].payload = p
    BY <1>1, <1>9 DEF ToRetire, Replaced
  <1>12. \A v \in versions' :
           \/ v \in versions
           \/ v[1] \in ms /\ v[3] = memories[v[1]].payload /\ memories[v[1]].revision > 0
    BY <1>1, <1>4 DEF Change
  <1>13. NoPayload \notin Payloads
    BY RequestAssumption
  <1>14. CatalogTypeOK'
    <2>1. /\ memories' \in [Memories -> Memory]
          /\ versions' \subseteq Memories \X Nat \X Payloads
          /\ lapsed' \subseteq Memories
          /\ queues' \in [Queues -> [Payloads -> Row]]
      BY <1>1, <1>4, <1>6, ChangeType DEF CatalogInv
    <2>2. held' \in Int
      BY <1>4, ItemsFinite, FS_CardinalityType DEF CatalogInv, CatalogTypeOK
    <2>3. stages' \in [Payloads -> StageStates]
      BY DEF Commit, CatalogInv, CatalogTypeOK, StageStates
    <2> QED  BY <1>1, <1>4, <2>1, <2>2, <2>3 DEF CatalogInv, CatalogTypeOK
  <1>15. StagesPlanned'
    <2>1. \A p \in Payloads : stages'[p] = "absent" <=> stages[p] = "absent"
      BY <1>3, <1>5
    <2>2. \A j \in Keys : intents[j] # NoRequest => ItemsOf(intents[j]) \subseteq Payloads
      BY RequestShape DEF CatalogInv, CatalogTypeOK
    <2> QED  BY <1>4, <2>1, <2>2 DEF CatalogInv, StagesPlanned, ItemsOf
  <1>16. HeadsExist'
    <2> SUFFICES ASSUME NEW m \in Memories
                 PROVE  /\ memories'[m].payload # NoPayload <=> memories'[m].revision > 0 /\ ~ memories'[m].erased
                        /\ memories'[m].deleted \/ memories'[m].erased => memories'[m].revision > 0
      BY DEF HeadsExist
    <2>1. CASE m \in ms
      <3>1. memories[m].revision + 1 > 0
        BY DEF CatalogInv, CatalogTypeOK, Memory
      <3>2. memories'[m].payload \in Payloads
        BY <2>1, <1>1, <1>8
      <3> QED  BY <2>1, <3>1, <3>2, <1>1, <1>7, <1>13
    <2>2. CASE m \notin ms
      BY <2>2, <1>7 DEF CatalogInv, HeadsExist
    <2> QED  BY <2>1, <2>2
  <1>17. PurgeExplained'
    <2> SUFFICES ASSUME NEW p \in Payloads, Queued("purges", p)
                 PROVE  memories'[p[2]].erased \/ p[1] \in expired \ (published \cup {k})
      BY <1>4, <1>7, <1>10 DEF PurgeExplained
    <2> QED  BY PayloadShape, <1>3, <1>6, <1>7 DEF CatalogInv, PurgeExplained
  <1>18. RetiredWasPublished'
    BY <1>5, <1>7, <1>11 DEF CatalogInv, RetiredWasPublished
  <1>19. CollectedExpired'
    BY <1>4 DEF CatalogInv, CollectedExpired
  <1>20. ReferencesPublished'
    <2>1. ASSUME NEW m \in Memories, memories'[m].payload # NoPayload
          PROVE  memories'[m].payload[2] = m /\ stages'[memories'[m].payload] = "published"
      <3>1. CASE m \in ms
        <4>1. memories'[m].payload = <<k, m>> /\ <<k, m>> \in items
          BY <3>1, <1>8
        <4>2. stages'[<<k, m>>] = "published"
          BY <4>1, <1>1, <1>5
        <4> QED  BY <4>1, <4>2
      <3>2. CASE m \notin ms
        BY <2>1, <3>2, <1>5, <1>7, <1>9
      <3> QED  BY <3>1, <3>2
    <2>2. ASSUME NEW v \in versions'
          PROVE  v[3][2] = v[1] /\ stages'[v[3]] = "published"
      <3>1. CASE v \in versions
        <4>1. v[3] \in Payloads /\ v[3][2] = v[1] /\ stages[v[3]] = "published"
          BY <3>1 DEF CatalogInv, CatalogTypeOK, ReferencesPublished
        <4> QED  BY <4>1, <1>5
      <3>2. CASE v[1] \in ms /\ v[3] = memories[v[1]].payload /\ memories[v[1]].revision > 0
        <4>1. memories[v[1]].payload # NoPayload
          BY <3>2, <1>1, <1>6 DEF CatalogInv, HeadsExist
        <4> QED  BY <4>1, <3>2, <1>1, <1>5, <1>9
      <3> QED  BY <3>1, <3>2, <1>12
    <2> QED  BY <2>1, <2>2 DEF ReferencesPublished
  <1>21. \A p \in Payloads :
           /\ IsHead(p)' => p \in items \/ (IsHead(p) /\ p[2] \notin ms)
           /\ InHistory(p)' => InHistory(p) \/ IsHead(p)
    <2> SUFFICES ASSUME NEW p \in Payloads
                 PROVE  /\ IsHead(p)' => p \in items \/ (IsHead(p) /\ p[2] \notin ms)
                        /\ InHistory(p)' => InHistory(p) \/ IsHead(p)
      OBVIOUS
    <2>1. ASSUME NEW m \in Memories, memories'[m].payload = p
          PROVE  p \in items \/ (memories[m].payload = p /\ p[2] \notin ms)
      <3>1. CASE m \in ms
        BY <2>1, <3>1, <1>8
      <3>2. CASE m \notin ms
        <4>1. memories[m].payload = p
          BY <2>1, <3>2, <1>7
        <4> QED  BY <4>1, <3>2, <1>9, <1>13
      <3> QED  BY <3>1, <3>2
    <2>2. ASSUME NEW v \in versions', v[3] = p
          PROVE  v \in versions \/ (v[1] \in Memories /\ memories[v[1]].payload = p)
      BY <2>2, <1>1, <1>12
    <2> QED  BY <2>1, <2>2 DEF IsHead, InHistory
  <1>22. QueuedIsUnreferenced'
    <2>1. ASSUME NEW p \in Payloads, Queued("purges", p)'
          PROVE  ~ IsHead(p)' /\ ~ InHistory(p)'
      <3>1. Queued("purges", p)
        BY <2>1, <1>7, <1>10
      <3>2. ~ IsHead(p) /\ ~ InHistory(p)
        BY <3>1 DEF CatalogInv, QueuedIsUnreferenced, Unreferenced, Queues
      <3>3. p \notin items
        BY <3>1, <1>2, <1>3, <1>6 DEF CatalogInv, PurgeExplained
      <3> QED  BY <3>2, <3>3, <1>21
    <2>2. ASSUME NEW p \in Payloads, Queued("retirements", p)'
          PROVE  ~ IsHead(p)'
      <3>1. CASE Queued("retirements", p)
        <4>1. ~ IsHead(p)
          BY <3>1 DEF CatalogInv, QueuedIsUnreferenced, Unreferenced, Queues
        <4>2. p \notin items
          BY <3>1, <1>3 DEF CatalogInv, RetiredWasPublished
        <4> QED  BY <4>1, <4>2, <1>21
      <3>2. CASE p \in ToRetire(request.action, k, ms)
        BY <3>2, <1>3, <1>11, <1>21
      <3> QED  BY <2>2, <3>1, <3>2, <1>7
    <2> QED  BY <2>1, <2>2 DEF QueuedIsUnreferenced, Unreferenced, Queues
  <1>23. PublicationComplete'
    <2> SUFFICES ASSUME NEW j \in Keys
                 PROVE  /\ j \in published' => receipts'[j] = intents[j] /\ intents[j] # NoRequest
                        /\ receipts'[j] # NoRequest /\ receipts'[j].action \in Prepared => j \in published'
                        /\ \A p \in Payloads : p[1] = j /\ stages'[p] # "absent" =>
                             /\ j \in published' => stages'[p] \in {"published", "purge_pending", "purged"}
                             /\ j \notin published' => stages'[p] # "published"
                             /\ j \in collected => stages'[p] \in {"purge_pending", "purged"}
      BY <1>4 DEF PublicationComplete, StagesOf
    <2>1. CASE j = k
      <3>1. \A p \in Payloads : p[1] = k /\ stages[p] # "absent" => p \in items
        BY <1>3 DEF CatalogInv, StagesPlanned
      <3>2. k \notin collected
        BY <1>3 DEF CatalogInv, CollectedExpired
      <3>3. \A p \in Payloads : p[1] = k /\ stages'[p] # "absent" => stages'[p] = "published"
        BY <3>1, <1>5
      <3> QED  BY <2>1, <3>2, <3>3, <1>1, <1>3, <1>4 DEF CatalogInv, CatalogTypeOK
    <2>2. CASE j # k
      <3>1. receipts'[j] = receipts[j] /\ (j \in published' <=> j \in published)
        BY <2>2, <1>4 DEF CatalogInv, CatalogTypeOK
      <3>2. \A p \in Payloads : p[1] = j => stages'[p] = stages[p]
        BY <2>2, <1>2, <1>5
      <3> QED  BY <3>1, <3>2 DEF CatalogInv, PublicationComplete, StagesOf
    <2> QED  BY <2>1, <2>2
  <1>24. ErasedIsQueued'
    <2> SUFFICES ASSUME NEW m \in Memories, memories'[m].erased
                 PROVE  /\ memories'[m].payload = NoPayload
                        /\ \A v \in versions' : v[1] # m
                        /\ \A p \in Payloads : p[2] = m /\ stages'[p] = "published" => Queued("purges", p)'
      BY DEF ErasedIsQueued
    <2>1. m \notin ms
      BY <1>1, <1>7
    <2>2. memories'[m] = memories[m]
      BY <2>1, <1>7
    <2>3. \A p \in Payloads : p[2] = m => stages'[p] = stages[p]
      BY <2>1, <1>2, <1>5
    <2> QED  BY <2>1, <2>2, <2>3, <1>7, <1>12 DEF CatalogInv, ErasedIsQueued
  <1> QED
    BY <1>14, <1>15, <1>16, <1>17, <1>18, <1>19, <1>20, <1>22, <1>23, <1>24 DEF CatalogInv

LEMMA AutoEraseKeeps ==
  ASSUME CatalogInv, NEW m \in Memories, AutoErase(m)
  PROVE  CatalogInv'
  <1>1. /\ Change("erase", NoRequest, {m})
        /\ UNCHANGED <<intents, expired, published, collected, stages, receipts, held>>
        /\ memories[m].revision > 0
        /\ ~ memories[m].erased
    BY DEF AutoErase, CatalogInv, HeadsExist
  <1>2. /\ StagesPlanned' /\ HeadsExist' /\ PurgeExplained' /\ RetiredWasPublished' /\ CollectedExpired'
        /\ ReferencesPublished' /\ QueuedIsUnreferenced' /\ ErasedIsQueued'
    BY <1>1, QuietChangeKeeps
  <1>3. CatalogTypeOK'
    <2>1. "erase" \in Actions /\ "erase" \notin Prepared
      BY DEF Actions, Prepared
    <2>2. /\ memories' \in [Memories -> Memory]
          /\ versions' \subseteq Memories \X Nat \X Payloads
          /\ lapsed' \subseteq Memories
          /\ queues' \in [Queues -> [Payloads -> Row]]
      BY <1>1, <2>1, ChangeType DEF CatalogInv
    <2> QED  BY <1>1, <2>2 DEF CatalogInv, CatalogTypeOK
  <1>4. PublicationComplete'
    BY <1>1 DEF CatalogInv, PublicationComplete, StagesOf
  <1> QED
    BY <1>2, <1>3, <1>4 DEF CatalogInv

------------------------------------------------------------------------------
(* Clean-up and time leave the memories alone: what their steps have in common. *)
LEMMA StagesMoveOn ==
  ASSUME CatalogInv,
         UNCHANGED <<intents, published, receipts, memories, versions, lapsed>>,
         stages' \in [Payloads -> StageStates],
         queues' \in [Queues -> [Payloads -> Row]],
         held' \in Int, expired' \subseteq Keys, collected' \subseteq Keys, expired \subseteq expired',
         \A p \in Payloads : stages'[p] = stages[p]
           \/ /\ stages[p] # "absent"
              /\ stages'[p] \in {"purge_pending", "purged"}
              /\ ~ IsHead(p) /\ ~ InHistory(p),
         \A p \in Payloads : Queued("purges", p)' =>
           \/ Queued("purges", p)
           \/ ~ IsHead(p) /\ ~ InHistory(p) /\ p[1] \in expired \ published,
         \A p \in Payloads : Queued("purges", p) => Queued("purges", p)',
         \A p \in Payloads : Queued("retirements", p)' <=> Queued("retirements", p),
         \A k \in collected' : \/ k \in collected
                               \/ /\ k \in expired /\ intents[k] # NoRequest
                                  /\ \A p \in StagesOf(k) : stages'[p] \in {"purge_pending", "purged"}
  PROVE  CatalogInv'
  <1>1. CatalogTypeOK'
    BY DEF CatalogInv, CatalogTypeOK
  <1>2. \A p \in Payloads : stages'[p] = "absent" <=> stages[p] = "absent"
    OBVIOUS
  <1>3. \A p \in Payloads : stages'[p] = "published" <=> stages[p] = "published" /\ stages'[p] = stages[p]
    OBVIOUS
  <1>4. StagesPlanned'
    <2>1. \A j \in Keys : intents[j] # NoRequest => ItemsOf(intents[j]) \subseteq Payloads
      BY RequestShape DEF CatalogInv, CatalogTypeOK
    <2> QED  BY <1>2, <2>1 DEF CatalogInv, StagesPlanned, ItemsOf
  <1>5. HeadsExist'
    BY DEF CatalogInv, HeadsExist
  <1>6. PurgeExplained'
    BY DEF CatalogInv, PurgeExplained
  <1>7. RetiredWasPublished'
    BY DEF CatalogInv, RetiredWasPublished
  <1>8. CollectedExpired'
    BY DEF CatalogInv, CollectedExpired
  <1>9. ReferencesPublished'
    <2>1. ASSUME NEW m \in Memories, memories[m].payload # NoPayload
          PROVE  memories[m].payload[2] = m /\ stages'[memories[m].payload] = "published"
      <3>1. memories[m].payload \in Payloads /\ IsHead(memories[m].payload)
        BY <2>1 DEF CatalogInv, CatalogTypeOK, Memory, IsHead
      <3> QED  BY <2>1, <3>1 DEF CatalogInv, ReferencesPublished
    <2>2. ASSUME NEW v \in versions
          PROVE  v[3][2] = v[1] /\ stages'[v[3]] = "published"
      <3>1. v[3] \in Payloads /\ InHistory(v[3])
        BY DEF CatalogInv, CatalogTypeOK, InHistory
      <3> QED  BY <3>1 DEF CatalogInv, ReferencesPublished
    <2> QED  BY <2>1, <2>2 DEF ReferencesPublished
  <1>10. QueuedIsUnreferenced'
    BY ReferencesUntouched DEF CatalogInv, QueuedIsUnreferenced, Unreferenced, Queues
  <1>11. PublicationComplete'
    <2> SUFFICES ASSUME NEW k \in Keys
                 PROVE  /\ k \in published => receipts[k] = intents[k] /\ intents[k] # NoRequest
                        /\ receipts[k] # NoRequest /\ receipts[k].action \in Prepared => k \in published
                        /\ \A p \in Payloads : p[1] = k /\ stages'[p] # "absent" =>
                             /\ k \in published => stages'[p] \in {"published", "purge_pending", "purged"}
                             /\ k \notin published => stages'[p] # "published"
                             /\ k \in collected' => stages'[p] \in {"purge_pending", "purged"}
      BY DEF PublicationComplete, StagesOf
    <2> QED  BY <1>2 DEF CatalogInv, PublicationComplete, StagesOf
  <1>12. ErasedIsQueued'
    BY <1>3 DEF CatalogInv, ErasedIsQueued
  <1> QED
    BY <1>1, <1>4, <1>5, <1>6, <1>7, <1>8, <1>9, <1>10, <1>11, <1>12 DEF CatalogInv

LEMMA CollectKeeps ==
  ASSUME CatalogInv, NEW keys \in SUBSET Keys, Collect(keys)
  PROVE  CatalogInv'
  <1> DEFINE queue == Enqueued(queues["purges"], Garbage(keys))
  <1>1. /\ UNCHANGED <<intents, expired, published, receipts, memories, versions, lapsed, held>>
        /\ queues' = [queues EXCEPT !["purges"] = queue]
        /\ \A k \in keys : intents[k] # NoRequest /\ k \in expired /\ k \notin published
    BY DEF Collect, Collectable
  <1>2. queue \in [Payloads -> Row]
    BY EnqueuedType DEF CatalogInv, CatalogTypeOK, Queues
  <1>3. queues' \in [Queues -> [Payloads -> Row]]
    BY <1>1, <1>2 DEF CatalogInv, CatalogTypeOK, Queues
  <1>4. \A p \in Payloads :
          /\ Queued("retirements", p)' <=> Queued("retirements", p)
          /\ Queued("purges", p)' <=> queue[p].state # "absent"
    BY <1>1 DEF Queued, CatalogInv, CatalogTypeOK, Queues
  <1>5. \A p \in Payloads : queue[p].state # "absent" <=> Queued("purges", p) \/ p \in Garbage(keys)
    BY DEF Enqueued, NewRow, Queued
  <1>6. \A p \in Payloads : p \in Garbage(keys) =>
          ~ IsHead(p) /\ ~ InHistory(p) /\ p[1] \in expired \ published
    BY <1>1 DEF Garbage, Unreferenced
  <1>7. \A p \in Payloads : stages'[p] =
          IF p[1] \in keys /\ stages[p] \in {"staging", "ready"} /\ queue[p].state # "absent"
          THEN "purge_pending" ELSE stages[p]
    BY DEF Collect
  <1>8. stages' \in [Payloads -> StageStates]
    BY DEF Collect, CatalogInv, CatalogTypeOK, StageStates
  <1>9. collected' = collected \cup
          {k \in keys : \A p \in StagesOf(k) :
             stages'[p] \in {"purge_pending", "purged"} /\ queue[p].state # "absent"}
    BY DEF Collect
  <1>10. \A p \in Payloads : Queued("purges", p) => ~ IsHead(p) /\ ~ InHistory(p)
    BY DEF CatalogInv, QueuedIsUnreferenced, Unreferenced, Queues
  <1>11. collected' \subseteq Keys /\ held' \in Int /\ expired' \subseteq Keys
    BY <1>1, <1>9 DEF CatalogInv, CatalogTypeOK
  <1> HIDE DEF queue
  <1>12. \A p \in Payloads : stages'[p] = stages[p]
           \/ /\ stages[p] # "absent"
              /\ stages'[p] \in {"purge_pending", "purged"}
              /\ ~ IsHead(p) /\ ~ InHistory(p)
    BY <1>5, <1>6, <1>7, <1>10
  <1> QED
    BY <1>1, <1>3, <1>4, <1>5, <1>6, <1>8, <1>9, <1>11, <1>12, StagesMoveOn

(* A row of a queue that changes, but stays a row. *)
LEMMA RowChanges ==
  ASSUME CatalogInv, NEW queue \in Queues, NEW p \in Payloads, NEW row \in Row,
         row.state # "absent", Queued(queue, p),
         queues' = [queues EXCEPT ![queue][p] = row]
  PROVE  /\ queues' \in [Queues -> [Payloads -> Row]]
         /\ \A q \in Queues, o \in Payloads : Queued(q, o)' <=> Queued(q, o)
  <1>1. \A q \in Queues, o \in Payloads :
          queues'[q][o] = IF q = queue /\ o = p THEN row ELSE queues[q][o]
    BY DEF CatalogInv, CatalogTypeOK
  <1>2. queues' \in [Queues -> [Payloads -> Row]]
    BY DEF CatalogInv, CatalogTypeOK
  <1> QED  BY <1>1, <1>2 DEF Queued

LEMMA ClaimKeeps ==
  ASSUME CatalogInv, NEW queue \in Queues, NEW p \in Payloads, Claim(queue, p)
  PROVE  CatalogInv'
  <1> DEFINE row == [queues[queue][p] EXCEPT !.due = FALSE, !.attempts = @ + 1]
  <1>1. queues[queue][p] \in Row /\ queues[queue][p].attempts < MaxAttempts
    BY DEF Claim, CatalogInv, CatalogTypeOK
  <1>2. row \in Row /\ row.state = "open" /\ Queued(queue, p)
    <2> DEFINE old == queues[queue][p]
    <2>1. old.state = "open" /\ old.attempts \in 0 .. MaxAttempts
      BY <1>1 DEF Row, Claim, Claimable
    <2>2. old.attempts + 1 \in 0 .. MaxAttempts
      BY <1>1, <2>1, LimitAssumption
    <2>3. [old EXCEPT !.due = FALSE] \in Row /\ [old EXCEPT !.due = FALSE].state = "open"
      BY <1>1, <2>1 DEF Row
    <2>4. row \in Row /\ row.state = "open"
      <3>1. row = [[old EXCEPT !.due = FALSE] EXCEPT !.attempts = old.attempts + 1]
        BY <1>1 DEF Row
      <3> HIDE DEF row
      <3> QED  BY <2>2, <2>3, <3>1 DEF Row
    <2> HIDE DEF old, row
    <2>5. Queued(queue, p)
      BY <2>1 DEF Queued, old
    <2> QED  BY <2>4, <2>5
  <1>3. queues' = [queues EXCEPT ![queue][p] = row]
    BY DEF Claim, CatalogInv, CatalogTypeOK
  <1> HIDE DEF row
  <1>4. /\ queues' \in [Queues -> [Payloads -> Row]]
        /\ \A q \in Queues, o \in Payloads : Queued(q, o)' <=> Queued(q, o)
    BY <1>2, <1>3, RowChanges
  <1>5. \A o \in Payloads : stages'[o] = stages[o]
          \/ /\ o = p /\ queue = "purges"
             /\ stages[o] # "absent"
             /\ stages'[o] \in {"purge_pending", "purged"}
    BY DEF Claim, Claimable, CatalogInv, CatalogTypeOK
  <1>6. queue = "purges" => ~ IsHead(p) /\ ~ InHistory(p)
    BY DEF Claim, Claimable, Unreferenced
  <1>7. stages' \in [Payloads -> StageStates]
    BY DEF Claim, CatalogInv, CatalogTypeOK, StageStates
  <1>8. /\ UNCHANGED <<intents, expired, published, collected, receipts, memories, versions, lapsed, held>>
        /\ held' \in Int /\ expired' \subseteq Keys /\ collected' \subseteq Keys
    BY DEF Claim, CatalogInv, CatalogTypeOK
  <1> QED
    BY <1>4, <1>5, <1>6, <1>7, <1>8, StagesMoveOn DEF Queues

LEMMA AcknowledgeKeeps ==
  ASSUME CatalogInv, NEW queue \in Queues, NEW p \in Payloads, NEW attempt, Acknowledge(queue, p, attempt)
  PROVE  CatalogInv'
  <1> DEFINE row == [queues[queue][p] EXCEPT !.state = "done"]
  <1>1. queues[queue][p] \in Row
    BY DEF CatalogInv, CatalogTypeOK
  <1>2. row \in Row /\ row.state = "done" /\ Queued(queue, p)
    BY <1>1 DEF Row, Acknowledge, Queued
  <1>3. queues' = [queues EXCEPT ![queue][p] = row]
    BY DEF Acknowledge, CatalogInv, CatalogTypeOK
  <1> HIDE DEF row
  <1>4. /\ queues' \in [Queues -> [Payloads -> Row]]
        /\ \A q \in Queues, o \in Payloads : Queued(q, o)' <=> Queued(q, o)
    BY <1>2, <1>3, RowChanges
  <1>5. \A o \in Payloads : stages'[o] = stages[o]
          \/ /\ o = p /\ queue = "purges"
             /\ stages[o] # "absent"
             /\ stages'[o] \in {"purge_pending", "purged"}
    BY DEF Acknowledge, CatalogInv, CatalogTypeOK
  <1>6. queue = "purges" => ~ IsHead(p) /\ ~ InHistory(p)
    BY DEF Acknowledge, Unreferenced
  <1>7. stages' \in [Payloads -> StageStates]
    BY DEF Acknowledge, CatalogInv, CatalogTypeOK, StageStates
  <1>8. held' \in Int
    <2>1. ASSUME NEW k \in Keys, intents[k] # NoRequest
          PROVE  Cardinality(StagesOf(k)) \in Int
      <3>1. intents[k] \in Requests
        BY <2>1 DEF CatalogInv, CatalogTypeOK
      <3>2. StagesOf(k) \subseteq ItemsOf(intents[k])
        BY <2>1 DEF StagesOf, CatalogInv, StagesPlanned
      <3>3. IsFiniteSet(StagesOf(k))
        BY <3>1, <3>2, ItemsFinite, FS_Subset
      <3> QED  BY <3>3, FS_CardinalityType
    <2>2. stages[p] = "purge_pending" => intents[p[1]] # NoRequest /\ p[1] \in Keys
      BY PayloadShape DEF CatalogInv, StagesPlanned
    <2>3. stages[p] = "purge_pending" => Returned(p) \in Int
      BY <2>1, <2>2 DEF Returned
    <2> QED  BY <2>3 DEF Acknowledge, CatalogInv, CatalogTypeOK
  <1>9. /\ UNCHANGED <<intents, expired, published, collected, receipts, memories, versions, lapsed>>
        /\ expired' \subseteq Keys /\ collected' \subseteq Keys
    BY DEF Acknowledge, CatalogInv, CatalogTypeOK
  <1> QED
    BY <1>4, <1>5, <1>6, <1>7, <1>8, <1>9, StagesMoveOn DEF Queues

LEMMA DueKeeps ==
  ASSUME CatalogInv, NEW queue \in Queues, NEW p \in Payloads, Due(queue, p)
  PROVE  CatalogInv'
  <1> DEFINE row == [queues[queue][p] EXCEPT !.due = TRUE]
  <1>1. queues[queue][p] \in Row
    BY DEF CatalogInv, CatalogTypeOK
  <1>2. row \in Row /\ row.state = "open" /\ Queued(queue, p)
    BY <1>1 DEF Row, Due, Queued
  <1>3. queues' = [queues EXCEPT ![queue][p] = row]
    BY DEF Due, CatalogInv, CatalogTypeOK
  <1> HIDE DEF row
  <1>4. /\ queues' \in [Queues -> [Payloads -> Row]]
        /\ \A q \in Queues, o \in Payloads : Queued(q, o)' <=> Queued(q, o)
    BY <1>2, <1>3, RowChanges
  <1>5. /\ UNCHANGED <<intents, expired, published, collected, receipts, memories, versions, lapsed, held, stages>>
        /\ held' \in Int /\ expired' \subseteq Keys /\ collected' \subseteq Keys
        /\ stages' \in [Payloads -> StageStates]
    BY DEF Due, CatalogInv, CatalogTypeOK
  <1> QED
    BY <1>4, <1>5, StagesMoveOn DEF Queues

LEMMA ExpireKeeps ==
  ASSUME CatalogInv, NEW key \in Keys, Expire(key)
  PROVE  CatalogInv'
  <1>1. /\ UNCHANGED <<intents, published, collected, receipts, memories, versions, lapsed, queues, held, stages>>
        /\ expired \subseteq expired' /\ expired' \subseteq Keys /\ collected' \subseteq Keys
        /\ stages' \in [Payloads -> StageStates] /\ held' \in Int
        /\ queues' \in [Queues -> [Payloads -> Row]]
    BY DEF Expire, CatalogInv, CatalogTypeOK
  <1>2. \A q \in Queues, o \in Payloads : Queued(q, o)' <=> Queued(q, o)
    BY <1>1 DEF Queued
  <1> QED
    BY <1>1, <1>2, StagesMoveOn DEF Queues

LEMMA LapseKeeps ==
  ASSUME CatalogInv, NEW m \in Memories, Lapse(m)
  PROVE  CatalogInv'
  <1> USE DEF Lapse, CatalogInv
  <1>1. CatalogTypeOK'
    BY DEF CatalogTypeOK
  <1>2. StagesPlanned' /\ PublicationComplete'
    BY DEF StagesPlanned, PublicationComplete, StagesOf
  <1>3. HeadsExist' /\ PurgeExplained' /\ RetiredWasPublished' /\ CollectedExpired' /\ ErasedIsQueued'
    BY DEF HeadsExist, PurgeExplained, RetiredWasPublished, CollectedExpired, ErasedIsQueued, Queued
  <1>4. ReferencesPublished'
    BY DEF ReferencesPublished
  <1>5. QueuedIsUnreferenced'
    BY ReferencesUntouched DEF QueuedIsUnreferenced, Queued
  <1> QED  BY <1>1, <1>2, <1>3, <1>4, <1>5

------------------------------------------------------------------------------
(* The state the behaviour starts in: committed creations, some deleted. *)
LEMMA SeedShape ==
  /\ SeedItems \subseteq Payloads
  /\ \A p \in SeedItems : \E s \in Seeds : p \in ItemsOf(s) /\ p[1] = s.key
  /\ \A s \in Seeds : s \in Requests /\ s.key \in Keys /\ SeedOf(s.key) = s /\ ItemsOf(s) \subseteq SeedItems
  /\ \A k \in Keys : SeedOf(k) # NoRequest => SeedOf(k) \in Seeds /\ SeedOf(k).key = k
  <1>1. \A s \in Seeds : s \in Requests /\ s.key \in Keys /\ ItemsOf(s) \subseteq Payloads
    BY SeedAssumption, RequestShape
  <1>2. SeedItems \subseteq Payloads /\ \A s \in Seeds : ItemsOf(s) \subseteq SeedItems
    BY <1>1 DEF SeedItems
  <1>3. \A p \in SeedItems : \E s \in Seeds : p \in ItemsOf(s) /\ p[1] = s.key
    BY <1>1 DEF SeedItems, ItemsOf
  <1>4. \A s \in Seeds : SeedOf(s.key) = s
    BY SeedAssumption DEF SeedOf
  <1>5. \A k \in Keys : SeedOf(k) # NoRequest => SeedOf(k) \in Seeds /\ SeedOf(k).key = k
    BY DEF SeedOf
  <1> QED  BY <1>1, <1>2, <1>3, <1>4, <1>5

LEMMA SeedMemoryShape ==
  ASSUME NEW m \in Memories
  PROVE  /\ SeedMemory(m) \in Memory
         /\ ~ SeedMemory(m).erased
         /\ SeedMemory(m).payload # NoPayload <=> SeedMemory(m).revision > 0
         /\ SeedMemory(m).deleted => SeedMemory(m).revision > 0
         /\ SeedMemory(m).payload # NoPayload => SeedMemory(m).payload \in SeedItems /\ SeedMemory(m).payload[2] = m
  <1>1. CASE \E p \in SeedItems : p[2] = m
    <2> DEFINE chosen == CHOOSE p \in SeedItems : p[2] = m
    <2>1. chosen \in SeedItems /\ chosen[2] = m /\ chosen \in Payloads /\ chosen # NoPayload
      BY <1>1, SeedShape, RequestAssumption
    <2>2. SeedMemory(m) = [revision |-> IF m \in Trash THEN 2 ELSE 1, payload |-> chosen,
                           deleted |-> m \in Trash, erased |-> FALSE]
      BY <1>1 DEF SeedMemory
    <2> HIDE DEF chosen
    <2>3. /\ SeedMemory(m).payload = chosen
          /\ SeedMemory(m).revision \in Nat /\ SeedMemory(m).revision > 0
          /\ SeedMemory(m).erased = FALSE
      BY <2>2
    <2>4. SeedMemory(m) \in Memory
      BY <2>1, <2>2 DEF Memory
    <2> QED  BY <2>1, <2>3, <2>4
  <1>2. CASE ~ \E p \in SeedItems : p[2] = m
    BY <1>2 DEF SeedMemory, NoMemory, Memory
  <1> QED  BY <1>1, <1>2

LEMMA CatalogInitKeeps ==
  ASSUME CatalogInit
  PROVE  CatalogInv
  <1>1. \A p \in Payloads : stages[p] = IF p \in SeedItems THEN "published" ELSE "absent"
    BY DEF CatalogInit
  <1>2. \A queue \in Queues, p \in Payloads : ~ Queued(queue, p)
    BY DEF CatalogInit, NoRow, Queued
  <1>3. \A m \in Memories : memories[m] = SeedMemory(m)
    BY DEF CatalogInit
  <1>4. \A k \in Keys : intents[k] = SeedOf(k) /\ receipts[k] = SeedOf(k)
    BY DEF CatalogInit
  <1>5. \A v \in versions : v[3] \in SeedItems /\ v[3][2] = v[1]
    BY DEF CatalogInit
  <1>6. CatalogTypeOK
    <2>1. NoRow \in Row
      BY LimitAssumption DEF NoRow, Row
    <2>2. queues \in [Queues -> [Payloads -> Row]]
      BY <2>1 DEF CatalogInit
    <2>3. memories \in [Memories -> Memory]
      BY SeedMemoryShape DEF CatalogInit
    <2>4. versions \subseteq Memories \X Nat \X Payloads
      BY SeedShape, PayloadShape DEF CatalogInit
    <2>5. intents \in [Keys -> Requests \cup {NoRequest}] /\ receipts \in [Keys -> Requests \cup {NoRequest}]
      BY SeedShape DEF CatalogInit
    <2>6. /\ expired \subseteq Keys /\ published \subseteq Keys /\ collected \subseteq Keys
          /\ stages \in [Payloads -> StageStates] /\ lapsed \subseteq Memories /\ held \in Int
      BY SeedShape DEF CatalogInit, StageStates
    <2> QED  BY <2>2, <2>3, <2>4, <2>5, <2>6 DEF CatalogTypeOK
  <1>7. StagesPlanned
    <2>1. \A k \in Keys : SeedOf(k) # NoRequest => SeedOf(k).action \in Prepared
      BY SeedShape, SeedAssumption DEF Prepared
    <2>2. \A k \in Keys : SeedOf(k) # NoRequest => \A p \in ItemsOf(SeedOf(k)) : stages[p] # "absent"
      BY <1>1, SeedShape
    <2>3. \A p \in Payloads : p \in SeedItems => SeedOf(p[1]) # NoRequest /\ p \in ItemsOf(SeedOf(p[1]))
      BY SeedShape, RequestAssumption
    <2> QED  BY <1>1, <1>4, <2>1, <2>2, <2>3, SeedShape, PayloadShape DEF StagesPlanned
  <1>8. HeadsExist /\ ErasedIsQueued
    BY <1>3, SeedMemoryShape DEF HeadsExist, ErasedIsQueued
  <1>9. PurgeExplained /\ RetiredWasPublished /\ QueuedIsUnreferenced
    BY <1>2 DEF PurgeExplained, RetiredWasPublished, QueuedIsUnreferenced, Queues
  <1>10. CollectedExpired
    BY DEF CatalogInit, CollectedExpired
  <1>11. ReferencesPublished
    BY <1>1, <1>3, <1>5, SeedMemoryShape, SeedShape DEF ReferencesPublished
  <1>12. PublicationComplete
    <2>1. published = {s.key : s \in Seeds} /\ collected = {}
      BY DEF CatalogInit
    <2>2. \A k \in Keys : k \in published <=> SeedOf(k) # NoRequest
      BY <2>1, SeedShape, RequestAssumption
    <2>3. \A p \in Payloads : p \in SeedItems => p[1] \in published
      BY <2>1, SeedShape
    <2> QED  BY <1>1, <1>4, <2>1, <2>2, <2>3 DEF PublicationComplete, StagesOf
  <1> QED
    BY <1>6, <1>7, <1>8, <1>9, <1>10, <1>11, <1>12 DEF CatalogInv

LEMMA CatalogNextKeeps ==
  ASSUME CatalogInv, [CatalogNext]_catalogVars
  PROVE  CatalogInv'
  <1>1. ASSUME NEW request \in Requests, Plan(request) PROVE CatalogInv'
    BY <1>1, PlanKeeps
  <1>2. ASSUME NEW request \in Requests, Commit(request) PROVE CatalogInv'
    BY <1>2, PreparedCommitKeeps, QuietCommitKeeps
  <1>3. ASSUME NEW p \in Payloads, MakeReady(p) PROVE CatalogInv'
    BY <1>3, MakeReadyKeeps
  <1>4. ASSUME NEW m \in Memories, AutoErase(m) PROVE CatalogInv'
    BY <1>4, AutoEraseKeeps
  <1>5. ASSUME NEW keys \in SUBSET Keys, Collect(keys) PROVE CatalogInv'
    BY <1>5, CollectKeeps
  <1>6. ASSUME NEW queue \in Queues, NEW p \in Payloads, Claim(queue, p) PROVE CatalogInv'
    BY <1>6, ClaimKeeps
  <1>7. ASSUME NEW queue \in Queues, NEW p \in Payloads, NEW attempt, Acknowledge(queue, p, attempt) PROVE CatalogInv'
    BY <1>7, AcknowledgeKeeps
  <1>8. ASSUME NEW key \in Keys, Expire(key) PROVE CatalogInv'
    BY <1>8, ExpireKeeps
  <1>9. ASSUME NEW m \in Memories, Lapse(m) PROVE CatalogInv'
    BY <1>9, LapseKeeps
  <1>10. ASSUME NEW queue \in Queues, NEW p \in Payloads, Due(queue, p) PROVE CatalogInv'
    BY <1>10, DueKeeps
  <1>11. CASE UNCHANGED catalogVars
    <2>1. UNCHANGED <<intents, expired, published, collected, stages, receipts, memories, versions, lapsed, queues, held>>
      BY <1>11 DEF catalogVars
    <2>2. \A queue \in Queues, p \in Payloads : Queued(queue, p)' <=> Queued(queue, p)
      BY <2>1 DEF Queued
    <2>3. CatalogTypeOK'
      BY <2>1 DEF CatalogInv, CatalogTypeOK
    <2> QED  BY <2>1, <2>2, <2>3, StagesMoveOn DEF Queues, CatalogTypeOK
  <1> QED
    BY <1>1, <1>2, <1>3, <1>4, <1>5, <1>6, <1>7, <1>8, <1>9, <1>10, <1>11 DEF CatalogNext, Write, Clean, Pass

(* The inductive invariant, and the invariants of the model-checked run it *)
(* contains.                                                               *)
THEOREM CatalogInvariant == CatalogSpec => []CatalogInv
  <1>1. CatalogInit => CatalogInv
    BY CatalogInitKeeps
  <1>2. CatalogInv /\ [CatalogNext]_catalogVars => CatalogInv'
    BY CatalogNextKeeps
  <1> QED  BY <1>1, <1>2, PTL DEF CatalogSpec

(* The tables of the central database stay well typed. *)
THEOREM CatalogTypeCorrect == CatalogSpec => []CatalogTypeOK
  <1>1. CatalogInv => CatalogTypeOK
    BY DEF CatalogInv
  <1> QED  BY <1>1, CatalogInvariant, PTL

(* Everything a memory or its history refers to is published. *)
THEOREM ReferencesAlwaysPublished == CatalogSpec => []ReferencesPublished
  <1>1. CatalogInv => ReferencesPublished
    BY DEF CatalogInv
  <1> QED  BY <1>1, CatalogInvariant, PTL

(* Nothing in a clean-up queue is still referenced. *)
THEOREM QueuedAlwaysUnreferenced == CatalogSpec => []QueuedIsUnreferenced
  <1>1. CatalogInv => QueuedIsUnreferenced
    BY DEF CatalogInv
  <1> QED  BY <1>1, CatalogInvariant, PTL

(* A preparation is published exactly by its own write, and completely. *)
THEOREM PublicationAlwaysComplete == CatalogSpec => []PublicationComplete
  <1>1. CatalogInv => PublicationComplete
    BY DEF CatalogInv
  <1> QED  BY <1>1, CatalogInvariant, PTL

(* A published payload is only purged because its memory was erased. *)
THEOREM AlwaysPurgedByErasure == CatalogSpec => []PurgedByErasure
  <1>1. CatalogInv => PurgedByErasure
    BY DEF CatalogInv, PurgeExplained, PurgedByErasure
  <1> QED  BY <1>1, CatalogInvariant, PTL

(* Every published payload of an erased memory is queued for its purge. *)
THEOREM ErasedAlwaysQueued == CatalogSpec => []ErasedIsQueued
  <1>1. CatalogInv => ErasedIsQueued
    BY DEF CatalogInv
  <1> QED  BY <1>1, CatalogInvariant, PTL

------------------------------------------------------------------------------
(* Nothing is undone: one step at a time. *)
LEMMA Ranks ==
  /\ StageRank["absent"] = 0 /\ StageRank["staging"] = 1 /\ StageRank["ready"] = 2
  /\ StageRank["published"] = 3 /\ StageRank["purge_pending"] = 4 /\ StageRank["purged"] = 5
  /\ \A s \in StageStates : StageRank[s] \in 0 .. 5
  /\ \A s \in StageStates \ {"purged"} : StageRank[s] \in 0 .. 4
  BY DEF StageRank, StageStates

(* An open row changes, a finished one stays. *)
LEMMA OpenRowChanges ==
  ASSUME CatalogInv, NEW queue \in Queues, NEW p \in Payloads, NEW row,
         queues[queue][p].state = "open",
         queues' = [queues EXCEPT ![queue][p] = row],
         UNCHANGED <<receipts, memories>>,
         \A o \in Payloads : StageRank[stages'[o]] >= StageRank[stages[o]]
  PROVE  Forward
  <1>1. \A q \in Queues, o \in Payloads :
          queues'[q][o] = IF q = queue /\ o = p THEN row ELSE queues[q][o]
    BY DEF CatalogInv, CatalogTypeOK
  <1> QED  BY <1>1 DEF Forward

LEMMA StagesKept ==
  ASSUME CatalogInv, stages' = stages
  PROVE  \A o \in Payloads : StageRank[stages'[o]] >= StageRank[stages[o]]
  BY Ranks DEF CatalogInv, CatalogTypeOK

LEMMA ChangeForward ==
  ASSUME CatalogInv, NEW action, NEW key, NEW ms \in SUBSET Memories, Change(action, key, ms),
         \A m \in ms : ~ memories[m].erased,
         \A k \in Keys : receipts[k] # NoRequest => receipts'[k] = receipts[k],
         \A o \in Payloads : StageRank[stages'[o]] >= StageRank[stages[o]]
  PROVE  Forward
  <1>1. \A m \in Memories : memories[m].erased => memories'[m] = memories[m]
    BY DEF Change
  <1>2. \A queue \in Queues, p \in Payloads :
          queues[queue][p].state = "done" => queues'[queue][p] = queues[queue][p]
    <2>1. \A p \in Payloads :
            /\ queues'["purges"][p] = Enqueued(queues["purges"], ToPurge(action, ms))[p]
            /\ queues'["retirements"][p] = Enqueued(queues["retirements"], ToRetire(action, key, ms))[p]
      BY DEF Change, Queues
    <2> QED  BY <2>1 DEF Enqueued, Queues
  <1> QED  BY <1>1, <1>2 DEF Forward

LEMMA CommitForward ==
  ASSUME CatalogInv, NEW request \in Requests, Commit(request)
  PROVE  Forward
  <1>1. /\ request.key \in Keys
        /\ request.memories \in SUBSET Memories
        /\ receipts[request.key] = NoRequest
        /\ Change(request.action, request.key, request.memories)
    BY RequestShape DEF Commit, Admissible
  <1>2. \A m \in request.memories : ~ memories[m].erased
    <2>1. \A m \in Memories : memories[m].erased => memories[m].revision > 0
      BY DEF CatalogInv, HeadsExist
    <2> QED  BY <1>1, <2>1 DEF Commit, Admissible, RevisionMatches
  <1>3. \A k \in Keys : receipts[k] # NoRequest => receipts'[k] = receipts[k]
    BY <1>1 DEF Commit, CatalogInv, CatalogTypeOK
  <1>4. \A o \in Payloads : StageRank[stages'[o]] >= StageRank[stages[o]]
    <2>1. CASE request.action \in Prepared
      BY <2>1, Ranks DEF Commit, CatalogInv, CatalogTypeOK
    <2>2. CASE request.action \notin Prepared
      BY <2>2, StagesKept DEF Commit
    <2> QED  BY <2>1, <2>2
  <1> QED  BY <1>1, <1>2, <1>3, <1>4, ChangeForward

LEMMA CollectForward ==
  ASSUME CatalogInv, NEW keys \in SUBSET Keys, Collect(keys)
  PROVE  Forward
  <1> DEFINE queue == Enqueued(queues["purges"], Garbage(keys))
  <1>1. queues' = [queues EXCEPT !["purges"] = queue] /\ UNCHANGED <<receipts, memories>>
    BY DEF Collect
  <1>2. \A p \in Payloads : queues["purges"][p].state = "done" => queue[p] = queues["purges"][p]
    BY DEF Enqueued
  <1>3. \A p \in Payloads :
          \/ stages'[p] = stages[p]
          \/ stages[p] \in {"staging", "ready"} /\ stages'[p] = "purge_pending"
    BY DEF Collect
  <1>4. \A o \in Payloads : StageRank[stages'[o]] >= StageRank[stages[o]]
    BY <1>3, Ranks DEF CatalogInv, CatalogTypeOK
  <1> HIDE DEF queue
  <1> QED  BY <1>1, <1>2, <1>4 DEF Forward, CatalogInv, CatalogTypeOK, Queues

LEMMA NextForward ==
  ASSUME CatalogInv, [CatalogNext]_catalogVars
  PROVE  Forward
  <1>1. ASSUME NEW request \in Requests, Plan(request) PROVE Forward
    <2>1. intents[request.key] = NoRequest /\ request.key \in Keys
      BY <1>1, RequestShape DEF Plan
    <2>2. \A o \in Payloads : o \in ItemsOf(request) => stages[o] = "absent"
      BY <2>1, KeyUntouched, ItemShape
    <2>3. \A o \in Payloads : StageRank[stages'[o]] >= StageRank[stages[o]]
      BY <1>1, <2>2, Ranks DEF Plan, CatalogInv, CatalogTypeOK
    <2> QED  BY <1>1, <2>3 DEF Plan, Forward
  <1>2. ASSUME NEW request \in Requests, Commit(request) PROVE Forward
    BY <1>2, CommitForward
  <1>3. ASSUME NEW p \in Payloads, MakeReady(p) PROVE Forward
    <2>1. \A o \in Payloads : StageRank[stages'[o]] >= StageRank[stages[o]]
      BY <1>3, Ranks DEF MakeReady, CatalogInv, CatalogTypeOK
    <2> QED  BY <1>3, <2>1 DEF MakeReady, Forward
  <1>4. ASSUME NEW m \in Memories, AutoErase(m) PROVE Forward
    <2>1. \A o \in Payloads : StageRank[stages'[o]] >= StageRank[stages[o]]
      BY <1>4, StagesKept DEF AutoErase
    <2> QED  BY <1>4, <2>1, ChangeForward DEF AutoErase
  <1>5. ASSUME NEW keys \in SUBSET Keys, Collect(keys) PROVE Forward
    BY <1>5, CollectForward
  <1>6. ASSUME NEW queue \in Queues, NEW p \in Payloads, Claim(queue, p) PROVE Forward
    <2>1. \A o \in Payloads : StageRank[stages'[o]] >= StageRank[stages[o]]
      BY <1>6, Ranks DEF Claim, Claimable, CatalogInv, CatalogTypeOK
    <2> DEFINE row == [queues[queue][p] EXCEPT !.due = FALSE, !.attempts = @ + 1]
    <2>2. queues' = [queues EXCEPT ![queue][p] = row]
      BY <1>6 DEF Claim, CatalogInv, CatalogTypeOK
    <2>3. queues[queue][p].state = "open" /\ UNCHANGED <<receipts, memories>>
      BY <1>6 DEF Claim, Claimable
    <2> HIDE DEF row
    <2> QED  BY <2>1, <2>2, <2>3, OpenRowChanges
  <1>7. ASSUME NEW queue \in Queues, NEW p \in Payloads, NEW attempt, Acknowledge(queue, p, attempt)
        PROVE  Forward
    <2>1. \A o \in Payloads : StageRank[stages'[o]] >= StageRank[stages[o]]
      BY <1>7, Ranks DEF Acknowledge, CatalogInv, CatalogTypeOK
    <2> DEFINE row == [queues[queue][p] EXCEPT !.state = "done"]
    <2>2. queues' = [queues EXCEPT ![queue][p] = row]
      BY <1>7 DEF Acknowledge, CatalogInv, CatalogTypeOK
    <2>3. queues[queue][p].state = "open" /\ UNCHANGED <<receipts, memories>>
      BY <1>7 DEF Acknowledge
    <2> HIDE DEF row
    <2> QED  BY <2>1, <2>2, <2>3, OpenRowChanges
  <1>8. ASSUME NEW key \in Keys, Expire(key) PROVE Forward
    BY <1>8, StagesKept DEF Expire, Forward
  <1>9. ASSUME NEW m \in Memories, Lapse(m) PROVE Forward
    BY <1>9, StagesKept DEF Lapse, Forward
  <1>10. ASSUME NEW queue \in Queues, NEW p \in Payloads, Due(queue, p) PROVE Forward
    <2>1. \A o \in Payloads : StageRank[stages'[o]] >= StageRank[stages[o]]
      BY <1>10, StagesKept DEF Due
    <2> DEFINE row == [queues[queue][p] EXCEPT !.due = TRUE]
    <2>2. queues' = [queues EXCEPT ![queue][p] = row]
      BY <1>10 DEF Due, CatalogInv, CatalogTypeOK
    <2>3. queues[queue][p].state = "open" /\ UNCHANGED <<receipts, memories>>
      BY <1>10 DEF Due
    <2> HIDE DEF row
    <2> QED  BY <2>1, <2>2, <2>3, OpenRowChanges
  <1>11. CASE UNCHANGED catalogVars
    BY <1>11, StagesKept DEF catalogVars, Forward
  <1> QED
    BY <1>1, <1>2, <1>3, <1>4, <1>5, <1>6, <1>7, <1>8, <1>9, <1>10, <1>11 DEF CatalogNext, Write, Clean, Pass

(* A receipt, an erasure and a finished clean-up are final, and a stage only *)
(* moves forward.                                                            *)
THEOREM NeverUndone == CatalogSpec => NeverBack
  <1>1. CatalogInv /\ [CatalogNext]_catalogVars => [Forward]_catalogVars
    BY NextForward
  <1> QED  BY <1>1, CatalogInvariant, PTL DEF CatalogSpec, NeverBack
------------------------------------------------------------------------------
(* The calls, the passes and both stores over the database. *)

(* The object of p was written, and its row until something buried it. *)
WasStaged(p) == cold[p] # "absent" /\ p \in hot \cup tombstones

(* Everything a clean-up of p has to do to the stores is done. *)
Cleaned(queue, p) == p \in tombstones /\ (queue = "purges" => cold[p] = "purged")

(* What the stores hold is explained by the database. *)
StoresSound ==
  \A p \in Payloads :
    /\ cold[p] # "absent" \/ p \in hot => stages[p] # "absent"
    /\ cold[p] = "purged" => stages[p] \in {"purge_pending", "purged"}
    /\ p \in tombstones => p \notin hot /\ \E queue \in Queues : Queued(queue, p)
    /\ stages[p] \in {"ready", "published"} => WasStaged(p)
    /\ \A queue \in Queues : queues[queue][p].state = "done" => Cleaned(queue, p)

(* A call only handles payloads that have a stage, and has written what it *)
(* is about to report.                                                     *)
PlaceSound(place, p, set) ==
  /\ \A q \in set : stages[q] # "absent"
  /\ place \in {"read", "confirm", "check", "insert", "verify", "ready"} =>
       p \in Payloads /\ stages[p] # "absent"
  /\ place \in {"insert", "verify", "ready"} => cold[p] # "absent"
  /\ place = "ready" => WasStaged(p)

CallSound(c) == PlaceSound(pc[c], at[c], todo[c])

(* A step of a clean-up, taken by a worker or executed late, is of a row that *)
(* was claimed, and its acknowledgement comes after the stores are clean.     *)
CleaningSound(place, queue, p, attempt) ==
  /\ queue \in Queues /\ p \in Payloads /\ attempt \in 1 .. MaxAttempts
  /\ Queued(queue, p)
  /\ queue = "purges" => stages[p] \in {"purge_pending", "purged"}
  /\ place = "mark" => queue = "purges"
  /\ place = "acknowledge" => Cleaned(queue, p)

WorkerSound(w) ==
  step[w] # "idle" => CleaningSound(step[w], job[w].queue, job[w].payload, job[w].attempt)

CallWrites == {"create", "insert", "ready"}
CleaningWrites == {"mark", "bury", "acknowledge"}

LateSound(write) ==
  /\ write.write \in {"plan", "commit"} => write.request \in Requests
  /\ write.write \in CallWrites => write.payload \in Payloads /\ stages[write.payload] # "absent"
  /\ write.write = "ready" => WasStaged(write.payload)
  /\ write.write \in CleaningWrites =>
       CleaningSound(write.write, write.queue, write.payload, write.attempt)

IInv ==
  /\ CatalogInv
  /\ TypeOK
  /\ StoresSound
  /\ \A c \in Calls : CallSound(c)
  /\ \A w \in Workers : WorkerSound(w)
  /\ \A write \in late : LateSound(write)

(* Every effect of a request on a memory expected a revision the memory has  *)
(* left behind, so no two of them expected the same.                         *)
RevisionsOf(m) == {receipts[k].revision : k \in Writes(m)}

RevisionsCounted(m) ==
  /\ RevisionsOf(m) \subseteq 0 .. memories[m].revision - 1
  /\ EraseReceipt(m) => memories[m].erased
  /\ memories[m].revision = Cardinality(RevisionsOf(m))
       + (IF m \in Trash THEN 1 ELSE 0)
       + (IF memories[m].erased /\ ~ EraseReceipt(m) THEN 1 ELSE 0)

------------------------------------------------------------------------------
(* What no step takes back, of the database and of the stores. *)
CatalogMoves ==
  /\ \A p \in Payloads : stages[p] # "absent" => stages'[p] # "absent"
  /\ \A p \in Payloads :
       stages[p] \in {"purge_pending", "purged"} => stages'[p] \in {"purge_pending", "purged"}
  /\ \A queue \in Queues, p \in Payloads : Queued(queue, p) => Queued(queue, p)'

StoresMove ==
  /\ \A p \in Payloads : cold[p] # "absent" => cold'[p] # "absent"
  /\ \A p \in Payloads : cold[p] = "purged" => cold'[p] = "purged"
  /\ hot \cup tombstones \subseteq hot' \cup tombstones'
  /\ tombstones \subseteq tombstones'

(* Stages move forward, and a row of a queue is never removed. *)
LEMMA StagesForward ==
  ASSUME CatalogInv, CatalogInv', Forward
  PROVE  /\ \A p \in Payloads : stages[p] # "absent" => stages'[p] # "absent"
         /\ \A p \in Payloads :
              stages[p] \in {"purge_pending", "purged"} => stages'[p] \in {"purge_pending", "purged"}
  <1>1. \A p \in Payloads : /\ stages[p] \in StageStates
                           /\ stages'[p] \in StageStates
                           /\ StageRank[stages'[p]] >= StageRank[stages[p]]
    BY DEF CatalogInv, CatalogTypeOK, Forward
  <1>2. \A s \in StageStates : s # "absent" => StageRank[s] \in 1 .. 5
    BY DEF StageRank, StageStates
  <1>3. \A s \in StageStates : s \notin {"purge_pending", "purged"} => StageRank[s] \in 0 .. 3
    BY DEF StageRank, StageStates
  <1> QED  BY <1>1, <1>2, <1>3, Ranks

LEMMA RowsKept ==
  ASSUME CatalogInv, [CatalogNext]_catalogVars
  PROVE  \A queue \in Queues, p \in Payloads : Queued(queue, p) => Queued(queue, p)'
  <1> SUFFICES ASSUME NEW queue \in Queues, NEW p \in Payloads, queues[queue][p].state # "absent"
               PROVE  queues'[queue][p].state # "absent"
    BY DEF Queued
  <1>1. ASSUME NEW action, NEW key, NEW ms, Change(action, key, ms)
        PROVE  queues'[queue][p].state # "absent"
    BY <1>1 DEF Change, Enqueued, Queues
  <1>2. ASSUME NEW request \in Requests, Plan(request) \/ Commit(request)
        PROVE  queues'[queue][p].state # "absent"
    BY <1>1, <1>2 DEF Plan, Commit
  <1>3. ASSUME NEW o \in Payloads, MakeReady(o)
        PROVE  queues'[queue][p].state # "absent"
    BY <1>3 DEF MakeReady
  <1>4. ASSUME NEW m \in Memories, AutoErase(m)
        PROVE  queues'[queue][p].state # "absent"
    BY <1>1, <1>4 DEF AutoErase
  <1>5. ASSUME NEW keys \in SUBSET Keys, Collect(keys)
        PROVE  queues'[queue][p].state # "absent"
    BY <1>5 DEF Collect, Enqueued, CatalogInv, CatalogTypeOK, Queues
  <1>6. ASSUME NEW q \in Queues, NEW o \in Payloads, NEW attempt,
               Claim(q, o) \/ Acknowledge(q, o, attempt) \/ Due(q, o)
        PROVE  queues'[queue][p].state # "absent"
    <2>1. CASE Claim(q, o)
      BY <2>1 DEF Claim, CatalogInv, CatalogTypeOK, Row
    <2>2. CASE Acknowledge(q, o, attempt)
      BY <2>2 DEF Acknowledge, CatalogInv, CatalogTypeOK, Row
    <2>3. CASE Due(q, o)
      BY <2>3 DEF Due, CatalogInv, CatalogTypeOK, Row
    <2> QED  BY <1>6, <2>1, <2>2, <2>3
  <1>7. ASSUME NEW key \in Keys, Expire(key)
        PROVE  queues'[queue][p].state # "absent"
    BY <1>7 DEF Expire
  <1>8. ASSUME NEW m \in Memories, Lapse(m)
        PROVE  queues'[queue][p].state # "absent"
    BY <1>8 DEF Lapse
  <1>9. CASE UNCHANGED catalogVars
    BY <1>9 DEF catalogVars
  <1> QED
    BY <1>2, <1>3, <1>4, <1>5, <1>6, <1>7, <1>8, <1>9 DEF CatalogNext, Write, Clean, Pass

LEMMA CatalogStep ==
  ASSUME CatalogInv, [CatalogNext]_catalogVars
  PROVE  CatalogInv' /\ CatalogMoves
  <1>1. CatalogInv'
    BY CatalogNextKeeps
  <1>2. Forward
    BY NextForward
  <1> QED  BY <1>1, <1>2, StagesForward, RowsKept DEF CatalogMoves

(* Which steps may make a stage ready or a clean-up done: all the others. *)
NothingReady == \A p \in Payloads : stages'[p] \in {"ready", "published"} => stages[p] \in {"ready", "published"}
NothingDone ==
  \A queue \in Queues, p \in Payloads : queues'[queue][p].state = "done" => queues[queue][p].state = "done"

LEMMA ChangeFinishesNothing ==
  ASSUME NEW action, NEW key, NEW ms, Change(action, key, ms)
  PROVE  NothingDone
  BY DEF Change, Enqueued, NewRow, Queues, NothingDone

LEMMA PlanQuiet ==
  ASSUME NEW request \in Requests, Plan(request)
  PROVE  NothingReady /\ NothingDone
  BY DEF Plan, NothingReady, NothingDone

LEMMA CommitQuiet ==
  ASSUME NEW request \in Requests, Commit(request)
  PROVE  NothingReady /\ NothingDone
  <1>1. NothingReady
    BY DEF Commit, NothingReady
  <1> QED  BY <1>1, ChangeFinishesNothing DEF Commit

LEMMA AutoEraseQuiet ==
  ASSUME NEW m \in Memories, AutoErase(m)
  PROVE  NothingReady /\ NothingDone
  <1>1. NothingReady
    BY DEF AutoErase, NothingReady
  <1> QED  BY <1>1, ChangeFinishesNothing DEF AutoErase

LEMMA CollectQuiet ==
  ASSUME CatalogInv, NEW keys \in SUBSET Keys, Collect(keys)
  PROVE  NothingReady /\ NothingDone
  BY DEF Collect, Enqueued, NewRow, Queues, NothingReady, NothingDone, CatalogInv, CatalogTypeOK

LEMMA ClaimQuiet ==
  ASSUME CatalogInv, NEW queue \in Queues, NEW p \in Payloads, Claim(queue, p)
  PROVE  NothingReady /\ NothingDone
  BY DEF Claim, NothingReady, NothingDone, CatalogInv, CatalogTypeOK, Row

LEMMA DueQuiet ==
  ASSUME CatalogInv, NEW queue \in Queues, NEW p \in Payloads, Due(queue, p)
  PROVE  NothingReady /\ NothingDone
  BY DEF Due, NothingReady, NothingDone, CatalogInv, CatalogTypeOK, Row

LEMMA MakeReadyOnly ==
  ASSUME CatalogInv, NEW p \in Payloads, MakeReady(p)
  PROVE  /\ \A o \in Payloads \ {p} :
              stages'[o] \in {"ready", "published"} => stages[o] \in {"ready", "published"}
         /\ NothingDone
  BY DEF MakeReady, NothingDone, CatalogInv, CatalogTypeOK

LEMMA AcknowledgeOnly ==
  ASSUME CatalogInv, NEW queue \in Queues, NEW p \in Payloads, NEW attempt, Acknowledge(queue, p, attempt)
  PROVE  /\ NothingReady
         /\ \A q \in Queues, o \in Payloads :
              queues'[q][o].state = "done" => queues[q][o].state = "done" \/ (q = queue /\ o = p)
  BY DEF Acknowledge, NothingReady, CatalogInv, CatalogTypeOK, Row

------------------------------------------------------------------------------
(* What holds of a call, of a piece of clean-up and of a late write goes on *)
(* to hold while others move.                                               *)
LEMMA PlaceKept ==
  ASSUME CatalogMoves, StoresMove, NEW place, NEW p, NEW set \in SUBSET Payloads, PlaceSound(place, p, set)
  PROVE  PlaceSound(place, p, set)'
  BY DEF CatalogMoves, StoresMove, PlaceSound, WasStaged

LEMMA CleaningKept ==
  ASSUME CatalogMoves, StoresMove, NEW place, NEW queue, NEW p, NEW attempt,
         CleaningSound(place, queue, p, attempt)
  PROVE  CleaningSound(place, queue, p, attempt)'
  BY DEF CatalogMoves, StoresMove, CleaningSound, Cleaned

LEMMA LateKept ==
  ASSUME CatalogMoves, StoresMove, NEW write, LateSound(write)
  PROVE  LateSound(write)'
  <1>1. write.write \in CleaningWrites =>
          CleaningSound(write.write, write.queue, write.payload, write.attempt)'
    BY CleaningKept DEF LateSound
  <1>2. write.write \in CallWrites => write.payload \in Payloads /\ stages'[write.payload] # "absent"
    BY DEF CatalogMoves, LateSound
  <1>3. write.write = "ready" => WasStaged(write.payload)'
    BY DEF StoresMove, LateSound, WasStaged, CallWrites
  <1> QED  BY <1>1, <1>2, <1>3 DEF LateSound

(* So a step keeps the invariant if it leaves the stores sound, and whoever *)
(* took it.                                                                 *)
LEMMA StepKeeps ==
  ASSUME IInv, CatalogInv', CatalogMoves, StoresMove, StoresSound', TypeOK',
         \A c \in Calls : CallSound(c)' \/ (pc'[c] = pc[c] /\ at'[c] = at[c] /\ todo'[c] = todo[c]),
         \A w \in Workers : WorkerSound(w)' \/ (step'[w] = step[w] /\ job'[w] = job[w]),
         \A write \in late' : LateSound(write)' \/ write \in late
  PROVE  IInv'
  <1>1. \A c \in Calls : CallSound(c)'
    <2> SUFFICES ASSUME NEW c \in Calls, pc'[c] = pc[c] /\ at'[c] = at[c] /\ todo'[c] = todo[c]
                 PROVE  CallSound(c)'
      OBVIOUS
    <2>1. PlaceSound(pc[c], at[c], todo[c])
      BY DEF IInv, CallSound
    <2>2. todo[c] \in SUBSET Payloads
      BY DEF IInv, TypeOK
    <2>3. PlaceSound(pc[c], at[c], todo[c])'
      BY <2>1, <2>2, PlaceKept
    <2> QED  BY <2>3 DEF CallSound
  <1>2. \A w \in Workers : WorkerSound(w)'
    <2> SUFFICES ASSUME NEW w \in Workers, step'[w] = step[w] /\ job'[w] = job[w]
                 PROVE  WorkerSound(w)'
      OBVIOUS
    <2>1. step[w] # "idle" => CleaningSound(step[w], job[w].queue, job[w].payload, job[w].attempt)
      BY DEF IInv, WorkerSound
    <2>2. step[w] # "idle" => CleaningSound(step[w], job[w].queue, job[w].payload, job[w].attempt)'
      BY <2>1, CleaningKept
    <2> QED  BY <2>2 DEF WorkerSound
  <1>3. \A write \in late' : LateSound(write)'
    BY LateKept DEF IInv
  <1> QED  BY <1>1, <1>2, <1>3 DEF IInv

LEMMA StoresKept ==
  ASSUME IInv, CatalogInv', CatalogMoves, UNCHANGED stores,
         \A p \in Payloads : stages'[p] \in {"ready", "published"} =>
           stages[p] \in {"ready", "published"} \/ WasStaged(p),
         \A queue \in Queues, p \in Payloads : queues'[queue][p].state = "done" =>
           queues[queue][p].state = "done" \/ Cleaned(queue, p)
  PROVE  StoresSound' /\ StoresMove
  <1>1. UNCHANGED <<cold, hot, tombstones>>
    BY DEF stores
  <1>2. StoresMove
    BY <1>1 DEF StoresMove
  <1>3. \A p \in Payloads : stages'[p] \in {"ready", "published"} => WasStaged(p)'
    BY <1>1 DEF IInv, StoresSound, WasStaged
  <1>4. \A p \in Payloads, queue \in Queues : queues'[queue][p].state = "done" => Cleaned(queue, p)'
    BY <1>1 DEF IInv, StoresSound, Cleaned
  <1>5. \A p \in Payloads :
          /\ cold'[p] # "absent" \/ p \in hot' => stages'[p] # "absent"
          /\ cold'[p] = "purged" => stages'[p] \in {"purge_pending", "purged"}
          /\ p \in tombstones' => p \notin hot' /\ \E queue \in Queues : Queued(queue, p)'
    BY <1>1 DEF IInv, StoresSound, CatalogMoves
  <1> QED  BY <1>2, <1>3, <1>4, <1>5 DEF StoresSound

(* A step of the database that makes nothing ready and finishes nothing. *)
LEMMA QuietStep ==
  ASSUME IInv, [CatalogNext]_catalogVars, UNCHANGED stores, NothingReady, NothingDone
  PROVE  CatalogInv' /\ CatalogMoves /\ StoresMove /\ StoresSound'
  <1>1. CatalogInv' /\ CatalogMoves
    BY CatalogStep DEF IInv
  <1> QED  BY <1>1, StoresKept DEF NothingReady, NothingDone

LEMMA NoStep ==
  ASSUME IInv, UNCHANGED <<catalogVars, stores>>
  PROVE  CatalogInv' /\ CatalogMoves /\ StoresMove /\ StoresSound'
  <1>1. NothingReady /\ NothingDone
    BY DEF catalogVars, NothingReady, NothingDone
  <1>2. UNCHANGED stores
    BY DEF stores
  <1> QED  BY <1>1, <1>2, QuietStep DEF catalogVars

Places == {"start", "read", "confirm", "prepare", "stage", "check", "insert", "verify",
           "ready", "commit", "recover", "done", "failed"}

(* A call that moves on by itself. *)
LEMMA CallMoves ==
  ASSUME IInv, UNCHANGED <<catalogVars, stores, passes, accidents>>,
         NEW c \in Calls, NEW place \in Places, NEW p \in Payloads \cup {NoPayload}, NEW set \in SUBSET Payloads,
         Goto(c, place),
         at' = [at EXCEPT ![c] = p],
         todo' = [todo EXCEPT ![c] = set],
         PlaceSound(place, p, set)
  PROVE  IInv'
  <1>1. CatalogInv' /\ CatalogMoves /\ StoresMove /\ StoresSound'
    BY NoStep
  <1>2. UNCHANGED <<cold, hot, tombstones, step, job, late, faults>>
    BY DEF stores, passes, accidents
  <1>3. TypeOK'
    BY <1>1, <1>2 DEF CatalogInv, IInv, TypeOK, Goto, Places
  <1>4. pc'[c] = place /\ at'[c] = p /\ todo'[c] = set
    BY DEF IInv, TypeOK, Goto
  <1>5. \A d \in Calls \ {c} : pc'[d] = pc[d] /\ at'[d] = at[d] /\ todo'[d] = todo[d]
    BY DEF IInv, TypeOK, Goto
  <1>6. CallSound(c)'
    BY <1>1, <1>4, PlaceKept DEF CallSound
  <1> QED  BY <1>1, <1>2, <1>3, <1>5, <1>6, StepKeeps

------------------------------------------------------------------------------
(* The payload a call finds in a live or deleted memory is published. *)
LEMMA TargetPublished ==
  ASSUME IInv, NEW c \in Calls, RowFits(c)
  PROVE  Target(c).payload \in Payloads /\ stages[Target(c).payload] = "published"
  <1>1. /\ Request(c) \in Requests
        /\ Request(c).action # "create"
        /\ Target(c).revision = Request(c).revision
        /\ ~ Target(c).erased
    BY CallAssumption DEF RowFits, Request
  <1>2. PICK m \in Memories : Request(c).memories = {m}
    BY <1>1, RequestAssumption
  <1>3. Target(c) = memories[m]
    BY <1>2 DEF Target
  <1>4. Request(c).revision > 0
    BY <1>1, RequestAssumption
  <1>5. memories[m].payload # NoPayload
    BY <1>1, <1>3, <1>4 DEF IInv, CatalogInv, HeadsExist
  <1> QED  BY <1>3, <1>5 DEF IInv, CatalogInv, CatalogTypeOK, ReferencesPublished, Memory

LEMMA CallTyped ==
  ASSUME IInv, NEW c \in Calls
  PROVE  /\ Request(c) \in Requests
         /\ Items(c) \in SUBSET Payloads
         /\ todo[c] \in SUBSET Payloads
         /\ at[c] \in Payloads \cup {NoPayload}
         /\ at = [at EXCEPT ![c] = at[c]]
         /\ todo = [todo EXCEPT ![c] = todo[c]]
         /\ PlaceSound(pc[c], at[c], todo[c])
  BY CallAssumption, RequestShape DEF Request, Items, IInv, TypeOK, CallSound

(* Steps of a call that read, or only remember what they found. *)
LEMMA ReadingKeeps ==
  ASSUME IInv, NEW c \in Calls, Reading(c)
  PROVE  IInv'
  <1>1. CASE BeginRead(c)
    <2>1. Target(c).payload \in Payloads /\ stages[Target(c).payload] = "published"
      BY <1>1, TargetPublished DEF BeginRead
    <2>2. PlaceSound("read", Target(c).payload, todo[c])
      BY <2>1, CallTyped DEF PlaceSound
    <2>3. Goto(c, "read") /\ at' = [at EXCEPT ![c] = Target(c).payload] /\ todo' = todo
      BY <1>1 DEF BeginRead, Handle
    <2>4. UNCHANGED <<catalogVars, stores, passes, accidents>>
      BY <1>1 DEF BeginRead
    <2> QED  BY <2>1, <2>2, <2>3, <2>4, CallTyped, CallMoves DEF Places
  <1>2. CASE BeginDirect(c)
    <2>1. PICK place \in {"prepare", "failed", "commit"} : Goto(c, place)
      BY <1>2 DEF BeginDirect
    <2>2. PlaceSound(place, at[c], todo[c])
      BY CallTyped DEF PlaceSound
    <2>3. UNCHANGED <<catalogVars, stores, passes, accidents>> /\ at' = at /\ todo' = todo
      BY <1>2 DEF BeginDirect
    <2> QED  BY <2>1, <2>2, <2>3, CallTyped, CallMoves DEF Places
  <1>3. CASE Read(c)
    <2>1. PICK place \in {"recover", "confirm", "prepare"} : Goto(c, place)
      BY <1>3 DEF Read
    <2>2. PlaceSound(place, at[c], todo[c])
      BY <1>3, CallTyped DEF Read, PlaceSound
    <2>3. UNCHANGED <<catalogVars, stores, passes, accidents>> /\ at' = at /\ todo' = todo
      BY <1>3 DEF Read
    <2> QED  BY <2>1, <2>2, <2>3, CallTyped, CallMoves DEF Places
  <1>4. CASE Confirm(c)
    <2>1. PICK place \in {"stage", "commit"} : Goto(c, place)
      BY <1>4 DEF Confirm
    <2>2. at[c] \in Payloads /\ stages[at[c]] # "absent" /\ at = [at EXCEPT ![c] = at[c]]
      BY <1>4, CallTyped DEF Confirm, PlaceSound
    <2>3. PICK set \in {{at[c]}, {}} : todo' = [todo EXCEPT ![c] = set]
      BY <1>4 DEF Confirm
    <2>4. PlaceSound(place, at[c], set)
      BY <2>2 DEF PlaceSound
    <2>5. UNCHANGED <<catalogVars, stores, passes, accidents>> /\ at' = [at EXCEPT ![c] = at[c]]
      BY <1>4, <2>2 DEF Confirm
    <2>6. set \in SUBSET Payloads /\ place \in Places
      BY <2>2 DEF Places
    <2> QED  BY <2>1, <2>2, <2>3, <2>4, <2>5, <2>6, CallMoves
  <1>5. CASE Recover(c)
    <2>1. PICK place \in {"commit", "failed"} : Goto(c, place)
      BY <1>5 DEF Recover
    <2>2. PlaceSound(place, at[c], todo[c])
      BY CallTyped DEF PlaceSound
    <2>3. UNCHANGED <<catalogVars, stores, passes, accidents>> /\ at' = at /\ todo' = todo
      BY <1>5 DEF Recover
    <2> QED  BY <2>1, <2>2, <2>3, CallTyped, CallMoves DEF Places
  <1> QED  BY <1>1, <1>2, <1>3, <1>4, <1>5 DEF Reading

(* Steps that take a call elsewhere and change nothing else. *)
LEMMA DetourKeeps ==
  ASSUME IInv, NEW c \in Calls,
         PrepareRefused(c) \/ PrepareReplay(c) \/ ReadyRefused(c) \/ CommitReplay(c) \/ CommitRefused(c)
  PROVE  IInv'
  <1> USE CallTyped
  <1>1. PICK place \in {"recover", "commit", "done", "failed"} : Goto(c, place)
    BY DEF PrepareRefused, PrepareReplay, ReadyRefused, CommitReplay, CommitRefused
  <1>2. UNCHANGED <<catalogVars, stores, passes, accidents>> /\ at' = at /\ todo' = todo
    BY DEF PrepareRefused, PrepareReplay, ReadyRefused, CommitReplay, CommitRefused
  <1>3. PlaceSound(place, at[c], todo[c])
    BY DEF PlaceSound
  <1> QED  BY <1>1, <1>2, <1>3, CallMoves DEF Places

LEMMA PrepareAgainKeeps ==
  ASSUME IInv, NEW c \in Calls, PrepareAgain(c)
  PROVE  IInv'
  <1> DEFINE open == {p \in Items(c) : stages[p] = "staging"}
  <1>0. /\ Items(c) \in SUBSET Payloads
        /\ at[c] \in Payloads \cup {NoPayload}
        /\ at = [at EXCEPT ![c] = at[c]]
    BY CallTyped
  <1>1. PICK place \in {"commit", "stage"} : Goto(c, place)
    BY DEF PrepareAgain
  <1>2. /\ UNCHANGED <<catalogVars, stores, passes, accidents>>
        /\ at' = [at EXCEPT ![c] = at[c]]
        /\ todo' = [todo EXCEPT ![c] = open]
    BY <1>0 DEF PrepareAgain
  <1>3. PlaceSound(place, at[c], open)
    BY DEF PlaceSound
  <1>4. open \in SUBSET Payloads
    BY <1>0
  <1> HIDE DEF open
  <1>5. place \in Places
    BY DEF Places
  <1> QED  BY <1>0, <1>1, <1>2, <1>3, <1>4, <1>5, CallMoves

LEMMA ChecksKeep ==
  ASSUME IInv, NEW c \in Calls, CheckCold(c) \/ Verify(c)
  PROVE  IInv'
  <1> USE CallTyped
  <1>1. UNCHANGED <<catalogVars, stores, passes, accidents>> /\ at' = at /\ todo' = todo
    BY DEF CheckCold, Verify
  <1>2. PICK place \in {"insert", "recover", "commit", "ready"} :
          /\ Goto(c, place)
          /\ place = "insert" => CheckCold(c) /\ cold[at[c]] = "payload"
          /\ place = "ready" => Verify(c) /\ at[c] \in hot
    BY DEF CheckCold, Verify
  <1>3. PlaceSound(place, at[c], todo[c])
    BY <1>2 DEF PlaceSound, WasStaged, CheckCold, Verify
  <1> QED  BY <1>1, <1>2, <1>3, CallMoves DEF Places

LEMMA ReadyAlreadyKeeps ==
  ASSUME IInv, NEW c \in Calls, ReadyAlready(c)
  PROVE  IInv'
  <1> DEFINE rest == todo[c] \ {at[c]}
  <1>0. /\ todo[c] \in SUBSET Payloads
        /\ at[c] \in Payloads \cup {NoPayload}
        /\ at = [at EXCEPT ![c] = at[c]]
        /\ PlaceSound(pc[c], at[c], todo[c])
    BY CallTyped
  <1>1. PICK place \in {"commit", "stage"} : Goto(c, place)
    BY DEF ReadyAlready, Staged
  <1>2. /\ UNCHANGED <<catalogVars, stores, passes, accidents>>
        /\ at' = [at EXCEPT ![c] = at[c]]
        /\ todo' = [todo EXCEPT ![c] = rest]
    BY <1>0 DEF ReadyAlready, Staged
  <1>3. PlaceSound(place, at[c], rest)
    BY <1>0 DEF PlaceSound
  <1>4. rest \in SUBSET Payloads
    BY <1>0
  <1> HIDE DEF rest
  <1>5. place \in Places
    BY DEF Places
  <1> QED  BY <1>0, <1>1, <1>2, <1>3, <1>4, <1>5, CallMoves

------------------------------------------------------------------------------
(* Each write to a store, by whoever and whenever it is executed. *)
LEMMA DatabaseRests ==
  ASSUME IInv, UNCHANGED catalogVars
  PROVE  /\ CatalogInv' /\ CatalogMoves
         /\ UNCHANGED <<stages, queues>>
         /\ \A queue \in Queues, p \in Payloads : Queued(queue, p)' <=> Queued(queue, p)
  <1>1. CatalogInv' /\ CatalogMoves
    BY CatalogStep DEF IInv
  <1> QED  BY <1>1 DEF catalogVars, Queued

LEMMA CreateColdSound ==
  ASSUME IInv, UNCHANGED catalogVars, NEW p \in Payloads, stages[p] # "absent",
         CreateCold(p), UNCHANGED <<hot, tombstones>>
  PROVE  StoresMove /\ StoresSound' /\ cold' \in [Payloads -> {"absent", "payload", "purged"}] /\ cold'[p] # "absent"
  <1>1. /\ cold' \in [Payloads -> {"absent", "payload", "purged"}]
        /\ \A q \in Payloads : cold'[q] = IF q = p /\ cold[p] = "absent" THEN "payload" ELSE cold[q]
    BY DEF IInv, TypeOK, CreateCold
  <1>2. StoresMove
    BY <1>1 DEF StoresMove
  <1>3. StoresSound'
    BY <1>1, DatabaseRests DEF IInv, StoresSound, WasStaged, Cleaned
  <1> QED  BY <1>1, <1>2, <1>3

LEMMA MarkColdSound ==
  ASSUME IInv, UNCHANGED catalogVars, NEW p \in Payloads, stages[p] \in {"purge_pending", "purged"},
         MarkCold(p), UNCHANGED <<hot, tombstones>>
  PROVE  StoresMove /\ StoresSound' /\ cold' \in [Payloads -> {"absent", "payload", "purged"}]
  <1>1. /\ cold' \in [Payloads -> {"absent", "payload", "purged"}]
        /\ \A q \in Payloads : cold'[q] = IF q = p THEN "purged" ELSE cold[q]
    BY DEF IInv, TypeOK, MarkCold
  <1>2. StoresMove
    BY <1>1 DEF StoresMove
  <1>3. StoresSound'
    BY <1>1, DatabaseRests DEF IInv, StoresSound, WasStaged, Cleaned
  <1> QED  BY <1>1, <1>2, <1>3

LEMMA InsertHotSound ==
  ASSUME IInv, UNCHANGED catalogVars, NEW p \in Payloads, stages[p] # "absent", p \notin tombstones,
         InsertHot(p), UNCHANGED <<cold, tombstones>>
  PROVE  StoresMove /\ StoresSound' /\ hot' \subseteq Payloads
  <1>1. hot' = hot \cup {p} /\ hot' \subseteq Payloads
    BY DEF IInv, TypeOK, InsertHot
  <1>2. StoresMove
    BY <1>1 DEF StoresMove
  <1>3. StoresSound'
    BY <1>1, DatabaseRests DEF IInv, StoresSound, WasStaged, Cleaned
  <1> QED  BY <1>1, <1>2, <1>3

LEMMA BurySound ==
  ASSUME IInv, UNCHANGED catalogVars, NEW queue \in Queues, NEW p \in Payloads, Queued(queue, p),
         Bury(p), UNCHANGED cold
  PROVE  StoresMove /\ StoresSound' /\ hot' \subseteq Payloads /\ tombstones' \subseteq Payloads /\ p \in tombstones'
  <1>1. /\ hot' = hot \ {p} /\ tombstones' = tombstones \cup {p}
        /\ hot' \subseteq Payloads /\ tombstones' \subseteq Payloads
    BY DEF IInv, TypeOK, Bury
  <1>2. StoresMove
    BY <1>1 DEF StoresMove
  <1>3. StoresSound'
    BY <1>1, DatabaseRests DEF IInv, StoresSound, WasStaged, Cleaned
  <1> QED  BY <1>1, <1>2, <1>3

------------------------------------------------------------------------------
(* Steps of a call that write to a store or to the database. *)
LEMMA OneCallMoves ==
  ASSUME TypeOK, NEW c \in Calls, NEW place, Goto(c, place),
         at' = at \/ (\E p : at' = [at EXCEPT ![c] = p]),
         todo' = todo \/ (\E set : todo' = [todo EXCEPT ![c] = set])
  PROVE  \A d \in Calls \ {c} : pc'[d] = pc[d] /\ at'[d] = at[d] /\ todo'[d] = todo[d]
  BY DEF TypeOK, Goto

LEMMA PutColdKeeps ==
  ASSUME IInv, NEW c \in Calls, PutCold(c)
  PROVE  IInv'
  <1>1. PICK p \in todo[c] : CreateCold(p) /\ Handle(c, p)
    BY DEF PutCold
  <1>2. p \in Payloads /\ stages[p] # "absent"
    BY CallTyped DEF PlaceSound
  <1>3. UNCHANGED catalogVars /\ UNCHANGED <<hot, tombstones, todo, step, job, late, faults>> /\ Goto(c, "check")
    BY DEF PutCold, passes, accidents
  <1>4. CatalogInv' /\ CatalogMoves /\ stages' = stages
    BY <1>3, DatabaseRests
  <1>5. StoresMove /\ StoresSound' /\ cold' \in [Payloads -> {"absent", "payload", "purged"}]
    BY <1>1, <1>2, <1>3, CreateColdSound
  <1>6. TypeOK'
    BY <1>1, <1>2, <1>3, <1>4, <1>5 DEF CatalogInv, IInv, TypeOK, Goto, Handle
  <1>7. \A d \in Calls \ {c} : pc'[d] = pc[d] /\ at'[d] = at[d] /\ todo'[d] = todo[d]
    BY <1>1, <1>3, OneCallMoves DEF Handle, IInv
  <1>8. CallSound(c)'
    <2>1. pc'[c] = "check" /\ at'[c] = p /\ todo'[c] = todo[c]
      BY <1>1, <1>3 DEF IInv, TypeOK, Goto, Handle
    <2> QED  BY <2>1, <1>2, <1>4, CallTyped DEF CallSound, PlaceSound
  <1> QED  BY <1>3, <1>4, <1>5, <1>6, <1>7, <1>8, StepKeeps

LEMMA PutHotKeeps ==
  ASSUME IInv, NEW c \in Calls, PutHot(c)
  PROVE  IInv'
  <1>1. /\ at[c] \in Payloads
        /\ stages[at[c]] # "absent"
        /\ cold[at[c]] # "absent"
        /\ \A p \in todo[c] : stages[p] # "absent"
    BY CallTyped DEF PutHot, PlaceSound
  <1>2. UNCHANGED catalogVars /\ UNCHANGED <<cold, tombstones, todo, at, step, job, late, faults>>
    BY DEF PutHot, passes, accidents
  <1>3. CatalogInv' /\ CatalogMoves /\ stages' = stages
    BY <1>2, DatabaseRests
  <1>4. PICK place \in {"recover", "verify"} : Goto(c, place)
    BY DEF PutHot
  <1>5. StoresMove /\ StoresSound' /\ hot' \subseteq Payloads
    <2>1. CASE at[c] \in tombstones
      BY <2>1, <1>2, NoStep DEF PutHot, stores, IInv, TypeOK
    <2>2. CASE at[c] \notin tombstones
      BY <2>2, <1>1, <1>2, InsertHotSound DEF PutHot
    <2> QED  BY <2>1, <2>2
  <1>6. TypeOK'
    BY <1>2, <1>3, <1>4, <1>5 DEF CatalogInv, IInv, TypeOK, Goto
  <1>7. \A d \in Calls \ {c} : pc'[d] = pc[d] /\ at'[d] = at[d] /\ todo'[d] = todo[d]
    BY <1>2, <1>4, OneCallMoves DEF IInv
  <1>8. CallSound(c)'
    <2>1. pc'[c] = place /\ at'[c] = at[c] /\ todo'[c] = todo[c]
      BY <1>2, <1>4 DEF IInv, TypeOK, Goto
    <2> QED  BY <2>1, <1>1, <1>2, <1>3 DEF CallSound, PlaceSound
  <1> QED  BY <1>2, <1>3, <1>5, <1>6, <1>7, <1>8, StepKeeps

LEMMA PrepareFirstKeeps ==
  ASSUME IInv, NEW c \in Calls, PrepareFirst(c)
  PROVE  CatalogNext /\ IInv'
  <1>1. Request(c) \in Requests /\ Plan(Request(c)) /\ Goto(c, "stage") /\ Items(c) \in SUBSET Payloads
    BY CallTyped DEF PrepareFirst
  <1>2. CatalogNext
    BY <1>1 DEF CatalogNext, Write
  <1>3. /\ todo' = [todo EXCEPT ![c] = Items(c)]
        /\ UNCHANGED <<at, stores, step, job, late, faults>>
    BY DEF PrepareFirst, passes, accidents
  <1>4. CatalogInv' /\ CatalogMoves /\ StoresMove /\ StoresSound'
    BY <1>1, <1>2, <1>3, PlanQuiet, QuietStep
  <1>5. TypeOK'
    BY <1>1, <1>3, <1>4 DEF CatalogInv, IInv, TypeOK, Goto, stores
  <1>6. \A d \in Calls \ {c} : pc'[d] = pc[d] /\ at'[d] = at[d] /\ todo'[d] = todo[d]
    BY <1>1, <1>3, OneCallMoves DEF IInv
  <1>7. CallSound(c)'
    <2>1. pc'[c] = "stage" /\ todo'[c] = Items(c)
      BY <1>1, <1>3 DEF IInv, TypeOK, Goto
    <2>2. \A p \in Items(c) : stages'[p] # "absent"
      BY <1>1 DEF Plan, Items, Request
    <2> QED  BY <2>1, <2>2 DEF CallSound, PlaceSound
  <1> QED  BY <1>2, <1>3, <1>4, <1>5, <1>6, <1>7, StepKeeps

LEMMA ReadyKeeps ==
  ASSUME IInv, NEW c \in Calls, Ready(c)
  PROVE  CatalogNext /\ IInv'
  <1> DEFINE rest == todo[c] \ {at[c]}
  <1>1. /\ at[c] \in Payloads /\ WasStaged(at[c])
        /\ rest \in SUBSET Payloads
        /\ \A p \in rest : stages[p] # "absent"
    BY CallTyped DEF Ready, PlaceSound
  <1>2. MakeReady(at[c])
    BY DEF Ready
  <1>3. CatalogNext
    BY <1>1, <1>2 DEF CatalogNext
  <1>4. PICK place \in {"commit", "stage"} : Goto(c, place)
    BY DEF Ready, Staged
  <1>5. /\ todo' = [todo EXCEPT ![c] = rest]
        /\ UNCHANGED <<at, stores, step, job, late, faults>>
    BY DEF Ready, Staged, passes, accidents
  <1> HIDE DEF rest
  <1>6. CatalogInv' /\ CatalogMoves
    BY <1>3, CatalogStep DEF IInv
  <1>7. StoresMove /\ StoresSound'
    <2>1. CatalogInv
      BY DEF IInv
    <2>2. \A p \in Payloads : stages'[p] \in {"ready", "published"} =>
            stages[p] \in {"ready", "published"} \/ WasStaged(p)
      BY <1>1, <1>2, <2>1, MakeReadyOnly
    <2>3. NothingDone
      BY <1>1, <1>2, <2>1, MakeReadyOnly
    <2> QED  BY <1>5, <1>6, <2>2, <2>3, StoresKept DEF NothingDone
  <1>8. TypeOK'
    BY <1>1, <1>4, <1>5, <1>6 DEF CatalogInv, IInv, TypeOK, Goto, stores
  <1>9. \A d \in Calls \ {c} : pc'[d] = pc[d] /\ at'[d] = at[d] /\ todo'[d] = todo[d]
    BY <1>4, <1>5, OneCallMoves DEF IInv
  <1>10. CallSound(c)'
    <2>1. pc'[c] = place /\ todo'[c] = rest
      BY <1>4, <1>5 DEF IInv, TypeOK, Goto
    <2> QED  BY <1>1, <1>6, <2>1 DEF CallSound, PlaceSound, CatalogMoves
  <1> QED  BY <1>3, <1>5, <1>6, <1>7, <1>8, <1>9, <1>10, StepKeeps

LEMMA CommitFirstKeeps ==
  ASSUME IInv, NEW c \in Calls, CommitFirst(c)
  PROVE  CatalogNext /\ IInv'
  <1>1. Request(c) \in Requests /\ Commit(Request(c)) /\ Goto(c, "done")
    BY CallTyped DEF CommitFirst
  <1>2. CatalogNext
    BY <1>1 DEF CatalogNext, Write
  <1>3. UNCHANGED <<todo, at, stores, step, job, late, faults>>
    BY DEF CommitFirst, passes, accidents
  <1>4. CatalogInv' /\ CatalogMoves /\ StoresMove /\ StoresSound'
    BY <1>1, <1>2, <1>3, CommitQuiet, QuietStep
  <1>5. TypeOK'
    BY <1>1, <1>3, <1>4 DEF CatalogInv, IInv, TypeOK, Goto, stores
  <1>6. \A d \in Calls \ {c} : pc'[d] = pc[d] /\ at'[d] = at[d] /\ todo'[d] = todo[d]
    BY <1>1, <1>3, OneCallMoves DEF IInv
  <1>7. CallSound(c)'
    <2>1. pc'[c] = "done" /\ todo'[c] = todo[c]
      BY <1>1, <1>3 DEF IInv, TypeOK, Goto
    <2> QED  BY <2>1, <1>4, CallTyped DEF CallSound, PlaceSound, CatalogMoves
  <1> QED  BY <1>2, <1>3, <1>4, <1>5, <1>6, <1>7, StepKeeps

(* What a call leaves behind when a write fails for it. *)
LEMMA CallWriteSound ==
  ASSUME IInv, NEW c \in Calls, pc[c] \in {"prepare", "insert", "ready", "commit"}
  PROVE  LateSound(CallWrite(c))
  <1>1. PlaceSound(pc[c], at[c], todo[c]) /\ Request(c) \in Requests
    BY CallTyped
  <1>2. CASE pc[c] = "prepare"
    BY <1>1, <1>2 DEF CallWrite, NoWrite, LateSound, CallWrites, CleaningWrites
  <1>3. CASE pc[c] = "insert"
    BY <1>1, <1>3 DEF CallWrite, NoWrite, LateSound, CallWrites, CleaningWrites, PlaceSound
  <1>4. CASE pc[c] = "ready"
    BY <1>1, <1>4 DEF CallWrite, NoWrite, LateSound, CallWrites, CleaningWrites, PlaceSound
  <1>5. CASE pc[c] = "commit"
    BY <1>1, <1>5 DEF CallWrite, NoWrite, LateSound, CallWrites, CleaningWrites
  <1> QED  BY <1>2, <1>3, <1>4, <1>5

LEMMA FaultCounted ==
  ASSUME IInv, NEW write, Accident(write)
  PROVE  faults' \in 0 .. MaxFaults /\ late' = late \cup {write}
  BY FaultAssumption DEF IInv, TypeOK, Accident

LEMMA CallFaultKeeps ==
  ASSUME IInv, NEW c \in Calls, CallFault(c)
  PROVE  IInv'
  <1>1. UNCHANGED <<todo, at, catalogVars, stores, step, job>> /\ Goto(c, "recover")
    BY DEF CallFault, passes
  <1>2. CatalogInv' /\ CatalogMoves /\ StoresMove /\ StoresSound'
    BY <1>1, NoStep
  <1>3. \E write : Accident(write) /\ LateSound(write)
    <2>1. CASE pc[c] = "stage" /\ \E p \in todo[c] : Accident([NoWrite EXCEPT !.write = "create", !.payload = p])
      <3>1. PICK p \in todo[c] : Accident([NoWrite EXCEPT !.write = "create", !.payload = p])
        BY <2>1
      <3>2. p \in Payloads /\ stages[p] # "absent"
        BY CallTyped DEF PlaceSound
      <3>3. LateSound([NoWrite EXCEPT !.write = "create", !.payload = p])
        BY <3>2 DEF NoWrite, LateSound, CallWrites, CleaningWrites
      <3> QED  BY <3>1, <3>3
    <2>2. CASE pc[c] \in {"prepare", "insert", "ready", "commit"} /\ Accident(CallWrite(c))
      BY <2>2, CallWriteSound
    <2> QED  BY <2>1, <2>2 DEF CallFault
  <1>4. faults' \in 0 .. MaxFaults /\ \A write \in late' : LateSound(write)
    BY <1>3, FaultCounted DEF IInv
  <1>5. \A write \in late' : LateSound(write)'
    BY <1>2, <1>4, LateKept
  <1>6. TypeOK'
    BY <1>1, <1>2, <1>4 DEF CatalogInv, IInv, TypeOK, Goto, stores
  <1>7. \A d \in Calls \ {c} : pc'[d] = pc[d] /\ at'[d] = at[d] /\ todo'[d] = todo[d]
    BY <1>1, OneCallMoves DEF IInv
  <1>8. CallSound(c)'
    <2>1. pc'[c] = "recover" /\ todo'[c] = todo[c]
      BY <1>1 DEF IInv, TypeOK, Goto
    <2> QED  BY <2>1, <1>2, CallTyped DEF CallSound, PlaceSound, CatalogMoves
  <1> QED  BY <1>1, <1>2, <1>5, <1>6, <1>7, <1>8, StepKeeps

------------------------------------------------------------------------------
(* Steps of the database alone: by the clock, and the queueing of a pass. *)
LEMMA DatabaseKeeps ==
  ASSUME IInv, CatalogNext, NothingReady, NothingDone,
         UNCHANGED <<stores, calls, passes, late>>, faults' \in 0 .. MaxFaults
  PROVE  IInv'
  <1>1. UNCHANGED <<cold, hot, tombstones, pc, todo, at, step, job, late>> /\ UNCHANGED stores
    BY DEF stores, calls, passes
  <1>2. CatalogInv' /\ CatalogMoves /\ StoresMove /\ StoresSound'
    BY <1>1, QuietStep
  <1>3. TypeOK'
    BY <1>1, <1>2 DEF CatalogInv, IInv, TypeOK
  <1> QED  BY <1>1, <1>2, <1>3, StepKeeps

LEMMA TimeKeeps ==
  ASSUME IInv, CollectExpired \/ Time \/ \E queue \in Queues, p \in Payloads : ClaimLost(queue, p)
  PROVE  CatalogNext /\ IInv'
  <1>0. CatalogInv /\ faults \in 0 .. MaxFaults /\ MaxFaults \in Nat
    BY FaultAssumption DEF IInv, TypeOK
  <1>1. CASE CollectExpired
    <2>1. PICK keys \in SUBSET Keys : Collect(keys)
      BY <1>1 DEF CollectExpired
    <2>2. CatalogNext
      BY <2>1 DEF CatalogNext, Clean
    <2>3. NothingReady /\ NothingDone
      BY <1>0, <2>1, CollectQuiet
    <2> QED  BY <1>0, <1>1, <2>2, <2>3, DatabaseKeeps DEF CollectExpired, accidents
  <1>2. ASSUME NEW k \in Keys, IntentExpires(k) PROVE CatalogNext /\ IInv'
    <2>1. CatalogNext
      BY <1>2 DEF IntentExpires, CatalogNext, Pass
    <2>2. NothingReady /\ NothingDone
      BY <1>2 DEF IntentExpires, Expire, NothingReady, NothingDone
    <2> QED  BY <1>0, <1>2, <2>1, <2>2, DatabaseKeeps DEF IntentExpires, accidents
  <1>3. ASSUME NEW m \in Memories, RetentionEnds(m) PROVE CatalogNext /\ IInv'
    <2>1. CatalogNext
      BY <1>3 DEF RetentionEnds, CatalogNext, Pass
    <2>2. NothingReady /\ NothingDone
      BY <1>3 DEF RetentionEnds, Lapse, NothingReady, NothingDone
    <2> QED  BY <1>0, <1>3, <2>1, <2>2, DatabaseKeeps DEF RetentionEnds, accidents
  <1>4. ASSUME NEW m \in Memories, EraseLapsed(m) PROVE CatalogNext /\ IInv'
    <2>1. CatalogNext
      BY <1>4 DEF EraseLapsed, CatalogNext
    <2>2. NothingReady /\ NothingDone
      BY <1>4, AutoEraseQuiet DEF EraseLapsed
    <2> QED  BY <1>0, <1>4, <2>1, <2>2, DatabaseKeeps DEF EraseLapsed, accidents
  <1>5. ASSUME NEW queue \in Queues, NEW p \in Payloads, RowDue(queue, p) PROVE CatalogNext /\ IInv'
    <2>1. CatalogNext
      BY <1>5 DEF RowDue, CatalogNext, Pass
    <2>2. NothingReady /\ NothingDone
      BY <1>0, <1>5, DueQuiet DEF RowDue
    <2> QED  BY <1>0, <1>5, <2>1, <2>2, DatabaseKeeps DEF RowDue, accidents
  <1>6. ASSUME NEW queue \in Queues, NEW p \in Payloads, ClaimLost(queue, p) PROVE CatalogNext /\ IInv'
    <2>1. CatalogNext
      BY <1>6 DEF ClaimLost, CatalogNext, Clean
    <2>2. NothingReady /\ NothingDone
      BY <1>0, <1>6, ClaimQuiet DEF ClaimLost
    <2>3. faults' \in 0 .. MaxFaults
      BY <1>0, <1>6 DEF ClaimLost
    <2> QED  BY <1>6, <2>1, <2>2, <2>3, DatabaseKeeps DEF ClaimLost
  <1> QED  BY <1>1, <1>2, <1>3, <1>4, <1>5, <1>6 DEF Time

------------------------------------------------------------------------------
(* Steps of a worker. *)
LEMMA OneWorkerMoves ==
  ASSUME TypeOK, NEW w \in Workers, NEW place, Walk(w, place),
         job' = job \/ (\E row : job' = [job EXCEPT ![w] = row])
  PROVE  \A v \in Workers \ {w} : step'[v] = step[v] /\ job'[v] = job[v]
  BY DEF TypeOK, Walk

LEMMA WorkerTyped ==
  ASSUME IInv, NEW w \in Workers, step[w] # "idle"
  PROVE  CleaningSound(step[w], job[w].queue, job[w].payload, job[w].attempt)
  BY DEF IInv, WorkerSound

LEMMA ClaimRowKeeps ==
  ASSUME IInv, NEW w \in Workers, NEW queue \in Queues, NEW p \in Payloads, ClaimRow(w, queue, p)
  PROVE  CatalogNext /\ IInv'
  <1> DEFINE attempt == queues[queue][p].attempts + 1
             place == IF queue = "purges" THEN "mark" ELSE "bury"
             row == [queue |-> queue, payload |-> p, attempt |-> attempt]
  <1>1. /\ Claim(queue, p)
        /\ Walk(w, place)
        /\ job' = [job EXCEPT ![w] = row]
        /\ UNCHANGED <<stores, calls, late, faults>>
    BY DEF ClaimRow, accidents
  <1>2. UNCHANGED <<cold, hot, tombstones, pc, todo, at, late, faults>> /\ UNCHANGED stores
    BY <1>1 DEF stores, calls
  <1>3. CatalogNext
    BY <1>1 DEF CatalogNext, Clean
  <1>4. CatalogInv' /\ CatalogMoves /\ StoresMove /\ StoresSound'
    BY <1>2, <1>1, <1>3, ClaimQuiet, QuietStep DEF IInv
  <1>5. attempt \in 1 .. MaxAttempts
    BY <1>1, LimitAssumption DEF Claim, IInv, CatalogInv, CatalogTypeOK, Row
  <1>6. /\ Queued(queue, p)'
        /\ queue = "purges" => stages'[p] = "purge_pending"
    <2>1. Queued(queue, p)
      BY <1>1 DEF Claim, Claimable, Queued
    <2>2. queue = "purges" => stages'[p] = "purge_pending"
      BY <1>1 DEF Claim, IInv, CatalogInv, CatalogTypeOK
    <2> QED  BY <1>4, <2>1, <2>2 DEF CatalogMoves
  <1> HIDE DEF attempt
  <1>7. TypeOK'
    <2>1. job' \in [Workers -> [queue : Queues \cup {"none"}, payload : Payloads \cup {NoPayload},
                               attempt : 0 .. MaxAttempts]]
      BY <1>1, <1>5 DEF IInv, TypeOK
    <2>2. step' \in [Workers -> {"idle", "mark", "bury", "acknowledge"}]
      BY <1>1 DEF IInv, TypeOK, Walk
    <2> QED  BY <1>2, <1>4, <2>1, <2>2 DEF CatalogInv, IInv, TypeOK
  <1>8. \A v \in Workers \ {w} : step'[v] = step[v] /\ job'[v] = job[v]
    BY <1>1, OneWorkerMoves DEF IInv
  <1>9. WorkerSound(w)'
    <2>1. step'[w] = place /\ job'[w].queue = queue /\ job'[w].payload = p /\ job'[w].attempt = attempt
      BY <1>1 DEF IInv, TypeOK, Walk
    <2> QED  BY <1>5, <1>6, <2>1 DEF WorkerSound, CleaningSound
  <1> QED  BY <1>2, <1>3, <1>4, <1>7, <1>8, <1>9, StepKeeps

LEMMA MarkKeeps ==
  ASSUME IInv, NEW w \in Workers, Mark(w)
  PROVE  IInv'
  <1>1. CleaningSound("mark", job[w].queue, job[w].payload, job[w].attempt)
    BY WorkerTyped DEF Mark
  <1>2. job[w].payload \in Payloads /\ stages[job[w].payload] \in {"purge_pending", "purged"}
    BY <1>1 DEF CleaningSound
  <1>3. /\ MarkCold(job[w].payload)
        /\ Walk(w, "bury")
        /\ UNCHANGED catalogVars /\ UNCHANGED <<hot, tombstones, job, pc, todo, at, late, faults>>
    BY DEF Mark, calls, accidents
  <1>4. CatalogInv' /\ CatalogMoves
    BY <1>3, DatabaseRests
  <1>5. StoresMove /\ StoresSound' /\ cold' \in [Payloads -> {"absent", "payload", "purged"}]
    BY <1>2, <1>3, MarkColdSound
  <1>6. TypeOK'
    BY <1>3, <1>4, <1>5 DEF CatalogInv, IInv, TypeOK, Walk
  <1>7. \A v \in Workers \ {w} : step'[v] = step[v] /\ job'[v] = job[v]
    BY <1>3, OneWorkerMoves DEF IInv
  <1>8. WorkerSound(w)'
    <2>1. CleaningSound("mark", job[w].queue, job[w].payload, job[w].attempt)'
      BY <1>1, <1>3, <1>4, <1>5, CleaningKept
    <2>2. step'[w] = "bury"
      BY <1>3 DEF IInv, TypeOK, Walk
    <2> QED  BY <2>1, <2>2 DEF WorkerSound, CleaningSound
  <1> QED  BY <1>3, <1>4, <1>5, <1>6, <1>7, <1>8, StepKeeps

LEMMA EntombKeeps ==
  ASSUME IInv, NEW w \in Workers, Entomb(w)
  PROVE  IInv'
  <1> DEFINE queue == job[w].queue
             p == job[w].payload
  <1>1. CleaningSound("bury", queue, p, job[w].attempt)
    BY WorkerTyped DEF Entomb
  <1>2. queue \in Queues /\ p \in Payloads /\ Queued(queue, p)
    BY <1>1 DEF CleaningSound
  <1>3. /\ Bury(p)
        /\ Walk(w, "acknowledge")
        /\ queue = "purges" => cold[p] = "purged"
        /\ UNCHANGED catalogVars /\ UNCHANGED <<cold, job, pc, todo, at, late, faults>>
    BY DEF Entomb, calls, accidents
  <1>4. CatalogInv' /\ CatalogMoves
    BY <1>3, DatabaseRests
  <1>5. StoresMove /\ StoresSound' /\ hot' \subseteq Payloads /\ tombstones' \subseteq Payloads /\ p \in tombstones'
    BY <1>2, <1>3, BurySound
  <1>6. TypeOK'
    BY <1>3, <1>4, <1>5 DEF CatalogInv, IInv, TypeOK, Walk
  <1>7. \A v \in Workers \ {w} : step'[v] = step[v] /\ job'[v] = job[v]
    BY <1>3, OneWorkerMoves DEF IInv
  <1>8. WorkerSound(w)'
    <2>1. CleaningSound("bury", job[w].queue, job[w].payload, job[w].attempt)'
      BY <1>1, <1>3, <1>4, <1>5, CleaningKept
    <2>2. Cleaned(job[w].queue, job[w].payload)'
      BY <1>3, <1>5 DEF Cleaned
    <2>3. step'[w] = "acknowledge"
      BY <1>3 DEF IInv, TypeOK, Walk
    <2> QED  BY <2>1, <2>2, <2>3 DEF WorkerSound, CleaningSound
  <1> QED  BY <1>3, <1>4, <1>5, <1>6, <1>7, <1>8, StepKeeps

(* An acknowledgement, of a worker or executed late. *)
LEMMA AcknowledgeSound ==
  ASSUME IInv, NEW queue, NEW p, NEW attempt, CleaningSound("acknowledge", queue, p, attempt),
         Acknowledge(queue, p, attempt), UNCHANGED stores
  PROVE  CatalogNext /\ CatalogInv' /\ CatalogMoves /\ StoresMove /\ StoresSound'
  <1>1. queue \in Queues /\ p \in Payloads /\ attempt \in 1 .. MaxAttempts /\ Cleaned(queue, p)
    BY DEF CleaningSound
  <1>2. CatalogNext
    BY <1>1 DEF CatalogNext, Clean
  <1>3. CatalogInv' /\ CatalogMoves
    BY <1>2, CatalogStep DEF IInv
  <1>4. /\ NothingReady
        /\ \A q \in Queues, o \in Payloads :
             queues'[q][o].state = "done" => queues[q][o].state = "done" \/ (q = queue /\ o = p)
    BY <1>1, AcknowledgeOnly DEF IInv
  <1>5. \A q \in Queues, o \in Payloads :
          queues'[q][o].state = "done" => queues[q][o].state = "done" \/ Cleaned(q, o)
    BY <1>1, <1>4
  <1>6. StoresMove /\ StoresSound'
    BY <1>3, <1>4, <1>5, StoresKept DEF NothingReady
  <1> QED  BY <1>2, <1>3, <1>6

LEMMA FinishKeeps ==
  ASSUME IInv, NEW w \in Workers, Finish(w)
  PROVE  [CatalogNext]_catalogVars /\ IInv'
  <1>1. CleaningSound("acknowledge", job[w].queue, job[w].payload, job[w].attempt)
    BY WorkerTyped DEF Finish
  <1>2. Walk(w, "idle") /\ UNCHANGED stores /\ UNCHANGED <<job, pc, todo, at, late, faults>>
    BY DEF Finish, calls, accidents
  <1>3. [CatalogNext]_catalogVars /\ CatalogInv' /\ CatalogMoves /\ StoresMove /\ StoresSound'
    <2>1. CASE Acknowledge(job[w].queue, job[w].payload, job[w].attempt)
      BY <2>1, <1>1, <1>2, AcknowledgeSound
    <2>2. CASE UNCHANGED catalogVars
      BY <2>2, <1>2, NoStep
    <2> QED  BY <2>1, <2>2 DEF Finish
  <1>4. TypeOK'
    BY <1>2, <1>3 DEF CatalogInv, IInv, TypeOK, Walk, stores
  <1>5. \A v \in Workers \ {w} : step'[v] = step[v] /\ job'[v] = job[v]
    BY <1>2, OneWorkerMoves DEF IInv
  <1>6. WorkerSound(w)'
    BY <1>2 DEF IInv, TypeOK, Walk, WorkerSound
  <1> QED  BY <1>2, <1>3, <1>4, <1>5, <1>6, StepKeeps

LEMMA WorkerFaultKeeps ==
  ASSUME IInv, NEW w \in Workers, WorkerFault(w)
  PROVE  IInv'
  <1> DEFINE write == [NoWrite EXCEPT !.write = step[w], !.payload = job[w].payload,
                                      !.queue = job[w].queue, !.attempt = job[w].attempt]
  <1>1. CleaningSound(step[w], job[w].queue, job[w].payload, job[w].attempt)
    BY WorkerTyped DEF WorkerFault
  <1>2. /\ Accident(write)
        /\ Walk(w, "idle")
        /\ UNCHANGED <<catalogVars, stores>> /\ UNCHANGED <<job, pc, todo, at>>
    BY DEF WorkerFault, calls
  <1>3. CatalogInv' /\ CatalogMoves /\ StoresMove /\ StoresSound'
    BY <1>2, NoStep
  <1>4. LateSound(write)
    <2>1. step[w] \in CleaningWrites
      BY DEF WorkerFault, IInv, TypeOK, CleaningWrites
    <2>2. /\ write.write = step[w] /\ write.payload = job[w].payload
          /\ write.queue = job[w].queue /\ write.attempt = job[w].attempt
      BY DEF NoWrite
    <2> HIDE DEF write
    <2> QED  BY <1>1, <2>1, <2>2 DEF LateSound, CleaningWrites, CallWrites
  <1> HIDE DEF write
  <1>5. faults' \in 0 .. MaxFaults /\ late' = late \cup {write}
    BY <1>2, FaultCounted
  <1>6. \A any \in late' : LateSound(any)
    BY <1>4, <1>5 DEF IInv
  <1>7. \A any \in late' : LateSound(any)'
    BY <1>3, <1>6, LateKept
  <1>8. TypeOK'
    BY <1>2, <1>3, <1>5 DEF CatalogInv, IInv, TypeOK, Walk, stores
  <1>9. \A v \in Workers \ {w} : step'[v] = step[v] /\ job'[v] = job[v]
    BY <1>2, OneWorkerMoves DEF IInv
  <1>10. WorkerSound(w)'
    BY <1>2 DEF IInv, TypeOK, Walk, WorkerSound
  <1> QED  BY <1>2, <1>3, <1>7, <1>8, <1>9, <1>10, StepKeeps

------------------------------------------------------------------------------
(* Writes nobody waits for, executed. *)
LEMMA LateStoreSound ==
  ASSUME IInv, NEW write, LateSound(write), LateStore(write)
  PROVE  /\ UNCHANGED catalogVars
         /\ StoresMove /\ StoresSound'
         /\ cold' \in [Payloads -> {"absent", "payload", "purged"}]
         /\ hot' \subseteq Payloads /\ tombstones' \subseteq Payloads
  <1> DEFINE p == write.payload
  <1>1. UNCHANGED catalogVars
    BY DEF LateStore
  <1>2. /\ cold \in [Payloads -> {"absent", "payload", "purged"}]
        /\ hot \subseteq Payloads /\ tombstones \subseteq Payloads
    BY DEF IInv, TypeOK
  <1>3. CASE write.write = "create" /\ CreateCold(p) /\ UNCHANGED <<hot, tombstones>>
    <2>1. p \in Payloads /\ stages[p] # "absent"
      BY <1>3 DEF LateSound, CallWrites
    <2> QED  BY <1>1, <1>2, <1>3, <2>1, CreateColdSound
  <1>4. CASE write.write = "mark" /\ MarkCold(p) /\ UNCHANGED <<hot, tombstones>>
    <2>1. p \in Payloads /\ stages[p] \in {"purge_pending", "purged"}
      BY <1>4 DEF LateSound, CleaningWrites, CleaningSound
    <2> QED  BY <1>1, <1>2, <1>4, <2>1, MarkColdSound
  <1>5. CASE write.write = "insert" /\ p \notin tombstones /\ InsertHot(p) /\ UNCHANGED <<cold, tombstones>>
    <2>1. p \in Payloads /\ stages[p] # "absent"
      BY <1>5 DEF LateSound, CallWrites
    <2> QED  BY <1>1, <1>2, <1>5, <2>1, InsertHotSound
  <1>6. CASE write.write = "bury" /\ Bury(p) /\ UNCHANGED cold
    <2>1. write.queue \in Queues /\ p \in Payloads /\ Queued(write.queue, p)
      BY <1>6 DEF LateSound, CleaningWrites, CleaningSound
    <2> QED  BY <1>1, <1>2, <1>6, <2>1, BurySound
  <1> QED  BY <1>3, <1>4, <1>5, <1>6 DEF LateStore

LEMMA LateCatalogSound ==
  ASSUME IInv, NEW write, LateSound(write), LateCatalog(write)
  PROVE  CatalogNext /\ CatalogInv' /\ CatalogMoves /\ StoresMove /\ StoresSound'
  <1>1. UNCHANGED stores
    BY DEF LateCatalog
  <1>2. CASE write.write = "plan" /\ Plan(write.request)
    <2>1. write.request \in Requests
      BY <1>2 DEF LateSound
    <2>2. CatalogNext
      BY <1>2, <2>1 DEF CatalogNext, Write
    <2> QED  BY <1>1, <1>2, <2>1, <2>2, PlanQuiet, QuietStep
  <1>3. CASE write.write = "commit" /\ Commit(write.request)
    <2>1. write.request \in Requests
      BY <1>3 DEF LateSound
    <2>2. CatalogNext
      BY <1>3, <2>1 DEF CatalogNext, Write
    <2> QED  BY <1>1, <1>3, <2>1, <2>2, CommitQuiet, QuietStep
  <1>4. CASE write.write = "ready" /\ MakeReady(write.payload)
    <2>1. write.payload \in Payloads /\ WasStaged(write.payload)
      BY <1>4 DEF LateSound, CallWrites
    <2>2. CatalogNext
      BY <1>4, <2>1 DEF CatalogNext
    <2>3. CatalogInv' /\ CatalogMoves
      BY <2>2, CatalogStep DEF IInv
    <2>4. CatalogInv
      BY DEF IInv
    <2>5. /\ \A p \in Payloads : stages'[p] \in {"ready", "published"} =>
               stages[p] \in {"ready", "published"} \/ WasStaged(p)
          /\ NothingDone
      BY <1>4, <2>1, <2>4, MakeReadyOnly
    <2> QED  BY <1>1, <2>2, <2>3, <2>5, StoresKept DEF NothingDone
  <1>5. CASE write.write = "acknowledge" /\ Acknowledge(write.queue, write.payload, write.attempt)
    <2>1. CleaningSound("acknowledge", write.queue, write.payload, write.attempt)
      BY <1>5 DEF LateSound, CleaningWrites
    <2> QED  BY <1>1, <1>5, <2>1, AcknowledgeSound
  <1> QED  BY <1>2, <1>3, <1>4, <1>5 DEF LateCatalog

LEMMA LateWriteKeeps ==
  ASSUME IInv, NEW write \in late, LateWrite(write)
  PROVE  [CatalogNext]_catalogVars /\ IInv'
  <1>1. LateSound(write)
    BY DEF IInv
  <1>2. late' \subseteq late /\ UNCHANGED <<pc, todo, at, step, job, faults>>
    BY DEF LateWrite, calls, passes
  <1>3. /\ [CatalogNext]_catalogVars /\ CatalogInv' /\ CatalogMoves /\ StoresMove /\ StoresSound'
        /\ cold' \in [Payloads -> {"absent", "payload", "purged"}]
        /\ hot' \subseteq Payloads /\ tombstones' \subseteq Payloads
    <2>1. CASE LateStore(write)
      BY <2>1, <1>1, LateStoreSound, DatabaseRests
    <2>2. CASE LateCatalog(write)
      <3>1. UNCHANGED <<cold, hot, tombstones>>
        BY <2>2 DEF LateCatalog, stores
      <3> QED  BY <2>2, <3>1, <1>1, LateCatalogSound DEF IInv, TypeOK
    <2> QED  BY <2>1, <2>2 DEF LateWrite
  <1>4. TypeOK'
    BY <1>2, <1>3 DEF CatalogInv, IInv, TypeOK
  <1> QED  BY <1>2, <1>3, <1>4, StepKeeps

------------------------------------------------------------------------------
LEMMA InitKeeps == Init => IInv
  <1> SUFFICES ASSUME Init
               PROVE  IInv
    OBVIOUS
  <1>1. CatalogInv
    BY CatalogInitKeeps DEF Init
  <1>2. SeedItems \subseteq Payloads
    BY SeedShape
  <1>3. TypeOK
    BY <1>1, <1>2, FaultAssumption, LimitAssumption DEF CatalogInv, Init, TypeOK
  <1>4. /\ \A p \in Payloads : stages[p] = IF p \in SeedItems THEN "published" ELSE "absent"
        /\ \A p \in Payloads : cold[p] = IF p \in SeedItems THEN "payload" ELSE "absent"
        /\ hot = SeedItems /\ tombstones = {}
    BY DEF Init, CatalogInit
  <1>5. \A queue \in Queues, p \in Payloads : queues[queue][p].state = "absent"
    BY DEF Init, CatalogInit, NoRow
  <1>6. StoresSound
    BY <1>4, <1>5 DEF StoresSound, WasStaged
  <1>7. \A c \in Calls : CallSound(c)
    BY DEF Init, CallSound, PlaceSound
  <1>8. (\A w \in Workers : WorkerSound(w)) /\ \A write \in late : LateSound(write)
    BY DEF Init, WorkerSound
  <1> QED  BY <1>1, <1>3, <1>6, <1>7, <1>8 DEF IInv

LEMMA NextKeeps ==
  ASSUME IInv, [Next]_vars
  PROVE  [CatalogNext]_catalogVars /\ IInv'
  <1>1. ASSUME NEW c \in Calls, Reading(c) PROVE [CatalogNext]_catalogVars /\ IInv'
    <2>1. UNCHANGED catalogVars
      BY <1>1 DEF Reading, BeginRead, BeginDirect, Read, Confirm, Recover
    <2> QED  BY <1>1, <2>1, ReadingKeeps
  <1>2. ASSUME NEW c \in Calls, Preparing(c) PROVE [CatalogNext]_catalogVars /\ IInv'
    <2>1. UNCHANGED catalogVars \/ PrepareFirst(c)
      BY <1>2 DEF Preparing, PrepareAgain, PrepareRefused, PrepareReplay
    <2>2. IInv'
      BY <1>2, PrepareFirstKeeps, PrepareAgainKeeps, DetourKeeps DEF Preparing
    <2> QED  BY <2>1, <2>2, PrepareFirstKeeps
  <1>3. ASSUME NEW c \in Calls, Staging(c) PROVE [CatalogNext]_catalogVars /\ IInv'
    <2>1. UNCHANGED catalogVars \/ Ready(c)
      BY <1>3 DEF Staging, PutCold, CheckCold, PutHot, Verify, ReadyAlready, ReadyRefused
    <2>2. IInv'
      BY <1>3, PutColdKeeps, ChecksKeep, PutHotKeeps, ReadyKeeps, ReadyAlreadyKeeps, DetourKeeps DEF Staging
    <2> QED  BY <2>1, <2>2, ReadyKeeps
  <1>4. ASSUME NEW c \in Calls, Committing(c) PROVE [CatalogNext]_catalogVars /\ IInv'
    <2>1. UNCHANGED catalogVars \/ CommitFirst(c)
      BY <1>4 DEF Committing, CommitReplay, CommitRefused
    <2>2. IInv'
      BY <1>4, CommitFirstKeeps, DetourKeeps DEF Committing
    <2> QED  BY <2>1, <2>2, CommitFirstKeeps
  <1>5. ASSUME NEW w \in Workers, Cleaning(w) PROVE [CatalogNext]_catalogVars /\ IInv'
    <2>1. ASSUME ClaimAny(w) PROVE [CatalogNext]_catalogVars /\ IInv'
      BY <2>1, ClaimRowKeeps DEF ClaimAny
    <2>2. ASSUME Mark(w) \/ Entomb(w) PROVE [CatalogNext]_catalogVars /\ IInv'
      BY <2>2, MarkKeeps, EntombKeeps DEF Mark, Entomb
    <2> QED  BY <1>5, <2>1, <2>2, FinishKeeps DEF Cleaning
  <1>6. ASSUME CollectExpired \/ Time PROVE [CatalogNext]_catalogVars /\ IInv'
    BY <1>6, TimeKeeps
  <1>7. ASSUME Accidents PROVE [CatalogNext]_catalogVars /\ IInv'
    <2>1. ASSUME NEW c \in Calls, CallFault(c) PROVE [CatalogNext]_catalogVars /\ IInv'
      BY <2>1, CallFaultKeeps DEF CallFault
    <2>2. ASSUME NEW w \in Workers, WorkerFault(w) PROVE [CatalogNext]_catalogVars /\ IInv'
      BY <2>2, WorkerFaultKeeps DEF WorkerFault
    <2> QED  BY <1>7, <2>1, <2>2, TimeKeeps, LateWriteKeeps DEF Accidents
  <1>8. CASE UNCHANGED vars
    <2>1. /\ UNCHANGED <<catalogVars, stores>>
          /\ UNCHANGED <<cold, hot, tombstones, pc, todo, at, step, job, late, faults>>
      BY <1>8 DEF vars, stores, calls, passes, accidents
    <2>2. CatalogInv' /\ CatalogMoves /\ StoresMove /\ StoresSound'
      BY <2>1, NoStep
    <2>3. TypeOK'
      BY <2>1, <2>2 DEF CatalogInv, IInv, TypeOK
    <2>4. IInv'
      BY <2>1, <2>2, <2>3, StepKeeps
    <2> QED  BY <2>1, <2>4
  <1> QED  BY <1>1, <1>2, <1>3, <1>4, <1>5, <1>6, <1>7, <1>8 DEF Next

(* The inductive invariant of calls, workers, stores and late writes. *)
THEOREM PayloadsInvariant == Spec => []IInv
  <1>1. Init => IInv
    BY InitKeeps
  <1>2. IInv /\ [Next]_vars => IInv'
    BY NextKeeps
  <1> QED  BY <1>1, <1>2, PTL DEF Spec

(* The database moves as PayloadCatalog says, whatever calls, passes and late *)
(* writes do to it.                                                           *)
THEOREM CatalogRefined == Spec => CatalogSpec
  <1>1. Init => CatalogInit
    BY DEF Init
  <1>2. IInv /\ [Next]_vars => [CatalogNext]_catalogVars
    BY NextKeeps
  <1> QED  BY <1>1, <1>2, PayloadsInvariant, PTL DEF Spec, CatalogSpec

(* Everything is well typed. *)
THEOREM TypeCorrect == Spec => []TypeOK
  <1>1. IInv => TypeOK
    BY DEF IInv
  <1> QED  BY <1>1, PayloadsInvariant, PTL

(* What a memory or its history refers to can be read (confirmRead and        *)
(* hydrateRows rely on it), and a live memory is found by search: what is     *)
(* published was written to both stores, and nothing referenced is in a queue *)
(* from which clean-up, in time or late, takes what it removes.               *)
THEOREM AlwaysReadable == Spec => []ReferencedReadable
  <1>1. IInv => ReferencedReadable
    <2> SUFFICES ASSUME IInv, NEW p \in Payloads
                 PROVE  /\ Referenced(p) => cold[p] = "payload"
                        /\ IsHead(p) => p \in hot \ tombstones
      BY DEF ReferencedReadable
    <2>1. Referenced(p) => stages[p] = "published"
      BY RequestAssumption
      DEF Referenced, IsHead, InHistory, IInv, CatalogInv, ReferencesPublished
    <2>2. stages[p] = "published" => cold[p] = "payload" /\ p \in hot \cup tombstones
      BY DEF IInv, StoresSound, WasStaged, TypeOK
    <2>3. IsHead(p) => p \notin tombstones
      BY DEF IInv, StoresSound, CatalogInv, QueuedIsUnreferenced, Unreferenced
    <2> QED  BY <2>1, <2>2, <2>3 DEF Referenced
  <1> QED  BY <1>1, PayloadsInvariant, PTL

(* What clean-up has acknowledged stays away, although writes of calls that  *)
(* gave up may be executed at any later time.                                *)
THEOREM AlwaysCleanedForGood == Spec => []CleanedForGood
  <1>1. IInv => CleanedForGood
    BY DEF IInv, StoresSound, CleanedForGood, Cleaned, Queues
  <1> QED  BY <1>1, PayloadsInvariant, PTL

------------------------------------------------------------------------------
(* The receipts of a memory that no step of the database concerns. *)
LEMMA RevisionsRest ==
  ASSUME NEW m \in Memories, RevisionsCounted(m),
         memories'[m].revision = memories[m].revision, memories'[m].erased = memories[m].erased,
         \A k \in Keys : receipts'[k] = receipts[k] \/
           (receipts[k] = NoRequest /\ m \notin receipts'[k].memories)
  PROVE  RevisionsCounted(m)'
  <1>1. Writes(m)' = Writes(m) /\ \A k \in Writes(m) : receipts'[k] = receipts[k]
    BY DEF Writes
  <1>2. RevisionsOf(m)' = RevisionsOf(m) /\ (EraseReceipt(m)' <=> EraseReceipt(m))
    BY <1>1 DEF RevisionsOf, EraseReceipt
  <1> QED  BY <1>2 DEF RevisionsCounted

LEMMA RevisionsFinite ==
  ASSUME CatalogInv, NEW m \in Memories, RevisionsCounted(m)
  PROVE  IsFiniteSet(RevisionsOf(m)) /\ Cardinality(RevisionsOf(m)) \in Nat /\ memories[m].revision \in Nat
  <1>1. memories[m].revision \in Nat
    BY DEF CatalogInv, CatalogTypeOK, Memory
  <1>2. IsFiniteSet(0 .. memories[m].revision - 1)
    BY <1>1, FS_Interval
  <1>3. IsFiniteSet(RevisionsOf(m))
    BY <1>2, FS_Subset DEF RevisionsCounted
  <1> QED  BY <1>1, <1>3, FS_CardinalityType

(* A commit adds the revision it expected, which is the current one. *)
LEMMA CommitCounted ==
  ASSUME CatalogInv, NEW m \in Memories, RevisionsCounted(m), NEW request \in Requests, Commit(request)
  PROVE  RevisionsCounted(m)'
  <1> DEFINE key == request.key
  <1>1. /\ key \in Keys /\ request # NoRequest /\ request.action \in Actions
        /\ request.memories \subseteq Memories
        /\ receipts[key] = NoRequest
        /\ \A k \in Keys : receipts'[k] = IF k = key THEN request ELSE receipts[k]
        /\ Change(request.action, key, request.memories)
    BY RequestShape DEF Commit, Admissible, CatalogInv, CatalogTypeOK
  <1>2. CASE m \notin request.memories
    <2>1. memories'[m] = memories[m]
      BY <1>1, <1>2 DEF Change
    <2> QED  BY <1>1, <1>2, <2>1, RevisionsRest
  <1>3. CASE m \in request.memories
    <2>1. /\ memories'[m].revision = memories[m].revision + 1
          /\ memories'[m].erased <=> request.action = "erase"
      <3>1. request.action \in Prepared => key \in Keys
        BY <1>1
      <3> QED  BY <1>1, <1>3, <3>1, ChangedRows
    <2>2. /\ request.revision = memories[m].revision
          /\ ~ memories[m].erased
      <3>1. CASE request.action = "create"
        <4>1. memories[m].revision = 0 /\ request.revision = 0
          BY <1>3, <3>1, RequestAssumption DEF Commit, Admissible, RevisionMatches
        <4>2. ~ memories[m].erased
          BY <4>1 DEF CatalogInv, HeadsExist
        <4> QED  BY <4>1, <4>2
      <3>2. CASE request.action # "create"
        BY <1>3, <3>2 DEF Commit, Admissible, RevisionMatches
      <3> QED  BY <3>1, <3>2
    <2>3. /\ Writes(m)' = Writes(m) \cup {key} /\ key \notin Writes(m)
          /\ receipts'[key] = request
          /\ \A k \in Writes(m) : receipts'[k] = receipts[k]
      BY <1>1, <1>3 DEF Writes
    <2>4. RevisionsOf(m)' = RevisionsOf(m) \cup {memories[m].revision}
      BY <2>2, <2>3 DEF RevisionsOf
    <2>5. EraseReceipt(m)' <=> request.action = "erase"
      <3>1. ~ EraseReceipt(m)
        BY <2>2 DEF RevisionsCounted
      <3> QED  BY <2>3, <3>1 DEF EraseReceipt
    <2>6. /\ IsFiniteSet(RevisionsOf(m)) /\ Cardinality(RevisionsOf(m)) \in Nat
          /\ memories[m].revision \in Nat
          /\ RevisionsOf(m) \subseteq 0 .. memories[m].revision - 1
          /\ memories[m].revision = Cardinality(RevisionsOf(m)) + (IF m \in Trash THEN 1 ELSE 0)
      BY RevisionsFinite, <2>2 DEF RevisionsCounted
    <2>7. memories[m].revision \notin RevisionsOf(m)
      BY <2>6
    <2>8. Cardinality(RevisionsOf(m)') = Cardinality(RevisionsOf(m)) + 1
      BY <2>4, <2>6, <2>7, FS_AddElement
    <2>9. RevisionsOf(m)' \subseteq 0 .. memories'[m].revision - 1
      BY <2>1, <2>4, <2>6
    <2>10. memories'[m].revision = Cardinality(RevisionsOf(m)') + (IF m \in Trash THEN 1 ELSE 0)
      BY <2>1, <2>6, <2>8
    <2>11. Cardinality(RevisionsOf(m)') \in Nat /\ (EraseReceipt(m)' <=> memories'[m].erased)
      BY <2>1, <2>5, <2>6, <2>8
    <2> HIDE DEF RevisionsOf, EraseReceipt
    <2> QED  BY <2>9, <2>10, <2>11 DEF RevisionsCounted
  <1> QED  BY <1>2, <1>3

LEMMA AutoEraseCounted ==
  ASSUME CatalogInv, NEW m \in Memories, RevisionsCounted(m), NEW n \in Memories, AutoErase(n)
  PROVE  RevisionsCounted(m)'
  <1>1. CASE m # n
    BY <1>1, RevisionsRest DEF AutoErase, Change
  <1>2. CASE m = n
    <2>1. memories'[m].revision = memories[m].revision + 1 /\ memories'[m].erased
      BY <1>2 DEF AutoErase, Change, After
    <2>2. ~ memories[m].erased /\ ~ EraseReceipt(m) /\ ~ EraseReceipt(m)'
      BY <1>2 DEF AutoErase, RevisionsCounted, EraseReceipt, Writes
    <2>3. RevisionsOf(m)' = RevisionsOf(m)
      BY DEF AutoErase, RevisionsOf, Writes
    <2>4. /\ Cardinality(RevisionsOf(m)) \in Nat /\ memories[m].revision \in Nat
          /\ RevisionsOf(m) \subseteq 0 .. memories[m].revision - 1
          /\ memories[m].revision = Cardinality(RevisionsOf(m)) + (IF m \in Trash THEN 1 ELSE 0)
      BY <2>2, RevisionsFinite DEF RevisionsCounted
    <2>5. RevisionsOf(m)' \subseteq 0 .. memories'[m].revision - 1
      BY <2>1, <2>3, <2>4
    <2> QED  BY <2>1, <2>2, <2>3, <2>4, <2>5 DEF RevisionsCounted
  <1> QED  BY <1>1, <1>2

LEMMA InitCounted ==
  ASSUME CatalogInit, NEW m \in Memories
  PROVE  RevisionsCounted(m)
  <1>1. memories[m] = SeedMemory(m) /\ \A k \in Keys : receipts[k] = SeedOf(k)
    BY DEF CatalogInit
  <1>2. \A k \in Writes(m) : receipts[k].action = "create" /\ receipts[k].revision = 0
    BY <1>1, SeedShape, SeedAssumption, RequestAssumption DEF Writes
  <1>3. ~ EraseReceipt(m) /\ ~ memories[m].erased
    BY <1>1, <1>2, SeedMemoryShape DEF EraseReceipt
  <1>4. CASE \E p \in SeedItems : p[2] = m
    <2>1. PICK s \in Seeds : m \in s.memories
      BY <1>4 DEF SeedItems, ItemsOf
    <2>2. s.key \in Writes(m)
      BY <1>1, <2>1, SeedShape, RequestShape DEF Writes
    <2>3. RevisionsOf(m) = {0}
      BY <1>2, <2>2 DEF RevisionsOf
    <2>4. Cardinality(RevisionsOf(m)) = 1
      BY <2>3, FS_Singleton
    <2>5. memories[m].revision = IF m \in Trash THEN 2 ELSE 1
      BY <1>1, <1>4 DEF SeedMemory
    <2> QED  BY <1>3, <2>3, <2>4, <2>5 DEF RevisionsCounted
  <1>5. CASE ~ \E p \in SeedItems : p[2] = m
    <2>1. ASSUME NEW s \in Seeds, m \in s.memories PROVE FALSE
      <3>1. <<s.key, m>> \in SeedItems
        BY <2>1, SeedShape DEF ItemsOf
      <3> QED  BY <1>5, <3>1
    <2>2. m \notin Trash
      BY <2>1, SeedAssumption
    <2>3. Writes(m) = {}
      BY <1>1, <2>1, SeedShape DEF Writes
    <2>4. RevisionsOf(m) = {} /\ Cardinality(RevisionsOf(m)) = 0
      BY <2>3, FS_EmptySet DEF RevisionsOf
    <2>5. memories[m].revision = 0
      BY <1>1, <1>5 DEF SeedMemory, NoMemory
    <2> QED  BY <1>3, <2>2, <2>4, <2>5 DEF RevisionsCounted
  <1> QED  BY <1>4, <1>5

LEMMA RevisionsKept ==
  ASSUME CatalogInv, NEW m \in Memories, RevisionsCounted(m), [CatalogNext]_catalogVars
  PROVE  RevisionsCounted(m)'
  <1>1. ASSUME UNCHANGED <<receipts, memories>> PROVE RevisionsCounted(m)'
    BY <1>1, RevisionsRest
  <1>2. ASSUME NEW request \in Requests, Plan(request) PROVE RevisionsCounted(m)'
    BY <1>1, <1>2 DEF Plan
  <1>3. ASSUME NEW request \in Requests, Commit(request) PROVE RevisionsCounted(m)'
    BY <1>3, CommitCounted
  <1>4. ASSUME NEW p \in Payloads, MakeReady(p) PROVE RevisionsCounted(m)'
    BY <1>1, <1>4 DEF MakeReady
  <1>5. ASSUME NEW n \in Memories, AutoErase(n) PROVE RevisionsCounted(m)'
    BY <1>5, AutoEraseCounted
  <1>6. ASSUME Clean PROVE RevisionsCounted(m)'
    BY <1>1, <1>6 DEF Clean, Collect, Claim, Acknowledge
  <1>7. ASSUME Pass PROVE RevisionsCounted(m)'
    BY <1>1, <1>7 DEF Pass, Expire, Lapse, Due
  <1>8. CASE UNCHANGED catalogVars
    BY <1>1, <1>8 DEF catalogVars
  <1> QED  BY <1>2, <1>3, <1>4, <1>5, <1>6, <1>7, <1>8 DEF CatalogNext, Write

(* Each revision of a memory is the effect of one receipt that expected the  *)
(* one before, or of the automatic erasure (commit compares the revision in  *)
(* the transaction that raises it).                                          *)
THEOREM RevisionsAlwaysHaveReceipts == Spec => []RevisionsHaveReceipts
  <1> DEFINE Counted == \A m \in Memories : RevisionsCounted(m)
  <1>1. CatalogInit => Counted
    BY InitCounted
  <1>2. CatalogInv /\ Counted /\ [CatalogNext]_catalogVars => Counted'
    BY RevisionsKept
  <1>3. Counted => RevisionsHaveReceipts
    BY DEF RevisionsCounted, RevisionsHaveReceipts, RevisionsOf
  <1> HIDE DEF Counted
  <1> QED  BY <1>1, <1>2, <1>3, CatalogRefined, CatalogInvariant, PTL DEF CatalogSpec
================================================================================
