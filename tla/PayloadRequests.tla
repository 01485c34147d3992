---------------------------- MODULE PayloadRequests ----------------------------
(* What clients ask of external payloads, and the limits of the service: the *)
(* parameters of PayloadCatalog and Payloads.  A request that creates stands *)
(* for the memories whose ids the service generates for it, and expects no   *)
(* revision.                                                                 *)
EXTENDS Integers, FiniteSets

CONSTANTS
  Keys,         \* idempotency keys of clients
  Memories,     \* memory ids
  Requests,     \* what clients ask: [key, action, memories, revision]
  NoRequest,    \* a key without a row
  NoPayload,    \* memories.payload_id of a memory without a payload
  Seeds,        \* creations committed before the behaviour starts
  Trash,        \* memories of Seeds deleted before the behaviour starts
  StageLimit,   \* staged items of an account, 200 in the code
  MaxAttempts   \* bound: claims of one queue row

Actions == {"create", "update", "delete", "restore", "erase"}
Prepared == {"create", "update"}
Payloads == Keys \X Memories

ASSUME RequestAssumption ==
  /\ \A r \in Requests :
       /\ r \in [key : Keys, action : Actions, memories : SUBSET Memories, revision : Nat]
       /\ IsFiniteSet(r.memories)
       /\ r.action # "create" => \E m \in Memories : r.memories = {m}
       /\ IF r.action = "create" THEN r.revision = 0 ELSE r.revision > 0
  \* Creations generate the ids of their memories.
  /\ \A r, s \in Requests :
       r.action = "create" /\ s.action = "create" /\ r # s => r.memories \cap s.memories = {}
  /\ NoRequest \notin Requests
  /\ NoPayload \notin Payloads
ASSUME SeedAssumption ==
  /\ \A s \in Seeds : s \in Requests /\ s.action = "create"
  /\ \A s, t \in Seeds : s.key = t.key => s = t
  /\ \A m \in Trash : \E s \in Seeds : m \in s.memories
ASSUME LimitAssumption == StageLimit \in Nat /\ MaxAttempts \in Nat
================================================================================
