------------------------------- MODULE IndexJobs -------------------------------
(***************************************************************************)
(* The job queue of the hosted release (saas/src/release/jobs.ts): workers *)
(* lease jobs that bring one memory into the vector index, take obsolete   *)
(* vectors out of it again, and turn a submitted conversation into memory  *)
(* proposals (ingest.ts).                                                  *)
(*                                                                         *)
(* A worker stands at an await.  Every write of a worker names its lease,  *)
(* so a worker that lost it only notices.  A lease may end at any moment   *)
(* and durations are left out: a retry time is unset, running or over, and *)
(* a completed job is recent or a day old.  The index is external: calls   *)
(* are executed some time after they were accepted, in any order.  A       *)
(* suspended owner may come back; a disabled one never does, and what is   *)
(* left of its memories is not indexed.                                    *)
(***************************************************************************)
EXTENDS Integers, FiniteSets, FiniteSetsExt

CONSTANTS
  Workers,      \* workers draining the queue
  Approvers,    \* calls that approve the proposals of the conversation
  Key, Selection, \* the operation key and the selection of each of them
  NoWorker, NoSelection,
  Chunks,       \* chunks the memory's text has
  PageSize,     \* vectors deleted by one call (100)
  SliceCalls,   \* calls of the providers in one slice of work (20)
  MaxAttempts,  \* claims of a job before it is dead (5)
  MaxRevision,  \* bound: revisions of the memory
  MaxFaults     \* bound: lost leases, crashes, failed calls, suspensions, disablements, rebuilds

ASSUME SizeAssumption == {Chunks, PageSize, SliceCalls, MaxAttempts, MaxRevision} \subseteq Nat \ {0}
ASSUME FaultAssumption == MaxFaults \in Nat
ASSUME NobodyAssumption == NoWorker \notin Workers /\ NoSelection \notin {Selection[c] : c \in Approvers}

VARIABLES
  memory,       \* revision, deleted and erased
  vectorErased, \* the erasure ledger says that the vectors are gone
  owner,        \* "live", "suspended" or "disabled"
  jobs,         \* one row per revision, row 0 for the conversation
  refs,         \* identifiers of vectors that may exist
  index,        \* vectors a search can find
  sent,         \* calls of the index accepted but not executed
  worker,       \* where each worker stands, its job, its calls in this slice of work
  conversation, \* the submitted conversation: state, selection, expiry, its actor's authority
  approver,     \* per approval: where it stands and what it was told
  receipts,     \* the selection each operation key is bound to
  created,      \* keys of the operations that created memories
  faults

memoryVars == <<memory, vectorErased, owner>>
vectors == <<refs, index, sent>>
human == <<conversation, approver, receipts, created>>
vars == <<memoryVars, jobs, vectors, worker, human, faults>>

Revisions == 1 .. MaxRevision
Conversation == 0
VectorOf(r, n) == r * Chunks + n
RevisionOf(v) == v \div Chunks
Vectors == 0 .. (MaxRevision + 1) * Chunks - 1

Row == [kind: {"none", "upsert", "delete", "ingest"}, state: {"pending", "leased", "done", "dead"},
        holder: Workers \cup {NoWorker}, expired: BOOLEAN, attempt: 0 .. MaxAttempts,
        next: 0 .. Chunks, cursor: Vectors \cup {-1}, pending: SUBSET Vectors,
        retry: {"unset", "running", "over"}, only: BOOLEAN, old: BOOLEAN]

NewRow(kind) ==
  [kind |-> kind, state |-> "pending", holder |-> NoWorker, expired |-> FALSE, attempt |-> 0,
   next |-> 0, cursor |-> -1, pending |-> {}, retry |-> "unset", only |-> FALSE, old |-> FALSE]

Places == {"idle", "embed", "ask", "record", "upsert", "sent", "sweep", "delete", "swept",
           "complete", "extract", "extracted"}
Keys == {Key[c] : c \in Approvers}
Selections == {Selection[c] : c \in Approvers} \cup {NoSelection}
Call == [op: {"upsert", "delete"}, ids: SUBSET Vectors]

(* A type invariant: every variable stays in the set its columns allow. *)
TypeOK ==
  /\ memory \in [revision: 0 .. MaxRevision, deleted: BOOLEAN, erased: BOOLEAN]
  /\ vectorErased \in BOOLEAN /\ owner \in {"live", "suspended", "disabled"}
  /\ jobs \in [{Conversation} \cup Revisions -> Row]
  /\ refs \subseteq Vectors /\ index \subseteq Vectors /\ sent \subseteq Call
  /\ worker \in [Workers -> [at: Places, job: {Conversation} \cup Revisions, calls: 0 .. SliceCalls]]
  /\ conversation \in [state: {"none", "queued", "review", "approved", "expired"},
                       selection: Selections, expired: BOOLEAN, authorized: BOOLEAN]
  /\ approver \in [Approvers -> [place: {"start", "bind", "commit", "answer", "told", "refused"},
                                 told: Selections]]
  /\ receipts \in [Keys -> Selections] /\ created \subseteq Keys
  /\ faults \in 0 .. MaxFaults

------------------------------------------------------------------------------
(* The rows of the queue. *)
Job(w) == jobs[worker[w].job]
Held(w) == Job(w).state = "leased" /\ Job(w).holder = w /\ ~ Job(w).expired
Current(w) == memory.revision = worker[w].job
Live(w) == Current(w) /\ ~ memory.deleted

(* The content of a revision that is to be found by searches. *)
Wanted(r) == r \in Revisions /\ r = memory.revision /\ ~ memory.deleted /\ owner # "disabled"

Idle == [at |-> "idle", job |-> Conversation, calls |-> 0]
GotoCalling(w, place, n) ==
  worker' = [worker EXCEPT ![w] = [at |-> place, job |-> @.job, calls |-> @.calls + n]]
Goto(w, place) == IF place = "idle" THEN worker' = [worker EXCEPT ![w] = Idle] ELSE GotoCalling(w, place, 0)
Save(w, row) == jobs' = [jobs EXCEPT ![worker[w].job] = row]
CanCall(w, n) == worker[w].calls + n <= SliceCalls

Free(row, state) == [row EXCEPT !.state = state, !.holder = NoWorker, !.expired = FALSE]
Retryable == conversation.state = "queued" /\ ~ conversation.expired

(* A worker that no longer holds its lease changes nothing. *)
Leave(w, row) ==
  /\ Save(w, IF Held(w) THEN row ELSE Job(w))
  /\ Goto(w, "idle")

Lost(w) == ~ Held(w) /\ Goto(w, "idle") /\ UNCHANGED jobs

Settled(w) == IF worker[w].job = Conversation /\ ~ Retryable THEN "done" ELSE "pending"

(* The ends of a slice of work in drain.  Whatever makes a completed row wait *)
(* again resets all but its next chunk, so the rest is not kept here.         *)
Completed(w) == [NewRow(Job(w).kind) EXCEPT !.state = "done", !.next = Job(w).next]
(* Mutant: every claim counts as an attempt. *)
ReturnedMutant(w) == Free(Job(w), "pending")

Returned(w) == LET row == Free(Job(w), "pending") IN [row EXCEPT !.attempt = IF @ = 0 THEN 0 ELSE @ - 1]
Failed(w) == Free(Job(w), IF Settled(w) = "done" THEN "done"
                          ELSE IF Job(w).attempt >= MaxAttempts THEN "dead" ELSE "pending")

------------------------------------------------------------------------------
(* claim: rows of exhausted leases end, a conversation that nobody waits for *)
(* is done, and the oldest waiting or abandoned row is leased.               *)
Claimable(row) ==
  \/ row.state = "pending"
  \/ row.state = "leased" /\ row.expired /\ row.attempt < MaxAttempts

(* A worker starts where index() first waits: a job of an older revision is  *)
(* complete, a fresh one embeds the chunks that are left, any other one      *)
(* starts or resumes its clean-up.                                           *)
Start(j) ==
  IF j = Conversation THEN "extract"
  ELSE IF j # memory.revision THEN "complete"
  ELSE IF memory.deleted \/ jobs[j].only THEN "sweep" ELSE "embed"

Claim(w, j) ==
  /\ worker[w].at = "idle"
  /\ jobs[j].kind # "none" /\ Claimable(jobs[j])
  /\ j = Conversation => Retryable
  /\ jobs' = [jobs EXCEPT ![j] = [@ EXCEPT !.state = "leased", !.holder = w, !.expired = FALSE,
                                    !.attempt = jobs[j].attempt + 1]]
  /\ worker' = [worker EXCEPT ![w] = [Idle EXCEPT !.at = Start(j), !.job = j]]
  /\ UNCHANGED <<memoryVars, vectors, human, faults>>

Exhaust(j) ==
  LET row == jobs[j] IN
  /\ \/ row.state = "leased" /\ row.expired /\ row.attempt >= MaxAttempts
     \/ j = Conversation /\ row.kind # "none" /\ ~ Retryable /\ Claimable(row)
  /\ jobs' = [jobs EXCEPT ![j] = Free(row, IF j = Conversation /\ ~ Retryable THEN "done" ELSE "dead")]
  /\ UNCHANGED <<memoryVars, vectors, worker, human, faults>>

------------------------------------------------------------------------------
(* indexable: the lease, the revision and the owner are read together.  A   *)
(* job whose content is not wanted any more ends as the caller says.        *)
(* Mutant: a suspended owner ends the job like a deleted memory. *)
RefusedMutant(w, row) ==
  \/ Lost(w)
  \/ Held(w) /\ Leave(w, row)

Refused(w, row) ==
  \/ Lost(w)
  \/ Held(w) /\ Live(w) /\ owner = "suspended" /\ Leave(w, Returned(w))
  \/ Held(w) /\ ~ Wanted(worker[w].job) /\ Leave(w, row)

Indexable(w) == Held(w) /\ Live(w) /\ owner = "live"

Embed(w) ==
  /\ worker[w].at = "embed"
  /\ IF Job(w).next = Chunks
     THEN \/ Lost(w)
          \/ Held(w) /\ Live(w) /\ Goto(w, "sweep") /\ UNCHANGED jobs
          \/ Held(w) /\ ~ Live(w) /\ Leave(w, Completed(w))
     ELSE IF ~ CanCall(w, 2) THEN Leave(w, Returned(w))
     ELSE \/ ~ Indexable(w) /\ Refused(w, Completed(w))
          \/ Indexable(w) /\ GotoCalling(w, "ask", 2) /\ UNCHANGED jobs
  /\ UNCHANGED <<memoryVars, vectors, human, faults>>

(* The budget of the model is reserved in between: the last check before the *)
(* text is sent fails the attempt.                                           *)
Ask(w) ==
  /\ worker[w].at = "ask"
  /\ \/ ~ Indexable(w) /\ Refused(w, Failed(w))
     \/ Indexable(w) /\ Goto(w, "record") /\ UNCHANGED jobs
  /\ UNCHANGED <<memoryVars, vectors, human, faults>>

(* The identifier is recorded before the vector is sent.  Without the lease *)
(* nothing is recorded, and nothing is said of it.                          *)
Record(w) ==
  /\ worker[w].at = "record"
  /\ refs' = IF Held(w) THEN refs \cup {VectorOf(worker[w].job, Job(w).next)} ELSE refs
  /\ Goto(w, "upsert")
  /\ UNCHANGED <<memoryVars, jobs, index, sent, human, faults>>

(* Mutant: what the statement inserted is taken for granted. *)
UpsertMutant(w) ==
  /\ worker[w].at = "upsert"
  /\ sent' = sent \cup {[op |-> "upsert", ids |-> {VectorOf(worker[w].job, Job(w).next)}]} /\ Goto(w, "sent")
  /\ UNCHANGED <<memoryVars, jobs, refs, index, human, faults>>

Upsert(w) ==
  /\ worker[w].at = "upsert"
  /\ \/ ~ Indexable(w) /\ Refused(w, Completed(w)) /\ UNCHANGED sent
     \/ Indexable(w) /\ sent' = sent \cup {[op |-> "upsert", ids |-> {VectorOf(worker[w].job, Job(w).next)}]}
        /\ Goto(w, "sent") /\ UNCHANGED jobs
  /\ UNCHANGED <<memoryVars, refs, index, human, faults>>

Checkpoint(w) ==
  /\ worker[w].at = "sent"
  /\ \/ Lost(w)
     \/ Held(w) /\ Save(w, [Job(w) EXCEPT !.next = @ + 1]) /\ Goto(w, "embed")
  /\ UNCHANGED <<memoryVars, vectors, human, faults>>

------------------------------------------------------------------------------
(* The clean-up loop.  A page that was deleted stays pending until none of  *)
(* its vectors is visible any more; it is deleted again after a grace.      *)
Obsolete(w) ==
  {v \in refs : v > Job(w).cursor
                /\ (RevisionOf(v) < worker[w].job \/ (RevisionOf(v) = worker[w].job /\ Job(w).kind = "delete"))}

FirstPage(ids) == {v \in ids : Cardinality({u \in ids : u < v}) < PageSize}
Visible(w) == Job(w).pending \cap index # {}

(* The page and its next retry are on record before the delete is sent. *)
Reserve(w, ids, n) ==
  /\ Save(w, [Job(w) EXCEPT !.pending = ids, !.retry = "running"])
  /\ GotoCalling(w, "delete", n)

Confirm(w) ==
  /\ Job(w).pending # {}
  /\ IF ~ CanCall(w, 1) THEN Leave(w, Returned(w))
     ELSE IF ~ Held(w) THEN Lost(w)
     ELSE IF ~ Visible(w)
     THEN /\ Save(w, [Job(w) EXCEPT !.cursor = Max(Job(w).pending), !.pending = {}, !.retry = "unset"])
          /\ GotoCalling(w, "sweep", 1)
     ELSE IF Job(w).retry = "unset" THEN Leave(w, [Returned(w) EXCEPT !.retry = "running"])
     ELSE IF Job(w).retry = "running" \/ ~ CanCall(w, 2) THEN Leave(w, Returned(w))
     ELSE Reserve(w, Job(w).pending, 1)

NextPage(w) ==
  /\ Job(w).pending = {}
  /\ IF Obsolete(w) = {}
     THEN IF Current(w) /\ memory.erased THEN Goto(w, "swept") /\ UNCHANGED jobs ELSE Leave(w, Completed(w))
     ELSE IF ~ CanCall(w, 2) THEN Leave(w, Returned(w))
     ELSE IF ~ Held(w) THEN Lost(w)
     ELSE Reserve(w, FirstPage(Obsolete(w)), 0)

Sweep(w) ==
  /\ worker[w].at = "sweep"
  /\ Confirm(w) \/ NextPage(w)
  /\ UNCHANGED <<memoryVars, vectors, human, faults>>

Delete(w) ==
  /\ worker[w].at = "delete"
  /\ \/ Lost(w) /\ UNCHANGED sent
     \/ Held(w) /\ sent' = sent \cup {[op |-> "delete", ids |-> Job(w).pending]}
        /\ GotoCalling(w, "sweep", 1) /\ UNCHANGED jobs
  /\ UNCHANGED <<memoryVars, refs, index, human, faults>>

(* An erased memory is on the erasure ledger before its job is complete. *)
Swept(w) ==
  /\ worker[w].at = "swept"
  /\ \/ Lost(w) /\ UNCHANGED vectorErased
     \/ Held(w) /\ vectorErased' = TRUE /\ Goto(w, "complete") /\ UNCHANGED jobs
  /\ UNCHANGED <<memory, owner, vectors, human, faults>>

Complete(w) ==
  /\ worker[w].at = "complete"
  /\ Leave(w, Completed(w))
  /\ UNCHANGED <<memoryVars, vectors, human, faults>>

------------------------------------------------------------------------------
(* What goes wrong: an awaited call fails or times out and its worker says   *)
(* so, a worker disappears, a lease ends before its work.  The last call of  *)
(* the index may or may not be executed later.                               *)
Busy(w) == worker[w].at # "idle"
LastCall(w) ==
  CASE worker[w].at = "sent" -> {[op |-> "upsert", ids |-> {VectorOf(worker[w].job, Job(w).next)}]}
    [] worker[w].at = "sweep" -> {[op |-> "delete", ids |-> Job(w).pending]}
    [] OTHER -> {}

Forget(w) == sent' \in IF Held(w) THEN {sent, sent \ LastCall(w)} ELSE {sent}

Fault == faults < MaxFaults /\ faults' = faults + 1

CallFails(w) ==
  /\ Fault
  /\ worker[w].at \in {"embed", "ask", "record", "sent", "sweep", "extracted"}
  /\ Leave(w, Failed(w))
  /\ Forget(w)
  /\ UNCHANGED <<memoryVars, refs, index, human>>

Crash(w) ==
  /\ Fault /\ Busy(w)
  /\ Goto(w, "idle")
  /\ UNCHANGED <<memoryVars, jobs, vectors, human>>

LeaseEnds(j) ==
  /\ Fault
  /\ jobs[j].state = "leased" /\ ~ jobs[j].expired
  /\ jobs' = [jobs EXCEPT ![j].expired = TRUE]
  /\ UNCHANGED <<memoryVars, vectors, worker, human>>

(* A lease nobody works under ends without an accident. *)
Abandoned(j) == ~ \E w \in Workers : Busy(w) /\ worker[w].job = j /\ jobs[j].holder = w

Lapse(j) ==
  /\ jobs[j].state = "leased" /\ ~ jobs[j].expired /\ Abandoned(j)
  /\ jobs' = [jobs EXCEPT ![j].expired = TRUE]
  /\ UNCHANGED <<memoryVars, vectors, worker, human, faults>>

(* External: the index executes what it accepted. *)
Executed(c) ==
  /\ c \in sent
  /\ sent' = sent \ {c}
  /\ index' = IF c.op = "upsert" THEN index \cup c.ids ELSE index \ c.ids
  /\ UNCHANGED <<memoryVars, jobs, refs, worker, human, faults>>

------------------------------------------------------------------------------
(* maintain: a job of the current revision that was completed a day ago, or *)
(* whose erasure is not confirmed, cleans up once more.                     *)
Ages(j) ==
  /\ j = memory.revision
  /\ \/ jobs[j].state = "done" /\ ~ jobs[j].old /\ jobs' = [jobs EXCEPT ![j].old = TRUE]
     \/ jobs[j].retry = "running" /\ jobs' = [jobs EXCEPT ![j].retry = "over"]
  /\ UNCHANGED <<memoryVars, vectors, worker, human, faults>>

(* Mutant: only deletions are swept again. *)
DueAgainMutant(j) ==
  /\ jobs[j].state = "done" /\ j = memory.revision
  /\ jobs[j].kind = "delete" /\ (jobs[j].old \/ (memory.erased /\ ~ vectorErased))

DueAgain(j) ==
  /\ jobs[j].state = "done" /\ j = memory.revision
  /\ \/ jobs[j].kind = "delete" /\ (jobs[j].old \/ (memory.erased /\ ~ vectorErased))
     \/ jobs[j].kind = "upsert" /\ jobs[j].old /\ \E v \in refs : RevisionOf(v) < memory.revision

Resweep(j) ==
  /\ DueAgain(j)
  /\ jobs' = [jobs EXCEPT ![j] = [NewRow(@.kind) EXCEPT !.next = IF jobs[j].kind = "upsert" THEN jobs[j].next ELSE 0,
                                                        !.only = jobs[j].kind = "upsert"]]
  /\ UNCHANGED <<memoryVars, vectors, worker, human, faults>>

(* Search.rebuild: whatever is not leased starts from nothing. *)
Rebuild(j) ==
  /\ Fault
  /\ j = memory.revision /\ j \in Revisions /\ jobs[j].state # "leased" /\ owner = "live"
  /\ jobs' = [jobs EXCEPT ![j] = NewRow(@.kind)]
  /\ UNCHANGED <<memoryVars, vectors, worker, human>>

------------------------------------------------------------------------------
(* The memory: each change is a new revision with a job of its own.  People  *)
(* change the memories of a live owner; retention also ends without one.     *)
Changes(deleted, erased) ==
  /\ memory.revision < MaxRevision
  /\ memory' = [revision |-> memory.revision + 1, deleted |-> deleted, erased |-> erased]
  /\ jobs' = [jobs EXCEPT ![memory.revision + 1] = NewRow(IF deleted THEN "delete" ELSE "upsert")]
  /\ UNCHANGED <<vectorErased, owner, vectors, worker, human, faults>>

Edit == owner = "live" /\ memory.revision > 0 /\ ~ memory.deleted /\ Changes(FALSE, FALSE)
Remove == owner = "live" /\ memory.revision > 0 /\ ~ memory.deleted /\ Changes(TRUE, FALSE)
Restore == owner = "live" /\ memory.deleted /\ ~ memory.erased /\ Changes(FALSE, FALSE)
Erase == memory.deleted /\ ~ memory.erased /\ Changes(TRUE, TRUE)

Suspend ==
  /\ owner = "live" /\ Fault /\ owner' = "suspended"
  /\ UNCHANGED <<memory, vectorErased, jobs, vectors, worker, human>>
Resume ==
  /\ owner = "suspended" /\ owner' = "live"
  /\ UNCHANGED <<memory, vectorErased, jobs, vectors, worker, human, faults>>

(* Disablement is terminal. *)
Disable ==
  /\ owner # "disabled" /\ Fault /\ owner' = "disabled"
  /\ UNCHANGED <<memory, vectorErased, jobs, vectors, worker, human>>

------------------------------------------------------------------------------
(* The conversation: submitted once, extracted by a worker while its actor  *)
(* is authorized, reviewed and approved by a person, or expired.            *)
Create ==
  /\ memory.revision = 0 /\ conversation.state = "none" /\ owner = "live"
  /\ Changes(FALSE, FALSE)

Submit ==
  /\ memory.revision = 0 /\ conversation.state = "none" /\ owner = "live"
  /\ conversation' = [conversation EXCEPT !.state = "queued"]
  /\ jobs' = [jobs EXCEPT ![Conversation] = NewRow("ingest")]
  /\ UNCHANGED <<memoryVars, vectors, worker, approver, receipts, created, faults>>

Extractable(w) == Held(w) /\ Retryable /\ conversation.authorized

Extract(w) ==
  /\ worker[w].at = "extract"
  /\ IF Extractable(w) THEN Goto(w, "extracted") /\ UNCHANGED jobs ELSE Leave(w, Failed(w))
  /\ UNCHANGED <<memoryVars, vectors, human, faults>>

Propose(w) ==
  /\ worker[w].at = "extracted"
  /\ IF Extractable(w)
     THEN conversation' = [conversation EXCEPT !.state = "review"] /\ Goto(w, "complete") /\ UNCHANGED jobs
     ELSE Leave(w, Failed(w)) /\ UNCHANGED conversation
  /\ UNCHANGED <<memoryVars, vectors, approver, receipts, created, faults>>

Revoke ==
  /\ conversation.state # "none" /\ conversation.authorized /\ Fault
  /\ conversation' = [conversation EXCEPT !.authorized = FALSE]
  /\ UNCHANGED <<memoryVars, jobs, vectors, worker, approver, receipts, created>>

Expire ==
  /\ conversation.state # "none" /\ ~ conversation.expired /\ Fault
  /\ conversation' = [conversation EXCEPT !.expired = TRUE]
  /\ UNCHANGED <<memoryVars, jobs, vectors, worker, approver, receipts, created>>

(* maintain wipes what has expired; a decision stays. *)
Wipe ==
  /\ conversation.expired /\ conversation.state \in {"queued", "review"}
  /\ conversation' = [conversation EXCEPT !.state = "expired"]
  /\ UNCHANGED <<memoryVars, jobs, vectors, worker, approver, receipts, created, faults>>

Reviewable == conversation.state = "review" /\ ~ conversation.expired
Tell(c, place, told) == approver' = [approver EXCEPT ![c] = [place |-> place, told |-> told]]

(* approve reads the decision.  A call that finds the same one only binds its *)
(* key; one that finds none yet commits its own.                              *)
ReadDecision(c) ==
  /\ approver[c].place = "start" /\ conversation.state # "none"
  /\ IF conversation.state = "approved"
     THEN Tell(c, IF conversation.selection = Selection[c] THEN "bind" ELSE "refused", NoSelection)
     ELSE Tell(c, IF Reviewable THEN "commit" ELSE "refused", NoSelection)
  /\ UNCHANGED <<memoryVars, jobs, vectors, worker, conversation, receipts, created, faults>>

BindKey(c) ==
  /\ approver[c].place = "bind"
  /\ IF receipts[Key[c]] \in {NoSelection, Selection[c]}
     THEN receipts' = [receipts EXCEPT ![Key[c]] = Selection[c]] /\ Tell(c, "told", conversation.selection)
     ELSE Tell(c, "refused", NoSelection) /\ UNCHANGED receipts
  /\ UNCHANGED <<memoryVars, jobs, vectors, worker, conversation, created, faults>>

(* Mutant: the trigger that admits one approval is missing. *)
DecideMutant(c) ==
  /\ approver[c].place = "commit" /\ receipts[Key[c]] = NoSelection
  /\ conversation' = [conversation EXCEPT !.state = "approved", !.selection = Selection[c]]
  /\ receipts' = [receipts EXCEPT ![Key[c]] = Selection[c]]
  /\ created' = created \cup {Key[c]}
  /\ Tell(c, "answer", NoSelection)
  /\ UNCHANGED <<memoryVars, jobs, vectors, worker, faults>>

Decide(c) ==
  /\ approver[c].place = "commit" /\ receipts[Key[c]] = NoSelection
  /\ IF Reviewable
     THEN /\ conversation' = [conversation EXCEPT !.state = "approved", !.selection = Selection[c]]
          /\ receipts' = [receipts EXCEPT ![Key[c]] = Selection[c]]
          /\ created' = created \cup {Key[c]}
          /\ Tell(c, "answer", NoSelection)
     ELSE Tell(c, "refused", NoSelection) /\ UNCHANGED <<conversation, receipts, created>>
  /\ UNCHANGED <<memoryVars, jobs, vectors, worker, faults>>

DecideReplay(c) ==
  /\ approver[c].place = "commit" /\ receipts[Key[c]] # NoSelection
  /\ Tell(c, IF receipts[Key[c]] = Selection[c] THEN "answer" ELSE "refused", NoSelection)
  /\ UNCHANGED <<memoryVars, jobs, vectors, worker, conversation, receipts, created, faults>>

(* The answer is read from the conversation again. *)
Answer(c) ==
  /\ approver[c].place = "answer"
  /\ Tell(c, "told", conversation.selection)
  /\ UNCHANGED <<memoryVars, jobs, vectors, worker, conversation, receipts, created, faults>>

------------------------------------------------------------------------------
NoRow == [NewRow("none") EXCEPT !.state = "done"]

(* Nothing yet, or a memory that was indexed and then deleted. *)
Nothing ==
  /\ memory = [revision |-> 0, deleted |-> FALSE, erased |-> FALSE]
  /\ jobs = [j \in {Conversation} \cup Revisions |-> NoRow]
  /\ refs = {} /\ index = {}

Trashed ==
  /\ memory = [revision |-> 1, deleted |-> TRUE, erased |-> FALSE]
  /\ jobs = [j \in {Conversation} \cup Revisions |-> IF j = 1 THEN NewRow("delete") ELSE NoRow]
  /\ refs = {VectorOf(0, n) : n \in 0 .. Chunks - 1} /\ index = refs

Init ==
  /\ Nothing \/ Trashed
  /\ vectorErased = FALSE /\ owner = "live"
  /\ sent = {}
  /\ worker = [w \in Workers |-> Idle]
  /\ conversation = [state |-> "none", selection |-> NoSelection, expired |-> FALSE, authorized |-> TRUE]
  /\ approver = [c \in Approvers |-> [place |-> "start", told |-> NoSelection]]
  /\ receipts = [k \in Keys |-> NoSelection] /\ created = {}
  /\ faults = 0

Work(w) ==
  \/ Embed(w) \/ Ask(w) \/ Record(w) \/ Upsert(w) \/ Checkpoint(w)
  \/ Sweep(w) \/ Delete(w) \/ Swept(w) \/ Complete(w)
  \/ Extract(w) \/ Propose(w)

Decision(c) == ReadDecision(c) \/ BindKey(c) \/ Decide(c) \/ DecideReplay(c) \/ Answer(c)
Changing == Create \/ Edit \/ Remove \/ Restore \/ Erase \/ Suspend \/ Resume \/ Disable
Ingest == Submit \/ Revoke \/ Expire \/ Wipe
Accident(w) == CallFails(w) \/ Crash(w)

Next ==
  \/ \E w \in Workers : Work(w) \/ Accident(w) \/ \E j \in DOMAIN jobs : Claim(w, j)
  \/ \E j \in DOMAIN jobs : Exhaust(j) \/ LeaseEnds(j) \/ Lapse(j) \/ Ages(j) \/ Resweep(j) \/ Rebuild(j)
  \/ \E c \in sent : Executed(c)
  \/ Changing \/ Ingest
  \/ \E c \in Approvers : Decision(c)

Spec == Init /\ [][Next]_vars

(* The queue is drained and maintained every minute, time passes, and the   *)
(* index executes what it accepted.  A claim takes the row that waits       *)
(* longest, so no row waits forever.  A suspension ends.                    *)
FairSpec ==
  /\ Spec
  /\ \A w \in Workers : WF_vars(Work(w))
  /\ \A j \in Revisions : /\ WF_vars(\E w \in Workers : Claim(w, j))
                          /\ WF_vars(Lapse(j)) /\ WF_vars(Ages(j)) /\ WF_vars(Resweep(j))
  /\ \A w \in Workers, v \in Vectors, op \in {"upsert", "delete"} : WF_vars(Executed([op |-> op, ids |-> {v}]))
  /\ WF_vars(Resume)

------------------------------------------------------------------------------
(* Every vector that exists or may still appear has a recorded identifier,  *)
(* so that a clean-up can find it (jobs.ts:248-254: the insert may silently *)
(* do nothing, the lease is read again before the vector is sent).          *)
VectorsRecorded == index \cup UNION {c.ids : c \in sent} \subseteq refs

(* A job that was completed for the current revision of a live memory has   *)
(* sent every chunk, however often it was interrupted, taken over or        *)
(* suspended.  A disabled owner is excepted: its jobs end where they are    *)
(* (jobs.ts:253-254), and its memories are never searched again.            *)
DoneIsIndexed ==
  \A r \in Revisions :
    Wanted(r) /\ jobs[r].state = "done"
      => \A n \in 0 .. Chunks - 1 : VectorOf(r, n) \in index \cup UNION {c.ids : c \in sent}

(* Proposals are approved once: the memories of one selection are created,  *)
(* and whoever is told of an approval is told of that one.                  *)
ApprovedOnce ==
  /\ Cardinality(created) <= 1
  /\ (conversation.state = "approved") <=> (created # {})
  /\ \A c \in Approvers : approver[c].place = "told"
       => \E k \in created : receipts[k] = approver[c].told /\ approver[c].told = Selection[c]

(* Waiting is not failing: a slice of work that is over, a deletion that is  *)
(* not visible yet or a suspended owner, however often a worker claims the   *)
(* job meanwhile, returns the attempt.  The job of the current revision is   *)
(* dead only when at least as many things went wrong - calls failed, leases  *)
(* and workers were lost, the owner was suspended anew - as it has attempts  *)
(* (jobs.ts:147-155, 281: visibility waits never consume the error budget).  *)
(* The job of a disabled owner is excepted: its failures are not counted.    *)
GivenUpAfterFailures ==
  \A r \in Revisions :
    r = memory.revision /\ owner # "disabled" /\ jobs[r].state = "dead" => faults >= MaxAttempts

(* Vectors of earlier revisions and of deleted memories disappear from the  *)
(* index for good, whatever upserts were executed late.                     *)
ObsoleteVectorsGo ==
  <>[](\A v \in index : RevisionOf(v) = memory.revision /\ ~ memory.deleted)
===============================================================================
