--------------------------- MODULE IndexJobsProofs ---------------------------
(* Proofs about IndexJobs: whatever workers, lost leases, late calls of the  *)
(* index, rebuilds and approvals do, no vector is without a record, no job   *)
(* of a live memory is done before its text is sent, and a conversation is   *)
(* approved once.                                                            *)
EXTENDS IndexJobs, FiniteSetTheorems, TLAPS

JobIds == {Conversation} \cup Revisions
WorkerType == [at: Places, job: JobIds, calls: 0 .. SliceCalls]
Known == index \cup UNION {c.ids : c \in sent}

(* A vector that no search needs: of an earlier revision, or of a deleted    *)
(* memory.                                                                   *)
Unwanted(v) ==
  RevisionOf(v) < memory.revision \/ (RevisionOf(v) = memory.revision /\ memory.deleted)

(* The clean-up of a row is of unwanted vectors; the row of the revision in  *)
(* force counts the chunks that were sent, and rests only when all were.     *)
RowSound(j, row) ==
  /\ row.kind # "none" => j <= memory.revision
  /\ row.kind = "delete" /\ j = memory.revision => memory.deleted
  /\ row.state = "pending" => row.attempt < MaxAttempts
  /\ \A v \in row.pending :
       v \in refs /\ (RevisionOf(v) < j \/ (RevisionOf(v) = j /\ row.kind = "delete"))
  /\ Wanted(j) =>
       /\ \A n \in 0 .. row.next - 1 : VectorOf(j, n) \in Known
       /\ row.only \/ row.state = "done" => row.next = Chunks

(* What a worker knows of its row, as long as it holds the lease. *)
WorkSound(w) ==
  /\ worker[w].at # "idle" => worker[w].job <= memory.revision
  /\ worker[w].at \in {"extract", "extracted"} => worker[w].job = Conversation
  /\ worker[w].at \in {"swept", "complete"} => ~ Wanted(worker[w].job)
  /\ worker[w].at = "delete" => worker[w].calls < SliceCalls
  /\ worker[w].at \in {"embed", "ask", "record", "upsert", "sent"} /\ Current(w) => ~ memory.deleted
  /\ Held(w) =>
       /\ worker[w].at \in {"ask", "record", "upsert", "sent"} => Job(w).next < Chunks
       /\ worker[w].at = "upsert" => VectorOf(worker[w].job, Job(w).next) \in refs
       /\ worker[w].at = "sent" /\ Wanted(worker[w].job) => VectorOf(worker[w].job, Job(w).next) \in Known
       /\ worker[w].at \in {"sweep", "delete"} /\ Wanted(worker[w].job) => Job(w).next = Chunks

(* What the index has or will have is recorded, and what will be deleted is  *)
(* unwanted.                                                                 *)
IndexSound ==
  /\ Known \subseteq refs
  /\ \A c \in sent : c.op = "delete" => \A v \in c.ids : Unwanted(v)

(* A key is bound, a memory created and a caller told only by the one        *)
(* decision of the conversation.                                             *)
Approved == conversation.state = "approved"
DecisionSound ==
  /\ Approved <=> created # {}
  /\ \A k, l \in created : k = l
  /\ \A k \in created : receipts[k] # NoSelection
  /\ \A k \in Keys : receipts[k] # NoSelection => Approved /\ receipts[k] = conversation.selection
  /\ \A c \in Approvers :
       /\ approver[c].place \in {"bind", "answer"} => Approved /\ conversation.selection = Selection[c]
       /\ approver[c].place = "told" =>
            Approved /\ conversation.selection = Selection[c] /\ approver[c].told = Selection[c]

MemorySound == memory.erased => memory.deleted

IInv ==
  /\ TypeOK /\ MemorySound /\ IndexSound
  /\ \A j \in JobIds : RowSound(j, jobs[j])
  /\ \A w \in Workers : WorkSound(w)
  /\ DecisionSound

------------------------------------------------------------------------------
(* The least and the greatest number of a set. *)
LEMMA Order ==
  \E R : IsWellFoundedOn(R, Nat) /\ \A x, y \in Nat : x < y => <<x, y>> \in R
  <1>1. \A x, y \in Nat : x < y => <<x, y>> \in OpToRel(<, Nat)
    BY DEF OpToRel
  <1> QED
    BY <1>1, NatLessThanWellFounded, Zenon

LEMMA Least ==
  ASSUME NEW T, T \subseteq Nat, T # {}
  PROVE  \E x \in T : \A y \in T : x <= y
  <1>1. PICK R : IsWellFoundedOn(R, Nat) /\ \A x, y \in Nat : x < y => <<x, y>> \in R
    BY Order
  <1>2. IsWellFoundedOn(R, Nat)
    BY <1>1
  <1>3. \E x \in T : \A y \in T : ~ (<<y, x>> \in R)
    BY <1>2, WFMin
  <1>4. PICK x \in T : \A y \in T : ~ (<<y, x>> \in R)
    BY <1>3
  <1>5. \A y \in T : x <= y
    <2> TAKE y \in T
    <2>1. ~ (y < x)
      BY <1>1, <1>4
    <2> QED
      BY <2>1
  <1> QED
    BY <1>5
LEMMA Largest == ASSUME NEW N \in Nat, NEW T, T \subseteq 0 .. N, T # {}
  PROVE Max(T) \in T /\ \A y \in T : y <= Max(T)
  <1> DEFINE U == {N - t : t \in T}
  <1>1. U \subseteq Nat
    <2>1. \A t \in T : N - t \in Nat
      OBVIOUS
    <2> QED
      BY <2>1
  <1>2. U # {}
    OBVIOUS
  <1> HIDE DEF U
  <1>3. PICK u \in U : \A y \in U : u <= y
    BY <1>1, <1>2, Least
  <1>4. PICK t \in T : u = N - t
    BY DEF U
  <1>5. \A y \in T : N - y \in U
    BY DEF U
  <1>6. \A y \in T : t >= y
    <2> TAKE y \in T
    <2>1. u <= N - y
      BY <1>3, <1>5
    <2> QED
      BY <2>1, <1>4
  <1> QED
    BY <1>6 DEF Max

(* A vector belongs to one revision and one chunk of it. *)
LEMMA VectorTyped ==
  ASSUME NEW r \in {Conversation} \cup Revisions, NEW n \in 0 .. Chunks - 1
  PROVE  VectorOf(r, n) \in Vectors
  <1>1. r \in Nat /\ r <= MaxRevision /\ MaxRevision \in Nat /\ Chunks \in Nat /\ n \in Nat /\ n < Chunks
    BY SizeAssumption DEF Conversation, Revisions
  <1>2. r * Chunks \in Nat /\ (MaxRevision - r) * Chunks >= 0
    BY <1>1
  <1>3. (MaxRevision + 1) * Chunks = r * Chunks + (MaxRevision - r) * Chunks + Chunks
    BY <1>1
  <1> QED
    BY <1>1, <1>2, <1>3 DEF VectorOf, Vectors

LEMMA VectorRevision ==
  ASSUME NEW r \in {Conversation} \cup Revisions, NEW n \in 0 .. Chunks - 1
  PROVE  RevisionOf(VectorOf(r, n)) = r
  <1>1. r \in Nat /\ Chunks \in Nat \ {0} /\ n \in Nat /\ n < Chunks
    BY SizeAssumption DEF Conversation, Revisions
  <1> QED
    BY <1>1, SMTT(30) DEF VectorOf, RevisionOf

LEMMA RevisionTyped ==
  ASSUME NEW v \in Vectors
  PROVE  RevisionOf(v) \in 0 .. MaxRevision
  <1>1. MaxRevision \in Nat /\ Chunks \in Nat \ {0} /\ v \in Nat /\ v < (MaxRevision + 1) * Chunks
    BY SizeAssumption DEF Vectors
  <1>2. Chunks * (v \div Chunks) <= v /\ v \div Chunks \in Int /\ v < Chunks * (v \div Chunks) + Chunks
    BY <1>1
  <1>3. v \div Chunks >= 0
    BY <1>1, <1>2
  <1>4. v \div Chunks < MaxRevision + 1
    BY <1>1, <1>2
  <1> QED
    BY <1>1, <1>2, <1>3, <1>4 DEF RevisionOf

------------------------------------------------------------------------------
(* The rows a job passes through. *)
LEMMA NewRowTyped ==
  ASSUME NEW kind \in {"none", "upsert", "delete", "ingest"}
  PROVE  NewRow(kind) \in Row
  BY SizeAssumption DEF NewRow, Row

LEMMA FreeTyped ==
  ASSUME NEW row \in Row, NEW state \in {"pending", "leased", "done", "dead"}
  PROVE  Free(row, state) \in Row
  BY DEF Free, Row

LEMMA FreeSound ==
  ASSUME NEW j \in JobIds, NEW row \in Row, RowSound(j, row),
         NEW state \in {"pending", "done", "dead"},
         state = "pending" => row.attempt < MaxAttempts,
         state = "done" => ~ Wanted(j)
  PROVE  RowSound(j, Free(row, state))
  <1>1. /\ Free(row, state).kind = row.kind /\ Free(row, state).state = state
        /\ Free(row, state).attempt = row.attempt /\ Free(row, state).pending = row.pending
        /\ Free(row, state).next = row.next /\ Free(row, state).only = row.only
    BY DEF Free, Row
  <1> HIDE DEF Free
  <1> QED
    BY <1>1 DEF RowSound

(* The ends of a slice of work. *)
LEMMA ReturnedSound ==
  ASSUME TypeOK, NEW w \in Workers, RowSound(worker[w].job, Job(w))
  PROVE  Returned(w) \in Row /\ RowSound(worker[w].job, Returned(w)) /\ Returned(w).holder = NoWorker
  <1>1. Job(w) \in Row
    BY DEF TypeOK, Job
  <1> DEFINE mine == Job(w)
  <1> HIDE DEF mine
  <1>2. mine \in Row /\ RowSound(worker[w].job, mine)
    BY <1>1 DEF mine
  <1> DEFINE free == Free(mine, "pending")
  <1>a. Returned(w) = [free EXCEPT !.attempt = IF free.attempt = 0 THEN 0 ELSE free.attempt - 1]
    BY DEF mine, Returned
  <1>b. /\ free \in Row /\ free.kind = mine.kind /\ free.state = "pending" /\ free.attempt = mine.attempt
        /\ free.pending = mine.pending /\ free.next = mine.next /\ free.only = mine.only
        /\ free.holder = NoWorker
    <2>1. mine \in Row /\ "pending" \in {"pending", "leased", "done", "dead"}
      BY <1>2
    <2>2. free \in Row
      BY <2>1, FreeTyped
    <2> QED
      BY <2>1, <2>2 DEF Free, Row
  <1> HIDE DEF free
  <1> DEFINE back == Returned(w)
  <1> HIDE DEF back
  <1>3. /\ back \in Row /\ back.kind = mine.kind /\ back.state = "pending" /\ back.attempt < MaxAttempts
        /\ back.pending = mine.pending /\ back.next = mine.next /\ back.only = mine.only
        /\ back.holder = NoWorker
    BY <1>a, <1>b, SizeAssumption DEF Row, back
  <1>4. RowSound(worker[w].job, back)
    BY <1>2, <1>3 DEF RowSound
  <1> QED
    BY <1>3, <1>4 DEF back

LEMMA FailedSound ==
  ASSUME TypeOK, NEW w \in Workers, RowSound(worker[w].job, Job(w))
  PROVE  Failed(w) \in Row /\ RowSound(worker[w].job, Failed(w)) /\ Failed(w).holder = NoWorker
  <1>1. Job(w) \in Row /\ worker[w].job \in JobIds
    BY DEF TypeOK, Job, JobIds
  <1> DEFINE state == IF Settled(w) = "done" THEN "done"
                      ELSE IF Job(w).attempt >= MaxAttempts THEN "dead" ELSE "pending"
  <1>2. Failed(w) = Free(Job(w), state)
    BY DEF Failed
  <1>3. state = "done" => ~ Wanted(worker[w].job)
    BY DEF Settled, Wanted, Conversation, Revisions
  <1>4. state = "pending" => Job(w).attempt < MaxAttempts
    BY <1>1, SizeAssumption DEF Row
  <1>5. state \in {"pending", "done", "dead"}
    OBVIOUS
  <1>6. Free(Job(w), state).holder = NoWorker
    BY <1>1 DEF Free, Row
  <1> HIDE DEF state
  <1> QED
    BY <1>1, <1>2, <1>3, <1>4, <1>5, <1>6, FreeSound, FreeTyped

LEMMA CompletedSound ==
  ASSUME TypeOK, NEW w \in Workers, RowSound(worker[w].job, Job(w)),
         Wanted(worker[w].job) => Job(w).next = Chunks
  PROVE  Completed(w) \in Row /\ RowSound(worker[w].job, Completed(w)) /\ Completed(w).holder = NoWorker
  <1>1. Job(w) \in Row
    BY DEF TypeOK, Job
  <1> DEFINE mine == Job(w)
  <1> HIDE DEF mine
  <1>2. mine \in Row /\ RowSound(worker[w].job, mine) /\ (Wanted(worker[w].job) => mine.next = Chunks)
    BY <1>1 DEF mine
  <1>3. Completed(w) = [NewRow(mine.kind) EXCEPT !.state = "done", !.next = mine.next]
    BY DEF mine, Completed
  <1> DEFINE done == Completed(w)
  <1> HIDE DEF done
  <1>4. /\ done \in Row /\ done.kind = mine.kind /\ done.state = "done" /\ done.pending = {}
        /\ done.next = mine.next /\ done.only = FALSE /\ done.holder = NoWorker
    <2> DEFINE fresh == NewRow(mine.kind)
    <2>1. mine \in Row /\ mine.kind \in {"none", "upsert", "delete", "ingest"}
      BY <1>1 DEF mine, Row
    <2>2. fresh \in Row
      BY <2>1, NewRowTyped
    <2>3. /\ fresh.kind = mine.kind /\ fresh.pending = {} /\ fresh.only = FALSE
          /\ fresh.holder = NoWorker
      BY DEF NewRow
    <2>4. done = [fresh EXCEPT !.state = "done", !.next = mine.next]
      BY <1>3 DEF done
    <2> HIDE DEF fresh
    <2> QED
      BY <2>1, <2>2, <2>3, <2>4 DEF Row
  <1>5. RowSound(worker[w].job, done)
    BY <1>1, <1>2, <1>4 DEF RowSound, mine
  <1> QED
    BY <1>4, <1>5 DEF done

------------------------------------------------------------------------------
(* What a step of a worker does to the queue, and to where it stands: the    *)
(* row changes only under its lease, and soundly.                            *)
OwnRow(w) ==
  /\ jobs' \in [JobIds -> Row]
  /\ \A j \in JobIds \ {worker[w].job} : jobs'[j] = jobs[j]
  /\ RowSound(worker[w].job, jobs'[worker[w].job])
  /\ \/ jobs'[worker[w].job] = jobs[worker[w].job]
     \/ Held(w) /\ jobs'[worker[w].job].holder \in {w, NoWorker}

Alone(w) == worker' \in [Workers -> WorkerType] /\ \A x \in Workers \ {w} : worker'[x] = worker[x]

LEMMA Standing ==
  ASSUME IInv, NEW w \in Workers
  PROVE  /\ worker[w] \in WorkerType /\ worker[w].job \in JobIds /\ worker[w].calls \in 0 .. SliceCalls
         /\ Job(w) \in Row /\ Job(w) = jobs[worker[w].job] /\ jobs \in [JobIds -> Row]
         /\ RowSound(worker[w].job, Job(w)) /\ WorkSound(w)
         /\ memory.revision \in Nat
  BY DEF IInv, TypeOK, JobIds, WorkerType, Job

LEMMA Kept ==
  ASSUME IInv, NEW w \in Workers, jobs' = jobs
  PROVE  OwnRow(w)
  BY Standing DEF OwnRow

LEMMA Saved ==
  ASSUME IInv, NEW w \in Workers, NEW row \in Row, Save(w, row), Held(w),
         RowSound(worker[w].job, row), row.holder \in {w, NoWorker}
  PROVE  OwnRow(w) /\ jobs'[worker[w].job] = row
  BY Standing DEF OwnRow, Save

LEMMA Went ==
  ASSUME IInv, NEW w \in Workers, NEW place \in Places, Goto(w, place)
  PROVE  /\ Alone(w) /\ worker'[w].at = place
         /\ place # "idle" => worker'[w].job = worker[w].job /\ worker'[w].calls = worker[w].calls
  <1>1. worker \in [Workers -> WorkerType] /\ worker[w] \in WorkerType
    BY Standing DEF IInv, TypeOK, WorkerType, JobIds
  <1>2. Idle \in WorkerType
    BY SizeAssumption DEF Idle, WorkerType, Places, JobIds, Conversation
  <1>3. CASE place = "idle"
    BY <1>1, <1>2, <1>3 DEF Goto, Alone, Idle
  <1>4. CASE place # "idle"
    <2>1. GotoCalling(w, place, 0)
      BY <1>4 DEF Goto
    <2>2. [at |-> place, job |-> worker[w].job, calls |-> worker[w].calls + 0] \in WorkerType
      BY <1>1, SizeAssumption DEF WorkerType
    <2>3. worker'[w] = [at |-> place, job |-> worker[w].job, calls |-> worker[w].calls + 0]
      BY <1>1, <2>1 DEF GotoCalling
    <2>4. Alone(w)
      BY <1>1, <2>1, <2>2 DEF Alone, GotoCalling
    <2>5. worker[w].calls + 0 = worker[w].calls
      BY <1>1, SizeAssumption DEF WorkerType
    <2> QED
      BY <2>3, <2>4, <2>5
  <1> QED
    BY <1>3, <1>4

LEMMA Called ==
  ASSUME IInv, NEW w \in Workers, NEW place \in Places, NEW n \in {0, 1, 2},
         CanCall(w, n), GotoCalling(w, place, n)
  PROVE  /\ Alone(w) /\ worker'[w].at = place
         /\ worker'[w].job = worker[w].job /\ worker'[w].calls = worker[w].calls + n
  <1>1. worker \in [Workers -> WorkerType] /\ worker[w] \in WorkerType
    BY Standing DEF IInv, TypeOK, WorkerType, JobIds
  <1>2. worker[w].calls + n \in 0 .. SliceCalls
    BY <1>1, SizeAssumption DEF WorkerType, CanCall
  <1>3. [at |-> place, job |-> worker[w].job, calls |-> worker[w].calls + n] \in WorkerType
    BY <1>1, <1>2 DEF WorkerType
  <1>4. worker'[w] = [at |-> place, job |-> worker[w].job, calls |-> worker[w].calls + n]
    BY <1>1 DEF GotoCalling
  <1>5. Alone(w)
    BY <1>1, <1>3 DEF Alone, GotoCalling
  <1> QED
    BY <1>4, <1>5

(* A worker that stops knows nothing; one that leaves ends its slice with a  *)
(* sound row, or lost its lease.                                             *)
LEMMA Stopped ==
  ASSUME NEW w, worker'[w].at = "idle"
  PROVE  WorkSound(w)'
  BY DEF WorkSound

LEMMA LostKeeps ==
  ASSUME IInv, NEW w \in Workers, Lost(w)
  PROVE  OwnRow(w) /\ Alone(w) /\ WorkSound(w)'
  BY Kept, Went, Stopped DEF Lost, Places

LEMMA Left ==
  ASSUME IInv, NEW w \in Workers, NEW row, Leave(w, row),
         Held(w) => row \in Row /\ RowSound(worker[w].job, row) /\ row.holder = NoWorker
  PROVE  OwnRow(w) /\ Alone(w) /\ WorkSound(w)'
  <1>1. Alone(w) /\ WorkSound(w)'
    BY Went, Stopped DEF Leave, Places
  <1>2. ASSUME Held(w) PROVE OwnRow(w)
    <2>1. Save(w, row)
      BY <1>2 DEF Leave, Save
    <2> QED
      BY <1>2, <2>1, Saved
  <1>3. ASSUME ~ Held(w) PROVE OwnRow(w)
    <2>1. jobs' = jobs
      BY <1>3, Standing DEF Leave, Save
    <2> QED
      BY <2>1, Kept
  <1> QED
    BY <1>1, <1>2, <1>3

LEMMA ReturnedLeaves ==
  ASSUME IInv, NEW w \in Workers, Leave(w, Returned(w))
  PROVE  OwnRow(w) /\ Alone(w) /\ WorkSound(w)'
  BY Left, ReturnedSound, Standing DEF IInv

LEMMA FailedLeaves ==
  ASSUME IInv, NEW w \in Workers, Leave(w, Failed(w))
  PROVE  OwnRow(w) /\ Alone(w) /\ WorkSound(w)'
  BY Left, FailedSound, Standing DEF IInv

LEMMA CompletedLeaves ==
  ASSUME IInv, NEW w \in Workers, Leave(w, Completed(w)),
         Held(w) /\ Wanted(worker[w].job) => Job(w).next = Chunks
  PROVE  OwnRow(w) /\ Alone(w) /\ WorkSound(w)'
  <1>1. Held(w) => Completed(w) \in Row /\ RowSound(worker[w].job, Completed(w)) /\ Completed(w).holder = NoWorker
    BY CompletedSound, Standing DEF IInv
  <1> QED
    BY <1>1, Left

(* Where a worker goes next it is sound, given what it saw of its row and of *)
(* the index.                                                                *)
LEMMA RefusedLeaves ==
  ASSUME IInv, NEW w \in Workers, NEW row \in {Completed(w), Failed(w)}, Refused(w, row)
  PROVE  OwnRow(w) /\ Alone(w) /\ WorkSound(w)'
  <1>1. CASE Lost(w)
    BY <1>1, LostKeeps
  <1>2. CASE Leave(w, Returned(w))
    BY <1>2, ReturnedLeaves
  <1>3. CASE ~ Wanted(worker[w].job) /\ Leave(w, row)
    <2>1. CASE row = Completed(w)
      BY <1>3, <2>1, CompletedLeaves
    <2>2. CASE row = Failed(w)
      BY <1>3, <2>2, FailedLeaves
    <2> QED
      BY <2>1, <2>2
  <1> QED
    BY <1>1, <1>2, <1>3 DEF Refused

LEMMA EmbedKeeps ==
  ASSUME IInv, NEW w \in Workers, Embed(w)
  PROVE  OwnRow(w) /\ Alone(w) /\ WorkSound(w)'
  <1>1. worker[w].at = "embed" /\ UNCHANGED <<memoryVars, vectors>>
    BY DEF Embed
  <1>2. CASE Lost(w)
    BY <1>2, LostKeeps
  <1>3. CASE Leave(w, Returned(w))
    BY <1>3, ReturnedLeaves
  <1>4. CASE Refused(w, Completed(w))
    BY <1>4, RefusedLeaves
  <1>5. CASE ~ Live(w) /\ Leave(w, Completed(w))
    <2>1. ~ Wanted(worker[w].job)
      BY <1>5 DEF Live, Current, Wanted
    <2> QED
      BY <1>5, <2>1, CompletedLeaves
  <1>6. CASE Job(w).next = Chunks /\ Goto(w, "sweep") /\ UNCHANGED jobs
    <2>1. OwnRow(w) /\ Alone(w) /\ worker'[w].at = "sweep" /\ worker'[w].job = worker[w].job
      BY <1>6, Kept, Went DEF Places
    <2>2. Job(w)' = Job(w) /\ Held(w)' = Held(w)
      BY <1>6, <2>1 DEF Job, Held
    <2>3. WorkSound(w)'
      BY <1>1, <1>6, <2>1, <2>2, Standing DEF WorkSound, memoryVars
    <2> QED
      BY <2>1, <2>3
  <1>7. CASE Job(w).next # Chunks /\ CanCall(w, 2) /\ GotoCalling(w, "ask", 2) /\ UNCHANGED jobs
    <2>1. OwnRow(w) /\ Alone(w) /\ worker'[w].at = "ask" /\ worker'[w].job = worker[w].job
      BY <1>7, Kept, Called DEF Places
    <2>2. Job(w)' = Job(w) /\ Held(w)' = Held(w)
      BY <1>7, <2>1 DEF Job, Held
    <2>3. Job(w).next < Chunks
      BY <1>7, Standing, SizeAssumption DEF Row
    <2>4. WorkSound(w)'
      BY <1>1, <2>1, <2>2, <2>3, Standing DEF WorkSound, Current, memoryVars
    <2> QED
      BY <2>1, <2>4
  <1> QED
    BY <1>2, <1>3, <1>4, <1>5, <1>6, <1>7 DEF Embed

LEMMA AskKeeps ==
  ASSUME IInv, NEW w \in Workers, Ask(w)
  PROVE  OwnRow(w) /\ Alone(w) /\ WorkSound(w)'
  <1>1. worker[w].at = "ask" /\ UNCHANGED <<memoryVars, vectors>>
    BY DEF Ask
  <1>2. CASE Refused(w, Failed(w))
    BY <1>2, RefusedLeaves
  <1>3. CASE Goto(w, "record") /\ UNCHANGED jobs
    <2>1. OwnRow(w) /\ Alone(w) /\ worker'[w].at = "record" /\ worker'[w].job = worker[w].job
      BY <1>3, Kept, Went DEF Places
    <2>2. Job(w)' = Job(w) /\ Held(w)' = Held(w)
      BY <1>3, <2>1 DEF Job, Held
    <2>3. WorkSound(w)'
      BY <1>1, <2>1, <2>2, Standing DEF WorkSound, Current, memoryVars
    <2> QED
      BY <2>1, <2>3
  <1> QED
    BY <1>2, <1>3 DEF Ask

LEMMA RecordKeeps ==
  ASSUME IInv, NEW w \in Workers, Record(w)
  PROVE  OwnRow(w) /\ Alone(w) /\ WorkSound(w)'
  <1>1. worker[w].at = "record" /\ UNCHANGED <<memoryVars, jobs>>
    BY DEF Record
  <1>2. OwnRow(w) /\ Alone(w) /\ worker'[w].at = "upsert" /\ worker'[w].job = worker[w].job
    BY Kept, Went DEF Places, Record
  <1>3. Job(w)' = Job(w) /\ Held(w)' = Held(w)
    BY <1>1, <1>2 DEF Job, Held
  <1>4. Held(w) => VectorOf(worker[w].job, Job(w).next) \in refs'
    BY DEF Record
  <1>5. VectorOf(worker[w].job, Job(w).next)' = VectorOf(worker[w].job, Job(w).next)
    BY <1>2, <1>3 DEF VectorOf
  <1>6. WorkSound(w)'
    BY <1>1, <1>2, <1>3, <1>4, <1>5, Standing DEF WorkSound, Current, memoryVars
  <1> QED
    BY <1>2, <1>6

LEMMA UpsertKeeps ==
  ASSUME IInv, NEW w \in Workers, Upsert(w)
  PROVE  OwnRow(w) /\ Alone(w) /\ WorkSound(w)'
  <1>1. worker[w].at = "upsert" /\ UNCHANGED <<memoryVars, refs, index>>
    BY DEF Upsert
  <1>2. CASE Refused(w, Completed(w))
    BY <1>2, RefusedLeaves
  <1>3. ASSUME Indexable(w),
               sent' = sent \cup {[op |-> "upsert", ids |-> {VectorOf(worker[w].job, Job(w).next)}]},
               Goto(w, "sent"), UNCHANGED jobs
        PROVE  OwnRow(w) /\ Alone(w) /\ WorkSound(w)'
    <2>1. OwnRow(w) /\ Alone(w) /\ worker'[w].at = "sent" /\ worker'[w].job = worker[w].job
      BY <1>3, Kept, Went DEF Places
    <2>2. Job(w)' = Job(w) /\ Held(w)' = Held(w)
      BY <1>3, <2>1 DEF Job, Held
    <2>3. VectorOf(worker[w].job, Job(w).next)' = VectorOf(worker[w].job, Job(w).next)
      BY <2>1, <2>2 DEF VectorOf
    <2> DEFINE new == VectorOf(worker[w].job, Job(w).next)
    <2> HIDE DEF new
    <2>4. sent' = sent \cup {[op |-> "upsert", ids |-> {new}]}
      BY <1>3 DEF new
    <2>5. new \in Known'
      <3> DEFINE call == [op |-> "upsert", ids |-> {new}]
      <3>1. call \in sent' /\ new \in call.ids
        BY <2>4
      <3> HIDE DEF call
      <3> QED
        BY <3>1 DEF Known
    <2>6. VectorOf(worker[w].job, Job(w).next) \in Known'
      BY <2>5 DEF new
    <2>7. WorkSound(w)'
      BY <1>1, <2>1, <2>2, <2>3, <2>6, Standing DEF WorkSound, Current, memoryVars
    <2> QED
      BY <2>1, <2>7
  <1> QED
    BY <1>2, <1>3 DEF Upsert

LEMMA CheckpointKeeps ==
  ASSUME IInv, NEW w \in Workers, Checkpoint(w)
  PROVE  OwnRow(w) /\ Alone(w) /\ WorkSound(w)'
  <1>1. worker[w].at = "sent"
    BY DEF Checkpoint
  <1>2. CASE Lost(w)
    BY <1>2, LostKeeps
  <1>3. ASSUME Held(w), Save(w, [Job(w) EXCEPT !.next = @ + 1]), Goto(w, "embed")
        PROVE  OwnRow(w) /\ Alone(w) /\ WorkSound(w)'
    <2> DEFINE mine == Job(w)
    <2> DEFINE more == [mine EXCEPT !.next = @ + 1]
    <2>1. /\ mine \in Row /\ RowSound(worker[w].job, mine) /\ mine.next < Chunks /\ mine.next \in Nat
          /\ mine.holder = w /\ mine.state = "leased"
          /\ Wanted(worker[w].job) => VectorOf(worker[w].job, mine.next) \in Known
      BY <1>1, <1>3, Standing, SizeAssumption DEF WorkSound, Row, Held
    <2> HIDE DEF mine
    <2>2. /\ more \in Row /\ more.kind = mine.kind /\ more.state = "leased" /\ more.pending = mine.pending
          /\ more.next = mine.next + 1 /\ more.only = mine.only /\ more.holder = w
      BY <2>1, SizeAssumption DEF Row
    <2> HIDE DEF more
    <2>3. Wanted(worker[w].job) => ~ mine.only
      BY <2>1, SizeAssumption DEF RowSound
    <2>4. Wanted(worker[w].job) => \A n \in 0 .. more.next - 1 : VectorOf(worker[w].job, n) \in Known
      <3> SUFFICES ASSUME Wanted(worker[w].job), NEW n \in 0 .. more.next - 1
                   PROVE  VectorOf(worker[w].job, n) \in Known
        OBVIOUS
      <3>1. n = mine.next \/ n \in 0 .. mine.next - 1
        BY <2>1, <2>2
      <3> QED
        BY <2>1, <3>1 DEF RowSound
    <2>5. RowSound(worker[w].job, more)
      BY <2>1, <2>2, <2>3, <2>4 DEF RowSound
    <2>6. Save(w, more)
      BY <1>3 DEF more, mine
    <2>7. OwnRow(w)
      BY <1>3, <2>2, <2>5, <2>6, Saved
    <2>8. Alone(w) /\ worker'[w].at = "embed" /\ worker'[w].job = worker[w].job
      BY <1>3, Went DEF Places
    <2>9. WorkSound(w)'
      BY <1>1, <2>8, Standing DEF WorkSound, Current, memoryVars, Checkpoint
    <2> QED
      BY <2>7, <2>8, <2>9
  <1> QED
    BY <1>2, <1>3 DEF Checkpoint

(* The clean-up: a page is put on record before it is deleted, and holds     *)
(* only vectors nobody needs.                                                *)
LEMMA ReserveKeeps ==
  ASSUME IInv, NEW w \in Workers, worker[w].at = "sweep", UNCHANGED <<memory, owner>>, Held(w),
         NEW ids, NEW n \in {0, 1}, Reserve(w, ids, n), CanCall(w, 2),
         ids \subseteq Vectors,
         \A v \in ids : v \in refs /\ (RevisionOf(v) < worker[w].job
                                       \/ (RevisionOf(v) = worker[w].job /\ Job(w).kind = "delete"))
  PROVE  OwnRow(w) /\ Alone(w) /\ WorkSound(w)'
  <1> DEFINE mine == Job(w)
  <1> DEFINE more == [mine EXCEPT !.pending = ids, !.retry = "running"]
  <1>1. /\ mine \in Row /\ RowSound(worker[w].job, mine) /\ mine.holder = w /\ mine.state = "leased"
        /\ \A v \in ids : v \in refs /\ (RevisionOf(v) < worker[w].job
                                       \/ (RevisionOf(v) = worker[w].job /\ mine.kind = "delete"))
        /\ Wanted(worker[w].job) => mine.next = Chunks
    BY Standing DEF WorkSound, Held
  <1>2. Save(w, more)
    BY DEF Reserve
  <1> HIDE DEF mine
  <1>3. /\ more \in Row /\ more.kind = mine.kind /\ more.state = "leased" /\ more.pending = ids
        /\ more.next = mine.next /\ more.only = mine.only /\ more.holder = w
    BY <1>1 DEF Row
  <1> HIDE DEF more
  <1>4. RowSound(worker[w].job, more)
    BY <1>1, <1>3 DEF RowSound
  <1>5. OwnRow(w) /\ jobs'[worker[w].job] = more
    BY <1>2, <1>3, <1>4, Saved
  <1>6. CanCall(w, n) /\ worker[w].calls + n < SliceCalls
    BY Standing, SizeAssumption DEF CanCall
  <1>7. /\ Alone(w) /\ worker'[w].at = "delete"
        /\ worker'[w].job = worker[w].job /\ worker'[w].calls = worker[w].calls + n
    BY <1>6, Called DEF Reserve, Places
  <1>8. Job(w)'.next = mine.next
    BY <1>3, <1>5, <1>7 DEF Job
  <1>9. WorkSound(w)'
    BY <1>1, <1>6, <1>7, <1>8, Standing DEF WorkSound, Wanted
  <1> QED
    BY <1>5, <1>7, <1>9

LEMMA ConfirmKeeps ==
  ASSUME IInv, NEW w \in Workers, worker[w].at = "sweep", UNCHANGED <<memory, owner>>, Confirm(w)
  PROVE  OwnRow(w) /\ Alone(w) /\ WorkSound(w)'
  <1> DEFINE mine == Job(w)
  <1>1. mine \in Row /\ RowSound(worker[w].job, mine) /\ mine.pending # {} /\ mine.pending \subseteq Vectors
    BY Standing DEF Confirm, Row
  <1>2. CASE Lost(w)
    BY <1>2, LostKeeps
  <1>3. CASE Leave(w, Returned(w))
    BY <1>3, ReturnedLeaves
  <1>4. CASE Held(w) /\ Leave(w, [Returned(w) EXCEPT !.retry = "running"])
    <2> DEFINE back == Returned(w)
    <2>1. back \in Row /\ RowSound(worker[w].job, back) /\ back.holder = NoWorker
      BY ReturnedSound, Standing DEF IInv
    <2> HIDE DEF back
    <2> DEFINE late == [back EXCEPT !.retry = "running"]
    <2>2. /\ late \in Row /\ late.kind = back.kind /\ late.state = back.state /\ late.attempt = back.attempt
          /\ late.pending = back.pending /\ late.next = back.next /\ late.only = back.only
          /\ late.holder = back.holder
      BY <2>1 DEF Row
    <2>3. Leave(w, late)
      BY <1>4 DEF back
    <2> HIDE DEF late
    <2>4. RowSound(worker[w].job, late)
      BY <2>1, <2>2 DEF RowSound
    <2> QED
      BY <2>1, <2>2, <2>3, <2>4, Left
  <1>5. CASE Held(w) /\ CanCall(w, 2) /\ Reserve(w, mine.pending, 1)
    <2>1. \A v \in mine.pending : v \in refs /\ (RevisionOf(v) < worker[w].job
                                       \/ (RevisionOf(v) = worker[w].job /\ Job(w).kind = "delete"))
      BY <1>1 DEF RowSound
    <2> QED
      BY <1>1, <1>5, <2>1, ReserveKeeps
  <1>6. ASSUME Held(w), CanCall(w, 1),
               Save(w, [Job(w) EXCEPT !.cursor = Max(Job(w).pending), !.pending = {}, !.retry = "unset"]),
               GotoCalling(w, "sweep", 1)
        PROVE  OwnRow(w) /\ Alone(w) /\ WorkSound(w)'
    <2> DEFINE last == Max(mine.pending)
    <2>1. last \in Vectors
      <3>1. (MaxRevision + 1) * Chunks - 1 \in Nat
        <4>1. MaxRevision + 1 \in Nat \ {0} /\ Chunks \in Nat \ {0}
          BY SizeAssumption
        <4>2. (MaxRevision + 1) * Chunks \in Nat \ {0}
          BY <4>1
        <4> QED
          BY <4>2
      <3>2. last \in mine.pending
        BY <1>1, <3>1, Largest DEF Vectors
      <3> QED
        BY <1>1, <3>2
    <2> HIDE DEF last
    <2> DEFINE clean == [mine EXCEPT !.cursor = last, !.pending = {}, !.retry = "unset"]
    <2>2. Save(w, clean)
      BY <1>6 DEF last
    <2>3. mine.holder = w /\ (Wanted(worker[w].job) => mine.next = Chunks) /\ mine.state = "leased"
      BY <1>6, Standing DEF WorkSound, Held
    <2> HIDE DEF mine
    <2>4. /\ clean \in Row /\ clean.kind = mine.kind /\ clean.state = mine.state /\ clean.pending = {}
          /\ clean.next = mine.next /\ clean.only = mine.only /\ clean.holder = w
      BY <1>1, <2>1, <2>3 DEF Row
    <2> HIDE DEF clean
    <2>5. RowSound(worker[w].job, clean)
      BY <1>1, <2>3, <2>4 DEF RowSound
    <2>6. OwnRow(w) /\ jobs'[worker[w].job] = clean
      BY <1>6, <2>2, <2>4, <2>5, Saved
    <2>7. Alone(w) /\ worker'[w].at = "sweep" /\ worker'[w].job = worker[w].job
      BY <1>6, Called DEF Places
    <2>8. Job(w)'.next = mine.next
      BY <2>4, <2>6, <2>7 DEF Job
    <2>9. WorkSound(w)'
      BY <2>3, <2>7, <2>8, Standing DEF WorkSound, Wanted
    <2> QED
      BY <2>6, <2>7, <2>9
  <1> QED
    BY <1>2, <1>3, <1>4, <1>5, <1>6 DEF Confirm

LEMMA NextPageKeeps ==
  ASSUME IInv, NEW w \in Workers, worker[w].at = "sweep", UNCHANGED <<memory, owner>>, NextPage(w)
  PROVE  OwnRow(w) /\ Alone(w) /\ WorkSound(w)'
  <1>1. CASE Lost(w)
    BY <1>1, LostKeeps
  <1>2. CASE Leave(w, Returned(w))
    BY <1>2, ReturnedLeaves
  <1>3. CASE Leave(w, Completed(w))
    <2>1. Held(w) /\ Wanted(worker[w].job) => Job(w).next = Chunks
      BY Standing DEF WorkSound
    <2> QED
      BY <1>3, <2>1, CompletedLeaves
  <1>4. ASSUME Current(w), memory.erased, Goto(w, "swept"), UNCHANGED jobs
        PROVE  OwnRow(w) /\ Alone(w) /\ WorkSound(w)'
    <2>1. OwnRow(w) /\ Alone(w) /\ worker'[w].at = "swept" /\ worker'[w].job = worker[w].job
      BY <1>4, Kept, Went DEF Places
    <2>2. ~ Wanted(worker[w].job)
      BY <1>4 DEF Wanted, IInv, MemorySound
    <2>3. WorkSound(w)'
      BY <2>1, <2>2, Standing DEF WorkSound, Wanted
    <2> QED
      BY <2>1, <2>3
  <1>5. ASSUME CanCall(w, 2), Held(w), Reserve(w, FirstPage(Obsolete(w)), 0)
        PROVE  OwnRow(w) /\ Alone(w) /\ WorkSound(w)'
    <2> DEFINE ids == FirstPage(Obsolete(w))
    <2>1. ids \subseteq Obsolete(w)
      BY DEF FirstPage
    <2> HIDE DEF ids
    <2>2. \A v \in ids : v \in refs /\ (RevisionOf(v) < worker[w].job
                                       \/ (RevisionOf(v) = worker[w].job /\ Job(w).kind = "delete"))
      BY <2>1 DEF Obsolete
    <2>3. ids \subseteq Vectors
      BY <2>2 DEF IInv, TypeOK
    <2>4. Reserve(w, ids, 0)
      BY <1>5 DEF ids
    <2> QED
      BY <1>5, <2>2, <2>3, <2>4, ReserveKeeps
  <1> QED
    BY <1>1, <1>2, <1>3, <1>4, <1>5 DEF NextPage

LEMMA SweepKeeps ==
  ASSUME IInv, NEW w \in Workers, Sweep(w)
  PROVE  OwnRow(w) /\ Alone(w) /\ WorkSound(w)'
  BY ConfirmKeeps, NextPageKeeps DEF Sweep, memoryVars

LEMMA DeleteKeeps ==
  ASSUME IInv, NEW w \in Workers, Delete(w)
  PROVE  OwnRow(w) /\ Alone(w) /\ WorkSound(w)'
  <1>1. worker[w].at = "delete" /\ UNCHANGED <<memory, owner>>
    BY DEF Delete, memoryVars
  <1>2. CASE Lost(w)
    BY <1>2, LostKeeps
  <1>3. ASSUME Held(w), GotoCalling(w, "sweep", 1), UNCHANGED jobs
        PROVE  OwnRow(w) /\ Alone(w) /\ WorkSound(w)'
    <2>1. CanCall(w, 1)
      BY <1>1, Standing, SizeAssumption DEF WorkSound, CanCall
    <2>2. OwnRow(w) /\ Alone(w) /\ worker'[w].at = "sweep" /\ worker'[w].job = worker[w].job
      BY <1>3, <2>1, Kept, Called DEF Places
    <2>3. Job(w)' = Job(w)
      BY <1>3, <2>2 DEF Job
    <2>4. WorkSound(w)'
      BY <1>1, <1>3, <2>2, <2>3, Standing DEF WorkSound, Wanted
    <2> QED
      BY <2>2, <2>4
  <1> QED
    BY <1>2, <1>3 DEF Delete

LEMMA SweptKeeps ==
  ASSUME IInv, NEW w \in Workers, Swept(w)
  PROVE  OwnRow(w) /\ Alone(w) /\ WorkSound(w)'
  <1>1. worker[w].at = "swept" /\ UNCHANGED <<memory, owner>>
    BY DEF Swept
  <1>2. CASE Lost(w)
    BY <1>2, LostKeeps
  <1>3. ASSUME Goto(w, "complete"), UNCHANGED jobs
        PROVE  OwnRow(w) /\ Alone(w) /\ WorkSound(w)'
    <2>1. OwnRow(w) /\ Alone(w) /\ worker'[w].at = "complete" /\ worker'[w].job = worker[w].job
      BY <1>3, Kept, Went DEF Places
    <2>2. WorkSound(w)'
      BY <1>1, <2>1, Standing DEF WorkSound, Wanted
    <2> QED
      BY <2>1, <2>2
  <1> QED
    BY <1>2, <1>3 DEF Swept

LEMMA CompleteKeeps ==
  ASSUME IInv, NEW w \in Workers, Complete(w)
  PROVE  OwnRow(w) /\ Alone(w) /\ WorkSound(w)'
  <1>1. ~ Wanted(worker[w].job)
    BY Standing DEF Complete, WorkSound
  <1> QED
    BY <1>1, CompletedLeaves DEF Complete

LEMMA ExtractKeeps ==
  ASSUME IInv, NEW w \in Workers, Extract(w)
  PROVE  OwnRow(w) /\ Alone(w) /\ WorkSound(w)'
  <1>1. worker[w].at = "extract" /\ UNCHANGED <<memory, owner>>
    BY DEF Extract, memoryVars
  <1>2. CASE Leave(w, Failed(w))
    BY <1>2, FailedLeaves
  <1>3. ASSUME Goto(w, "extracted"), UNCHANGED jobs
        PROVE  OwnRow(w) /\ Alone(w) /\ WorkSound(w)'
    <2>1. OwnRow(w) /\ Alone(w) /\ worker'[w].at = "extracted" /\ worker'[w].job = worker[w].job
      BY <1>3, Kept, Went DEF Places
    <2>2. WorkSound(w)'
      BY <1>1, <2>1, Standing DEF WorkSound, Wanted
    <2> QED
      BY <2>1, <2>2
  <1> QED
    BY <1>2, <1>3 DEF Extract

LEMMA ProposeKeeps ==
  ASSUME IInv, NEW w \in Workers, Propose(w)
  PROVE  OwnRow(w) /\ Alone(w) /\ WorkSound(w)'
  <1>1. worker[w].at = "extracted" /\ UNCHANGED <<memory, owner>>
    BY DEF Propose, memoryVars
  <1>2. CASE Leave(w, Failed(w))
    BY <1>2, FailedLeaves
  <1>3. ASSUME Goto(w, "complete"), UNCHANGED jobs
        PROVE  OwnRow(w) /\ Alone(w) /\ WorkSound(w)'
    <2>1. OwnRow(w) /\ Alone(w) /\ worker'[w].at = "complete" /\ worker'[w].job = worker[w].job
      BY <1>3, Kept, Went DEF Places
    <2>2. ~ Wanted(worker[w].job)
      BY <1>1, Standing DEF WorkSound, Wanted, Conversation, Revisions
    <2>3. WorkSound(w)'
      BY <1>1, <2>1, <2>2, Standing DEF WorkSound, Wanted
    <2> QED
      BY <2>1, <2>3
  <1> QED
    BY <1>2, <1>3 DEF Propose

LEMMA AccidentKeeps ==
  ASSUME IInv, NEW w \in Workers, Accident(w)
  PROVE  OwnRow(w) /\ Alone(w) /\ WorkSound(w)'
  <1>1. CASE CallFails(w)
    BY <1>1, FailedLeaves DEF CallFails
  <1>2. CASE Crash(w)
    BY <1>2, Kept, Went, Stopped DEF Crash, Places
  <1> QED
    BY <1>1, <1>2 DEF Accident

------------------------------------------------------------------------------
(* What the others see of a step: a lease is only given to the worker that   *)
(* moves, and the index forgets nothing but what is unwanted or was not yet  *)
(* counted.                                                                  *)
LeaseStays(j, x) ==
  jobs'[j].state = "leased" /\ jobs'[j].holder = x /\ ~ jobs'[j].expired =>
    /\ jobs[j].state = "leased" /\ jobs[j].holder = x /\ ~ jobs[j].expired
    /\ jobs'[j].next = jobs[j].next

Uncounted(w, v) ==
  /\ Held(w) /\ worker[w].at = "sent" /\ v = VectorOf(worker[w].job, Job(w).next)
  /\ jobs'[worker[w].job].next = Job(w).next

LEMMA WorkKeeps ==
  ASSUME IInv, NEW w \in Workers, Work(w) \/ Accident(w)
  PROVE  OwnRow(w) /\ Alone(w) /\ WorkSound(w)'
  BY EmbedKeeps, AskKeeps, RecordKeeps, UpsertKeeps, CheckpointKeeps, SweepKeeps, DeleteKeeps, SweptKeeps,
     CompleteKeeps, ExtractKeeps, ProposeKeeps, AccidentKeeps DEF Work

LEMMA WorkFrame ==
  ASSUME IInv, NEW w \in Workers, Work(w) \/ Accident(w)
  PROVE  /\ memory' = memory /\ refs \subseteq refs' /\ index' = index /\ (\A j : Wanted(j)' => Wanted(j))
         /\ UNCHANGED <<owner, approver, receipts, created>>
  <1>1. CASE Embed(w) BY <1>1 DEF Embed, memoryVars, vectors, human, Wanted
  <1>13. CASE Ask(w) BY <1>13 DEF Ask, memoryVars, vectors, human, Wanted
  <1>2. CASE Record(w) BY <1>2 DEF Record, memoryVars, vectors, human, Wanted
  <1>3. CASE Upsert(w) BY <1>3 DEF Upsert, memoryVars, vectors, human, Wanted
  <1>4. CASE Checkpoint(w) BY <1>4 DEF Checkpoint, memoryVars, vectors, human, Wanted
  <1>5. CASE Sweep(w) BY <1>5 DEF Sweep, memoryVars, vectors, human, Wanted
  <1>6. CASE Delete(w) BY <1>6 DEF Delete, memoryVars, vectors, human, Wanted
  <1>7. CASE Swept(w) BY <1>7 DEF Swept, memoryVars, vectors, human, Wanted
  <1>8. CASE Complete(w) BY <1>8 DEF Complete, memoryVars, vectors, human, Wanted
  <1>9. CASE Extract(w) BY <1>9 DEF Extract, memoryVars, vectors, human, Wanted
  <1>10. CASE Propose(w) BY <1>10 DEF Propose, memoryVars, vectors, human, Wanted
  <1>11. CASE CallFails(w) BY <1>11 DEF CallFails, memoryVars, vectors, human, Wanted
  <1>12. CASE Crash(w) BY <1>12 DEF Crash, memoryVars, vectors, human, Wanted
  <1> QED
    BY <1>1, <1>2, <1>3, <1>4, <1>5, <1>6, <1>7, <1>8, <1>9, <1>10, <1>11, <1>12, <1>13 DEF Work, Accident

(* What a step of a worker sends. *)
Uploaded(w) == [op |-> "upsert", ids |-> {VectorOf(worker[w].job, Job(w).next)}]
Deleted(w) == [op |-> "delete", ids |-> Job(w).pending]

LEMMA WorkSends ==
  ASSUME IInv, NEW w \in Workers, Work(w) \/ Accident(w)
  PROVE  \/ sent' = sent
         \/ worker[w].at = "upsert" /\ Held(w) /\ sent' = sent \cup {Uploaded(w)}
         \/ worker[w].at = "delete" /\ Held(w) /\ sent' = sent \cup {Deleted(w)}
         \/ CallFails(w) /\ Held(w) /\ sent' = sent \ LastCall(w)
  <1>1. CASE Embed(w) BY <1>1 DEF Embed, vectors
  <1>13. CASE Ask(w) BY <1>13 DEF Ask, vectors
  <1>2. CASE Record(w) BY <1>2 DEF Record
  <1>3. CASE Upsert(w) BY <1>3 DEF Upsert, Indexable, Uploaded
  <1>4. CASE Checkpoint(w) BY <1>4 DEF Checkpoint, vectors
  <1>5. CASE Sweep(w) BY <1>5 DEF Sweep, vectors
  <1>6. CASE Delete(w) BY <1>6 DEF Delete, Deleted
  <1>7. CASE Swept(w) BY <1>7 DEF Swept, vectors
  <1>8. CASE Complete(w) BY <1>8 DEF Complete, vectors
  <1>9. CASE Extract(w) BY <1>9 DEF Extract, vectors
  <1>10. CASE Propose(w) BY <1>10 DEF Propose, vectors
  <1>11. CASE CallFails(w) BY <1>11 DEF CallFails, Forget
  <1>12. CASE Crash(w) BY <1>12 DEF Crash, vectors
  <1> QED
    BY <1>1, <1>2, <1>3, <1>4, <1>5, <1>6, <1>7, <1>8, <1>9, <1>10, <1>11, <1>12, <1>13 DEF Work, Accident

LEMMA PendingUnwanted ==
  ASSUME IInv, NEW j \in JobIds, j <= memory.revision, NEW v \in jobs[j].pending
  PROVE  Unwanted(v) /\ v \in refs /\ v \in Vectors
  <1>1. RowSound(j, jobs[j]) /\ jobs[j] \in Row /\ v \in Vectors /\ memory.revision \in Nat /\ j \in Nat
    BY SizeAssumption DEF IInv, TypeOK, JobIds, Row, Conversation, Revisions
  <1>2. RevisionOf(v) \in Nat
    BY <1>1, RevisionTyped, SizeAssumption
  <1> QED
    BY <1>1, <1>2 DEF RowSound, Unwanted

LEMMA WantedVector ==
  ASSUME IInv, NEW j \in JobIds, Wanted(j), NEW n \in 0 .. Chunks - 1
  PROVE  ~ Unwanted(VectorOf(j, n))
  <1>1. RevisionOf(VectorOf(j, n)) = j
    BY VectorRevision DEF JobIds
  <1>2. j = memory.revision /\ ~ memory.deleted /\ memory.revision \in Nat
    BY DEF Wanted, IInv, TypeOK
  <1> QED
    BY <1>1, <1>2 DEF Unwanted

LEMMA WorkForgets ==
  ASSUME IInv, NEW w \in Workers, Work(w) \/ Accident(w), NEW v \in Known, v \notin Known'
  PROVE  Unwanted(v) \/ Uncounted(w, v)
  <1>1. index' = index
    BY WorkFrame
  <1>2. ASSUME sent \subseteq sent' PROVE FALSE
    BY <1>1, <1>2 DEF Known
  <1>3. CallFails(w) /\ Held(w) /\ sent' = sent \ LastCall(w)
    BY <1>2, WorkSends
  <1>4. PICK c \in LastCall(w) : v \in c.ids
    BY <1>1, <1>3 DEF Known
  <1>5. CASE worker[w].at = "sent"
    <2>1. c.ids = {VectorOf(worker[w].job, Job(w).next)}
      BY <1>4, <1>5 DEF LastCall
    <2>2. jobs'[worker[w].job] = Failed(w)
      BY <1>3, Standing DEF CallFails, Leave, Save
    <2>3. Failed(w).next = Job(w).next
      BY Standing DEF Failed, Free, Row
    <2> QED
      BY <1>3, <1>4, <1>5, <2>1, <2>2, <2>3 DEF Uncounted
  <1>6. CASE worker[w].at = "sweep"
    <2>1. c.ids = Job(w).pending
      BY <1>4, <1>6 DEF LastCall
    <2> QED
      BY <1>4, <1>6, <2>1, PendingUnwanted, Standing DEF WorkSound, Job
  <1> QED
    BY <1>4, <1>5, <1>6 DEF LastCall

LEMMA BystanderStays ==
  ASSUME IInv, NEW x \in Workers, worker'[x] = worker[x], memory' = memory, refs \subseteq refs',
         \A j : Wanted(j)' => Wanted(j),
         LeaseStays(worker[x].job, x),
         \A v \in Known : v \notin Known' =>
           Unwanted(v) \/ \E w \in Workers \ {x} : Uncounted(w, v)
  PROVE  WorkSound(x)'
  <1>1. WorkSound(x) /\ worker[x].job \in JobIds /\ Job(x) = jobs[worker[x].job]
        /\ Job(x)' = jobs'[worker[x].job] /\ Job(x) \in Row
    BY Standing DEF Job
  <1>2. Held(x)' => Held(x) /\ Job(x)'.next = Job(x).next
    BY <1>1 DEF LeaseStays, Held
  <1> DEFINE v == VectorOf(worker[x].job, Job(x).next)
  <1>3. ASSUME worker[x].at = "sent", Held(x), Wanted(worker[x].job) PROVE v \in Known'
    <2>1. v \in Known /\ Job(x).next \in 0 .. Chunks - 1
      BY <1>1, <1>3, SizeAssumption DEF WorkSound, Row
    <2>2. ~ Unwanted(v)
      BY <1>1, <1>3, <2>1, WantedVector
    <2>3. ASSUME NEW w \in Workers \ {x}, Uncounted(w, v) PROVE FALSE
      <3>1. Job(w).next \in 0 .. Chunks - 1 /\ worker[w].job \in JobIds
        BY <2>3, Standing, SizeAssumption DEF Uncounted, WorkSound, Row
      <3>2. RevisionOf(v) = worker[w].job
        BY <2>3, <3>1, VectorRevision DEF Uncounted, JobIds
      <3>3. RevisionOf(v) = worker[x].job
        BY <1>1, <2>1, VectorRevision DEF JobIds
      <3>4. Held(w) /\ Held(x) /\ worker[w].job = worker[x].job
        BY <1>3, <2>3, <3>2, <3>3 DEF Uncounted
      <3> QED
        BY <3>4 DEF Held, Job
    <2> HIDE DEF v
    <2> QED
      BY <2>1, <2>2, <2>3
  <1>4. Held(x)' => VectorOf(worker[x].job, Job(x).next)' = v
    BY <1>2 DEF VectorOf
  <1> HIDE DEF v
  <1>5. v \in refs => v \in refs'
    OBVIOUS
  <1>6. worker[x].at = "upsert" /\ Held(x) => v \in refs
    BY <1>1 DEF WorkSound, v
  <1> QED
    BY <1>1, <1>2, <1>3, <1>4, <1>5, <1>6 DEF WorkSound, Current

(* A sound row stays sound when the index only forgets what does not count. *)
LEMMA RowStays ==
  ASSUME IInv, NEW j \in JobIds, jobs'[j] \in Row, RowSound(j, jobs'[j]),
         memory' = memory, refs \subseteq refs', Wanted(j)' => Wanted(j),
         \A v \in Known : v \notin Known' =>
           Unwanted(v) \/ \E w \in Workers : Uncounted(w, v)
  PROVE  RowSound(j, jobs[j])'
  <1>0. PICK row : row = jobs'[j]
    OBVIOUS
  <1>1. row \in Row /\ RowSound(j, row) /\ row.next \in 0 .. Chunks
    BY <1>0 DEF Row
  <1>2. ASSUME Wanted(j), NEW n \in 0 .. row.next - 1 PROVE VectorOf(j, n) \in Known'
    <2>1. VectorOf(j, n) \in Known /\ n \in 0 .. Chunks - 1
      BY <1>1, <1>2, SizeAssumption DEF RowSound
    <2>2. ~ Unwanted(VectorOf(j, n))
      BY <1>2, <2>1, WantedVector
    <2>3. ASSUME NEW w \in Workers, Uncounted(w, VectorOf(j, n)) PROVE FALSE
      <3>1. Job(w).next \in 0 .. Chunks - 1 /\ worker[w].job \in JobIds
        BY <2>3, Standing, SizeAssumption DEF Uncounted, WorkSound, Row
      <3>2. RevisionOf(VectorOf(j, n)) = worker[w].job
        BY <2>3, <3>1, VectorRevision DEF Uncounted, JobIds
      <3>3. RevisionOf(VectorOf(j, n)) = j
        BY <2>1, VectorRevision DEF JobIds
      <3>4. row.next = Job(w).next
        BY <1>0, <2>3, <3>2, <3>3 DEF Uncounted
      <3>5. VectorOf(j, n) = VectorOf(j, Job(w).next)
        BY <2>3, <3>2, <3>3 DEF Uncounted
      <3>6. n = Job(w).next
        <4>1. j * Chunks \in Int
          BY SizeAssumption DEF JobIds, Conversation, Revisions
        <4> DEFINE first == j * Chunks
                   other == Job(w).next
        <4>2. first + n = first + other
          BY <3>5 DEF VectorOf
        <4>3. first \in Int /\ n \in Int /\ other \in Int
          BY <2>1, <3>1, <4>1, SizeAssumption
        <4> HIDE DEF first, other
        <4>4. n = other
          BY <4>2, <4>3
        <4> QED
          BY <4>4 DEF other
      <3> QED
        BY <1>1, <1>2, <3>4, <3>6, SizeAssumption
    <2> QED
      BY <2>1, <2>2, <2>3
  <1>3. \A v \in row.pending : v \in refs'
    BY <1>1 DEF RowSound
  <1>4. Wanted(j)' => Wanted(j)
    OBVIOUS
  <1>5. \A n : VectorOf(j, n)' = VectorOf(j, n)
    BY DEF VectorOf
  <1>6. RowSound(j, row)'
    BY <1>1, <1>2, <1>3, <1>4 DEF RowSound
  <1> QED
    BY <1>0, <1>6 DEF RowSound

------------------------------------------------------------------------------
(* A step of a worker keeps the invariant. *)
LEMMA WorkRest ==
  ASSUME IInv, NEW w \in Workers, Work(w) \/ Accident(w)
  PROVE  /\ vectorErased' \in BOOLEAN /\ faults' \in 0 .. MaxFaults
         /\ \/ refs' = refs
            \/ /\ Held(w) /\ worker[w].at = "record"
               /\ refs' = refs \cup {VectorOf(worker[w].job, Job(w).next)}
         /\ \/ conversation' = conversation
            \/ conversation.state = "queued" /\ conversation' = [conversation EXCEPT !.state = "review"]
  <1>0. vectorErased \in BOOLEAN /\ faults \in 0 .. MaxFaults /\ MaxFaults \in Nat
    BY FaultAssumption DEF IInv, TypeOK
  <1>1. CASE Embed(w) BY <1>0, <1>1 DEF Embed, memoryVars, vectors, human
  <1>13. CASE Ask(w) BY <1>0, <1>13 DEF Ask, memoryVars, vectors, human
  <1>2. CASE Record(w) BY <1>0, <1>2 DEF Record, memoryVars, human
  <1>3. CASE Upsert(w) BY <1>0, <1>3 DEF Upsert, memoryVars, vectors, human
  <1>4. CASE Checkpoint(w) BY <1>0, <1>4 DEF Checkpoint, memoryVars, vectors, human
  <1>5. CASE Sweep(w) BY <1>0, <1>5 DEF Sweep, memoryVars, vectors, human
  <1>6. CASE Delete(w) BY <1>0, <1>6 DEF Delete, memoryVars, vectors, human
  <1>7. CASE Swept(w) BY <1>0, <1>7 DEF Swept, memoryVars, vectors, human
  <1>8. CASE Complete(w) BY <1>0, <1>8 DEF Complete, memoryVars, vectors, human
  <1>9. CASE Extract(w) BY <1>0, <1>9 DEF Extract, memoryVars, vectors, human
  <1>10. CASE Propose(w)
    BY <1>0, <1>10 DEF Propose, Extractable, Retryable, memoryVars, vectors, human
  <1>11. CASE CallFails(w) BY <1>0, <1>11 DEF CallFails, Fault, memoryVars, vectors, human
  <1>12. CASE Crash(w) BY <1>0, <1>12 DEF Crash, Fault, memoryVars, vectors, human
  <1> QED
    BY <1>1, <1>2, <1>3, <1>4, <1>5, <1>6, <1>7, <1>8, <1>9, <1>10, <1>11, <1>12, <1>13 DEF Work, Accident

LEMMA HeldVector ==
  ASSUME IInv, NEW w \in Workers, Held(w), worker[w].at \in {"record", "upsert", "sent"}
  PROVE  VectorOf(worker[w].job, Job(w).next) \in Vectors
  <1>1. Job(w).next \in 0 .. Chunks - 1 /\ worker[w].job \in JobIds
    BY Standing, SizeAssumption DEF WorkSound, Row
  <1> QED
    BY <1>1, VectorTyped DEF JobIds

LEMMA WorkCalls ==
  ASSUME IInv, NEW w \in Workers, Work(w) \/ Accident(w)
  PROVE  sent' \subseteq Call /\ IndexSound'
  <1>1. refs \subseteq refs' /\ index' = index /\ memory' = memory
    BY WorkFrame
  <1>2. sent \subseteq Call /\ index \cup UNION {c.ids : c \in sent} \subseteq refs
    BY DEF IInv, TypeOK, IndexSound, Known
  <1>3. \A v : Unwanted(v)' <=> Unwanted(v)
    BY <1>1 DEF Unwanted, RevisionOf
  <1>4. \A c \in sent : c.op = "delete" => \A v \in c.ids : Unwanted(v)
    BY DEF IInv, IndexSound
  <1>5. CASE sent' \subseteq sent
    <2>1. Known' \subseteq refs'
      BY <1>1, <1>2, <1>5 DEF Known
    <2> QED
      BY <1>2, <1>3, <1>4, <1>5, <2>1 DEF IndexSound
  <1>6. CASE worker[w].at = "upsert" /\ Held(w) /\ sent' = sent \cup {Uploaded(w)}
    <2> DEFINE v == VectorOf(worker[w].job, Job(w).next)
    <2>1. v \in Vectors /\ v \in refs
      BY <1>6, HeldVector, Standing DEF WorkSound
    <2>2. Uploaded(w) = [op |-> "upsert", ids |-> {v}]
      BY DEF Uploaded
    <2> HIDE DEF v
    <2> DEFINE call == Uploaded(w)
    <2>3. call \in Call /\ call.op = "upsert" /\ call.ids \subseteq refs
      BY <2>1, <2>2 DEF Call
    <2> HIDE DEF call
    <2>4. sent' = sent \cup {call}
      BY <1>6 DEF call
    <2>5. Known' \subseteq refs'
      BY <1>1, <1>2, <2>3, <2>4 DEF Known
    <2> QED
      BY <1>2, <1>3, <1>4, <2>3, <2>4, <2>5 DEF IndexSound
  <1>7. CASE worker[w].at = "delete" /\ Held(w) /\ sent' = sent \cup {Deleted(w)}
    <2> DEFINE ids == Job(w).pending
    <2>1. \A v \in ids : v \in Vectors /\ v \in refs /\ Unwanted(v)
      BY <1>7, PendingUnwanted, Standing DEF WorkSound
    <2>2. Deleted(w) = [op |-> "delete", ids |-> ids]
      BY DEF Deleted
    <2> HIDE DEF ids
    <2> DEFINE call == Deleted(w)
    <2>3. call \in Call /\ call.ids = ids
      BY <2>1, <2>2 DEF Call
    <2> HIDE DEF call
    <2>4. sent' = sent \cup {call}
      BY <1>7 DEF call
    <2>5. Known' \subseteq refs'
      BY <1>1, <1>2, <2>1, <2>3, <2>4 DEF Known
    <2> QED
      BY <1>2, <1>3, <1>4, <2>1, <2>3, <2>4, <2>5 DEF IndexSound
  <1> QED
    BY <1>5, <1>6, <1>7, WorkSends

LEMMA WorkTyped ==
  ASSUME IInv, NEW w \in Workers, Work(w) \/ Accident(w)
  PROVE  TypeOK'
  <1>1. TypeOK
    BY DEF IInv
  <1>2. memory' = memory /\ index' = index /\ UNCHANGED <<owner, approver, receipts, created>>
    BY WorkFrame
  <1>3. jobs' \in [JobIds -> Row] /\ worker' \in [Workers -> WorkerType]
    BY WorkKeeps DEF OwnRow, Alone
  <1>4. sent' \subseteq Call
    BY WorkCalls
  <1>5. refs' \subseteq Vectors
    BY <1>1, WorkRest, HeldVector DEF TypeOK
  <1>6. /\ vectorErased' \in BOOLEAN /\ faults' \in 0 .. MaxFaults
        /\ conversation' \in [state: {"none", "queued", "review", "approved", "expired"},
                              selection: Selections, expired: BOOLEAN, authorized: BOOLEAN]
    BY <1>1, WorkRest DEF TypeOK
  <1> QED
    BY <1>1, <1>2, <1>3, <1>4, <1>5, <1>6 DEF TypeOK, JobIds, WorkerType

LEMMA WorkStep ==
  ASSUME IInv, NEW w \in Workers, Work(w) \/ Accident(w)
  PROVE  IInv'
  <1>1. memory' = memory /\ refs \subseteq refs' /\ \A j : Wanted(j)' => Wanted(j)
    BY WorkFrame
  <1>2. OwnRow(w) /\ Alone(w) /\ WorkSound(w)'
    BY WorkKeeps
  <1>3. \A v \in Known : v \notin Known' => Unwanted(v) \/ Uncounted(w, v)
    BY WorkForgets
  <1>4. ASSUME NEW j \in JobIds PROVE RowSound(j, jobs[j])'
    <2>1. jobs'[j] \in Row /\ RowSound(j, jobs'[j])
      BY <1>2 DEF OwnRow, IInv
    <2> QED
      BY <1>1, <1>3, <2>1, RowStays
  <1>5. ASSUME NEW x \in Workers PROVE WorkSound(x)'
    <2>1. CASE x = w
      BY <1>2, <2>1
    <2>2. CASE x # w
      <3>1. worker'[x] = worker[x] /\ worker[x].job \in JobIds
        BY <1>2, <2>2, Standing DEF Alone
      <3>2. LeaseStays(worker[x].job, x)
        BY <1>2, <2>2, <3>1, NobodyAssumption DEF LeaseStays, OwnRow
      <3> QED
        BY <1>1, <1>3, <2>2, <3>1, <3>2, BystanderStays
    <2> QED
      BY <2>1, <2>2
  <1>6. MemorySound'
    BY WorkFrame DEF IInv, MemorySound
  <1>7. DecisionSound'
    <2>1. UNCHANGED <<approver, receipts, created>>
      BY WorkFrame
    <2>2. CASE conversation' = conversation
      BY <2>1, <2>2 DEF IInv, DecisionSound, Approved
    <2>3. CASE conversation.state = "queued" /\ conversation' = [conversation EXCEPT !.state = "review"]
      <3>1. ~ Approved /\ ~ Approved' /\ conversation'.selection = conversation.selection
        BY <2>3 DEF Approved, IInv, TypeOK
      <3> QED
        BY <2>1, <3>1 DEF IInv, DecisionSound
    <2> QED
      BY <2>2, <2>3, WorkRest
  <1> QED
    BY <1>4, <1>5, <1>6, <1>7, WorkTyped, WorkCalls DEF IInv

------------------------------------------------------------------------------
(* A step of the queue: one row changes, soundly, and nobody but the one it  *)
(* is leased to gains anything by it.                                        *)
LEMMA QueueStep ==
  ASSUME IInv, NEW j \in JobIds, NEW row \in Row, RowSound(j, row), jobs' = [jobs EXCEPT ![j] = row],
         UNCHANGED <<memory, owner, refs, index, sent>>, NEW W,
         \A x \in Workers \ W : worker'[x] = worker[x] /\ LeaseStays(j, x),
         \A x \in Workers \cap W : WorkSound(x)'
  PROVE  /\ jobs' \in [JobIds -> Row] /\ IndexSound' /\ MemorySound'
         /\ \A k \in JobIds : RowSound(k, jobs[k])'
         /\ \A x \in Workers : WorkSound(x)'
  <1>1. jobs \in [JobIds -> Row] /\ \A k \in JobIds : jobs[k] \in Row /\ RowSound(k, jobs[k])
    BY DEF IInv, TypeOK, JobIds
  <1>2. jobs' \in [JobIds -> Row] /\ \A k \in JobIds : jobs'[k] \in Row /\ RowSound(k, jobs'[k])
    BY <1>1
  <1>3. Known' = Known /\ \A k : Wanted(k)' => Wanted(k)
    BY DEF Known, Wanted
  <1>4. ASSUME NEW k \in JobIds PROVE RowSound(k, jobs[k])'
    BY <1>2, <1>3, RowStays
  <1>5. ASSUME NEW x \in Workers PROVE WorkSound(x)'
    <2>1. CASE x \in W
      BY <2>1
    <2>2. CASE x \notin W
      <3>1. worker'[x] = worker[x] /\ worker[x].job \in JobIds
        BY <2>2, Standing
      <3>2. LeaseStays(worker[x].job, x)
        <4>1. CASE worker[x].job = j
          BY <2>2, <4>1
        <4>2. CASE worker[x].job # j
          BY <1>1, <3>1, <4>2 DEF LeaseStays
        <4> QED
          BY <4>1, <4>2
      <3> QED
        BY <1>3, <3>1, <3>2, BystanderStays
    <2> QED
      BY <2>1, <2>2
  <1>6. IndexSound' /\ MemorySound'
    BY <1>3 DEF IInv, IndexSound, MemorySound, Unwanted
  <1> QED
    BY <1>2, <1>4, <1>5, <1>6

(* The rest, for a step that is only about the queue. *)
LEMMA QueueRest ==
  ASSUME IInv, jobs' \in [JobIds -> Row], worker' \in [Workers -> WorkerType],
         UNCHANGED <<memoryVars, vectors, human>>, faults' \in 0 .. MaxFaults
  PROVE  TypeOK' /\ DecisionSound'
  <1>1. TypeOK'
    BY DEF IInv, TypeOK, JobIds, WorkerType, memoryVars, vectors, human
  <1>2. DecisionSound'
    BY DEF IInv, DecisionSound, Approved, human
  <1> QED
    BY <1>1, <1>2

LEMMA ClaimStep ==
  ASSUME IInv, NEW w \in Workers, NEW j \in JobIds, Claim(w, j)
  PROVE  IInv'
  <1> DEFINE mine == jobs[j]
             mark == [mine EXCEPT !.state = "leased", !.holder = w, !.expired = FALSE,
                                  !.attempt = mine.attempt + 1]
             there == [Idle EXCEPT !.at = Start(j), !.job = j]
  <1>1. /\ jobs \in [JobIds -> Row] /\ mine \in Row /\ RowSound(j, mine) /\ memory.revision \in Nat
        /\ worker \in [Workers -> WorkerType]
    BY DEF IInv, TypeOK, JobIds, WorkerType
  <1>2. jobs' = [jobs EXCEPT ![j] = mark] /\ mine.kind # "none" /\ mine.attempt < MaxAttempts
    BY <1>1 DEF Claim, Claimable, RowSound
  <1>3. worker' = [worker EXCEPT ![w] = there] /\ UNCHANGED <<memoryVars, vectors, human, faults>>
    BY DEF Claim
  <1>4. there.at = Start(j) /\ there.job = j /\ Start(j) \in Places /\ there \in WorkerType
    <2>1. Start(j) \in Places
      BY DEF Start, Places
    <2>2. there = [at |-> Start(j), job |-> j, calls |-> 0]
      <3> DEFINE place == Start(j)
      <3>1. there = [Idle EXCEPT !.at = place, !.job = j]
        OBVIOUS
      <3> HIDE DEF place, there
      <3>2. there = [at |-> place, job |-> j, calls |-> 0]
        BY <3>1 DEF Idle
      <3> QED
        BY <3>2 DEF place
    <2>3. 0 \in 0 .. SliceCalls
      BY SizeAssumption
    <2> HIDE DEF there
    <2> QED
      BY <2>1, <2>2, <2>3 DEF WorkerType
  <1>5. Wanted(j) /\ Start(j) = "sweep" => mine.only
    BY DEF Start, Wanted
  <1>6. /\ Start(j) \in {"extract", "complete", "sweep", "embed"}
        /\ Start(j) = "extract" => j = Conversation
        /\ Start(j) = "complete" => ~ Wanted(j)
        /\ Start(j) = "embed" => ~ memory.deleted
    BY DEF Start, Wanted
  <1> HIDE DEF mine, there
  <1>7. /\ mark \in Row /\ mark.kind = mine.kind /\ mark.state = "leased" /\ mark.pending = mine.pending
        /\ mark.next = mine.next /\ mark.only = mine.only /\ mark.holder = w
    <2> DEFINE more == mine.attempt + 1
    <2>1. more \in 0 .. MaxAttempts
      BY <1>1, <1>2, SizeAssumption DEF Row
    <2>2. mark = [mine EXCEPT !.state = "leased", !.holder = w, !.expired = FALSE, !.attempt = more]
      OBVIOUS
    <2> HIDE DEF more, mark
    <2> QED
      BY <1>1, <2>1, <2>2 DEF Row
  <1> HIDE DEF mark
  <1>8. RowSound(j, mark)
    BY <1>1, <1>7 DEF RowSound
  <1>9. worker' \in [Workers -> WorkerType] /\ worker'[w] = there
        /\ \A x \in Workers \ {w} : worker'[x] = worker[x] /\ LeaseStays(j, x)
    BY <1>1, <1>2, <1>3, <1>4, <1>7 DEF LeaseStays
  <1>10. Job(w)' = mark
    BY <1>1, <1>2, <1>4, <1>9 DEF Job
  <1>11. WorkSound(w)'
    <2>1. j <= memory.revision
      BY <1>1, <1>2 DEF RowSound
    <2>2. Wanted(j) /\ Start(j) = "sweep" => mark.next = Chunks
      BY <1>1, <1>5, <1>7 DEF RowSound
    <2> QED
      BY <1>3, <1>4, <1>6, <1>9, <1>10, <2>1, <2>2 DEF WorkSound, Wanted, Current, memoryVars
  <1>12. jobs' \in [JobIds -> Row] /\ IndexSound' /\ MemorySound'
         /\ (\A k \in JobIds : RowSound(k, jobs[k])') /\ \A x \in Workers : WorkSound(x)'
    <2> DEFINE W == {w}
    <2>1. \A x \in Workers \ W : worker'[x] = worker[x] /\ LeaseStays(j, x)
      BY <1>9
    <2>2. \A x \in Workers \cap W : WorkSound(x)'
      BY <1>11
    <2>3. UNCHANGED <<memory, owner, refs, index, sent>>
      BY <1>3 DEF memoryVars, vectors
    <2> HIDE DEF W
    <2> QED
      BY <1>2, <1>7, <1>8, <2>1, <2>2, <2>3, QueueStep
  <1>13. TypeOK' /\ DecisionSound'
    BY <1>3, <1>9, <1>12, QueueRest DEF IInv, TypeOK
  <1> QED
    BY <1>12, <1>13 DEF IInv

LEMMA RowStep ==
  ASSUME IInv, NEW j \in JobIds, NEW row \in Row, RowSound(j, row), jobs' = [jobs EXCEPT ![j] = row],
         UNCHANGED <<memoryVars, vectors, worker, human>>, faults' \in 0 .. MaxFaults,
         row.state = "leased" =>
           /\ jobs[j].state = "leased" /\ row.holder = jobs[j].holder /\ row.next = jobs[j].next
           /\ jobs[j].expired => row.expired
  PROVE  IInv'
  <1>1. jobs'[j] = row
    BY DEF IInv, TypeOK, JobIds
  <1>2. \A x \in Workers : LeaseStays(j, x)
    BY <1>1 DEF LeaseStays
  <1>3. /\ jobs' \in [JobIds -> Row] /\ IndexSound' /\ MemorySound'
        /\ \A k \in JobIds : RowSound(k, jobs[k])'
        /\ \A x \in Workers : WorkSound(x)'
    <2> DEFINE W == {}
    <2>1. \A x \in Workers \ W : worker'[x] = worker[x] /\ LeaseStays(j, x)
      BY <1>2
    <2>2. \A x \in Workers \cap W : WorkSound(x)'
      OBVIOUS
    <2> HIDE DEF W
    <2> QED
      BY <2>1, <2>2, QueueStep DEF memoryVars, vectors
  <1>4. worker' \in [Workers -> WorkerType]
    BY DEF IInv, TypeOK, WorkerType, JobIds
  <1>5. TypeOK' /\ DecisionSound'
    BY <1>3, <1>4, QueueRest
  <1> QED
    BY <1>3, <1>5 DEF IInv

LEMMA RowFacts ==
  ASSUME IInv, NEW j \in JobIds
  PROVE  jobs[j] \in Row /\ RowSound(j, jobs[j]) /\ memory.revision \in Nat /\ faults \in 0 .. MaxFaults
  BY DEF IInv, TypeOK, JobIds

(* A column that soundness does not read. *)
LEMMA SameSound ==
  ASSUME NEW j, NEW row, NEW other, RowSound(j, row),
         other.kind = row.kind, other.state = row.state, other.attempt = row.attempt,
         other.pending = row.pending, other.next = row.next, other.only = row.only
  PROVE  RowSound(j, other)
  BY DEF RowSound

LEMMA ExhaustStep ==
  ASSUME IInv, NEW j \in JobIds, Exhaust(j)
  PROVE  IInv'
  <1> DEFINE mine == jobs[j]
             state == IF j = Conversation /\ ~ Retryable THEN "done" ELSE "dead"
             over == Free(mine, state)
  <1>1. mine \in Row /\ RowSound(j, mine) /\ state \in {"done", "dead"}
    BY RowFacts
  <1>2. state = "done" => ~ Wanted(j)
    BY DEF Wanted, Conversation, Revisions
  <1>3. jobs' = [jobs EXCEPT ![j] = over] /\ UNCHANGED <<memoryVars, vectors, worker, human, faults>>
    BY DEF Exhaust
  <1> HIDE DEF state, mine
  <1>4. over \in Row /\ RowSound(j, over)
    BY <1>1, <1>2, FreeTyped, FreeSound
  <1>5. over.state # "leased"
    BY <1>1 DEF Free, Row
  <1> HIDE DEF over
  <1> QED
    BY <1>3, <1>4, <1>5, RowFacts, RowStep

LEMMA ExpiredStep ==
  ASSUME IInv, NEW j \in JobIds, jobs' = [jobs EXCEPT ![j].expired = TRUE],
         UNCHANGED <<memoryVars, vectors, worker, human>>, faults' \in 0 .. MaxFaults
  PROVE  IInv'
  <1> DEFINE mine == jobs[j]
             late == [mine EXCEPT !.expired = TRUE]
  <1>1. mine \in Row /\ RowSound(j, mine)
    BY RowFacts
  <1>2. jobs' = [jobs EXCEPT ![j] = late]
    OBVIOUS
  <1> HIDE DEF mine
  <1>3. /\ late \in Row /\ late.kind = mine.kind /\ late.state = mine.state /\ late.attempt = mine.attempt
        /\ late.pending = mine.pending /\ late.next = mine.next /\ late.only = mine.only
        /\ late.holder = mine.holder /\ late.expired
    BY <1>1 DEF Row
  <1> HIDE DEF late
  <1>4. RowSound(j, late)
    BY <1>1, <1>3, SameSound
  <1> QED
    BY <1>2, <1>3, <1>4, RowStep DEF mine

LEMMA LapseStep ==
  ASSUME IInv, NEW j \in JobIds, LeaseEnds(j) \/ Lapse(j)
  PROVE  IInv'
  <1>1. faults' \in 0 .. MaxFaults
    BY RowFacts, FaultAssumption DEF LeaseEnds, Lapse, Fault
  <1> QED
    BY <1>1, ExpiredStep DEF LeaseEnds, Lapse

LEMMA AgesStep ==
  ASSUME IInv, NEW j \in JobIds, Ages(j)
  PROVE  IInv'
  <1> DEFINE mine == jobs[j]
             aged == [mine EXCEPT !.old = TRUE]
             over == [mine EXCEPT !.retry = "over"]
  <1>1. mine \in Row /\ RowSound(j, mine) /\ faults' \in 0 .. MaxFaults
    BY RowFacts DEF Ages
  <1>2. jobs' = [jobs EXCEPT ![j] = aged] \/ jobs' = [jobs EXCEPT ![j] = over]
    BY DEF Ages
  <1>3. UNCHANGED <<memoryVars, vectors, worker, human>>
    BY DEF Ages
  <1> HIDE DEF mine
  <1>4. /\ aged \in Row /\ aged.kind = mine.kind /\ aged.state = mine.state /\ aged.attempt = mine.attempt
        /\ aged.pending = mine.pending /\ aged.next = mine.next /\ aged.only = mine.only
        /\ aged.holder = mine.holder /\ aged.expired = mine.expired
    BY <1>1 DEF Row
  <1>5. /\ over \in Row /\ over.kind = mine.kind /\ over.state = mine.state /\ over.attempt = mine.attempt
        /\ over.pending = mine.pending /\ over.next = mine.next /\ over.only = mine.only
        /\ over.holder = mine.holder /\ over.expired = mine.expired
    BY <1>1 DEF Row
  <1> HIDE DEF aged, over
  <1>6. RowSound(j, aged) /\ RowSound(j, over)
    BY <1>1, <1>4, <1>5, SameSound
  <1>7. CASE jobs' = [jobs EXCEPT ![j] = aged]
    BY <1>1, <1>3, <1>4, <1>6, <1>7, RowStep DEF mine
  <1>8. CASE jobs' = [jobs EXCEPT ![j] = over]
    BY <1>1, <1>3, <1>5, <1>6, <1>8, RowStep DEF mine
  <1> QED
    BY <1>2, <1>7, <1>8

(* A job swept again keeps its chunks; a rebuilt one counts from nothing. *)
LEMMA AgainStep ==
  ASSUME IInv, NEW j \in JobIds, Resweep(j) \/ Rebuild(j)
  PROVE  IInv'
  <1> DEFINE mine == jobs[j]
             fresh == NewRow(mine.kind)
             next == IF mine.kind = "upsert" THEN mine.next ELSE 0
             again == [fresh EXCEPT !.next = next, !.only = (mine.kind = "upsert")]
  <1>1. mine \in Row /\ RowSound(j, mine) /\ faults' \in 0 .. MaxFaults /\ next \in 0 .. Chunks
    BY RowFacts, FaultAssumption, SizeAssumption DEF Resweep, Rebuild, Fault, Row
  <1>2. UNCHANGED <<memoryVars, vectors, worker, human>>
    BY DEF Resweep, Rebuild
  <1>3. /\ fresh \in Row /\ fresh.kind = mine.kind /\ fresh.state = "pending" /\ fresh.attempt = 0
        /\ fresh.pending = {} /\ fresh.next = 0 /\ fresh.only = FALSE
    <2>1. mine.kind \in {"none", "upsert", "delete", "ingest"}
      BY <1>1 DEF Row
    <2>2. fresh \in Row
      BY <2>1, NewRowTyped
    <2> QED
      BY <2>2 DEF NewRow
  <1>4. CASE Rebuild(j)
    <2>1. jobs' = [jobs EXCEPT ![j] = fresh]
      BY <1>4 DEF Rebuild
    <2> HIDE DEF mine, fresh
    <2>2. RowSound(j, fresh)
      BY <1>1, <1>3, SizeAssumption DEF RowSound
    <2> QED
      BY <1>1, <1>2, <1>3, <2>1, <2>2, RowStep
  <1>5. CASE Resweep(j)
    <2>1. jobs' = [jobs EXCEPT ![j] = again] /\ mine.state = "done"
      BY <1>5 DEF Resweep, DueAgain
    <2> HIDE DEF mine, fresh
    <2>2. /\ again \in Row /\ again.kind = mine.kind /\ again.state = "pending" /\ again.attempt = 0
          /\ again.pending = {} /\ again.next = next /\ again.only = (mine.kind = "upsert")
      <3> DEFINE only == (mine.kind = "upsert")
      <3>1. only \in BOOLEAN
        OBVIOUS
      <3> HIDE DEF next, only
      <3> QED
        BY <1>1, <1>3, <3>1 DEF Row
    <2> HIDE DEF again
    <2>4. again.only => mine.kind = "upsert"
      BY <2>2
    <2>5. ASSUME Wanted(j) PROVE /\ \A n \in 0 .. again.next - 1 : VectorOf(j, n) \in Known
                                 /\ again.only => again.next = Chunks
      <3>1. mine.next = Chunks /\ \A n \in 0 .. mine.next - 1 : VectorOf(j, n) \in Known
        BY <1>1, <2>1, <2>5 DEF RowSound
      <3>2. CASE mine.kind = "upsert"
        BY <2>2, <3>1, <3>2
      <3>3. CASE mine.kind # "upsert"
        BY <2>2, <2>4, <3>3
      <3> QED
        BY <3>2, <3>3
    <2> HIDE DEF next
    <2>6. RowSound(j, again)
      BY <1>1, <2>2, <2>5, SizeAssumption DEF RowSound
    <2>3. RowSound(j, again)
      BY <2>6
    <2> QED
      BY <1>1, <1>2, <2>1, <2>2, <2>3, RowStep
  <1> QED
    BY <1>4, <1>5

------------------------------------------------------------------------------
(* The index executes a call, the memory changes, people decide. *)
LEMMA ExecutedStep ==
  ASSUME IInv, NEW c \in sent, Executed(c)
  PROVE  IInv'
  <1>1. /\ sent' = sent \ {c} /\ UNCHANGED <<memory, owner, vectorErased, jobs, refs, worker, human, faults>>
        /\ index' = IF c.op = "upsert" THEN index \cup c.ids ELSE index \ c.ids
    BY DEF Executed, memoryVars
  <1>2. /\ c \in Call /\ c.op \in {"upsert", "delete"} /\ c.ids \subseteq Vectors /\ sent \subseteq Call
        /\ index \subseteq Vectors
    BY DEF IInv, TypeOK, Call
  <1>3. Known \subseteq refs /\ \A d \in sent : d.op = "delete" => \A v \in d.ids : Unwanted(v)
    BY DEF IInv, IndexSound
  <1>4. Known' \subseteq Known /\ \A j : Wanted(j)' => Wanted(j)
    BY <1>1 DEF Known, Wanted
  <1>5. ASSUME NEW v \in Known, v \notin Known' PROVE Unwanted(v)
    <2>1. v \in index \/ \E d \in sent : v \in d.ids
      BY DEF Known
    <2>2. v \notin index' /\ \A d \in sent' : v \notin d.ids
      BY <1>5 DEF Known
    <2>3. v \in c.ids /\ c.op = "delete"
      BY <1>1, <1>2, <2>1, <2>2
    <2> QED
      BY <1>3, <2>3
  <1>6. \A j \in JobIds : RowSound(j, jobs[j])'
    <2> TAKE j \in JobIds
    <2>1. jobs'[j] \in Row /\ RowSound(j, jobs'[j])
      BY <1>1, RowFacts
    <2> QED
      BY <1>1, <1>4, <1>5, <2>1, RowStays
  <1>7. \A x \in Workers : WorkSound(x)'
    <2> TAKE x \in Workers
    <2>1. LeaseStays(worker[x].job, x)
      BY <1>1 DEF LeaseStays
    <2> QED
      BY <1>1, <1>4, <1>5, <2>1, BystanderStays
  <1>8. IndexSound'
    BY <1>1, <1>3, <1>4 DEF IndexSound, Unwanted
  <1>9. TypeOK'
    <2>1. index' \subseteq Vectors /\ sent' \subseteq Call
      BY <1>1, <1>2
    <2> QED
      BY <1>1, <2>1 DEF IInv, TypeOK, human
  <1>10. MemorySound' /\ DecisionSound'
    BY <1>1 DEF IInv, MemorySound, DecisionSound, Approved, human
  <1> QED
    BY <1>6, <1>7, <1>8, <1>9, <1>10 DEF IInv

LEMMA ChangesStep ==
  ASSUME IInv, NEW deleted \in BOOLEAN, NEW erased \in BOOLEAN, erased => deleted, Changes(deleted, erased)
  PROVE  IInv'
  <1> DEFINE next == memory.revision + 1
             fresh == NewRow(IF deleted THEN "delete" ELSE "upsert")
  <1>1. /\ memory.revision \in 0 .. MaxRevision /\ memory.revision < MaxRevision
        /\ jobs \in [JobIds -> Row] /\ worker \in [Workers -> WorkerType]
    BY DEF IInv, TypeOK, Changes, JobIds, WorkerType
  <1>2. next \in JobIds /\ next \in 0 .. MaxRevision /\ memory.revision \in Nat
    BY <1>1, SizeAssumption DEF JobIds, Revisions
  <1>3. /\ memory'.revision = next /\ memory'.deleted = deleted /\ memory'.erased = erased
        /\ memory' = [revision |-> next, deleted |-> deleted, erased |-> erased]
        /\ jobs' = [jobs EXCEPT ![next] = fresh]
        /\ UNCHANGED <<vectorErased, owner, vectors, worker, human, faults>>
    BY DEF Changes
  <1>4. /\ fresh \in Row /\ (fresh.kind = "delete" => deleted) /\ fresh.state = "pending" /\ fresh.attempt = 0
        /\ fresh.pending = {} /\ fresh.next = 0 /\ fresh.only = FALSE
    <2> DEFINE kind == IF deleted THEN "delete" ELSE "upsert"
    <2>1. kind \in {"none", "upsert", "delete", "ingest"} /\ (kind = "delete" => deleted)
      OBVIOUS
    <2> HIDE DEF kind
    <2>2. NewRow(kind) \in Row
      BY <2>1, NewRowTyped
    <2>3. /\ NewRow(kind).kind = kind /\ NewRow(kind).state = "pending" /\ NewRow(kind).attempt = 0
          /\ NewRow(kind).pending = {} /\ NewRow(kind).next = 0 /\ NewRow(kind).only = FALSE
      BY DEF NewRow
    <2>4. fresh = NewRow(kind)
      BY DEF kind
    <2> QED
      BY <2>1, <2>2, <2>3, <2>4
  <1> HIDE DEF fresh, next
  <1>5. refs' = refs /\ index' = index /\ sent' = sent /\ Known' = Known /\ worker' = worker
    BY <1>3 DEF vectors, Known
  <1>6. ASSUME NEW j \in JobIds PROVE RowSound(j, jobs[j])'
    <2>1. CASE j = next
      <3>1. jobs'[j] = fresh
        BY <1>1, <1>3, <2>1
      <3>2. RowSound(j, fresh)' <=> RowSound(j, jobs[j])'
        BY <3>1 DEF RowSound
      <3> QED
        BY <1>2, <1>3, <1>4, <2>1, <3>1, SizeAssumption DEF RowSound
    <2>2. CASE j # next
      <3>1. jobs'[j] = jobs[j] /\ RowSound(j, jobs[j])
        BY <1>1, <1>3, <2>2, RowFacts
      <3>2. ~ Wanted(j)'
        BY <1>3, <2>2 DEF Wanted
      <3>3. j <= memory.revision => j <= memory'.revision
        BY <1>2, <1>3 DEF next, JobIds, Conversation, Revisions
      <3> QED
        BY <1>3, <1>5, <2>2, <3>1, <3>2, <3>3 DEF RowSound
    <2> QED
      BY <2>1, <2>2
  <1>7. ASSUME NEW x \in Workers PROVE WorkSound(x)'
    <2>1. CASE worker[x].at = "idle"
      BY <1>5, <2>1, Stopped
    <2>2. CASE worker[x].at # "idle"
      <3>1. WorkSound(x) /\ worker[x].job <= memory.revision /\ worker[x].job \in JobIds
        BY <2>2, Standing DEF WorkSound
      <3>2. worker[x].job # next /\ worker[x].job <= next
        BY <1>2, <3>1 DEF next, JobIds, Conversation, Revisions
      <3>3. Job(x)' = Job(x) /\ Held(x)' = Held(x)
        BY <1>1, <1>3, <1>5, <3>1, <3>2 DEF Job, Held
      <3>4. ~ Wanted(worker[x].job)'
        BY <1>3, <1>5, <3>2 DEF Wanted
      <3>5. VectorOf(worker[x].job, Job(x).next)' = VectorOf(worker[x].job, Job(x).next)
        BY <1>5, <3>3 DEF VectorOf
      <3>6. ~ Current(x)'
        BY <1>3, <1>5, <3>2 DEF Current
      <3> QED
        BY <1>3, <1>5, <3>1, <3>2, <3>3, <3>4, <3>5, <3>6 DEF WorkSound
    <2> QED
      BY <2>1, <2>2
  <1>8. IndexSound'
    <2>1. sent \subseteq Call /\ \A c \in sent : c.op = "delete" => \A v \in c.ids : Unwanted(v)
      BY DEF IInv, IndexSound, TypeOK
    <2>2. \A v \in Vectors : Unwanted(v) => RevisionOf(v) < memory'.revision
      <3> SUFFICES ASSUME NEW v \in Vectors, Unwanted(v) PROVE RevisionOf(v) < memory'.revision
        OBVIOUS
      <3>1. RevisionOf(v) \in Nat
        BY RevisionTyped, SizeAssumption
      <3> QED
        BY <1>2, <1>3, <3>1 DEF Unwanted, next
    <2>3. \A v \in Vectors : Unwanted(v) => Unwanted(v)'
      BY <2>2 DEF Unwanted, RevisionOf
    <2>4. \A c \in sent : c.ids \subseteq Vectors
      BY <2>1 DEF Call
    <2> QED
      BY <1>5, <2>1, <2>3, <2>4 DEF IInv, IndexSound
  <1>9. TypeOK'
    <2>1. memory' \in [revision: 0 .. MaxRevision, deleted: BOOLEAN, erased: BOOLEAN]
      BY <1>2, <1>3
    <2>2. jobs' \in [JobIds -> Row]
      BY <1>1, <1>2, <1>3, <1>4
    <2> QED
      BY <1>3, <1>5, <2>1, <2>2 DEF IInv, TypeOK, human, JobIds
  <1>10. MemorySound' /\ DecisionSound'
    BY <1>3 DEF IInv, MemorySound, DecisionSound, Approved, human
  <1> QED
    BY <1>6, <1>7, <1>8, <1>9, <1>10 DEF IInv

LEMMA QuietStep ==
  ASSUME IInv, UNCHANGED <<memory, jobs, vectors, worker>>, \A j : Wanted(j)' => Wanted(j)
  PROVE  /\ IndexSound' /\ MemorySound'
         /\ \A j \in JobIds : RowSound(j, jobs[j])'
         /\ \A w \in Workers : WorkSound(w)'
  <1>1. Known' = Known /\ refs' = refs /\ index' = index /\ sent' = sent
    BY DEF Known, vectors
  <1>2. IndexSound' /\ MemorySound'
    BY <1>1 DEF IInv, IndexSound, MemorySound, Unwanted
  <1>3. \A j \in JobIds : RowSound(j, jobs[j])'
    <2> TAKE j \in JobIds
    <2>1. jobs'[j] \in Row /\ RowSound(j, jobs'[j])
      BY RowFacts
    <2> QED
      BY <1>1, <2>1, RowStays
  <1>4. \A w \in Workers : WorkSound(w)'
    <2> TAKE w \in Workers
    <2>1. LeaseStays(worker[w].job, w)
      BY DEF LeaseStays
    <2> QED
      BY <1>1, <2>1, BystanderStays
  <1> QED
    BY <1>2, <1>3, <1>4

LEMMA OwnerStep ==
  ASSUME IInv, Suspend \/ Resume \/ Disable
  PROVE  IInv'
  <1>1. /\ UNCHANGED <<memory, jobs, vectors, worker, human, vectorErased>>
        /\ owner' \in {"live", "suspended", "disabled"} /\ faults' \in 0 .. MaxFaults
        /\ owner = "disabled" => owner' = "disabled"
    BY FaultAssumption DEF IInv, TypeOK, Suspend, Resume, Disable, Fault
  <1>2. TypeOK' /\ DecisionSound'
    BY <1>1 DEF IInv, TypeOK, DecisionSound, Approved, human, vectors
  <1>3. \A j : Wanted(j)' => Wanted(j)
    BY <1>1 DEF Wanted
  <1> QED
    BY <1>1, <1>2, <1>3, QuietStep DEF IInv

LEMMA ChangingStep ==
  ASSUME IInv, Changing
  PROVE  IInv'
  BY ChangesStep, OwnerStep DEF Changing, Create, Edit, Remove, Restore, Erase

ConversationType ==
  [state: {"none", "queued", "review", "approved", "expired"},
   selection: Selections, expired: BOOLEAN, authorized: BOOLEAN]

LEMMA SubmitStep ==
  ASSUME IInv, Submit
  PROVE  IInv'
  <1> DEFINE fresh == NewRow("ingest")
  <1>1. /\ conversation.state = "none" /\ conversation' = [conversation EXCEPT !.state = "queued"]
        /\ jobs' = [jobs EXCEPT ![Conversation] = fresh] /\ Conversation \in JobIds
        /\ UNCHANGED <<memoryVars, vectors, worker, approver, receipts, created, faults>>
    BY DEF Submit, JobIds
  <1>2. /\ fresh \in Row /\ fresh.kind = "ingest" /\ fresh.state = "pending" /\ fresh.attempt = 0
        /\ fresh.pending = {} /\ fresh.next = 0 /\ fresh.only = FALSE
    BY NewRowTyped DEF NewRow
  <1> HIDE DEF fresh
  <1>3. RowSound(Conversation, fresh)
    BY <1>1, <1>2, RowFacts, SizeAssumption DEF RowSound, Conversation
  <1>4. \A x \in Workers : LeaseStays(Conversation, x)
    BY <1>1, <1>2 DEF LeaseStays, IInv, TypeOK, JobIds
  <1>5. /\ jobs' \in [JobIds -> Row] /\ IndexSound' /\ MemorySound'
        /\ \A k \in JobIds : RowSound(k, jobs[k])'
        /\ \A x \in Workers : WorkSound(x)'
    <2> DEFINE W == {}
    <2>1. \A x \in Workers \ W : worker'[x] = worker[x] /\ LeaseStays(Conversation, x)
      BY <1>1, <1>4
    <2>2. \A x \in Workers \cap W : WorkSound(x)'
      OBVIOUS
    <2>3. UNCHANGED <<memory, owner, refs, index, sent>>
      BY <1>1 DEF memoryVars, vectors
    <2> HIDE DEF W
    <2> QED
      BY <1>1, <1>2, <1>3, <2>1, <2>2, <2>3, QueueStep
  <1>6. conversation' \in ConversationType /\ ~ Approved /\ ~ Approved'
    BY <1>1 DEF IInv, TypeOK, ConversationType, Approved
  <1>7. TypeOK'
    BY <1>1, <1>5, <1>6 DEF IInv, TypeOK, JobIds, ConversationType, memoryVars, vectors
  <1>8. DecisionSound'
    BY <1>1, <1>6 DEF IInv, DecisionSound
  <1> QED
    BY <1>5, <1>7, <1>8 DEF IInv

(* A step of the conversation that decides nothing. *)
LEMMA IngestStep ==
  ASSUME IInv, Ingest
  PROVE  IInv'
  <1>1. CASE Submit
    BY <1>1, SubmitStep
  <1>2. CASE Revoke \/ Expire \/ Wipe
    <2>1. /\ UNCHANGED <<memoryVars, jobs, vectors, worker, approver, receipts, created>>
          /\ faults' \in 0 .. MaxFaults
      BY <1>2, FaultAssumption DEF IInv, TypeOK, Revoke, Expire, Wipe, Fault
    <2>2. conversation \in ConversationType
      BY DEF IInv, TypeOK, ConversationType
    <2>3. conversation' \in ConversationType /\ (Approved' <=> Approved)
          /\ conversation'.selection = conversation.selection
      <3>1. CASE Revoke
        BY <2>2, <3>1 DEF Revoke, Approved, ConversationType
      <3>2. CASE Expire
        BY <2>2, <3>2 DEF Expire, Approved, ConversationType
      <3>3. CASE Wipe
        BY <2>2, <3>3 DEF Wipe, Approved, ConversationType
      <3> QED
        BY <1>2, <3>1, <3>2, <3>3
    <2>4. TypeOK'
      BY <2>1, <2>3 DEF IInv, TypeOK, ConversationType, memoryVars, vectors
    <2>5. DecisionSound'
      BY <2>1, <2>3 DEF IInv, DecisionSound
    <2> QED
      BY <2>1, <2>4, <2>5, QuietStep DEF IInv, memoryVars, Wanted
  <1> QED
    BY <1>1, <1>2 DEF Ingest

(* The decision: whoever binds a key, creates or is told does so of the one  *)
(* selection that was approved.                                              *)
LEMMA DecisionStep ==
  ASSUME IInv, NEW c \in Approvers, Decision(c)
  PROVE  IInv'
  <1> DEFINE ApproverType == [place: {"start", "bind", "commit", "answer", "told", "refused"}, told: Selections]
  <1>1. UNCHANGED <<memoryVars, jobs, vectors, worker, faults>>
    BY DEF Decision, ReadDecision, BindKey, Decide, DecideReplay, Answer
  <1>2. /\ conversation \in ConversationType /\ approver \in [Approvers -> ApproverType]
        /\ receipts \in [Keys -> Selections] /\ created \subseteq Keys
        /\ Key[c] \in Keys /\ Selection[c] \in Selections /\ NoSelection \in Selections
        /\ Selection[c] # NoSelection
    BY NobodyAssumption DEF IInv, TypeOK, ConversationType, Keys, Selections
  <1>3. DecisionSound
    BY DEF IInv
  <1>4. ASSUME NEW place \in {"start", "bind", "commit", "answer", "told", "refused"},
               NEW told \in Selections, Tell(c, place, told)
        PROVE  /\ approver' \in [Approvers -> ApproverType]
               /\ approver'[c].place = place /\ approver'[c].told = told
               /\ \A d \in Approvers \ {c} : approver'[d] = approver[d]
    BY <1>2, <1>4 DEF Tell
  <1>5. CASE ReadDecision(c)
    <2>1. UNCHANGED <<conversation, receipts, created>>
      BY <1>5 DEF ReadDecision
    <2>2. PICK place \in {"bind", "commit", "refused"} :
            /\ Tell(c, place, NoSelection)
            /\ place = "bind" => Approved /\ conversation.selection = Selection[c]
      BY <1>5 DEF ReadDecision, Approved
    <2>3. approver' \in [Approvers -> ApproverType]
          /\ approver'[c].place = place /\ \A d \in Approvers \ {c} : approver'[d] = approver[d]
      BY <1>2, <1>4, <2>2
    <2>4. DecisionSound'
      BY <1>3, <2>1, <2>2, <2>3 DEF DecisionSound, Approved
    <2>5. TypeOK'
      BY <1>1, <2>1, <2>3 DEF IInv, TypeOK, memoryVars, vectors
    <2> QED
      BY <1>1, <2>4, <2>5, QuietStep DEF IInv, memoryVars, Wanted
  <1>6. CASE BindKey(c)
    <2>1. UNCHANGED <<conversation, created>> /\ Approved /\ conversation.selection = Selection[c]
      BY <1>3, <1>6 DEF BindKey, DecisionSound
    <2>2. CASE receipts' = [receipts EXCEPT ![Key[c]] = Selection[c]] /\ Tell(c, "told", conversation.selection)
      <3>1. /\ approver' \in [Approvers -> ApproverType] /\ approver'[c].place = "told"
            /\ approver'[c].told = Selection[c]
            /\ \A d \in Approvers \ {c} : approver'[d] = approver[d]
        BY <1>2, <1>4, <2>1, <2>2
      <3>2. receipts' \in [Keys -> Selections] /\ receipts'[Key[c]] = Selection[c]
            /\ \A k \in Keys : k # Key[c] => receipts'[k] = receipts[k]
        BY <1>2, <2>2
      <3>3. DecisionSound'
        BY <1>2, <1>3, <2>1, <3>1, <3>2 DEF DecisionSound, Approved
      <3>4. TypeOK'
        BY <1>1, <2>1, <3>1, <3>2 DEF IInv, TypeOK, memoryVars, vectors
      <3> QED
        BY <1>1, <3>3, <3>4, QuietStep DEF IInv, memoryVars, Wanted
    <2>3. CASE Tell(c, "refused", NoSelection) /\ receipts' = receipts
      <3>1. /\ approver' \in [Approvers -> ApproverType] /\ approver'[c].place = "refused"
            /\ \A d \in Approvers \ {c} : approver'[d] = approver[d]
        BY <1>2, <1>4, <2>3
      <3>2. DecisionSound'
        BY <1>3, <2>1, <2>3, <3>1 DEF DecisionSound, Approved
      <3>3. TypeOK'
        BY <1>1, <2>1, <2>3, <3>1 DEF IInv, TypeOK, memoryVars, vectors
      <3> QED
        BY <1>1, <3>2, <3>3, QuietStep DEF IInv, memoryVars, Wanted
    <2> QED
      BY <1>6, <2>2, <2>3 DEF BindKey
  <1>7. CASE Decide(c)
    <2>1. CASE /\ Reviewable /\ Tell(c, "answer", NoSelection)
               /\ conversation' = [conversation EXCEPT !.state = "approved", !.selection = Selection[c]]
               /\ receipts' = [receipts EXCEPT ![Key[c]] = Selection[c]]
               /\ created' = created \cup {Key[c]}
      <3>1. /\ approver' \in [Approvers -> ApproverType] /\ approver'[c].place = "answer"
            /\ \A d \in Approvers \ {c} : approver'[d] = approver[d]
        BY <1>2, <1>4, <2>1
      <3>2. receipts' \in [Keys -> Selections] /\ receipts'[Key[c]] = Selection[c]
            /\ \A k \in Keys : k # Key[c] => receipts'[k] = receipts[k]
        BY <1>2, <2>1
      <3>3. conversation' \in ConversationType /\ Approved' /\ conversation'.selection = Selection[c]
        BY <1>2, <2>1 DEF ConversationType, Approved
      <3>4. ~ Approved
        BY <2>1 DEF Reviewable, Approved
      <3>5. created = {} /\ (\A k \in Keys : receipts[k] = NoSelection)
            /\ \A d \in Approvers : approver[d].place \notin {"bind", "answer", "told"}
        BY <1>3, <3>4 DEF DecisionSound
      <3>6. created' = {Key[c]}
        BY <2>1, <3>5
      <3>7. DecisionSound'
        BY <1>2, <3>1, <3>2, <3>3, <3>5, <3>6 DEF DecisionSound
      <3>8. TypeOK'
        BY <1>1, <1>2, <3>1, <3>2, <3>3, <3>6 DEF IInv, TypeOK, memoryVars, vectors, ConversationType
      <3> QED
        BY <1>1, <3>7, <3>8, QuietStep DEF IInv, memoryVars, Wanted
    <2>2. CASE Tell(c, "refused", NoSelection) /\ UNCHANGED <<conversation, receipts, created>>
      <3>1. /\ approver' \in [Approvers -> ApproverType] /\ approver'[c].place = "refused"
            /\ \A d \in Approvers \ {c} : approver'[d] = approver[d]
        BY <1>2, <1>4, <2>2
      <3>2. DecisionSound'
        BY <1>3, <2>2, <3>1 DEF DecisionSound, Approved
      <3>3. TypeOK'
        BY <1>1, <2>2, <3>1 DEF IInv, TypeOK, memoryVars, vectors
      <3> QED
        BY <1>1, <3>2, <3>3, QuietStep DEF IInv, memoryVars, Wanted
    <2> QED
      BY <1>7, <2>1, <2>2 DEF Decide
  <1>8. CASE DecideReplay(c)
    <2>1. UNCHANGED <<conversation, receipts, created>> /\ receipts[Key[c]] # NoSelection
      BY <1>8 DEF DecideReplay
    <2>2. PICK place \in {"answer", "refused"} :
            /\ Tell(c, place, NoSelection)
            /\ place = "answer" => receipts[Key[c]] = Selection[c]
      BY <1>8 DEF DecideReplay
    <2>3. approver' \in [Approvers -> ApproverType]
          /\ approver'[c].place = place /\ \A d \in Approvers \ {c} : approver'[d] = approver[d]
      BY <1>2, <1>4, <2>2
    <2>4. place = "answer" => Approved /\ conversation.selection = Selection[c]
      BY <1>2, <1>3, <2>1, <2>2 DEF DecisionSound
    <2>5. DecisionSound'
      BY <1>3, <2>1, <2>2, <2>3, <2>4 DEF DecisionSound, Approved
    <2>6. TypeOK'
      BY <1>1, <2>1, <2>3 DEF IInv, TypeOK, memoryVars, vectors
    <2> QED
      BY <1>1, <2>5, <2>6, QuietStep DEF IInv, memoryVars, Wanted
  <1>9. CASE Answer(c)
    <2>1. UNCHANGED <<conversation, receipts, created>> /\ Tell(c, "told", conversation.selection)
          /\ Approved /\ conversation.selection = Selection[c]
      BY <1>3, <1>9 DEF Answer, DecisionSound
    <2>2. /\ approver' \in [Approvers -> ApproverType] /\ approver'[c].place = "told"
          /\ approver'[c].told = Selection[c]
          /\ \A d \in Approvers \ {c} : approver'[d] = approver[d]
      BY <1>2, <1>4, <2>1
    <2>3. DecisionSound'
      BY <1>3, <2>1, <2>2 DEF DecisionSound, Approved
    <2>4. TypeOK'
      BY <1>1, <2>1, <2>2 DEF IInv, TypeOK, memoryVars, vectors
    <2> QED
      BY <1>1, <2>3, <2>4, QuietStep DEF IInv, memoryVars, Wanted
  <1> QED
    BY <1>5, <1>6, <1>7, <1>8, <1>9 DEF Decision

------------------------------------------------------------------------------
(* The start, and every step. *)
LEMMA InitHolds ==
  ASSUME Init
  PROVE  IInv
  <1> DEFINE trash == NewRow("delete")
  <1>1. NoRow \in Row /\ NoRow.kind = "none" /\ NoRow.state = "done" /\ NoRow.pending = {}
    <2>1. NewRow("none") \in Row
      BY NewRowTyped
    <2> QED
      BY <2>1 DEF NoRow, NewRow, Row
  <1>2. /\ trash \in Row /\ trash.kind = "delete" /\ trash.state = "pending" /\ trash.pending = {}
        /\ trash.attempt = 0 /\ trash.only = FALSE /\ trash.next = 0
    BY NewRowTyped DEF NewRow
  <1> HIDE DEF trash
  <1>3. /\ memory \in [revision: 0 .. MaxRevision, deleted: BOOLEAN, erased: BOOLEAN] /\ ~ memory.erased
        /\ jobs \in [JobIds -> Row] /\ refs \subseteq Vectors /\ index = refs
        /\ \A j \in JobIds : \/ jobs[j] = NoRow /\ ~ Wanted(j)
                             \/ jobs[j] = trash /\ j = 1 /\ j = memory.revision /\ memory.deleted
    <2>1. CASE Nothing
      BY <1>1, <2>1, SizeAssumption DEF Nothing, JobIds, Wanted, Revisions
    <2>2. CASE Trashed
      <3>1. refs \subseteq Vectors /\ index = refs
        BY <2>2, VectorTyped DEF Trashed, Conversation
      <3>2. jobs = [j \in JobIds |-> IF j = 1 THEN trash ELSE NoRow]
        BY <2>2 DEF Trashed, JobIds, trash
      <3>3. memory = [revision |-> 1, deleted |-> TRUE, erased |-> FALSE]
        BY <2>2 DEF Trashed
      <3> QED
        BY <1>1, <1>2, <3>1, <3>2, <3>3, SizeAssumption DEF Wanted
    <2> QED
      BY <2>1, <2>2 DEF Init
  <1>4. /\ vectorErased = FALSE /\ owner = "live" /\ sent = {} /\ faults = 0 /\ created = {}
        /\ worker = [w \in Workers |-> Idle]
        /\ conversation = [state |-> "none", selection |-> NoSelection, expired |-> FALSE, authorized |-> TRUE]
        /\ approver = [c \in Approvers |-> [place |-> "start", told |-> NoSelection]]
        /\ receipts = [k \in Keys |-> NoSelection]
    BY DEF Init
  <1>5. TypeOK
    <2>1. Idle \in WorkerType
      BY SizeAssumption DEF Idle, WorkerType, Places, JobIds, Conversation
    <2>2. worker \in [Workers -> WorkerType]
      BY <1>4, <2>1
    <2>3. conversation \in ConversationType /\ NoSelection \in Selections
      BY <1>4 DEF ConversationType, Selections
    <2>4. approver \in [Approvers -> [place: {"start", "bind", "commit", "answer", "told", "refused"},
                                      told: Selections]] /\ receipts \in [Keys -> Selections]
      BY <1>4, <2>3
    <2>5. faults \in 0 .. MaxFaults
      BY <1>4, FaultAssumption
    <2> QED
      BY <1>3, <1>4, <2>2, <2>3, <2>4, <2>5 DEF TypeOK, JobIds, WorkerType, ConversationType
  <1>6. ASSUME NEW j \in JobIds PROVE RowSound(j, jobs[j])
    <2>1. CASE jobs[j] = NoRow /\ ~ Wanted(j)
      BY <1>1, <2>1 DEF RowSound
    <2>2. CASE jobs[j] = trash /\ j = 1 /\ j = memory.revision /\ memory.deleted
      BY <1>2, <2>2, SizeAssumption DEF RowSound, Wanted
    <2> QED
      BY <1>3, <2>1, <2>2
  <1>7. \A w \in Workers : WorkSound(w)
    BY <1>4 DEF WorkSound, Idle
  <1>8. IndexSound /\ MemorySound
    BY <1>3, <1>4 DEF IndexSound, MemorySound, Known
  <1>9. DecisionSound
    BY <1>4 DEF DecisionSound, Approved
  <1> QED
    BY <1>5, <1>6, <1>7, <1>8, <1>9 DEF IInv

LEMMA NextKeeps ==
  ASSUME IInv, [Next]_vars
  PROVE  IInv'
  <1>1. DOMAIN jobs = JobIds
    BY DEF IInv, TypeOK, JobIds
  <1>2. CASE \E w \in Workers : Work(w) \/ Accident(w) \/ \E j \in DOMAIN jobs : Claim(w, j)
    BY <1>1, <1>2, WorkStep, ClaimStep
  <1>3. CASE \E j \in DOMAIN jobs : Exhaust(j) \/ LeaseEnds(j) \/ Lapse(j) \/ Ages(j) \/ Resweep(j) \/ Rebuild(j)
    BY <1>1, <1>3, ExhaustStep, LapseStep, AgesStep, AgainStep
  <1>4. CASE \E c \in sent : Executed(c)
    BY <1>4, ExecutedStep
  <1>5. CASE Changing \/ Ingest
    BY <1>5, ChangingStep, IngestStep
  <1>6. CASE \E c \in Approvers : Decision(c)
    BY <1>6, DecisionStep
  <1>7. CASE UNCHANGED vars
    <2>1. UNCHANGED <<memoryVars, jobs, vectors, worker, human, faults>>
      BY <1>7 DEF vars
    <2>2. TypeOK' /\ DecisionSound'
      BY <2>1 DEF IInv, TypeOK, DecisionSound, Approved, memoryVars, vectors, human
    <2> QED
      BY <2>1, <2>2, QuietStep DEF IInv, memoryVars, Wanted
  <1> QED
    BY <1>2, <1>3, <1>4, <1>5, <1>6, <1>7 DEF Next

(* The inductive invariant of workers, queue, index and decisions. *)
THEOREM IndexInvariant == Spec => []IInv
  BY InitHolds, NextKeeps, PTL DEF Spec

(* Every state of the queue, its workers, the index and the conversation is  *)
(* well typed.                                                               *)
THEOREM TypeCorrect == Spec => []TypeOK
  <1>1. IInv => TypeOK
    BY DEF IInv
  <1> QED
    BY <1>1, IndexInvariant, PTL

(* Whatever leases are lost between the insert of an identifier and the      *)
(* vector it announces (jobs.ts:248-254), no vector is without a record.     *)
THEOREM AlwaysRecorded == Spec => []VectorsRecorded
  <1>1. IInv => VectorsRecorded
    BY DEF IInv, IndexSound, VectorsRecorded, Known
  <1> QED
    BY <1>1, IndexInvariant, PTL

(* However often a job is interrupted, taken over, swept again or rebuilt,   *)
(* it only rests as done when every chunk of the revision in force was sent. *)
THEOREM DoneAlwaysIndexed == Spec => []DoneIsIndexed
  <1>1. ASSUME IInv PROVE DoneIsIndexed
    <2> SUFFICES ASSUME NEW r \in Revisions, Wanted(r), jobs[r].state = "done",
                        NEW n \in 0 .. Chunks - 1
                 PROVE  VectorOf(r, n) \in Known
      BY DEF DoneIsIndexed, Known
    <2>1. r \in JobIds /\ Wanted(r)
      BY DEF JobIds, Wanted
    <2>2. RowSound(r, jobs[r])
      BY <1>1, <2>1, RowFacts
    <2> QED
      BY <2>1, <2>2 DEF RowSound
  <1> QED
    BY <1>1, IndexInvariant, PTL

(* One conversation is approved once, and whoever is told of an approval is  *)
(* told of that one, whatever keys and selections are sent again.            *)
THEOREM AlwaysApprovedOnce == Spec => []ApprovedOnce
  <1>1. ASSUME IInv PROVE ApprovedOnce
    <2>1. DecisionSound /\ created \subseteq Keys
      BY <1>1 DEF IInv, TypeOK
    <2>2. created = {} \/ \E k \in created : created = {k}
      BY <2>1 DEF DecisionSound
    <2>3. Cardinality(created) \in {0, 1}
      <3>1. CASE created = {}
        BY <3>1, FS_EmptySet
      <3>2. ASSUME NEW k \in created, created = {k} PROVE Cardinality(created) = 1
        BY <3>2, FS_Singleton
      <3> QED
        BY <2>2, <3>1, <3>2
    <2>4. (conversation.state = "approved") <=> (created # {})
      BY <2>1 DEF DecisionSound, Approved
    <2>5. ASSUME NEW c \in Approvers, approver[c].place = "told"
          PROVE  \E k \in created : receipts[k] = approver[c].told /\ approver[c].told = Selection[c]
      BY <2>1, <2>5 DEF DecisionSound
    <2> QED
      BY <2>3, <2>4, <2>5 DEF ApprovedOnce
  <1> QED
    BY <1>1, IndexInvariant, PTL

------------------------------------------------------------------------------
(* The error budget of a job.  An attempt of the job in force is one claim   *)
(* that is under work, or one accident that ended it; whatever else ends a   *)
(* slice gives its attempt back.                                             *)
Working(j) ==
  /\ jobs[j].state = "leased" /\ ~ jobs[j].expired
  /\ \E w \in Workers : Busy(w) /\ worker[w].job = j /\ jobs[j].holder = w

Budgeted(j) == j = memory.revision /\ owner # "disabled"

BudgetKept(j) ==
  Budgeted(j) =>
    /\ jobs[j].attempt <= faults + 1
    /\ ~ Working(j) => jobs[j].attempt <= faults
    /\ jobs[j].state = "dead" => MaxAttempts <= faults

Budget == \A j \in Revisions : BudgetKept(j)

LEMMA BudgetFacts ==
  ASSUME IInv, NEW j \in Revisions
  PROVE  /\ j \in JobIds /\ jobs[j] \in Row /\ jobs[j].attempt \in Nat /\ faults \in Nat /\ MaxAttempts \in Nat
         /\ jobs \in [JobIds -> Row] /\ memory.revision \in Nat
  BY RowFacts, SizeAssumption, FaultAssumption DEF JobIds, Row, IInv, TypeOK

(* A row that starts anew has spent nothing. *)
LEMMA UnspentBudget ==
  ASSUME NEW j \in Revisions, jobs'[j].attempt = 0, jobs'[j].state # "dead", faults' \in Nat
  PROVE  BudgetKept(j)'
  <1>1. 0 <= faults' + 1 /\ 0 <= faults'
    <2>1. \A n \in Nat : 0 <= n + 1 /\ 0 <= n
      BY SMT
    <2> QED
      BY <2>1, Zenon
  <1>2. jobs'[j].attempt <= faults' + 1 /\ jobs'[j].attempt <= faults'
    BY <1>1, Zenon
  <1> QED
    BY <1>2, Zenon DEF BudgetKept

(* Nothing happens to a row, or to the worker that holds it. *)
LEMMA SameBudget ==
  ASSUME IInv, Budget, NEW j \in Revisions, Budgeted(j)' => Budgeted(j),
         faults' \in Nat, faults <= faults',
         jobs'[j].attempt = jobs[j].attempt, jobs'[j].state = jobs[j].state,
         Working(j) => Working(j)'
  PROVE  BudgetKept(j)'
  BY BudgetFacts DEF Budget, BudgetKept

(* An accident pays for the attempt it ends. *)
LEMMA PaidBudget ==
  ASSUME IInv, Budget, NEW j \in Revisions, Budgeted(j)' => Budgeted(j),
         faults' = faults + 1, jobs'[j].attempt = jobs[j].attempt,
         jobs'[j].state = "dead" => jobs[j].state = "dead" \/ MaxAttempts <= jobs[j].attempt
  PROVE  BudgetKept(j)'
  <1>1. CASE ~ Budgeted(j)
    BY <1>1 DEF BudgetKept
  <1>2. CASE Budgeted(j)
    <2>1. jobs[j].attempt <= faults + 1 /\ (jobs[j].state = "dead" => MaxAttempts <= faults)
      BY <1>2 DEF Budget, BudgetKept
    <2> QED
      BY <2>1, BudgetFacts DEF BudgetKept
  <1> QED
    BY <1>1, <1>2

(* The ends of a slice, and what they cost. *)
LEMMA EndCosts ==
  ASSUME IInv, NEW w \in Workers
  PROVE  /\ Completed(w).attempt = 0 /\ Completed(w).state = "done"
         /\ Returned(w).state = "pending"
         /\ Returned(w).attempt = IF Job(w).attempt = 0 THEN 0 ELSE Job(w).attempt - 1
         /\ Failed(w).attempt = Job(w).attempt
         /\ Failed(w).state = "dead" => MaxAttempts <= Job(w).attempt
  <1> DEFINE mine == Job(w)
  <1>1. mine \in Row
    BY Standing
  <1>2. mine.attempt \in Nat /\ MaxAttempts \in Nat
    BY <1>1, SizeAssumption DEF Row
  <1> HIDE DEF mine
  <1>3. \A state : Free(mine, state).state = state /\ Free(mine, state).attempt = mine.attempt
    BY <1>1 DEF Free, Row
  <1>5. Failed(w).attempt = mine.attempt /\ (Failed(w).state = "dead" => MaxAttempts <= mine.attempt)
    <2>1. CASE Settled(w) = "done"
      BY <1>3, <2>1 DEF Failed, mine
    <2>2. CASE Settled(w) # "done"
      BY <1>2, <1>3, <2>2 DEF Failed, mine
    <2> QED
      BY <2>1, <2>2
  <1>6. Returned(w).state = "pending" /\ Returned(w).attempt = IF mine.attempt = 0 THEN 0 ELSE mine.attempt - 1
    <2> DEFINE free == Free(mine, "pending")
    <2>1. free \in Row /\ free.state = "pending" /\ free.attempt = mine.attempt
      BY <1>1, <1>3, FreeTyped
    <2>2. Returned(w) = [free EXCEPT !.attempt = IF free.attempt = 0 THEN 0 ELSE free.attempt - 1]
      BY DEF Returned, mine
    <2> HIDE DEF free
    <2> QED
      BY <2>1, <2>2 DEF Row
  <1>7. Completed(w).attempt = 0 /\ Completed(w).state = "done"
    BY DEF Completed, NewRow
  <1> QED
    BY <1>5, <1>6, <1>7 DEF mine

(* A worker that goes on, or leaves without its lease, holds what it held. *)
LEMMA StillWorking ==
  ASSUME IInv, NEW w \in Workers, NEW j \in Revisions, Alone(w), Working(j),
         jobs'[j].state = jobs[j].state, jobs'[j].expired = jobs[j].expired, jobs'[j].holder = jobs[j].holder,
         (worker'[w].at # "idle" /\ worker'[w].job = worker[w].job) \/ ~ Held(w)
  PROVE  Working(j)'
  <1>1. PICK x \in Workers : Busy(x) /\ worker[x].job = j /\ jobs[j].holder = x
    BY DEF Working
  <1>2. CASE x # w
    BY <1>1, <1>2 DEF Working, Busy, Alone
  <1>3. CASE x = w
    <2>1. Held(w)
      BY <1>1, <1>3 DEF Working, Held, Job
    <2> QED
      BY <1>1, <1>3, <2>1 DEF Working, Busy
  <1> QED
    BY <1>2, <1>3

(* A slice of work costs nothing but by an accident. *)
LostFree(w) == ~ Held(w) /\ jobs' = jobs
GoesOn(w) ==
  /\ worker'[w].at # "idle" /\ worker'[w].job = worker[w].job
  /\ \E row \in Row : /\ jobs' = [jobs EXCEPT ![worker[w].job] = row]
                       /\ row.state = Job(w).state /\ row.expired = Job(w).expired
                       /\ row.holder = Job(w).holder /\ row.attempt = Job(w).attempt
EndsWith(w, row) == Held(w) /\ jobs' = [jobs EXCEPT ![worker[w].job] = row]
GivenBack(w, row) == row.state = "pending" /\ row.attempt = IF Job(w).attempt = 0 THEN 0 ELSE Job(w).attempt - 1
Costless(w) ==
  \/ LostFree(w) \/ GoesOn(w)
  \/ \E row : EndsWith(w, row) /\ (GivenBack(w, row) \/ (row.attempt = 0 /\ row.state = "done"))
  \/ ~ Budgeted(worker[w].job) \/ worker[w].job = Conversation

LEMMA Leaves ==
  ASSUME IInv, NEW w \in Workers, NEW row, Leave(w, row)
  PROVE  LostFree(w) \/ EndsWith(w, row)
  <1>1. CASE Held(w)
    BY <1>1 DEF Leave, Save, EndsWith
  <1>2. CASE ~ Held(w)
    <2>1. jobs' = [jobs EXCEPT ![worker[w].job] = jobs[worker[w].job]]
      BY <1>2 DEF Leave, Save, Job
    <2> QED
      BY <1>2, <2>1, Standing DEF LostFree
  <1> QED
    BY <1>1, <1>2

LEMMA Ends ==
  ASSUME IInv, NEW w \in Workers, Leave(w, Returned(w)) \/ Leave(w, Completed(w)) \/ Lost(w)
  PROVE  Costless(w)
  <1>1. CASE Leave(w, Returned(w))
    <2>1. GivenBack(w, Returned(w))
      BY EndCosts DEF GivenBack
    <2> QED
      BY <1>1, <2>1, Leaves DEF Costless
  <1>2. CASE Leave(w, Completed(w))
    BY <1>2, EndCosts, Leaves DEF Costless
  <1>3. CASE Lost(w)
    BY <1>3 DEF Lost, Costless, LostFree
  <1> QED
    BY <1>1, <1>2, <1>3

LEMMA StaysOn ==
  ASSUME IInv, NEW w \in Workers, jobs' = jobs, worker'[w].at # "idle", worker'[w].job = worker[w].job
  PROVE  Costless(w)
  <1>1. jobs' = [jobs EXCEPT ![worker[w].job] = Job(w)] /\ Job(w) \in Row
    BY Standing DEF Job
  <1> QED
    BY <1>1 DEF Costless, GoesOn

LEMMA SavesOn ==
  ASSUME IInv, NEW w \in Workers, NEW row \in Row, Save(w, row), worker'[w].at # "idle", worker'[w].job = worker[w].job,
         row.state = Job(w).state, row.expired = Job(w).expired, row.holder = Job(w).holder,
         row.attempt = Job(w).attempt
  PROVE  Costless(w)
  BY DEF Save, Costless, GoesOn

LEMMA RefusedCosts ==
  ASSUME IInv, NEW w \in Workers, NEW row \in {Completed(w), Failed(w)}, Refused(w, row),
         row = Failed(w) => worker[w].at = "ask"
  PROVE  Costless(w)
  <1>1. CASE Lost(w) \/ Leave(w, Returned(w)) \/ Leave(w, Completed(w))
    BY <1>1, Ends
  <1>2. CASE row = Failed(w) /\ ~ Wanted(worker[w].job)
    <2>1. Current(w) => ~ memory.deleted
      BY <1>2, Standing DEF WorkSound
    <2> QED
      BY <1>2, <2>1, Standing DEF Wanted, Current, Costless, Budgeted, JobIds
  <1> QED
    BY <1>1, <1>2 DEF Refused

LEMMA SweepCosts ==
  ASSUME IInv, NEW w \in Workers, worker[w].at = "sweep", Confirm(w) \/ NextPage(w)
  PROVE  Costless(w)
  <1> DEFINE mine == Job(w)
  <1>0. mine \in Row
    BY Standing
  <1>1. CASE Lost(w) \/ Leave(w, Returned(w)) \/ Leave(w, Completed(w))
    BY <1>1, Ends
  <1>2. ASSUME NEW ids \in SUBSET Vectors, NEW n \in {0, 1}, Reserve(w, ids, n), CanCall(w, 2) PROVE Costless(w)
    <2> DEFINE more == [mine EXCEPT !.pending = ids, !.retry = "running"]
    <2>1. CanCall(w, n)
      BY <1>2, Standing, SizeAssumption DEF CanCall
    <2>2. worker'[w].at # "idle" /\ worker'[w].job = worker[w].job
      BY <1>2, <2>1, Called DEF Reserve, Places
    <2>3. Save(w, more)
      BY <1>2 DEF Reserve
    <2> HIDE DEF mine
    <2>4. /\ more \in Row /\ more.state = mine.state /\ more.expired = mine.expired
          /\ more.holder = mine.holder /\ more.attempt = mine.attempt
      BY <1>0, <1>2 DEF Row
    <2> HIDE DEF more
    <2> QED
      BY <2>2, <2>3, <2>4, SavesOn DEF mine
  <1>3. CASE Leave(w, [Returned(w) EXCEPT !.retry = "running"])
    <2> DEFINE late == [Returned(w) EXCEPT !.retry = "running"]
    <2>1. Returned(w) \in Row
      BY ReturnedSound, Standing DEF IInv
    <2>2. late.state = Returned(w).state /\ late.attempt = Returned(w).attempt
      BY <2>1 DEF Row
    <2>3. Leave(w, late)
      BY <1>3
    <2> HIDE DEF late
    <2>4. GivenBack(w, late)
      BY <2>2, EndCosts DEF GivenBack
    <2> QED
      BY <2>3, <2>4, Leaves DEF Costless
  <1>4. ASSUME CanCall(w, 1), mine.pending # {}, GotoCalling(w, "sweep", 1),
               Save(w, [mine EXCEPT !.cursor = Max(mine.pending), !.pending = {}, !.retry = "unset"])
        PROVE  Costless(w)
    <2>1. worker'[w].at # "idle" /\ worker'[w].job = worker[w].job
      BY <1>4, Called DEF Places
    <2> DEFINE last == Max(mine.pending)
    <2>2. last \in Vectors
      <3>1. (MaxRevision + 1) * Chunks - 1 \in Nat
        <4>1. MaxRevision + 1 \in Nat \ {0} /\ Chunks \in Nat \ {0}
          BY SizeAssumption
        <4>2. (MaxRevision + 1) * Chunks \in Nat \ {0}
          BY <4>1
        <4> QED
          BY <4>2
      <3>2. mine.pending \subseteq Vectors
        BY <1>0 DEF Row
      <3>3. last \in mine.pending
        BY <1>4, <3>1, <3>2, Largest DEF Vectors
      <3> QED
        BY <3>2, <3>3
    <2> HIDE DEF last
    <2> DEFINE clean == [mine EXCEPT !.cursor = last, !.pending = {}, !.retry = "unset"]
    <2>3. Save(w, clean)
      BY <1>4 DEF last
    <2> HIDE DEF mine
    <2>4. /\ clean \in Row /\ clean.state = mine.state /\ clean.expired = mine.expired
          /\ clean.holder = mine.holder /\ clean.attempt = mine.attempt
      BY <1>0, <2>2 DEF Row
    <2> HIDE DEF clean
    <2> QED
      BY <2>1, <2>3, <2>4, SavesOn DEF mine
  <1>5. CASE Confirm(w)
    <2>1. mine.pending \subseteq Vectors
      BY <1>0 DEF Row
    <2> QED
      BY <1>1, <1>2, <1>3, <1>4, <1>5, <2>1 DEF Confirm
  <1>6. CASE NextPage(w)
    <2>1. CASE Goto(w, "swept") /\ UNCHANGED jobs
      BY <2>1, Went, StaysOn DEF Places
    <2>2. CASE CanCall(w, 2) /\ Reserve(w, FirstPage(Obsolete(w)), 0)
      <3>1. FirstPage(Obsolete(w)) \in SUBSET Vectors
        BY DEF FirstPage, Obsolete, IInv, TypeOK
      <3> QED
        BY <1>2, <2>2, <3>1
    <2> QED
      BY <1>1, <1>6, <2>1, <2>2 DEF NextPage
  <1> QED
    BY <1>5, <1>6

LEMMA WorkFree ==
  ASSUME NEW w \in Workers, Work(w)
  PROVE  faults' = faults
  BY DEF Work, Embed, Ask, Record, Upsert, Checkpoint, Sweep, Delete, Swept, Complete, Extract, Propose

LEMMA WorkCosts ==
  ASSUME IInv, NEW w \in Workers, Work(w)
  PROVE  Costless(w)
  <1>1. CASE Embed(w)
    <2>1. CASE Goto(w, "sweep") /\ UNCHANGED jobs
      BY <2>1, Went, StaysOn DEF Places
    <2>2. CASE CanCall(w, 2) /\ GotoCalling(w, "ask", 2) /\ UNCHANGED jobs
      BY <2>2, Called, StaysOn DEF Places
    <2>3. CASE Refused(w, Completed(w))
      <3>1. CASE Lost(w) \/ Leave(w, Returned(w)) \/ Leave(w, Completed(w))
        BY <3>1, Ends
      <3> QED
        BY <2>3, <3>1 DEF Refused
    <2>4. CASE Lost(w) \/ Leave(w, Returned(w)) \/ Leave(w, Completed(w))
      BY <2>4, Ends
    <2> QED
      BY <1>1, <2>1, <2>2, <2>3, <2>4 DEF Embed
  <1>2. CASE Ask(w)
    <2>1. CASE Goto(w, "record") /\ UNCHANGED jobs
      BY <2>1, Went, StaysOn DEF Places
    <2>2. CASE Refused(w, Failed(w))
      BY <1>2, <2>2, RefusedCosts DEF Ask
    <2> QED
      BY <1>2, <2>1, <2>2 DEF Ask
  <1>3. CASE Record(w)
    BY <1>3, Went, StaysOn DEF Places, Record
  <1>4. CASE Upsert(w)
    <2>1. CASE Goto(w, "sent") /\ UNCHANGED jobs
      BY <2>1, Went, StaysOn DEF Places
    <2>2. CASE Refused(w, Completed(w))
      <3>1. CASE Lost(w) \/ Leave(w, Returned(w)) \/ Leave(w, Completed(w))
        BY <3>1, Ends
      <3> QED
        BY <2>2, <3>1 DEF Refused
    <2> QED
      BY <1>4, <2>1, <2>2 DEF Upsert
  <1>5. CASE Checkpoint(w)
    <2>1. CASE Lost(w)
      BY <2>1, Ends
    <2>2. ASSUME Held(w), Save(w, [Job(w) EXCEPT !.next = @ + 1]), Goto(w, "embed") PROVE Costless(w)
      <3> DEFINE mine == Job(w)
                 more == [mine EXCEPT !.next = @ + 1]
      <3>1. mine \in Row /\ mine.next < Chunks /\ mine.next \in Nat
        BY <1>5, <2>2, Standing, SizeAssumption DEF WorkSound, Row, Checkpoint
      <3>2. worker'[w].at # "idle" /\ worker'[w].job = worker[w].job
        BY <2>2, Went DEF Places
      <3>3. Save(w, more)
        BY <2>2
      <3> HIDE DEF mine
      <3>4. /\ more \in Row /\ more.state = mine.state /\ more.expired = mine.expired
            /\ more.holder = mine.holder /\ more.attempt = mine.attempt
        BY <3>1, SizeAssumption DEF Row
      <3> HIDE DEF more
      <3> QED
        BY <3>2, <3>3, <3>4, SavesOn DEF mine
    <2> QED
      BY <1>5, <2>1, <2>2 DEF Checkpoint
  <1>6. CASE Sweep(w)
    BY <1>6, SweepCosts DEF Sweep
  <1>7. CASE Delete(w)
    <2>1. CASE Lost(w)
      BY <2>1, Ends
    <2>2. CASE GotoCalling(w, "sweep", 1) /\ UNCHANGED jobs
      <3>1. CanCall(w, 1)
        BY <1>7, Standing, SizeAssumption DEF WorkSound, CanCall, Delete
      <3> QED
        BY <2>2, <3>1, Called, StaysOn DEF Places
    <2> QED
      BY <1>7, <2>1, <2>2 DEF Delete
  <1>8. CASE Swept(w)
    <2>1. CASE Lost(w)
      BY <2>1, Ends
    <2>2. CASE Goto(w, "complete") /\ UNCHANGED jobs
      BY <2>2, Went, StaysOn DEF Places
    <2> QED
      BY <1>8, <2>1, <2>2 DEF Swept
  <1>9. CASE Complete(w)
    BY <1>9, Ends DEF Complete
  <1>10. CASE Extract(w) \/ Propose(w)
    <2>1. worker[w].job = Conversation
      BY <1>10, Standing DEF WorkSound, Extract, Propose
    <2> QED
      BY <1>10, <2>1 DEF Costless, Extract, Propose
  <1> QED
    BY <1>1, <1>2, <1>3, <1>4, <1>5, <1>6, <1>7, <1>8, <1>9, <1>10
    DEF Work

(* A step that leaves a row and its worker alone. *)
LEMMA UntouchedBudget ==
  ASSUME IInv, Budget, NEW j \in Revisions, Budgeted(j)' => Budgeted(j), jobs'[j] = jobs[j],
         faults' \in {faults, faults + 1},
         \A w \in Workers : worker[w].job = j /\ Busy(w) => worker'[w] = worker[w]
  PROVE  BudgetKept(j)'
  <1>1. Working(j) => Working(j)'
    BY DEF Working, Busy
  <1>2. faults' \in Nat /\ faults <= faults'
    BY BudgetFacts
  <1> QED
    BY <1>1, <1>2, SameBudget

LEMMA WorkBudget ==
  ASSUME IInv, Budget, NEW w \in Workers, Work(w)
  PROVE  Budget'
  <1>1. memory' = memory /\ owner' = owner /\ OwnRow(w) /\ Alone(w) /\ faults' = faults /\ Costless(w)
    BY WorkFrame, WorkKeeps, WorkFree, WorkCosts
  <1> SUFFICES ASSUME NEW j \in Revisions PROVE BudgetKept(j)'
    BY DEF Budget
  <1>2. Budgeted(j)' <=> Budgeted(j)
    BY <1>1 DEF Budgeted
  <1>3. CASE worker[w].job # j
    BY <1>1, <1>2, <1>3, BudgetFacts, UntouchedBudget DEF OwnRow, Alone
  <1>4. CASE worker[w].job = j
    <2>1. Job(w) = jobs[j] /\ jobs[j] \in Row /\ faults \in Nat /\ jobs \in [JobIds -> Row] /\ j \in JobIds
      BY <1>4, BudgetFacts DEF Job
    <2>2. CASE LostFree(w)
      <3>1. Working(j) => Working(j)'
        BY <1>1, <2>2, StillWorking DEF LostFree
      <3> QED
        BY <1>1, <1>2, <2>1, <2>2, <3>1, SameBudget DEF LostFree
    <2>3. CASE GoesOn(w)
      <3>1. /\ jobs'[j].state = jobs[j].state /\ jobs'[j].expired = jobs[j].expired
            /\ jobs'[j].holder = jobs[j].holder /\ jobs'[j].attempt = jobs[j].attempt
        BY <1>4, <2>1, <2>3 DEF GoesOn
      <3>2. Working(j) => Working(j)'
        BY <1>1, <2>3, <3>1, StillWorking DEF GoesOn
      <3> QED
        BY <1>1, <1>2, <2>1, <3>1, <3>2, SameBudget
    <2>4. ASSUME NEW row, EndsWith(w, row), GivenBack(w, row) PROVE BudgetKept(j)'
      <3>1. jobs'[j].state = "pending" /\ jobs'[j].attempt = IF jobs[j].attempt = 0 THEN 0 ELSE jobs[j].attempt - 1
        BY <1>4, <2>1, <2>4 DEF EndsWith, GivenBack
      <3>2. Budgeted(j) => jobs[j].attempt <= faults + 1
        BY DEF Budget, BudgetKept
      <3>3. Budgeted(j) => jobs'[j].attempt <= faults /\ jobs'[j].attempt <= faults + 1
        BY <2>1, <3>1, <3>2, BudgetFacts
      <3> QED
        BY <1>1, <1>2, <3>1, <3>3 DEF BudgetKept
    <2>5. ASSUME NEW row, EndsWith(w, row), row.attempt = 0, row.state = "done" PROVE BudgetKept(j)'
      <3>1. jobs'[j].state = "done" /\ jobs'[j].attempt = 0
        BY <1>4, <2>1, <2>5 DEF EndsWith
      <3> QED
        BY <1>1, <2>1, <3>1, UnspentBudget
    <2>6. CASE ~ Budgeted(worker[w].job) \/ worker[w].job = Conversation
      BY <1>2, <1>4, <2>6 DEF BudgetKept, Conversation, Revisions
    <2> QED
      BY <1>1, <2>2, <2>3, <2>4, <2>5, <2>6 DEF Costless
  <1> QED
    BY <1>3, <1>4

LEMMA AccidentBudget ==
  ASSUME IInv, Budget, NEW w \in Workers, Accident(w)
  PROVE  Budget'
  <1>1. memory' = memory /\ owner' = owner /\ OwnRow(w) /\ faults' = faults + 1
    BY WorkFrame, WorkKeeps DEF Accident, CallFails, Crash, Fault
  <1> SUFFICES ASSUME NEW j \in Revisions PROVE BudgetKept(j)'
    BY DEF Budget
  <1>2. Budgeted(j)' => Budgeted(j)
    BY <1>1 DEF Budgeted
  <1>3. CASE jobs'[j] = jobs[j]
    BY <1>1, <1>2, <1>3, PaidBudget
  <1>4. CASE jobs'[j] # jobs[j]
    <2>1. worker[w].job = j /\ j \in JobIds
      BY <1>1, <1>4, BudgetFacts DEF OwnRow
    <2>2. CallFails(w)
      BY <1>4 DEF Accident, Crash
    <2>3. EndsWith(w, Failed(w)) \/ LostFree(w)
      BY <2>2, Leaves DEF CallFails
    <2>4. jobs'[j] = Failed(w)
      BY <1>4, <2>1, <2>3, BudgetFacts DEF EndsWith, LostFree
    <2>5. jobs'[j].attempt = jobs[j].attempt /\ (jobs'[j].state = "dead" => MaxAttempts <= jobs[j].attempt)
      BY <2>1, <2>4, EndCosts DEF Job
    <2> QED
      BY <1>1, <1>2, <2>5, PaidBudget
  <1> QED
    BY <1>3, <1>4

LEMMA ClaimBudget ==
  ASSUME IInv, Budget, NEW w \in Workers, NEW k \in JobIds, Claim(w, k)
  PROVE  Budget'
  <1> DEFINE mine == jobs[k]
             mark == [mine EXCEPT !.state = "leased", !.holder = w, !.expired = FALSE, !.attempt = mine.attempt + 1]
             there == [Idle EXCEPT !.at = Start(k), !.job = k]
  <1>1. /\ jobs' = [jobs EXCEPT ![k] = mark] /\ worker' = [worker EXCEPT ![w] = there]
        /\ memory' = memory /\ owner' = owner /\ faults' = faults /\ worker[w].at = "idle" /\ Claimable(mine)
    BY DEF Claim, memoryVars
  <1>2. mine \in Row /\ jobs \in [JobIds -> Row] /\ worker \in [Workers -> WorkerType]
    BY RowFacts DEF IInv, TypeOK, JobIds, WorkerType
  <1>3. there.at # "idle" /\ there.job = k
    BY DEF Start, Idle
  <1> SUFFICES ASSUME NEW j \in Revisions PROVE BudgetKept(j)'
    BY DEF Budget
  <1>4. Budgeted(j)' <=> Budgeted(j)
    BY <1>1 DEF Budgeted
  <1> HIDE DEF mine, there
  <1>5. CASE j # k
    BY <1>1, <1>2, <1>4, <1>5, BudgetFacts, UntouchedBudget DEF Busy
  <1>6. CASE j = k
    <2>1. /\ mark.state = "leased" /\ mark.holder = w /\ ~ mark.expired /\ mark.attempt = mine.attempt + 1
      BY <1>2 DEF Row
    <2> HIDE DEF mark
    <2>2. jobs'[j] = mark /\ worker'[w] = there
      BY <1>1, <1>2, <1>6
    <2>3. Working(j)'
      BY <1>3, <1>6, <2>1, <2>2 DEF Working, Busy
    <2>4. ~ Working(j)
      BY <1>1, <1>6 DEF Working, Claimable, mine
    <2>5. Budgeted(j) => mine.attempt <= faults
      BY <1>6, <2>4 DEF Budget, BudgetKept, mine
    <2>6. Budgeted(j) => jobs'[j].attempt <= faults + 1
      BY <1>6, <2>1, <2>2, <2>5, BudgetFacts DEF mine
    <2> QED
      BY <1>1, <1>4, <2>1, <2>2, <2>3, <2>6 DEF BudgetKept
  <1> QED
    BY <1>5, <1>6

LEMMA QueueBudget ==
  ASSUME IInv, Budget, NEW k \in JobIds,
         Exhaust(k) \/ LeaseEnds(k) \/ Lapse(k) \/ Ages(k) \/ Resweep(k) \/ Rebuild(k)
  PROVE  Budget'
  <1> DEFINE mine == jobs[k]
  <1>1. worker' = worker /\ memory' = memory /\ owner' = owner /\ faults' \in {faults, faults + 1}
        /\ \E row : jobs' = [jobs EXCEPT ![k] = row]
    <2>1. CASE Exhaust(k) BY <2>1 DEF Exhaust, memoryVars
    <2>2. CASE LeaseEnds(k)
      <3>1. jobs' = [jobs EXCEPT ![k] = [mine EXCEPT !.expired = TRUE]]
        BY <2>2 DEF LeaseEnds
      <3> QED
        BY <2>2, <3>1 DEF LeaseEnds, memoryVars, Fault
    <2>3. CASE Lapse(k)
      <3>1. jobs' = [jobs EXCEPT ![k] = [mine EXCEPT !.expired = TRUE]]
        BY <2>3 DEF Lapse
      <3> QED
        BY <2>3, <3>1 DEF Lapse, memoryVars
    <2>4. CASE Ages(k)
      <3>1. \/ jobs' = [jobs EXCEPT ![k] = [mine EXCEPT !.old = TRUE]]
            \/ jobs' = [jobs EXCEPT ![k] = [mine EXCEPT !.retry = "over"]]
        BY <2>4 DEF Ages
      <3> QED
        BY <2>4, <3>1 DEF Ages, memoryVars
    <2>5. CASE Resweep(k) BY <2>5 DEF Resweep, memoryVars
    <2>6. CASE Rebuild(k) BY <2>6 DEF Rebuild, memoryVars, Fault
    <2> QED
      BY <2>1, <2>2, <2>3, <2>4, <2>5, <2>6
  <1> SUFFICES ASSUME NEW j \in Revisions PROVE BudgetKept(j)'
    BY DEF Budget
  <1>2. Budgeted(j)' <=> Budgeted(j)
    BY <1>1 DEF Budgeted
  <1>3. /\ j \in JobIds /\ jobs[j] \in Row /\ jobs[j].attempt \in Nat /\ faults \in Nat /\ MaxAttempts \in Nat
        /\ jobs \in [JobIds -> Row] /\ faults' \in Nat /\ faults <= faults'
    BY <1>1, BudgetFacts
  <1>4. CASE j # k
    BY <1>1, <1>2, <1>3, <1>4, UntouchedBudget
  <1>5. CASE j = k
    <2>1. CASE Exhaust(k)
      <3> DEFINE over == Free(jobs[j], "dead")
      <3>0. j # Conversation
        BY DEF Conversation, Revisions
      <3>1. jobs' = [jobs EXCEPT ![j] = over] /\ jobs[j].expired /\ jobs[j].attempt >= MaxAttempts
        BY <1>5, <2>1, <3>0, Zenon DEF Exhaust
      <3>2. over.attempt = jobs[j].attempt
        BY <1>3 DEF Free, Row
      <3> HIDE DEF over
      <3>3. jobs'[j].attempt = jobs[j].attempt
        BY <1>3, <3>1, <3>2
      <3>4. ~ Working(j)
        BY <3>1 DEF Working
      <3>5. Budgeted(j) => jobs[j].attempt <= faults
        BY <3>4 DEF Budget, BudgetKept
      <3>6. faults' = faults
        BY <2>1 DEF Exhaust
      <3>7. Budgeted(j) => jobs'[j].attempt <= faults /\ jobs'[j].attempt <= faults + 1 /\ MaxAttempts <= faults
        BY <1>3, <3>1, <3>3, <3>5
      <3> QED
        BY <1>2, <3>6, <3>7 DEF BudgetKept
    <2>2. CASE LeaseEnds(k) \/ Lapse(k)
      <3> DEFINE late == [jobs[j] EXCEPT !.expired = TRUE]
      <3>1. jobs' = [jobs EXCEPT ![j] = late]
        BY <1>5, <2>2 DEF LeaseEnds, Lapse
      <3>2. late.attempt = jobs[j].attempt /\ late.state = jobs[j].state
        BY <1>3 DEF Row
      <3> HIDE DEF late
      <3>3. jobs'[j].attempt = jobs[j].attempt /\ jobs'[j].state = jobs[j].state
        BY <1>3, <3>1, <3>2
      <3>4. CASE LeaseEnds(k)
        BY <1>2, <3>3, <3>4, PaidBudget DEF LeaseEnds, Fault
      <3>5. CASE Lapse(k)
        <4>1. ~ Working(j) /\ faults' = faults
          BY <1>5, <3>5 DEF Lapse, Abandoned, Working
        <4> QED
          BY <1>2, <1>3, <3>3, <4>1, SameBudget
      <3> QED
        BY <2>2, <3>4, <3>5
    <2>3. CASE Ages(k)
      <3> DEFINE aged == [jobs[j] EXCEPT !.old = TRUE]
                 over == [jobs[j] EXCEPT !.retry = "over"]
      <3>1. jobs' = [jobs EXCEPT ![j] = aged] \/ jobs' = [jobs EXCEPT ![j] = over]
        BY <1>5, <2>3 DEF Ages
      <3>2. \A row \in {aged, over} : /\ row.attempt = jobs[j].attempt /\ row.state = jobs[j].state
                                     /\ row.expired = jobs[j].expired /\ row.holder = jobs[j].holder
        BY <1>3 DEF Row
      <3> HIDE DEF aged, over
      <3>3. /\ jobs'[j].attempt = jobs[j].attempt /\ jobs'[j].state = jobs[j].state
            /\ jobs'[j].expired = jobs[j].expired /\ jobs'[j].holder = jobs[j].holder
        BY <1>3, <3>1, <3>2
      <3>4. Working(j) => Working(j)'
        BY <1>1, <3>3 DEF Working, Busy
      <3> QED
        BY <1>2, <1>3, <3>3, <3>4, SameBudget
    <2>4. CASE Resweep(k) \/ Rebuild(k)
      <3> DEFINE fresh == NewRow(jobs[j].kind)
                 next == IF jobs[j].kind = "upsert" THEN jobs[j].next ELSE 0
                 only == (jobs[j].kind = "upsert")
                 again == [fresh EXCEPT !.next = next, !.only = only]
      <3>1. jobs' = [jobs EXCEPT ![j] = fresh] \/ jobs' = [jobs EXCEPT ![j] = again]
        BY <1>5, <2>4 DEF Resweep, Rebuild
      <3>2. fresh.attempt = 0 /\ fresh.state = "pending" /\ again.attempt = 0 /\ again.state = "pending"
        BY DEF NewRow
      <3> HIDE DEF fresh, again
      <3>3. jobs'[j].attempt = 0 /\ jobs'[j].state = "pending"
        BY <1>3, <3>1, <3>2
      <3> QED
        BY <1>3, <3>3, UnspentBudget
    <2> QED
      BY <2>1, <2>2, <2>3, <2>4
  <1> QED
    BY <1>4, <1>5

LEMMA RestBudget ==
  ASSUME IInv, Budget, worker' = worker, faults' \in {faults, faults + 1},
         \A j \in Revisions : Budgeted(j)' => Budgeted(j) /\ jobs'[j] = jobs[j]
  PROVE  Budget'
  <1> SUFFICES ASSUME NEW j \in Revisions PROVE BudgetKept(j)'
    BY DEF Budget
  <1>1. CASE Budgeted(j)'
    BY <1>1, UntouchedBudget
  <1>2. CASE ~ Budgeted(j)'
    BY <1>2 DEF BudgetKept
  <1> QED
    BY <1>1, <1>2

LEMMA ChangesBudget ==
  ASSUME IInv, Budget, NEW deleted \in BOOLEAN, NEW erased \in BOOLEAN, Changes(deleted, erased)
  PROVE  Budget'
  <1> DEFINE fresh == NewRow(IF deleted THEN "delete" ELSE "upsert")
  <1>1. memory'.revision = memory.revision + 1 /\ jobs' = [jobs EXCEPT ![memory.revision + 1] = fresh]
        /\ faults' = faults
    BY DEF Changes
  <1>2. fresh.attempt = 0 /\ fresh.state = "pending"
    BY DEF NewRow
  <1> HIDE DEF fresh
  <1> SUFFICES ASSUME NEW j \in Revisions PROVE BudgetKept(j)'
    BY DEF Budget
  <1>3. CASE j = memory.revision + 1
    BY <1>1, <1>2, <1>3, BudgetFacts, UnspentBudget
  <1>4. CASE j # memory.revision + 1
    BY <1>1, <1>4 DEF BudgetKept, Budgeted
  <1> QED
    BY <1>3, <1>4

LEMMA NextBudget ==
  ASSUME IInv, Budget, [Next]_vars
  PROVE  Budget'
  <1>1. DOMAIN jobs = JobIds /\ jobs \in [JobIds -> Row]
    BY DEF IInv, TypeOK, JobIds
  <1>2. CASE \E w \in Workers : Work(w) \/ Accident(w) \/ \E j \in DOMAIN jobs : Claim(w, j)
    BY <1>1, <1>2, WorkBudget, AccidentBudget, ClaimBudget
  <1>3. CASE \E j \in DOMAIN jobs : Exhaust(j) \/ LeaseEnds(j) \/ Lapse(j) \/ Ages(j) \/ Resweep(j) \/ Rebuild(j)
    BY <1>1, <1>3, QueueBudget
  <1>4. CASE \E c \in sent : Executed(c)
    BY <1>4, RestBudget DEF Executed, Budgeted, memoryVars
  <1>5. CASE Create \/ Edit \/ Remove \/ Restore \/ Erase
    BY <1>5, ChangesBudget DEF Create, Edit, Remove, Restore, Erase
  <1>6. CASE Suspend \/ Resume \/ Disable
    BY <1>6, RestBudget DEF Suspend, Resume, Disable, Fault, Budgeted
  <1>7. CASE Ingest
    <2>1. worker' = worker /\ memory' = memory /\ owner' = owner /\ faults' \in {faults, faults + 1}
      BY <1>7 DEF Ingest, Submit, Revoke, Expire, Wipe, Fault, memoryVars
    <2>2. \A j \in Revisions : jobs'[j] = jobs[j]
      <3>1. jobs' = jobs \/ \E row : jobs' = [jobs EXCEPT ![Conversation] = row]
        BY <1>7 DEF Ingest, Submit, Revoke, Expire, Wipe
      <3> QED
        BY <1>1, <3>1 DEF JobIds, Conversation, Revisions
    <2> QED
      BY <2>1, <2>2, RestBudget DEF Budgeted
  <1>8. CASE \E c \in Approvers : Decision(c)
    BY <1>8, RestBudget DEF Decision, ReadDecision, BindKey, Decide, DecideReplay, Answer, Budgeted, memoryVars
  <1>9. CASE UNCHANGED vars
    BY <1>9, RestBudget DEF vars, Budgeted, memoryVars
  <1> QED
    BY <1>2, <1>3, <1>4, <1>5, <1>6, <1>7, <1>8, <1>9 DEF Next, Changing

(* Whatever is waited for, taken over or suspended: the job in force is given *)
(* up only after as many accidents as it has attempts.                       *)
THEOREM AlwaysGivenUpAfterFailures == Spec => []GivenUpAfterFailures
  <1>1. Init => Budget
    <2> SUFFICES ASSUME Init PROVE Budget
      OBVIOUS
    <2>1. faults = 0 /\ \A j \in Revisions : jobs[j].attempt = 0 /\ jobs[j].state # "dead"
      <3>1. faults = 0
        BY DEF Init
      <3>2. NewRow("delete").attempt = 0 /\ NewRow("delete").state = "pending"
            /\ NoRow.attempt = 0 /\ NoRow.state = "done"
        BY DEF NewRow, NoRow
      <3> QED
        BY <3>1, <3>2 DEF Init, Nothing, Trashed
    <2> QED
      BY <2>1 DEF Budget, BudgetKept
  <1>2. IInv /\ Budget /\ [Next]_vars => Budget'
    BY NextBudget
  <1>3. ASSUME IInv, Budget PROVE GivenUpAfterFailures
    <2> SUFFICES ASSUME NEW r \in Revisions, Budgeted(r), jobs[r].state = "dead" PROVE faults >= MaxAttempts
      BY DEF GivenUpAfterFailures, Budgeted
    <2>1. MaxAttempts <= faults
      BY <1>3 DEF Budget, BudgetKept
    <2> QED
      BY <1>3, <2>1, BudgetFacts
  <1> QED
    BY <1>1, <1>2, <1>3, IndexInvariant, PTL DEF Spec
==============================================================================
