--------------------------- MODULE DurableRecovery ---------------------------
(***************************************************************************)
(* SQL databases in durable objects (saas/src/durable-sql): the engine     *)
(* that serves the application, the recovery controller that freezes an    *)
(* object, exports its rows and releases it, the importer that fills an    *)
(* empty object from a snapshot, the operator who carries plans and chunks *)
(* between them through an encrypted backup, and the older way in, a D1    *)
(* database behind write-fence triggers (fence.ts, durable-snapshot.mjs).  *)
(*                                                                         *)
(* A method that awaits stands between two storage transactions; a grant   *)
(* may expire there.  A table is one chunk and its rows are the stamp of   *)
(* the write that last changed it, so a hash of rows is the rows.          *)
(***************************************************************************)
EXTENDS Integers, FiniteSets

CONSTANTS
  Objects,    \* durable objects, each with its identity
  Runs,       \* recovery runs of the operator
  Chunks,     \* number of chunks of a snapshot, one per table
  MaxWrites,  \* bound: application batches
  None

ASSUME ChunksAssumption == Chunks \in Nat \ {0}
ASSUME WritesAssumption == MaxWrites \in Nat
ASSUME NamesAssumption == None \notin Objects \cup Runs /\ "fence" \notin Runs

VARIABLES
  object,   \* per object: import state, staged chunks, rows, the active run
  run,      \* per run: its object, receipt, plan, summary, release
  pending,  \* per run: the export or chunk that awaits between transactions
  d1,       \* the D1 database: in service, rows, fenced tables, export under way
  held,     \* chunks the operator received
  known,    \* plans the operator read or made
  backups,  \* encrypted bundles
  writes,   \* batches applied so far
  cut       \* history: rows of a source when it was frozen, per run

source == <<object, run, pending, d1>>
recoveryVars == <<source, held, known, backups, writes, cut>>

Tables == 1 .. Chunks
Rows == 0 .. MaxWrites
Data == [Tables -> Rows]
Fence == "fence"   \* the run of the D1 fence
Cuts == Runs \cup {Fence}
Plan(r, data) == [run |-> r, data |-> data]
Fresh == [t \in Tables |-> 0]
Empty == [status |-> "empty", plan |-> None, staged |-> <<>>, data |-> Fresh, active |-> None]
Absent == [at |-> None, state |-> "absent", plan |-> None, summary |-> None]

------------------------------------------------------------------------------
(* engine.ts: a batch is one transaction that first finds the object ready  *)
(* and not frozen.  client.ts never retries.                                *)
Stamp(data, T) == [t \in Tables |-> IF t \in T THEN writes + 1 ELSE data[t]]

(* Mutant: the lock is not looked at. *)
ExecuteMutant(o) ==
  /\ object[o].status = "ready" /\ writes < MaxWrites
  /\ \E T \in (SUBSET Tables) \ {{}} : object' = [object EXCEPT ![o].data = Stamp(@, T)]
  /\ writes' = writes + 1
  /\ UNCHANGED <<run, pending, d1, held, known, backups, cut>>

Execute(o) ==
  /\ object[o].status = "ready" /\ object[o].active = None /\ writes < MaxWrites
  /\ \E T \in (SUBSET Tables) \ {{}} : object' = [object EXCEPT ![o].data = Stamp(@, T)]
  /\ writes' = writes + 1
  /\ UNCHANGED <<run, pending, d1, held, known, backups, cut>>

------------------------------------------------------------------------------
(* recovery.ts.  A frozen run is unreleased and the active one.             *)
Frozen(r) == run[r].state = "frozen" /\ object[run[r].at].active = r
Prepared(r) == Frozen(r) /\ run[r].plan # None

Freeze(o, r) ==
  /\ object[o].status = "ready" /\ object[o].active = None
  /\ run[r].state = "absent"
  /\ run' = [run EXCEPT ![r].at = o, ![r].state = "frozen"]
  /\ object' = [object EXCEPT ![o].active = r]
  /\ cut' = [cut EXCEPT ![r] = object[o].data]
  /\ UNCHANGED <<pending, d1, held, known, backups, writes>>

(* prepareRecoveryExport: rows are collected in one transaction, digested,  *)
(* and the plan is stored in another one if the run is still frozen.        *)
Collect(r) ==
  /\ Frozen(r) /\ pending[r] = None
  /\ pending' = [pending EXCEPT ![r] = [kind |-> "export", data |-> object[run[r].at].data]]
  /\ UNCHANGED <<object, run, d1, held, known, backups, writes, cut>>

Settle(r) == pending' = [pending EXCEPT ![r] = None]

(* Mutant: the second transaction does not look at the run again. *)
StorePlanMutant(r) ==
  /\ pending[r] # None /\ pending[r].kind = "export"
  /\ run' = [run EXCEPT ![r].plan = pending[r].data, ![r].summary = pending[r].data]
  /\ Settle(r)
  /\ UNCHANGED <<object, d1, held, known, backups, writes, cut>>

StorePlan(r) ==
  /\ pending[r] # None /\ pending[r].kind = "export"
  /\ run' = IF Frozen(r) /\ run[r].summary = None
            THEN [run EXCEPT ![r].plan = pending[r].data, ![r].summary = pending[r].data]
            ELSE run
  /\ Settle(r)
  /\ UNCHANGED <<object, d1, held, known, backups, writes, cut>>

(* readRecoveryManifest pins the plan, digests it, and answers only if the  *)
(* second transaction finds the same one: what it answers is what that sees. *)
ReadManifest(r) ==
  /\ Prepared(r)
  /\ known' = known \cup {Plan(r, run[r].plan)}
  /\ UNCHANGED <<source, held, backups, writes, cut>>

(* readRecoveryChunk: the rows of one table, compared with the plan's hash. *)
ReadRows(r) ==
  /\ Prepared(r) /\ pending[r] = None
  /\ \E t \in Tables :
       pending' = [pending EXCEPT ![r] = [kind |-> "chunk", index |-> t, rows |-> object[run[r].at].data[t]]]
  /\ UNCHANGED <<object, run, d1, held, known, backups, writes, cut>>

AnswerChunk(r) ==
  /\ pending[r] # None /\ pending[r].kind = "chunk"
  /\ held' = IF Prepared(r) /\ pending[r].rows = run[r].plan[pending[r].index]
             THEN held \cup {[index |-> pending[r].index, rows |-> pending[r].rows]} ELSE held
  /\ Settle(r)
  /\ UNCHANGED <<object, run, d1, known, backups, writes, cut>>

(* The grant ends or the object restarts between two transactions. *)
Expire(r) ==
  /\ pending[r] # None /\ Settle(r)
  /\ UNCHANGED <<object, run, d1, held, known, backups, writes, cut>>

(* releaseRecovery: as verified only with a summary, as aborted whenever;   *)
(* the operator names the plan the run has.                                 *)
Release(r) ==
  /\ Frozen(r)
  /\ run' = [run EXCEPT ![r].state = "released", ![r].plan = None]
  /\ object' = [object EXCEPT ![run[r].at].active = None]
  /\ UNCHANGED <<pending, d1, held, known, backups, writes, cut>>

------------------------------------------------------------------------------
(* backup.ts: a bundle is encrypted, and decrypted, only if its chunks are  *)
(* the ones of its plan, in order.                                          *)
Matches(plan, rows) == \A t \in Tables : rows[t] = plan.data[t]

Backup ==
  \E plan \in known, rows \in Data :
    /\ \A t \in Tables : [index |-> t, rows |-> rows[t]] \in held
    /\ Matches(plan, rows)
    /\ backups' = backups \cup {[plan |-> plan, rows |-> rows]}
    /\ UNCHANGED <<source, held, known, writes, cut>>

------------------------------------------------------------------------------
(* snapshot.ts: an import starts in an object nothing was ever put in, takes *)
(* the chunks of one plan in order, and is sealed in one transaction.        *)
Begin(o) ==
  /\ object[o].status = "empty" /\ object[o].active = None
  /\ \E b \in backups :
       object' = [object EXCEPT ![o].status = "importing", ![o].plan = b.plan]
  /\ UNCHANGED <<run, pending, d1, held, known, backups, writes, cut>>

Supplied == {h.rows : h \in held} \cup {b.rows[t] : b \in backups, t \in Tables}
NextChunk(o) == Cardinality(DOMAIN object[o].staged) + 1

(* Mutant: a chunk is not compared with the hash its plan has for it. *)
AppendMutant(o) ==
  /\ object[o].status = "importing" /\ object[o].active = None /\ NextChunk(o) \in Tables
  /\ \E rows \in Supplied :
       object' = [object EXCEPT ![o].staged = [t \in 1 .. NextChunk(o) |-> IF t = NextChunk(o) THEN rows ELSE @[t]]]
  /\ UNCHANGED <<run, pending, d1, held, known, backups, writes, cut>>

Append(o) ==
  /\ object[o].status = "importing" /\ object[o].active = None /\ NextChunk(o) \in Tables
  /\ \E rows \in Supplied :
       /\ rows = object[o].plan.data[NextChunk(o)]
       /\ object' = [object EXCEPT ![o].staged = [t \in 1 .. NextChunk(o) |-> IF t = NextChunk(o) THEN rows ELSE @[t]]]
  /\ UNCHANGED <<run, pending, d1, held, known, backups, writes, cut>>

Seal(o) ==
  /\ object[o].status = "importing" /\ object[o].active = None
  /\ DOMAIN object[o].staged = Tables
  /\ object' = [object EXCEPT ![o].status = "ready", ![o].data = object[o].staged, ![o].staged = <<>>]
  /\ UNCHANGED <<run, pending, d1, held, known, backups, writes, cut>>

Abandon(o) ==
  /\ object[o].status = "importing" /\ object[o].active = None
  /\ object' = [object EXCEPT ![o].status = "failed", ![o].staged = <<>>]
  /\ UNCHANGED <<run, pending, d1, held, known, backups, writes, cut>>

------------------------------------------------------------------------------
(* The D1 database: a batch that touches a fenced table is aborted.  The    *)
(* triggers are installed one at a time.                                    *)
D1Write ==
  /\ d1.serves /\ writes < MaxWrites
  /\ \E T \in (SUBSET (Tables \ d1.fenced)) \ {{}} : d1' = [d1 EXCEPT !.data = Stamp(@, T)]
  /\ writes' = writes + 1
  /\ UNCHANGED <<object, run, pending, held, known, backups, cut>>

D1Fence ==
  /\ d1.serves
  /\ \E t \in Tables \ d1.fenced : d1' = [d1 EXCEPT !.fenced = @ \cup {t}]
  /\ UNCHANGED <<object, run, pending, held, known, backups, writes, cut>>

(* verifyWriteFence: every trigger of the plan, exactly. *)
Verified == d1.fenced = Tables

(* exportDurableSnapshot: the catalog with its fence, then every table, and *)
(* all of it once more; two equal observations make a plan.                 *)
ExportStart ==
  /\ d1.serves /\ Verified /\ d1.reads = None
  /\ d1' = [d1 EXCEPT !.reads = <<>>]
  /\ cut' = [cut EXCEPT ![Fence] = d1.data]
  /\ UNCHANGED <<object, run, pending, held, known, backups, writes>>

ExportRead ==
  LET n == Cardinality(DOMAIN d1.reads)
      t == 1 + (n % Chunks)
  IN /\ d1.serves /\ d1.reads # None /\ n < 2 * Chunks
     /\ d1' = [d1 EXCEPT !.reads = [i \in 1 .. n + 1 |-> IF i = n + 1 THEN d1.data[t] ELSE @[i]]]
     /\ UNCHANGED <<object, run, pending, held, known, backups, writes, cut>>

Agree(reads) == \A t \in Tables : reads[t] = reads[t + Chunks]

ExportEnd ==
  /\ d1.serves /\ d1.reads # None
  /\ Cardinality(DOMAIN d1.reads) = 2 * Chunks
  /\ Verified /\ Agree(d1.reads)
  /\ known' = known \cup {Plan(Fence, [t \in Tables |-> d1.reads[t]])}
  /\ held' = held \cup {[index |-> t, rows |-> d1.reads[t]] : t \in Tables}
  /\ d1' = [d1 EXCEPT !.serves = FALSE, !.reads = None]
  /\ UNCHANGED <<object, run, pending, backups, writes, cut>>

------------------------------------------------------------------------------
(* The application starts in an object or in D1. *)
RecoveryInit ==
  /\ \E first \in Objects \cup {"d1"} :
       /\ object = [o \in Objects |-> IF o = first THEN [Empty EXCEPT !.status = "ready"] ELSE Empty]
       /\ d1 = [serves |-> first = "d1", data |-> Fresh, fenced |-> {}, reads |-> None]
  /\ run = [r \in Runs |-> Absent]
  /\ pending = [r \in Runs |-> None]
  /\ held = {} /\ known = {} /\ backups = {}
  /\ writes = 0
  /\ cut = [r \in Cuts |-> None]

Recover(r) ==
  \/ Collect(r) \/ StorePlan(r) \/ ReadManifest(r) \/ ReadRows(r) \/ AnswerChunk(r)
  \/ Expire(r) \/ Release(r)
Import(o) == Begin(o) \/ Append(o) \/ Seal(o) \/ Abandon(o)

RecoveryNext ==
  \/ \E o \in Objects : Execute(o) \/ Import(o) \/ \E r \in Runs : Freeze(o, r)
  \/ \E r \in Runs : Recover(r)
  \/ Backup \/ D1Write \/ D1Fence \/ ExportStart \/ ExportRead \/ ExportEnd

RecoverySpec == RecoveryInit /\ [][RecoveryNext]_recoveryVars

------------------------------------------------------------------------------
(* Everything has its type: what an object stages, what a call carries over *)
(* an await and what the operator holds are rows of tables.                 *)
Series(n) == UNION {[1 .. k -> Rows] : k \in 0 .. n}
Plans == [run: Cuts, data: Data]
Exports == [kind: {"export"}, data: Data]
Answers == [kind: {"chunk"}, index: Tables, rows: Rows]

RecoveryTypeOK ==
  /\ object \in [Objects -> [status: {"empty", "importing", "ready", "failed"}, plan: Plans \cup {None},
                            staged: Series(Chunks), data: Data, active: Runs \cup {None}]]
  /\ run \in [Runs -> [at: Objects \cup {None}, state: {"absent", "frozen", "released"},
                      plan: Data \cup {None}, summary: Data \cup {None}]]
  /\ pending \in [Runs -> Exports \cup Answers \cup {None}]
  /\ d1 \in [serves: BOOLEAN, data: Data, fenced: SUBSET Tables, reads: Series(2 * Chunks) \cup {None}]
  /\ held \subseteq [index: Tables, rows: Rows]
  /\ known \subseteq Plans
  /\ backups \subseteq [plan: Plans, rows: Data]
  /\ writes \in Rows
  /\ cut \in [Cuts -> Data \cup {None}]

(* From its freeze to its release a run is the only one of its object, the  *)
(* application changes nothing there, and a plan that was stored in the     *)
(* meantime is of the rows as they were when the run froze them.            *)
FrozenIsStill ==
  \A r \in Runs : run[r].state = "frozen" =>
    /\ object[run[r].at].active = r
    /\ object[run[r].at].data = cut[r]
    /\ run[r].plan \in {None, cut[r]}

(* What a released run says of its export never changes any more, whatever  *)
(* calls of it are still under way.                                         *)
ClosedIsFinal ==
  [][\A r \in Runs : run[r].state = "released" => run'[r] = run[r]]_recoveryVars

(* An object that is activated holds the rows a source had at one moment,   *)
(* the moment it was frozen, whatever chunks of whatever runs the operator  *)
(* mixed up on the way.                                                     *)
RestoredIsCut ==
  [][\A o \in Objects : object[o].status # "ready" /\ object'[o].status = "ready"
       => object'[o].data = cut[object[o].plan.run]]_recoveryVars
===============================================================================
