# Verification of memory-server-worker

TLA+ models of the parts of this repository where several actors, failures and
time meet; TLC runs that check them on small instances; and TLAPS proofs of what
matters most for every value of the parameters. Paths are relative to the
repository unless they name a module of this directory.

## The system

The repository holds two products.

* **Personal memory server**: `packages/memory-worker` (MCP and REST in front of
  Cloudflare Agent Memory, and the sign-in of the web), `packages/memory-ui` (the web
  UI, whose tabs share one session) and the plugin, whose commands and hooks share
  files on the user's machine.
* **Hosted service** (`saas/`): a multi-tenant service with a central SQL
  database, a sharded payload store, an index job queue, and two routes for
  memories: a *general* route to Cloudflare Agent Memory and a *medical* route to
  it under consent, which otherwise keeps content in Seoul.

| Component | State | Operations | Meets | What makes it correct |
| --- | --- | --- | --- | --- |
| Space ledger (`saas/src/routing/general-ledger.ts`) | identity, provider generation, operations, retirements, reconciliation cursor | `admit`, `check`, `finalize`, `retire`, `pending`, `finishRetirement`, `usage` | called by the executor, one Durable Object per Space | an id is dispatched once; every abandoned generation has one retirement; acknowledged means no open ingest; limits |
| Deployment budget (`routing/budget-ledger.ts`) | identity, month accounts, reservations, total | `reserve`, `finalize`, `usage` | called by the executor and the medical route | counters are the sums of reservations; no month over its policy; no refund |
| General executor (`routing/general-executor.ts`) | none; the position of each invocation | ingest, search, clear, reconciliation pass | both ledgers, authority database, provider | at most one egress per operation, never uncharged; only journaled and live results are disclosed; clears are truthful |
| Consent ledger, routed MCP and client (`routing/ledger.ts`, `server-api.ts`, `server-mcp.ts`, `client.ts`, `policy.ts`) | consents, receipts, tickets | grant, revoke, issue, consume, check, finalize | budget, directory, provider | a ticket is sent once; consent is in force when content leaves and when an answer is shown; a client is told what is so |
| Payload storage (`release/payload-*.ts`, `payloads.ts`) | intents, stages, purges, cold and hot objects | prepare, stage, publish, retire, collect, purge | memory store | a referenced payload is readable; an unreferenced one is purged in the end; nothing is resurrected |
| Memory store (`memory.ts`, `release/memory.ts`) | memories, versions, receipts | create, update, remove, restore, erase, search | payloads, jobs | revisions by compare-and-set, one receipt per key; a search shows what is current |
| Index jobs (`release/jobs.ts`) | jobs, leases, vector references | enqueue, claim, index, sweep, complete, resweep | memory store, vector index | fencing by lease; every vector is findable; obsolete ones go; only failures use up attempts |
| Ingestion (`release/ingest.ts`) | submitted conversations, receipts | submit, extract, approve, reject, revoke | jobs, memory store | one selection is approved, once |
| Identity and workspaces (`auth.ts`, `workspace.ts`, `release/lifecycle.ts`, `release/admin.ts`) | accounts, credentials, memberships, invitations, lifecycle heads | sign in, issuer events, invite, remove, issue keys, SCIM | read by every route | what is revoked acts no more, in whatever order it is learned |
| Durable SQL (`durable-sql/`) | database object, import, freeze, export | execute, freeze, export, release, import | every caller of the database | no write while frozen; an import is one cut of its source or nothing |
| Billing (`release/billing.ts`) | checkout requests, events of subscriptions, plan of a pool | checkout, webhook, reconcile, drain | Stripe, limits of a pool | one subscription a pool; the plan follows it and never an older state of it |
| Transfer and export | | pages of memories in and out | memory store | |
| Personal worker (`packages/memory-worker`) | cookies of the browser, registry of keys | authenticate, memory operations, sign-in, refresh, sign-out | issuer, Agent Memory | one credential names one profile; a quiet browser stays signed in |
| Memory UI (`packages/memory-ui`) | views and session of a tab | list, page, filter, search, open, delete | personal worker | late answers change nothing |
| Plugin (`plugins/allenlim-memory-server`) | token file, service credential, checkpoints, lock files | login, logout, refresh, hooks | issuer, personal worker | a one-time token is used once; no message is skipped |

Behaviour that is hard to test is listed at its line under `hazards` in
`PROJECT.json`. The kinds that recur: state read before an `await` and used after
it; a call that commits and whose answer is lost; two journals that are written
independently; requests that a provider serves after its caller gave up; events that
arrive in any order; limits reached by concurrent callers; clocks and months that move
on between two steps; work that must not starve behind work that can never succeed.

## Modules

| Module | Models | Checked by | Proved in |
| --- | --- | --- | --- |
| `LedgerClock` | what both ledgers share: clock, months, outcomes | | |
| `GeneralLedger` | the Space ledger | `MCLedgers` | `DurableObjectProofs` |
| `BudgetPolicy`, `BudgetAccounts`, `BudgetLedger` | the operator's policies; the tables of the deployment budget and what holds of them; its operations | `MCLedgers` | `DurableObjectProofs` |
| `GeneralExecutor` | the executor with both ledgers, the authority and the provider | `MCGeneralExecutor`, three configurations | `GeneralExecutorProofs` |
| `MedicalRoute` | the medical route from client to provider, and the administrators | `MCOrganization` | `OrganizationProofs` |
| `PayloadRequests`, `PayloadCatalog` | requests and limits; the central database of external payloads and of the memories that refer to them | `CatalogSpec` in `MCPayloads` | `PayloadsProofs` |
| `Payloads` | client calls, maintenance passes and both payload stores over `PayloadCatalog` | `MCPayloads`, `MCScheduleEnds` | `PayloadsProofs` |
| `IndexJobs` | the job queue, the vector index, one conversation | `MCIndexJobs` | `IndexJobsProofs` |
| `Accounts` | accounts, lifecycle events, memberships and what acts for them | `MCOrganization` | `OrganizationProofs` |
| `BillingTerms`, `Billing`, `BillingPromise` | the terms of a pool; its checkouts and its paid plan; what it promises | `MCLedgers`, `MCScheduleEnds` | `BillingProofs` |
| `DurableRecovery` | database objects, their recovery and the D1 way in | `MCDurableRecovery` | `DurableObjectProofs` |
| `WorkerUsers` | who the personal product serves | | |
| `BrowserSession` | tabs, cookies, worker and issuer of the web session | `MCBrowserSession` | `WorkerProofs` |
| `PersonalMemory` | authentication, memory operations and views of the personal product | `MCPersonalMemory` | `WorkerProofs` |
| `PluginClient` | the processes of the plugin and the files they share | `MCPluginClient` | `PluginClientProofs` |

`GeneralExecutor` takes both ledgers by `INSTANCE`, with its own variables for theirs, and
`Payloads` extends `PayloadCatalog`, so a call *is* the action of the component called. For the
ledgers the form alone then says that each behaviour of the executor is one of theirs. For the
catalog it does not, because `Payloads` moves parts of it itself (staging, writes executed late):
`CatalogSpec` is a property, checked and proved. `MCLedgers`, `MCOrganization` and `MCScheduleEnds`
each put components that share no state under one instance: a behaviour is of one of them, and the others rest in a
state in which fairness asks nothing of them (at most that a preparation which was published
expires).

### GeneralLedger

Each method of `GeneralSpaceLedger` is one synchronous SQLite transaction, so it
is one action. A table is a function from its key to a record. A rejected call
throws and rolls back: an operator `XxxRejected` gives the condition, with the
checks of the code from top to bottom, and the actions `XxxNew` and `XxxReplay`
are what the call does otherwise. `admit` splits into `AdmitNew`, whose answer
carries `dispatch: true`, and `AdmitReplay`; `pending` orders open retirements by
`WrapRank`, the `ORDER BY` of the query, and moves the cursor to the last row it
returns. The first successful call pins the identity (`Bind`).

Abstractions: the row id of an operation is random and unique, and is identified
with the operation id; a payload hash and the usage numbers are one value
`payload`; the credential and the account of a caller are one `actor`. The clock
is the one of the Durable Object and does not run backwards.

### BudgetLedger

Same style; the tables, and what holds of them, are in `BudgetAccounts`. `AccountOf` is the
row of the month or the empty one that `reserve` inserts; `Exhausted` compares the limits
after the new request is added; the trigger that counts reservations is part of `ReserveNew`.
Rounding to whole KiB is modelled (`KiBs`), integer overflow is not: the schema's limits keep
the sums below 2^53.

### GeneralExecutor

An invocation is an element of `Calls`, and `CallOf` says what it asks; a
reconciliation pass is an element of `Passes`. `pc` holds the await a worker stands
at; the actions between two awaits are one step. The module takes both ledgers by
`INSTANCE`, with its own variables for theirs, so a call to a ledger *is* the
ledger's action.

* A remote call may succeed, be rejected by its callee, fail before it commits
  (`unreachable`) or commit and lose its answer (`lost`).
* An invocation may be aborted before any await (`abort`), its worker may vanish at
  any place (`crash`), the provider may answer with an error or not before the
  deadline (`provider`), and access may be revoked at any time (`revoke`). The
  constant `Faults` says which of these a run includes.
* The provider takes requests from `wire` when it wants to, also after the caller
  gave up or crashed. An answer reaches a caller only while it waits.
* `finalize()` writes two journals with `Promise.allSettled`: `todo` holds the ones
  still to be written, in either order, and `failed` whether one was rejected.
* `egress` is a history variable: it tells whether the request of an invocation
  left and whether the provider served it. No guard reads it.

Abstractions: a repeated delete of one worker for one generation is one message on
the wire (deletion is idempotent); an aborted pass is covered by `Crash` of a pass;
`memory_usage` only reads and is left out; the branch of the executor that refuses a
*replayed* reservation cannot be reached, because a ticket is handed out once
(second conjunct of `SingleEgress`, proved).

### PayloadCatalog

A memory of the hosted service is a row that refers to an external payload; its
history refers to the payloads of former revisions. A write prepares its payloads
(`Plan`), stages each of them (`MakeReady`), and publishes them in the batch that
writes its receipt and changes the memory (`Commit`). What is replaced goes to the
queue of *retirements* (leave the searchable store), what is erased and what an
expired preparation leaves behind to the queue of *purges* (leave both stores).
A statement or batch of the central database is one transaction, so it is one
action, triggers included: `Change` is the row, its version and the rows the
triggers of migration 0022 add to the queues.

| Code | Model |
| --- | --- |
| `release_payload_intents` with `expires_at`, `published_at`, `collection_started_at` | `intents`, `expired`, `published`, `collected` |
| `release_payload_stages.state`, `release_payload_stage_accounts.quantity` | `stages`, `held` |
| `release_operations` | `receipts` |
| `memories`, `memory_versions`, retention deadline | `memories`, `versions`, `lapsed` |
| `release_payload_purges`, `release_payload_retirements` | `queues` |
| `preparePayloads`, `commit`, automatic erasure | `Plan`, `MakeReady`, `Commit`, `AutoErase` |
| `collect`, `item` of `payload-maintenance.ts` | `Collect`, `Claim`, `Acknowledge` |

Abstractions: one account and one Space; the random ids of a preparation are
identified with its client key, so a payload is `<<key, memory>>`; a request stands
for its hash; a deadline is a flag raised by an action of its own (`Expire`,
`Lapse`, `Due`). The back-off after a provider failure only chooses when a row is due
again, so `Due` covers it. The branch of `item` that defers a row which is still
referenced is left out: `QueuedIsUnreferenced`, which is proved, shows no such row
exists. `LIMIT`s of a page are not reached. Memories that keep their content inline,
the archive, its backfill and supersession are not part of this module.

### Payloads

The module extends `PayloadCatalog` and adds the stores: `cold`, a
permanent object that is created only if absent and that a purge replaces by an
empty marker, and `hot` with `tombstones`, the rows of a shard. `pc` and `step` hold
the await a call or a worker stands at. A read that is followed, without an await
that matters, by a transaction repeating its conditions belongs to that step.

* `within(...)` gives up waiting but does not cancel: a write whose caller times out,
  fails or disappears goes to `late`, from which it may be executed at any later time
  or never (`LateWrite`). `CallFault`, `WorkerFault` and `ClaimLost` are these
  failures; access that is withdrawn during a call ends it the same way.
* A row becomes due again only when no worker handles it: a claim delays its row by
  60 s (`payload-maintenance.ts:61`) and a pass does not start an item in its last
  20 of 60 s (`:75`) and gives up waiting at their end.

### IndexJobs

One memory with its revisions, one job per revision and one for a submitted conversation.
A worker stands at an `await` of `drain` (`worker[w].at`); each write of the code names
the lease, so each has the form *if it still holds its row, change it; otherwise leave*.

| Code | Model |
| --- | --- |
| `release_jobs` with attempt, lease, cursor, retry time | `jobs`, one `Row` each |
| `release_vector_refs` (recorded before the vector is sent) | `refs` |
| the index: accepted calls, vectors found | `sent`, `index` |
| `claim`, `index`, `sweep`, `complete`, `fail` | `Claim` and the parts of `Work(w)` |
| account or organization: live, suspended, disabled | `owner` (`Suspend`, `Resume`, `Disable`) |
| `maintain`: rows done a day ago are swept again | `Ages`, `Resweep` |
| submission, extraction, decision of `ingest.ts` | `conversation`, `approver`, `receipts`, `created` |

`indexable` (`jobs.ts:102-128`) reads lease, revision and owner in one statement, before each
provider request. A suspended owner returns the attempt; a memory that changed, and a *disabled*
owner, make it false, and `index` then answers that the job is complete (`:253-254`, `:265-266`), or
fails the attempt when the last check before the text is sent finds it so (`Ask`). So the job of a
live revision can rest as done with chunks unsent once its owner is disabled. `DoneIsIndexed`
excepts that owner (`Wanted`): disablement is terminal and nobody searches those memories again.
`GivenUpAfterFailures` is the error budget: a slice that is continued, a deletion that is not
visible yet and a suspension give the attempt back (`:147-155`, `:168-175`, `:281`), so a job of the
revision in force is dead only when as many things went wrong as it has attempts. A search, and its
last check of the row (`memory.ts:195-218`), is one statement and is not modelled.

Abstractions: durations are left out (a lease may lapse at any moment; a retry time is
unset, running or over); an accepted call of the index is executed at any later time, in any
order; text is a number of chunks. The rotation of tenants, the order in which jobs are
claimed and the daily budget of the extraction provider are left out, so more orders are
allowed than in the code.

### MedicalRoute

A call goes from the client's plan (`Plan`, the rule of `policy.ts`) over the receipt
(`Issue`, `HandOut`) to its dispatch, and on the server over the ticket (`ConsumeFirst`,
`ConsumeReplay`), the reservation, the last look at consent and access (`Refresh`,
`CheckDispatch`), the request (`Send`, `Serve`), both journals (`Finalize`) to the answer
(`Disclose`). `Undo` is what every failure before the request leads to. The stores are
different and each may lose an answer. A consent that is revoked and granted again has a
new identity and so a new profile at the provider. The clear of a medical Space and the
attestation of Spaces are left out.

### Accounts

`db` is the database and a command is a function on it, with its triggers; `log` is what
the issuer knows. The *k*-th event of a subject happens at `2k` and a token is issued at
`2k` or `2k+1`: tokens count in seconds, so one may carry the second of an event it does
not know. `WithHead` is what a later event does, `Carried` the events inside a token.
Left out: linked addresses, domains, shares, permissions, hierarchies, enrollment, the older
events of version 1, and how old a token, an invitation or a reauthentication may be; each
of these only forbids what is allowed here.

### Billing

One pool. `caller[c].at` is where a call of `checkout` stands: it looks at the pool, finds the
request of its key or closes what earlier attempts left (`ClosePrevious`, `KeepPrevious`), makes
a request (`Request`, one conditional `INSERT`), makes the customer, claims the attempt, asks
Stripe for the session (`Send`) and records it. Access that ends and an answer that is lost both
leave a caller that never goes on. `drain[d].at` is where a run of `drain` stands between taking the
lease and giving it back: each write names the lease (`Holds`). The events of a request are those
a later checkout queues, one for each state of its subscription that a webhook brings, and the one
of `reconcile`, new in every hour. `applied` is a history variable.

Stripe is external: an idempotency key makes one session, which is paid or expires with its
request; a subscription changes until it has ended. The version of a subscription counts its
states. Left out: the portal, signatures, the plans and their prices, the `LIMIT`s of 5 earlier
attempts and 20 pools, and the hour that passes between two reconciliations of a pool.

### DurableRecovery

`Freeze`, `Collect` and `StorePlan` (two storage transactions of one call, with an `await`
between), `ReadManifest`, `ReadRows` and `AnswerChunk`, `Release`; on the other side `Begin`,
`Append`, `Seal`, `Abandon`. The operator keeps plans and chunks of any run (`known`, `held`)
and may hand over any of them in any order. Rows are the stamp of the write that last
changed them and a digest is what it digests; `cut` is a history variable.

### BrowserSession

A family of refresh tokens belongs to one sign-in and `<<f, i>>` is the *i*-th token of it.
`shared` is the page's one refresh (`sharedRefreshRequest`), `tab` its session provider, `api` a
request of it that the worker answers with 401, `jar` the cookies, which only answers of the worker write. The issuer is external: it rotates
the newest token, tolerates the one before for a grace, and revokes the family when an older
one comes back. Throttling, outages and lost answers are `faults`. A page that is signing out
still makes requests and refreshes after a 401 (`api.ts:324-326`), and so it does here.

Lateness alone can end a session, without any failure: two tabs send the same token, one request
is rotated, the grace ends (or another rotation moves it on) before the other request arrives, and
the issuer takes that for reuse and revokes the family: both tabs are out. `issuer[f].missed`
is a history variable that records it, and `QuietBrowserStaysIn` speaks of browsers that missed no
grace. `Beside` bounds what goes on beside a sign-out.

### PersonalMemory

`Authenticate` is the order in which the worker looks at a request's credentials; `call` is a
request of an agent or a script that it serves; `page`, `req`, `old` are what the UI
shows, the request its view waits for, and the last one it superseded, whose answer may still
come; `dels` are the deletes under way, of which a list may have several and which no navigation
stops (`index.tsx:177-191`). The service is external; a memory is a number and it lists in that
order. Left out: the `x-memory-application` header, the migration tool, the statistics of the UI.

Every request of the UI may fail, before or after it was served (`FailAnswer`, `FailDelete`). What
the code then shows is part of the model and of `ViewIsOfItsRequest`:

* A list whose first page fails keeps its memories and its cursor and only shows an error
  (`index.tsx:82-95`). After a change of the filter the old list therefore stands under the new
  filter until the user tries again, and the next page, of the new filter, may be appended to it after
  the old cursor (`:99-131`). The property promises the filter only while no first page has failed
  (`failed`), and the order without repetitions always.
* A list request under way when a memory is deleted may bring it back into the view. The property
  does not promise that what is shown is still stored.

### PluginClient

`proc` are the processes; `creds`, `service`, `points` and `locks` the files. A lock file is
taken with exclusive creation; one that looks stale is removed by its name (`SeeStale`, then
`RemoveStale`). `NeedsRefresh`, `Rotate` and `SaveRefreshed` are the refresh under the lock;
`StartHook` to `Rename` one capture: read a batch, send it, look at the file again (`Anchor`),
decide whether the checkpoint still moves forward, rename it into place. A process may die at
any step and an answer may be lost. What is injected into a prompt and printed is left out.
The anchor of a checkpoint is a hash of the last 64 bytes before its offset (`hook-runner.mjs:42`,
`:555-564`); `Names` takes it to tell one writing of a file from the next. A file that is written
anew between two hooks, with the same identity and those bytes unchanged, passes for the old one in
the code and not in the model.

## Runs

| Run | Instance | Question |
| --- | --- | --- |
| `ledgers` | 2 actors, 2 identities, 3 ids, deadlines {1, 3}, 2 operations in all and 1 a month, 2 retirements; 2 budgets, 3 reservations, 2 policies, sizes {0, 3} with KiB = 2; clock 0..3, months of 2 ticks. Or a checkout, its retry and one under another key; or two checkouts and a drain; 2 states of a subscription | Do generations and retirements stay consistent whatever callers bring, and are counters the sums of the reservations, within the policy of each month? Does a pool pay for one subscription at a time? |
| `executor_calls` | any two of an ingest, its retry, the search of another actor, a clear and its retry; every fault; one request of budget; clock 0..1 | Is there one egress per operation and never an uncharged one, do the journals agree, is what clients are told true? |
| `executor_ends` | any two of an ingest and two clears; abort and revocation; a pass with pages of one row; profile 1 undeletable | Is the other profile acknowledged, and is nothing stale told? |
| `overtaken_by_delete` | ingest and clear | Does the comment at `general-ledger.ts:244-246` hold? It does not (below). |
| `organization` | an ingest, its retry, a search and a call locked to Seoul, two of which start; 2 administrators, 3 versions of the consent, 1 fault. Or 2 subjects, 2 events of the issuer, 2 events or invitations in all, 3 memberships, 2 credentials in force, 1 token of a program | Does medical content leave once, charged, and is it disclosed only under the consent it was asked under? Is nothing in force that was not proved after the last event received, and does nothing of an ended membership act? |
| `payload_writes` | any two of an update, its retry, a rival update and another request under the same key, or a restore and an erasure of a deleted memory; one worker, one failed write, two claims per row | Is what becomes visible fully staged, has each revision one receipt, and does anything bring cleaned content back? |
| `schedule_ends` | an update and a deletion whose retention ends; one worker; one failed write; two claims per row. Or 2 drains over a paid subscription of 2 states; 1 event a drain, 2 attempts, 1 fault | Does content leave the stores, and does the quota return? Does a pool lose the plan of a subscription that ended, without a webhook, and is it told states in their order? |
| `index_jobs` | 2 workers, 2 revisions of one chunk, 2 calls a slice of work, 2 attempts, 1 fault; 3 approvals under 2 keys of 2 selections | Is every vector recorded, a finished job indexed, an obsolete one gone in the end, a job given up only after failures, and a conversation approved once? |
| `durable_recovery` | 2 objects and the D1 database, 2 runs, 2 chunks, 2 writes | Is what is frozen still, what is released closed, and what is activated exactly one cut? |
| `browser_session` | 2 tabs, 2 users, 2 sign-ins, 2 tokens of each, 1 fault, issuers that return a refresh session and ones that do not | Does a browser whose requests are answered in time stay signed in, are cookies cleared only when their token is dead, does the jar never go back, does a tab that was told it is out stay out? |
| `personal_memory` | 2 users, 1 scope, a scoped read-only key and a personal access token, 2 memories of 2 types in pages of one, 2 queries; 1 request of any kind with the UI closed; with it open requests of the view that fail, and 2 deletes or a request of the user's agent at a time | Is a request served for its only credential, and is what a view shows the answer it waits for? |
| `plugin_client` | 2 processes, 2 users, 2 sessions, 3 tokens each, 1 fault; three plans of commands | Is a refresh token presented once, is no message skipped, and does neither file go backward? |

The limits are set so that they are reached within the bound: one more request than
the monthly limit, one more retirement than the table holds, a month that ends with
a reservation open, a ticket that lapses before its outcome, an authority that ends
before the ticket, a preparation that does not fit the staging quota, a job whose attempts
run out, a slice of work that ends in the middle of a clean-up, a consent that is revoked
and granted anew, a membership that ends and begins again, a list of several pages.
`MaxStarted` bounds how many of the calls of a run start: TLC explores every pair of them,
and two calls suffice for a retry and its original or for two competitors. `MaxFaults`
bounds failures; with one, each place of a run can fail, and no recovery path of the code
depends on a second one. In `index_jobs` it has to stay below `MaxAttempts`: a job that used up its
attempts is not swept again (`jobs.ts:376-403` takes jobs that are done), and then obsolete vectors stay. There
`GivenUpAfterFailures` says that no job in force is dead at all; the theorem says the rest.
`Beside = {}` lets a tab that signs out make no further calls and starts no sign-in beside it;
`MaxPending` and `AgentWeight` let two deletes of the UI, or one call of the agent, be under way
beside the request of the view. `MaxAttempts` leaves a claim for the retry after a failure of a
worker. `MCPluginClient` bounds the commands by plans, since an instance with all of them
together is too large: the credential commands meet each other and two
hooks meet a sign-in or a service credential. Identities, subjects, ids and identical calls
are interchangeable and declared symmetric; runs with liveness use no symmetry.
A drain handles one event where the code handles three: it names the lease for each of them
again, so further events of one drain are those of a further drain.
Deadlock is not checked where a finite set of calls, commands or requests really ends; it is
checked for the ledgers, whose callers never stop (a pool may rest).

**Fairness.** `executor_ends` assumes weak fairness of the steps of each worker (an
isolate that is not lost continues its `await`s), of each pass (nothing in the repository
schedules `reconcileGeneralRetirements`; `saas/docs/general-runtime.ko.md:32` leaves it to
the operator, who is assumed to run it again and again), and of the provider for the
requests of each worker (a request that arrived is served, unless its profile is in
`Broken`). It includes no crash: what a crash leaves open stays open in the code too
(`general-executor.ts:183`). `schedule_ends` assumes weak fairness of `Collect`, of
each worker's steps (the cron trigger of `wrangler.jsonc:56` starts a pass every minute,
and every step of it ends in an answer or a timeout), and of `Expire` and `Due` (deadlines
are reached); for the plan of a pool, of `Reconcile` and of each drain's steps (the same trigger
starts both where background jobs are enabled, `release/extension.ts:371-373`, and requests to
Stripe have a timeout), of `Lapse` and of `DueAgain` (a lease and a back-off end); of no webhook,
checkout or change at Stripe. `index_jobs` assumes weak fairness of each worker's steps and of the claim of
each job by some worker (the same trigger drains the queue, and takes rows in the
order in which they became due), of `Lapse` and `Ages` (time passes), of `Resweep` (the
maintenance of every pass), of the execution of each call the index accepted (external: it
promises to become consistent) and of `Resume`: an owner that stays suspended for ever keeps
its vectors for ever, because no job of it is claimed. Nothing is assumed of clients, of
late writes, of failures or of revocation.

**A disagreement that a run shows.** `general-ledger.ts:244-246` says of an ingest that
finishes after an earlier delete request: keep the outbox open until its outcome is journaled
*and a fresh reconciliation delete can follow it*. The code looks only for ingests that are
still `admitted` when the acknowledgement arrives. `overtaken_by_delete` finds: an
ingest and a delete of its generation are on the wire; the provider serves the delete,
then the ingest; the ingest is journaled `accepted`; then the acknowledgement of the
earlier delete is taken. No delete follows, and the data stays in the retired profile.

**Disagreements that properties except.** `packages/memory-worker/src/index.ts:1602-1604`
says that the browser's refresh token is discarded only after a confirmed rejection by the
issuer. But after a successful rotation the new access token is verified with the issuer's keys
(`:1622-1630`); when these cannot be fetched, `verifyJwt` answers as for a bad token, and the
cookies of a live session are cleared. `RefreshUnverified` models it and `ClearedWasDead`
excepts that answer.

`plugins/allenlim-memory-server/scripts/lib.mjs:430` says that a logout revokes the session, *then
always removes local credentials*. But a logout that waits for the credential lock in vain, because a
refresh holds it, goes to its `finally` (`:464-469`): it has revoked nothing and removes the file while
the refresh is under way, and the refresh then writes its credentials again. The user is signed in
after a logout in which no process died and no answer was lost. `removed` records the sessions that
such a logout took off the disk, and `RefreshReplacesItsOwn` excepts exactly those: a logout that had
the lock is never undone.

Every property of a passing run has a mutant in `PROJECT.json`: an operator named
`...Mutant` beside the definition it replaces, a plausible slip in that code under
which TLC finds the property violated.

## Proofs

The theorems hold for every value of the constants that satisfies the named assumptions
of the modules, which TLC evaluates for every run: limits and sizes are naturals,
lifetimes and months positive, a null value is none of the values it stands beside
(`...Assumption`). Those that say more are named below. Each proof has the same shape: an
inductive invariant `IInv`, checked by TLC on the run's instance before it was proved; one
lemma per action, and frame lemmas for what an action of one worker leaves to the others;
theorems that derive from `IInv` what the runs check. An inductive invariant has to say
where every worker stands and what the stores then hold, because the code reads before an
`await` and acts after it.

* **Space ledger** (`DurableObjectProofs`, first part). `LedgerTypeCorrect` is inductive by itself.
  `LedgerInvariant` proves `LedgerInv`: the type invariant, generations accounted for,
  acknowledged retirements quiescent, cursor and ids valid, and two strengthenings the
  properties do not mention but need. `OperationsReached` says no operation belongs to a
  generation beyond the current one; without it a retirement could be acknowledged and later
  get an ingest in its generation. `TablesFinite` says the tables are finite and there are as
  many retirements as retired generations, which bounds the cursor and the generation by
  `MaxRetirements`. `CapacityAlwaysHeld` is an invariant of its own on top, by counting
  the operations of a month. `LapsedStaysLapsed` is the action property, from the type
  invariant and the monotone clock and generation.
* **Budget** (`DurableObjectProofs`, second part). `BudgetInvariant` proves `BudgetInv`: counters equal the
  cardinalities of the sets of reservations they count, bytes and money are the sums over them
  (`SumsMatch`), months are within their policy, and every reservation is priced under the
  policy of its month. The strengthening is a finite set of reservations: a step adds one
  element to one of the counted sets or moves one between outcomes. What a fold sums in
  (`SumExtended`, `SumSame`) follows from its definition by lemmas of this module.
* **Executor** (`GeneralExecutorProofs`), from `CallsAssumption` (invocations and passes are
  different, a search has a length). `NextKeeps` maps each step, a crash or a lost answer too, to a
  step of each ledger or to a stutter, so that what the ledgers keep by themselves holds here. `IInv` holds what both
  ledgers keep and: `OneHolder` (of all invocations of an operation one was given the ticket, and
  it keeps it), `ReservedByHolder`, `WorkInv` (at each place, what both journals say, whether
  the request has left, what is still to be written), `Wired` (what is on the wire was sent by
  its caller), `DeleterInv` and `ClearInv` (an acknowledgement follows a deletion the provider
  executed), `AcknowledgedDeleted`. `OneEgress` needs `OneHolder`: a retry finds the
  operation and never comes to `ticketed`. `JournalsAlwaysTruthful` needs `WorkInv` of the holder,
  since both journals are written independently and one may be lost.
* **Payload database** (`PayloadsProofs`, first half), from `RequestAssumption` (requests name
  keys and memories, and creations generate fresh ids), `SeedAssumption` (the starting state is one
  of committed creations and deletions) and `LimitAssumption`. `CatalogInv` has the strengthenings
  `StagesPlanned` (a stage belongs to the preparation of its key), without which a publication
  could miss stages; `HeadsExist` (a memory has a payload from creation to erasure);
  `PurgeExplained` (whatever waits for a purge belongs to an erased memory or to an expired
  unpublished preparation), the heart of the argument: expiry, erasure and publication are final
  and exclude each other, so nothing that was queued can be referenced later;
  `RetiredWasPublished` and `CollectedExpired`. `NeverUndone` derives from it that no step
  undoes a receipt, an erasure, a finished clean-up or a stage.
* **Payload stores** (`PayloadsProofs`, second half). `CatalogRefined` is the refinement of the
  database. `IInv` adds `StoresSound` (what cold and hot hold is explained by the stage, and a
  tombstone by a queue), `CallSound` (before a payload is reported ready its object and row
  were written, or buried since), `WorkerSound`, and `LateSound`: the same of every write whose caller
  gave up, because it may be executed at any later time. `AlwaysReadable` and
  `AlwaysCleanedForGood` follow. `RevisionsAlwaysHaveReceipts` is an invariant of its own:
  `RevisionsCounted` says that every receipt on a memory expected a revision it has left behind,
  so no two expected the same.
* **Billing** (`BillingProofs`), from `StartAssumption` (a start names a paid request or none).
  `OneOpen` is the heart of `AlwaysOneSubscription`: of two requests that were made one is
  `Settled`, that is expired with nothing it may have bought left; `Traced` ties a request to its
  session and subscription, `Granted` says where a caller stands that may send. `DrainInv` gives
  `AlwaysAppliedInOrder`: a drain that still has its lease read no older state than the pool was
  told.
* **Medical route** (`OrganizationProofs`, first half), from `SearchAssumption` (only ingests are retried
  under one operation: a search draws a new one). `Holding` says of an admitted call that the
  ticket is its own and what the ticket, the reservation and the provider hold at its place;
  `Waiting` what the client was told and where the content is; `Truthful` is
  `JournalsTruthful` with the order of admission and reservation. `AlwaysDisclosedUnderConsent` is
  the action property.
* **Accounts** (`OrganizationProofs`, second half). `AccountsInv` is inductive: `HeadSound` (the
  head of a scope is the last event received of it, which needs `DeletedLast`: nothing moves the
  head of a deleted account, and the issuer sends nothing after it), `ClaimSound` and
  `CredentialSound` (what is in force was proved after the head), `MemberSound` (a membership that
  was not ended rests on the claim its subject still has) and that keys and SCIM keys are of
  such memberships. `EventSound` carries it over the application of any event in any order. An
  active membership is then exactly one that was not ended, hence `AuthorityAlwaysFollowsHead` and
  `AlwaysEndsWithMembership`.
* **Index jobs** (`IndexJobsProofs`). `RowSound` counts: the row of the revision in force has
  passed as many chunks as were sent. `WorkSound` says what a worker knows *as long as its lease
  holds*, `IndexSound` that calls of the index on their way are of recorded vectors and deletions
  of unwanted ones, `DecisionSound` that a key, a created memory and an answer rest on the one
  decision. `Budget`, on top, is the error budget of the job in force (`AlwaysGivenUpAfterFailures`): it
  has no more attempts than accidents happened, plus the one of a worker that is at work on it, so it is dead
  only after `MaxAttempts` of them. The position of a sweep and the largest identifier of a page are handled with
  lemmas about the least and the largest element of a finite set.
* **Durable SQL** (`DurableObjectProofs`, last part). `RunSound` and `ObjectSound`: a run and its object
  know each other from freeze to release; `TransfersSound`: every plan the operator has, of
  whatever run, is of a settled cut; `SnapshotSound`: while D1 is read all its tables are
  fenced. From them `AlwaysStill`, `AlwaysFinal` and `AlwaysCut`.
* **Plugin** (`PluginClientProofs`). `ClientInv` says, of any faults, that hooks and checkpoints
  name files and rows they have had (`FilesSound`: a checkpoint that does not hold any more never
  holds again) and that the session of a sign-in is nobody else's until it is stored
  (`SignInsOwn`). *As long as nobody died and no answer was lost* it adds mutual exclusion by the lock
  files (`LocksSound`; the credential lock and those of the checkpoints at once), that whoever
  refreshes has the newest token and what is stored is what it replaces, or nothing after a logout
  without the lock (`TokensSound`), and that a
  checkpoint about to be replaced is not newer (`RenamesSound`); hence `OncePresented`,
  `RefreshesReplaceTheirOwn` and `CheckpointsForward`. After a death the lock can be broken and only
  `NoMessageSkipped` is left, from `HooksSound`: what lies before a hook's batch was accepted, and
  the batch too once it is answered. Its one hypothesis, `~InFlight`, is the exception that the
  property states: a transcript that is rewritten under a hook (`hook-runner.mjs:350`).

* **Browser session** (`WorkerProofs`, first half), from `SessionAssumption` (finitely many
  sign-ins, one at least). `Core` says who may hold which token: `HoldersKnown` (a token anybody
  holds was issued, and the sign-in of its family is over), `FlowsSound` (how far a sign-in has
  come), `RepliesSound` (an answer on its way tells what the issuer did) and `SoleSuccessor` (a
  successor on its way to the jar is the newest token of its family and nobody else has it).
  `CookieNeverOlder` rests on `SoleSuccessor`, since of two refreshes the older may be answered last.
  `DeadTabs` carries `DeadTabStaysOut`. `NobodyIsToldItEnded` needs `QuietSound`, which says of a
  browser to which nothing has happened and that missed no grace: the jar and every refresh
  request on its way hold the newest token of one living family or the one before it within its
  grace (`Honoured`, `Waiting`), a request never a newer one than the jar, and no tab waits for an
  answer that would end its session (`Kept`). That a grace is missed exactly when a rotation or its end
  leaves such a token behind is what makes `Honoured` inductive.
* **Personal memory** (`WorkerProofs`, second half). `AuthenticatedIs` says what each branch of
  `Authenticate` makes of the credentials of a request; `MemoryInv` carries it to the end of the
  call, over a key that is disabled meanwhile. `ViewSound` relates a view to the *current* request
  only: what it lists is in order and ends at the cursor (`Appended`: a page after the cursor keeps the
  list in order), a request that is served holds such a page, and a request of another kind,
  filter or query cannot be the current one; a request that fails leaves the list as it was, and only
  the filter it stands under is given up. The superseded request needs no invariant but its
  type, because its answer is never used. `Ranks` numbers a finite set of naturals by a
  bijection, without induction.

The library's induction theorems cannot be used here, since they take an operator. Where a
proof needs induction over a finite set (sums, largest elements) it takes a counterexample of
least cardinality instead, which exists because the order of the naturals is well-founded.

Only model-checked:

* Liveness under fairness, which is out of reach of the provers: `EventuallyAcknowledged`,
  `CleanupCompletes`, `EndedIsReleased`, `ObsoleteVectorsGo`.
* `AcknowledgedProfileEmpty`, which the code violates.


## Not modelled

* Request parsing, rendering, configuration checks, deployment scripts, the HTTP client of
  Agent Memory and the wire protocol of the Seoul database keep no state.
* Transfer and export walk over the memory store in pages and keep nothing.
* The conversion of inline memories to payloads (archive and backfill) uses the writes that
  `PayloadCatalog` models.
* What a modelled component leaves out is named in its section above and in the `note` of its
  component.

## Plan

Modelled and checked are the ledgers, the executor, the payload storage, jobs with ingestion, the
medical route, accounts, durable SQL, billing, the browser session, the personal memory and the
plugin. Of each of them every invariant and every action property that its run checks is proved.
What is left:

1. Type correctness and the frame lemmas of the executor and of the plugin repeat a case split of
   `Next`; lemmas of effect classes, as in `WorkerProofs` (`Shrinks`), would shorten them.
2. The safety part of the liveness properties: that an acknowledgement, a clean-up or a release
   is enabled in every state in which it is owed.
